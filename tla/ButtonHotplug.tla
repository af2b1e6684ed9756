--------------------------- MODULE ButtonHotplug ---------------------------
(***************************************************************************)
(* The GPIO button driver: it samples the lines of its buttons from a      *)
(* work item that a poll timer or an interrupt sets off, debounces them    *)
(* and creates an event for every change, which UeventWork delivers.       *)
(*                                                                         *)
(* Time is counted in ticks.  A timer is a countdown; the work it queues   *)
(* runs at some moment after it has reached 0.                             *)
(***************************************************************************)
EXTENDS UeventWork, FiniteSets

CONSTANTS
    Polled,       \* gpio-keys-polled, otherwise gpio-keys with interrupts
    Threshold,    \* polled: samples to wait, debounce / poll interval rounded up
    Delay,        \* ticks: the poll interval, or the software debounce time
    HZ,           \* ticks per second
    Prompt,       \* work runs before the tick after the one that made it due
    MaxAge,       \* bound: a longer time since the last event counts as this
    MaxEdges      \* bound: how often the lines change

ASSUME DriverAssumption ==
    /\ {Polled, Prompt} \subseteq BOOLEAN
    /\ {Threshold, Delay, MaxAge, MaxEdges} \subseteq Nat
    /\ HZ \in Nat \ {0}
    /\ ~Polled => Threshold = 0
    /\ Polled => Delay > 0

VARIABLES
    line,         \* the level of each GPIO line
    lastState,    \* struct gpio_keys_button_data: Unknown until the first sample
    count,        \* samples that differed from lastState
    age,          \* ticks since seen was set; Never while seen is 0
    irq,          \* the interrupt of each button
    timer,        \* the delayed work of each button, or the poll work in timer[1]
    phase,        \* how far probing and removing have come
    cur,          \* the button that a loop of the driver has reached
    edges,        \* bound: changes of the lines so far
    steady,       \* history: samples in a row of a level, or ticks since an edge
    missed,       \* history: the line has changed with no interrupt to notice
    held,         \* history: ticks since the press that is not yet over began
    hold          \* history: what held was when the button was let go, if it is

driverVars == <<lastState, count, age, irq, timer, phase, cur>>
worldVars  == <<line, edges, steady, missed, held, hold>>
vars == <<eventVars, driverVars, worldVars>>
-----------------------------------------------------------------------------
Unknown == -1
Never   == -1
Idle    == -1

\* Until probe has scheduled it, a button has no work.
Init ==
    /\ EventInit
    /\ line \in [Buttons -> {Released, Pressed}]
    /\ lastState = [b \in Buttons |-> Unknown]
    /\ count = [b \in Buttons |-> 0]
    /\ age = [b \in Buttons |-> Never]
    /\ irq = [b \in Buttons |-> "none"]
    /\ timer = [b \in Buttons |-> Idle]
    /\ phase = IF Polled THEN "queue" ELSE "schedule"
    /\ cur = 1
    /\ edges = 0
    /\ steady = [b \in Buttons |-> [level |-> line[b], n |-> 0]]
    /\ missed = [b \in Buttons |-> FALSE]
    /\ held = [b \in Buttons |-> IF line[b] = Pressed THEN 0 ELSE Never]
    /\ hold = [b \in Buttons |-> 0]

\* The time a change must last: what a press is reported late, and its end too.
Lag == IF Polled THEN Threshold * Delay ELSE Delay

Least(x, y) == IF x < y THEN x ELSE y
-----------------------------------------------------------------------------
\* Mutant: a button found released at first is advertised like any other.
Quiet_Advertised(b)   == FALSE

(***************************************************************************)
(* gpio_keys_handle_button.  Quiet: a key found released on the first      *)
(* sample, which is not advertised.  Otherwise a sample that differs from  *)
(* lastState is an event once Threshold samples before it did.             *)
(***************************************************************************)
Quiet(b)   == lastState[b] = Unknown /\ b \notin Switches /\ line[b] = Released

Changed(b) == lastState[b] # line[b] /\ ~Quiet(b)

\* Mutant: one sample more is asked for than the threshold.
Fires_Late(b)   == Changed(b) /\ count[b] > Threshold

Fires(b)   == Changed(b) /\ count[b] >= Threshold

\* (seen - bdata->seen) / HZ, with seen set to now if it was 0.
Seen(b) == IF age[b] = Never THEN 0 ELSE age[b] \div HZ

\* Mutant: a sample equal to lastState does not reset the counter.
Handle_NoReset(b) ==
    /\ lastState' = [lastState EXCEPT ![b] = IF Quiet(b) \/ Fires(b) THEN line[b] ELSE @]
    /\ count' = [count EXCEPT ![b] = IF Changed(b) /\ ~Fires(b) THEN @ + 1 ELSE IF Fires(b) THEN 0 ELSE @]
    /\ age' = [age EXCEPT ![b] = IF Fires(b) THEN 0 ELSE @]
    /\ IF Fires(b) THEN Create(b, line[b], Seen(b)) ELSE UNCHANGED eventVars
    /\ missed' = [missed EXCEPT ![b] = FALSE]
    /\ held' = [held EXCEPT ![b] = IF line[b] = Released /\ lastState'[b] = Released
                                  THEN Never ELSE @]
    /\ hold' = [hold EXCEPT ![b] = IF held'[b] = Never THEN 0 ELSE @]

\* Mutant: seen is set by the first sample only.
Handle_SeenKept(b) ==
    /\ lastState' = [lastState EXCEPT ![b] = IF Quiet(b) \/ Fires(b) THEN line[b] ELSE @]
    /\ count' = [count EXCEPT ![b] = IF Changed(b) /\ ~Fires(b) THEN @ + 1 ELSE 0]
    /\ age' = [age EXCEPT ![b] = IF @ = Never THEN 0 ELSE @]
    /\ IF Fires(b) THEN Create(b, line[b], Seen(b)) ELSE UNCHANGED eventVars
    /\ missed' = [missed EXCEPT ![b] = FALSE]
    /\ held' = [held EXCEPT ![b] = IF line[b] = Released /\ lastState'[b] = Released
                                  THEN Never ELSE @]
    /\ hold' = [hold EXCEPT ![b] = IF held'[b] = Never THEN 0 ELSE @]

Handle(b) ==
    /\ lastState' = [lastState EXCEPT ![b] = IF Quiet(b) \/ Fires(b) THEN line[b] ELSE @]
    /\ count' = [count EXCEPT ![b] = IF Changed(b) /\ ~Fires(b) THEN @ + 1 ELSE 0]
    /\ age' = [age EXCEPT ![b] = IF Fires(b) THEN 0 ELSE @]
    /\ IF Fires(b) THEN Create(b, line[b], Seen(b)) ELSE UNCHANGED eventVars
    /\ missed' = [missed EXCEPT ![b] = FALSE]
    /\ held' = [held EXCEPT ![b] = IF line[b] = Released /\ lastState'[b] = Released
                                  THEN Never ELSE @]
    /\ hold' = [hold EXCEPT ![b] = IF held'[b] = Never THEN 0 ELSE @]

\* History: the samples in a row that showed the level of this one.
Sampled(b) ==
    steady' = [steady EXCEPT ![b] =
        [level |-> line[b],
         n |-> IF @.level = line[b] THEN Least(@.n + 1, Threshold + 1) ELSE 1]]
-----------------------------------------------------------------------------
\* gpio_keys_polled_probe and gpio_keys_polled_poll.
QueuePoll ==
    /\ phase = "queue"
    /\ phase' = "bound" /\ timer' = [timer EXCEPT ![1] = Delay]
    /\ UNCHANGED <<eventVars, lastState, count, age, irq, cur, worldVars>>

PollStarts ==
    /\ Polled /\ phase = "bound" /\ timer[1] = 0
    /\ phase' = "poll" /\ timer' = [timer EXCEPT ![1] = Idle]
    /\ cur' = 1
    /\ UNCHANGED <<eventVars, lastState, count, age, irq, worldVars>>

PollButton ==
    /\ phase = "poll" /\ cur \in Buttons
    /\ Handle(cur) /\ Sampled(cur)
    /\ cur' = cur + 1
    /\ UNCHANGED <<irq, timer, phase, line, edges>>

\* Mutant: the poll work does not queue itself again.
PollEnds_NotQueued ==
    /\ phase = "poll" /\ cur \notin Buttons
    /\ phase' = "bound" /\ timer' = [timer EXCEPT ![1] = Idle]
    /\ UNCHANGED <<eventVars, lastState, count, age, irq, cur, worldVars>>

PollEnds ==
    /\ phase = "poll" /\ cur \notin Buttons
    /\ phase' = "bound" /\ timer' = [timer EXCEPT ![1] = Delay]
    /\ UNCHANGED <<eventVars, lastState, count, age, irq, cur, worldVars>>
-----------------------------------------------------------------------------
(***************************************************************************)
(* gpio_keys_probe: for one button after the other, the first sample is    *)
(* scheduled, then the interrupt is requested.  A button without an        *)
(* interrupt number is left out, one whose request fails is only sampled   *)
(* once.                                                                   *)
(***************************************************************************)
NextButton ==
    IF cur < NButtons
    THEN cur' = cur + 1 /\ phase' = "schedule"
    ELSE cur' = 1 /\ phase' = "bound"

\* Mutant: the first sample is left to the first interrupt.
ScheduleFirst_None ==
    /\ phase = "schedule"
    /\ \/ /\ timer' = [timer EXCEPT ![cur] = Idle]
          /\ phase' = "request" /\ UNCHANGED cur
       \/ "irq" \in Faults /\ NextButton /\ UNCHANGED timer
    /\ UNCHANGED <<eventVars, lastState, count, age, irq, worldVars>>

ScheduleFirst ==
    /\ phase = "schedule"
    /\ \/ /\ timer' = [timer EXCEPT ![cur] = Delay]
          /\ phase' = "request" /\ UNCHANGED cur
       \/ "irq" \in Faults /\ NextButton /\ UNCHANGED timer
    /\ UNCHANGED <<eventVars, lastState, count, age, irq, worldVars>>

RequestIrq ==
    /\ phase = "request"
    /\ \/ irq' = [irq EXCEPT ![cur] = "on"]
       \/ "irq" \in Faults /\ UNCHANGED irq
    /\ NextButton
    /\ UNCHANGED <<eventVars, lastState, count, age, timer, worldVars>>

\* gpio_keys_irq_work_func.
IrqWork(b) ==
    /\ ~Polled /\ timer[b] = 0
    /\ timer' = [timer EXCEPT ![b] = Idle]
    /\ Handle(b)
    /\ UNCHANGED <<irq, phase, cur, line, edges, steady>>
-----------------------------------------------------------------------------
(***************************************************************************)
(* gpio_keys_remove.  cancel_delayed_work_sync waits for work that runs    *)
(* and keeps it from being queued again, which is to cancel it after its   *)
(* end.  The interrupt of a button is disabled before its work is          *)
(* cancelled.                                                              *)
(***************************************************************************)
RemovePolled ==
    /\ Polled /\ phase = "bound"
    /\ phase' = "gone" /\ timer' = [timer EXCEPT ![1] = Idle]
    /\ UNCHANGED <<eventVars, lastState, count, age, irq, cur, worldVars>>

\* Mutant: the interrupt stays on while the work is cancelled.
DisableIrq_Left ==
    /\ ~Polled
    /\ \/ phase = "bound" /\ cur' = 1
       \/ phase = "disable" /\ UNCHANGED cur
    /\ phase' = "cancel"
    /\ irq' = [irq EXCEPT ![cur'] = @]
    /\ UNCHANGED <<eventVars, lastState, count, age, timer, worldVars>>

DisableIrq ==
    /\ ~Polled
    /\ \/ phase = "bound" /\ cur' = 1
       \/ phase = "disable" /\ UNCHANGED cur
    /\ phase' = "cancel"
    /\ irq' = [irq EXCEPT ![cur'] = IF @ = "on" THEN "off" ELSE @]
    /\ UNCHANGED <<eventVars, lastState, count, age, timer, worldVars>>

CancelWork ==
    /\ phase = "cancel"
    /\ timer' = [timer EXCEPT ![cur] = Idle]
    /\ IF cur < NButtons
       THEN phase' = "disable" /\ cur' = cur + 1
       ELSE phase' = "gone" /\ UNCHANGED cur
    /\ UNCHANGED <<eventVars, lastState, count, age, irq, worldVars>>
-----------------------------------------------------------------------------

(***************************************************************************)
(* The buttons and time.  An edge of the line raises the interrupt, whose  *)
(* handler, button_handle_irq, starts the countdown of the work afresh.    *)
(***************************************************************************)
Edge(b) ==
    /\ edges < MaxEdges
    /\ edges' = edges + 1
    /\ line' = [line EXCEPT ![b] = 1 - @]
    /\ IF irq[b] = "on"
       THEN timer' = [timer EXCEPT ![b] = Delay] /\ UNCHANGED missed
       ELSE missed' = [missed EXCEPT ![b] = ~Polled] /\ UNCHANGED timer
    /\ held' = [held EXCEPT ![b] = IF @ = Never THEN 0 ELSE @]
    /\ hold' = [hold EXCEPT ![b] = IF line[b] = Pressed THEN held[b] ELSE 0]
    /\ steady' = IF Polled THEN steady ELSE [steady EXCEPT ![b].n = 0]
    /\ UNCHANGED <<eventVars, lastState, count, age, irq, phase, cur>>

Tick ==
    /\ Prompt => phase # "poll" /\ \A b \in Buttons : timer[b] # 0
    /\ timer' = [b \in Buttons |-> IF timer[b] > 0 THEN timer[b] - 1 ELSE timer[b]]
    /\ age' = [b \in Buttons |-> IF age[b] = Never THEN Never ELSE Least(age[b] + 1, MaxAge)]
    /\ steady' = IF Polled THEN steady
                 ELSE [b \in Buttons |-> [steady[b] EXCEPT !.n = Least(@ + 1, Delay)]]
    /\ UNCHANGED <<eventVars, lastState, count, irq, phase, cur, line, edges, missed, hold>>
    /\ held' = [b \in Buttons |-> IF held[b] = Never THEN Never ELSE Least(held[b] + 1, MaxAge + Lag)]

Worker(i) == Work(i) /\ UNCHANGED <<driverVars, worldVars>>

Driver ==
    \/ QueuePoll \/ PollStarts \/ PollButton \/ PollEnds
    \/ ScheduleFirst \/ RequestIrq \/ CancelWork
    \/ \E b \in Buttons : IrqWork(b)

Remove == RemovePolled \/ DisableIrq

\* Nothing here reads how far the workers have come.
Front == Driver \/ Remove \/ Tick \/ \E b \in Buttons : Edge(b)

Next == Front \/ \E i \in DOMAIN events : Worker(i)

Spec == Init /\ [][Next]_vars

\* The behaviours in which no worker gets to run: what the driver does is the
\* same in all others.
FrontSpec == Init /\ [][Front]_vars

\* Timers expire, due work is run, and every worker goes on with its event.
FairSpec ==
    /\ Spec /\ WF_vars(Tick) /\ WF_vars(Driver)
    /\ \A b \in Buttons : WF_vars(IrqWork(b))
    /\ \A i \in 1 .. NButtons + MaxEdges : WF_vars(i \in DOMAIN events /\ Worker(i))
-----------------------------------------------------------------------------
Times == {Never} \cup 0 .. MaxAge

TypeOK ==
    /\ events \in Seq(Event) /\ sent \in Seq(Nat)
    /\ buf \in {"ACTION", "BUTTON", "TYPE", "SEEN", "SEQNUM"} \X Nat
    /\ seqnum \in Nat /\ edges \in 0 .. MaxEdges
    /\ line \in [Buttons -> {Released, Pressed}]
    /\ lastState \in [Buttons -> {Unknown, Released, Pressed}]
    /\ count \in [Buttons -> 0 .. Threshold]
    /\ age \in [Buttons -> Times]
    /\ irq \in [Buttons -> {"none", "on", "off"}]
    /\ timer \in [Buttons -> {Idle} \cup 0 .. Delay]
    /\ phase \in {"queue", "poll", "schedule", "request", "bound", "disable", "cancel", "gone"}
    /\ cur \in 1 .. NButtons + 1
    /\ missed \in [Buttons -> BOOLEAN]
    /\ held \in [Buttons -> {Never} \cup 0 .. MaxAge + Lag]
    /\ hold \in [Buttons -> {Never} \cup 0 .. MaxAge + Lag]

\* The last event created for button b, or 0.
LastEvent(b) ==
    LET Of == {i \in DOMAIN events : events[i].button = b}
    IN  IF Of = {} THEN 0 ELSE CHOOSE i \in Of : \A j \in Of : j <= i

\* The events of a button alternate between pressed and released, whatever was
\* lost, a key begins with pressed, and the driver's state is that of the last
\* event: user space that keeps the first sample's silence in mind can follow.
Alternate ==
    \A b \in Buttons :
        LET i == LastEvent(b) IN
        /\ i = 0 => 
               lastState[b] = Unknown \/ (b \notin Switches /\ lastState[b] = Released)
        /\ i # 0 => events[i].action = lastState[b]
        /\ \A j, k \in DOMAIN events :
              /\ events[j].button = b /\ events[k].button = b /\ j < k
              /\ \A m \in j + 1 .. k - 1 : events[m].button # b
              => events[j].action # events[k].action
        /\ \A k \in DOMAIN events :
              /\ events[k].button = b /\ b \notin Switches
              /\ \A m \in 1 .. k - 1 : events[m].button # b
              => events[k].action = Pressed

\* An event of a button whose state was known follows a level that has not moved
\* for the debounce time: Threshold samples before this one, or Delay ticks in
\* which the interrupt was on.
Debounced ==
    [][\A b \in Buttons :
          /\ Len(events') > Len(events) /\ events'[Len(events')].button = b
          /\ lastState[b] # Unknown \/ (Polled /\ b \notin Switches)
          /\ ~missed[b]
          => /\ events'[Len(events')].action = line[b]
             /\ steady'[b].n >= IF Polled THEN Threshold + 1 ELSE Delay]_vars

\* While work runs in time, SEEN of a release is not longer than the button was
\* held, from the first edge of the press to the last of the release, so that a
\* short press is not taken for the long one that resets to factory defaults.
\* Two things make SEEN longer, each by Delay at most: a polled driver may notice
\* the release an interval late; with interrupts the first sample of all is not
\* debounced, so that SEEN counts the debounce time of the release only.
SeenWithinHold ==
    [][\A b \in Buttons \ Switches :
          LET ev    == events'[Len(events')]
              first == Cardinality({i \in DOMAIN events : events[i].button = b}) = 1
          IN  /\ Prompt /\ ~missed[b]
              /\ Len(events') > Len(events) /\ ev.button = b /\ ev.action = Released
              => ev.seen * HZ <= hold[b] + (IF Polled \/ first THEN Delay ELSE 0)]_vars

\* With an interrupt and no work under way the driver knows the level of the
\* line, unless it moved between the first sample and the request.
Synced ==
    \A b \in Buttons :
        irq[b] = "on" /\ timer[b] = Idle /\ ~missed[b] => lastState[b] = line[b]

\* Once the driver is removed nothing is left that would touch its memory.
QuietAfterRemove ==
    phase = "gone" => \A b \in Buttons : timer[b] = Idle /\ irq[b] # "on"

\* Every message holds the variables of one event.
Intact ==
    \A i \in DOMAIN events : events[i].st = "sent" =>
        events[i].msg = [n \in DOMAIN Fields(events[i].button) |->
            LET f == Fields(events[i].button)[n] IN <<f, Value(events[i], f)>>]

\* Messages arrive in the order of their sequence numbers, but for one that had to
\* wait in broadcast_uevent: later ones may overtake it, and nothing else does.
InSequence ==
    \A m, n \in DOMAIN sent : m < n =>
        events[sent[m]].seq < events[sent[n]].seq \/ events[sent[n]].late

\* What user space knows of button b: its last message.
Reported(b) ==
    LET Of == {n \in DOMAIN sent : events[sent[n]].button = b}
    IN  IF Of # {} THEN events[sent[CHOOSE n \in Of : \A m \in Of : m <= n]].action
        ELSE IF b \in Switches THEN Unknown ELSE Released

\* A level that lasts is what user space is told last, unless memory was short or
\* a worker slept: an allocation that fails loses an event, and the next event
\* overtakes one that sleeps.
SettledIsReported ==
    \A b \in Buttons, s \in {Released, Pressed} :
        /\ [](\A i \in DOMAIN events : events[i].st \notin {"lost", "asleep", "wait"})
        /\ <>[](line[b] = s /\ phase \in {"bound", "poll"} /\ ~missed[b] /\ (Polled \/ irq[b] = "on"))
        => <>[](Reported(b) = s)

\* "But we are very interested in pressed buttons and initial switch state.
\* These will be reported to userland." (gpio-button-hotplug.c:271-273)
PressIsTold ==
    \A i \in DOMAIN events :
        events[i].st = "sent" /\ events[i].action = Pressed =>
            \E j \in DOMAIN events :
                /\ events[j].st = "sent"
                /\ {<<"BUTTON", events[i].button>>, <<"ACTION", Pressed>>}
                   \subseteq {events[j].msg[n] : n \in DOMAIN events[j].msg}
=============================================================================
