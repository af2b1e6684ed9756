-------------------------- MODULE UeventWorkProofs --------------------------
(***************************************************************************)
(* The steps of an event on its way to user space: what each of them does  *)
(* to the events, and what holds of the messages while one worker at a     *)
(* time uses the static buffer.                                            *)
(***************************************************************************)
EXTENDS UeventWork, TLAPS

Names == {"ACTION", "BUTTON", "TYPE", "SEEN", "SEQNUM"}

EventTypes ==
    /\ events \in Seq(Event) /\ sent \in Seq(Nat)
    /\ buf \in Names \X Nat
    /\ seqnum \in Nat

-----------------------------------------------------------------------------
\* What a worker leaves of its event, and of all others.
SameEvent(e, o) ==
    e.button = o.button /\ e.action = o.action /\ e.seen = o.seen /\ e.cpu = o.cpu

\* A new event, before a worker has seen it.
LEMMA NewEventType ==
    ASSUME NEW b \in Buttons, NEW a \in {Released, Pressed}, NEW s \in Nat, NEW c \in Cpus,
           NEW st \in States
    PROVE  NewEvent(b, a, s, c, st) \in Event
BY DEF NewEvent, Event

LEMMA CreateAppends ==
    ASSUME EventTypes, NEW b \in Buttons, NEW a \in {Released, Pressed}, NEW s \in Nat,
           Create(b, a, s)
    PROVE  /\ EventTypes'
           /\ \E e \in Event :
                 /\ events' = Append(events, e)
                 /\ e.button = b /\ e.action = a /\ e.seen = s
                 /\ e.msg = <<>> /\ e.seq = 0 /\ e.st \in {"queued", "lost"}
<1>1. PICK c \in Cpus, st \in {"queued", "lost"} : events' = Append(events, NewEvent(b, a, s, c, st))
  BY Zenon DEF Create
<1>2. NewEvent(b, a, s, c, st) \in Event
  BY NewEventType DEF States
<1>3. events' \in Seq(Event)
  BY <1>1, <1>2 DEF EventTypes
<1>4. EventTypes'
  BY <1>3 DEF EventTypes, Create
<1>5. QED
  BY <1>1, <1>2, <1>4 DEF NewEvent

\* The names of an event's variables are names, their values numbers.
LEMMA FieldsValue ==
    ASSUME NEW e \in Event
    PROVE  /\ Fields(e.button) \in Seq(Names)
           /\ Len(Fields(e.button)) \in Nat
           /\ \A f \in Names : Value(e, f) \in Nat
<1>1. e.button \in Nat /\ e.action \in Nat /\ e.seen \in Nat /\ e.seq \in Nat
  BY DEF Event, Buttons, Released, Pressed
<1>2. \A f \in Names : Value(e, f) \in Nat
  BY <1>1 DEF Value, Names
<1>3. CASE e.button \in Switches
  <2>1. <<"ACTION", "BUTTON", "TYPE", "SEEN", "SEQNUM">> \in Seq(Names)
    BY DEF Names
  <2>2. QED
    BY <1>2, <1>3, <2>1 DEF Fields
<1>4. CASE e.button \notin Switches
  <2>1. <<"ACTION", "BUTTON", "SEEN", "SEQNUM">> \in Seq(Names)
    BY DEF Names
  <2>2. QED
    BY <1>2, <1>4, <2>1 DEF Fields
<1>5. QED
  BY <1>3, <1>4

\* A worker replaces its event by one of the same button, action and time.
LEMMA WorkReplaces ==
    ASSUME EventTypes, NEW i \in DOMAIN events, Work(i)
    PROVE  /\ EventTypes'
           /\ \E e \in Event : events' = [events EXCEPT ![i] = e] /\ SameEvent(e, events[i])
<1> DEFINE ev == events[i]
<1>1. ev \in Event /\ i \in Nat
  BY DEF EventTypes
<1>2. ASSUME NEW e \in Event, events' = [events EXCEPT ![i] = e]
      PROVE  events' \in Seq(Event)
  BY <1>2 DEF EventTypes
<1>3. ASSUME NEW from, NEW to \in States, Moves(i, from, to)
      PROVE  \E e \in Event : events' = [events EXCEPT ![i] = e] /\ SameEvent(e, events[i])
  <2>1. [ev EXCEPT !.st = to] \in Event /\ SameEvent([ev EXCEPT !.st = to], ev)
    BY <1>1 DEF Event, SameEvent
  <2>2. events' = [events EXCEPT ![i] = [ev EXCEPT !.st = to]]
    BY <1>3 DEF Moves
  <2>3. QED
    BY <2>1, <2>2
<1>4. CASE Claim(i) \/ AllocSkb(i) \/ AllocFails(i)
  <2>1. \E from \in States : \E to \in States : Moves(i, from, to)
    <3>1. {"queued", "alloc", "asleep", "fill", "lost"} \subseteq States
      BY DEF States
    <3>2. \/ Moves(i, "queued", "alloc") \/ Moves(i, "alloc", "fill") \/ Moves(i, "alloc", "asleep")
          \/ Moves(i, "asleep", "fill") \/ Moves(i, "alloc", "lost") \/ Moves(i, "asleep", "lost")
      <4>1. Claim(i) => Moves(i, "queued", "alloc")
        BY Zenon DEF Claim
      <4>2. AllocSkb(i) => \/ Moves(i, "alloc", "fill") \/ Moves(i, "alloc", "asleep")
                          \/ Moves(i, "asleep", "fill")
        BY Zenon DEF AllocSkb
      <4>3. AllocFails(i) => Moves(i, "alloc", "lost") \/ Moves(i, "asleep", "lost")
        BY Zenon DEF AllocFails
      <4>4. QED
        BY <1>4, <4>1, <4>2, <4>3, Zenon
    <3>3. QED
      BY <3>1, <3>2
  <2>2. UNCHANGED <<buf, seqnum, sent>>
    BY <1>4, Zenon DEF Claim, AllocSkb, AllocFails
  <2>3. QED
    BY <1>2, <1>3, <2>1, <2>2 DEF EventTypes
<1>5. CASE Format(i)
  <2> DEFINE f  == Fields(ev.button)[Len(ev.msg) + 1]
             sq == IF f = "SEQNUM" THEN seqnum + 1 ELSE ev.seq
             e  == [ev EXCEPT !.st = "copy", !.seq = sq]
  <2>1. ev.msg \in Seq(Names \X Nat) /\ Len(ev.msg) < Len(Fields(ev.button))
    BY <1>1, <1>5 DEF Format, Event, Names
  <2>2. f \in Names
    BY <1>1, <2>1, FieldsValue
  <2>3. sq \in Nat
    BY <1>1 DEF EventTypes, Event
  <2>4. e \in Event /\ SameEvent(e, ev) /\ [ev EXCEPT !.seq = sq] \in Event
    BY <1>1, <2>3 DEF Event, States, SameEvent
  <2>5. events' = [events EXCEPT ![i] = e]
    BY <1>5 DEF Format
  <2>6. buf' \in Names \X Nat
    <3>1. Value([ev EXCEPT !.seq = sq], f) \in Nat
      BY <2>2, <2>4, FieldsValue
    <3>2. buf' = <<f, Value([ev EXCEPT !.seq = sq], f)>>
      BY <1>5 DEF Format
    <3>3. QED
      BY <2>2, <3>1, <3>2
  <2>7. seqnum' \in Nat /\ sent' = sent
    BY <1>5, <2>3 DEF Format, EventTypes
  <2>8. QED
    BY <1>2, <2>4, <2>5, <2>6, <2>7 DEF EventTypes
<1>6. CASE CopyVar(i)
  <2> DEFINE e == [ev EXCEPT !.st = "fill", !.msg = Append(ev.msg, buf)]
  <2>1. Append(ev.msg, buf) \in Seq(Names \X Nat)
    BY <1>1 DEF EventTypes, Event, Names
  <2>2. e \in Event /\ SameEvent(e, ev)
    BY <1>1, <2>1 DEF Event, States, SameEvent, Names
  <2>3. events' = [events EXCEPT ![i] = e] /\ UNCHANGED <<buf, seqnum, sent>>
    BY <1>6 DEF CopyVar
  <2>4. QED
    BY <1>2, <2>2, <2>3 DEF EventTypes
<1>7. ASSUME NEW st \in {"wait", "sent", "lost"}, NEW l \in BOOLEAN,
             events' = [events EXCEPT ![i].st = st, ![i].late = l]
      PROVE  \E e \in Event : events' = [events EXCEPT ![i] = e] /\ SameEvent(e, events[i])
  <2> DEFINE e == [ev EXCEPT !.st = st, !.late = l]
  <2>1. e \in Event /\ SameEvent(e, ev)
    BY <1>1 DEF Event, States, SameEvent
  <2>2. events' = [events EXCEPT ![i] = e]
    BY <1>7
  <2>3. QED
    BY <2>1, <2>2
<1>8. CASE Sleeps(i)
  <2>1. Complete(ev) \in BOOLEAN
    BY DEF Complete
  <2>2. events' = [events EXCEPT ![i].st = "wait", ![i].late = Complete(ev)]
        /\ UNCHANGED <<buf, seqnum, sent>>
    BY <1>8 DEF Sleeps
  <2>3. QED
    BY <1>2, <1>7, <2>1, <2>2 DEF EventTypes
<1>9. CASE Broadcast(i)
  <2>1. PICK st \in {"sent", "lost"} : events' = [events EXCEPT ![i].st = st]
    BY <1>9, Zenon DEF Broadcast
  <2>2. events' = [events EXCEPT ![i].st = st, ![i].late = ev.late] /\ ev.late \in BOOLEAN
    BY <1>1, <2>1 DEF Event, EventTypes
  <2>3. UNCHANGED <<buf, seqnum>> /\ (sent' = sent \/ sent' = Append(sent, i))
    BY <1>9, Zenon DEF Broadcast
  <2>4. sent \in Seq(Nat) /\ Append(sent, i) \in Seq(Nat)
    BY <1>1 DEF EventTypes
  <2>5. sent' \in Seq(Nat)
    BY <2>3, <2>4, Zenon
  <2>6. QED
    BY <1>2, <1>7, <2>2, <2>3, <2>5 DEF EventTypes
<1>10. QED
  BY <1>4, <1>5, <1>6, <1>8, <1>9 DEF Work
-----------------------------------------------------------------------------
(***************************************************************************)
(* One worker at a time: all events run on one CPU, and none that slept    *)
(* wakes up beside another.                                                *)
(***************************************************************************)
SerialDelivery ==
    /\ \A c, d \in Cpus : c = d
    /\ Preempt => "sleep" \notin Faults /\ "contend" \notin Faults

OneRunning ==
    /\ \A i, j \in DOMAIN events : Running(events[i]) /\ Running(events[j]) => i = j
    /\ "sleep" \notin Faults => \A i \in DOMAIN events : events[i].st # "asleep"
    /\ "contend" \notin Faults => \A i \in DOMAIN events : events[i].st # "wait"

\* The variable that a message of event e holds in place n.
Entry(e, n) == <<Fields(e.button)[n], Value(e, Fields(e.button)[n])>>

\* The message so far is the event's own, and so is a value in the buffer b.
OwnMessage(e, b) ==
    /\ Len(e.msg) <= Len(Fields(e.button))
    /\ \A n \in 1 .. Len(e.msg) : e.msg[n] = Entry(e, n)
    /\ e.st \in {"queued", "alloc", "asleep"} => e.msg = <<>>
    /\ e.st = "copy" => /\ Len(e.msg) < Len(Fields(e.button))
                        /\ b = Entry(e, Len(e.msg) + 1)
    /\ e.st = "sent" => Len(e.msg) = Len(Fields(e.button))

\* An event that has its sequence number and is yet to be broadcast, and did not
\* have to wait.
Numbered(e) ==
    \/ e.st = "fill" /\ Len(e.msg) = Len(Fields(e.button))
    \/ e.st = "copy" /\ Len(e.msg) + 1 = Len(Fields(e.button))

OwnMessages == \A i \in DOMAIN events : OwnMessage(events[i], buf)

\* Numbers are given out in the order of the broadcasts, but for the events that
\* had to wait.
Numbers ==
    /\ \A n \in DOMAIN sent : /\ sent[n] \in DOMAIN events
                             /\ events[sent[n]].st = "sent"
                             /\ events[sent[n]].seq <= seqnum
    /\ \A m, n \in DOMAIN sent : m < n =>
          events[sent[m]].seq < events[sent[n]].seq \/ events[sent[n]].late
    /\ \A i \in DOMAIN events : events[i].st = "wait" /\ Complete(events[i]) =>
          events[i].late /\ events[i].seq <= seqnum
    /\ \A i \in DOMAIN events : Numbered(events[i]) =>
          /\ events[i].seq = seqnum
          /\ \A n \in DOMAIN sent : events[sent[n]].seq < seqnum

SerialInv == OneRunning /\ OwnMessages /\ Numbers
-----------------------------------------------------------------------------
\* The sequence number is the last variable of a message, and only there.
LEMMA FieldsEnd ==
    ASSUME NEW b
    PROVE  /\ Len(Fields(b)) \in Nat \ {0}
           /\ \A n \in 1 .. Len(Fields(b)) : Fields(b)[n] = "SEQNUM" <=> n = Len(Fields(b))
<1>1. CASE b \in Switches
  <2>1. Fields(b) = <<"ACTION", "BUTTON", "TYPE", "SEEN", "SEQNUM">>
    BY <1>1 DEF Fields
  <2>2. QED
    BY <2>1
<1>2. CASE b \notin Switches
  <2>1. Fields(b) = <<"ACTION", "BUTTON", "SEEN", "SEQNUM">>
    BY <1>2 DEF Fields
  <2>2. QED
    BY <2>1
<1>3. QED
  BY <1>1, <1>2

\* A variable other than the sequence number does not change with it.
LEMMA EntryKept ==
    ASSUME NEW o \in Event, NEW e \in Event, SameEvent(e, o),
           NEW n \in 1 .. Len(Fields(o.button)),
           e.seq = o.seq \/ n # Len(Fields(o.button))
    PROVE  Entry(e, n) = Entry(o, n)
<1> DEFINE f == Fields(o.button)[n]
<1>1. f \in Names
  BY FieldsValue DEF Names
<1>2. e.seq = o.seq \/ f # "SEQNUM"
  BY FieldsEnd
<1>3. Value(e, f) = Value(o, f)
  BY <1>1, <1>2 DEF Value, SameEvent, Names
<1>4. QED
  BY <1>3 DEF Entry, SameEvent

\* A worker that goes on with its message, or with its allocation, has the CPU for
\* itself.
LEMMA GoesOnAlone ==
    ASSUME SerialDelivery, EventTypes, OneRunning, NEW i \in DOMAIN events,
           \/ Running(events[i]) \/ GoesOn(i) \/ CpuFree(events[i].cpu)
           \/ events[i].st = "asleep" /\ MayWake(i)
    PROVE  \A j \in DOMAIN events \ {i} : ~Running(events[j])
<1>1. \A j \in DOMAIN events : events[j].cpu = events[i].cpu
  <2>1. \A j \in DOMAIN events : events[j] \in Event
    BY DEF EventTypes
  <2>2. \A j \in DOMAIN events : events[j].cpu \in Cpus
    BY <2>1 DEF Event
  <2>3. QED
    BY <2>2 DEF SerialDelivery
<1>2. CASE CpuFree(events[i].cpu)
  BY <1>1, <1>2 DEF CpuFree
<1>3. CASE Running(events[i])
  BY <1>3 DEF OneRunning
<1>4. CASE events[i].st \in {"asleep", "wait"} /\ MayWake(i)
  BY <1>2, <1>4 DEF MayWake, SerialDelivery, OneRunning
<1>5. QED
  BY <1>2, <1>3, <1>4 DEF GoesOn, Running

\* With one CPU no worker runs while another does.
LEMMA WorkOneRunning ==
    ASSUME SerialDelivery, EventTypes, OneRunning, NEW i \in DOMAIN events, Work(i)
    PROVE  OneRunning'
<1>1. PICK e \in Event : events' = [events EXCEPT ![i] = e] /\ SameEvent(e, events[i])
  BY WorkReplaces
<1>2. /\ DOMAIN events' = DOMAIN events /\ events'[i] = e
      /\ \A j \in DOMAIN events \ {i} : events'[j] = events[j]
  BY <1>1 DEF EventTypes
<1>3. ASSUME \A j \in DOMAIN events \ {i} : ~Running(events[j]),
             e.st = "asleep" => "sleep" \in Faults, e.st = "wait" => "contend" \in Faults
      PROVE  OneRunning'
  BY <1>2, <1>3 DEF OneRunning
<1>4. ASSUME NEW from, NEW to, Moves(i, from, to)
      PROVE  events[i].st = from /\ e.st = to
  BY <1>2, <1>4 DEF Moves, EventTypes, Event
<1>5. CASE Claim(i)
  <2>1. CpuFree(events[i].cpu) /\ Moves(i, "queued", "alloc")
    BY <1>5 DEF Claim
  <2>2. QED
    BY <1>3, <1>4, <2>1, GoesOnAlone
<1>6. CASE AllocSkb(i) \/ AllocFails(i)
  <2>1. \/ events[i].st = "alloc"
        \/ events[i].st = "asleep" /\ MayWake(i)
    BY <1>6, <1>4, Zenon DEF AllocSkb, AllocFails
  <2>2. e.st \in {"fill", "lost"} \/ (e.st = "asleep" /\ "sleep" \in Faults)
    BY <1>6, <1>4, Zenon DEF AllocSkb, AllocFails
  <2>3. QED
    BY <1>3, <2>1, <2>2, GoesOnAlone DEF Running
<1>7. CASE Sleeps(i)
  <2>1. events[i].st = "fill" /\ "contend" \in Faults /\ e.st = "wait"
    BY <1>2, <1>7 DEF Sleeps, EventTypes, Event
  <2>2. QED
    BY <1>3, <2>1, GoesOnAlone DEF Running
<1>8. CASE Format(i) \/ CopyVar(i) \/ Broadcast(i)
  <2>1. GoesOn(i) \/ Running(events[i])
    BY <1>8 DEF Format, CopyVar, Broadcast, Running
  <2>2. e.st \in {"copy", "fill", "sent", "lost"}
    <3>1. CASE Format(i)
      BY <1>2, <3>1 DEF Format, EventTypes, Event
    <3>2. CASE CopyVar(i)
      BY <1>2, <3>2 DEF CopyVar, EventTypes, Event
    <3>3. CASE Broadcast(i)
      BY <1>2, <3>3 DEF Broadcast, EventTypes, Event
    <3>4. QED
      BY <1>8, <3>1, <3>2, <3>3
  <2>3. QED
    BY <1>3, <2>1, <2>2, GoesOnAlone
<1>9. QED
  BY <1>5, <1>6, <1>7, <1>8 DEF Work

\* A message that nobody touches stays its event's own.
LEMMA OwnKept ==
    ASSUME NEW o \in Event, NEW e \in Event, NEW b, NEW c, SameEvent(e, o), OwnMessage(o, b),
           e.seq = o.seq, e.msg = o.msg,
           e.st = "copy" => o.st = "copy" /\ c = b,
           e.st \in {"queued", "alloc", "asleep"} => o.msg = <<>>,
           e.st = "sent" => Len(o.msg) = Len(Fields(o.button))
    PROVE  OwnMessage(e, c)
<1>1. Fields(e.button) = Fields(o.button) /\ Len(Fields(o.button)) \in Nat
  BY FieldsEnd DEF SameEvent
<1>2. o.msg \in Seq(Names \X Nat) /\ Len(o.msg) \in Nat
  BY DEF Event, Names
<1>3. \A n \in 1 .. Len(Fields(o.button)) : Entry(e, n) = Entry(o, n)
  BY EntryKept
<1>4. \A n \in 1 .. Len(e.msg) : e.msg[n] = Entry(e, n)
  BY <1>1, <1>2, <1>3 DEF OwnMessage
<1>5. ASSUME e.st = "copy"
      PROVE  Len(e.msg) < Len(Fields(e.button)) /\ c = Entry(e, Len(e.msg) + 1)
  <2>1. Len(o.msg) < Len(Fields(o.button)) /\ b = Entry(o, Len(o.msg) + 1)
    BY <1>5 DEF OwnMessage
  <2>2. Len(o.msg) + 1 \in 1 .. Len(Fields(o.button))
    BY <1>1, <1>2, <2>1
  <2>3. QED
    BY <1>1, <1>3, <1>5, <2>1, <2>2
<1>6. QED
  BY <1>1, <1>4, <1>5 DEF OwnMessage

\* What the steps of a worker other than the copying make of its event.
LEMMA WorkOwnEvent ==
    ASSUME SerialDelivery, EventTypes, OneRunning, OwnMessages, NEW i \in DOMAIN events, Work(i)
    PROVE  OwnMessage(events'[i], buf')
<1> DEFINE ev == events[i]
<1>1. ev \in Event /\ OwnMessage(ev, buf) /\ events \in Seq(Event)
  BY DEF EventTypes, OwnMessages
<1>2. /\ ev.msg \in Seq(Names \X Nat) /\ Len(ev.msg) \in Nat
      /\ Len(Fields(ev.button)) \in Nat
  BY <1>1, FieldsEnd DEF Event, Names
<1>3. ASSUME NEW from, NEW to \in States \ {"copy"}, Moves(i, from, to), UNCHANGED buf,
             from \in {"queued", "alloc", "asleep", "fill"},
             to \in {"queued", "alloc", "asleep"} => from \in {"queued", "alloc"},
             to = "sent" => Len(ev.msg) = Len(Fields(ev.button))
      PROVE  OwnMessage(events'[i], buf')
  <2> DEFINE e == [ev EXCEPT !.st = to]
  <2>1. e \in Event /\ SameEvent(e, ev) /\ e.seq = ev.seq /\ e.msg = ev.msg /\ e.st = to
    BY <1>1 DEF Event, SameEvent
  <2>2. ev.st = from /\ events'[i] = e
    BY <1>1, <1>3 DEF Moves
  <2>3. to \in {"queued", "alloc", "asleep"} => ev.msg = <<>>
    BY <1>1, <1>3, <2>2 DEF OwnMessage
  <2>4. OwnMessage(e, buf)
    BY <1>1, <1>3, <2>1, <2>3, OwnKept
  <2>5. QED
    BY <1>3, <2>2, <2>4
<1>4. CASE Claim(i)
  <2>1. Moves(i, "queued", "alloc") /\ UNCHANGED buf
    BY <1>4 DEF Claim
  <2>2. QED
    BY <1>3, <2>1 DEF States
<1>5. CASE AllocSkb(i)
  <2>1. /\ Moves(i, "alloc", "fill") \/ Moves(i, "alloc", "asleep") \/ Moves(i, "asleep", "fill")
        /\ UNCHANGED buf
    BY <1>5, Zenon DEF AllocSkb
  <2>2. QED
    BY <1>3, <2>1 DEF States
<1>6. CASE AllocFails(i)
  <2>1. (Moves(i, "alloc", "lost") \/ Moves(i, "asleep", "lost")) /\ UNCHANGED buf
    BY <1>6, Zenon DEF AllocFails
  <2>2. QED
    BY <1>3, <2>1 DEF States
<1>7. CASE Sleeps(i) \/ Broadcast(i)
  <2>1. PICK e \in Event : events' = [events EXCEPT ![i] = e] /\ SameEvent(e, ev)
    BY WorkReplaces
  <2>2. /\ events'[i] = e /\ e.seq = ev.seq /\ e.msg = ev.msg /\ UNCHANGED buf
        /\ e.st \in {"wait", "sent", "lost"}
        /\ e.st = "sent" => Len(ev.msg) = Len(Fields(ev.button))
    <3>1. CASE Sleeps(i)
      BY <1>1, <2>1, <3>1, SMTT(60) DEF Sleeps, Event
    <3>2. CASE Broadcast(i)
      BY <1>1, <2>1, <3>2 DEF Broadcast, Complete, Event
    <3>3. QED
      BY <1>7, <3>1, <3>2
  <2>3. OwnMessage(e, buf)
    BY <1>1, <2>1, <2>2, OwnKept
  <2>4. QED
    BY <2>2, <2>3
<1>8. CASE Format(i)
  <2> DEFINE f  == Fields(ev.button)[Len(ev.msg) + 1]
             sq == IF f = "SEQNUM" THEN seqnum + 1 ELSE ev.seq
             e  == [ev EXCEPT !.st = "copy", !.seq = sq]
  <2>1. /\ Len(ev.msg) < Len(Fields(ev.button))
        /\ events'[i] = e
        /\ buf' = <<f, Value([ev EXCEPT !.seq = sq], f)>>
    BY <1>1, <1>8 DEF Format
  <2>2. sq \in Nat
    BY <1>1, SMTT(60) DEF EventTypes, Event
  <2>3. /\ e \in Event /\ SameEvent(e, ev) /\ e.msg = ev.msg /\ e.st = "copy" /\ e.seq = sq
        /\ [ev EXCEPT !.seq = sq] \in Event /\ SameEvent([ev EXCEPT !.seq = sq], e)
        /\ [ev EXCEPT !.seq = sq].seq = sq
    BY <1>1, <2>2 DEF Event, States, SameEvent
  <2>4. Len(ev.msg) + 1 \in 1 .. Len(Fields(ev.button)) /\ Fields(e.button) = Fields(ev.button)
    BY <1>2, <2>1, <2>3 DEF SameEvent
  <2>5. buf' = Entry(e, Len(ev.msg) + 1)
    <3>1. f \in Names
      BY <1>1, <2>4, FieldsValue, SMTT(60)
    <3>2. Value([ev EXCEPT !.seq = sq], f) = Value(e, f)
      BY <2>3, <3>1 DEF Value, SameEvent, Names
    <3>3. QED
      BY <2>1, <2>4, <3>2 DEF Entry
  <2>6. \A n \in 1 .. Len(ev.msg) : ev.msg[n] = Entry(e, n)
    <3>1. TAKE n \in 1 .. Len(ev.msg)
    <3>2. n \in 1 .. Len(Fields(ev.button)) /\ n # Len(Fields(ev.button))
      BY <1>2, <2>1
    <3>3. QED
      BY <1>1, <2>3, <3>2, EntryKept DEF OwnMessage
  <2>7. OwnMessage(e, buf')
    <3> HIDE DEF e, f, sq
    <3>1. QED
      BY <1>2, <2>1, <2>3, <2>4, <2>5, <2>6 DEF OwnMessage
  <2>8. QED
    BY <2>1, <2>7
<1>9. CASE CopyVar(i)
  <2> DEFINE e == [ev EXCEPT !.st = "fill", !.msg = Append(ev.msg, buf)]
  <2>1. ev.st = "copy" /\ events'[i] = e
    BY <1>1, <1>9 DEF CopyVar
  <2>2. Len(ev.msg) < Len(Fields(ev.button)) /\ buf = Entry(ev, Len(ev.msg) + 1)
    BY <1>1, <2>1 DEF OwnMessage
  <2>3. /\ e \in Event /\ SameEvent(e, ev) /\ e.st = "fill" /\ e.seq = ev.seq
        /\ e.msg = Append(ev.msg, buf)
    <3>1. Append(ev.msg, buf) \in Seq(Names \X Nat)
      BY <1>2 DEF EventTypes
    <3>2. QED
      BY <1>1, <3>1 DEF Event, States, SameEvent, Names
  <2>4. Len(e.msg) = Len(ev.msg) + 1 /\ Fields(e.button) = Fields(ev.button)
    BY <1>2, <2>3 DEF SameEvent, EventTypes
  <2>5. \A n \in 1 .. Len(e.msg) : e.msg[n] = Entry(e, n)
    <3>1. TAKE n \in 1 .. Len(e.msg)
    <3>2. n \in 1 .. Len(Fields(ev.button))
      BY <1>2, <2>2, <2>4
    <3>3. Entry(e, n) = Entry(ev, n)
      BY <1>1, <2>3, <3>2, EntryKept
    <3>4. e.msg[n] = IF n = Len(ev.msg) + 1 THEN buf ELSE ev.msg[n]
      BY <1>2, <2>3, <2>4 DEF EventTypes
    <3>5. n # Len(ev.msg) + 1 => n \in 1 .. Len(ev.msg)
      BY <1>2, <2>4
    <3>6. QED
      BY <1>1, <2>2, <3>3, <3>4, <3>5 DEF OwnMessage
  <2>6. OwnMessage(e, buf')
    <3> HIDE DEF e
    <3>1. QED
      BY <1>2, <2>2, <2>3, <2>4, <2>5 DEF OwnMessage
  <2>7. QED
    BY <2>1, <2>6
<1>10. QED
  BY <1>4, <1>5, <1>6, <1>7, <1>8, <1>9 DEF Work

LEMMA WorkOwnMessages ==
    ASSUME SerialDelivery, EventTypes, OneRunning, OwnMessages, NEW i \in DOMAIN events, Work(i)
    PROVE  OwnMessages'
<1>1. \A j \in DOMAIN events : events[j] \in Event /\ OwnMessage(events[j], buf)
  BY DEF EventTypes, OwnMessages
<1>2. DOMAIN events' = DOMAIN events /\ \A j \in DOMAIN events : j # i => events'[j] = events[j]
  BY WorkReplaces DEF EventTypes
<1>3. OwnMessage(events'[i], buf')
  BY WorkOwnEvent
<1>4. buf' = buf \/ \A j \in DOMAIN events \ {i} : ~Running(events[j])
  <2>1. Format(i) => GoesOn(i)
    BY DEF Format
  <2>2. ~Format(i) => buf' = buf
    BY Zenon DEF Work, Claim, AllocSkb, AllocFails, Sleeps, CopyVar, Broadcast
  <2>3. QED
    BY <2>1, <2>2, GoesOnAlone
<1>5. ASSUME NEW j \in DOMAIN events, j # i PROVE OwnMessage(events[j], buf')
  <2>1. events[j].st = "copy" => buf' = buf
    BY <1>4, <1>5 DEF Running
  <2>2. QED
    BY <1>1, <2>1 DEF OwnMessage
<1>6. QED
  BY <1>2, <1>3, <1>5 DEF OwnMessages
-----------------------------------------------------------------------------
\* A worker that runs is the only one that can have a number without having waited.
LEMMA WorkNumbers ==
    ASSUME SerialDelivery, EventTypes, OneRunning, OwnMessages, Numbers, NEW i \in DOMAIN events, Work(i)
    PROVE  Numbers'
<1> DEFINE ev == events[i]
<1>1. /\ ev \in Event /\ OwnMessage(ev, buf)
      /\ \A j \in DOMAIN events : events[j] \in Event
  BY DEF EventTypes, OwnMessages
<1>2. /\ ev.msg \in Seq(Names \X Nat) /\ Len(ev.msg) \in Nat
      /\ Len(Fields(ev.button)) \in Nat \ {0}
  BY <1>1, FieldsEnd DEF Event, Names
<1>3. /\ DOMAIN events' = DOMAIN events
      /\ \A j \in DOMAIN events : j # i => events'[j] = events[j]
  BY WorkReplaces DEF EventTypes
<1>4. \A j \in DOMAIN events : Numbered(events[j]) => Running(events[j])
  BY DEF Numbered, Running
<1>5. ev.st # "sent" => \A n \in DOMAIN sent : sent[n] # i
  BY DEF Numbers
<1>6. ASSUME NEW from, NEW to, Moves(i, from, to), UNCHANGED <<seqnum, sent>>,
             from # "sent", to \notin {"copy", "sent"},
             to \notin {"wait"}, to = "fill" => from \in {"alloc", "asleep"}
      PROVE  Numbers'
  <2>1. ev.st = from /\ events'[i] = [ev EXCEPT !.st = to]
    BY <1>6 DEF Moves, EventTypes
  <2>2. \A n \in DOMAIN sent : sent[n] \in DOMAIN events /\ events'[sent[n]] = events[sent[n]]
    BY <1>3, <1>5, <1>6, <2>1 DEF Numbers
  <2>3. ~Numbered(events'[i])
    <3>1. events'[i].st = to /\ events'[i].msg = ev.msg /\ events'[i].button = ev.button
      BY <1>1, <2>1 DEF Event
    <3>2. to = "fill" => ev.msg = <<>>
      BY <1>1, <1>6, <2>1 DEF OwnMessage
    <3>3. QED
      BY <1>2, <1>6, <3>1, <3>2 DEF Numbered
  <2>4. events'[i].st # "wait"
    BY <1>1, <1>6, <2>1 DEF Event
  <2>5. \A j \in DOMAIN events : j # i => Complete(events'[j]) = Complete(events[j])
    BY <1>3 DEF Complete
  <2>6. QED
    BY <1>3, <1>6, <2>2, <2>3, <2>4, <2>5 DEF Numbers
<1>7. CASE Claim(i)
  BY <1>6, <1>7 DEF Claim
<1>8. CASE AllocSkb(i)
  <2>1. /\ Moves(i, "alloc", "fill") \/ Moves(i, "alloc", "asleep") \/ Moves(i, "asleep", "fill")
        /\ UNCHANGED <<seqnum, sent>>
    BY <1>8, Zenon DEF AllocSkb
  <2>2. QED
    BY <1>6, <2>1
<1>9. CASE AllocFails(i)
  <2>1. (Moves(i, "alloc", "lost") \/ Moves(i, "asleep", "lost")) /\ UNCHANGED <<seqnum, sent>>
    BY <1>9, Zenon DEF AllocFails
  <2>2. QED
    BY <1>6, <2>1
<1>10. ASSUME \A j \in DOMAIN events \ {i} : ~Running(events[j]), ev.st # "sent",
              NEW e \in Event, events'[i] = e, e.st = "wait" /\ Complete(e) => e.late /\ e.seq <= seqnum
       PROVE  /\ \A j \in DOMAIN events : events'[j].st = "wait" /\ Complete(events'[j])
                                         => events'[j].late /\ events'[j].seq <= seqnum
              /\ \A j \in DOMAIN events : Numbered(events'[j]) => j = i /\ Numbered(e)
              /\ \A n \in DOMAIN sent : /\ sent[n] \in DOMAIN events /\ sent[n] # i
                                       /\ events'[sent[n]] = events[sent[n]]
  <2>1. \A j \in DOMAIN events : j # i => ~Numbered(events[j])
    BY <1>4, <1>10
  <2>2. \A n \in DOMAIN sent : sent[n] # i
    BY <1>5, <1>10
  <2>3. \A j \in DOMAIN events : j # i => Complete(events'[j]) = Complete(events[j])
    BY <1>3 DEF Complete
  <2>4. QED
    BY <1>3, <1>10, <2>1, <2>2, <2>3 DEF Numbers
<1>11. CASE Format(i)
  <2> DEFINE f  == Fields(ev.button)[Len(ev.msg) + 1]
             sq == IF f = "SEQNUM" THEN seqnum + 1 ELSE ev.seq
             e  == [ev EXCEPT !.st = "copy", !.seq = sq]
  <2>1. /\ GoesOn(i) /\ Len(ev.msg) < Len(Fields(ev.button))
        /\ events'[i] = e /\ sent' = sent
        /\ seqnum' = IF f = "SEQNUM" THEN sq ELSE seqnum
    BY <1>1, <1>11 DEF Format, EventTypes
  <2>2. e \in Event /\ e.st = "copy" /\ e.seq = sq /\ e.msg = ev.msg /\ e.button = ev.button
    <3>1. sq \in Nat
      BY <1>1 DEF Event, EventTypes
    <3> HIDE DEF sq, f
    <3>2. QED
      BY <1>1, <3>1 DEF Event, States
  <2>3. (\A j \in DOMAIN events \ {i} : ~Running(events[j])) /\ ev.st # "sent"
    BY <2>1, GoesOnAlone DEF GoesOn
  <2>4. f = "SEQNUM" <=> Len(ev.msg) + 1 = Len(Fields(ev.button))
    <3>1. Len(ev.msg) + 1 \in 1 .. Len(Fields(ev.button))
      BY <1>2, <2>1
    <3>2. QED
      BY <3>1, FieldsEnd
  <2>5. Numbered(e) => f = "SEQNUM"
    BY <2>2, <2>4 DEF Numbered
  <2>6. seqnum \in Nat /\ seqnum' \in Nat /\ seqnum <= seqnum'
    BY <2>1 DEF EventTypes
  <2>7. Numbered(e) => e.seq = seqnum' /\ seqnum < seqnum'
    BY <2>1, <2>2, <2>5 DEF EventTypes
  <2> HIDE DEF e, f, sq
  <2>8. /\ \A j \in DOMAIN events : events'[j].st = "wait" /\ Complete(events'[j])
                                   => events'[j].late /\ events'[j].seq <= seqnum
        /\ \A j \in DOMAIN events : Numbered(events'[j]) => j = i /\ Numbered(e)
        /\ \A n \in DOMAIN sent : /\ sent[n] \in DOMAIN events /\ sent[n] # i
                                 /\ events'[sent[n]] = events[sent[n]]
    BY <1>10, <2>1, <2>2, <2>3
  <2>9. \A n \in DOMAIN sent : events[sent[n]].seq \in Nat /\ events[sent[n]].seq <= seqnum
    BY <1>1, <2>8 DEF Numbers, Event
  <2>10. \A j \in DOMAIN events : events'[j].seq \in Nat
    BY <1>1, <1>3, <2>1, <2>2 DEF Event
  <2>11. QED
    BY <1>3, <2>1, <2>6, <2>7, <2>8, <2>9, <2>10 DEF Numbers
<1>12. CASE CopyVar(i)
  <2> DEFINE e == [ev EXCEPT !.st = "fill", !.msg = Append(ev.msg, buf)]
  <2>1. ev.st = "copy" /\ events'[i] = e /\ UNCHANGED <<seqnum, sent>>
    BY <1>1, <1>12 DEF CopyVar, EventTypes
  <2>2. Append(ev.msg, buf) \in Seq(Names \X Nat) /\ Len(Append(ev.msg, buf)) = Len(ev.msg) + 1
    BY <1>2 DEF EventTypes
  <2>3. /\ e \in Event /\ e.st = "fill" /\ e.seq = ev.seq /\ e.msg = Append(ev.msg, buf)
        /\ e.button = ev.button
    BY <1>1, <2>2 DEF Event, States, Names
  <2>4. Numbered(e) => Numbered(ev)
    BY <2>1, <2>2, <2>3 DEF Numbered
  <2> HIDE DEF e
  <2>5. /\ \A j \in DOMAIN events : events'[j].st = "wait" /\ Complete(events'[j])
                                   => events'[j].late /\ events'[j].seq <= seqnum
        /\ \A j \in DOMAIN events : Numbered(events'[j]) => j = i /\ Numbered(e)
        /\ \A n \in DOMAIN sent : /\ sent[n] \in DOMAIN events /\ sent[n] # i
                                 /\ events'[sent[n]] = events[sent[n]]
    <3>1. \A j \in DOMAIN events \ {i} : ~Running(events[j])
      BY <2>1, GoesOnAlone DEF Running
    <3>2. QED
      BY <1>10, <2>1, <2>3, <3>1
  <2>6. QED
    BY <1>3, <2>1, <2>3, <2>4, <2>5 DEF Numbers
<1>13. CASE Sleeps(i)
  <2> DEFINE e == [ev EXCEPT !.st = "wait", !.late = Complete(ev)]
  <2>1. ev.st = "fill" /\ events'[i] = e /\ UNCHANGED <<seqnum, sent>>
    BY <1>1, <1>13 DEF Sleeps, EventTypes
  <2>2. /\ e \in Event /\ e.st = "wait" /\ e.seq = ev.seq /\ e.late = Complete(ev)
        /\ Complete(e) = Complete(ev)
    <3>1. Complete(ev) \in BOOLEAN
      BY DEF Complete
    <3>2. QED
      BY <1>1, <3>1 DEF Event, States, Complete
  <2>3. ~Numbered(e)
    BY <2>2 DEF Numbered
  <2> HIDE DEF e
  <2>4. /\ \A j \in DOMAIN events : events'[j].st = "wait" /\ Complete(events'[j])
                                   => events'[j].late /\ events'[j].seq <= seqnum
        /\ \A j \in DOMAIN events : Numbered(events'[j]) => j = i /\ Numbered(e)
        /\ \A n \in DOMAIN sent : /\ sent[n] \in DOMAIN events /\ sent[n] # i
                                 /\ events'[sent[n]] = events[sent[n]]
    <3>1. \A j \in DOMAIN events \ {i} : ~Running(events[j])
      BY <2>1, GoesOnAlone DEF Running
    <3>2. Complete(ev) => ev.seq <= seqnum
      <4>1. Complete(ev) => Numbered(ev)
        BY <2>1 DEF Numbered, Complete
      <4>2. QED
        BY <4>1 DEF Numbers, EventTypes
    <3>3. QED
      BY <1>10, <2>1, <2>2, <3>1, <3>2
  <2>5. QED
    BY <1>3, <2>1, <2>3, <2>4 DEF Numbers
<1>14. CASE Broadcast(i)
  <2>1. PICK st \in {"sent", "lost"} : /\ events' = [events EXCEPT ![i].st = st]
                                      /\ sent' = IF st = "sent" THEN Append(sent, i) ELSE sent
    BY <1>14, Zenon DEF Broadcast
  <2> DEFINE e == [ev EXCEPT !.st = st]
  <2>2. GoesOn(i) /\ Complete(ev) /\ events'[i] = e /\ UNCHANGED seqnum
    BY <1>1, <1>14, <2>1 DEF Broadcast, EventTypes
  <2>3. e \in Event /\ e.st = st /\ e.seq = ev.seq /\ e.late = ev.late
    BY <1>1, <2>1 DEF Event, States
  <2>4. /\ ev.late \/ (ev.seq = seqnum /\ \A n \in DOMAIN sent : events[sent[n]].seq < seqnum)
        /\ ev.seq <= seqnum
    <3>1. CASE ev.st = "fill"
      <4>1. Numbered(ev)
        BY <2>2, <3>1 DEF Numbered, Complete
      <4>2. ev.seq = seqnum /\ seqnum \in Nat
        BY <4>1 DEF Numbers, EventTypes
      <4>3. QED
        BY <4>1, <4>2 DEF Numbers
    <3>2. CASE ev.st = "wait"
      BY <2>2, <3>2 DEF Numbers
    <3>3. QED
      BY <2>2, <3>1, <3>2 DEF GoesOn
  <2>5. ~Numbered(e)
    BY <2>1, <2>3 DEF Numbered
  <2> HIDE DEF e
  <2>6. /\ \A j \in DOMAIN events : events'[j].st = "wait" /\ Complete(events'[j])
                                   => events'[j].late /\ events'[j].seq <= seqnum
        /\ \A j \in DOMAIN events : ~Numbered(events'[j])
        /\ \A n \in DOMAIN sent : /\ sent[n] \in DOMAIN events /\ sent[n] # i
                                 /\ events'[sent[n]] = events[sent[n]]
    <3>1. (\A j \in DOMAIN events \ {i} : ~Running(events[j])) /\ ev.st # "sent"
      BY <2>2, GoesOnAlone DEF GoesOn
    <3>2. e.st # "wait"
      BY <2>1, <2>3
    <3>3. QED
      BY <1>10, <2>2, <2>3, <2>5, <3>1, <3>2
  <2>7. CASE st = "lost"
    BY <1>3, <2>1, <2>2, <2>6, <2>7 DEF Numbers
  <2>8. CASE st = "sent"
    <3>1. /\ Len(sent) \in Nat /\ DOMAIN sent = 1 .. Len(sent) /\ DOMAIN sent' = 1 .. Len(sent) + 1
          /\ sent'[Len(sent) + 1] = i /\ \A n \in DOMAIN sent : sent'[n] = sent[n]
      BY <2>1, <2>8 DEF EventTypes
    <3>2. \A n \in DOMAIN sent' : /\ sent'[n] \in DOMAIN events'
                                 /\ events'[sent'[n]].st = "sent"
                                 /\ events'[sent'[n]].seq <= seqnum'
      BY <1>3, <2>2, <2>3, <2>4, <2>6, <2>8, <3>1 DEF Numbers
    <3>3. ASSUME NEW m \in DOMAIN sent', NEW n \in DOMAIN sent', m < n
          PROVE  events'[sent'[m]].seq < events'[sent'[n]].seq \/ events'[sent'[n]].late
      <4>1. m \in DOMAIN sent
        BY <3>1, <3>3
      <4>2. CASE n \in DOMAIN sent
        BY <2>6, <3>1, <3>3, <4>1, <4>2 DEF Numbers
      <4>3. CASE n = Len(sent) + 1
        BY <2>2, <2>3, <2>4, <2>6, <3>1, <4>1, <4>3
      <4>4. QED
        BY <3>1, <4>2, <4>3
    <3>4. QED
      BY <1>3, <2>2, <2>6, <3>2, <3>3 DEF Numbers
  <2>9. QED
    BY <2>1, <2>7, <2>8
<1>15. QED
  BY <1>7, <1>8, <1>9, <1>11, <1>12, <1>13, <1>14 DEF Work
-----------------------------------------------------------------------------
\* At first there is no event; a new one is queued, or lost at once.
LEMMA InitSerial == EventInit => EventTypes /\ SerialInv
BY DEF EventInit, EventTypes, Names, SerialInv, OneRunning, OwnMessages, Numbers

LEMMA CreateSerial ==
    ASSUME EventTypes, SerialInv, NEW b \in Buttons, NEW a \in {Released, Pressed}, NEW s \in Nat,
           Create(b, a, s)
    PROVE  SerialInv'
<1>1. PICK e \in Event : /\ events' = Append(events, e)
                          /\ e.button = b /\ e.msg = <<>> /\ e.st \in {"queued", "lost"}
  BY CreateAppends
<1>2. /\ Len(events) \in Nat /\ DOMAIN events = 1 .. Len(events)
      /\ DOMAIN events' = 1 .. Len(events) + 1 /\ events'[Len(events) + 1] = e
      /\ \A j \in DOMAIN events : events'[j] = events[j]
  BY <1>1 DEF EventTypes
<1>3. UNCHANGED <<buf, seqnum, sent>>
  BY DEF Create
<1>4. ~Running(e) /\ ~Numbered(e) /\ e.st # "asleep" /\ e.st # "wait"
  BY <1>1 DEF Running, Numbered
<1>5. OwnMessage(e, buf)
  BY <1>1, FieldsEnd DEF OwnMessage
<1>6. OneRunning'
  BY <1>2, <1>4 DEF SerialInv, OneRunning
<1>7. OwnMessages'
  BY <1>2, <1>3, <1>5 DEF SerialInv, OwnMessages
<1>8. Numbers'
  BY <1>2, <1>3, <1>4 DEF SerialInv, Numbers
<1>9. QED
  BY <1>6, <1>7, <1>8 DEF SerialInv

LEMMA WorkSerial ==
    ASSUME SerialDelivery, EventTypes, SerialInv, NEW i \in DOMAIN events, Work(i)
    PROVE  SerialInv'
BY WorkOneRunning, WorkOwnMessages, WorkNumbers DEF SerialInv
=============================================================================
