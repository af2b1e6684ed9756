----------------------------- MODULE UeventWork -----------------------------
(***************************************************************************)
(* The events of the button driver on their way to user space.  Every      *)
(* event is a work item of its own on system_wq: a worker of the event's   *)
(* CPU allocates a socket buffer, writes the event's variables into it,    *)
(* one at a time and each through the one static buffer of                 *)
(* bh_event_add_var, takes a sequence number and broadcasts the message.   *)
(* The header string and the variables HOME, PATH and SUBSYSTEM, the same  *)
(* in every message, are left out.                                         *)
(*                                                                         *)
(* Within one CPU the workqueue starts the items in order, and the next    *)
(* one only while no worker of that CPU is running: when the item before   *)
(* it is done or sleeps.  It may sleep in alloc_skb (GFP_KERNEL), in       *)
(* uevent_next_seqnum, where the kernel has a mutex around the number, and *)
(* in broadcast_uevent (GFP_KERNEL), which is when its number is already   *)
(* taken.  A worker that wakes up runs again at once if the kernel is      *)
(* preemptible.  Workers of different CPUs run side by side.               *)
(***************************************************************************)
EXTENDS Integers, Sequences

CONSTANTS
    NButtons,     \* number of buttons of the device
    Switches,     \* buttons of type EV_SW, the others are EV_KEY
    Cpus,         \* CPUs whose system_wq runs the events
    Preempt,      \* CONFIG_PREEMPT
    Faults        \* what may go wrong, a subset of FaultKinds

FaultKinds == {"kzalloc",   \* no memory for an event
               "skb",       \* no memory for a message or for a copy to send
               "sleep",     \* alloc_skb sleeps
               "contend",   \* taking the number and broadcasting sleep
               "irq"}       \* no interrupt for a button

Buttons == 1 .. NButtons

ASSUME EventAssumption ==
    /\ NButtons \in Nat \ {0}
    /\ Switches \subseteq Buttons
    /\ Faults \subseteq FaultKinds
    /\ Cpus # {}
    /\ Preempt \in BOOLEAN

VARIABLES
    events,       \* the events created so far, oldest first
    buf,          \* bh_event_add_var: the static buffer
    seqnum,       \* uevent_next_seqnum: the last number given out
    sent          \* the events broadcast so far, in that order

eventVars == <<events, buf, seqnum, sent>>
-----------------------------------------------------------------------------
Released == 0
Pressed  == 1

\* struct bh_event, with its progress: "lost" if an allocation failed.  History:
\* late if it had to wait with its number taken.
States == {"queued", "alloc", "asleep", "fill", "copy", "wait", "sent", "lost"}

Event == [button : Buttons, action : {Released, Pressed}, seen : Nat, cpu : Cpus,
          seq : Nat, st : States, late : BOOLEAN,
          msg : Seq({"ACTION", "BUTTON", "TYPE", "SEEN", "SEQNUM"} \X Nat)]

NewEvent(b, action, seen, cpu, st) ==
    [button |-> b, action |-> action, seen |-> seen, cpu |-> cpu,
     seq |-> 0, st |-> st, late |-> FALSE, msg |-> <<>>]

\* The variables of an event in the order button_hotplug_fill_event adds them.
Fields(b) ==
    IF b \in Switches
    THEN <<"ACTION", "BUTTON", "TYPE", "SEEN", "SEQNUM">>
    ELSE <<"ACTION", "BUTTON", "SEEN", "SEQNUM">>

Value(ev, f) ==
    CASE f = "ACTION" -> ev.action
      [] f = "BUTTON" -> ev.button
      [] f = "TYPE"   -> 1
      [] f = "SEEN"   -> ev.seen
      [] f = "SEQNUM" -> ev.seq

EventInit ==
    /\ events = <<>>
    /\ buf = <<"ACTION", 0>>
    /\ seqnum = 0
    /\ sent = <<>>

\* button_hotplug_create_event: on the CPU of the caller, unless kzalloc fails.
Create(b, action, seen) ==
    /\ \E c \in Cpus :
          \/ events' = Append(events, NewEvent(b, action, seen, c, "queued"))
          \/ /\ "kzalloc" \in Faults
             /\ events' = Append(events, NewEvent(b, action, seen, c, "lost"))
    /\ UNCHANGED <<buf, seqnum, sent>>
-----------------------------------------------------------------------------
\* button_hotplug_work.  A CPU is busy while one of its events is worked on.
Running(ev) == ev.st \in {"alloc", "fill", "copy"}

\* Mutant: the events go to an unbound workqueue.
CpuFree_Unbound(c) == TRUE

\* schedule_work chooses system_wq, which runs one item at a time on a CPU.
CpuFree(c) == \A i \in DOMAIN events : events[i].cpu = c => ~Running(events[i])

\* An event that slept goes on.
MayWake(i) == Preempt \/ CpuFree(events[i].cpu)

Moves(i, from, to) ==
    /\ events[i].st = from
    /\ events' = [events EXCEPT ![i].st = to]

Claim(i) ==
    /\ CpuFree(events[i].cpu)
    /\ \A j \in 1 .. i - 1 : events[j].cpu = events[i].cpu => events[j].st # "queued"
    /\ Moves(i, "queued", "alloc")
    /\ UNCHANGED <<buf, seqnum, sent>>

AllocSkb(i) ==
    /\ \/ Moves(i, "alloc", "fill")
       \/ "sleep" \in Faults /\ Moves(i, "alloc", "asleep")
       \/ MayWake(i) /\ Moves(i, "asleep", "fill")
    /\ UNCHANGED <<buf, seqnum, sent>>

AllocFails(i) ==
    /\ "skb" \in Faults
    /\ \/ Moves(i, "alloc", "lost")
       \/ MayWake(i) /\ Moves(i, "asleep", "lost")
    /\ UNCHANGED <<buf, seqnum, sent>>

Complete(ev) == Len(ev.msg) = Len(Fields(ev.button))

\* uevent_next_seqnum, before the last variable, and broadcast_uevent, after it.
Sleeps(i) ==
    /\ "contend" \in Faults
    /\ events[i].st = "fill" /\ Len(events[i].msg) + 1 >= Len(Fields(events[i].button))
    /\ events' = [events EXCEPT ![i].st = "wait", ![i].late = Complete(events[i])]
    /\ UNCHANGED <<buf, seqnum, sent>>

GoesOn(i) ==
    \/ events[i].st = "fill"
    \/ events[i].st = "wait" /\ MayWake(i)

\* vsnprintf into the static buffer; the sequence number is an argument of it.
Format(i) ==
    LET ev == events[i]
        f  == Fields(ev.button)[Len(ev.msg) + 1]
        sq == IF f = "SEQNUM" THEN seqnum + 1 ELSE ev.seq
    IN  /\ GoesOn(i) /\ Len(ev.msg) < Len(Fields(ev.button))
        /\ events' = [events EXCEPT ![i].st = "copy", ![i].seq = sq]
        /\ seqnum' = IF f = "SEQNUM" THEN sq ELSE seqnum
        /\ buf' = <<f, Value([ev EXCEPT !.seq = sq], f)>>
        /\ UNCHANGED sent

\* strcpy from the static buffer into the message.
CopyVar(i) ==
    /\ events[i].st = "copy"
    /\ events' = [events EXCEPT ![i].st = "fill", ![i].msg = Append(@, buf)]
    /\ UNCHANGED <<buf, seqnum, sent>>

\* The result of broadcast_uevent is not looked at.
Broadcast(i) ==
    /\ GoesOn(i) /\ Complete(events[i])
    /\ \/ /\ events' = [events EXCEPT ![i].st = "sent"]
          /\ sent' = Append(sent, i)
       \/ /\ "skb" \in Faults
          /\ events' = [events EXCEPT ![i].st = "lost"]
          /\ UNCHANGED sent
    /\ UNCHANGED <<buf, seqnum>>

Work(i) ==
    \/ Claim(i) \/ AllocSkb(i) \/ AllocFails(i)
    \/ Sleeps(i) \/ Format(i) \/ CopyVar(i) \/ Broadcast(i)
=============================================================================
