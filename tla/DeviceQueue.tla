----------------------------- MODULE DeviceQueue ----------------------------
(***************************************************************************)
(* A Queue in front of a ToDevice, as on every link of glue.click, when    *)
(* one thread pushes into the Queue and another runs the task that pulls   *)
(* from it.  There is no lock: the two threads share the ring, its two     *)
(* indices, the two notifiers and the flag of the task.  A step is one     *)
(* access that the other thread can tell from the next.  That a scheduled  *)
(* task runs is what module Task is about.                                 *)
(***************************************************************************)
EXTENDS Integers, Sequences

CONSTANTS capacity,             \* CAPACITY of the Queue
          SLEEPINESS_TRIGGER,   \* failed pulls before the note is put out
          burst,                \* BURST of the ToDevice
          Packets               \* the packets pushed are 1 .. Packets

ASSUME QueueAssumption ==
    /\ capacity \in Nat \ {0}
    /\ SLEEPINESS_TRIGGER \in Nat
    /\ burst \in Nat \ {0}
    /\ Packets \in Nat

VARIABLES q, head, tail,   \* the ring of capacity + 1 slots
          empty_note,      \* whether the notifier "not empty" is active
          full_note,       \* whether the notifier "not full" is active
          sleepiness,
          scheduled,       \* whether the task of the ToDevice is scheduled
          push,            \* where the pushing thread stands, and its locals
          pull,            \* where the pulling thread stands, and its locals
          kept,            \* _q of the ToDevice: a packet the device refused
          backoff,         \* whether _backoff is not 0
          waits,           \* what will reschedule the task: select, timer
          out              \* the packets that left the ToDevice, in order

ring == <<q, head, tail>>
notes == <<empty_note, full_note>>
device == <<kept, backoff, waits, out>>
varsQueue == <<ring, notes, sleepiness, scheduled, push, pull, device>>

None == 0

Slots == 0 .. capacity

(***************************************************************************)
(* Slip: the last slot is not the one the ring closes at.                  *)
(***************************************************************************)
next_i_late(i) == IF i # capacity + 1 THEN i + 1 ELSE 0

next_i(i) == IF i # capacity THEN i + 1 ELSE 0

size(h, t) == IF t >= h THEN t - h ELSE capacity + (t - h) + 1

-----------------------------------------------------------------------------
(***************************************************************************)
(* FullNoteQueue::push, in the pushing thread.  The head it has read may   *)
(* be out of date by the time it is used.                                  *)
(***************************************************************************)
(***************************************************************************)
(* Slip: no slot is left free between the last packet and the first.       *)
(***************************************************************************)
PushIntoLast ==
    /\ push.pc = "idle"
    /\ push.p < Packets
    /\ push' = [push EXCEPT !.p = @ + 1, !.h = head, !.pc = "slot"]
    /\ UNCHANGED <<ring, notes, sleepiness, scheduled, pull, device>>

Push ==
    /\ push.pc = "idle"
    /\ push.p < Packets
    /\ push' = [push EXCEPT !.p = @ + 1, !.h = head,
                            !.pc = IF next_i(tail) # head THEN "slot"
                                                          ELSE "idle"]
    /\ UNCHANGED <<ring, notes, sleepiness, scheduled, pull, device>>

PushSlot ==
    /\ push.pc = "slot"
    /\ q' = [q EXCEPT ![tail] = push.p]
    /\ push' = [push EXCEPT !.pc = "tail"]
    /\ UNCHANGED <<head, tail, notes, sleepiness, scheduled, pull, device>>

PushTail ==
    /\ push.pc = "tail"
    /\ tail' = next_i(tail)
    /\ push' = [push EXCEPT !.pc = "wake"]
    /\ UNCHANGED <<q, head, notes, sleepiness, scheduled, pull, device>>

(***************************************************************************)
(* ActiveNotifier::wake: the signal is set before the listener, when there *)
(* is need, is rescheduled.                                                *)
(***************************************************************************)
(***************************************************************************)
(* Slip: the listener is rescheduled without the signal being set first    *)
(* when it was inactive.                                                   *)
(***************************************************************************)
PushWakeLate ==
    /\ push.pc = "wake"
    /\ push' = [push EXCEPT !.pc = IF empty_note THEN "full?" ELSE "resched"]
    /\ UNCHANGED <<ring, notes, sleepiness, scheduled, pull, device>>

PushWake ==
    /\ push.pc = "wake"
    /\ empty_note' = TRUE
    /\ push' = [push EXCEPT !.pc = IF empty_note THEN "full?" ELSE "resched"]
    /\ UNCHANGED <<ring, full_note, sleepiness, scheduled, pull, device>>

PushReschedule ==
    /\ push.pc = "resched"
    /\ scheduled' = TRUE
    /\ push' = [push EXCEPT !.pc = "full?"]
    /\ UNCHANGED <<ring, notes, sleepiness, pull, device>>

PushFull ==
    /\ push.pc = "full?"
    /\ IF size(push.h, tail) = capacity
         THEN /\ full_note' = FALSE
              /\ push' = [push EXCEPT !.pc = "again"]
         ELSE /\ push' = [push EXCEPT !.pc = "idle"]
              /\ UNCHANGED full_note
    /\ UNCHANGED <<ring, empty_note, sleepiness, scheduled, pull, device>>

PushAgain ==
    /\ push.pc = "again"
    /\ full_note' = (full_note \/ size(head, tail) < capacity)
    /\ push' = [push EXCEPT !.pc = "idle"]
    /\ UNCHANGED <<ring, empty_note, sleepiness, scheduled, pull, device>>

-----------------------------------------------------------------------------
(***************************************************************************)
(* ToDevice::run_task, in the pulling thread, and FullNoteQueue::pull.     *)
(***************************************************************************)
PullAt(where) == pull' = [pull EXCEPT !.pc = where]

(***************************************************************************)
(* Slip: _q still points to the packet that is being sent again.           *)
(***************************************************************************)
RunTaskKeeping ==
    /\ pull.pc = "idle"
    /\ scheduled
    /\ scheduled' = FALSE
    /\ pull' = [pc |-> IF kept = None THEN "pull" ELSE "send", p |-> kept,
                count |-> 0]
    /\ UNCHANGED <<ring, notes, sleepiness, push, device>>

RunTask ==
    /\ pull.pc = "idle"
    /\ scheduled
    /\ scheduled' = FALSE
    /\ pull' = [pc |-> IF kept = None THEN "pull" ELSE "send", p |-> kept,
                count |-> 0]
    /\ kept' = None
    /\ UNCHANGED <<ring, notes, sleepiness, push, backoff, waits, out>>

Pull ==
    /\ pull.pc = "pull"
    /\ \/ /\ head # tail
          /\ PullAt("slot")
          /\ UNCHANGED <<sleepiness, empty_note>>
       \/ /\ head = tail
          /\ sleepiness >= SLEEPINESS_TRIGGER
          /\ PullAt("sleep")
          /\ UNCHANGED <<sleepiness, empty_note>>
       \/ /\ head = tail
          /\ sleepiness < SLEEPINESS_TRIGGER
          /\ sleepiness' = sleepiness + 1
          /\ PullAt("end")
          /\ UNCHANGED empty_note
    /\ UNCHANGED <<ring, full_note, scheduled, push, device>>

PullSlot ==
    /\ pull.pc = "slot"
    /\ pull' = [pull EXCEPT !.p = q[head], !.pc = "head"]
    /\ UNCHANGED <<ring, notes, sleepiness, scheduled, push, device>>

PullHead ==
    /\ pull.pc = "head"
    /\ head' = next_i(head)
    /\ sleepiness' = 0
    /\ PullAt("wake")
    /\ UNCHANGED <<q, tail, notes, scheduled, push, device>>

PullWake ==
    /\ pull.pc = "wake"
    /\ full_note' = TRUE
    /\ PullAt("send")
    /\ UNCHANGED <<ring, empty_note, sleepiness, scheduled, push, device>>

Sleep ==
    /\ pull.pc = "sleep"
    /\ empty_note' = FALSE
    /\ PullAt("again")
    /\ UNCHANGED <<ring, full_note, sleepiness, scheduled, push, device>>

(***************************************************************************)
(* Slip: the queue is not looked at again once the note is put out, as in  *)
(* a build without threads.                                                *)
(***************************************************************************)
SleepAgainNot ==
    /\ pull.pc = "again"
    /\ PullAt("end")
    /\ UNCHANGED <<ring, notes, sleepiness, scheduled, push, device>>

SleepAgain ==
    /\ pull.pc = "again"
    /\ IF head # tail
         THEN /\ empty_note' = TRUE
              /\ PullAt(IF empty_note THEN "end" ELSE "resched")
         ELSE /\ PullAt("end")
              /\ UNCHANGED empty_note
    /\ UNCHANGED <<ring, full_note, sleepiness, scheduled, push, device>>

PullReschedule ==
    /\ pull.pc = "resched"
    /\ scheduled' = TRUE
    /\ PullAt("end")
    /\ UNCHANGED <<ring, notes, sleepiness, push, device>>

(***************************************************************************)
(* send_packet takes the packet, fails for want of buffers, or fails for   *)
(* good.  A packet refused for want of buffers is kept, and the task waits *)
(* for the descriptor the first time and for a timer after that.           *)
(***************************************************************************)
Sent ==
    /\ pull.pc = "send"
    /\ out' = Append(out, pull.p)
    /\ backoff' = FALSE
    /\ pull' = [pc |-> IF pull.count + 1 < burst THEN "pull" ELSE "end",
                p |-> None, count |-> pull.count + 1]
    /\ UNCHANGED <<ring, notes, sleepiness, scheduled, push, kept, waits>>

(***************************************************************************)
(* Slip: the timer is the only one to try again, and is set only once the  *)
(* first attempt has failed.                                               *)
(***************************************************************************)
RefusedOnce ==
    /\ pull.pc = "send"
    /\ kept' = pull.p
    /\ backoff' = TRUE
    /\ waits' = IF backoff THEN waits \cup {"timer"} ELSE waits
    /\ PullAt("idle")
    /\ UNCHANGED <<ring, notes, sleepiness, scheduled, push, out>>

Refused ==
    /\ pull.pc = "send"
    /\ kept' = pull.p
    /\ backoff' = TRUE
    /\ waits' = waits \cup {IF backoff THEN "timer" ELSE "select"}
    /\ PullAt("idle")
    /\ UNCHANGED <<ring, notes, sleepiness, scheduled, push, out>>

Failed ==
    /\ pull.pc = "send"
    /\ out' = Append(out, pull.p)
    /\ PullAt("end")
    /\ UNCHANGED <<ring, notes, sleepiness, scheduled, push, kept, backoff,
                   waits>>

End ==
    /\ pull.pc = "end"
    /\ scheduled' = (scheduled \/ pull.p # None \/ empty_note)
    /\ pull' = [pc |-> "idle", p |-> None, count |-> 0]
    /\ UNCHANGED <<ring, notes, sleepiness, push, device>>

(***************************************************************************)
(* selected, and the timer that reschedules the task.                      *)
(***************************************************************************)
Again(w) ==
    /\ pull.pc = "idle"
    /\ w \in waits
    /\ waits' = waits \ {w}
    /\ scheduled' = TRUE
    /\ UNCHANGED <<ring, notes, sleepiness, push, pull, kept, backoff, out>>

-----------------------------------------------------------------------------
InitQueue ==
    /\ q = [i \in Slots |-> None] /\ head = 0 /\ tail = 0
    /\ empty_note = TRUE /\ full_note = TRUE
    /\ sleepiness = 0
    /\ scheduled = TRUE
    /\ push = [pc |-> "idle", p |-> 0, h |-> 0]
    /\ pull = [pc |-> "idle", p |-> None, count |-> 0]
    /\ kept = None /\ backoff = FALSE /\ waits = {} /\ out = <<>>

Pushing ==
    PushSlot \/ PushTail \/ PushWake \/ PushReschedule \/ PushFull \/ PushAgain

Pulling ==
    \/ RunTask \/ Pull \/ PullSlot \/ PullHead \/ PullWake \/ Sleep
    \/ SleepAgain \/ PullReschedule \/ End
    \/ \E w \in {"select", "timer"} : Again(w)

NextQueue == Push \/ Pushing \/ Pulling \/ Sent \/ Refused \/ Failed

SpecQueue == InitQueue /\ [][NextQueue]_varsQueue

(***************************************************************************)
(* Both threads keep running, and a device that is asked again and again   *)
(* does not refuse for ever.  Nobody has to push.                          *)
(***************************************************************************)
FairSpecQueue ==
    /\ SpecQueue
    /\ WF_varsQueue(Pushing)
    /\ WF_varsQueue(Pulling \/ Sent \/ Refused \/ Failed)
    /\ SF_varsQueue(Sent \/ Failed)

-----------------------------------------------------------------------------
(***************************************************************************)
(* Type correctness of the queue and of the two threads.                   *)
(***************************************************************************)
TypeOKQueue ==
    /\ q \in [Slots -> 0 .. Packets] /\ head \in Slots /\ tail \in Slots
    /\ empty_note \in BOOLEAN /\ full_note \in BOOLEAN
    /\ sleepiness \in 0 .. SLEEPINESS_TRIGGER
    /\ scheduled \in BOOLEAN
    /\ push \in [pc : {"idle", "slot", "tail", "wake", "resched", "full?",
                       "again"},
                 p : 0 .. Packets, h : Slots]
    /\ pull \in [pc : {"idle", "pull", "slot", "head", "wake", "sleep",
                       "again", "resched", "send", "end"},
                 p : 0 .. Packets, count : 0 .. burst]
    /\ kept \in 0 .. Packets /\ backoff \in BOOLEAN
    /\ waits \subseteq {"select", "timer"}

(***************************************************************************)
(* What a thread saw of the other's index may be old, and is still good    *)
(* enough: the slot being written lies outside the packets and leaves one  *)
(* free, the slot being read holds a packet.                               *)
(***************************************************************************)
SlotsApart ==
    /\ push.pc \in {"slot", "tail"} => next_i(tail) # head
    /\ pull.pc \in {"slot", "head"} => head # tail

(***************************************************************************)
(* Packets leave in the order in which they were pushed, none of them      *)
(* twice, also those the device refused at first.                          *)
(***************************************************************************)
InOrder == \A i \in 1 .. Len(out) - 1 : 0 < out[i] /\ out[i] < out[i + 1]

(***************************************************************************)
(* When neither thread is in the middle of an operation, the notes are     *)
(* right: the one that says "empty" only with no packet in the queue, the  *)
(* one that says "full" only with no room in it.                           *)
(***************************************************************************)
NotesRight ==
    push.pc = "idle" /\ pull.pc = "idle" =>
      /\ ~empty_note => head = tail
      /\ ~full_note => size(head, tail) = capacity

(***************************************************************************)
(* The task of the ToDevice never sleeps on a packet: when it is neither   *)
(* running nor scheduled and waits for no device, it keeps no packet, and  *)
(* the queue is empty or the pushing thread is about to wake it.           *)
(***************************************************************************)
NoLostWakeup ==
    pull.pc = "idle" /\ ~scheduled /\ waits = {} =>
      /\ kept = None
      /\ head = tail \/ push.pc \in {"wake", "resched"}

(***************************************************************************)
(* A packet that was pushed and not dropped leaves: no wake-up between the *)
(* two threads is lost, and no refused packet is forgotten.                *)
(***************************************************************************)
Inside == head # tail \/ kept # None \/ pull.p # None

QueueDrains == Inside ~> ~Inside
=============================================================================
