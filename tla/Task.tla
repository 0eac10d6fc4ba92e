-------------------------------- MODULE Task --------------------------------
(***************************************************************************)
(* One task of Click's user-level driver, with several threads: who may    *)
(* run it, on which lists it stands and how a request from another thread  *)
(* reaches its home thread (lib/task.cc, lib/routerthread.cc and the wake  *)
(* pipe of lib/selectset.cc).  Memory is sequentially consistent; a step   *)
(* is one access that another thread can tell from the next.               *)
(***************************************************************************)
EXTENDS Integers, FiniteSets

CONSTANTS Threads,     \* the identifiers of the threads that run a driver
          MaxCalls     \* the calls on the task the elements make in all

ASSUME TaskAssumption ==
    /\ Threads \subseteq Nat
    /\ Threads # {}
    /\ MaxCalls \in Nat

VARIABLES home,           \* _status.home_thread_id
          is_scheduled,   \* _status.is_scheduled
          is_strong,      \* _status.is_strong_unscheduled
          thread,         \* _thread
          pending,        \* _pending_nextptr: 0, 1 or 2 (2: at least 2)
          list,           \* the threads whose scheduled list holds the task
          queue,          \* per thread, how often its pending list holds it
          lock,           \* per thread, the holders of its _pending_lock
          woken,          \* per thread, its _wake_pipe_pending
          pipe,           \* per thread, whether its wake pipe holds a byte
          my,             \* per thread, where its driver stands, and locals
          calls,          \* the number of calls so far
          failed          \* the source lines of the assertions that failed

status == <<home, is_scheduled, is_strong>>
vars == <<status, thread, pending, list, queue, lock, woken, pipe, my, calls,
          failed>>

Quiescent == -1

AllThreads == Threads \cup {Quiescent}

Want(self) == [home |-> self, is_scheduled |-> TRUE, is_strong |-> FALSE]

Status == [home |-> home, is_scheduled |-> is_scheduled,
           is_strong |-> is_strong]

At(self, where) == my[self].pc = where

(***************************************************************************)
(* The thread goes on at "where"; a call of add_pending returns to "ret".  *)
(***************************************************************************)
Set(self, local) == my' = [my EXCEPT ![self] = local]

Goto(self, where) == Set(self, [my[self] EXCEPT !.pc = where])

Locals == [pc |-> "loop", ret |-> "run", always |-> FALSE, claimed |-> 0,
           th |-> Quiescent, next |-> Quiescent, st |-> Want(Quiescent)]

Return(self) ==
    Set(self, [Locals EXCEPT !.pc = my[self].ret,
                              !.claimed = my[self].claimed])

add_pending(self, always, ret) ==
    Set(self, [my[self] EXCEPT !.pc = "add", !.always = always,
                               !.ret = ret])

Fail(line) ==
    /\ failed' = {line}
    /\ UNCHANGED <<status, thread, pending, list, queue, lock, woken, pipe,
                   my, calls>>

-----------------------------------------------------------------------------
(***************************************************************************)
(* Task::add_pending, in a thread that may not be the task's.              *)
(***************************************************************************)
ReadThread(self) ==
    /\ At(self, "add")
    /\ Set(self, [my[self] EXCEPT !.pc = "acquire", !.th = thread])
    /\ UNCHANGED <<status, thread, pending, list, queue, lock, woken, pipe,
                   calls, failed>>

Acquire(self) ==
    /\ At(self, "acquire")
    /\ lock[my[self].th] = {}
    /\ IF my[self].th = thread /\ (pending # 1 \/ my[self].always)
         THEN /\ lock' = [lock EXCEPT ![my[self].th] = {self}]
              /\ Goto(self, "locked")
         ELSE /\ Goto(self, "add")
              /\ UNCHANGED lock
    /\ UNCHANGED <<status, thread, pending, list, queue, woken, pipe, calls,
                   failed>>

(***************************************************************************)
(* A task on the quiescent thread that was moved changes threads first.    *)
(***************************************************************************)
LeaveQuiescent(self) ==
    /\ At(self, "locked")
    /\ my[self].th = Quiescent
    /\ home # Quiescent
    /\ \/ /\ list # {} \/ pending # 0
          /\ Fail(241)
       \/ /\ list = {} /\ pending = 0
          /\ Set(self, [my[self] EXCEPT !.pc = "next", !.next = home])
          /\ UNCHANGED <<status, thread, pending, list, queue, lock, woken,
                         pipe, calls, failed>>

NextThread(self) ==
    /\ At(self, "next")
    /\ lock[my[self].next] = {}
    /\ lock' = [lock EXCEPT ![my[self].next] = {self}, ![Quiescent] = {}]
    /\ thread' = my[self].next
    /\ Set(self, [my[self] EXCEPT !.pc = "locked", !.th = my[self].next])
    /\ UNCHANGED <<status, pending, list, queue, woken, pipe, calls, failed>>

Release(self) == lock' = [lock EXCEPT ![my[self].th] = {}]

(***************************************************************************)
(* Slip: a task that another thread has put on the list is put there again.*)
(***************************************************************************)
EnterTwice(self) ==
    /\ At(self, "locked")
    /\ my[self].th # Quiescent
    /\ pending # 1 \/ my[self].always
    /\ pending' = 2
    /\ queue' = [queue EXCEPT ![my[self].th] = @ + 1]
    /\ woken' = [woken EXCEPT ![my[self].th] = @ \/ my[self].th # self]
    /\ Goto(self, "wake")
    /\ UNCHANGED <<status, thread, list, lock, pipe, calls, failed>>

(***************************************************************************)
(* It goes on the pending list, unless it is there or the thread is        *)
(* quiescent, and the thread is woken through its pipe.                    *)
(***************************************************************************)
Enter(self) ==
    /\ At(self, "locked")
    /\ my[self].th # Quiescent
    /\ pending = 0 \/ (pending = 1 /\ my[self].always)
    /\ pending' = 2
    /\ queue' = [queue EXCEPT ![my[self].th] = @ + 1]
    /\ woken' = [woken EXCEPT ![my[self].th] = @ \/ my[self].th # self]
    /\ Goto(self, "wake")
    /\ UNCHANGED <<status, thread, list, lock, pipe, calls, failed>>

EnterNot(self) ==
    /\ At(self, "locked")
    /\ my[self].th = Quiescent => home = Quiescent
    /\ \/ /\ pending = 1 /\ ~my[self].always
          /\ Fail(255)
       \/ /\ pending = 2 \/ my[self].th = Quiescent
          /\ pending # 1 \/ my[self].always
          /\ pending' = IF pending < 2 THEN 0 ELSE pending
          /\ Release(self)
          /\ Return(self)
          /\ UNCHANGED <<status, thread, list, queue, woken, pipe, calls,
                         failed>>

(***************************************************************************)
(* Slip: the thread is not woken.                                          *)
(***************************************************************************)
WakeNot(self) ==
    /\ At(self, "wake")
    /\ Release(self)
    /\ Return(self)
    /\ UNCHANGED <<status, thread, pending, list, queue, woken, pipe, calls,
                   failed>>

Wake(self) ==
    /\ At(self, "wake")
    /\ pipe' = [pipe EXCEPT ![my[self].th] = @ \/ my[self].th # self]
    /\ Release(self)
    /\ Return(self)
    /\ UNCHANGED <<status, thread, pending, list, queue, woken, calls, failed>>

AddPending(self) ==
    \/ ReadThread(self) \/ Acquire(self) \/ LeaveQuiescent(self)
    \/ NextThread(self) \/ Enter(self) \/ EnterNot(self) \/ Wake(self)

-----------------------------------------------------------------------------
(***************************************************************************)
(* The calls.  An element may call from the callback of the task itself or *)
(* from anything else its thread runs.  reschedule sets the flag first and *)
(* looks at the lists next; on the task's own thread it enters the         *)
(* scheduled list, from another it goes through the pending list.          *)
(***************************************************************************)
Calling(self) ==
    /\ my[self].pc \in {"run", "fire"}
    /\ calls < MaxCalls
    /\ calls' = calls + 1

Continue(self, where) ==
    Set(self, [my[self] EXCEPT !.pc = where, !.ret = my[self].pc])

reschedule(self) ==
    /\ Calling(self)
    /\ is_scheduled' = TRUE
    /\ Continue(self, "pending?")
    /\ UNCHANGED <<home, is_strong, thread, pending, list, queue, lock, woken,
                   pipe, failed>>

PendingTest(self) ==
    /\ At(self, "pending?")
    /\ IF pending < 2 THEN Goto(self, "complete") ELSE Return(self)
    /\ UNCHANGED <<status, thread, pending, list, queue, lock, woken, pipe,
                   calls, failed>>

complete_schedule(self) ==
    /\ At(self, "complete")
    /\ IF thread = self
         THEN /\ list' = IF list = {} THEN {self} ELSE list
              /\ Return(self)
         ELSE /\ IF pending < 2
                   THEN add_pending(self, FALSE, my[self].ret)
                   ELSE Return(self)
              /\ UNCHANGED list
    /\ UNCHANGED <<status, thread, pending, queue, lock, woken, pipe, calls,
                   failed>>

fast_reschedule(self) ==
    /\ At(self, "fire")
    /\ Calling(self)
    /\ is_scheduled' = TRUE
    /\ UNCHANGED <<home, is_strong, thread, pending, list, queue, lock, woken,
                   pipe, my, failed>>

unschedule(self) ==
    /\ Calling(self)
    /\ is_scheduled' = FALSE
    /\ UNCHANGED <<home, is_strong, thread, pending, list, queue, lock, woken,
                   pipe, my, failed>>

strong_unschedule(self) ==
    /\ \/ /\ Calling(self)
          /\ is_scheduled' = FALSE
          /\ Continue(self, "strong")
          /\ UNCHANGED is_strong
       \/ /\ At(self, "strong")
          /\ is_strong' = TRUE
          /\ Return(self)
          /\ UNCHANGED <<is_scheduled, calls>>
    /\ UNCHANGED <<home, thread, pending, list, queue, lock, woken, pipe,
                   failed>>

strong_reschedule(self) ==
    /\ \/ /\ Calling(self)
          /\ is_strong' = FALSE
          /\ Continue(self, "weak")
          /\ UNCHANGED is_scheduled
       \/ /\ At(self, "weak")
          /\ is_scheduled' = TRUE
          /\ Goto(self, "pending?")
          /\ UNCHANGED <<is_strong, calls>>
    /\ UNCHANGED <<home, thread, pending, list, queue, lock, woken, pipe,
                   failed>>

move_thread(self, n) ==
    /\ Calling(self)
    /\ home' = n
    /\ Continue(self, "moved")
    /\ UNCHANGED <<is_scheduled, is_strong, thread, pending, list, queue,
                   lock, woken, pipe, failed>>

(***************************************************************************)
(* Slip: the caller hands the task over itself.                            *)
(***************************************************************************)
MoveThreadAtOnce(self) ==
    /\ At(self, "moved")
    /\ thread' = home
    /\ list' = {}
    /\ Return(self)
    /\ UNCHANGED <<status, pending, queue, lock, woken, pipe, calls, failed>>

MoveThread(self) ==
    /\ At(self, "moved")
    /\ IF home # Quiescent /\ is_scheduled /\ ~is_strong /\ pending < 2
         THEN add_pending(self, FALSE, my[self].ret)
         ELSE Return(self)
    /\ UNCHANGED <<status, thread, pending, list, queue, lock, woken, pipe,
                   calls, failed>>

-----------------------------------------------------------------------------
(***************************************************************************)
(* The driver: process_pending claims the list and handles each entry of   *)
(* it, moving the task to the home it finds in one reading of the status.  *)
(***************************************************************************)
Claim(self) ==
    /\ At(self, "loop")
    /\ IF queue[self] = 0
         THEN /\ Goto(self, "run")
              /\ UNCHANGED queue
         ELSE /\ lock[self] = {}
              /\ Set(self, [my[self] EXCEPT !.pc = "process",
                                            !.claimed = queue[self]])
              /\ queue' = [queue EXCEPT ![self] = 0]
    /\ UNCHANGED <<status, thread, pending, list, lock, woken, pipe, calls,
                   failed>>

ProcessPending(self) ==
    /\ At(self, "process")
    /\ \/ /\ my[self].claimed = 0
          /\ Goto(self, "run")
          /\ UNCHANGED <<status, thread, pending, list, queue, lock, woken,
                         pipe, calls, failed>>
       \/ /\ my[self].claimed > 0 /\ thread # self
          /\ Fail(385)
       \/ /\ my[self].claimed > 0 /\ thread = self
          /\ pending' = 1
          /\ Set(self, [my[self] EXCEPT !.pc = "snapshot",
                                        !.claimed = my[self].claimed - 1])
          /\ UNCHANGED <<status, thread, list, queue, lock, woken, pipe,
                         calls, failed>>

Snapshot(self) ==
    /\ At(self, "snapshot")
    /\ Set(self, [my[self] EXCEPT !.st = Status,
                    !.pc = IF home # self THEN "depart" ELSE "decide"])
    /\ UNCHANGED <<status, thread, pending, list, queue, lock, woken, pipe,
                   calls, failed>>

(***************************************************************************)
(* Slip: the task stays on the scheduled list of the thread it leaves.     *)
(***************************************************************************)
DepartListed(self) ==
    /\ At(self, "depart")
    /\ lock[self] = {}
    /\ thread' = my[self].st.home
    /\ Goto(self, "decide")
    /\ UNCHANGED <<status, pending, list, queue, lock, woken, pipe, calls,
                   failed>>

Depart(self) ==
    /\ At(self, "depart")
    /\ lock[self] = {}
    /\ list' = {}
    /\ thread' = my[self].st.home
    /\ Goto(self, "decide")
    /\ UNCHANGED <<status, pending, queue, lock, woken, pipe, calls, failed>>

Processed(self) ==
    Set(self, [Locals EXCEPT !.pc = "process",
                              !.claimed = my[self].claimed])

Decide(self) ==
    /\ At(self, "decide")
    /\ IF ~my[self].st.is_scheduled \/ my[self].st.is_strong
         THEN /\ pending' = 0
              /\ Processed(self)
              /\ UNCHANGED list
         ELSE IF thread = self
                THEN /\ list' = IF list = {} THEN {self} ELSE list
                     /\ pending' = 0
                     /\ Processed(self)
                ELSE /\ IF pending < 2
                          THEN add_pending(self, TRUE, "process")
                          ELSE Processed(self)
                     /\ UNCHANGED <<list, pending>>
    /\ UNCHANGED <<status, thread, queue, lock, woken, pipe, calls, failed>>

(***************************************************************************)
(* run_tasks: the status is compared and, when it is not the one wanted,   *)
(* the home thread read again; else the flag is cleared, the callback run, *)
(* and the task leaves the list unless it was scheduled again meanwhile.   *)
(***************************************************************************)
Look(self) ==
    /\ At(self, "run")
    /\ \/ /\ self \notin list
          /\ Goto(self, "os")
          /\ UNCHANGED <<status, thread, pending, list, queue, lock, woken,
                         pipe, calls, failed>>
       \/ /\ self \in list /\ thread # self
          /\ Fail(376)
       \/ /\ self \in list /\ thread = self
          /\ IF Status = Want(self)
               THEN Goto(self, "clear")
               ELSE Goto(self, "compared")
          /\ UNCHANGED <<status, thread, pending, list, queue, lock, woken,
                         pipe, calls, failed>>

LookHome(self) ==
    /\ At(self, "compared")
    /\ IF home # self THEN add_pending(self, FALSE, "unlist")
                      ELSE Goto(self, "unlist")
    /\ UNCHANGED <<status, thread, pending, list, queue, lock, woken, pipe,
                   calls, failed>>

Unlist(self) ==
    /\ At(self, "unlist")
    /\ list' = {}
    /\ Goto(self, "os")
    /\ UNCHANGED <<status, thread, pending, queue, lock, woken, pipe, calls,
                   failed>>

Clear(self) ==
    /\ At(self, "clear")
    /\ is_scheduled' = FALSE
    /\ Goto(self, "fire")
    /\ UNCHANGED <<home, is_strong, thread, pending, list, queue, lock, woken,
                   pipe, calls, failed>>

(***************************************************************************)
(* Slip: the task leaves the list after every run.                         *)
(***************************************************************************)
FiredOnce(self) ==
    /\ At(self, "fire")
    /\ Goto(self, "unlist")
    /\ UNCHANGED <<status, thread, pending, list, queue, lock, woken, pipe,
                   calls, failed>>

Fired(self) ==
    /\ At(self, "fire")
    /\ Goto(self, IF is_scheduled THEN "os" ELSE "unlist")
    /\ UNCHANGED <<status, thread, pending, list, queue, lock, woken, pipe,
                   calls, failed>>

(***************************************************************************)
(* run_os: with nothing to run the thread sleeps until its pipe holds a    *)
(* byte (or one of its own descriptors or timers wakes it), then takes the *)
(* bytes out if the flag says that there are any.                          *)
(***************************************************************************)
Select(self) ==
    /\ At(self, "os")
    /\ Goto(self, IF self \in list \/ queue[self] > 0 THEN "post" ELSE "sleep")
    /\ UNCHANGED <<status, thread, pending, list, queue, lock, woken, pipe,
                   calls, failed>>

Selected(self) ==
    /\ At(self, "sleep")
    /\ pipe[self]
    /\ Goto(self, "post")
    /\ UNCHANGED <<status, thread, pending, list, queue, lock, woken, pipe,
                   calls, failed>>

OtherEvent(self) ==
    /\ At(self, "sleep")
    /\ Goto(self, "post")
    /\ UNCHANGED <<status, thread, pending, list, queue, lock, woken, pipe,
                   calls, failed>>

post_select(self) ==
    /\ \/ /\ At(self, "post")
          /\ IF woken[self]
               THEN /\ woken' = [woken EXCEPT ![self] = FALSE]
                    /\ Goto(self, "drain")
               ELSE /\ Goto(self, "loop")
                    /\ UNCHANGED woken
          /\ UNCHANGED pipe
       \/ /\ At(self, "drain")
          /\ pipe' = [pipe EXCEPT ![self] = FALSE]
          /\ Goto(self, "loop")
          /\ UNCHANGED woken
    /\ UNCHANGED <<status, thread, pending, list, queue, lock, calls, failed>>

-----------------------------------------------------------------------------
(***************************************************************************)
(* initialize, before the drivers start.                                   *)
(***************************************************************************)
Init ==
    /\ home \in Threads
    /\ is_scheduled \in BOOLEAN
    /\ is_strong = FALSE
    /\ thread = home
    /\ pending = IF is_scheduled THEN 2 ELSE 0
    /\ list = {}
    /\ queue = [t \in Threads |-> IF is_scheduled /\ t = home THEN 1 ELSE 0]
    /\ lock = [t \in AllThreads |-> {}]
    /\ woken = [t \in Threads |-> is_scheduled /\ t = home]
    /\ pipe = woken
    /\ my = [t \in Threads |-> Locals]
    /\ calls = 0
    /\ failed = {}

Driver(self) ==
    \/ Claim(self) \/ ProcessPending(self) \/ Snapshot(self) \/ Depart(self)
    \/ Decide(self) \/ Look(self) \/ LookHome(self) \/ Unlist(self)
    \/ Clear(self) \/ Fired(self) \/ Select(self) \/ Selected(self)
    \/ post_select(self)

Begun(self) ==
    \/ AddPending(self) \/ PendingTest(self) \/ complete_schedule(self)
    \/ MoveThread(self)

Call(self) ==
    \/ reschedule(self) \/ fast_reschedule(self) \/ unschedule(self)
    \/ strong_unschedule(self) \/ strong_reschedule(self)
    \/ \E n \in AllThreads : move_thread(self, n)

Halted == failed # {} /\ UNCHANGED vars

Next ==
    \/ /\ failed = {}
       /\ \E self \in Threads :
            Driver(self) \/ Begun(self) \/ Call(self) \/ OtherEvent(self)
    \/ Halted

Spec == Init /\ [][Next]_vars

(***************************************************************************)
(* Every thread keeps running; no element has to call.                     *)
(***************************************************************************)
Step(self) ==
    /\ failed = {}
    /\ \/ Driver(self) \/ Begun(self)
       \/ /\ my[self].pc \in {"strong", "weak"}
          /\ strong_unschedule(self) \/ strong_reschedule(self)

FairSpec == Spec /\ \A self \in Threads : WF_vars(Step(self))

-----------------------------------------------------------------------------
(***************************************************************************)
(* Type correctness of the task and of the drivers.                        *)
(***************************************************************************)
Labels ==
    {"loop", "process", "snapshot", "depart", "decide", "run",
     "compared", "clear", "fire", "unlist", "os", "sleep", "post", "drain", "pending?", "complete",
     "strong", "weak", "moved", "add", "acquire", "locked", "next", "wake"}

LocalsType ==
    [pc : Labels, ret : {"run", "fire", "unlist", "process"},
     always : BOOLEAN, claimed : 0 .. 1, th : AllThreads, next : AllThreads,
     st : [home : AllThreads, is_scheduled : BOOLEAN, is_strong : BOOLEAN]]

TypeOK ==
    /\ home \in AllThreads /\ thread \in AllThreads
    /\ is_scheduled \in BOOLEAN /\ is_strong \in BOOLEAN
    /\ pending \in 0 .. 2
    /\ list \subseteq Threads
    /\ queue \in [Threads -> 0 .. 1]
    /\ lock \in [AllThreads -> SUBSET Threads]
    /\ woken \in [Threads -> BOOLEAN] /\ pipe \in [Threads -> BOOLEAN]
    /\ my \in [Threads -> LocalsType]
    /\ calls \in 0 .. MaxCalls

(***************************************************************************)
(* The callback of a task never runs on two threads at once, also while    *)
(* the task is being moved: elements take it for granted.                  *)
(***************************************************************************)
Running(t) == my[t].pc \in {"clear", "fire"} \/ my[t].ret = "fire"

OneRunner == \A s, t \in Threads : Running(s) /\ Running(t) => s = t

(***************************************************************************)
(* The task stands on the scheduled list of no thread but _thread (the     *)
(* third invariant of lib/task.cc), and on one pending list or one claimed *)
(* by process_pending exactly when _pending_nextptr says so: a second      *)
(* entry would tie the linked list into a ring.                            *)
(***************************************************************************)
Entries(t) == queue[t] + my[t].claimed

ListsAgree ==
    /\ list \subseteq {thread}
    /\ pending = 2 => \E t \in Threads :
                        /\ Entries(t) = 1
                        /\ \A u \in Threads \ {t} : Entries(u) = 0
    /\ pending < 2 => \A t \in Threads : Entries(t) = 0

(***************************************************************************)
(* The first invariant of lib/task.cc, read for the home thread: whenever  *)
(* no thread is in the middle of an operation on it, a scheduled task      *)
(* whose home thread runs is on one of the two lists.  Read for _thread it *)
(* does not hold: a task that was sent to the quiescent thread may be on   *)
(* neither list while _thread still names the thread it was to leave.      *)
(***************************************************************************)
Between(t) == my[t].pc \in {"loop", "run", "os", "sleep", "post", "drain"}

ScheduledIsListed ==
    /\ is_scheduled /\ ~is_strong /\ home # Quiescent
    /\ failed = {}
    /\ \A t \in Threads : Between(t)
    => list # {} \/ pending # 0

(***************************************************************************)
(* A task that is rescheduled runs eventually, "unless its home thread is  *)
(* quiescent or it has been strong_unschedule()d" (or unscheduled), once   *)
(* the calls end: no request and no wake-up of a sleeping thread is lost.  *)
(***************************************************************************)
ScheduledRuns ==
    is_scheduled ~> \/ ~is_scheduled \/ is_strong \/ home = Quiescent
                    \/ failed # {}

(***************************************************************************)
(* A thread runs and processes a task only while _thread is that thread:   *)
(* the assertions of run_tasks and of process_pending never fail.          *)
(***************************************************************************)
HandledByOwner == failed \cap {376, 385} = {}

(***************************************************************************)
(* No assertion of the scheduler fails, whatever the threads call.         *)
(***************************************************************************)
AssertionsHold == failed = {}
=============================================================================
