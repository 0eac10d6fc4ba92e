---------------------------- MODULE DriverProofs ----------------------------
(***************************************************************************)
(* Proofs about the two modules of Click's user-level driver that share    *)
(* memory without a lock of their own: Task, for any number of threads and *)
(* of calls, and DeviceQueue, for every capacity, trigger, burst and       *)
(* number of packets.  The second half is about DeviceQueue.               *)
(***************************************************************************)
EXTENDS Task, DeviceQueue, TLAPS

(***************************************************************************)
(* Where a thread with the locals m stands: in add_pending and not yet at  *)
(* its end, holding a lock, in any call on the task, processing an entry   *)
(* of the pending list, or in run_tasks with the task before it.           *)
(***************************************************************************)
Adding(m) == m.pc \in {"add", "acquire", "locked", "next"}

Holding(m) == m.pc \in {"locked", "next", "wake"}

Called(m) ==
    Adding(m) \/ m.pc \in {"wake", "pending?", "complete", "moved", "strong",
                           "weak"}

Processing(m) ==
    m.pc \in {"snapshot", "depart", "decide"} \/ (Adding(m) /\ m.always)

Busy(m) ==
    m.pc \in {"compared", "clear", "fire", "unlist"} \/ m.ret \in {"fire", "unlist"}

(***************************************************************************)
(* What holds of the task while thread s stands where its locals m say.    *)
(***************************************************************************)
LocalOK(s, m) ==
    /\ ~Called(m) => m.ret = "run"
    /\ m.always => m.ret = "process"
    /\ m.claimed > 0 => m.pc = "process"
    /\ Processing(m) => pending = 1
    /\ m.pc \in {"snapshot", "depart"} => thread = s
    /\ m.pc = "decide" => thread = m.st.home
    /\ Holding(m) => lock[m.th] = {s} /\ thread = m.th
    /\ m.pc = "next" => /\ m.th = Quiescent /\ m.next \in Threads
                        /\ pending = 0
    /\ Busy(m) => list = {s}

OneProcessor ==
    \A s, t \in Threads : Processing(my[s]) /\ Processing(my[t]) => s = t

EntriesOwned == \A t \in Threads : Entries(t) > 0 => thread = t

IInv ==
    /\ TypeOK
    /\ ListsAgree
    /\ EntriesOwned
    /\ HandledByOwner
    /\ OneProcessor
    /\ \A s \in Threads : LocalOK(s, my[s])

-----------------------------------------------------------------------------
(***************************************************************************)
(* The locals a step leaves behind, field by field.                        *)
(***************************************************************************)
LEMMA GotoRecord ==
    ASSUME NEW m \in LocalsType, NEW w \in Labels
    PROVE  LET r == [m EXCEPT !.pc = w]
           IN  /\ r \in LocalsType
               /\ r.pc = w /\ r.ret = m.ret /\ r.always = m.always
               /\ r.claimed = m.claimed /\ r.th = m.th /\ r.next = m.next
               /\ r.st = m.st
BY Zenon DEF LocalsType

(***************************************************************************)
(* The locals at the beginning of a call.                                  *)
(***************************************************************************)
LEMMA CallRecord ==
    ASSUME NEW m \in LocalsType, NEW w \in Labels, m.pc \in {"run", "fire"}
    PROVE  LET r == [m EXCEPT !.pc = w, !.ret = m.pc]
           IN  /\ r \in LocalsType
               /\ r.pc = w /\ r.ret = m.pc /\ r.always = m.always
               /\ r.claimed = m.claimed
BY Zenon DEF LocalsType

(***************************************************************************)
(* The locals of a thread that has taken an entry from its pending list.   *)
(***************************************************************************)
LEMMA EntryRecord ==
    ASSUME NEW m \in LocalsType
    PROVE  LET r == [m EXCEPT !.pc = "snapshot", !.claimed = 0]
           IN  /\ r \in LocalsType
               /\ r.pc = "snapshot" /\ r.ret = m.ret /\ r.always = m.always
               /\ r.claimed = 0
<1>1. "snapshot" \in Labels /\ 0 \in 0 .. 1
  BY DEF Labels
<1> QED
  BY <1>1, Zenon DEF LocalsType

(***************************************************************************)
(* The locals of a thread that has returned from a call.                   *)
(***************************************************************************)
LEMMA FreshRecord ==
    ASSUME NEW c \in 0 .. 1, NEW w \in Labels
    PROVE  LET r == [Locals EXCEPT !.pc = w, !.claimed = c]
           IN  /\ r \in LocalsType
               /\ r.pc = w /\ r.ret = "run" /\ r.always = FALSE
               /\ r.claimed = c
BY Zenon DEF LocalsType, Locals, Want, AllThreads

(***************************************************************************)
(* A step changes the locals of the thread that takes it and of no other.  *)
(***************************************************************************)
LEMMA SetMy ==
    ASSUME my \in [Threads -> LocalsType], NEW self \in Threads,
           NEW r \in LocalsType, Set(self, r)
    PROVE  /\ my' \in [Threads -> LocalsType]
           /\ my'[self] = r
           /\ \A t \in Threads : t # self => my'[t] = my[t]
BY Zenon DEF Set

(***************************************************************************)
(* Quiescent is no thread that runs a driver.                              *)
(***************************************************************************)
LEMMA QuiescentApart == Quiescent \notin Threads
BY TaskAssumption DEF Quiescent

(***************************************************************************)
(* A step that changes only the locals of one thread, the status, the wake *)
(* pipes and the count of calls keeps the invariant when the new locals    *)
(* stand where the task allows it.                                         *)
(***************************************************************************)
LEMMA Quiet ==
    ASSUME IInv, NEW self \in Threads, NEW r \in LocalsType, Set(self, r),
           UNCHANGED <<thread, pending, list, queue, lock, failed>>,
           home' \in AllThreads,
           is_scheduled' \in BOOLEAN, is_strong' \in BOOLEAN,
           woken' \in [Threads -> BOOLEAN], pipe' \in [Threads -> BOOLEAN],
           calls' \in 0 .. MaxCalls,
           r.claimed = my[self].claimed,
           Processing(r) => Processing(my[self]),
           LocalOK(self, r)
    PROVE  IInv'
<1>1. /\ my' \in [Threads -> LocalsType]
      /\ my'[self] = r
      /\ \A t \in Threads : t # self => my'[t] = my[t]
  BY SetMy, Zenon DEF IInv, TypeOK
<1>2. TypeOK'
  BY <1>1, Zenon DEF IInv, TypeOK
<1>3. \A t \in Threads : Entries(t)' = Entries(t)
  BY <1>1, Zenon DEF Entries
<1>4. ListsAgree' /\ EntriesOwned' /\ HandledByOwner'
  BY <1>3 DEF IInv, ListsAgree, EntriesOwned, HandledByOwner
<1>5. \A t \in Threads : Processing(my'[t]) => Processing(my[t])
  BY <1>1, Zenon
<1>6. OneProcessor'
  BY <1>5, Zenon DEF IInv, OneProcessor, Processing, Adding
<1>7. ASSUME NEW s \in Threads PROVE LocalOK(s, my[s])'
  <2>1. LocalOK(s, my'[s])
    BY <1>1, Zenon DEF IInv
  <2> QED
    BY <2>1, Zenon DEF LocalOK, Called, Adding, Processing, Holding, Busy
<1> QED
  BY <1>2, <1>4, <1>6, <1>7, Zenon DEF IInv

(***************************************************************************)
(* An assertion that fails in add_pending stops the program and changes    *)
(* nothing else.                                                           *)
(***************************************************************************)
LEMMA FailKeeps ==
    ASSUME IInv, NEW line \in Nat \ {376, 385}, Fail(line)
    PROVE  IInv'
<1>1. TypeOK' /\ ListsAgree' /\ EntriesOwned' /\ OneProcessor'
  BY DEF Fail, status, IInv, TypeOK, ListsAgree, EntriesOwned, Entries,
         OneProcessor, Processing, Adding
<1>2. HandledByOwner'
  BY DEF Fail, HandledByOwner
<1>3. \A s \in Threads : LocalOK(s, my[s])'
  BY Zenon DEF Fail, IInv, LocalOK, Called, Adding, Processing, Holding, Busy
<1> QED
  BY <1>1, <1>2, <1>3, Zenon DEF IInv

(***************************************************************************)
(* The four ways in which such a step leaves the thread: at another place  *)
(* of the driver, at the beginning of a call, in add_pending, or returning *)
(* from a call.                                                            *)
(***************************************************************************)
Aside ==
    /\ UNCHANGED <<thread, pending, list, queue, lock, failed>>
    /\ home' \in AllThreads
    /\ is_scheduled' \in BOOLEAN /\ is_strong' \in BOOLEAN
    /\ woken' \in [Threads -> BOOLEAN] /\ pipe' \in [Threads -> BOOLEAN]
    /\ calls' \in 0 .. MaxCalls

(***************************************************************************)
(* A thread outside any call goes on elsewhere in its driver.              *)
(***************************************************************************)
LEMMA GotoKeeps ==
    ASSUME IInv, Aside, NEW self \in Threads,
           NEW w \in {"loop", "run", "os", "sleep", "post", "drain", "clear",
                      "fire", "unlist", "compared"},
           Goto(self, w), ~Called(my[self]), my[self].claimed = 0,
           w \in {"compared", "clear", "fire", "unlist"} => list = {self}
    PROVE  IInv'
<1> DEFINE r == [my[self] EXCEPT !.pc = w]
<1>1. my[self] \in LocalsType /\ LocalOK(self, my[self])
  BY Zenon DEF IInv, TypeOK
<1>2. w \in Labels
  BY Zenon DEF Labels
<1>3. /\ r \in LocalsType
      /\ r.pc = w /\ r.ret = my[self].ret /\ r.always = my[self].always
      /\ r.claimed = my[self].claimed
  BY <1>1, <1>2, GotoRecord, Zenon
<1>4. LocalOK(self, r) /\ ~Processing(r)
  BY <1>1, <1>3 DEF LocalOK, Called, Adding, Processing, Holding, Busy
<1> QED
  BY <1>3, <1>4, Quiet, Zenon DEF Aside, Goto

(***************************************************************************)
(* A thread at a callback begins a call on the task.                       *)
(***************************************************************************)
LEMMA CallKeeps ==
    ASSUME IInv, Aside, NEW self \in Threads,
           NEW w \in {"pending?", "strong", "weak", "moved"},
           my[self].pc \in {"run", "fire"}, Continue(self, w)
    PROVE  IInv'
<1> DEFINE r == [my[self] EXCEPT !.pc = w, !.ret = my[self].pc]
<1>1. my[self] \in LocalsType /\ LocalOK(self, my[self])
  BY Zenon DEF IInv, TypeOK
<1>2. w \in Labels
  BY Zenon DEF Labels
<1>3. /\ r \in LocalsType
      /\ r.pc = w /\ r.ret = my[self].pc /\ r.always = my[self].always
      /\ r.claimed = my[self].claimed
  BY <1>1, <1>2, CallRecord, Zenon
<1>4. my[self].claimed \in 0 .. 1
  BY <1>1, Zenon DEF LocalsType
<1>5. LocalOK(self, r) /\ ~Processing(r)
  BY <1>1, <1>3, <1>4, Zenon
    DEF LocalOK, Called, Adding, Processing, Holding, Busy
<1> QED
  BY <1>3, <1>5, Quiet, Zenon DEF Aside, Continue

(***************************************************************************)
(* A thread enters add_pending; only process_pending enters it with        *)
(* "always".                                                               *)
(***************************************************************************)
LEMMA AddKeeps ==
    ASSUME IInv, Aside, NEW self \in Threads, NEW a \in BOOLEAN,
           NEW ret \in {"run", "fire", "unlist", "process"},
           add_pending(self, a, ret), my[self].pc # "process",
           a => Processing(my[self]) /\ ret = "process",
           ret \in {"fire", "unlist"} => list = {self}
    PROVE  IInv'
<1> DEFINE r == [my[self] EXCEPT !.pc = "add", !.always = a, !.ret = ret]
<1>1. my[self] \in LocalsType /\ LocalOK(self, my[self])
  BY Zenon DEF IInv, TypeOK
<1>2. /\ r \in LocalsType
      /\ r.pc = "add" /\ r.ret = ret /\ r.always = a
      /\ r.claimed = my[self].claimed
  <2>1. "add" \in Labels
    BY Zenon DEF Labels
  <2> QED
    BY <1>1, <2>1, Zenon DEF LocalsType
<1>3. my[self].claimed \in 0 .. 1
  BY <1>1, Zenon DEF LocalsType
<1>4. LocalOK(self, r) /\ (Processing(r) => Processing(my[self]))
  BY <1>1, <1>2, <1>3, Zenon
    DEF LocalOK, Called, Adding, Processing, Holding, Busy
<1> QED
  BY <1>2, <1>4, Quiet, Zenon DEF Aside, add_pending

(***************************************************************************)
(* A call returns to where the thread stood, without having locked or listed *)
(* anything.                                                               *)
(***************************************************************************)
LEMMA ReturnKeeps ==
    ASSUME IInv, Aside, NEW self \in Threads, Return(self),
           Called(my[self])
    PROVE  IInv'
<1> DEFINE m == my[self]
           r == [Locals EXCEPT !.pc = m.ret, !.claimed = m.claimed]
<1>1. m \in LocalsType /\ LocalOK(self, m)
  BY Zenon DEF IInv, TypeOK
<1>2. /\ m.ret \in {"run", "fire", "unlist", "process"}
      /\ m.claimed \in 0 .. 1
  BY <1>1, Zenon DEF LocalsType
<1>3. m.ret \in Labels
  BY <1>2, Zenon DEF Labels
<1>4. /\ r \in LocalsType
      /\ r.pc = m.ret /\ r.ret = "run" /\ r.always = FALSE
      /\ r.claimed = m.claimed
  BY <1>2, <1>3, FreshRecord, Zenon
<1>5. LocalOK(self, r) /\ ~Processing(r)
  BY <1>1, <1>2, <1>4, Zenon
    DEF LocalOK, Called, Adding, Processing, Holding, Busy
<1> QED
  BY <1>4, <1>5, Quiet, Zenon DEF Aside, Return

-----------------------------------------------------------------------------
(***************************************************************************)
(* The steps that are such steps throughout: the calls, their beginnings   *)
(* and the driver's way through run_tasks and run_os.                      *)
(***************************************************************************)
LEMMA CallsKeep ==
    ASSUME IInv, NEW self \in Threads, Call(self)
    PROVE  IInv'
<1> USE TaskAssumption
<1>0. TypeOK /\ my[self] \in LocalsType
  BY Zenon DEF IInv, TypeOK
<1>1. ASSUME Calling(self) PROVE calls' \in 0 .. MaxCalls
  BY <1>0, <1>1 DEF Calling, TypeOK
<1>2. CASE reschedule(self)
  <2>1. Aside
    BY <1>0, <1>1, <1>2, Zenon DEF reschedule, Aside, TypeOK
  <2> QED
    BY <1>2, <2>1, CallKeeps, Zenon DEF reschedule, Calling
<1>3. CASE fast_reschedule(self) \/ unschedule(self)
  <2>1. Aside /\ my' = my
    BY <1>0, <1>1, <1>3, Zenon DEF fast_reschedule, unschedule, Aside, TypeOK
  <2>2. Set(self, my[self])
    BY <1>0, <2>1, Zenon DEF Set, TypeOK
  <2>3. LocalOK(self, my[self])
    BY Zenon DEF IInv
  <2> QED
    BY <1>0, <2>1, <2>2, <2>3, Quiet, Zenon DEF Aside
<1>4. CASE strong_unschedule(self)
  <2>1. CASE Calling(self) /\ Continue(self, "strong")
    <3>1. Aside
      BY <1>0, <1>1, <1>4, <2>1, Zenon
        DEF strong_unschedule, Calling, At, Aside,
         TypeOK
    <3> QED
      BY <2>1, <3>1, CallKeeps, Zenon DEF Calling
  <2>2. CASE At(self, "strong")
    <3>1. Aside /\ Return(self)
      BY <1>0, <1>4, <2>2, Zenon
        DEF strong_unschedule, Calling, At, Aside, TypeOK
    <3> QED
      BY <2>2, <3>1, ReturnKeeps, Zenon DEF Called, At
  <2> QED
    BY <1>4, <2>1, <2>2, Zenon DEF strong_unschedule
<1>5. CASE strong_reschedule(self)
  <2>1. CASE Calling(self) /\ Continue(self, "weak")
    <3>1. Aside
      BY <1>0, <1>1, <1>5, <2>1, Zenon
        DEF strong_reschedule, Calling, At, Aside,
         TypeOK
    <3> QED
      BY <2>1, <3>1, CallKeeps, Zenon DEF Calling
  <2>2. CASE At(self, "weak")
    <3> DEFINE r == [my[self] EXCEPT !.pc = "pending?"]
    <3>1. Aside /\ Set(self, r)
      BY <1>0, <1>5, <2>2, Zenon
        DEF strong_reschedule, Calling, At, Aside, TypeOK,
         Goto
    <3>2. "pending?" \in Labels
      BY Zenon DEF Labels
    <3>3. /\ r \in LocalsType
          /\ r.pc = "pending?" /\ r.ret = my[self].ret
          /\ r.always = my[self].always /\ r.claimed = my[self].claimed
      BY <1>0, <3>2, GotoRecord, Zenon
    <3>4. LocalOK(self, my[self])
      BY DEF IInv
    <3>5. LocalOK(self, r) /\ ~Processing(r)
      BY <1>0, <2>2, <3>3, <3>4, Zenon
        DEF At, LocalOK, LocalsType, Called, Adding,
         Processing, Holding, Busy
    <3> QED
      BY <3>1, <3>3, <3>5, Quiet, Zenon DEF Aside
  <2> QED
    BY <1>5, <2>1, <2>2, Zenon DEF strong_reschedule
<1>6. ASSUME NEW n \in AllThreads, move_thread(self, n) PROVE IInv'
  <2>1. Aside
    BY <1>0, <1>1, <1>6, Zenon DEF move_thread, Aside, TypeOK
  <2> QED
    BY <1>6, <2>1, CallKeeps, Zenon DEF move_thread, Calling
<1> QED
  BY <1>2, <1>3, <1>4, <1>5, <1>6, Zenon DEF Call

(***************************************************************************)
(* The test of reschedule, the decision of move_thread, and the reading of *)
(* _thread in add_pending.                                                 *)
(***************************************************************************)
LEMMA BegunKeep ==
    ASSUME IInv, NEW self \in Threads,
           PendingTest(self) \/ MoveThread(self) \/ ReadThread(self)
    PROVE  IInv'
<1>1. /\ TypeOK /\ my[self] \in LocalsType /\ LocalOK(self, my[self])
      /\ Aside
  BY Zenon DEF IInv, TypeOK, PendingTest, MoveThread, ReadThread, status, Aside
<1>2. my[self].ret \in {"run", "fire", "unlist", "process"}
  BY <1>1, Zenon DEF LocalsType
<1>3. my[self].ret \in {"fire", "unlist"} => list = {self}
  BY <1>1, Zenon DEF LocalOK, Busy
<1>4. CASE At(self, "pending?") /\ Goto(self, "complete")
  <2> DEFINE r == [my[self] EXCEPT !.pc = "complete"]
  <2>1. "complete" \in Labels
    BY Zenon DEF Labels
  <2>2. /\ r \in LocalsType
        /\ r.pc = "complete" /\ r.ret = my[self].ret
        /\ r.always = my[self].always /\ r.claimed = my[self].claimed
    BY <1>1, <2>1, GotoRecord, Zenon
  <2>3. LocalOK(self, r) /\ ~Processing(r)
    BY <1>1, <1>4, <2>2, Zenon
      DEF At, LocalOK, Called, Adding, Processing, Holding,
       Busy
  <2> QED
    BY <1>1, <1>4, <2>2, <2>3, Quiet, Zenon DEF Aside, Goto
<1>5. CASE my[self].pc \in {"pending?", "moved"} /\ Return(self)
  BY <1>1, <1>5, ReturnKeeps, Zenon DEF Called
<1>6. CASE At(self, "moved") /\ add_pending(self, FALSE, my[self].ret)
  BY <1>1, <1>2, <1>3, <1>6, AddKeeps, Zenon DEF At
<1>7. CASE ReadThread(self)
  <2> DEFINE m == my[self]
             r == [m EXCEPT !.pc = "acquire", !.th = thread]
  <2>1. "acquire" \in Labels /\ thread \in AllThreads
    BY <1>1, Zenon DEF Labels, TypeOK
  <2>2. /\ r \in LocalsType
        /\ r.pc = "acquire" /\ r.ret = m.ret /\ r.always = m.always
        /\ r.claimed = m.claimed
    BY <1>1, <2>1, Zenon DEF LocalsType
  <2>3. LocalOK(self, r) /\ (Processing(r) => Processing(m))
    BY <1>1, <1>7, <2>2, Zenon DEF ReadThread, At, LocalOK, Called, Adding,
       Processing, Holding, Busy
  <2> QED
    BY <1>1, <1>7, <2>2, <2>3, Quiet, Zenon DEF Aside, ReadThread
<1> QED
  BY <1>4, <1>5, <1>6, <1>7, Zenon DEF PendingTest, MoveThread, At

(***************************************************************************)
(* run_tasks up to the callback and after it, and run_os.  A thread that   *)
(* finds the task on its own list is the thread in _thread, so that the    *)
(* assertion of run_tasks holds.                                           *)
(***************************************************************************)
LEMMA DriverKeeps ==
    ASSUME IInv, NEW self \in Threads,
           \/ Look(self) \/ LookHome(self) \/ Clear(self) \/ Fired(self)
           \/ Select(self) \/ Selected(self) \/ OtherEvent(self)
           \/ post_select(self)
    PROVE  IInv'
<1>1. /\ TypeOK /\ ListsAgree /\ my[self] \in LocalsType
      /\ LocalOK(self, my[self])
  BY Zenon DEF IInv, TypeOK
<1>2. /\ my[self].pc \in {"run", "compared", "clear", "fire", "os", "sleep",
                          "post", "drain"}
      /\ my[self].claimed = 0 /\ ~Called(my[self])
  <2>1. my[self].pc \in {"run", "compared", "clear", "fire", "os", "sleep",
                         "post", "drain"}
    BY Zenon DEF Look, LookHome, Clear, Fired, Select, Selected, OtherEvent,
           post_select, At
  <2>2. my[self].claimed \in 0 .. 1
    BY <1>1, Zenon DEF LocalsType
  <2> QED
    BY <1>1, <2>1, <2>2 DEF LocalOK, Called, Adding
<1>3. CASE Look(self)
  <2>1. self \in list => list = {self} /\ thread = self
    BY <1>1, Zenon DEF ListsAgree
  <2>2. Aside
    BY <1>1, <1>3, <2>1, Zenon DEF Look, status, Aside, TypeOK
  <2>3. CASE self \notin list
    <3>1. Goto(self, "os")
      BY <1>3, <2>3, Zenon DEF Look
    <3> QED
      BY <1>2, <2>2, <3>1, GotoKeeps, Zenon
  <2>4. CASE self \in list
    <3>1. Goto(self, "clear") \/ Goto(self, "compared")
      BY <1>3, <2>1, <2>4, Zenon DEF Look
    <3>2. CASE Goto(self, "clear")
      BY <1>2, <2>1, <2>2, <2>4, <3>2, GotoKeeps, Zenon
    <3>3. CASE Goto(self, "compared")
      BY <1>2, <2>1, <2>2, <2>4, <3>3, GotoKeeps, Zenon
    <3> QED
      BY <3>1, <3>2, <3>3, Zenon
  <2> QED
    BY <2>3, <2>4, Zenon
<1>4. CASE Clear(self)
  <2>1. Aside /\ list = {self}
    BY <1>1, <1>4, Zenon DEF Clear, At, Aside, TypeOK, LocalOK, Busy
  <2> QED
    BY <1>2, <1>4, <2>1, GotoKeeps, Zenon DEF Clear
<1>5. CASE Fired(self)
  <2>1. Aside /\ list = {self}
    BY <1>1, <1>5, Zenon DEF Fired, At, status, Aside, TypeOK, LocalOK, Busy
  <2>2. Goto(self, "os") \/ Goto(self, "unlist")
    BY <1>5, Zenon DEF Fired
  <2> QED
    BY <1>2, <2>1, <2>2, GotoKeeps, Zenon
<1>6. CASE Select(self)
  <2>1. Aside /\ (Goto(self, "post") \/ Goto(self, "sleep"))
    BY <1>1, <1>6, Zenon DEF Select, status, Aside, TypeOK
  <2> QED
    BY <1>2, <2>1, GotoKeeps, Zenon
<1>7. CASE Selected(self) \/ OtherEvent(self)
  <2>1. Aside /\ Goto(self, "post")
    BY <1>1, <1>7, Zenon DEF Selected, OtherEvent, status, Aside, TypeOK
  <2> QED
    BY <1>2, <2>1, GotoKeeps, Zenon
<1>8. CASE post_select(self)
  <2>1. Aside /\ (Goto(self, "drain") \/ Goto(self, "loop"))
    BY <1>1, <1>8, Zenon DEF post_select, status, Aside, TypeOK
  <2> QED
    BY <1>2, <2>1, GotoKeeps, Zenon
<1>9. CASE LookHome(self)
  <2>1. Aside /\ list = {self} /\ my[self].pc = "compared"
    BY <1>1, <1>9, Zenon DEF LookHome, At, status, Aside, TypeOK, LocalOK, Busy
  <2>2. Goto(self, "unlist") \/ add_pending(self, FALSE, "unlist")
    BY <1>9, Zenon DEF LookHome
  <2>3. CASE Goto(self, "unlist")
    BY <1>2, <2>1, <2>3, GotoKeeps, Zenon
  <2>4. CASE add_pending(self, FALSE, "unlist")
    BY <1>2, <2>1, <2>4, AddKeeps, Zenon
  <2> QED
    BY <2>2, <2>3, <2>4, Zenon
<1> QED
  BY <1>3, <1>4, <1>5, <1>6, <1>7, <1>8, <1>9, Zenon

-----------------------------------------------------------------------------
(***************************************************************************)
(* The steps that change the lists, a lock or _thread.  A thread takes a   *)
(* lock that no thread holds, of the thread it still finds in _thread.     *)
(***************************************************************************)
LEMMA AcquireKeeps ==
    ASSUME IInv, NEW self \in Threads, Acquire(self)
    PROVE  IInv'
<1> DEFINE m == my[self]
           r(w) == [m EXCEPT !.pc = w]
<1>1. /\ TypeOK /\ m \in LocalsType /\ LocalOK(self, m) /\ m.pc = "acquire"
      /\ m.th \in AllThreads
  BY Zenon DEF IInv, TypeOK, Acquire, At, LocalsType
<1>2. ASSUME NEW w \in {"locked", "add"}
      PROVE  /\ r(w) \in LocalsType
             /\ r(w).pc = w /\ r(w).ret = m.ret /\ r(w).always = m.always
             /\ r(w).claimed = m.claimed /\ r(w).th = m.th
  <2>1. w \in Labels
    BY Zenon DEF Labels
  <2> QED
    BY <1>1, <2>1, GotoRecord, Zenon
<1>3. CASE /\ m.th = thread /\ Goto(self, "locked")
           /\ lock' = [lock EXCEPT ![m.th] = {self}]
  <2>1. UNCHANGED <<home, is_scheduled, is_strong, thread, pending, list,
                    queue, woken, pipe, calls, failed>> /\ lock[m.th] = {}
    BY Zenon DEF Acquire, status
  <2>2. /\ my' \in [Threads -> LocalsType]
        /\ my'[self] = r("locked")
        /\ \A t \in Threads : t # self => my'[t] = my[t]
    BY <1>1, <1>2, <1>3, SetMy, Zenon DEF TypeOK, Goto
  <2>3. /\ my'[self].pc = "locked" /\ my'[self].ret = m.ret
        /\ my'[self].always = m.always /\ my'[self].claimed = m.claimed
        /\ my'[self].th = m.th
    BY <1>2, <2>2, Zenon
  <2> HIDE DEF r
  <2>4. /\ lock'[m.th] = {self}
        /\ \A t \in AllThreads : t # m.th => lock'[t] = lock[t]
        /\ lock' \in [AllThreads -> SUBSET Threads]
    BY <1>1, <1>3, Zenon DEF TypeOK
  <2>5. TypeOK'
    BY <1>1, <2>1, <2>2, <2>4, Zenon DEF TypeOK
  <2>6. ListsAgree' /\ EntriesOwned' /\ HandledByOwner'
    BY <2>1, <2>2, <2>3 DEF IInv, ListsAgree, EntriesOwned, HandledByOwner,
       Entries
  <2>7. OneProcessor'
    BY <1>1, <2>2, <2>3 DEF IInv, OneProcessor, Processing, Adding
  <2>8. LocalOK(self, my[self])'
    BY <1>1, <1>3, <2>1, <2>3, <2>4, Zenon
      DEF LocalOK, Called, Adding, Processing,
       Holding, Busy
  <2>9. ASSUME NEW t \in Threads \ {self} PROVE LocalOK(t, my[t])'
    <3>1. my'[t] = my[t] /\ LocalOK(t, my[t]) /\ my[t].th \in AllThreads
      BY <2>2, Zenon DEF IInv, TypeOK, LocalsType
    <3>2. Holding(my[t]) => my[t].th # m.th
      BY <2>1, <3>1, Zenon DEF LocalOK
    <3> QED
      BY <2>1, <2>4, <3>1, <3>2, Zenon DEF LocalOK, Called, Adding, Processing,
         Holding, Busy
  <2> QED
    BY <2>5, <2>6, <2>7, <2>8, <2>9, Zenon DEF IInv
<1>4. CASE Goto(self, "add") /\ UNCHANGED lock
  <2>1. Aside
    BY <1>1, <1>4, Zenon DEF Acquire, status, Aside, TypeOK
  <2>2. LocalOK(self, r("add")) /\ (Processing(r("add")) => Processing(m))
    BY <1>1, <1>2, Zenon DEF LocalOK, Called, Adding, Processing, Holding, Busy
  <2> QED
    BY <1>2, <1>4, <2>1, <2>2, Quiet, Zenon DEF Aside, Goto
<1> QED
  BY <1>3, <1>4, Zenon DEF Acquire

(***************************************************************************)
(* add_pending on the quiescent thread: the assertion fails, or the task is*)
(* on no list and the thread goes for the lock of the new home.            *)
(***************************************************************************)
LEMMA LeaveQuiescentKeeps ==
    ASSUME IInv, NEW self \in Threads, LeaveQuiescent(self)
    PROVE  IInv'
<1> DEFINE m == my[self]
           r == [m EXCEPT !.pc = "next", !.next = home]
<1>1. /\ TypeOK /\ m \in LocalsType /\ LocalOK(self, m) /\ m.pc = "locked"
      /\ home \in Threads
  BY Zenon DEF IInv, TypeOK, LeaveQuiescent, At, AllThreads
<1>2. CASE Fail(241)
  BY <1>2, FailKeeps
<1>3. CASE pending = 0 /\ Set(self, r) /\ UNCHANGED failed
  <2>1. Aside /\ m.th = Quiescent
    BY <1>1, <1>3, Zenon DEF LeaveQuiescent, Fail, status, Aside, TypeOK
  <2>2. "next" \in Labels /\ home \in AllThreads
    BY <1>1, Zenon DEF Labels, AllThreads
  <2>3. /\ r \in LocalsType
        /\ r.pc = "next" /\ r.ret = m.ret /\ r.always = m.always
        /\ r.claimed = m.claimed /\ r.th = m.th /\ r.next = home
    BY <1>1, <2>2, Zenon DEF LocalsType
  <2>4. LocalOK(self, r) /\ (Processing(r) => Processing(m))
    BY <1>1, <1>3, <2>1, <2>3, Zenon DEF LocalOK, Called, Adding, Processing,
       Holding, Busy
  <2> QED
    BY <1>3, <2>1, <2>3, <2>4, Quiet, Zenon DEF Aside
<1> QED
  BY <1>2, <1>3, Zenon DEF LeaveQuiescent

(***************************************************************************)
(* A task on the quiescent thread is on no list, so that it may change     *)
(* threads: no other thread holds a lock or processes an entry.            *)
(***************************************************************************)
LEMMA NextThreadKeeps ==
    ASSUME IInv, NEW self \in Threads, NextThread(self)
    PROVE  IInv'
<1> DEFINE m == my[self]
           r == [m EXCEPT !.pc = "locked", !.th = m.next]
<1>1. /\ TypeOK /\ m \in LocalsType /\ LocalOK(self, m) /\ m.pc = "next"
  BY Zenon DEF IInv, TypeOK, NextThread, At
<1>2. /\ m.th = Quiescent /\ m.next \in Threads /\ pending = 0
      /\ lock[Quiescent] = {self} /\ thread = Quiescent
  BY <1>1, Zenon DEF LocalOK, Holding
<1>3. /\ UNCHANGED <<home, is_scheduled, is_strong, pending, list, queue,
                     woken, pipe, calls, failed>>
      /\ thread' = m.next /\ Set(self, r)
      /\ lock' = [lock EXCEPT ![m.next] = {self}, ![Quiescent] = {}]
  BY Zenon DEF NextThread, status
<1>4. "locked" \in Labels /\ m.next \in AllThreads
  BY <1>2, Zenon DEF Labels, AllThreads
<1>5. /\ r \in LocalsType
      /\ r.pc = "locked" /\ r.ret = m.ret /\ r.always = m.always
      /\ r.claimed = m.claimed /\ r.th = m.next
  BY <1>1, <1>4, Zenon DEF LocalsType
<1>6. /\ my' \in [Threads -> LocalsType]
      /\ my'[self] = r
      /\ \A t \in Threads : t # self => my'[t] = my[t]
  BY <1>1, <1>3, <1>5, SetMy, Zenon DEF TypeOK
<1>7. /\ my'[self].pc = "locked" /\ my'[self].ret = m.ret
      /\ my'[self].always = m.always /\ my'[self].claimed = m.claimed
      /\ my'[self].th = m.next
  BY <1>5, <1>6, Zenon
<1> HIDE DEF r
<1>8. list = {}
  BY <1>1, <1>2, QuiescentApart, Zenon DEF IInv, ListsAgree, TypeOK
<1>9. \A t \in Threads : ~Processing(my[t]) /\ ~Busy(my[t])
  BY <1>2, <1>8 DEF IInv, LocalOK
<1>10. /\ lock' \in [AllThreads -> SUBSET Threads]
       /\ lock'[m.next] = {self}
  BY <1>1, <1>2, <1>3, <1>4, QuiescentApart, Zenon DEF TypeOK, AllThreads
<1>11. TypeOK'
  BY <1>1, <1>3, <1>4, <1>6, <1>10, Zenon DEF TypeOK
<1>12. \A t \in Threads : Entries(t) = 0 /\ Entries(t)' = 0
  BY <1>2, <1>3, <1>6, <1>7 DEF IInv, ListsAgree, Entries
<1>13. ListsAgree' /\ EntriesOwned' /\ HandledByOwner'
  BY <1>2, <1>3, <1>8, <1>12 DEF IInv, ListsAgree, EntriesOwned,
     HandledByOwner
<1>14. \A t \in Threads : ~Processing(my'[t])
  BY <1>6, <1>7, <1>9, <1>1, Zenon DEF Processing, Adding
<1>15. OneProcessor'
  BY <1>14, Zenon DEF OneProcessor, Processing, Adding
<1>16. LocalOK(self, my[self])'
  BY <1>1, <1>2, <1>3, <1>7, <1>9, <1>10, <1>14, Zenon
    DEF LocalOK, Called, Adding,
     Processing, Holding, Busy
<1>17. ASSUME NEW t \in Threads \ {self} PROVE LocalOK(t, my[t])'
  <2>1. my'[t] = my[t] /\ LocalOK(t, my[t])
    BY <1>6, Zenon DEF IInv
  <2>2. ~Holding(my[t])
    BY <1>2, <2>1, Zenon DEF LocalOK
  <2>3. ~Processing(my[t]) /\ ~Busy(my[t])
    BY <1>9, Zenon
  <2> QED
    BY <2>1, <2>2, <2>3, Zenon
      DEF LocalOK, Called, Adding, Processing, Holding, Busy
<1> QED
  BY <1>11, <1>13, <1>15, <1>16, <1>17 DEF IInv

(***************************************************************************)
(* The one entry of the task is made under the lock of its thread, by a    *)
(* thread that finds none, or by the one that processes the last entry.    *)
(***************************************************************************)
LEMMA EnterKeeps ==
    ASSUME IInv, NEW self \in Threads, Enter(self)
    PROVE  IInv'
<1> DEFINE m == my[self]
           r == [m EXCEPT !.pc = "wake"]
<1>1. /\ TypeOK /\ m \in LocalsType /\ LocalOK(self, m) /\ m.pc = "locked"
      /\ m.th # Quiescent
  BY Zenon DEF IInv, TypeOK, Enter, At
<1>2. /\ m.th \in Threads /\ m.claimed \in 0 .. 1 /\ thread = m.th
      /\ lock[m.th] = {self}
  BY <1>1, Zenon DEF LocalsType, AllThreads, LocalOK, Holding
<1>3. /\ UNCHANGED <<home, is_scheduled, is_strong, thread, list, lock, pipe,
                     calls, failed>>
      /\ pending' = 2 /\ Set(self, r)
      /\ queue' = [queue EXCEPT ![m.th] = @ + 1]
      /\ woken' = [woken EXCEPT ![m.th] = @ \/ m.th # self]
      /\ pending = 0 \/ (pending = 1 /\ m.always)
  BY Zenon DEF Enter, status, Goto
<1>4. "wake" \in Labels
  BY Zenon DEF Labels
<1>5. /\ r \in LocalsType
      /\ r.pc = "wake" /\ r.ret = m.ret /\ r.always = m.always
      /\ r.claimed = m.claimed /\ r.th = m.th
  BY <1>1, <1>4, GotoRecord, Zenon
<1>6. /\ my' \in [Threads -> LocalsType]
      /\ my'[self] = r
      /\ \A t \in Threads : t # self => my'[t] = my[t]
  BY <1>1, <1>3, <1>5, SetMy, Zenon DEF TypeOK
<1>7. /\ my'[self].pc = "wake" /\ my'[self].ret = m.ret
      /\ my'[self].always = m.always /\ my'[self].claimed = m.claimed
      /\ my'[self].th = m.th
  BY <1>5, <1>6, Zenon
<1> HIDE DEF r
<1>8. \A t \in Threads : /\ queue[t] \in 0 .. 1 /\ my[t].claimed \in 0 .. 1
                         /\ Entries(t) = 0
  BY <1>1, <1>3 DEF IInv, ListsAgree, TypeOK, LocalsType
<1>9. \A t \in Threads : queue[t] = 0 /\ my[t].claimed = 0
  BY <1>8 DEF Entries
<1>10. /\ queue' \in [Threads -> 0 .. 1] /\ queue'[m.th] = 1
       /\ \A t \in Threads \ {m.th} : queue'[t] = 0
  BY <1>1, <1>2, <1>3, <1>9 DEF TypeOK
<1>11. woken' \in [Threads -> BOOLEAN]
  BY <1>1, <1>3, Zenon DEF TypeOK
<1>12. TypeOK'
  BY <1>1, <1>3, <1>6, <1>10, <1>11 DEF TypeOK
<1>13. PICK h \in Threads : h = m.th
  BY <1>2, Zenon
<1>14. Entries(h)' = 1 /\ \A t \in Threads \ {h} : Entries(t)' = 0
  <2>1. \A t \in Threads : my'[t].claimed = 0
    BY <1>6, <1>7, <1>9, Zenon
  <2>2. queue'[h] + my'[h].claimed = 1
    BY <1>10, <1>13, <2>1
  <2>3. \A t \in Threads \ {h} : queue'[t] + my'[t].claimed = 0
    BY <1>10, <1>13, <2>1
  <2> QED
    BY <2>2, <2>3, Zenon DEF Entries
<1>15. ListsAgree' /\ EntriesOwned' /\ HandledByOwner'
  BY <1>2, <1>3, <1>13, <1>14
     DEF IInv, ListsAgree, EntriesOwned, HandledByOwner
<1>16. \A t \in Threads : ~Processing(my'[t])
  <2>1. ~Processing(my'[self])
    BY <1>7, Zenon DEF Processing, Adding
  <2>2. ASSUME NEW t \in Threads \ {self}, Processing(my[t]) PROVE FALSE
    <3>1. pending = 1
      BY <2>2, Zenon DEF IInv, LocalOK
    <3>2. Processing(m)
      BY <1>1, <1>3, <3>1 DEF Processing, Adding
    <3> QED
      BY <2>2, <3>2, Zenon DEF IInv, OneProcessor
  <2> QED
    BY <1>6, <2>1, <2>2, Zenon
<1>17. OneProcessor'
  BY <1>16, Zenon DEF OneProcessor, Processing, Adding
<1>18. LocalOK(self, my[self])'
  BY <1>1, <1>2, <1>3, <1>7, <1>9, Zenon
    DEF LocalOK, Called, Adding, Processing,
     Holding, Busy
<1>19. ASSUME NEW t \in Threads \ {self} PROVE LocalOK(t, my[t])'
  <2>1. my'[t] = my[t] /\ LocalOK(t, my[t]) /\ ~Processing(my[t])
    BY <1>6, <1>16, Zenon DEF IInv
  <2>2. my[t].pc # "next"
    BY <1>1, <1>2, <2>1, Zenon DEF LocalOK, Holding
  <2> QED
    BY <1>3, <2>1, <2>2, Zenon
      DEF LocalOK, Called, Adding, Processing, Holding, Busy
<1> QED
  BY <1>12, <1>15, <1>17, <1>18, <1>19, Zenon DEF IInv

(***************************************************************************)
(* The end of add_pending: the lock is released and the call returns.      *)
(***************************************************************************)
LEMMA ReleaseKeeps ==
    ASSUME IInv, NEW self \in Threads, my[self].pc \in {"locked", "wake"},
           Release(self), Return(self),
           UNCHANGED <<status, thread, list, queue, woken, calls, failed>>,
           pipe' \in [Threads -> BOOLEAN],
           \/ pending' = pending
           \/ pending = 1 /\ pending' = 0 /\ Processing(my[self])
    PROVE  IInv'
<1> DEFINE m == my[self]
           r == [Locals EXCEPT !.pc = m.ret, !.claimed = m.claimed]
<1>1. TypeOK /\ m \in LocalsType /\ LocalOK(self, m)
  BY Zenon DEF IInv, TypeOK
<1>2. /\ m.ret \in {"run", "fire", "unlist", "process"}
      /\ m.claimed \in 0 .. 1 /\ m.th \in AllThreads
      /\ lock[m.th] = {self}
  BY <1>1, Zenon DEF LocalsType, LocalOK, Holding
<1>3. m.ret \in Labels
  BY <1>2, Zenon DEF Labels
<1>4. /\ r \in LocalsType
      /\ r.pc = m.ret /\ r.ret = "run" /\ r.always = FALSE
      /\ r.claimed = m.claimed
  BY <1>2, <1>3, FreshRecord, Zenon
<1>5. /\ my' \in [Threads -> LocalsType]
      /\ my'[self] = r
      /\ \A t \in Threads : t # self => my'[t] = my[t]
  BY <1>1, <1>4, SetMy, Zenon DEF TypeOK, Return
<1>6. /\ my'[self].pc = m.ret /\ my'[self].ret = "run"
      /\ my'[self].always = FALSE /\ my'[self].claimed = m.claimed
  BY <1>4, <1>5, Zenon
<1> HIDE DEF r
<1>7. /\ lock' \in [AllThreads -> SUBSET Threads]
      /\ \A t \in AllThreads : t # m.th => lock'[t] = lock[t]
  BY <1>1, <1>2, Zenon DEF TypeOK, Release
<1>8. TypeOK'
  BY <1>1, <1>5, <1>7 DEF TypeOK, status
<1>9. \A t \in Threads : Entries(t)' = Entries(t)
  BY <1>5, <1>6, Zenon DEF Entries
<1>10. (pending < 2) <=> (pending' < 2)
  BY <1>1 DEF TypeOK
<1>11. ListsAgree' /\ EntriesOwned' /\ HandledByOwner'
  BY <1>1, <1>8, <1>9, <1>10 DEF IInv, ListsAgree, EntriesOwned,
     HandledByOwner, TypeOK
<1>12. /\ ~Processing(my'[self])
       /\ \A t \in Threads : Processing(my'[t]) => Processing(my[t])
  BY <1>2, <1>5, <1>6, Zenon DEF Processing, Adding
<1>13. OneProcessor'
  BY <1>12, Zenon DEF IInv, OneProcessor, Processing, Adding
<1>14. LocalOK(self, my[self])'
  BY <1>1, <1>2, <1>6, Zenon
    DEF LocalOK, Called, Adding, Processing, Holding, Busy
<1>15. ASSUME NEW t \in Threads \ {self} PROVE LocalOK(t, my[t])'
  <2>1. my'[t] = my[t] /\ LocalOK(t, my[t]) /\ my[t].th \in AllThreads
    BY <1>5, Zenon DEF IInv, TypeOK, LocalsType
  <2>2. Processing(my[t]) => pending' = 1
    BY <2>1, Zenon DEF IInv, OneProcessor, LocalOK
  <2>3. Holding(my[t]) => lock'[my[t].th] = {t} /\ thread' = my[t].th
    BY <1>2, <1>7, <2>1, Zenon DEF LocalOK
  <2>4. my[t].pc = "next" => pending' = 0
    BY <2>1, Zenon DEF LocalOK
  <2> QED
    BY <2>1, <2>2, <2>3, <2>4, Zenon DEF LocalOK, Called, Adding, Processing,
       Holding, Busy
<1> QED
  BY <1>8, <1>11, <1>13, <1>14, <1>15, Zenon DEF IInv

(***************************************************************************)
(* add_pending as a whole keeps the invariant.                             *)
(***************************************************************************)
LEMMA AddPendingKeeps ==
    ASSUME IInv, NEW self \in Threads, AddPending(self)
    PROVE  IInv'
<1>1. TypeOK /\ my[self] \in LocalsType
  BY Zenon DEF IInv, TypeOK
<1>2. CASE EnterNot(self)
  <2>1. CASE Fail(255)
    BY <2>1, FailKeeps
  <2>2. CASE /\ pending # 1 \/ my[self].always
             /\ pending' = IF pending < 2 THEN 0 ELSE pending
             /\ Release(self) /\ Return(self)
             /\ UNCHANGED <<status, thread, list, queue, woken, pipe, calls,
                            failed>>
    <3>1. pipe' \in [Threads -> BOOLEAN] /\ my[self].pc = "locked"
      BY <1>1, <1>2, <2>2, Zenon DEF TypeOK, EnterNot, At
    <3>2. \/ pending' = pending
          \/ pending = 1 /\ pending' = 0 /\ Processing(my[self])
      BY <1>1, <2>2, <3>1 DEF TypeOK, Processing, Adding
    <3> QED
      BY <2>2, <3>1, <3>2, ReleaseKeeps, Zenon
  <2> QED
    BY <1>2, <2>1, <2>2, Zenon DEF EnterNot
<1>3. CASE Wake(self)
  <2>1. pipe' \in [Threads -> BOOLEAN] /\ my[self].pc = "wake"
    BY <1>1, <1>3, Zenon DEF TypeOK, Wake, At
  <2> QED
    BY <1>3, <2>1, ReleaseKeeps, Zenon DEF Wake
<1> QED
  BY <1>2, <1>3, BegunKeep, AcquireKeeps, LeaveQuiescentKeeps,
     NextThreadKeeps, EnterKeeps, Zenon DEF AddPending

(***************************************************************************)
(* complete_schedule, process_pending and run_tasks change the scheduled   *)
(* list only of the thread that runs them, while it owns the task.         *)
(***************************************************************************)
LEMMA CompleteKeeps ==
    ASSUME IInv, NEW self \in Threads, complete_schedule(self)
    PROVE  IInv'
<1> DEFINE m == my[self]
           r == [Locals EXCEPT !.pc = m.ret, !.claimed = m.claimed]
<1>1. /\ TypeOK /\ m \in LocalsType /\ LocalOK(self, m)
      /\ m.pc = "complete"
  BY Zenon DEF IInv, TypeOK, complete_schedule, At
<1>2. /\ m.ret \in {"run", "fire", "unlist", "process"}
      /\ m.claimed \in 0 .. 1
      /\ m.ret \in {"fire", "unlist"} => list = {self}
  BY <1>1, Zenon DEF LocalsType, LocalOK, Busy
<1>3. CASE UNCHANGED list
  <2>1. Aside
    BY <1>1, <1>3, Zenon DEF complete_schedule, status, Aside, TypeOK
  <2>2. Return(self) \/ add_pending(self, FALSE, m.ret)
    BY Zenon DEF complete_schedule
  <2>3. CASE Return(self)
    BY <1>1, <2>1, <2>3, ReturnKeeps, Zenon DEF Called
  <2>4. CASE add_pending(self, FALSE, m.ret)
    BY <1>1, <1>2, <2>1, <2>4, AddKeeps, Zenon
  <2> QED
    BY <2>2, <2>3, <2>4, Zenon
<1>4. CASE list' # list
  <2>1. /\ UNCHANGED <<home, is_scheduled, is_strong, thread, pending, queue,
                       lock, woken, pipe, calls, failed>>
        /\ list = {} /\ list' = {self} /\ thread = self /\ Return(self)
    BY <1>4, Zenon DEF complete_schedule, status
  <2>2. m.ret \in Labels
    BY <1>2, Zenon DEF Labels
  <2>3. /\ r \in LocalsType
        /\ r.pc = m.ret /\ r.ret = "run" /\ r.always = FALSE
        /\ r.claimed = m.claimed
    BY <1>2, <2>2, FreshRecord, Zenon
  <2>4. /\ my' \in [Threads -> LocalsType]
        /\ my'[self] = r
        /\ \A t \in Threads : t # self => my'[t] = my[t]
    BY <1>1, <2>1, <2>3, SetMy, Zenon DEF TypeOK, Return
  <2>5. /\ my'[self].pc = m.ret /\ my'[self].ret = "run"
        /\ my'[self].always = FALSE /\ my'[self].claimed = m.claimed
    BY <2>3, <2>4, Zenon
  <2> HIDE DEF r
  <2>6. TypeOK'
    BY <1>1, <2>1, <2>4, Zenon DEF TypeOK
  <2>7. \A t \in Threads : Entries(t)' = Entries(t)
    BY <2>1, <2>4, <2>5, Zenon DEF Entries
  <2>8. ListsAgree' /\ EntriesOwned' /\ HandledByOwner'
    BY <2>1, <2>7 DEF IInv, ListsAgree, EntriesOwned, HandledByOwner
  <2>9. \A t \in Threads : Processing(my'[t]) => Processing(my[t])
    BY <1>2, <2>4, <2>5, Zenon DEF Processing, Adding
  <2>10. OneProcessor'
    BY <2>9, Zenon DEF IInv, OneProcessor, Processing, Adding
  <2>11. LocalOK(self, my[self])'
    BY <1>1, <1>2, <2>1, <2>5, Zenon DEF LocalOK, Called, Adding, Processing,
       Holding, Busy
  <2>12. ASSUME NEW t \in Threads \ {self} PROVE LocalOK(t, my[t])'
    <3>1. my'[t] = my[t] /\ LocalOK(t, my[t]) /\ ~Busy(my[t])
      BY <2>1, <2>4, Zenon DEF IInv, LocalOK
    <3> QED
      BY <2>1, <3>1, Zenon
         DEF LocalOK, Called, Adding, Processing, Holding, Busy
  <2> QED
    BY <2>6, <2>8, <2>10, <2>11, <2>12 DEF IInv
<1> QED
  BY <1>3, <1>4, Zenon

(***************************************************************************)
(* process_pending claims the pending list: the entry moves from the queue *)
(* to the thread.                                                          *)
(***************************************************************************)
LEMMA ClaimKeeps ==
    ASSUME IInv, NEW self \in Threads, Claim(self)
    PROVE  IInv'
<1> DEFINE m == my[self]
           r == [m EXCEPT !.pc = "process", !.claimed = queue[self]]
<1>1. /\ TypeOK /\ m \in LocalsType /\ LocalOK(self, m) /\ m.pc = "loop"
      /\ m.claimed \in 0 .. 1 /\ queue[self] \in 0 .. 1
  BY Zenon DEF IInv, TypeOK, LocalsType, Claim, At
<1>2. m.claimed = 0 /\ ~Called(m)
  BY <1>1 DEF LocalOK, Called, Adding
<1>3. CASE queue[self] = 0
  <2>1. Aside /\ Goto(self, "run")
    BY <1>1, <1>3, Zenon DEF Claim, status, Aside, TypeOK
  <2> QED
    BY <1>2, <2>1, GotoKeeps, Zenon
<1>4. CASE queue[self] # 0
  <2>1. /\ UNCHANGED <<home, is_scheduled, is_strong, thread, pending, list,
                       lock, woken, pipe, calls, failed>>
        /\ Set(self, r) /\ queue' = [queue EXCEPT ![self] = 0]
    BY <1>4, Zenon DEF Claim, status
  <2>2. "process" \in Labels
    BY Zenon DEF Labels
  <2>3. /\ r \in LocalsType
        /\ r.pc = "process" /\ r.ret = m.ret /\ r.always = m.always
        /\ r.claimed = queue[self]
    BY <1>1, <2>2, ZenonT(30) DEF LocalsType
  <2>4. /\ my' \in [Threads -> LocalsType]
        /\ my'[self] = r
        /\ \A t \in Threads : t # self => my'[t] = my[t]
    BY <1>1, <2>1, <2>3, SetMy, Zenon DEF TypeOK
  <2>5. /\ my'[self].pc = "process" /\ my'[self].ret = m.ret
        /\ my'[self].always = m.always /\ my'[self].claimed = queue[self]
    BY <2>3, <2>4, Zenon
  <2> HIDE DEF r
  <2>6. /\ queue' \in [Threads -> 0 .. 1] /\ queue'[self] = 0
        /\ \A t \in Threads : t # self => queue'[t] = queue[t]
    BY <1>1, <2>1 DEF TypeOK
  <2>7. TypeOK'
    BY <1>1, <2>1, <2>4, <2>6, Zenon DEF TypeOK
  <2>8. \A t \in Threads : Entries(t)' = Entries(t)
    <3>1. queue'[self] + my'[self].claimed = queue[self] + m.claimed
      BY <1>1, <1>2, <2>5, <2>6
    <3>2. \A t \in Threads : t # self => Entries(t)' = Entries(t)
      BY <2>4, <2>6, Zenon DEF Entries
    <3> QED
      BY <3>1, <3>2, Zenon DEF Entries
  <2>9. ListsAgree' /\ EntriesOwned' /\ HandledByOwner'
    BY <2>1, <2>8 DEF IInv, ListsAgree, EntriesOwned, HandledByOwner
  <2>10. \A t \in Threads : Processing(my'[t]) => Processing(my[t])
    BY <2>4, <2>5, Zenon DEF Processing, Adding
  <2>11. OneProcessor'
    BY <2>10 DEF IInv, OneProcessor, Processing, Adding
  <2>12. LocalOK(self, my[self])'
    BY <1>1, <2>1, <2>5, Zenon
      DEF LocalOK, Called, Adding, Processing, Holding, Busy
  <2>13. ASSUME NEW t \in Threads \ {self} PROVE LocalOK(t, my[t])'
    <3>1. my'[t] = my[t] /\ LocalOK(t, my[t])
      BY <2>4 DEF IInv
    <3> QED
      BY <2>1, <3>1, Zenon
        DEF LocalOK, Called, Adding, Processing, Holding, Busy
  <2> QED
    BY <2>7, <2>9, <2>11, <2>12, <2>13 DEF IInv
<1> QED
  BY <1>3, <1>4, Zenon

(***************************************************************************)
(* process_pending takes its entry: the entry says that the task is this   *)
(* thread's, so that the assertion of process_pending holds.               *)
(***************************************************************************)
LEMMA ProcessPendingKeeps ==
    ASSUME IInv, NEW self \in Threads, ProcessPending(self)
    PROVE  IInv'
<1> DEFINE m == my[self]
           r == [m EXCEPT !.pc = "snapshot", !.claimed = 0]
<1>1. /\ TypeOK /\ m \in LocalsType /\ LocalOK(self, m) /\ m.pc = "process"
      /\ m.claimed \in 0 .. 1 /\ queue[self] \in 0 .. 1
  BY Zenon DEF IInv, TypeOK, LocalsType, ProcessPending, At
<1>2. CASE m.claimed = 0
  <2>1. ~Called(m)
    BY <1>1, Zenon DEF Called, Adding
  <2>2. Aside /\ Goto(self, "run")
    BY <1>1, <1>2 DEF ProcessPending, status, Aside, TypeOK
  <2> QED
    BY <1>2, <2>1, <2>2, GotoKeeps, Zenon
<1>3. CASE m.claimed # 0
  <2>1. m.claimed = 1 /\ Entries(self) > 0
    BY <1>1, <1>3 DEF Entries
  <2>2. pending = 2 /\ thread = self
    BY <1>1, <2>1 DEF IInv, TypeOK, ListsAgree, EntriesOwned
  <2>3. \A t \in Threads \ {self} : Entries(t) = 0
    BY <2>1, <2>2 DEF IInv, ListsAgree
  <2>4. /\ UNCHANGED <<home, is_scheduled, is_strong, thread, list, queue,
                       lock, woken, pipe, calls, failed>>
        /\ pending' = 1 /\ Set(self, r)
    <3>1. m.claimed - 1 = 0
      BY <2>1
    <3> QED
      BY <1>3, <2>2, <3>1, Zenon DEF ProcessPending, status
  <2>5. /\ r \in LocalsType
        /\ r.pc = "snapshot" /\ r.ret = m.ret /\ r.always = m.always
        /\ r.claimed = 0
    BY <1>1, EntryRecord, Zenon
  <2>6. /\ my' \in [Threads -> LocalsType]
        /\ my'[self] = r
        /\ \A t \in Threads : t # self => my'[t] = my[t]
    BY <1>1, <2>4, <2>5, SetMy, Zenon DEF TypeOK
  <2>7. /\ my'[self].pc = "snapshot" /\ my'[self].ret = m.ret
        /\ my'[self].always = m.always /\ my'[self].claimed = 0
    BY <2>5, <2>6, Zenon
  <2> HIDE DEF r
  <2>8. TypeOK'
    BY <1>1, <2>4, <2>6 DEF TypeOK
  <2>9. \A t \in Threads : Entries(t)' = 0
    <3>1. queue[self] = 0
      <4>1. Entries(self) = 1
        BY <2>1, <2>2 DEF IInv, ListsAgree
      <4> QED
        BY <1>1, <2>1, <4>1 DEF Entries
    <3>2. \A t \in Threads : t # self => Entries(t)' = Entries(t)
      BY <2>4, <2>6, Zenon DEF Entries
    <3>3. Entries(self)' = 0
      BY <2>4, <2>7, <3>1 DEF Entries
    <3> QED
      BY <2>3, <3>2, <3>3, Zenon
  <2>10. ListsAgree' /\ EntriesOwned' /\ HandledByOwner'
    BY <2>4, <2>9 DEF IInv, ListsAgree, EntriesOwned, HandledByOwner
  <2>11. \A t \in Threads \ {self} : ~Processing(my[t])
    BY <2>2 DEF IInv, LocalOK
  <2>12. OneProcessor'
    BY <2>6, <2>11, Zenon DEF OneProcessor, Processing, Adding
  <2>13. LocalOK(self, my[self])'
    BY <1>1, <2>2, <2>4, <2>7 DEF LocalOK, Called, Adding, Processing,
       Holding, Busy
  <2>14. ASSUME NEW t \in Threads \ {self} PROVE LocalOK(t, my[t])'
    <3>1. /\ my'[t] = my[t] /\ LocalOK(t, my[t]) /\ ~Processing(my[t])
          /\ my[t].pc # "next"
      BY <2>2, <2>6, <2>11, SMTT(20) DEF IInv, LocalOK
    <3> QED
      BY <2>4, <3>1, Zenon
         DEF LocalOK, Called, Adding, Processing, Holding, Busy
  <2> QED
    BY <2>8, <2>10, <2>12, <2>13, <2>14 DEF IInv
<1> QED
  BY <1>2, <1>3, Zenon

(***************************************************************************)
(* process_pending reads the status once, and leaves if its home is another*)
(* thread.                                                                 *)
(***************************************************************************)
LEMMA SnapshotKeeps ==
    ASSUME IInv, NEW self \in Threads, Snapshot(self)
    PROVE  IInv'
<1> DEFINE m == my[self]
           w == IF home # self THEN "depart" ELSE "decide"
           r == [m EXCEPT !.st = Status, !.pc = w]
<1>1. /\ TypeOK /\ m \in LocalsType /\ LocalOK(self, m)
      /\ m.pc = "snapshot"
  BY Zenon DEF IInv, TypeOK, Snapshot, At
<1>2. Aside /\ Set(self, r)
  BY <1>1, Zenon DEF Snapshot, status, Aside, TypeOK
<1>3. w \in Labels /\ w \in {"depart", "decide"} /\ (w = "decide" => home = self)
  BY Zenon DEF Labels
<1>4. /\ Status \in [home : AllThreads, is_scheduled : BOOLEAN,
                     is_strong : BOOLEAN]
      /\ Status.home = home
  BY <1>1, Zenon DEF Status, TypeOK
<1> HIDE DEF w
<1>5. /\ r \in LocalsType
      /\ r.pc = w /\ r.ret = m.ret /\ r.always = m.always
      /\ r.claimed = m.claimed /\ r.st.home = home
  BY <1>1, <1>3, <1>4, Zenon DEF LocalsType
<1>6. LocalOK(self, r) /\ Processing(m)
  BY <1>1, <1>3, <1>5, Zenon
    DEF LocalOK, Called, Adding, Processing, Holding, Busy,
     LocalsType
<1> QED
  BY <1>2, <1>5, <1>6, Quiet, Zenon DEF Aside

(***************************************************************************)
(* The task leaves this thread under its lock: nobody holds a lock of the  *)
(* task, and nobody is at its callback.                                    *)
(***************************************************************************)
LEMMA DepartKeeps ==
    ASSUME IInv, NEW self \in Threads, Depart(self)
    PROVE  IInv'
<1> DEFINE m == my[self]
           r == [m EXCEPT !.pc = "decide"]
<1>1. /\ TypeOK /\ m \in LocalsType /\ LocalOK(self, m) /\ m.pc = "depart"
  BY Zenon DEF IInv, TypeOK, Depart, At
<1>2. /\ pending = 1 /\ thread = self /\ Processing(m) /\ ~Busy(m)
      /\ m.st.home \in AllThreads
  BY <1>1, Zenon DEF LocalOK, Processing, Adding, Called, Busy, LocalsType
<1>3. /\ UNCHANGED <<home, is_scheduled, is_strong, pending, queue, lock,
                     woken, pipe, calls, failed>>
      /\ list' = {} /\ thread' = m.st.home /\ Set(self, r)
      /\ lock[self] = {}
  BY Zenon DEF Depart, status, Goto
<1>4. "decide" \in Labels
  BY Zenon DEF Labels
<1>5. /\ r \in LocalsType
      /\ r.pc = "decide" /\ r.ret = m.ret /\ r.always = m.always
      /\ r.claimed = m.claimed /\ r.st = m.st
  BY <1>1, <1>4, GotoRecord, Zenon
<1>6. /\ my' \in [Threads -> LocalsType]
      /\ my'[self] = r
      /\ \A t \in Threads : t # self => my'[t] = my[t]
  BY <1>1, <1>3, <1>5, SetMy, Zenon DEF TypeOK
<1>7. /\ my'[self].pc = "decide" /\ my'[self].ret = m.ret
      /\ my'[self].always = m.always /\ my'[self].claimed = m.claimed
      /\ my'[self].st = m.st
  BY <1>5, <1>6, Zenon
<1> HIDE DEF r
<1>8. TypeOK'
  BY <1>1, <1>2, <1>3, <1>6, Zenon DEF TypeOK
<1>9. \A t \in Threads : Entries(t) = 0 /\ Entries(t)' = 0
  BY <1>2, <1>3, <1>6, <1>7 DEF IInv, ListsAgree, Entries
<1>10. ListsAgree' /\ EntriesOwned' /\ HandledByOwner'
  BY <1>2, <1>3, <1>9 DEF IInv, ListsAgree, EntriesOwned, HandledByOwner
<1>11. \A t \in Threads \ {self} : ~Processing(my[t])
  BY <1>2, Zenon DEF IInv, OneProcessor
<1>12. OneProcessor'
  BY <1>6, <1>11 DEF OneProcessor, Processing, Adding
<1>13. LocalOK(self, my[self])'
  BY <1>1, <1>2, <1>3, <1>7, Zenon
     DEF LocalOK, Called, Adding, Processing, Holding,
     Busy
<1>14. ASSUME NEW t \in Threads \ {self} PROVE LocalOK(t, my[t])'
  <2>1. my'[t] = my[t] /\ LocalOK(t, my[t]) /\ ~Processing(my[t])
    BY <1>6, <1>11, Zenon DEF IInv
  <2>2. ~Holding(my[t])
    BY <1>2, <1>3, <2>1, Zenon DEF LocalOK
  <2>3. ~Busy(my[t])
    BY <1>2, <2>1, Zenon DEF LocalOK, IInv, ListsAgree
  <2> QED
    BY <1>3, <2>1, <2>2, <2>3, Zenon DEF LocalOK, Called, Adding, Processing,
       Holding, Busy
<1> QED
  BY <1>8, <1>10, <1>12, <1>13, <1>14 DEF IInv

(***************************************************************************)
(* The end of process_pending: the task is not scheduled, enters the list of *)
(* this thread, or goes to the pending list of its new one.                *)
(***************************************************************************)
LEMMA DecideKeeps ==
    ASSUME IInv, NEW self \in Threads, Decide(self)
    PROVE  IInv'
<1> DEFINE m == my[self]
           r == [Locals EXCEPT !.pc = "process", !.claimed = m.claimed]
<1>1. /\ TypeOK /\ m \in LocalsType /\ LocalOK(self, m) /\ m.pc = "decide"
      /\ m.claimed \in 0 .. 1
  BY Zenon DEF IInv, TypeOK, Decide, At, LocalsType
<1>2. pending = 1 /\ Processing(m)
  BY <1>1, Zenon DEF LocalOK, Processing, Adding
<1>3. CASE add_pending(self, TRUE, "process") /\ UNCHANGED <<list, pending>>
  <2>1. Aside
    BY <1>1, <1>3, Zenon DEF Decide, status, Aside, TypeOK
  <2> QED
    BY <1>1, <1>2, <1>3, <2>1, AddKeeps, Zenon
<1>4. CASE /\ pending' = 0 /\ Processed(self)
           /\ \/ UNCHANGED list
              \/ list = {} /\ list' = {self} /\ thread = self
  <2>1. UNCHANGED <<home, is_scheduled, is_strong, thread, queue, lock, woken,
                    pipe, calls, failed>>
    BY Zenon DEF Decide, status
  <2>2. "process" \in Labels
    BY DEF Labels
  <2>3. /\ r \in LocalsType
        /\ r.pc = "process" /\ r.ret = "run" /\ r.always = FALSE
        /\ r.claimed = m.claimed
    BY <1>1, <2>2, FreshRecord, Zenon
  <2>4. /\ my' \in [Threads -> LocalsType]
        /\ my'[self] = r
        /\ \A t \in Threads : t # self => my'[t] = my[t]
    BY <1>1, <1>4, <2>3, SetMy, Zenon DEF TypeOK, Processed
  <2>5. /\ my'[self].pc = "process" /\ my'[self].ret = "run"
        /\ my'[self].always = FALSE /\ my'[self].claimed = m.claimed
    BY <2>3, <2>4, Zenon
  <2> HIDE DEF r
  <2>6. TypeOK'
    BY <1>1, <1>4, <2>1, <2>4 DEF TypeOK
  <2>7. \A t \in Threads : Entries(t) = 0 /\ Entries(t)' = 0
    BY <1>2, <2>1, <2>4, <2>5 DEF IInv, ListsAgree, Entries
  <2>8. ListsAgree' /\ EntriesOwned' /\ HandledByOwner'
    BY <1>4, <2>1, <2>7 DEF IInv, ListsAgree, EntriesOwned, HandledByOwner
  <2>9. \A t \in Threads \ {self} : ~Processing(my[t])
    BY <1>2, Zenon DEF IInv, OneProcessor
  <2>10. OneProcessor'
    BY <2>4, <2>9 DEF OneProcessor, Processing, Adding
  <2>11. LocalOK(self, my[self])'
    BY <2>5, Zenon DEF LocalOK, Called, Adding, Processing, Holding, Busy
  <2>12. ASSUME NEW t \in Threads \ {self} PROVE LocalOK(t, my[t])'
    <3>1. my'[t] = my[t] /\ LocalOK(t, my[t]) /\ ~Processing(my[t])
      BY <2>4, <2>9 DEF IInv
    <3>2. Busy(my[t]) => list' = {t}
      BY <1>4, <3>1, Zenon DEF LocalOK
    <3> QED
      BY <1>4, <2>1, <3>1, <3>2, Zenon
         DEF LocalOK, Called, Adding, Processing,
         Holding, Busy
  <2> QED
    BY <2>6, <2>8, <2>10, <2>11, <2>12 DEF IInv
<1>5. CASE ~m.st.is_scheduled \/ m.st.is_strong
  <2>1. pending' = 0 /\ Processed(self) /\ UNCHANGED list
    BY <1>5, Zenon DEF Decide
  <2> QED
    BY <1>4, <2>1, Zenon
<1>6. CASE ~(~m.st.is_scheduled \/ m.st.is_strong) /\ thread = self
  <2>1. /\ pending' = 0 /\ Processed(self)
        /\ list' = IF list = {} THEN {self} ELSE list
    BY <1>6, Zenon DEF Decide
  <2> QED
    BY <1>4, <1>6, <2>1, Zenon
<1>7. CASE ~(~m.st.is_scheduled \/ m.st.is_strong) /\ thread # self
  <2>1. pending < 2
    BY <1>2
  <2>2. add_pending(self, TRUE, "process") /\ UNCHANGED <<list, pending>>
    BY <1>7, <2>1, Zenon DEF Decide
  <2> QED
    BY <1>3, <2>2, Zenon
<1> QED
  BY <1>5, <1>6, <1>7, Zenon

(***************************************************************************)
(* run_tasks takes the task from the list of this thread.                  *)
(***************************************************************************)
LEMMA UnlistKeeps ==
    ASSUME IInv, NEW self \in Threads, Unlist(self)
    PROVE  IInv'
<1> DEFINE m == my[self]
           r == [m EXCEPT !.pc = "os"]
<1>1. /\ TypeOK /\ m \in LocalsType /\ LocalOK(self, m) /\ m.pc = "unlist"
  BY Zenon DEF IInv, TypeOK, Unlist, At
<1>2. list = {self} /\ m.ret = "run"
  BY <1>1, Zenon DEF LocalOK, Busy, Called, Adding
<1>3. /\ UNCHANGED <<home, is_scheduled, is_strong, thread, pending, queue,
                     lock, woken, pipe, calls, failed>>
      /\ list' = {} /\ Set(self, r)
  BY Zenon DEF Unlist, status, Goto
<1>4. "os" \in Labels
  BY Zenon DEF Labels
<1>5. /\ r \in LocalsType
      /\ r.pc = "os" /\ r.ret = m.ret /\ r.always = m.always
      /\ r.claimed = m.claimed
  BY <1>1, <1>4, GotoRecord, Zenon
<1>6. /\ my' \in [Threads -> LocalsType]
      /\ my'[self] = r
      /\ \A t \in Threads : t # self => my'[t] = my[t]
  BY <1>1, <1>3, <1>5, SetMy, Zenon DEF TypeOK
<1>7. /\ my'[self].pc = "os" /\ my'[self].ret = "run"
      /\ my'[self].always = m.always /\ my'[self].claimed = m.claimed
  BY <1>2, <1>5, <1>6, Zenon
<1> HIDE DEF r
<1>8. TypeOK'
  BY <1>1, <1>3, <1>6, Zenon DEF TypeOK
<1>9. \A t \in Threads : Entries(t)' = Entries(t)
  BY <1>3, <1>6, <1>7, Zenon DEF Entries
<1>10. ListsAgree' /\ EntriesOwned' /\ HandledByOwner'
  BY <1>3, <1>9 DEF IInv, ListsAgree, EntriesOwned, HandledByOwner
<1>11. \A t \in Threads : Processing(my'[t]) => Processing(my[t])
  BY <1>6, <1>7, Zenon DEF Processing, Adding
<1>12. OneProcessor'
  BY <1>11 DEF IInv, OneProcessor, Processing, Adding
<1>13. LocalOK(self, my[self])'
  BY <1>1, <1>2, <1>7, Zenon
     DEF LocalOK, Called, Adding, Processing, Holding, Busy
<1>14. ASSUME NEW t \in Threads \ {self} PROVE LocalOK(t, my[t])'
  <2>1. my'[t] = my[t] /\ LocalOK(t, my[t]) /\ ~Busy(my[t])
    BY <1>2, <1>6, Zenon DEF IInv, LocalOK
  <2> QED
    BY <1>3, <2>1, Zenon
       DEF LocalOK, Called, Adding, Processing, Holding, Busy
<1> QED
  BY <1>8, <1>10, <1>12, <1>13, <1>14 DEF IInv

-----------------------------------------------------------------------------
(***************************************************************************)
(* initialize establishes the invariant.                                   *)
(***************************************************************************)
LEMMA InitIInv == Init => IInv
<1> SUFFICES ASSUME Init PROVE IInv
  BY Zenon
<1> USE TaskAssumption
<1>1. /\ Locals \in LocalsType /\ Locals.pc = "loop" /\ Locals.ret = "run"
      /\ Locals.always = FALSE /\ Locals.claimed = 0
  <2>1. "loop" \in Labels /\ Quiescent \in AllThreads
    BY Zenon DEF Labels, AllThreads
  <2> QED
    BY <2>1 DEF Locals, LocalsType, Want
<1>2. /\ my = [t \in Threads |-> Locals] /\ my \in [Threads -> LocalsType]
      /\ home \in Threads /\ thread = home /\ list = {} /\ failed = {}
      /\ pending = IF is_scheduled THEN 2 ELSE 0
      /\ queue = [t \in Threads |-> IF is_scheduled /\ t = home THEN 1 ELSE 0]
  BY <1>1, Zenon DEF Init
<1>3. TypeOK
  <2>1. lock \in [AllThreads -> SUBSET Threads]
    BY Zenon DEF Init
  <2>2. queue \in [Threads -> 0 .. 1] /\ pending \in 0 .. 2
    BY <1>2
  <2>3. /\ woken \in [Threads -> BOOLEAN] /\ pipe \in [Threads -> BOOLEAN]
        /\ is_scheduled \in BOOLEAN /\ is_strong \in BOOLEAN
    BY ZenonT(30) DEF Init
  <2>4. home \in AllThreads /\ calls \in 0 .. MaxCalls
    BY DEF Init, AllThreads
  <2> QED
    BY <1>2, <2>1, <2>2, <2>3, <2>4, Zenon DEF TypeOK
<1>4. \A t \in Threads : Entries(t) = IF is_scheduled /\ t = home THEN 1 ELSE 0
  BY <1>1, <1>2 DEF Entries
<1>5. ListsAgree /\ EntriesOwned /\ HandledByOwner
  BY <1>2, <1>4 DEF ListsAgree, EntriesOwned, HandledByOwner
<1>6. \A s \in Threads : LocalOK(s, my[s]) /\ ~Processing(my[s])
  BY <1>1, <1>2 DEF LocalOK, Called, Adding, Processing, Holding, Busy
<1> QED
  BY <1>3, <1>5, <1>6, Zenon DEF IInv, OneProcessor

(***************************************************************************)
(* The inductive invariant of the scheduler, for any set of threads and    *)
(* any number of calls.                                                    *)
(***************************************************************************)
THEOREM Inductive == Spec => []IInv
<1>1. Init => IInv
  BY InitIInv, Zenon
<1>2. IInv /\ [Next]_vars => IInv'
  <2> SUFFICES ASSUME IInv, [Next]_vars PROVE IInv'
    BY Zenon
  <2>1. ASSUME NEW self \in Threads, Driver(self) \/ OtherEvent(self)
        PROVE  IInv'
    BY <2>1, DriverKeeps, ClaimKeeps, ProcessPendingKeeps, SnapshotKeeps,
       DepartKeeps, DecideKeeps, UnlistKeeps, Zenon DEF Driver
  <2>2. ASSUME NEW self \in Threads, Begun(self) PROVE IInv'
    BY <2>2, AddPendingKeeps, BegunKeep, CompleteKeeps, Zenon DEF Begun
  <2>3. ASSUME NEW self \in Threads, Call(self) PROVE IInv'
    BY <2>3, CallsKeep, Zenon
  <2>4. CASE UNCHANGED vars
    <3>1. TypeOK' /\ ListsAgree' /\ EntriesOwned' /\ HandledByOwner'
      BY <2>4, SMTT(20)
         DEF vars, status, IInv, TypeOK, ListsAgree, EntriesOwned,
         Entries, HandledByOwner
    <3>2. OneProcessor'
      BY <2>4, Zenon DEF vars, status, IInv, OneProcessor, Processing, Adding
    <3>3. \A s \in Threads : LocalOK(s, my[s])'
      BY <2>4, Zenon
        DEF vars, status, IInv, LocalOK, Called, Adding, Processing,
         Holding, Busy
    <3> QED
      BY <3>1, <3>2, <3>3, Zenon DEF IInv
  <2> QED
    BY <2>1, <2>2, <2>3, <2>4, Zenon DEF Next, Halted
<1> QED
  BY <1>1, <1>2, PTL DEF Spec

(***************************************************************************)
(* The callback of a task runs on one thread at a time: a thread at the    *)
(* callback has the task on its own list, and there is one such list.      *)
(***************************************************************************)
THEOREM TaskOneRunner == Spec => []OneRunner
<1>1. IInv => OneRunner
  <2> SUFFICES ASSUME IInv, NEW s \in Threads, NEW t \in Threads,
                      Running(s), Running(t)
               PROVE  s = t
    BY Zenon DEF OneRunner
  <2>1. list = {s} /\ list = {t}
    BY Zenon DEF IInv, LocalOK, Busy, Running
  <2> QED
    BY <2>1, Zenon
<1> QED
  BY <1>1, Inductive, PTL

(***************************************************************************)
(* The lists agree with _thread and _pending_nextptr, and the assertions   *)
(* of run_tasks and process_pending hold.                                  *)
(***************************************************************************)
THEOREM TaskListsAgree == Spec => [](TypeOK /\ ListsAgree)
<1>1. IInv => TypeOK /\ ListsAgree
  BY Zenon DEF IInv
<1> QED
  BY <1>1, Inductive, PTL

(***************************************************************************)
(* A thread runs and processes a task only while _thread is that thread.   *)
(***************************************************************************)
THEOREM TaskHandledByOwner == Spec => []HandledByOwner
<1>1. IInv => HandledByOwner
  BY Zenon DEF IInv
<1> QED
  BY <1>1, Inductive, PTL

-----------------------------------------------------------------------------
(***************************************************************************)
(* ScheduledIsListed.  While the task is to run, it has a pending entry,   *)
(* or stands on a list no thread is about to take it from, or some thread  *)
(* is on its way to enter it: one that found it scheduled or has made it   *)
(* so, or one that is about to send it home.                               *)
(***************************************************************************)
Due == is_scheduled /\ ~is_strong /\ home # Quiescent /\ failed = {}

FoundDue(m) == m.st.is_scheduled /\ ~m.st.is_strong

Serving(t, m) ==
    \/ Adding(m)
    \/ m.pc \in {"pending?", "complete", "weak", "moved", "snapshot"}
    \/ m.pc \in {"depart", "decide"} /\ FoundDue(m)
    \/ m.pc = "compared" /\ home # t

Taking(m) ==
    m.pc \in {"depart", "compared", "unlist"} \/ m.ret = "unlist"

Served ==
    \/ pending = 2
    \/ \E t \in Threads : Serving(t, my[t])
    \/ list # {} /\ \A t \in Threads : ~Taking(my[t])

DueIsServed == Due => Served

(***************************************************************************)
(* Only add_pending returns to the place where run_tasks takes the task    *)
(* from its list.                                                          *)
(***************************************************************************)
ReturnsToUnlist(m) == m.ret = "unlist" => Adding(m) \/ m.pc = "wake"

ServeInv ==
    /\ \A t \in Threads : ReturnsToUnlist(my[t])
    /\ DueIsServed

(***************************************************************************)
(* A step of one thread keeps ReturnsToUnlist for all when its own new     *)
(* locals do, and leaves the locals of the others.                         *)
(***************************************************************************)
LEMMA LocalsStep ==
    ASSUME IInv, ServeInv, NEW self \in Threads, NEW r, Set(self, r),
           ReturnsToUnlist(r)
    PROVE  /\ my'[self] = r
           /\ \A t \in Threads : t # self => my'[t] = my[t]
           /\ (\A t \in Threads : ReturnsToUnlist(my[t]))'
<1>1. my \in [Threads -> LocalsType]
  BY Zenon DEF IInv, TypeOK
<1>2. /\ my'[self] = r
      /\ \A t \in Threads : t # self => my'[t] = my[t]
  BY <1>1, Zenon DEF Set
<1>3. \A t \in Threads : my'[t] = my[t] \/ my'[t] = r
  BY <1>2, Zenon
<1> QED
  BY <1>2, <1>3, Zenon DEF ServeInv, ReturnsToUnlist, Adding

(***************************************************************************)
(* The thread that steps serves the task, has entered it, or the task need *)
(* not run any more.                                                       *)
(***************************************************************************)
LEMMA EntersServes ==
    ASSUME IInv, ServeInv, NEW self \in Threads, NEW r, Set(self, r),
           ReturnsToUnlist(r),
           ~Due' \/ pending' = 2 \/ Serving(self, my[self])'
    PROVE  ServeInv'
<1>1. (\A t \in Threads : ReturnsToUnlist(my[t]))'
  BY LocalsStep, Zenon
<1>2. DueIsServed'
  BY Zenon DEF DueIsServed, Served
<1> QED
  BY <1>1, <1>2, Zenon DEF ServeInv

(***************************************************************************)
(* A thread that was not serving the task leaves whatever serves it, the   *)
(* list included unless it was about to take the task from there anyway.   *)
(***************************************************************************)
LEMMA PassesServes ==
    ASSUME IInv, ServeInv, NEW self \in Threads, NEW r, Set(self, r),
           ReturnsToUnlist(r),
           UNCHANGED <<status, failed>>,
           pending = 2 => pending' = 2,
           ~Serving(self, my[self]),
           Taking(my[self]) \/ (list # {} => list' # {} /\ ~Taking(r))
    PROVE  ServeInv'
<1>1. /\ my'[self] = r
      /\ \A t \in Threads : t # self => my'[t] = my[t]
      /\ (\A t \in Threads : ReturnsToUnlist(my[t]))'
  BY LocalsStep, Zenon
<1>2. Due' = Due /\ home' = home
  BY Zenon DEF Due, status
<1>3. ASSUME Due PROVE Served'
  <2>1. Served
    BY <1>3, Zenon DEF ServeInv, DueIsServed
  <2>2. ASSUME NEW t \in Threads, Serving(t, my[t]) PROVE Served'
    <3>1. my'[t] = my[t]
      BY <1>1, <2>2, Zenon
    <3>2. Serving(t, my[t])'
      BY <1>2, <2>2, <3>1, Zenon DEF Serving, Adding, FoundDue
    <3> QED
      BY <3>2, Zenon DEF Served
  <2>3. ASSUME list # {}, \A t \in Threads : ~Taking(my[t]) PROVE Served'
    <3>1. list' # {} /\ ~Taking(r)
      BY <2>3, Zenon
    <3>2. \A t \in Threads : my'[t] = my[t] \/ my'[t] = r
      BY <1>1, Zenon
    <3>3. \A t \in Threads : ~Taking(my[t])'
      BY <2>3, <3>1, <3>2, Zenon DEF Taking
    <3> QED
      BY <3>1, <3>3, Zenon DEF Served
  <2> QED
    BY <2>1, <2>2, <2>3, Zenon DEF Served
<1> QED
  BY <1>1, <1>2, <1>3, Zenon DEF ServeInv, DueIsServed

(***************************************************************************)
(* A step of the thread in _thread that leaves the task on the list: no    *)
(* other thread can be about to take it from there.                        *)
(***************************************************************************)
LEMMA ListedServes ==
    ASSUME IInv, ServeInv, NEW self \in Threads, NEW r, Set(self, r),
           ReturnsToUnlist(r), thread = self, list' # {}, ~Taking(r)
    PROVE  ServeInv'
<1>1. /\ my'[self] = r
      /\ \A t \in Threads : t # self => my'[t] = my[t]
      /\ (\A t \in Threads : ReturnsToUnlist(my[t]))'
  BY LocalsStep, Zenon
<1>2. ASSUME NEW t \in Threads, t # self PROVE ~Taking(my[t])
  <2>1. LocalOK(t, my[t]) /\ list \subseteq {self}
    BY Zenon DEF IInv, ListsAgree
  <2>2. my[t].pc # "depart" /\ ~Busy(my[t])
    BY <1>2, <2>1, Zenon DEF LocalOK
  <2> QED
    BY <2>2, Zenon DEF Taking, Busy
<1>3. \A t \in Threads : ~Taking(my[t])'
  BY <1>1, <1>2, Zenon DEF Taking
<1> QED
  BY <1>1, <1>3, Zenon DEF ServeInv, DueIsServed, Served

(***************************************************************************)
(* The steps of the driver that have nothing to do with the task.          *)
(***************************************************************************)
LEMMA GotoServes ==
    ASSUME IInv, ServeInv, NEW self \in Threads, NEW w,
           Goto(self, w), UNCHANGED <<status, pending, list, failed>>,
           my[self].pc \in {"loop", "process", "run", "fire", "os", "sleep",
                            "post", "drain"},
           w \notin {"depart", "compared", "unlist"}
    PROVE  ServeInv'
<1> DEFINE m == my[self]
           r == [m EXCEPT !.pc = w]
<1>1. m \in LocalsType /\ LocalOK(self, m)
  BY Zenon DEF IInv, TypeOK
<1>2. r.pc = w /\ r.ret = m.ret
  BY <1>1, Zenon DEF LocalsType
<1>3. m.ret = "run"
  BY <1>1, Zenon DEF LocalOK, Called, Adding
<1>4. ReturnsToUnlist(r) /\ ~Taking(r) /\ ~Serving(self, m)
  BY <1>2, <1>3, Zenon DEF ReturnsToUnlist, Taking, Serving, Adding
<1>5. Set(self, r)
  BY Zenon DEF Goto
<1> HIDE DEF r
<1> QED
  BY <1>4, <1>5, PassesServes, Zenon

(***************************************************************************)
(* A thread that enters add_pending serves the task.                       *)
(***************************************************************************)
LEMMA AddServes ==
    ASSUME IInv, ServeInv, NEW self \in Threads, NEW always, NEW ret,
           add_pending(self, always, ret)
    PROVE  ServeInv'
<1> DEFINE r == [my[self] EXCEPT !.pc = "add", !.always = always, !.ret = ret]
<1>1. my \in [Threads -> LocalsType]
  BY Zenon DEF IInv, TypeOK
<1>2. r.pc = "add"
  BY <1>1, Zenon DEF LocalsType
<1>3. Set(self, r)
  BY Zenon DEF add_pending
<1> HIDE DEF r
<1>4. my'[self] = r
  BY <1>1, <1>3, Zenon DEF Set
<1>5. ReturnsToUnlist(r) /\ Serving(self, my[self])'
  BY <1>2, <1>4, Zenon DEF ReturnsToUnlist, Serving, Adding
<1> QED
  BY <1>3, <1>5, EntersServes, Zenon

(***************************************************************************)
(* A thread that returns from a call leaves the task entered or not due.   *)
(***************************************************************************)
LEMMA ReturnServes ==
    ASSUME IInv, ServeInv, NEW self \in Threads, Return(self),
           ~Due' \/ pending' = 2
    PROVE  ServeInv'
<1> DEFINE r == [Locals EXCEPT !.pc = my[self].ret,
                               !.claimed = my[self].claimed]
<1>1. r.ret = "run"
  BY Zenon DEF Locals
<1>2. ReturnsToUnlist(r)
  BY <1>1, Zenon DEF ReturnsToUnlist
<1>3. Set(self, r)
  BY Zenon DEF Return
<1> HIDE DEF r
<1> QED
  BY <1>2, <1>3, EntersServes, Zenon

(***************************************************************************)
(* process_pending: the task is served from the moment its entry is taken  *)
(* until the status that was read is acted upon.                           *)
(***************************************************************************)
LEMMA PendingServes ==
    ASSUME IInv, ServeInv, NEW self \in Threads
    PROVE  \/ Claim(self) \/ ProcessPending(self) \/ Snapshot(self)
           \/ Depart(self) \/ Decide(self)
           => ServeInv'
<1> DEFINE m == my[self]
<1>1. /\ m \in LocalsType /\ LocalOK(self, m) /\ ReturnsToUnlist(m)
      /\ pending \in 0 .. 2 /\ my \in [Threads -> LocalsType]
  BY Zenon DEF IInv, TypeOK, ServeInv
<1>2. CASE Claim(self)
  <2>1. CASE Goto(self, "run") /\ UNCHANGED queue
    BY <1>2, <2>1, GotoServes, Zenon DEF Claim, At
  <2>2. CASE Set(self, [m EXCEPT !.pc = "process", !.claimed = queue[self]])
    <3> DEFINE r == [m EXCEPT !.pc = "process", !.claimed = queue[self]]
    <3>1. r.pc = "process" /\ r.ret = m.ret
      BY <1>1, Zenon DEF LocalsType
    <3>2. m.pc = "loop" /\ m.ret = "run"
      BY <1>1, <1>2, Zenon DEF Claim, At, LocalOK, Called, Adding
    <3>3. ReturnsToUnlist(r) /\ ~Taking(r) /\ ~Serving(self, m)
      BY <3>1, <3>2, Zenon DEF ReturnsToUnlist, Taking, Serving, Adding
    <3>4. Set(self, r) /\ UNCHANGED <<status, pending, list, failed>>
      BY <1>2, <2>2, Zenon DEF Claim
    <3> HIDE DEF r
    <3> QED
      BY <3>3, <3>4, PassesServes, Zenon
  <2> QED
    BY <1>2, <2>1, <2>2, Zenon DEF Claim
<1>3. CASE ProcessPending(self)
  <2>1. CASE Goto(self, "run") /\ UNCHANGED <<status, pending, list, failed>>
    BY <1>3, <2>1, GotoServes, Zenon DEF ProcessPending, At
  <2>2. CASE Fail(385)
    <3>1. Set(self, m) /\ ~Due'
      BY <1>1, <2>2, Zenon DEF Fail, Set, Due
    <3> QED
      BY <1>1, <3>1, EntersServes, Zenon
  <2>3. CASE Set(self, [m EXCEPT !.pc = "snapshot",
                                 !.claimed = m.claimed - 1])
    <3> DEFINE r == [m EXCEPT !.pc = "snapshot", !.claimed = m.claimed - 1]
    <3>1. r.pc = "snapshot" /\ r.ret = m.ret
      BY <1>1, Zenon DEF LocalsType
    <3>2. m.ret = "run"
      BY <1>1, <1>3, Zenon DEF ProcessPending, At, LocalOK, Called, Adding
    <3>3. ReturnsToUnlist(r)
      BY <3>1, <3>2, Zenon DEF ReturnsToUnlist
    <3>4. Set(self, r)
      BY <2>3, Zenon
    <3> HIDE DEF r
    <3>5. my'[self] = r
      BY <1>1, <3>4, Zenon DEF Set
    <3>6. Serving(self, my[self])'
      BY <3>1, <3>5, Zenon DEF Serving
    <3> QED
      BY <3>3, <3>4, <3>6, EntersServes, Zenon
  <2> QED
    BY <1>3, <2>1, <2>2, <2>3, Zenon DEF ProcessPending
<1>4. CASE Snapshot(self)
  <2> DEFINE w == IF home # self THEN "depart" ELSE "decide"
             r == [m EXCEPT !.st = Status, !.pc = w]
  <2>1. r.pc \in {"depart", "decide"} /\ r.ret = m.ret /\ r.st = Status
    BY <1>1, Zenon DEF LocalsType
  <2>2. m.ret = "run"
    BY <1>1, <1>4, Zenon DEF Snapshot, At, LocalOK, Called, Adding
  <2>3. ReturnsToUnlist(r)
    BY <2>1, <2>2, Zenon DEF ReturnsToUnlist
  <2>4. Set(self, r) /\ UNCHANGED status
    BY <1>4, Zenon DEF Snapshot
  <2> HIDE DEF r
  <2>5. my'[self] = r
    BY <1>1, <2>4, Zenon DEF Set
  <2>6. Due' => FoundDue(r)
    BY <2>1, <2>4 DEF Due, FoundDue, Status, status
  <2>7. Due' => Serving(self, my[self])'
    BY <2>1, <2>5, <2>6, Zenon DEF Serving, FoundDue
  <2> QED
    BY <2>3, <2>4, <2>7, EntersServes, Zenon
<1>5. CASE Depart(self)
  <2> DEFINE r == [m EXCEPT !.pc = "decide"]
  <2>1. r.pc = "decide" /\ r.ret = m.ret /\ r.st = m.st
    BY <1>1, Zenon DEF LocalsType
  <2>2. m.pc = "depart" /\ m.ret = "run"
    BY <1>1, <1>5, Zenon DEF Depart, At, LocalOK, Called, Adding
  <2>3. ReturnsToUnlist(r)
    BY <2>1, <2>2, Zenon DEF ReturnsToUnlist
  <2>4. Set(self, r) /\ UNCHANGED <<status, pending, failed>>
    BY <1>5, Zenon DEF Depart, Goto
  <2> HIDE DEF r
  <2>5. my'[self] = r
    BY <1>1, <2>4, Zenon DEF Set
  <2>6. CASE FoundDue(m)
    <3>1. Serving(self, my[self])'
      BY <2>1, <2>5, <2>6, Zenon DEF Serving, FoundDue
    <3> QED
      BY <2>3, <2>4, <3>1, EntersServes, Zenon
  <2>7. CASE ~FoundDue(m)
    <3>1. ~Serving(self, m) /\ Taking(m)
      BY <2>2, <2>7, Zenon DEF Serving, Adding, Taking
    <3> QED
      BY <2>3, <2>4, <3>1, PassesServes, Zenon
  <2> QED
    BY <2>6, <2>7, Zenon
<1>6. CASE Decide(self)
  <2>1. /\ m.pc = "decide" /\ m.ret = "run" /\ pending = 1
        /\ UNCHANGED <<status, failed>>
    BY <1>1, <1>6, Zenon DEF Decide, At, LocalOK, Called, Adding, Processing
  <2>2. CASE Processed(self)
    <3> DEFINE r == [Locals EXCEPT !.pc = "process", !.claimed = m.claimed]
    <3>1. r.pc = "process" /\ r.ret = "run"
      BY Zenon DEF Locals
    <3>2. ReturnsToUnlist(r) /\ ~Taking(r)
      BY <3>1, Zenon DEF ReturnsToUnlist, Taking
    <3>3. Set(self, r)
      BY <2>2, Zenon DEF Processed
    <3> HIDE DEF r
    <3>4. CASE ~FoundDue(m)
      <4>1. UNCHANGED list
        BY <1>6, <3>4, Zenon DEF Decide, FoundDue
      <4>2. ~Serving(self, m)
        BY <2>1, <3>4, Zenon DEF Serving, Adding
      <4>3. /\ UNCHANGED <<status, failed>>
            /\ pending = 2 => pending' = 2
            /\ list # {} => list' # {} /\ ~Taking(r)
        BY <2>1, <3>2, <4>1
      <4> QED
        BY <3>2, <3>3, <4>2, <4>3, PassesServes, Zenon
    <3>5. CASE FoundDue(m) /\ thread = self
      <4>1. list' # {}
        BY <1>6, <3>5, Zenon DEF Decide, FoundDue
      <4> QED
        BY <3>2, <3>3, <3>5, <4>1, ListedServes, Zenon
    <3>6. CASE FoundDue(m) /\ thread # self
      <4>0. pending < 2
        BY <2>1
      <4>1. add_pending(self, TRUE, "process")
        BY <1>6, <3>6, <4>0, Zenon DEF Decide, FoundDue
      <4>2. my'[self].pc = "add" /\ my'[self].pc = "process"
        BY <1>1, <3>1, <3>3, <4>1, ZenonT(30) DEF add_pending, Set, LocalsType
      <4> QED
        BY <4>2, Zenon
    <3> QED
      BY <3>4, <3>5, <3>6, Zenon
  <2>3. CASE add_pending(self, TRUE, "process")
    BY <1>1, <2>3, AddServes, Zenon
  <2> QED
    BY <1>6, <2>2, <2>3, Zenon DEF Decide
<1> QED
  BY <1>2, <1>3, <1>4, <1>5, <1>6, Zenon

(***************************************************************************)
(* run_tasks and run_os: a thread sends the task home, or takes it from    *)
(* the list only where it need not run or something else serves it.        *)
(***************************************************************************)
LEMMA RunServes ==
    ASSUME IInv, ServeInv, NEW self \in Threads
    PROVE  \/ Look(self) \/ LookHome(self) \/ Unlist(self) \/ Clear(self)
           \/ Fired(self) \/ Select(self) \/ Selected(self)
           \/ OtherEvent(self) \/ post_select(self)
           => ServeInv'
<1> DEFINE m == my[self]
           r(w) == [m EXCEPT !.pc = w]
<1>1. /\ m \in LocalsType /\ LocalOK(self, m) /\ ReturnsToUnlist(m)
      /\ my \in [Threads -> LocalsType]
  BY Zenon DEF IInv, TypeOK, ServeInv
<1>0. SUFFICES ASSUME \/ Look(self) \/ LookHome(self) \/ Unlist(self)
                      \/ Clear(self) \/ Fired(self) \/ Select(self)
                      \/ Selected(self) \/ OtherEvent(self)
                      \/ post_select(self)
               PROVE  ServeInv'
  BY Zenon
<1>2. m.ret = "run"
  BY <1>0, <1>1, Zenon
    DEF Look, LookHome, Unlist, Clear, Fired, Select, Selected,
     OtherEvent, post_select, At, LocalOK, Called, Adding
<1>3. \A w : r(w).pc = w /\ r(w).ret = "run"
  BY <1>1, <1>2, Zenon DEF LocalsType
<1>4. \A w : ReturnsToUnlist(r(w))
  BY <1>3, Zenon DEF ReturnsToUnlist
<1>5. \A w : Goto(self, w) => Set(self, r(w)) /\ my'[self] = r(w)
  BY <1>1, Zenon DEF Goto, Set
<1> HIDE DEF r
<1>6. CASE Look(self)
  <2>1. CASE Goto(self, "os") /\ UNCHANGED <<status, pending, list, failed>>
    BY <1>6, <2>1, GotoServes, Zenon DEF Look, At
  <2>2. CASE Fail(376)
    <3>1. Set(self, m) /\ ~Due'
      BY <1>1, <2>2, Zenon DEF Fail, Set, Due
    <3> QED
      BY <1>1, <3>1, EntersServes, Zenon
  <2>3. CASE Goto(self, "clear") /\ UNCHANGED <<status, pending, list, failed>>
    BY <1>6, <2>3, GotoServes, Zenon DEF Look, At
  <2>4. CASE /\ Status # Want(self) /\ Goto(self, "compared")
             /\ UNCHANGED status
    <3>1. home = self => ~Due'
      BY <2>4, Zenon DEF Status, Want, Due, status, IInv, TypeOK
    <3>2. home # self => Serving(self, my[self])'
      BY <1>3, <1>5, <2>4, Zenon DEF Serving, status
    <3> QED
      BY <1>4, <1>5, <2>4, <3>1, <3>2, EntersServes, Zenon
  <2> QED
    BY <1>6, <2>1, <2>2, <2>3, <2>4, Zenon DEF Look
<1>7. CASE LookHome(self)
  <2>1. CASE add_pending(self, FALSE, "unlist")
    BY <2>1, AddServes, Zenon
  <2>2. CASE home = self /\ Goto(self, "unlist")
    <3>1. ~Serving(self, m) /\ Taking(m)
      BY <1>7, <2>2, Zenon DEF LookHome, At, Serving, Taking, Adding
    <3>2. UNCHANGED <<status, pending, failed>>
      BY <1>7, Zenon DEF LookHome
    <3> QED
      BY <1>4, <1>5, <2>2, <3>1, <3>2, PassesServes, Zenon
  <2> QED
    BY <1>7, <2>1, <2>2, Zenon DEF LookHome
<1>8. CASE Unlist(self)
  <2>1. ~Serving(self, m) /\ Taking(m)
    BY <1>8, Zenon DEF Unlist, At, Serving, Taking, Adding
  <2>2. UNCHANGED <<status, pending, failed>> /\ Goto(self, "os")
    BY <1>8, Zenon DEF Unlist
  <2> QED
    BY <1>4, <1>5, <2>1, <2>2, PassesServes, Zenon
<1>9. CASE Clear(self)
  <2>1. ~Due' /\ Goto(self, "fire")
    BY <1>9, Zenon DEF Clear, Due
  <2> QED
    BY <1>4, <1>5, <2>1, EntersServes, Zenon
<1>10. CASE Fired(self)
  <2>1. UNCHANGED <<status, pending, list, failed>> /\ m.pc = "fire"
    BY <1>10, Zenon DEF Fired, At
  <2>2. CASE is_scheduled
    BY <1>10, <2>1, <2>2, GotoServes, Zenon DEF Fired
  <2>3. CASE ~is_scheduled
    <3>1. ~Due' /\ Goto(self, "unlist")
      BY <1>10, <2>1, <2>3 DEF Fired, Due, status
    <3> QED
      BY <1>4, <1>5, <3>1, EntersServes, Zenon
  <2> QED
    BY <2>2, <2>3, Zenon
<1>11. CASE Select(self)
  <2>1. /\ UNCHANGED <<status, pending, list, failed>> /\ m.pc = "os"
        /\ Goto(self, "post") \/ Goto(self, "sleep")
    BY <1>11, Zenon DEF Select, At
  <2> QED
    BY <2>1, GotoServes, Zenon
<1>12. CASE Selected(self) \/ OtherEvent(self)
  <2>1. /\ UNCHANGED <<status, pending, list, failed>> /\ m.pc = "sleep"
        /\ Goto(self, "post")
    BY <1>12, Zenon DEF Selected, OtherEvent, At
  <2> QED
    BY <2>1, GotoServes, Zenon
<1>13. CASE post_select(self)
  <2>1. /\ UNCHANGED <<status, pending, list, failed>>
        /\ m.pc \in {"post", "drain"}
        /\ Goto(self, "drain") \/ Goto(self, "loop")
    BY <1>13, Zenon DEF post_select, At
  <2> QED
    BY <2>1, GotoServes, Zenon
<1> QED
  BY <1>0, <1>6, <1>7, <1>8, <1>9, <1>10, <1>11, <1>12, <1>13, Zenon

(***************************************************************************)
(* add_pending ends with the task entered, or on a quiescent thread.       *)
(***************************************************************************)
LEMMA AddPendingServes ==
    ASSUME IInv, ServeInv, NEW self \in Threads
    PROVE  AddPending(self) => ServeInv'
<1> DEFINE m == my[self]
<1>1. /\ m \in LocalsType /\ LocalOK(self, m) /\ ReturnsToUnlist(m)
      /\ my \in [Threads -> LocalsType] /\ pending \in 0 .. 2
  BY Zenon DEF IInv, TypeOK, ServeInv
<1>2. ASSUME NEW r, Set(self, r), Adding(r) PROVE ServeInv'
  <2>1. my'[self] = r
    BY <1>1, <1>2, Zenon DEF Set
  <2>2. ReturnsToUnlist(r) /\ Serving(self, my[self])'
    BY <1>2, <2>1, Zenon DEF ReturnsToUnlist, Serving, Adding
  <2> QED
    BY <1>2, <2>2, EntersServes, Zenon
<1>3. ASSUME NEW line, Fail(line) PROVE ServeInv'
  <2>1. Set(self, m) /\ ~Due'
    BY <1>1, <1>3, Zenon DEF Fail, Set, Due
  <2> QED
    BY <1>1, <2>1, EntersServes, Zenon
<1>4. CASE ReadThread(self)
  <2> DEFINE r == [m EXCEPT !.pc = "acquire", !.th = thread]
  <2>1. Set(self, r) /\ Adding(r)
    BY <1>1, <1>4, Zenon DEF ReadThread, Adding, LocalsType
  <2> QED
    BY <1>2, <2>1, Zenon
<1>5. CASE Acquire(self)
  <2>1. Adding([m EXCEPT !.pc = "locked"]) /\ Adding([m EXCEPT !.pc = "add"])
    BY <1>1, Zenon DEF Adding, LocalsType
  <2>2. \/ Set(self, [m EXCEPT !.pc = "locked"])
        \/ Set(self, [m EXCEPT !.pc = "add"])
    BY <1>5, Zenon DEF Acquire, Goto
  <2> QED
    BY <1>2, <2>1, <2>2, Zenon
<1>6. CASE LeaveQuiescent(self)
  <2> DEFINE r == [m EXCEPT !.pc = "next", !.next = home]
  <2>1. Adding(r)
    BY <1>1, Zenon DEF Adding, LocalsType
  <2>2. Fail(241) \/ Set(self, r)
    BY <1>6, Zenon DEF LeaveQuiescent
  <2> HIDE DEF r
  <2> QED
    BY <1>2, <1>3, <2>1, <2>2, Zenon
<1>7. CASE NextThread(self)
  <2> DEFINE r == [m EXCEPT !.pc = "locked", !.th = m.next]
  <2>1. Set(self, r) /\ Adding(r)
    BY <1>1, <1>7, Zenon DEF NextThread, Adding, LocalsType
  <2> QED
    BY <1>2, <2>1, Zenon
<1>8. CASE Enter(self)
  <2> DEFINE r == [m EXCEPT !.pc = "wake"]
  <2>1. r.pc = "wake"
    BY <1>1, Zenon DEF LocalsType
  <2>2. Set(self, r) /\ pending' = 2 /\ ReturnsToUnlist(r)
    BY <1>8, <2>1, Zenon DEF Enter, Goto, ReturnsToUnlist
  <2> HIDE DEF r
  <2> QED
    BY <2>2, EntersServes, Zenon
<1>9. CASE EnterNot(self)
  <2>1. CASE Fail(255)
    BY <1>3, <2>1, Zenon
  <2>2. CASE /\ pending = 2 \/ m.th = Quiescent
             /\ pending' = IF pending < 2 THEN 0 ELSE pending
             /\ Return(self) /\ UNCHANGED status
    <3>1. pending = 2 => pending' = 2
      BY <2>2
    <3>2. m.th = Quiescent => ~Due'
      BY <1>9, <2>2, Zenon DEF EnterNot, Due, status
    <3> QED
      BY <2>2, <3>1, <3>2, ReturnServes, Zenon
  <2> QED
    BY <1>9, <2>1, <2>2, Zenon DEF EnterNot
<1>10. CASE Wake(self)
  <2> DEFINE r == [Locals EXCEPT !.pc = m.ret, !.claimed = m.claimed]
  <2>1. r.pc = m.ret /\ r.ret = "run" /\ m.pc = "wake"
    BY <1>10, Zenon DEF Locals, Wake, At
  <2>2. Set(self, r) /\ UNCHANGED <<status, pending, list, failed>>
    BY <1>10, Zenon DEF Wake, Return
  <2>3. m.ret \in {"run", "fire", "unlist", "process"}
    BY <1>1, Zenon DEF LocalsType
  <2> HIDE DEF r
  <2>4. /\ ReturnsToUnlist(r) /\ ~Serving(self, m)
        /\ Taking(r) => Taking(m)
    BY <2>1, <2>3, Zenon DEF ReturnsToUnlist, Serving, Taking, Adding
  <2> QED
    BY <2>2, <2>4, PassesServes, Zenon
<1> QED
  BY <1>4, <1>5, <1>6, <1>7, <1>8, <1>9, <1>10, Zenon DEF AddPending

(***************************************************************************)
(* What reschedule and move_thread go on to do once the status is changed. *)
(***************************************************************************)
LEMMA BegunServes ==
    ASSUME IInv, ServeInv, NEW self \in Threads
    PROVE  Begun(self) => ServeInv'
<1> DEFINE m == my[self]
<1>1. /\ m \in LocalsType /\ ReturnsToUnlist(m)
      /\ my \in [Threads -> LocalsType] /\ pending \in 0 .. 2
  BY Zenon DEF IInv, TypeOK, ServeInv
<1>2. CASE PendingTest(self)
  <2>1. CASE pending < 2
    <3> DEFINE r == [m EXCEPT !.pc = "complete"]
    <3>1. r.pc = "complete" /\ r.ret = m.ret /\ m.pc = "pending?"
      BY <1>1, <1>2, Zenon DEF LocalsType, PendingTest, At
    <3>2. Set(self, r)
      BY <1>2, <2>1, Zenon DEF PendingTest, Goto
    <3> HIDE DEF r
    <3>3. my'[self] = r
      BY <1>1, <3>2, Zenon DEF Set
    <3>4. ReturnsToUnlist(r) /\ Serving(self, my[self])'
      BY <1>1, <3>1, <3>3, Zenon DEF ReturnsToUnlist, Serving, Adding
    <3> QED
      BY <3>2, <3>4, EntersServes, Zenon
  <2>2. CASE ~(pending < 2)
    <3>1. pending' = 2
      BY <1>1, <1>2, <2>2 DEF PendingTest
    <3> QED
      BY <1>2, <2>2, <3>1, ReturnServes, Zenon DEF PendingTest
  <2> QED
    BY <2>1, <2>2, Zenon
<1>3. CASE complete_schedule(self)
  <2>1. CASE thread = self
    <3> DEFINE r == [Locals EXCEPT !.pc = m.ret, !.claimed = m.claimed]
    <3>1. r.pc = m.ret /\ r.ret = "run" /\ m.pc = "complete"
      BY <1>3, Zenon DEF Locals, complete_schedule, At
    <3>2. Set(self, r) /\ list' # {}
      BY <1>3, <2>1, Zenon DEF complete_schedule, Return
    <3>3. m.ret \in {"run", "fire", "process"}
      BY <1>1, <3>1, Zenon DEF LocalsType, ReturnsToUnlist, Adding
    <3> HIDE DEF r
    <3>4. ReturnsToUnlist(r) /\ ~Taking(r)
      BY <3>1, <3>3, Zenon DEF ReturnsToUnlist, Taking
    <3> QED
      BY <2>1, <3>2, <3>4, ListedServes, Zenon
  <2>2. CASE thread # self /\ pending < 2
    BY <1>3, <2>2, AddServes, Zenon DEF complete_schedule
  <2>3. CASE thread # self /\ ~(pending < 2)
    <3>1. pending' = 2
      BY <1>1, <1>3, <2>3 DEF complete_schedule
    <3> QED
      BY <1>3, <2>3, <3>1, ReturnServes, Zenon DEF complete_schedule
  <2> QED
    BY <2>1, <2>2, <2>3, Zenon
<1>4. CASE MoveThread(self)
  <2>1. CASE add_pending(self, FALSE, m.ret)
    BY <2>1, AddServes, Zenon
  <2>2. CASE /\ ~(home # Quiescent /\ is_scheduled /\ ~is_strong /\ pending < 2)
             /\ Return(self)
    <3>1. UNCHANGED <<status, pending>>
      BY <1>4, Zenon DEF MoveThread
    <3>2. ~Due' \/ pending' = 2
      BY <1>1, <2>2, <3>1 DEF Due, status
    <3> QED
      BY <2>2, <3>2, ReturnServes, Zenon
  <2> QED
    BY <1>4, <2>1, <2>2, Zenon DEF MoveThread
<1> QED
  BY <1>2, <1>3, <1>4, AddPendingServes, Zenon DEF Begun

(***************************************************************************)
(* The calls: one that makes the task due goes on to enter it, except      *)
(* fast_reschedule, whose caller has the task on its own list.             *)
(***************************************************************************)
LEMMA CallServes ==
    ASSUME IInv, ServeInv, NEW self \in Threads
    PROVE  Call(self) => ServeInv'
<1> DEFINE m == my[self]
           c(w) == [m EXCEPT !.pc = w, !.ret = m.pc]
<1>1. /\ m \in LocalsType /\ LocalOK(self, m) /\ ReturnsToUnlist(m)
      /\ my \in [Threads -> LocalsType]
  BY DEF IInv, TypeOK, ServeInv
<1>2. ASSUME Calling(self) PROVE m.pc \in {"run", "fire"}
  BY <1>2, Zenon DEF Calling
<1>3. ASSUME Calling(self), NEW w, Continue(self, w)
      PROVE  /\ Set(self, c(w)) /\ my'[self] = c(w)
             /\ my'[self].pc = w /\ ReturnsToUnlist(c(w))
  <2>1. c(w).pc = w /\ c(w).ret = m.pc
    BY <1>1, Zenon DEF LocalsType
  <2> QED
    BY <1>1, <1>2, <1>3, <2>1, Zenon DEF Continue, Set, ReturnsToUnlist
<1>4. ASSUME Calling(self), NEW w \in {"pending?", "weak", "moved"},
             Continue(self, w)
      PROVE  ServeInv'
  <2>1. Serving(self, my[self])'
    BY <1>3, <1>4, Zenon DEF Serving
  <2> HIDE DEF c
  <2> QED
    BY <1>3, <1>4, <2>1, EntersServes, Zenon
<1>5. CASE reschedule(self)
  BY <1>4, <1>5, Zenon DEF reschedule
<1>6. CASE fast_reschedule(self)
  <2>1. m.pc = "fire" /\ UNCHANGED <<my, list>>
    BY <1>6, Zenon DEF fast_reschedule, At
  <2>2. m.ret = "run" /\ list = {self}
    BY <1>1, <2>1, Zenon DEF LocalOK, Called, Adding, Busy
  <2>3. thread = self
    BY <2>2, Zenon DEF IInv, ListsAgree
  <2>4. Set(self, m) /\ list' # {} /\ ~Taking(m)
    BY <1>1, <2>1, <2>2, Zenon DEF Set, Taking
  <2> QED
    BY <1>1, <2>3, <2>4, ListedServes, Zenon
<1>7. CASE unschedule(self)
  <2>1. Set(self, m) /\ ~Due'
    BY <1>1, <1>7, Zenon DEF unschedule, Set, Due
  <2> QED
    BY <1>1, <2>1, EntersServes, Zenon
<1>8. CASE strong_unschedule(self)
  <2>1. CASE /\ Calling(self) /\ is_scheduled' = FALSE
             /\ Continue(self, "strong")
    <3>1. ~Due'
      BY <2>1, Zenon DEF Due
    <3> HIDE DEF c
    <3> QED
      BY <1>3, <2>1, <3>1, EntersServes, Zenon
  <2>2. CASE is_strong' = TRUE /\ Return(self)
    <3>1. ~Due'
      BY <2>2, Zenon DEF Due
    <3> QED
      BY <2>2, <3>1, ReturnServes, Zenon
  <2> QED
    BY <1>8, <2>1, <2>2, Zenon DEF strong_unschedule
<1>9. CASE strong_reschedule(self)
  <2>1. CASE Calling(self) /\ Continue(self, "weak")
    BY <1>4, <2>1, Zenon
  <2>2. CASE At(self, "weak") /\ Goto(self, "pending?")
    <3> DEFINE r == [m EXCEPT !.pc = "pending?"]
    <3>1. r.pc = "pending?" /\ r.ret = m.ret /\ m.pc = "weak"
      BY <1>1, <2>2, Zenon DEF LocalsType, At
    <3>2. Set(self, r)
      BY <2>2, Zenon DEF Goto
    <3> HIDE DEF r
    <3>3. my'[self] = r
      BY <1>1, <3>2, Zenon DEF Set
    <3>4. ReturnsToUnlist(r) /\ Serving(self, my[self])'
      BY <1>1, <3>1, <3>3, Zenon DEF ReturnsToUnlist, Serving, Adding
    <3> QED
      BY <3>2, <3>4, EntersServes
  <2> QED
    BY <1>9, <2>1, <2>2, Zenon DEF strong_reschedule
<1>10. CASE \E n \in AllThreads : move_thread(self, n)
  BY <1>4, <1>10, Zenon DEF move_thread
<1> QED
  BY <1>5, <1>6, <1>7, <1>8, <1>9, <1>10, Zenon DEF Call

(***************************************************************************)
(* The first invariant of lib/task.cc, read for the home thread: while no  *)
(* thread is in the middle of an operation on it, a scheduled task whose   *)
(* home thread runs is on the scheduled list or has a pending entry, so    *)
(* that no request is lost whatever calls the threads interleave.          *)
(***************************************************************************)
THEOREM TaskScheduledIsListed == Spec => []ScheduledIsListed
<1>1. Init => ServeInv
  <2> SUFFICES ASSUME Init PROVE ServeInv
    OBVIOUS
  <2>1. \A t \in Threads : my[t].ret = "run"
    BY Zenon DEF Init, Locals
  <2>2. is_scheduled => pending = 2
    BY Zenon DEF Init
  <2> QED
    BY <2>1, <2>2, Zenon
      DEF ServeInv, ReturnsToUnlist, DueIsServed, Due, Served
<1>2. IInv /\ ServeInv /\ [Next]_vars => ServeInv'
  <2> SUFFICES ASSUME IInv, ServeInv, [Next]_vars PROVE ServeInv'
    BY Zenon
  <2>1. ASSUME NEW self \in Threads, Driver(self) \/ OtherEvent(self)
        PROVE  ServeInv'
    BY <2>1, PendingServes, RunServes, Zenon DEF Driver
  <2>2. ASSUME NEW self \in Threads, Begun(self) PROVE ServeInv'
    BY <2>2, BegunServes, Zenon
  <2>3. ASSUME NEW self \in Threads, Call(self) PROVE ServeInv'
    BY <2>3, CallServes, Zenon
  <2>4. CASE UNCHANGED vars
    <3>1. (\A t \in Threads : ReturnsToUnlist(my[t]))'
      BY <2>4, Zenon DEF vars, ServeInv, ReturnsToUnlist, Adding
    <3>2. DueIsServed'
      BY <2>4, Zenon
        DEF vars, status, ServeInv, DueIsServed, Due, Served, Serving,
         Adding, FoundDue, Taking
    <3> QED
      BY <3>1, <3>2, Zenon DEF ServeInv
  <2> QED
    BY <2>1, <2>2, <2>3, <2>4, Zenon DEF Next, Halted
<1>3. IInv /\ ServeInv => ScheduledIsListed
  <2> SUFFICES ASSUME ServeInv, Due, \A t \in Threads : Between(t)
               PROVE  list # {} \/ pending # 0
    BY Zenon DEF ScheduledIsListed, Due
  <2>1. Served
    BY Zenon DEF ServeInv, DueIsServed
  <2>2. \A t \in Threads : ~Serving(t, my[t])
    BY Zenon DEF Between, Serving, Adding
  <2> QED
    BY <2>1, <2>2 DEF Served
<1> QED
  BY <1>1, <1>2, <1>3, Inductive, PTL DEF Spec

-----------------------------------------------------------------------------
(***************************************************************************)
(* The inductive invariant says of each note, and of the flag of the task, *)
(* which step of which thread is still to come when they are not right.    *)
(***************************************************************************)
EmptyNote ==
    head # tail => empty_note \/ push.pc = "wake" \/ pull.pc = "again"

FullNote ==
    ~full_note => \/ size(head, tail) = capacity
                  \/ push.pc = "again"
                  \/ pull.pc = "wake"

KeptWaits ==
    /\ pull.pc # "idle" => kept = None
    /\ kept # None => scheduled \/ waits # {}

TaskAsleep ==
    pull.pc = "idle" /\ ~scheduled /\ waits = {} =>
        ~empty_note \/ push.pc = "resched"

CountBelow == pull.pc \notin {"idle", "end"} => pull.count < burst

IInvQueue ==
    /\ TypeOKQueue
    /\ SlotsApart
    /\ EmptyNote
    /\ FullNote
    /\ KeptWaits
    /\ TaskAsleep
    /\ CountBelow

(***************************************************************************)
(* Stepping from slot to slot: next_i stays in the ring, is injective, and *)
(* moves the size by one.                                                  *)
(***************************************************************************)
LEMMA NextSlot ==
    ASSUME NEW i \in Slots
    PROVE  next_i(i) \in Slots
BY QueueAssumption DEF next_i, Slots

(***************************************************************************)
(* Two slots with the same successor are one slot.                         *)
(***************************************************************************)
LEMMA NextSlotInjective ==
    ASSUME NEW i \in Slots, NEW j \in Slots, i # j
    PROVE  next_i(i) # next_i(j)
BY QueueAssumption DEF next_i, Slots

(***************************************************************************)
(* The ring holds at most capacity packets.                                *)
(***************************************************************************)
LEMMA SizeAtMostCapacity ==
    ASSUME NEW h \in Slots, NEW t \in Slots
    PROVE  size(h, t) \in 0 .. capacity
BY QueueAssumption DEF size, Slots

(***************************************************************************)
(* A ring whose next tail is not its head is not full.                     *)
(***************************************************************************)
LEMMA SizeWithRoom ==
    ASSUME NEW h \in Slots, NEW t \in Slots, next_i(t) # h
    PROVE  size(h, t) # capacity
BY QueueAssumption DEF size, Slots, next_i

(***************************************************************************)
(* initialize establishes the invariant.                                   *)
(***************************************************************************)
LEMMA InitIInvQueue == InitQueue => IInvQueue
<1> SUFFICES ASSUME InitQueue PROVE IInvQueue
  OBVIOUS
<1>1. TypeOKQueue
  <2>1. q \in [Slots -> 0 .. Packets] /\ head \in Slots /\ tail \in Slots
    BY QueueAssumption DEF InitQueue, Slots, None
  <2>2. sleepiness \in 0 .. SLEEPINESS_TRIGGER /\ kept \in 0 .. Packets
    BY QueueAssumption DEF InitQueue, None
  <2>3. push = [pc |-> "idle", p |-> 0, h |-> 0] /\ 0 \in Slots
    BY QueueAssumption DEF InitQueue, Slots
  <2>4. pull = [pc |-> "idle", p |-> 0, count |-> 0] /\ 0 \in 0 .. burst
    BY QueueAssumption DEF InitQueue, None
  <2>5. 0 \in 0 .. Packets
    BY QueueAssumption
  <2>6. push \in [pc : {"idle", "slot", "tail", "wake", "resched", "full?",
                        "again"}, p : 0 .. Packets, h : Slots]
    BY <2>3, <2>5, Zenon
  <2>7. pull \in [pc : {"idle", "pull", "slot", "head", "wake", "sleep",
                        "again", "resched", "send", "end"},
                  p : 0 .. Packets, count : 0 .. burst]
    BY <2>4, <2>5, Zenon
  <2> QED
    BY <2>1, <2>2, <2>6, <2>7, Zenon DEF InitQueue, TypeOKQueue
<1>2. SlotsApart /\ EmptyNote /\ FullNote /\ KeptWaits /\ TaskAsleep
  BY Zenon
    DEF InitQueue, SlotsApart, EmptyNote, FullNote, KeptWaits, TaskAsleep
<1>3. CountBelow
  BY Zenon DEF InitQueue, CountBelow
<1> QED
  BY <1>1, <1>2, <1>3, Zenon DEF IInvQueue

(***************************************************************************)
(* Every step of the queue and of ToDevice keeps the types.                *)
(***************************************************************************)
LEMMA TypePreserved == IInvQueue /\ [NextQueue]_varsQueue => TypeOKQueue'
<1> SUFFICES ASSUME IInvQueue, [NextQueue]_varsQueue PROVE TypeOKQueue'
  BY Zenon
<1> USE QueueAssumption DEF IInvQueue, TypeOKQueue, None
<1>1. CASE Push
  <2>1. push.p + 1 \in 0 .. Packets
    BY <1>1 DEF Push
  <2>2. push' \in [pc : {"idle", "slot", "tail", "wake", "resched", "full?",
                         "again"}, p : 0 .. Packets, h : Slots]
    BY <1>1, <2>1, Zenon DEF Push
  <2> QED
    BY <1>1, <2>2, Zenon DEF Push, ring, notes, device
<1>2. CASE PushSlot
  BY <1>2, Zenon DEF PushSlot, notes, device
<1>3. CASE PushTail
  BY <1>3, NextSlot, Zenon DEF PushTail, notes, device
<1>4. CASE PushWake
  BY <1>4, Zenon DEF PushWake, ring, device
<1>5. CASE PushReschedule
  BY <1>5, Zenon DEF PushReschedule, ring, notes, device
<1>6. CASE PushFull
  BY <1>6, Zenon DEF PushFull, ring, device
<1>7. CASE PushAgain
  BY <1>7, Zenon DEF PushAgain, ring, device
<1>8. CASE RunTask
  <2>1. pull' \in [pc : {"idle", "pull", "slot", "head", "wake", "sleep",
                         "again", "resched", "send", "end"},
                   p : 0 .. Packets, count : 0 .. burst]
    BY <1>8 DEF RunTask
  <2>2. /\ kept' = 0 /\ scheduled' = FALSE
        /\ UNCHANGED <<ring, notes, sleepiness, push, backoff, waits, out>>
    BY <1>8, Zenon DEF RunTask
  <2>3. 0 \in 0 .. Packets
    OBVIOUS
  <2> QED
    BY <2>1, <2>2, <2>3, Zenon DEF ring, notes
<1>9. CASE Pull
  BY <1>9 DEF Pull, PullAt, ring, device
<1>10. CASE PullSlot
  BY <1>10, Zenon DEF PullSlot, ring, notes, device
<1>11. CASE PullHead
  BY <1>11, NextSlot DEF PullHead, PullAt, notes, device
<1>12. CASE PullWake
  BY <1>12, Zenon DEF PullWake, PullAt, ring, device
<1>13. CASE Sleep
  BY <1>13, Zenon DEF Sleep, PullAt, ring, device
<1>14. CASE SleepAgain
  BY <1>14, Zenon DEF SleepAgain, PullAt, ring, device
<1>15. CASE PullReschedule
  BY <1>15, Zenon DEF PullReschedule, PullAt, ring, notes, device
<1>16. CASE End
  BY <1>16 DEF End, ring, notes, device
<1>17. ASSUME NEW w \in {"select", "timer"}, Again(w) PROVE TypeOKQueue'
  BY <1>17, Zenon DEF Again, ring, notes
<1>18. CASE Sent
  <2>1. pull.count + 1 \in 0 .. burst
    BY <1>18 DEF Sent, CountBelow
  <2>2. pull' \in [pc : {"idle", "pull", "slot", "head", "wake", "sleep",
                         "again", "resched", "send", "end"},
                   p : 0 .. Packets, count : 0 .. burst]
    BY <1>18, <2>1 DEF Sent
  <2> QED
    BY <1>18, <2>2, Zenon DEF Sent, ring, notes
<1>19. CASE Refused
  BY <1>19, Zenon DEF Refused, PullAt, ring, notes
<1>20. CASE Failed
  BY <1>20, Zenon DEF Failed, PullAt, ring, notes
<1>21. CASE UNCHANGED varsQueue
  BY <1>21, Zenon DEF varsQueue, ring, notes, device
<1> QED
  BY <1>1, <1>2, <1>3, <1>4, <1>5, <1>6, <1>7, <1>8, <1>9, <1>10, <1>11,
     <1>12, <1>13, <1>14, <1>15, <1>16, <1>17, <1>18, <1>19, <1>20, <1>21, Zenon
     DEF NextQueue, Pushing, Pulling

(***************************************************************************)
(* push writes a slot that pull does not read: only push moves the tail and*)
(* only pull the head, each by one slot.                                   *)
(***************************************************************************)
LEMMA SlotsPreserved == IInvQueue /\ [NextQueue]_varsQueue => SlotsApart'
<1> SUFFICES ASSUME IInvQueue, [NextQueue]_varsQueue PROVE SlotsApart'
  OBVIOUS
<1> USE DEF IInvQueue, TypeOKQueue, SlotsApart, next_i
<1>1. CASE Push
  BY <1>1, Zenon DEF Push, ring
<1>2. CASE PushSlot
  BY <1>2, Zenon DEF PushSlot
<1>3. CASE PushTail
  BY <1>3, Zenon DEF PushTail
<1>4. CASE PushWake \/ PushReschedule \/ PushFull \/ PushAgain
  BY <1>4, Zenon DEF PushWake, PushReschedule, PushFull, PushAgain, ring
<1>5. CASE RunTask
  BY <1>5, Zenon DEF RunTask, ring
<1>6. CASE Pull
  BY <1>6, Zenon DEF Pull, PullAt, ring
<1>7. CASE PullSlot
  BY <1>7, Zenon DEF PullSlot, ring
<1>8. CASE PullHead
  <2>1. head # tail /\ head' = next_i(head) /\ tail' = tail /\ push' = push
    BY <1>8, Zenon DEF PullHead
  <2>2. next_i(tail) # next_i(head)
    BY <2>1, NextSlotInjective, Zenon
  <2>3. pull'.pc = "wake"
    BY <1>8, Zenon DEF PullHead, PullAt
  <2> QED
    BY <2>1, <2>2, <2>3, Zenon
<1>9. CASE PullWake \/ Sleep \/ SleepAgain \/ PullReschedule
  BY <1>9, Zenon DEF PullWake, Sleep, SleepAgain, PullReschedule, PullAt, ring
<1>10. CASE End
  BY <1>10, Zenon DEF End, ring
<1>11. ASSUME NEW w \in {"select", "timer"}, Again(w) PROVE SlotsApart'
  BY <1>11, Zenon DEF Again, ring
<1>12. CASE Sent \/ Refused \/ Failed
  BY <1>12 DEF Sent, Refused, Failed, PullAt, ring
<1>13. CASE UNCHANGED varsQueue
  BY <1>13, Zenon DEF varsQueue, ring
<1> QED
  BY <1>1, <1>2, <1>3, <1>4, <1>5, <1>6, <1>7, <1>8, <1>9, <1>10, <1>11,
     <1>12, <1>13, Zenon DEF NextQueue, Pushing, Pulling

(***************************************************************************)
(* A notifier that is asleep has a thread on its way to wake it whenever it*)
(* ought to be awake.                                                      *)
(***************************************************************************)
LEMMA NotesPreserved ==
    IInvQueue /\ [NextQueue]_varsQueue => EmptyNote' /\ FullNote' /\ CountBelow'
<1> SUFFICES ASSUME IInvQueue, [NextQueue]_varsQueue
             PROVE  EmptyNote' /\ FullNote' /\ CountBelow'
  BY Zenon
<1> USE QueueAssumption DEF IInvQueue, TypeOKQueue, EmptyNote, FullNote, CountBelow
<1>1. CASE Push
  BY <1>1, Zenon DEF Push, ring, notes, size
<1>2. CASE PushSlot
  BY <1>2, Zenon DEF PushSlot, notes, size
<1>3. CASE PushTail
  <2>1. size(head, tail) # capacity
    BY <1>3, SizeWithRoom, Zenon DEF PushTail, SlotsApart
  <2> QED
    BY <1>3, <2>1, Zenon DEF PushTail, notes
<1>4. CASE PushWake
  BY <1>4, Zenon DEF PushWake, ring, size
<1>5. CASE PushReschedule
  BY <1>5, Zenon DEF PushReschedule, ring, notes, size
<1>6. CASE PushFull
  BY <1>6, Zenon DEF PushFull, ring, size
<1>7. CASE PushAgain
  <2>1. size(head, tail) \in 0 .. capacity
    BY SizeAtMostCapacity, Zenon
  <2>2. size(head, tail) < capacity \/ size(head, tail) = capacity
    BY <2>1
  <2>3. head' = head /\ tail' = tail /\ UNCHANGED <<pull, empty_note>>
    BY <1>7, Zenon DEF PushAgain, ring
  <2>4. push.pc = "again" /\ full_note' = (full_note \/ size(head, tail) < capacity)
    BY <1>7, Zenon DEF PushAgain
  <2>5. EmptyNote' /\ CountBelow'
    BY <2>3, <2>4, Zenon
  <2>6. FullNote'
    BY <2>2, <2>3, <2>4, Zenon DEF size
  <2> QED
    BY <2>5, <2>6, Zenon
<1>8. CASE RunTask
  BY <1>8 DEF RunTask, ring, notes, size
<1>9. CASE Pull
  BY <1>9, Zenon DEF Pull, PullAt, ring, size
<1>10. CASE PullSlot
  BY <1>10, Zenon DEF PullSlot, ring, notes, size
<1>11. CASE PullHead
  BY <1>11, Zenon DEF PullHead, PullAt, notes, SlotsApart
<1>12. CASE PullWake
  BY <1>12, Zenon DEF PullWake, PullAt, ring, size
<1>13. CASE Sleep
  BY <1>13, Zenon DEF Sleep, PullAt, ring, size
<1>14. CASE SleepAgain
  BY <1>14, Zenon DEF SleepAgain, PullAt, ring, size
<1>15. CASE PullReschedule
  BY <1>15, Zenon DEF PullReschedule, PullAt, ring, notes, size
<1>16. CASE End
  BY <1>16, Zenon DEF End, ring, notes, size
<1>17. ASSUME NEW w \in {"select", "timer"}, Again(w)
       PROVE  EmptyNote' /\ FullNote' /\ CountBelow'
  BY <1>17, Zenon DEF Again, ring, notes, size
<1>18. CASE Sent
  BY <1>18, Zenon DEF Sent, ring, notes, size
<1>19. CASE Refused
  BY <1>19, Zenon DEF Refused, PullAt, ring, notes, size
<1>20. CASE Failed
  BY <1>20, Zenon DEF Failed, PullAt, ring, notes, size
<1>21. CASE UNCHANGED varsQueue
  BY <1>21, Zenon DEF varsQueue, ring, notes, size
<1> QED
  BY <1>1, <1>2, <1>3, <1>4, <1>5, <1>6, <1>7, <1>8, <1>9, <1>10, <1>11,
     <1>12, <1>13, <1>14, <1>15, <1>16, <1>17, <1>18, <1>19, <1>20, <1>21, Zenon
     DEF NextQueue, Pushing, Pulling

(***************************************************************************)
(* The task of ToDevice is asleep only while it waits for the notifier or  *)
(* for its timer, and keeps a packet the device refused.                   *)
(***************************************************************************)
LEMMA TaskPreserved == IInvQueue /\ [NextQueue]_varsQueue => KeptWaits' /\ TaskAsleep'
<1> SUFFICES ASSUME IInvQueue, [NextQueue]_varsQueue PROVE KeptWaits' /\ TaskAsleep'
  BY Zenon
<1> USE DEF IInvQueue, TypeOKQueue, KeptWaits, TaskAsleep
<1>1. CASE Push
  BY <1>1, Zenon DEF Push, notes, device
<1>2. CASE PushSlot
  BY <1>2, Zenon DEF PushSlot, notes, device
<1>3. CASE PushTail
  BY <1>3, Zenon DEF PushTail, notes, device
<1>4. CASE PushWake
  BY <1>4, Zenon DEF PushWake, device
<1>5. CASE PushReschedule
  BY <1>5, Zenon DEF PushReschedule, notes, device
<1>6. CASE PushFull
  BY <1>6, Zenon DEF PushFull, device
<1>7. CASE PushAgain
  BY <1>7, Zenon DEF PushAgain, device
<1>8. CASE RunTask
  BY <1>8, Zenon DEF RunTask, notes
<1>9. CASE Pull
  BY <1>9, Zenon DEF Pull, PullAt, device
<1>10. CASE PullSlot
  BY <1>10, Zenon DEF PullSlot, notes, device
<1>11. CASE PullHead
  BY <1>11, Zenon DEF PullHead, PullAt, notes, device
<1>12. CASE PullWake \/ Sleep
  BY <1>12, Zenon DEF PullWake, Sleep, PullAt, device
<1>13. CASE SleepAgain
  BY <1>13, Zenon DEF SleepAgain, PullAt, device
<1>14. CASE PullReschedule
  BY <1>14, Zenon DEF PullReschedule, PullAt, notes, device
<1>15. CASE End
  BY <1>15, Zenon DEF End, notes, device
<1>16. ASSUME NEW w \in {"select", "timer"}, Again(w)
       PROVE  KeptWaits' /\ TaskAsleep'
  BY <1>16, Zenon DEF Again, notes
<1>17. CASE Sent
  BY <1>17, Zenon DEF Sent, notes
<1>18. CASE Refused
  BY <1>18, Zenon DEF Refused, PullAt, notes
<1>19. CASE Failed
  BY <1>19, Zenon DEF Failed, PullAt, notes
<1>20. CASE UNCHANGED varsQueue
  BY <1>20, Zenon DEF varsQueue, notes, device
<1> QED
  BY <1>1, <1>2, <1>3, <1>4, <1>5, <1>6, <1>7, <1>8, <1>9, <1>10, <1>11,
     <1>12, <1>13, <1>14, <1>15, <1>16, <1>17, <1>18, <1>19, <1>20, Zenon
     DEF NextQueue, Pushing, Pulling

(***************************************************************************)
(* The inductive invariant of the queue and its puller, for any capacity,  *)
(* burst and number of packets.                                            *)
(***************************************************************************)
THEOREM InductiveQueue == SpecQueue => []IInvQueue
<1>1. IInvQueue /\ [NextQueue]_varsQueue => IInvQueue'
  BY TypePreserved, SlotsPreserved, NotesPreserved, TaskPreserved, Zenon
    DEF IInvQueue
<1> QED
  BY InitIInvQueue, <1>1, PTL DEF SpecQueue

(***************************************************************************)
(* The indices of the ring stay in it, and every local of the two threads  *)
(* keeps its type (next_i, enq, deq, run_task).                            *)
(***************************************************************************)
THEOREM QueueTypes == SpecQueue => []TypeOKQueue
<1>1. IInvQueue => TypeOKQueue
  BY Zenon DEF IInvQueue
<1> QED
  BY InductiveQueue, <1>1, PTL

(***************************************************************************)
(* Whatever the capacity and the burst: what one thread read of the        *)
(* other's index is still good when it is used (FullNoteQueue::push, pull).*)
(***************************************************************************)
THEOREM QueueSlotsApart == SpecQueue => [](TypeOKQueue /\ SlotsApart)
<1>1. IInvQueue => TypeOKQueue /\ SlotsApart
  BY Zenon DEF IInvQueue
<1> QED
  BY InductiveQueue, <1>1, PTL

(***************************************************************************)
(* With both threads between two operations the notes of the Queue are     *)
(* right (push_success, pull_failure and their second looks).              *)
(***************************************************************************)
THEOREM QueueNotesRight == SpecQueue => []NotesRight
<1>1. IInvQueue => NotesRight
  BY Zenon DEF IInvQueue, TypeOKQueue, EmptyNote, FullNote, NotesRight
<1> QED
  BY InductiveQueue, <1>1, PTL

(***************************************************************************)
(* The task of the ToDevice never sleeps on a packet (pull_failure,        *)
(* ActiveNotifier::set_active, ToDevice::run_task).                        *)
(***************************************************************************)
THEOREM QueueNoLostWakeup == SpecQueue => []NoLostWakeup
<1>1. IInvQueue => NoLostWakeup
  BY Zenon
    DEF IInvQueue, TypeOKQueue, EmptyNote, KeptWaits, TaskAsleep, NoLostWakeup
<1> QED
  BY InductiveQueue, <1>1, PTL

-----------------------------------------------------------------------------
(***************************************************************************)
(* The order of the packets.  Those in the ring are numbered upwards from  *)
(* the head; the one being pushed comes after them, the one the pulling    *)
(* thread or the ToDevice holds before them, and what is out before that.  *)
(***************************************************************************)
Filled == {i \in Slots : size(head, i) < size(head, tail)}

Storing == push.pc \in {"slot", "tail"}

Pushed(x) == x \in 1 .. push.p /\ (Storing => x < push.p)

RingOrder ==
    /\ \A i \in Filled : Pushed(q[i])
    /\ \A i, j \in Filled : size(head, i) < size(head, j) => q[i] < q[j]
    /\ Storing => push.p # 0
    /\ push.pc = "tail" => q[tail] = push.p
    /\ pull.pc = "head" => pull.p = q[head]

Hand == IF pull.pc \in {"wake", "send"} THEN {pull.p} ELSE {kept} \ {None}

First(x) == Pushed(x) /\ \A i \in Filled : x < q[i]

OutOrder ==
    /\ out \in Seq(Nat)
    /\ \A x \in Hand : First(x)
    /\ \A k \in 1 .. Len(out) :
         First(out[k]) /\ \A x \in Hand : out[k] < x
    /\ \A j, k \in 1 .. Len(out) : j < k => out[j] < out[k]

(***************************************************************************)
(* Counted from the head, a slot comes before the tail or not when the     *)
(* tail or the head moves on.                                              *)
(***************************************************************************)
LEMMA SizeOfNextTail ==
    ASSUME NEW h \in Slots, NEW t \in Slots, next_i(t) # h
    PROVE  size(h, next_i(t)) = size(h, t) + 1
BY QueueAssumption DEF size, Slots, next_i

(***************************************************************************)
(* When the head moves on, every other slot is one closer to it.           *)
(***************************************************************************)
LEMMA SizeFromNextHead ==
    ASSUME NEW h \in Slots, NEW i \in Slots
    PROVE  /\ i # h => size(next_i(h), i) = size(h, i) - 1
           /\ size(next_i(h), h) = capacity
           /\ size(h, h) = 0
BY QueueAssumption DEF size, Slots, next_i

(***************************************************************************)
(* Different slots are differently far from the head.                      *)
(***************************************************************************)
LEMMA SizeInjective ==
    ASSUME NEW h \in Slots, NEW i \in Slots, NEW j \in Slots,
           size(h, i) = size(h, j)
    PROVE  i = j
BY QueueAssumption DEF size, Slots

(***************************************************************************)
(* A step that stores nothing, takes nothing out of the ring and hands     *)
(* nothing over keeps the order.                                           *)
(***************************************************************************)
LEMMA OrderUndisturbed ==
    ASSUME RingOrder, OutOrder, UNCHANGED <<q, head, tail, out>>,
           push'.p = push.p, push'.pc = push.pc \/ ~Storing',
           pull'.pc = "head" => pull'.p = q[head],
           Hand' \subseteq Hand
    PROVE  RingOrder' /\ OutOrder'
<1>1. Filled' = Filled
  BY Zenon DEF Filled
<1>2. Storing' => Storing
  BY Zenon DEF Storing
<1>3. \A x : Pushed(x) => Pushed(x)'
  BY <1>2, Zenon DEF Pushed
<1>4. \A x : First(x) => First(x)'
  BY <1>1, <1>3, Zenon DEF First
<1>5. push'.pc = "tail" => push.pc = "tail"
  BY Zenon DEF Storing
<1>6. RingOrder'
  BY <1>1, <1>2, <1>3, <1>5, Zenon DEF RingOrder
<1>7. OutOrder'
  BY <1>4, Zenon DEF OutOrder
<1> QED
  BY <1>6, <1>7, Zenon

(***************************************************************************)
(* A packet about to be pushed is numbered after all others.               *)
(***************************************************************************)
LEMMA OrderOfPush ==
    ASSUME TypeOKQueue, RingOrder, OutOrder, Push
    PROVE  RingOrder' /\ OutOrder'
<1>1. /\ push'.p = push.p + 1 /\ push'.pc \in {"slot", "idle"}
      /\ push.p \in Nat
      /\ UNCHANGED <<q, head, tail, out, pull, kept>>
  BY QueueAssumption DEF Push, ring, device, TypeOKQueue
<1>2. Filled' = Filled /\ Hand' = Hand
  BY <1>1, Zenon DEF Filled, Hand
<1>3. \A x : Pushed(x) => Pushed(x)'
  BY <1>1 DEF Pushed
<1>4. \A x : First(x) => First(x)'
  BY <1>1, <1>2, <1>3, Zenon DEF First
<1>5. RingOrder'
  BY <1>1, <1>2, <1>3 DEF RingOrder
<1>6. OutOrder'
  BY <1>1, <1>2, <1>4, Zenon DEF OutOrder
<1> QED
  BY <1>5, <1>6, Zenon

(***************************************************************************)
(* The slot the packet is stored in holds none of the others.              *)
(***************************************************************************)
LEMMA OrderOfPushSlot ==
    ASSUME TypeOKQueue, SlotsApart, RingOrder, OutOrder, PushSlot
    PROVE  RingOrder' /\ OutOrder'
<1>1. /\ push.pc = "slot" /\ push'.pc = "tail" /\ push'.p = push.p
      /\ q' = [q EXCEPT ![tail] = push.p]
      /\ q \in [Slots -> 0 .. Packets] /\ tail \in Slots
      /\ UNCHANGED <<head, tail, out, pull, kept>>
  BY Zenon DEF PushSlot, device, TypeOKQueue
<1>2. Filled' = Filled /\ Hand' = Hand
  BY <1>1, Zenon DEF Filled, Hand
<1>3. tail \notin Filled
  BY SizeAtMostCapacity DEF Filled, TypeOKQueue
<1>4. \A i \in Filled : q'[i] = q[i]
  BY <1>1, <1>3, Zenon DEF Filled
<1>5. q'[tail] = push.p
  BY <1>1, Zenon
<1>6. pull.pc = "head" => q'[head] = q[head]
  BY <1>1, Zenon DEF SlotsApart, TypeOKQueue
<1>7. \A x : Pushed(x) <=> Pushed(x)'
  BY <1>1, Zenon DEF Pushed, Storing
<1>8. \A x : First(x) => First(x)'
  BY <1>2, <1>4, <1>7, Zenon DEF First
<1>9. RingOrder'
  BY <1>1, <1>2, <1>4, <1>5, <1>6, <1>7, Zenon DEF RingOrder, Storing
<1>10. OutOrder'
  BY <1>1, <1>2, <1>8, Zenon DEF OutOrder
<1> QED
  BY <1>9, <1>10, Zenon

(***************************************************************************)
(* The packet stored becomes the last one of the ring.                     *)
(***************************************************************************)
LEMMA OrderOfPushTail ==
    ASSUME TypeOKQueue, SlotsApart, RingOrder, OutOrder, PushTail
    PROVE  RingOrder' /\ OutOrder'
<1>1. /\ push.pc = "tail" /\ push'.pc = "wake" /\ push'.p = push.p
      /\ tail' = next_i(tail) /\ next_i(tail) # head
      /\ head \in Slots /\ tail \in Slots
      /\ UNCHANGED <<q, head, out, pull, kept>>
  BY Zenon DEF PushTail, device, TypeOKQueue, SlotsApart
<1>2. Hand' = Hand
  BY <1>1, Zenon DEF Hand
<1>3. size(head, tail)' = size(head, tail) + 1
  BY <1>1, SizeOfNextTail, Zenon
<1>4. \A i \in Slots : size(head, i) \in 0 .. capacity
  BY <1>1, SizeAtMostCapacity, Zenon
<1>5. \A i \in Filled' : i \in Filled \/ i = tail
  <2> SUFFICES ASSUME NEW i \in Slots, size(head, i) < size(head, tail) + 1,
                      ~ (size(head, i) < size(head, tail))
               PROVE  i = tail
    BY <1>1, <1>3, Zenon DEF Filled
  <2>1. size(head, i) = size(head, tail)
    BY <1>1, <1>4
  <2> QED
    BY <1>1, <2>1, SizeInjective, Zenon
<1>6. q[tail] = push.p /\ push.p # 0 /\ push.p \in Nat
  BY <1>1, QueueAssumption DEF RingOrder, Storing, TypeOKQueue
<1>7. \A x : Pushed(x) => Pushed(x)' /\ x < q[tail]
  BY <1>1, <1>6, Zenon DEF Pushed, Storing
<1>8. \A x : x = q[tail] => Pushed(x)'
  BY <1>1, <1>6 DEF Pushed, Storing
<1>9. \A x : First(x) => First(x)'
  BY <1>1, <1>5, <1>7, Zenon DEF First
<1>10. RingOrder'
  <2>1. \A i \in Filled' : Pushed(q[i])'
    BY <1>1, <1>5, <1>7, <1>8, Zenon DEF RingOrder
  <2>2. \A i \in Filled : size(head, i) < size(head, tail)
    BY Zenon DEF Filled
  <2>3. \A i, j \in Filled' : size(head, i) < size(head, j) => q[i] < q[j]
    <3> SUFFICES ASSUME NEW i \in Filled', NEW j \in Filled',
                        size(head, i) < size(head, j)
                 PROVE  q[i] < q[j]
      BY Zenon
    <3>1. i \in Slots /\ j \in Slots
      BY Zenon DEF Filled
    <3>2. CASE i \in Filled /\ j \in Filled
      BY <3>2, Zenon DEF RingOrder
    <3>3. CASE i \in Filled /\ j = tail
      BY <1>7, <3>3, Zenon DEF RingOrder
    <3>4. CASE i = tail
      BY <1>1, <1>4, <1>5, <2>2, <3>1, <3>4
    <3> QED
      BY <1>5, <3>2, <3>3, <3>4, Zenon
  <2> QED
    BY <1>1, <2>1, <2>3, Zenon DEF RingOrder, Storing
<1>11. OutOrder'
  BY <1>1, <1>2, <1>9, Zenon DEF OutOrder
<1> QED
  BY <1>10, <1>11

(***************************************************************************)
(* The packet taken out of the ring was its first one.                     *)
(***************************************************************************)
LEMMA OrderOfPullHead ==
    ASSUME TypeOKQueue, SlotsApart, KeptWaits, RingOrder, OutOrder, PullHead
    PROVE  RingOrder' /\ OutOrder'
<1>1. /\ pull.pc = "head" /\ pull'.pc = "wake" /\ pull'.p = pull.p
      /\ pull.p = q[head]
      /\ head' = next_i(head) /\ head # tail
      /\ head \in Slots /\ tail \in Slots
      /\ UNCHANGED <<q, tail, out, push, kept>>
  BY Zenon DEF PullHead, PullAt, device, TypeOKQueue, SlotsApart, RingOrder
<1>2. Hand = {} /\ Hand' = {q[head]}
  BY <1>1, Zenon DEF Hand, KeptWaits
<1>3. \A i \in Slots : size(head, i) \in 0 .. capacity
  BY <1>1, SizeAtMostCapacity, Zenon
<1>4. \A i \in Slots : i # head => size(head', i) = size(head, i) - 1
  BY <1>1, SizeFromNextHead, Zenon
<1>5. size(head, head) = 0 /\ size(head', head) = capacity
  BY <1>1, SizeFromNextHead, Zenon
<1>6. size(head', tail) = size(head, tail) - 1
  BY <1>1, <1>4, Zenon
<1>7. \A i \in Slots : i # head => size(head, i) # 0
  BY <1>1, <1>5, SizeInjective, Zenon
<1>8. head \in Filled
  BY <1>1, <1>3, <1>5, <1>7 DEF Filled
<1>9. \A i \in Filled' : i \in Filled /\ i # head /\ i \in Slots
  <2> SUFFICES ASSUME NEW i \in Slots, size(head', i) < size(head', tail)
               PROVE  size(head, i) < size(head, tail) /\ i # head
    BY <1>1, Zenon DEF Filled
  <2>1. i # head
    BY <1>1, <1>3, <1>5, <1>6, QueueAssumption
  <2> QED
    BY <1>1, <1>3, <1>4, <1>6, <2>1
<1>10. \A x : Pushed(x) <=> Pushed(x)'
  BY <1>1, Zenon DEF Pushed, Storing
<1>11. \A x : First(x) => First(x)' /\ x < q[head]
  BY <1>1, <1>8, <1>9, <1>10, Zenon DEF First
<1>12. \A x : x = q[head] => First(x)'
  <2>1. Pushed(q[head])
    BY <1>8, Zenon DEF RingOrder
  <2>2. \A i \in Filled' : q[head] < q[i]
    BY <1>3, <1>5, <1>7, <1>8, <1>9 DEF RingOrder
  <2> QED
    BY <1>1, <1>10, <2>1, <2>2, Zenon DEF First
<1>13. RingOrder'
  <2>1. \A i, j \in Filled' : size(head', i) < size(head', j) => q[i] < q[j]
    BY <1>3, <1>4, <1>9 DEF RingOrder
  <2>2. \A i \in Filled' : Pushed(q[i])'
    BY <1>1, <1>9, <1>10, Zenon DEF RingOrder
  <2> QED
    BY <1>1, <2>1, <2>2, Zenon DEF RingOrder, Storing
<1>14. OutOrder'
  BY <1>1, <1>2, <1>11, <1>12, Zenon DEF OutOrder
<1> QED
  BY <1>13, <1>14, Zenon

(***************************************************************************)
(* A packet that leaves was held, and is put after those that are out.     *)
(***************************************************************************)
LEMMA OrderOfSent ==
    ASSUME TypeOKQueue, KeptWaits, RingOrder, OutOrder, Sent \/ Failed
    PROVE  RingOrder' /\ OutOrder'
<1>1. /\ pull.pc = "send" /\ pull'.pc \in {"pull", "end"}
      /\ out' = Append(out, pull.p)
      /\ UNCHANGED <<q, head, tail, push, kept>>
  BY DEF Sent, Failed, PullAt, ring, TypeOKQueue
<1>2. Hand = {pull.p} /\ Hand' = {}
  BY <1>1, Zenon DEF Hand, KeptWaits
<1>3. Filled' = Filled /\ \A x : First(x) <=> First(x)'
  BY <1>1, Zenon DEF Filled, First, Pushed, Storing
<1>4. First(pull.p) /\ \A k \in 1 .. Len(out) : out[k] < pull.p
  BY <1>2, Zenon DEF OutOrder
<1>5. out \in Seq(Nat) /\ pull.p \in Nat
  BY QueueAssumption DEF OutOrder, TypeOKQueue
<1>6. /\ out' \in Seq(Nat)
      /\ Len(out') = Len(out) + 1
      /\ \A k \in 1 .. Len(out) : out'[k] = out[k]
      /\ out'[Len(out) + 1] = pull.p
  BY <1>1, <1>5
<1>7. Len(out) \in Nat /\ \A k \in 1 .. (Len(out) + 1) : k \in 1 .. Len(out) \/ k = Len(out) + 1
  BY <1>5
<1>8. (\A k \in 1 .. Len(out) : First(out[k]))'
  <2>1. \A k \in 1 .. Len(out') : First(out'[k])
    BY <1>4, <1>6, <1>7, Zenon DEF OutOrder
  <2> QED
    BY <1>3, <2>1, Zenon
<1>9. \A j, k \in 1 .. Len(out') : j < k => out'[j] < out'[k]
  <2> SUFFICES ASSUME NEW j \in 1 .. (Len(out) + 1),
                      NEW k \in 1 .. (Len(out) + 1), j < k
               PROVE  out'[j] < out'[k]
    BY <1>6, Zenon
  <2>1. j \in 1 .. Len(out)
    BY <1>7
  <2>2. CASE k = Len(out) + 1
    BY <1>4, <1>6, <2>1, <2>2, Zenon
  <2>3. CASE k \in 1 .. Len(out)
    BY <1>6, <2>1, <2>3, Zenon DEF OutOrder
  <2> QED
    BY <1>7, <2>2, <2>3, Zenon
<1>10. OutOrder'
  BY <1>2, <1>6, <1>8, <1>9, Zenon DEF OutOrder
<1>11. RingOrder'
  BY <1>1, <1>3, Zenon DEF RingOrder, Pushed, Storing
<1> QED
  BY <1>10, <1>11, Zenon

(***************************************************************************)
(* Every step keeps the order.                                             *)
(***************************************************************************)
LEMMA OrderPreserved ==
    ASSUME IInvQueue, RingOrder, OutOrder, [NextQueue]_varsQueue
    PROVE  RingOrder' /\ OutOrder'
<1> USE DEF IInvQueue
<1>1. CASE PushWake \/ PushReschedule \/ PushFull \/ PushAgain
  <2>1. /\ UNCHANGED <<q, head, tail, out, pull, kept>>
        /\ push'.p = push.p /\ ~Storing'
    BY <1>1, Zenon
      DEF PushWake, PushReschedule, PushFull, PushAgain, ring, device,
                Storing, TypeOKQueue
  <2>2. Hand' = Hand /\ (pull'.pc = "head" => pull'.p = q[head])
    BY <2>1, Zenon DEF Hand, RingOrder
  <2> QED
    BY <2>1, <2>2, OrderUndisturbed, Zenon
<1>2. CASE \/ RunTask \/ Pull \/ PullSlot \/ PullWake \/ Sleep \/ SleepAgain
           \/ PullReschedule \/ End \/ Refused
           \/ \E w \in {"select", "timer"} : Again(w)
  <2>1. UNCHANGED <<q, head, tail, out, push>>
    BY <1>2, Zenon DEF RunTask, Pull, PullSlot, PullWake, Sleep, SleepAgain,
                PullReschedule, End, Refused, Again, ring, device
  <2>2. /\ pull'.pc = "head" => pull'.p = q[head]
        /\ Hand' \subseteq Hand
    <3> USE DEF Hand, TypeOKQueue, KeptWaits, PullAt, device, None
    <3>1. CASE RunTask
      BY <3>1, Zenon DEF RunTask
    <3>2. CASE Pull
      BY <3>2, Zenon DEF Pull
    <3>3. CASE PullSlot
      BY <3>3, Zenon DEF PullSlot
    <3>4. CASE PullWake
      BY <3>4, Zenon DEF PullWake
    <3>5. CASE Sleep \/ SleepAgain \/ PullReschedule
      BY <3>5, Zenon DEF Sleep, SleepAgain, PullReschedule
    <3>6. CASE End
      BY <3>6, Zenon DEF End
    <3>7. CASE Refused
      BY <3>7, Zenon DEF Refused
    <3>8. CASE \E w \in {"select", "timer"} : Again(w)
      BY <3>8, Zenon DEF Again
    <3> QED
      BY <1>2, <3>1, <3>2, <3>3, <3>4, <3>5, <3>6, <3>7, <3>8, Zenon
  <2> QED
    BY <2>1, <2>2, OrderUndisturbed, Zenon
<1>3. CASE UNCHANGED varsQueue
  <2>1. /\ UNCHANGED <<q, head, tail, out, push, pull, kept>>
        /\ Hand' = Hand
    BY <1>3, Zenon DEF varsQueue, ring, device, Hand
  <2> QED
    BY <2>1, OrderUndisturbed, Zenon DEF RingOrder
<1> QED
  BY <1>1, <1>2, <1>3, OrderOfPush, OrderOfPushSlot, OrderOfPushTail,
     OrderOfPullHead, OrderOfSent, Zenon
  DEF NextQueue, Pushing, Pulling

(***************************************************************************)
(* Packets leave the ToDevice in the order in which they were pushed and   *)
(* none of them twice, for every capacity, burst and number of packets,    *)
(* and whatever the device refuses (SimpleQueue::enq, deq, run_task).      *)
(***************************************************************************)
THEOREM QueueInOrder == SpecQueue => []InOrder
<1>1. InitQueue => RingOrder /\ OutOrder
  <2> SUFFICES ASSUME InitQueue PROVE RingOrder /\ OutOrder
    BY Zenon
  <2>1. Filled = {}
    BY SizeAtMostCapacity, QueueAssumption DEF InitQueue, Filled, Slots, size
  <2>2. Hand = {} /\ out = <<>> /\ ~Storing /\ pull.pc # "head"
    BY Zenon DEF InitQueue, Hand, Storing
  <2> QED
    BY <2>1, <2>2 DEF RingOrder, OutOrder, Storing
<1>2. IInvQueue /\ RingOrder /\ OutOrder /\ [NextQueue]_varsQueue => (RingOrder /\ OutOrder)'
  BY OrderPreserved, Zenon
<1>3. RingOrder /\ OutOrder => InOrder
  <2> SUFFICES ASSUME OutOrder, NEW i \in 1 .. Len(out) - 1
               PROVE  0 < out[i] /\ out[i] < out[i + 1]
    BY Zenon DEF InOrder
  <2>1. out \in Seq(Nat)
    BY Zenon DEF OutOrder
  <2>2. i \in 1 .. Len(out) /\ i + 1 \in 1 .. Len(out) /\ i < i + 1
    BY <2>1
  <2> QED
    BY <2>2 DEF OutOrder, First, Pushed
<1> QED
  BY <1>1, <1>2, <1>3, InductiveQueue, PTL DEF SpecQueue
=============================================================================
