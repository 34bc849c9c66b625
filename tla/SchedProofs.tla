----------------------------- MODULE SchedProofs -----------------------------
(***************************************************************************)
(* The scheduler proved for any number of tasks, when one task, the first, *)
(* calls the scheduler and does not remove itself, which is how the        *)
(* repository uses it (it has that one task).                              *)
(***************************************************************************)
EXTENDS Sched, NatInduction, TLAPS

Disciplined == Managers = {Main} /\ <<Main, Main>> \notin MayRemove

(* The registers of the flow that calls the scheduler: _start until the    *)
(* first timer interrupt, the first task afterwards.                       *)
Caller == IF current_task = NoTask THEN cpu ELSE Virtual(Main)

Calls == {"add_link", "add_publish", "rm_search", "rm_load", "rm_unlink",
          "rm_free", "rm_current", "rm_yield", "ret"}

Removing == {"rm_search", "rm_load", "rm_unlink", "rm_free", "rm_current", "rm_yield"}

(* Before the first interrupt there is no task; afterwards the registers   *)
(* are kept apart.                                                         *)
OwnImages ==
  /\ \A t \in Tasks : saved[t].flow = t /\ saved[t].cr3 = t
  /\ \A t \in Tasks \ {Main} : Virtual(t).pc = "body"
  /\ current_task = NoTask =>
       /\ cpu.flow = Boot
       /\ \A t \in Tasks : saved[t].pc = "body"
       /\ cpu.pc \in {"sched_init", "add_link", "add_publish", "ret", "register", "idle"}
       /\ timerOn => cpu.pc = "idle"
  /\ current_task # NoTask =>
       /\ cpu.flow = current_task
       /\ cpu.cr3 = current_task
       /\ cpu.pc \in Calls \cup {"body"}
       /\ Virtual(Main).pc \in Calls \cup {"body"}

(* One caller at most is on the stack.                                     *)
OneFrame ==
  stack = IF Caller.pc \in Calls THEN <<Caller.flow>> ELSE <<>>

(* Where each structure is: at most one is being inserted or removed, and  *)
(* the caller holds it.                                                    *)
Custody ==
  /\ \A t \in Tasks : memory[t] = "built" =>
       /\ Caller.pc \in {"sched_init", "add_link", "add_publish"}
       /\ Caller.pc # "sched_init" => Caller.obj = t
       /\ Caller.pc = "sched_init" => t = Main
       /\ saved[t] = Fresh(t)
  /\ \A t \in Tasks : memory[t] = "unlinked" =>
       Caller.pc = "rm_free" /\ Caller.rem = t
  /\ Caller.pc = "sched_init" => memory[Main] = "built"
  /\ Caller.pc \in {"add_link", "add_publish"} =>
       Caller.obj \in Tasks /\ memory[Caller.obj] = "built"
  /\ Caller.pc = "add_publish" => next[Caller.obj] = task_list

(* What the registers of a removal mean.                                   *)
Cursor ==
  /\ Caller.pc \in Removing => Caller.obj \in Tasks \ {Main} /\ current_task # NoTask
  /\ Caller.pc \in {"rm_search", "rm_load", "rm_unlink"} =>
       Caller.ind \in Listed \cup {NoTask} /\ Caller.ind # Caller.obj
  /\ Caller.pc \in {"rm_load", "rm_unlink"} =>
       Caller.rem = Caller.obj /\ Deref(Caller.ind) = Caller.rem
  /\ Caller.pc = "rm_unlink" => Caller.nxt = next[Caller.rem]
  /\ Caller.pc = "rm_free" =>
       Caller.rem = Caller.obj /\ memory[Caller.rem] = "unlinked"

(* No two links, the head among them, lead to the same task.               *)
NoSharing ==
  /\ \A s, t \in Listed : next[s] = next[t] /\ next[s] # NoTask => s = t
  /\ \A t \in Listed : next[t] = task_list => task_list = NoTask

(* Every task that is not running is ready.                                *)
AllReady ==
  \A t \in Tasks : state[t] = IF t = current_task THEN "RUNNING" ELSE "READY"

IInv ==
  /\ Typed
  /\ ListClosed
  /\ OwnImages
  /\ OneFrame
  /\ Custody
  /\ Cursor
  /\ NoSharing
  /\ AllReady

-----------------------------------------------------------------------------

(* The boot flow and the tasks are told apart.                             *)
LEMMA Names == Main \in Tasks /\ Boot \notin Tasks /\ NoTask \notin Tasks /\ NoTask # Boot
  BY TasksAssumption

(* Outside the callbacks' own code, the processor executes the caller.     *)
LEMMA CallerRuns ==
  ASSUME IInv, cpu.pc # "body"
  PROVE  Caller = cpu /\ current_task \in {NoTask, Main}
  BY DEF IInv, Typed, MaybeTask, OwnImages, Caller, Virtual

(* Boot never reaches a callback's code.                                   *)
LEMMA BodyIsATask ==
  ASSUME IInv, cpu.pc = "body"
  PROVE  current_task \in Tasks /\ cpu.flow = current_task
  BY DEF IInv, Typed, MaybeTask, OwnImages

LEMMA CallerType ==
  ASSUME Typed
  PROVE  Caller \in Image
  BY Names DEF Typed, MaybeTask, Caller, Virtual

(* A saved image is a register image.                                      *)
LEMMA FreshType ==
  ASSUME NEW t \in Tasks \cup {Boot}
  PROVE  Fresh(t) \in Image
  BY TasksAssumption DEF Fresh, Image, PCs, MaybeTask

LEMMA Establish == Init => IInv
  <1> SUFFICES ASSUME Init PROVE IInv
    OBVIOUS
  <1> USE Names DEF Init
  <1>1. /\ \A t \in Tasks : saved[t] = Fresh(t)
        /\ cpu = [Fresh(Boot) EXCEPT !.pc = "sched_init"]
        /\ current_task = NoTask
    OBVIOUS
  <1>2. cpu \in Image
    <2>1. Fresh(Boot) \in Image
      BY FreshType
    <2>2. "sched_init" \in PCs
      BY DEF PCs
    <2>3. QED
      BY <2>1, <2>2, <1>1 DEF Image
  <1>3. cpu.pc = "sched_init" /\ cpu.flow = Boot
    BY <1>1 DEF Fresh
  <1>4. Caller = cpu
    BY DEF Caller
  <1>5. Listed = {}
    BY DEF Listed
  <1>6. Typed
    <2>1. saved \in [Tasks -> Image]
      BY FreshType
    <2>2. memory \in [Tasks -> {"free", "built", "listed", "unlinked"}]
      OBVIOUS
    <2>3. stack \in Seq(Tasks \cup {Boot})
      OBVIOUS
    <2>4. QED
      BY <1>2, <2>1, <2>2, <2>3 DEF Typed, MaybeTask
  <1>7. ListClosed
    BY <1>5 DEF ListClosed
  <1>8. OwnImages
    BY <1>1, <1>3 DEF OwnImages, Virtual, Fresh
  <1>9. OneFrame
    BY <1>3, <1>4 DEF OneFrame, Calls
  <1>10. Custody
    BY <1>3, <1>4 DEF Custody
  <1>11. Cursor
    BY <1>3, <1>4 DEF Cursor, Removing
  <1>12. NoSharing
    BY <1>5 DEF NoSharing
  <1>13. AllReady
    BY DEF AllReady
  <1>14. QED
    BY <1>6, <1>7, <1>8, <1>9, <1>10, <1>11, <1>12, <1>13 DEF IInv

(***************************************************************************)
(* With every listed task ready, the walk stops where it starts.           *)
(***************************************************************************)
LEMMA ScheduleChooses ==
  ASSUME IInv, NEW st, \A t \in Listed : st[t] = "READY"
  PROVE  LET start == IF current_task = NoTask THEN task_list ELSE After(current_task)
         IN /\ start \in Listed \cup {NoTask}
            /\ schedule(st) = IF start = NoTask THEN current_task ELSE start
  <1> DEFINE start == IF current_task = NoTask THEN task_list ELSE After(current_task)
  <1>1. start \in Listed \cup {NoTask}
    BY DEF IInv, ListClosed, After
  <1>2. CASE start = NoTask
    BY <1>2 DEF schedule
  <1>3. CASE start # NoTask
    <2>1. st[start] = "READY"
      BY <1>1, <1>3
    <2>2. schedule(st) = start
      BY <1>3, <2>1 DEF schedule
    <2>3. QED
      BY <1>1, <1>3, <2>2
  <1>4. QED
    BY <1>1, <1>2, <1>3

(***************************************************************************)
(* A step of the caller changes no other task's registers.                 *)
(***************************************************************************)
BootPCs == {"sched_init", "add_link", "add_publish", "ret", "register", "idle"}

LEMMA CallerStep ==
  ASSUME IInv, cpu.pc # "body",
         saved' = saved, current_task' = current_task,
         cpu'.flow = cpu.flow, cpu'.cr3 = cpu.cr3,
         current_task = NoTask => cpu'.pc \in BootPCs /\ (timerOn' => cpu'.pc = "idle"),
         current_task # NoTask => cpu'.pc \in Calls \cup {"body"}
  PROVE  OwnImages' /\ Caller' = cpu' /\ Caller = cpu
  <1>1. Caller = cpu /\ current_task \in {NoTask, Main}
    BY CallerRuns
  <1>2. Caller' = cpu'
    BY <1>1 DEF Caller, Virtual
  <1>3. OwnImages'
    BY <1>1 DEF IInv, OwnImages, Virtual, BootPCs
  <1>4. QED
    BY <1>1, <1>2, <1>3

LEMMA SchedInitStep == ASSUME IInv, SchedInit PROVE IInv'
  <1> USE Names
  <1>1. cpu.pc = "sched_init" /\ cpu \in Image /\ cpu.flow = Boot /\ current_task = NoTask
    BY DEF SchedInit, IInv, Typed, OwnImages, Calls
  <1>2. /\ cpu'.pc = "add_link" /\ cpu'.obj = Main
        /\ cpu'.flow = cpu.flow /\ cpu'.cr3 = cpu.cr3 /\ cpu' \in Image
    BY <1>1 DEF SchedInit, Image, PCs, MaybeTask
  <1>3. UNCHANGED <<task_list, next, memory, state, saved, current_task, timerOn>>
    BY DEF SchedInit, list
  <1>4. OwnImages' /\ Caller' = cpu' /\ Caller = cpu
    <2>1. ~ timerOn
      BY <1>1 DEF IInv, OwnImages
    <2>2. QED
      BY <1>1, <1>2, <1>3, <2>1, CallerStep DEF BootPCs
  <1>5. stack = <<>> /\ stack' = <<Boot>>
    <2>1. stack = <<>>
      BY <1>1, <1>4 DEF IInv, OneFrame, Calls
    <2>2. QED
      BY <2>1, <1>1 DEF SchedInit
  <1>6. Typed'
    BY <1>2, <1>3, <1>5 DEF IInv, Typed
  <1>7. ListClosed' /\ NoSharing' /\ AllReady'
    BY <1>3 DEF IInv, ListClosed, NoSharing, AllReady, Listed
  <1>8. OneFrame'
    BY <1>1, <1>2, <1>4, <1>5 DEF OneFrame, Calls
  <1>9. Custody'
    BY <1>1, <1>2, <1>3, <1>4 DEF IInv, Custody
  <1>10. Cursor'
    BY <1>2, <1>4 DEF Cursor, Removing
  <1>11. QED
    BY <1>4, <1>6, <1>7, <1>8, <1>9, <1>10 DEF IInv

LEMMA RegisterHandlerStep == ASSUME IInv, RegisterHandler PROVE IInv'
  <1> USE Names
  <1>1. cpu.pc = "register" /\ cpu \in Image /\ current_task = NoTask
    BY DEF RegisterHandler, IInv, Typed, OwnImages, Calls
  <1>2. /\ cpu'.pc = "idle" /\ timerOn' = TRUE
        /\ cpu'.flow = cpu.flow /\ cpu'.cr3 = cpu.cr3 /\ cpu' \in Image
    BY <1>1 DEF RegisterHandler, Goto, Image, PCs
  <1>3. UNCHANGED <<task_list, next, memory, state, saved, current_task, stack>>
    BY DEF RegisterHandler, list
  <1>4. OwnImages' /\ Caller' = cpu' /\ Caller = cpu
    BY <1>1, <1>2, <1>3, CallerStep DEF BootPCs
  <1>6. Typed'
    BY <1>2, <1>3 DEF IInv, Typed
  <1>7. ListClosed' /\ NoSharing' /\ AllReady'
    BY <1>3 DEF IInv, ListClosed, NoSharing, AllReady, Listed
  <1>8. OneFrame'
    BY <1>1, <1>2, <1>3, <1>4 DEF IInv, OneFrame, Calls
  <1>9. Custody'
    BY <1>1, <1>2, <1>3, <1>4 DEF IInv, Custody
  <1>10. Cursor'
    BY <1>2, <1>4 DEF Cursor, Removing
  <1>11. QED
    BY <1>4, <1>6, <1>7, <1>8, <1>9, <1>10 DEF IInv

LEMMA ReturnStep == ASSUME IInv, Return PROVE IInv'
  <1> USE Names
  <1>1. cpu.pc = "ret" /\ cpu \in Image
    BY DEF Return, IInv, Typed
  <1>2. Caller = cpu /\ current_task \in {NoTask, Main}
    BY <1>1, CallerRuns
  <1>3. stack = <<cpu.flow>>
    BY <1>1, <1>2 DEF IInv, OneFrame, Calls
  <1>4. Head(stack) = cpu.flow /\ Tail(stack) = <<>> /\ cpu.flow \in Tasks \cup {Boot}
    BY <1>3, <1>1 DEF Image
  <1>5. /\ cpu'.flow = cpu.flow /\ cpu'.cr3 = cpu.cr3
        /\ cpu'.pc = IF cpu.flow = Boot THEN "register" ELSE "body"
        /\ cpu' \in Image
        /\ stack' = <<>>
    <2>1. Fresh(cpu.flow) \in Image
      BY <1>4, FreshType
    <2>2. cpu' = [Fresh(cpu.flow) EXCEPT !.cr3 = cpu.cr3, !.acc = cpu.acc,
                    !.pc = IF cpu.flow = Boot THEN "register" ELSE "body"]
      BY <1>4 DEF Return
    <2>3. QED
      <3>1. PICK r \in Image, c \in PCs : /\ r = Fresh(cpu.flow)
                                         /\ c = IF cpu.flow = Boot THEN "register" ELSE "body"
        BY <2>1 DEF PCs
      <3>2. cpu' = [r EXCEPT !.cr3 = cpu.cr3, !.acc = cpu.acc, !.pc = c]
        BY <2>2, <3>1
      <3>3. cpu.cr3 \in Tasks \cup {Boot} /\ cpu.acc \in 0 .. RegValues - 1
        BY <1>1 DEF Image
      <3>4. cpu' \in Image /\ cpu'.flow = r.flow /\ cpu'.cr3 = cpu.cr3 /\ cpu'.pc = c
        BY <3>2, <3>3 DEF Image
      <3>5. r.flow = cpu.flow
        BY <3>1 DEF Fresh
      <3>6. stack' = <<>>
        BY <1>4 DEF Return
      <3>7. QED
        BY <3>1, <3>4, <3>5, <3>6
  <1>6. UNCHANGED <<task_list, next, memory, state, saved, current_task, timerOn>>
    BY DEF Return, list
  <1>7. current_task = NoTask <=> cpu.flow = Boot
    BY <1>2 DEF IInv, OwnImages
  <1>8. OwnImages' /\ Caller' = cpu'
    <2>1. current_task = NoTask => ~ timerOn
      BY <1>1 DEF IInv, OwnImages
    <2>2. QED
      BY <1>1, <1>5, <1>6, <1>7, <2>1, CallerStep DEF BootPCs
  <1>9. Typed'
    BY <1>5, <1>6 DEF IInv, Typed
  <1>10. ListClosed' /\ NoSharing' /\ AllReady'
    BY <1>6 DEF IInv, ListClosed, NoSharing, AllReady, Listed
  <1>11. OneFrame'
    BY <1>5, <1>8 DEF OneFrame, Calls
  <1>12. Custody'
    BY <1>1, <1>2, <1>5, <1>6, <1>8 DEF IInv, Custody
  <1>13. Cursor'
    BY <1>5, <1>8 DEF Cursor, Removing
  <1>14. QED
    BY <1>8, <1>9, <1>10, <1>11, <1>12, <1>13 DEF IInv
LEMMA AddLinkStep == ASSUME IInv, AddLink PROVE IInv'
  <1> USE Names
  <1>1. cpu.pc = "add_link" /\ cpu \in Image
    BY DEF AddLink, IInv, Typed
  <1>2. /\ cpu'.pc = "add_publish" /\ cpu'.flow = cpu.flow /\ cpu'.cr3 = cpu.cr3
        /\ cpu'.obj = cpu.obj /\ cpu' \in Image
    BY <1>1 DEF AddLink, Image, PCs
  <1>3. UNCHANGED <<task_list, memory, state, saved, current_task, stack, timerOn>>
    BY DEF AddLink
  <1>4. OwnImages' /\ Caller' = cpu' /\ Caller = cpu
    <2>1. current_task = NoTask => ~ timerOn
      BY <1>1 DEF IInv, OwnImages
    <2>2. QED
      BY <1>1, <1>2, <1>3, <2>1, CallerStep DEF BootPCs, Calls
  <1>5. cpu.obj \in Tasks /\ memory[cpu.obj] = "built" /\ cpu.obj \notin Listed
    BY <1>1, <1>4 DEF IInv, Custody, Listed
  <1>6. next' = [next EXCEPT ![cpu.obj] = task_list]
    BY DEF AddLink
  <1>7. Typed'
    BY <1>2, <1>3, <1>6 DEF IInv, Typed
  <1>8. Listed' = Listed /\ \A t \in Listed : next'[t] = next[t]
    BY <1>3, <1>5, <1>6 DEF Listed, IInv, Typed
  <1>9. ListClosed' /\ NoSharing' /\ AllReady'
    BY <1>3, <1>8 DEF IInv, ListClosed, NoSharing, AllReady
  <1>10. OneFrame'
    BY <1>1, <1>2, <1>3, <1>4 DEF IInv, OneFrame, Calls
  <1>11. next'[cpu.obj] = task_list
    BY <1>5, <1>6 DEF IInv, Typed
  <1>12. Custody'
    BY <1>1, <1>2, <1>3, <1>4, <1>5, <1>11 DEF IInv, Custody
  <1>13. Cursor'
    BY <1>2, <1>4 DEF Cursor, Removing
  <1>14. QED
    BY <1>4, <1>7, <1>9, <1>10, <1>12, <1>13 DEF IInv

LEMMA AddPublishStep == ASSUME IInv, AddPublish PROVE IInv'
  <1> USE Names
  <1>1. cpu.pc = "add_publish" /\ cpu \in Image
    BY DEF AddPublish, IInv, Typed
  <1>2. /\ cpu'.pc = "ret" /\ cpu'.flow = cpu.flow /\ cpu'.cr3 = cpu.cr3
        /\ cpu'.obj = cpu.obj /\ cpu' \in Image
    BY <1>1 DEF AddPublish, Image, PCs
  <1>3. UNCHANGED <<next, state, saved, current_task, stack, timerOn>>
    BY DEF AddPublish
  <1>4. OwnImages' /\ Caller' = cpu' /\ Caller = cpu
    <2>1. current_task = NoTask => ~ timerOn
      BY <1>1 DEF IInv, OwnImages
    <2>2. QED
      BY <1>1, <1>2, <1>3, <2>1, CallerStep DEF BootPCs, Calls
  <1>5. /\ cpu.obj \in Tasks /\ memory[cpu.obj] = "built" /\ cpu.obj \notin Listed
        /\ next[cpu.obj] = task_list
        /\ \A t \in Tasks : memory[t] = "built" => t = cpu.obj
    BY <1>1, <1>4 DEF IInv, Custody, Listed
  <1>6. task_list' = cpu.obj /\ memory' = [memory EXCEPT ![cpu.obj] = "listed"]
    BY DEF AddPublish
  <1>7. Typed'
    BY <1>2, <1>3, <1>5, <1>6 DEF IInv, Typed, MaybeTask
  <1>8. Listed' = Listed \cup {cpu.obj}
    BY <1>5, <1>6 DEF Listed, IInv, Typed
  <1>9. ListClosed'
    BY <1>3, <1>5, <1>6, <1>8 DEF IInv, ListClosed
  <1>10. NoSharing'
    BY <1>3, <1>5, <1>6, <1>8 DEF IInv, NoSharing, ListClosed
  <1>11. AllReady'
    BY <1>3 DEF IInv, AllReady
  <1>12. OneFrame'
    BY <1>1, <1>2, <1>3, <1>4 DEF IInv, OneFrame, Calls
  <1>13. Custody'
    BY <1>1, <1>2, <1>4, <1>5, <1>6 DEF IInv, Custody, Typed
  <1>14. Cursor'
    BY <1>2, <1>4 DEF Cursor, Removing
  <1>15. QED
    BY <1>4, <1>7, <1>9, <1>10, <1>11, <1>12, <1>13, <1>14 DEF IInv

LEMMA RmSearchStep == ASSUME IInv, RmSearch PROVE IInv'
  <1> USE Names
  <1>1. cpu.pc = "rm_search" /\ cpu \in Image
    BY DEF RmSearch, IInv, Typed
  <1>2. UNCHANGED <<task_list, next, memory, state, saved, current_task, stack, timerOn>>
    BY DEF RmSearch, list
  <1>3. Caller = cpu /\ current_task = Main
    BY <1>1, CallerRuns DEF IInv, Cursor, Removing
  <1>4. Deref(cpu.ind) \in Listed \cup {NoTask} /\ Listed \subseteq Tasks
    BY <1>1, <1>3 DEF IInv, Cursor, Deref, ListClosed, Listed
  <1>5. /\ cpu'.flow = cpu.flow /\ cpu'.cr3 = cpu.cr3 /\ cpu'.obj = cpu.obj
        /\ cpu' \in Image
        /\ \/ cpu'.pc = "rm_current"
           \/ /\ cpu'.pc = "rm_load" /\ cpu'.ind = cpu.ind
              /\ cpu'.rem = cpu.obj /\ Deref(cpu.ind) = cpu.obj
           \/ /\ cpu'.pc = "rm_search" /\ cpu'.ind = Deref(cpu.ind)
              /\ cpu'.ind \notin {NoTask, cpu.obj}
    <2>1. PICK t \in MaybeTask : t = Deref(cpu.ind)
      BY <1>4 DEF MaybeTask
    <2>2. \/ t = NoTask /\ cpu' = [cpu EXCEPT !.pc = "rm_current"]
          \/ t = cpu.obj /\ t # NoTask
             /\ cpu' = [cpu EXCEPT !.pc = "rm_load", !.rem = t]
          \/ t \notin {cpu.obj, NoTask} /\ cpu' = [cpu EXCEPT !.ind = t]
      BY <2>1, Zenon DEF RmSearch, Goto
    <2>3. CASE cpu' = [cpu EXCEPT !.pc = "rm_current"]
      BY <1>1, <2>3 DEF Image, PCs
    <2>4. CASE /\ t = cpu.obj /\ t # NoTask
               /\ cpu' = [cpu EXCEPT !.pc = "rm_load", !.rem = t]
      BY <1>1, <2>1, <2>4 DEF Image, PCs
    <2>5. CASE t \notin {cpu.obj, NoTask} /\ cpu' = [cpu EXCEPT !.ind = t]
      BY <1>1, <2>1, <2>5 DEF Image
    <2>6. QED
      BY <2>2, <2>3, <2>4, <2>5
  <1>6. OwnImages' /\ Caller' = cpu'
    BY <1>1, <1>2, <1>3, <1>5, CallerStep DEF Calls
  <1>7. Typed'
    BY <1>2, <1>5 DEF IInv, Typed
  <1>8. ListClosed' /\ NoSharing' /\ AllReady'
    BY <1>2 DEF IInv, ListClosed, NoSharing, AllReady, Listed
  <1>9. OneFrame'
    BY <1>1, <1>2, <1>3, <1>5, <1>6 DEF IInv, OneFrame, Calls
  <1>10. Custody'
    BY <1>1, <1>2, <1>3, <1>5, <1>6 DEF IInv, Custody
  <1>11. Cursor'
    BY <1>1, <1>2, <1>3, <1>4, <1>5, <1>6 DEF IInv, Cursor, Removing, Listed, Deref
  <1>12. QED
    BY <1>6, <1>7, <1>8, <1>9, <1>10, <1>11 DEF IInv

LEMMA RmLoadStep == ASSUME IInv, RmLoad PROVE IInv'
  <1> USE Names
  <1>1. cpu.pc = "rm_load" /\ cpu \in Image
    BY DEF RmLoad, IInv, Typed
  <1>2. UNCHANGED <<task_list, next, memory, state, saved, current_task, stack, timerOn>>
    BY DEF RmLoad, list
  <1>3. Caller = cpu /\ current_task = Main
    BY <1>1, CallerRuns DEF IInv, Cursor, Removing
  <1>4. cpu.rem \in Tasks /\ next[cpu.rem] \in MaybeTask
    BY <1>1, <1>3 DEF IInv, Cursor, Removing, Typed
  <1>5. /\ cpu'.flow = cpu.flow /\ cpu'.cr3 = cpu.cr3 /\ cpu'.obj = cpu.obj
        /\ cpu'.pc = "rm_unlink" /\ cpu'.ind = cpu.ind /\ cpu'.rem = cpu.rem
        /\ cpu'.nxt = next[cpu.rem] /\ cpu' \in Image
    BY <1>1, <1>4 DEF RmLoad, Image, PCs
  <1>6. OwnImages' /\ Caller' = cpu'
    BY <1>1, <1>2, <1>3, <1>5, CallerStep DEF Calls
  <1>7. Typed'
    BY <1>2, <1>5 DEF IInv, Typed
  <1>8. ListClosed' /\ NoSharing' /\ AllReady'
    BY <1>2 DEF IInv, ListClosed, NoSharing, AllReady, Listed
  <1>9. OneFrame'
    BY <1>1, <1>2, <1>3, <1>5, <1>6 DEF IInv, OneFrame, Calls
  <1>10. Custody'
    BY <1>1, <1>2, <1>3, <1>5, <1>6 DEF IInv, Custody
  <1>11. Cursor'
    BY <1>1, <1>2, <1>3, <1>5, <1>6 DEF IInv, Cursor, Removing, Listed, Deref
  <1>12. QED
    BY <1>6, <1>7, <1>8, <1>9, <1>10, <1>11 DEF IInv
LEMMA RmUnlinkStep == ASSUME IInv, RmUnlink PROVE IInv'
  <1> USE Names
  <1>1. cpu.pc = "rm_unlink" /\ cpu \in Image
    BY DEF RmUnlink, IInv, Typed
  <1>2. UNCHANGED <<state, saved, current_task, stack, timerOn>>
    BY DEF RmUnlink
  <1>3. Caller = cpu /\ current_task = Main
    BY <1>1, CallerRuns DEF IInv, Cursor, Removing
  <1>4. /\ cpu.rem = cpu.obj /\ cpu.obj \in Tasks \ {Main}
        /\ cpu.ind \in Listed \cup {NoTask} /\ cpu.ind # cpu.rem
        /\ Deref(cpu.ind) = cpu.rem /\ cpu.nxt = next[cpu.rem]
        /\ Listed \subseteq Tasks
    BY <1>1, <1>3 DEF IInv, Cursor, Removing, Listed
  <1>5. cpu.rem \in Listed /\ cpu.nxt \in Listed \cup {NoTask}
    BY <1>4 DEF IInv, ListClosed, Deref
  <1>6. /\ cpu'.flow = cpu.flow /\ cpu'.cr3 = cpu.cr3 /\ cpu'.obj = cpu.obj
        /\ cpu'.pc = "rm_free" /\ cpu'.rem = cpu.rem /\ cpu' \in Image
    BY <1>1 DEF RmUnlink, Goto, Image, PCs
  <1>7. OwnImages' /\ Caller' = cpu'
    BY <1>1, <1>2, <1>3, <1>6, CallerStep DEF Calls
  <1>8. memory' = [memory EXCEPT ![cpu.rem] = "unlinked"]
    BY DEF RmUnlink
  <1>9. Listed' = Listed \ {cpu.rem}
    BY <1>4, <1>8 DEF Listed, IInv, Typed
  <1>10. /\ cpu.ind = NoTask => task_list' = cpu.nxt /\ next' = next
         /\ cpu.ind # NoTask => task_list' = task_list /\ next' = [next EXCEPT ![cpu.ind] = cpu.nxt]
    BY DEF RmUnlink
  <1>11. /\ next \in [Tasks -> MaybeTask] /\ cpu.nxt \in MaybeTask
         /\ \A t \in Listed : next[t] = cpu.rem => t = cpu.ind
         /\ cpu.ind # NoTask => task_list # cpu.rem
         /\ cpu.nxt # cpu.rem
    BY <1>1, <1>4, <1>5 DEF IInv, Typed, NoSharing, Deref, Image
  <1>12. Typed'
    BY <1>2, <1>4, <1>6, <1>8, <1>10, <1>11 DEF IInv, Typed
  <1>13. ListClosed'
    BY <1>2, <1>3, <1>4, <1>5, <1>9, <1>10, <1>11 DEF IInv, ListClosed
  <1>14. NoSharing'
    <2>1. CASE cpu.ind = NoTask
      BY <2>1, <1>4, <1>5, <1>9, <1>10, <1>11 DEF IInv, NoSharing, Deref
    <2>2. CASE cpu.ind # NoTask
      <3>1. cpu.ind \in Listed' /\ next'[cpu.ind] = cpu.nxt /\ task_list' = task_list
        BY <2>2, <1>4, <1>9, <1>10, <1>11
      <3>2. \A t \in Listed' \ {cpu.ind} : next'[t] = next[t]
        BY <2>2, <1>4, <1>9, <1>10, <1>11
      <3>3. \A t \in Listed' \ {cpu.ind} : next[t] = cpu.nxt => cpu.nxt = NoTask
        BY <1>4, <1>5, <1>9 DEF IInv, NoSharing
      <3>4. cpu.nxt = task_list => task_list = NoTask
        BY <1>4, <1>5 DEF IInv, NoSharing
      <3>5. QED
        BY <1>9, <3>1, <3>2, <3>3, <3>4 DEF IInv, NoSharing
    <2>3. QED
      BY <2>1, <2>2
  <1>15. AllReady'
    BY <1>2 DEF IInv, AllReady
  <1>16. OneFrame'
    BY <1>1, <1>2, <1>3, <1>6, <1>7 DEF IInv, OneFrame, Calls
  <1>17. Custody'
    BY <1>1, <1>3, <1>4, <1>6, <1>7, <1>8 DEF IInv, Custody, Typed
  <1>18. Cursor'
    BY <1>2, <1>3, <1>4, <1>6, <1>7, <1>8 DEF IInv, Cursor, Removing, Typed
  <1>19. QED
    BY <1>7, <1>12, <1>13, <1>14, <1>15, <1>16, <1>17, <1>18 DEF IInv

LEMMA RmFreeStep == ASSUME IInv, RmFree PROVE IInv'
  <1> USE Names
  <1>1. cpu.pc = "rm_free" /\ cpu \in Image
    BY DEF RmFree, IInv, Typed
  <1>2. UNCHANGED <<task_list, next, state, saved, current_task, stack, timerOn>>
    BY DEF RmFree
  <1>3. Caller = cpu /\ current_task = Main
    BY <1>1, CallerRuns DEF IInv, Cursor, Removing
  <1>4. /\ cpu.rem = cpu.obj /\ cpu.obj \in Tasks \ {Main}
        /\ memory[cpu.rem] = "unlinked"
        /\ \A t \in Tasks : memory[t] = "unlinked" => t = cpu.rem
        /\ \A t \in Tasks : memory[t] # "built"
    BY <1>1, <1>3 DEF IInv, Cursor, Removing, Custody
  <1>5. /\ cpu'.flow = cpu.flow /\ cpu'.cr3 = cpu.cr3 /\ cpu'.obj = cpu.obj
        /\ cpu'.pc = "rm_current" /\ cpu' \in Image
    BY <1>1 DEF RmFree, Image, PCs
  <1>6. memory' = [memory EXCEPT ![cpu.rem] = "free"]
    BY <1>4 DEF RmFree
  <1>7. OwnImages' /\ Caller' = cpu'
    BY <1>1, <1>2, <1>3, <1>5, CallerStep DEF Calls
  <1>8. Listed' = Listed
    BY <1>4, <1>6 DEF Listed, IInv, Typed
  <1>9. Typed'
    BY <1>2, <1>5, <1>6 DEF IInv, Typed
  <1>10. ListClosed' /\ NoSharing' /\ AllReady'
    BY <1>2, <1>8 DEF IInv, ListClosed, NoSharing, AllReady
  <1>11. OneFrame'
    BY <1>1, <1>2, <1>3, <1>5, <1>7 DEF IInv, OneFrame, Calls
  <1>12. Custody'
    BY <1>4, <1>5, <1>6, <1>7 DEF IInv, Custody, Typed
  <1>13. Cursor'
    BY <1>2, <1>3, <1>4, <1>5, <1>7 DEF Cursor, Removing
  <1>14. QED
    BY <1>7, <1>9, <1>10, <1>11, <1>12, <1>13 DEF IInv

(* The caller does not remove itself, so current_task is left alone.       *)
LEMMA LeavesNever == ASSUME IInv PROVE ~ RmHead /\ ~ RmStore
  BY CallerRuns DEF IInv, Typed, MaybeTask, OwnImages, Calls, RmHead, RmStore

LEMMA RmCurrentStep == ASSUME IInv, RmCurrent PROVE IInv'
  <1> USE Names
  <1>1. cpu.pc = "rm_current" /\ cpu \in Image
    BY DEF RmCurrent, IInv, Typed
  <1>2. Caller = cpu /\ current_task = Main
    BY <1>1, CallerRuns DEF IInv, Cursor, Removing
  <1>3. cpu.obj \in Tasks \ {Main}
    BY <1>1, <1>2 DEF IInv, Cursor, Removing
  <1>4. UNCHANGED <<task_list, next, memory, state, saved, current_task, stack, timerOn>>
    BY <1>2, <1>3 DEF RmCurrent, list
  <1>5. /\ cpu'.flow = cpu.flow /\ cpu'.cr3 = cpu.cr3 /\ cpu'.obj = cpu.obj
        /\ cpu'.pc = "rm_yield" /\ cpu' \in Image
    <2>1. cpu' = [cpu EXCEPT !.pc = "rm_yield"]
      BY <1>2, <1>3 DEF RmCurrent, Goto
    <2>2. QED
      BY <1>1, <2>1 DEF Image, PCs
  <1>6. OwnImages' /\ Caller' = cpu'
    BY <1>1, <1>2, <1>4, <1>5, CallerStep DEF Calls
  <1>7. Typed'
    BY <1>4, <1>5 DEF IInv, Typed
  <1>8. ListClosed' /\ NoSharing' /\ AllReady'
    BY <1>4 DEF IInv, ListClosed, NoSharing, AllReady, Listed
  <1>9. OneFrame'
    BY <1>1, <1>2, <1>4, <1>5, <1>6 DEF IInv, OneFrame, Calls
  <1>10. Custody'
    BY <1>1, <1>2, <1>4, <1>5, <1>6 DEF IInv, Custody
  <1>11. Cursor'
    BY <1>2, <1>3, <1>4, <1>5, <1>6 DEF Cursor, Removing
  <1>12. QED
    BY <1>6, <1>7, <1>8, <1>9, <1>10, <1>11 DEF IInv

(***************************************************************************)
(* A callback's own step: the task on the processor stays at its body.     *)
(***************************************************************************)
LEMMA ComputeStep == ASSUME IInv, Compute PROVE IInv'
  <1> USE Names
  <1>1. cpu.pc = "body" /\ cpu \in Image
    BY DEF Compute, IInv, Typed
  <1>2. current_task \in Tasks /\ cpu.flow = current_task
    BY <1>1, BodyIsATask
  <1>3. UNCHANGED <<task_list, next, memory, state, saved, current_task, stack, timerOn>>
    BY DEF Compute, list
  <1>4. /\ cpu'.flow = cpu.flow /\ cpu'.cr3 = cpu.cr3 /\ cpu'.pc = "body"
        /\ cpu'.obj = cpu.obj /\ cpu' \in Image
    <2>1. (cpu.acc + 1) % RegValues \in 0 .. RegValues - 1
      BY <1>1, TasksAssumption DEF Image
    <2>2. QED
      BY <1>1, <2>1 DEF Compute, Image
  <1>5. /\ current_task = Main => Caller = cpu /\ Caller' = cpu'
        /\ current_task # Main => Caller' = Caller
    BY <1>2, <1>3 DEF Caller, Virtual
  <1>6. OwnImages'
    BY <1>1, <1>2, <1>3, <1>4 DEF IInv, OwnImages, Virtual
  <1>7. Typed'
    BY <1>3, <1>4 DEF IInv, Typed
  <1>8. ListClosed' /\ NoSharing' /\ AllReady'
    BY <1>3 DEF IInv, ListClosed, NoSharing, AllReady, Listed
  <1>9. OneFrame'
    BY <1>1, <1>3, <1>4, <1>5 DEF IInv, OneFrame
  <1>10. Custody' /\ Cursor'
    <2>1. CASE current_task = Main
      BY <1>1, <1>3, <1>4, <1>5, <2>1 DEF IInv, Custody, Cursor, Removing
    <2>2. CASE current_task # Main
      BY <1>3, <1>5, <2>2 DEF IInv, Custody, Cursor, Listed, Deref
    <2>3. QED
      BY <2>1, <2>2
  <1>11. QED
    BY <1>6, <1>7, <1>8, <1>9, <1>10 DEF IInv
LEMMA CallAddStep ==
  ASSUME IInv, Disciplined, NEW t \in Tasks, CallAdd(t) PROVE IInv'
  <1> USE Names
  <1>1. cpu.pc = "body" /\ cpu \in Image /\ cpu.flow = Main /\ memory[t] = "free"
    BY DEF CallAdd, IInv, Typed, Disciplined
  <1>2. current_task = Main
    BY <1>1, BodyIsATask
  <1>3. UNCHANGED <<task_list, current_task, timerOn>>
    BY DEF CallAdd
  <1>4. /\ cpu'.flow = cpu.flow /\ cpu'.cr3 = cpu.cr3 /\ cpu'.obj = t
        /\ cpu'.pc = "add_link" /\ cpu' \in Image
    BY <1>1 DEF CallAdd, Image, PCs, MaybeTask
  <1>5. Caller = cpu /\ Caller' = cpu'
    BY <1>2, <1>3 DEF Caller, Virtual
  <1>6. t # Main /\ t \notin Listed
    <2>1. Main \in Listed
      BY <1>2 DEF IInv, ListClosed
    <2>2. QED
      BY <1>1, <2>1 DEF Listed
  <1>7. /\ memory' = [memory EXCEPT ![t] = "built"]
        /\ next' = [next EXCEPT ![t] = NoTask]
        /\ state' = [state EXCEPT ![t] = "READY"]
        /\ saved' = [saved EXCEPT ![t] = Fresh(t)]
        /\ Fresh(t) \in Image
        /\ Fresh(t).flow = t /\ Fresh(t).cr3 = t /\ Fresh(t).pc = "body"
    BY FreshType DEF CallAdd, Fresh
  <1>8. stack = <<>> /\ stack' = <<Main>>
    <2>1. stack = <<>>
      BY <1>1, <1>5 DEF IInv, OneFrame, Calls
    <2>2. QED
      BY <2>1, <1>1 DEF CallAdd
  <1>9. Typed'
    BY <1>3, <1>4, <1>7, <1>8 DEF IInv, Typed, MaybeTask
  <1>10. /\ Listed' = Listed
         /\ \A u \in Listed : next'[u] = next[u]
    BY <1>1, <1>6, <1>7 DEF Listed, IInv, Typed
  <1>11. ListClosed' /\ NoSharing'
    BY <1>3, <1>10 DEF IInv, ListClosed, NoSharing
  <1>12. AllReady'
    BY <1>2, <1>3, <1>6, <1>7 DEF IInv, AllReady, Typed
  <1>13. OwnImages'
    BY <1>1, <1>2, <1>3, <1>4, <1>6, <1>7 DEF IInv, OwnImages, Virtual, Calls, Typed
  <1>14. OneFrame'
    BY <1>1, <1>4, <1>5, <1>8 DEF OneFrame, Calls
  <1>15. Custody'
    BY <1>1, <1>4, <1>5, <1>7 DEF IInv, Custody, Typed
  <1>16. Cursor'
    BY <1>4, <1>5 DEF Cursor, Removing
  <1>17. QED
    BY <1>9, <1>11, <1>12, <1>13, <1>14, <1>15, <1>16 DEF IInv

LEMMA CallRemoveStep ==
  ASSUME IInv, Disciplined, NEW t \in Tasks, CallRemove(t) PROVE IInv'
  <1> USE Names
  <1>1. cpu.pc = "body" /\ cpu \in Image /\ cpu.flow = Main /\ t # Main
    BY TasksAssumption DEF CallRemove, IInv, Typed, Disciplined
  <1>2. current_task = Main
    BY <1>1, BodyIsATask
  <1>3. UNCHANGED <<task_list, next, memory, state, saved, current_task, timerOn>>
    BY DEF CallRemove, list
  <1>4. /\ cpu'.flow = cpu.flow /\ cpu'.cr3 = cpu.cr3 /\ cpu'.obj = t
        /\ cpu'.ind = NoTask /\ cpu'.pc = "rm_search" /\ cpu' \in Image
    BY <1>1 DEF CallRemove, Image, PCs, MaybeTask
  <1>5. Caller = cpu /\ Caller' = cpu'
    BY <1>2, <1>3 DEF Caller, Virtual
  <1>6. stack = <<>> /\ stack' = <<Main>>
    <2>1. stack = <<>>
      BY <1>1, <1>5 DEF IInv, OneFrame, Calls
    <2>2. QED
      BY <2>1, <1>1 DEF CallRemove
  <1>7. Typed'
    BY <1>3, <1>4, <1>6 DEF IInv, Typed, MaybeTask
  <1>8. ListClosed' /\ NoSharing' /\ AllReady'
    BY <1>3 DEF IInv, ListClosed, NoSharing, AllReady, Listed
  <1>9. OwnImages'
    BY <1>1, <1>2, <1>3, <1>4 DEF IInv, OwnImages, Virtual, Calls
  <1>10. OneFrame'
    BY <1>1, <1>4, <1>5, <1>6 DEF OneFrame, Calls
  <1>11. Custody'
    BY <1>1, <1>3, <1>4, <1>5 DEF IInv, Custody
  <1>12. Cursor'
    BY <1>1, <1>2, <1>3, <1>4, <1>5 DEF Cursor, Removing
  <1>13. QED
    BY <1>7, <1>8, <1>9, <1>10, <1>11, <1>12 DEF IInv

(***************************************************************************)
(* The handler, for every way into it: regs is what it finds interrupted.  *)
(***************************************************************************)
Interrupted(regs) ==
  \/ regs = cpu /\ timerOn
  \/ cpu.pc = "rm_yield" /\ regs = [cpu EXCEPT !.pc = "ret"]

LEMMA HandlerStep ==
  ASSUME IInv, NEW regs, Interrupted(regs), timer_interrupt_handler(regs)
  PROVE  /\ IInv'
         /\ Listed' = Listed
         /\ \A t \in Tasks \ {current_task} : Virtual(t)' = Virtual(t)
         /\ \A t \in Tasks : t = current_task => Virtual(t)' = regs
         /\ current_task' \in Listed \/ UNCHANGED <<current_task, cpu>>
  <1> USE Names
  <1> DEFINE c == current_task
             start == IF c = NoTask THEN task_list ELSE After(c)
             kept == IF c = NoTask THEN saved ELSE [saved EXCEPT ![c] = regs]
             st == IF c = NoTask THEN state ELSE [state EXCEPT ![c] = "READY"]
             chosen == schedule(st)
  <1>1. /\ saved' = kept
        /\ current_task' = chosen
        /\ state' = IF chosen = NoTask THEN st ELSE [st EXCEPT ![chosen] = "RUNNING"]
        /\ cpu' = IF chosen = NoTask THEN regs ELSE kept[chosen]
    BY DEF timer_interrupt_handler
  <1>2. UNCHANGED <<task_list, next, memory, stack, timerOn>>
    BY DEF timer_interrupt_handler, list
  <1>3. c \in Listed \cup {NoTask} /\ Listed \subseteq Tasks
    BY DEF IInv, ListClosed, Listed
  <1>4. /\ cpu \in Image /\ regs \in Image
        /\ regs.flow = cpu.flow /\ regs.cr3 = cpu.cr3
        /\ regs.pc = IF cpu.pc = "rm_yield" /\ regs # cpu THEN "ret" ELSE cpu.pc
        /\ regs.obj = cpu.obj /\ regs.ind = cpu.ind /\ regs.rem = cpu.rem /\ regs.nxt = cpu.nxt
    BY DEF Interrupted, IInv, Typed, Image, PCs
  <1>5. st \in [Tasks -> {"READY", "RUNNING"}] /\ \A t \in Tasks : st[t] = "READY"
    BY <1>3 DEF IInv, AllReady, Typed
  <1>6. /\ start \in Listed \cup {NoTask}
        /\ chosen = IF start = NoTask THEN c ELSE start
    <2>1. \A t \in Listed : st[t] = "READY"
      BY <1>3, <1>5
    <2>2. QED
      BY <2>1, ScheduleChooses
  <1>7. chosen \in Listed \cup {NoTask} /\ (c # NoTask => chosen # NoTask)
    BY <1>3, <1>6
  <1>8. kept \in [Tasks -> Image]
    BY <1>3, <1>4 DEF IInv, Typed
  <1>9. /\ c = NoTask => regs = cpu /\ cpu.pc = "idle"
        /\ c # NoTask => cpu.flow = c /\ cpu.cr3 = c /\ cpu.pc \in Calls \cup {"body"}
    BY DEF Interrupted, IInv, OwnImages
  <1>10. Listed' = Listed
    BY <1>2 DEF Listed
  <1>11. \A t \in Tasks \ {c} : Virtual(t)' = Virtual(t)
    BY <1>1, <1>3, <1>7 DEF Virtual, IInv, Typed
  <1>12. \A t \in Tasks : t = c => Virtual(t)' = regs
    <2>1. ASSUME NEW t \in Tasks, t = c
          PROVE  kept[t] = regs /\ chosen # NoTask
      BY <2>1, <1>7 DEF IInv, Typed
    <2>2. QED
      BY <2>1, <1>1 DEF Virtual
  <1>13. current_task' \in Listed \/ UNCHANGED <<current_task, cpu>>
    BY <1>1, <1>3, <1>7, <1>9
  <1>14. Typed'
    <2>1. cpu' \in Image /\ current_task' \in MaybeTask
      BY <1>1, <1>3, <1>4, <1>7, <1>8 DEF MaybeTask
    <2>2. state' \in [Tasks -> {"READY", "RUNNING"}]
      BY <1>1, <1>3, <1>5, <1>7
    <2>3. QED
      BY <1>1, <1>2, <1>8, <2>1, <2>2 DEF IInv, Typed
  <1>15. ListClosed'
    BY <1>1, <1>2, <1>7, <1>10 DEF IInv, ListClosed
  <1>16. NoSharing'
    BY <1>2, <1>10 DEF IInv, NoSharing
  <1>17. AllReady'
    BY <1>1, <1>3, <1>5, <1>7 DEF AllReady
  <1>18. \A t \in Tasks : kept[t].flow = t /\ kept[t].cr3 = t
    BY <1>3, <1>4, <1>9 DEF IInv, OwnImages, Typed
  <1>19. OwnImages'
    <2>1. \A t \in Tasks : Virtual(t)' = IF t = c THEN regs ELSE Virtual(t)
      BY <1>3, <1>11, <1>12
    <2>2. \A t \in Tasks \ {Main} : (Virtual(t).pc)' = "body"
      <3>1. \A t \in Tasks \ {Main} : t = c => regs.pc = "body"
        BY <1>4 DEF IInv, OwnImages, Virtual
      <3>2. QED
        BY <2>1, <3>1 DEF IInv, OwnImages
    <2>3. (Virtual(Main).pc)' \in Calls \cup {"body"}
      <3>1. CASE c = Main
        BY <1>4, <1>9, <2>1, <3>1 DEF Calls
      <3>2. CASE c = NoTask
        <4>1. Virtual(Main) = saved[Main] /\ saved[Main].pc = "body"
          BY <3>2 DEF Virtual, IInv, OwnImages
        <4>2. QED
          BY <2>1, <3>2, <4>1
      <3>3. CASE c \in Tasks \ {Main}
        BY <2>1, <3>3 DEF IInv, OwnImages
      <3>4. QED
        BY <1>3, <3>1, <3>2, <3>3
    <2>4. current_task' = NoTask => UNCHANGED <<current_task, cpu, saved>>
      BY <1>1, <1>3, <1>7, <1>9
    <2>5. current_task' # NoTask => cpu'.flow = current_task' /\ cpu'.cr3 = current_task'
      BY <1>1, <1>3, <1>7, <1>18
    <2>6. current_task' # NoTask => cpu'.pc \in Calls \cup {"body"}
      <3>1. ASSUME NEW t \in Tasks, current_task' = t
            PROVE  cpu' = Virtual(t)'
        BY <3>1 DEF Virtual
      <3>2. \A t \in Tasks : (Virtual(t).pc)' \in Calls \cup {"body"}
        BY <2>2, <2>3
      <3>3. QED
        BY <3>1, <3>2, <1>1, <1>3, <1>7
    <2>7. QED
      BY <1>1, <1>2, <1>18, <2>2, <2>3, <2>4, <2>5, <2>6 DEF IInv, OwnImages
  <1>20. \/ Caller' = Caller
         \/ c = Main /\ Caller = cpu /\ Caller' = regs
         \/ c = NoTask /\ Caller.pc = "idle" /\ (Caller.pc)' = "body"
    <2>1. CASE c = NoTask
      <3>1. Caller = cpu /\ cpu.pc = "idle"
        BY <1>9, <2>1 DEF Caller
      <3>2. CASE current_task' = NoTask
        BY <1>1, <1>9, <2>1, <3>1, <3>2 DEF Caller
      <3>3. CASE current_task' # NoTask
        <4>1. Virtual(Main) = saved[Main] /\ saved[Main].pc = "body"
          BY <2>1 DEF Virtual, IInv, OwnImages
        <4>2. Caller' = Virtual(Main)'
          BY <3>3 DEF Caller
        <4>3. Virtual(Main)' = Virtual(Main)
          BY <2>1, <1>11
        <4>4. QED
          BY <2>1, <3>1, <4>1, <4>2, <4>3
      <3>4. QED
        BY <3>2, <3>3
    <2>2. CASE c # NoTask
      <3>1. Caller = Virtual(Main) /\ Caller' = Virtual(Main)'
        BY <1>1, <1>7, <2>2 DEF Caller
      <3>2. c = Main => Virtual(Main) = cpu /\ Virtual(Main)' = regs
        BY <1>12 DEF Virtual
      <3>3. c # Main => Virtual(Main)' = Virtual(Main)
        BY <1>11
      <3>4. QED
        BY <3>1, <3>2, <3>3
    <2>3. QED
      BY <2>1, <2>2
  <1>21. \/ Caller' = Caller
         \/ /\ c = Main /\ Caller.pc = "rm_yield" /\ (Caller.pc)' = "ret"
            /\ (Caller.flow)' = Caller.flow
         \/ c = NoTask /\ Caller.pc = "idle" /\ (Caller.pc)' = "body"
    BY <1>4, <1>20 DEF Interrupted
  <1>22. OneFrame'
    BY <1>2, <1>21 DEF IInv, OneFrame, Calls
  <1>23. Custody'
    <2>1. \A t \in Tasks : memory[t] = "built" => saved'[t] = saved[t]
      BY <1>1, <1>3 DEF Listed, IInv, Typed
    <2>2. QED
      BY <1>2, <1>21, <2>1 DEF IInv, Custody
  <1>24. Cursor'
    <2>1. c # NoTask => current_task' # NoTask
      BY <1>1, <1>7
    <2>2. QED
      BY <1>2, <1>10, <1>21, <2>1 DEF IInv, Cursor, Removing, Deref
  <1>25. QED
    BY <1>10, <1>11, <1>12, <1>13, <1>14, <1>15, <1>16, <1>17, <1>19,
       <1>22, <1>23, <1>24 DEF IInv

LEMMA StepKeepsIInv == ASSUME IInv, Disciplined, [Next]_vars PROVE IInv'
  <1>1. CASE SchedInit
    BY <1>1, SchedInitStep
  <1>2. CASE RegisterHandler
    BY <1>2, RegisterHandlerStep
  <1>3. CASE Return
    BY <1>3, ReturnStep
  <1>4. CASE AddLink
    BY <1>4, AddLinkStep
  <1>5. CASE AddPublish
    BY <1>5, AddPublishStep
  <1>6. CASE RmSearch
    BY <1>6, RmSearchStep
  <1>7. CASE RmLoad
    BY <1>7, RmLoadStep
  <1>8. CASE RmUnlink
    BY <1>8, RmUnlinkStep
  <1>9. CASE RmFree
    BY <1>9, RmFreeStep
  <1>10. CASE RmCurrent \/ RmHead \/ RmStore
    BY <1>10, RmCurrentStep, LeavesNever
  <1>11. CASE RmYield
    BY <1>11, HandlerStep DEF RmYield, Interrupted
  <1>12. CASE Compute
    BY <1>12, ComputeStep
  <1>13. CASE BodyYield \/ TimerInterrupt
    BY <1>13, HandlerStep DEF BodyYield, TimerInterrupt, Interrupted
  <1>14. ASSUME NEW t \in Tasks, CallAdd(t) \/ CallRemove(t)
         PROVE  IInv'
    BY <1>14, CallAddStep, CallRemoveStep
  <1>15. CASE UNCHANGED vars
    BY <1>15 DEF vars, IInv, Typed, ListClosed, OwnImages, OneFrame, Custody, Cursor,
       NoSharing, AllReady, Caller, Virtual, Listed, Deref
  <1>16. QED
    BY <1>1, <1>2, <1>3, <1>4, <1>5, <1>6, <1>7, <1>8, <1>9, <1>10, <1>11, <1>12,
       <1>13, <1>14, <1>15 DEF Next, InCall

-----------------------------------------------------------------------------

(* The inductive invariant holds in every reachable state.                 *)
THEOREM Invariance == ASSUME Disciplined PROVE Spec => []IInv
  <1>1. Init => IInv
    BY Establish
  <1>2. IInv /\ [Next]_vars => IInv'
    BY StepKeepsIInv
  <1>3. QED
    BY <1>1, <1>2, PTL DEF Spec

(* The list the handler walks never leads to freed memory, at any point of *)
(* sched_add_task or sched_remove_task it interrupts.                      *)
THEOREM ListStaysClosed == ASSUME Disciplined PROVE Spec => []ListClosed
  <1>1. IInv => ListClosed
    BY DEF IInv
  <1>2. QED
    BY <1>1, Invariance, PTL

(* Preemption never mixes the registers or address spaces of two tasks,    *)
(* and the states in the structures say who runs.                          *)
THEOREM ContextsStayApart ==
  ASSUME Disciplined PROVE Spec => [](ContextIntegrity /\ OneRunning)
  <1>1. IInv => ContextIntegrity /\ OneRunning
    BY DEF IInv, OwnImages, AllReady, ContextIntegrity, OneRunning, Listed
  <1>2. QED
    BY <1>1, Invariance, PTL

(* A task whose removal is done never executes again, and with one caller  *)
(* the shared stack returns each call to where it came from.               *)
THEOREM RemovedStaysRemoved ==
  ASSUME Disciplined PROVE Spec => [](RunsListedTask /\ ReturnsToCaller)
  <1>1. ASSUME IInv PROVE RunsListedTask
    BY <1>1, Names DEF IInv, OwnImages, ListClosed, RunsListedTask
  <1>2. ASSUME IInv PROVE ReturnsToCaller
    <2>1. SUFFICES ASSUME cpu.pc = "ret" PROVE stack # <<>> /\ Head(stack) = cpu.flow
      BY DEF ReturnsToCaller
    <2>2. Caller = cpu
      BY <1>2, <2>1, CallerRuns
    <2>3. stack = <<cpu.flow>>
      BY <1>2, <2>1, <2>2 DEF IInv, OneFrame, Calls
    <2>4. QED
      BY <2>3
  <1>3. QED
    BY <1>1, <1>2, Invariance, PTL

(* A timer interrupt is invisible to every task.                           *)
THEOREM PreemptionIsTransparent ==
  ASSUME Disciplined PROVE Spec => PreemptionTransparent
  <1>1. ASSUME IInv, TimerInterrupt
        PROVE  \A t \in Listed : Virtual(t)' = Virtual(t)
    <2>1. Interrupted(cpu) /\ timer_interrupt_handler(cpu)
      BY <1>1 DEF TimerInterrupt, Interrupted
    <2>2. \A t \in Tasks \ {current_task} : Virtual(t)' = Virtual(t)
      BY <1>1, <2>1, HandlerStep
    <2>3. \A t \in Tasks : t = current_task => Virtual(t)' = cpu /\ Virtual(t) = cpu
      BY <1>1, <2>1, HandlerStep DEF Virtual
    <2>4. QED
      BY <2>2, <2>3 DEF Listed
  <1>2. IInv /\ [Next]_vars => [TimerInterrupt => \A t \in Listed : Virtual(t)' = Virtual(t)]_vars
    BY <1>1
  <1>3. QED
    BY <1>2, Invariance, PTL DEF Spec, PreemptionTransparent
-----------------------------------------------------------------------------
(* The order of the list.                                                  *)

(* The listed tasks, numbered in the order of the links: each once, from   *)
(* task_list on, and the last one links to nothing.                        *)
IsOrder(s, n) ==
  /\ n \in Nat
  /\ s \in [1 .. n -> Tasks]
  /\ \A i, j \in 1 .. n : s[i] = s[j] => i = j
  /\ \A t \in Tasks : t \in Listed <=> \E i \in 1 .. n : t = s[i]
  /\ task_list = IF n = 0 THEN NoTask ELSE s[1]
  /\ \A i \in 1 .. n : next[s[i]] = IF i = n THEN NoTask ELSE s[i + 1]

Ordered == \E s, n : IsOrder(s, n)

(* The walk from task_list meets the tasks of the order, and then nothing. *)
LEMMA ChainOfOrder ==
  ASSUME NEW s, NEW n, IsOrder(s, n)
  PROVE  /\ DOMAIN Chain = 0 .. Cardinality(Tasks)
         /\ \A k \in 0 .. Cardinality(Tasks) :
              Chain[k] = IF k < n THEN s[k + 1] ELSE NoTask
  <1> DEFINE K == Cardinality(Tasks)
             E(h) == h = [k \in 0 .. Cardinality(Tasks) |->
                           IF k = 0 THEN task_list
                           ELSE IF h[k - 1] = NoTask THEN NoTask ELSE next[h[k - 1]]]
             g == [k \in 0 .. K |-> IF k < n THEN s[k + 1] ELSE NoTask]
  <1>1. K \in Nat
    BY TasksAssumption, FS_CardinalityType
  <1>2. Chain = CHOOSE h : E(h)
    BY DEF Chain
  <1>3. E(g)
    <2>1. \A k \in 0 .. K : g[k] = IF k = 0 THEN task_list
                                   ELSE IF g[k - 1] = NoTask THEN NoTask ELSE next[g[k - 1]]
      <3>1. g[0] = task_list
        BY <1>1 DEF IsOrder
      <3>2. ASSUME NEW k \in 1 .. K
            PROVE  g[k] = IF g[k - 1] = NoTask THEN NoTask ELSE next[g[k - 1]]
        <4>1. CASE k <= n
          BY <1>1, <4>1, Names DEF IsOrder
        <4>2. CASE k > n
          BY <1>1, <4>2 DEF IsOrder
        <4>3. QED
          BY <4>1, <4>2 DEF IsOrder
      <3>3. QED
        BY <3>1, <3>2, SMTT(100)
    <2>2. QED
      BY <2>1
  <1>4. E(Chain)
    <2> HIDE DEF g, E
    <2>1. QED
      BY <1>2, <1>3, Zenon
  <1>5. \A k \in 0 .. K : Chain[k] = g[k]
    <2> HIDE DEF g, K
    <2>1. Chain[0] = g[0]
      BY <1>1, <1>3, <1>4 DEF K
    <2>2. ASSUME NEW k \in 1 .. K, Chain[k - 1] = g[k - 1] PROVE Chain[k] = g[k]
      <3>1. k \in 0 .. K /\ k # 0
        BY <1>1
      <3>2. \A h : E(h) => h[k] = IF h[k - 1] = NoTask THEN NoTask ELSE next[h[k - 1]]
        BY <3>1 DEF K
      <3> HIDE DEF E
      <3>3. QED
        BY <2>2, <3>2, <1>3, <1>4
    <2> HIDE DEF E
    <2>3. QED
      BY <1>1, <2>1, <2>2, SameWalk
  <1>6. DOMAIN Chain = 0 .. K
    BY <1>4
  <1>7. QED
    BY <1>5, <1>6

(* Such a list is what NoTaskLost speaks of.                               *)
LEMMA OrderedLosesNone == ASSUME Ordered PROVE NoTaskLost
  <1>1. PICK s, n : IsOrder(s, n)
    BY DEF Ordered
  <1>2. n \in Nat /\ n <= Cardinality(Tasks) /\ Cardinality(Tasks) \in Nat
    BY <1>1, InjectiveLength, TasksAssumption, FS_CardinalityType DEF IsOrder
  <1>3. /\ DOMAIN Chain = 0 .. Cardinality(Tasks)
        /\ \A k \in 0 .. Cardinality(Tasks) :
             Chain[k] = IF k < n THEN s[k + 1] ELSE NoTask
    BY <1>1, ChainOfOrder
  <1>4. /\ Listed \subseteq Tasks /\ \A i \in 1 .. n : s[i] \in Tasks
        /\ \A t \in Tasks : t \in Listed <=> \E i \in 1 .. n : t = s[i]
    BY <1>1 DEF IsOrder, Listed
  <1>5. Chain[Cardinality(Tasks)] = NoTask
    BY <1>2, <1>3
  <1>6. Listed = {Chain[k] : k \in DOMAIN Chain} \ {NoTask}
    <2>1. ASSUME NEW t \in Listed PROVE t \in {Chain[k] : k \in DOMAIN Chain} \ {NoTask}
      <3>1. PICK i \in 1 .. n : t = s[i]
        BY <1>4
      <3>2. i - 1 \in DOMAIN Chain /\ Chain[i - 1] = t
        BY <1>2, <1>3, <3>1
      <3>3. QED
        BY <3>2, <1>4, Names
    <2>2. ASSUME NEW k \in DOMAIN Chain, Chain[k] # NoTask PROVE Chain[k] \in Listed
      BY <1>2, <1>3, <1>4, <2>2
    <2>3. QED
      BY <2>1, <2>2
  <1>7. QED
    BY <1>5, <1>6 DEF NoTaskLost

(* Steps that leave the listed tasks and their links as they are.          *)
LEMMA OrderedQuiet ==
  ASSUME Ordered, Listed' = Listed, task_list' = task_list,
         \A t \in Listed : next'[t] = next[t]
  PROVE  Ordered'
  <1>1. PICK s, n : IsOrder(s, n)
    BY DEF Ordered
  <1>2. IsOrder(s, n)'
    BY <1>1 DEF IsOrder
  <1>3. QED
    BY <1>2 DEF Ordered

(* The new task comes first.                                               *)
LEMMA OrderedPublish == ASSUME IInv, Ordered, AddPublish PROVE Ordered'
  <1>1. PICK s, n : IsOrder(s, n)
    BY DEF Ordered
  <1>2. cpu.pc = "add_publish" /\ Caller = cpu
    BY CallerRuns DEF AddPublish
  <1>0. PICK new : new = cpu.obj
    OBVIOUS
  <1>3. /\ new \in Tasks /\ memory[new] = "built" /\ new \notin Listed
        /\ next[new] = task_list
    BY <1>0, <1>2 DEF IInv, Custody, Listed
  <1>4. /\ task_list' = new /\ next' = next
        /\ memory' = [memory EXCEPT ![new] = "listed"]
    BY <1>0 DEF AddPublish
  <1>5. Listed' = Listed \cup {new}
    BY <1>3, <1>4 DEF Listed, IInv, Typed
  <1> DEFINE r == [i \in 1 .. n + 1 |-> IF i = 1 THEN new ELSE s[i - 1]]
  <1>6. n \in Nat /\ \A i \in 1 .. n : s[i] \in Tasks /\ s[i] \in Listed
    BY <1>1 DEF IsOrder
  <1>7. /\ r \in [1 .. n + 1 -> Tasks] /\ n + 1 \in Nat
        /\ r[1] = new
        /\ \A i \in 1 .. n : r[i + 1] = s[i] /\ i + 1 \in 1 .. n + 1
        /\ \A i \in 1 .. n + 1 : i = 1 \/ (i - 1 \in 1 .. n /\ r[i] = s[i - 1])
    BY <1>3, <1>6
  <1> HIDE DEF r
  <1>8. ASSUME NEW i \in 1 .. n + 1, NEW j \in 1 .. n + 1, r[i] = r[j] PROVE i = j
    <2>1. CASE i = 1 /\ j = 1
      BY <2>1
    <2>2. CASE i = 1 /\ j # 1
      BY <2>2, <1>3, <1>6, <1>7, <1>8
    <2>3. CASE i # 1 /\ j = 1
      BY <2>3, <1>3, <1>6, <1>7, <1>8
    <2>4. CASE i # 1 /\ j # 1
      <3>1. s[i - 1] = s[j - 1] /\ i - 1 \in 1 .. n /\ j - 1 \in 1 .. n
        BY <2>4, <1>7, <1>8
      <3>2. i - 1 = j - 1
        BY <3>1, <1>1 DEF IsOrder
      <3>3. QED
        BY <3>2, <1>6
    <2>5. QED
      BY <2>1, <2>2, <2>3, <2>4
  <1>9. ASSUME NEW t \in Tasks
        PROVE  t \in Listed' <=> \E i \in 1 .. n + 1 : t = r[i]
    <2>1. t \in Listed <=> \E i \in 1 .. n : t = s[i]
      BY <1>1 DEF IsOrder
    <2>2. ASSUME t \in Listed' PROVE \E i \in 1 .. n + 1 : t = r[i]
      <3>1. CASE t = new
        BY <3>1, <1>6, <1>7
      <3>2. CASE t \in Listed
        BY <3>2, <2>1, <1>7
      <3>3. QED
        BY <2>2, <3>1, <3>2, <1>5
    <2>3. ASSUME NEW i \in 1 .. n + 1, t = r[i] PROVE t \in Listed'
      BY <2>3, <1>5, <1>6, <1>7
    <2>4. QED
      BY <2>2, <2>3
  <1>10. ASSUME NEW i \in 1 .. n + 1
         PROVE  next'[r[i]] = IF i = n + 1 THEN NoTask ELSE r[i + 1]
    <2>1. CASE i = 1
      <3>1. next'[r[i]] = task_list
        BY <2>1, <1>3, <1>4, <1>7
      <3>2. task_list = IF n = 0 THEN NoTask ELSE s[1]
        BY <1>1 DEF IsOrder
      <3>3. n # 0 => r[2] = s[1]
        BY <1>6, <1>7
      <3>4. QED
        BY <2>1, <3>1, <3>2, <3>3, <1>6
    <2>2. CASE i # 1
      <3>1. next'[r[i]] = next[s[i - 1]] /\ i - 1 \in 1 .. n
        BY <2>2, <1>4, <1>7
      <3>2. next[s[i - 1]] = IF i - 1 = n THEN NoTask ELSE s[i - 1 + 1]
        BY <3>1, <1>1 DEF IsOrder
      <3>3. i - 1 # n => r[i + 1] = s[i]
        BY <3>1, <1>6, <1>7
      <3>4. QED
        BY <3>1, <3>2, <3>3, <1>6
    <2>3. QED
      BY <2>1, <2>2
  <1>11. task_list' = IF n + 1 = 0 THEN NoTask ELSE r[1]
    BY <1>4, <1>6, <1>7
  <1>12. IsOrder(r, n + 1)'
    BY <1>6, <1>7, <1>8, <1>9, <1>10, <1>11 DEF IsOrder
  <1>13. QED
    BY <1>12 DEF Ordered

(* The removed task is left out.                                           *)
LEMMA OrderedUnlink == ASSUME IInv, Ordered, RmUnlink PROVE Ordered'
  <1>1. PICK s, n : IsOrder(s, n)
    BY DEF Ordered
  <1>2. cpu.pc = "rm_unlink" /\ Caller = cpu
    BY CallerRuns DEF RmUnlink
  <1>3. /\ cpu.rem \in Listed /\ cpu.rem \in Tasks
        /\ cpu.ind \in Listed \cup {NoTask} /\ cpu.ind # cpu.rem
        /\ Deref(cpu.ind) = cpu.rem /\ cpu.nxt = next[cpu.rem]
    BY <1>2, Names DEF IInv, Cursor, Removing, Listed, ListClosed, Deref
  <1>4. Listed' = Listed \ {cpu.rem}
    BY <1>3 DEF RmUnlink, Listed, IInv, Typed
  <1>5. /\ n \in Nat /\ \A i \in 1 .. n : s[i] \in Tasks /\ s[i] # NoTask
        /\ \A i, j \in 1 .. n : s[i] = s[j] => i = j
        /\ \A t \in Tasks : t \in Listed <=> \E i \in 1 .. n : t = s[i]
        /\ \A i \in 1 .. n : next[s[i]] = IF i = n THEN NoTask ELSE s[i + 1]
    BY <1>1, Names DEF IsOrder
  <1>6. PICK p \in 1 .. n : s[p] = cpu.rem
    BY <1>3, <1>5
  <1>7. task_list = s[1]
    BY <1>1, <1>5, <1>6 DEF IsOrder
  <1>8. cpu.ind = IF p = 1 THEN NoTask ELSE s[p - 1]
    <2>1. CASE cpu.ind = NoTask
      <3>1. s[1] = s[p]
        BY <2>1, <1>3, <1>6, <1>7 DEF Deref
      <3>2. p = 1
        BY <3>1, <1>5, <1>6
      <3>3. QED
        BY <2>1, <3>2
    <2>2. CASE cpu.ind # NoTask
      <3>1. PICK q \in 1 .. n : s[q] = cpu.ind
        BY <2>2, <1>3, <1>5 DEF Listed
      <3>2. next[s[q]] = s[p] /\ s[p] # NoTask
        BY <2>2, <3>1, <1>3, <1>5, <1>6 DEF Deref
      <3>3. q # n /\ s[q + 1] = s[p] /\ q + 1 \in 1 .. n
        BY <3>2, <1>5
      <3>4. q + 1 = p
        BY <3>3, <1>5
      <3>5. QED
        BY <3>1, <3>4, <1>5
    <2>3. QED
      BY <2>1, <2>2
  <1> DEFINE r == [i \in 1 .. n - 1 |-> IF i < p THEN s[i] ELSE s[i + 1]]
  <1>9. /\ r \in [1 .. n - 1 -> Tasks] /\ n - 1 \in Nat
        /\ \A i \in 1 .. n - 1 : \E q \in 1 .. n :
             /\ r[i] = s[q] /\ q # p /\ q = IF i < p THEN i ELSE i + 1
        /\ \A q \in 1 .. n : q < p => q \in 1 .. n - 1 /\ r[q] = s[q]
        /\ \A q \in 1 .. n : q > p => q - 1 \in 1 .. n - 1 /\ r[q - 1] = s[q]
    BY <1>5, <1>6
  <1> HIDE DEF r
  <1>10. ASSUME NEW i \in 1 .. n - 1, NEW j \in 1 .. n - 1, r[i] = r[j] PROVE i = j
    <2>1. PICK q \in 1 .. n : r[i] = s[q] /\ q # p /\ q = IF i < p THEN i ELSE i + 1
      BY <1>9
    <2>2. PICK o \in 1 .. n : r[j] = s[o] /\ o # p /\ o = IF j < p THEN j ELSE j + 1
      BY <1>9
    <2>3. q = o
      BY <2>1, <2>2, <1>5, <1>10
    <2>4. QED
      BY <2>1, <2>2, <2>3
  <1>11. ASSUME NEW t \in Tasks
         PROVE  t \in Listed' <=> \E i \in 1 .. n - 1 : t = r[i]
    <2>1. ASSUME NEW i \in 1 .. n - 1, t = r[i] PROVE t \in Listed'
      <3>1. PICK q \in 1 .. n : r[i] = s[q] /\ q # p
        BY <1>9
      <3>2. s[q] \in Listed /\ s[q] # cpu.rem
        BY <3>1, <1>5, <1>6
      <3>3. QED
        BY <2>1, <3>1, <3>2, <1>4
    <2>2. ASSUME t \in Listed' PROVE \E i \in 1 .. n - 1 : t = r[i]
      <3>1. PICK q \in 1 .. n : t = s[q]
        BY <2>2, <1>4, <1>5
      <3>2. q # p
        BY <2>2, <3>1, <1>4, <1>6
      <3>3. q < p \/ q > p
        BY <3>2, <1>6
      <3>4. QED
        BY <3>1, <3>3, <1>9
    <2>3. QED
      BY <2>1, <2>2
  <1>12. cpu.nxt = IF p = n THEN NoTask ELSE s[p + 1]
    BY <1>3, <1>5, <1>6
  <1>13. next \in [Tasks -> MaybeTask]
    BY DEF IInv, Typed
  <1>14. task_list' = IF n - 1 = 0 THEN NoTask ELSE r[1]
    <2>1. CASE p = 1
      <3>1. task_list' = cpu.nxt
        BY <2>1, <1>8 DEF RmUnlink
      <3>2. p # n => r[1] = s[2]
        BY <2>1, <1>5, <1>6, <1>9
      <3>3. QED
        BY <2>1, <3>1, <3>2, <1>5, <1>6, <1>12
    <2>2. CASE p # 1
      <3>1. task_list' = s[1] /\ 1 < p
        BY <2>2, <1>5, <1>6, <1>7, <1>8 DEF RmUnlink
      <3>2. r[1] = s[1] /\ n - 1 # 0
        BY <3>1, <1>5, <1>6, <1>9
      <3>3. QED
        BY <3>1, <3>2
    <2>3. QED
      BY <2>1, <2>2
  <1>15. \A t \in Tasks : t # cpu.ind => next'[t] = next[t]
    BY <1>13 DEF RmUnlink
  <1>16. p # 1 => next'[s[p - 1]] = cpu.nxt
    <2>1. p # 1 => p - 1 \in 1 .. n
      BY <1>5, <1>6
    <2>2. QED
      BY <2>1, <1>5, <1>8, <1>13 DEF RmUnlink
  <1>17. ASSUME NEW i \in 1 .. n - 1
         PROVE  next'[r[i]] = IF i = n - 1 THEN NoTask ELSE r[i + 1]
    <2>1. PICK q \in 1 .. n : r[i] = s[q] /\ q # p /\ q = IF i < p THEN i ELSE i + 1
      BY <1>9
    <2>2. CASE q = p - 1
      <3>1. next'[r[i]] = cpu.nxt /\ i = p - 1
        BY <2>1, <2>2, <1>6, <1>16
      <3>2. p # n => r[p] = s[p + 1]
        BY <1>5, <1>6, <1>9
      <3>3. QED
        BY <3>1, <3>2, <1>5, <1>6, <1>12
    <2>3. CASE q # p - 1
      <3>1. s[q] # cpu.ind
        <4>1. p # 1 => p - 1 \in 1 .. n
          BY <1>5, <1>6
        <4>2. QED
          BY <4>1, <2>1, <2>3, <1>5, <1>8
      <3>2. next'[r[i]] = IF q = n THEN NoTask ELSE s[q + 1]
        BY <3>1, <2>1, <1>5, <1>15
      <3>3. q # n => r[i + 1] = s[q + 1] /\ i # n - 1
        BY <2>1, <2>3, <1>5, <1>6, <1>9
      <3>4. q = n => i = n - 1
        BY <2>1, <1>5, <1>6
      <3>5. QED
        BY <3>2, <3>3, <3>4
    <2>4. QED
      BY <2>2, <2>3
  <1>18. IsOrder(r, n - 1)'
    BY <1>9, <1>10, <1>11, <1>14, <1>17 DEF IsOrder
  <1>19. QED
    BY <1>18 DEF Ordered

LEMMA OrderedStep == ASSUME IInv, Ordered, [Next]_vars PROVE Ordered'
  <1>1. CASE AddPublish
    BY <1>1, OrderedPublish
  <1>2. CASE RmUnlink
    BY <1>2, OrderedUnlink
  <1>3. CASE AddLink
    <2>1. cpu.pc = "add_link" /\ Caller = cpu
      BY <1>3, CallerRuns DEF AddLink
    <2>2. cpu.obj \in Tasks /\ memory[cpu.obj] = "built"
      BY <2>1 DEF IInv, Custody
    <2>3. Listed' = Listed /\ task_list' = task_list /\ \A t \in Listed : next'[t] = next[t]
      BY <1>3, <2>2 DEF AddLink, Listed, IInv, Typed
    <2>4. QED
      BY <2>3, OrderedQuiet
  <1>4. CASE RmFree
    <2>1. cpu.pc = "rm_free" /\ Caller = cpu
      BY <1>4, CallerRuns DEF RmFree
    <2>2. memory[cpu.rem] = "unlinked"
      BY <2>1 DEF IInv, Cursor
    <2>3. Listed' = Listed /\ task_list' = task_list /\ next' = next
      BY <1>4, <2>2 DEF RmFree, Listed, IInv, Typed
    <2>4. QED
      BY <2>3, OrderedQuiet
  <1>5. ASSUME NEW t \in Tasks, CallAdd(t) PROVE Ordered'
    <2>1. Listed' = Listed /\ task_list' = task_list /\ \A u \in Listed : next'[u] = next[u]
      BY <1>5 DEF CallAdd, Listed, IInv, Typed
    <2>2. QED
      BY <2>1, OrderedQuiet
  <1>6. CASE UNCHANGED list
    BY <1>6, OrderedQuiet DEF list, Listed
  <1>7. ASSUME NEW regs, timer_interrupt_handler(regs) PROVE UNCHANGED list
    BY <1>7, Zenon DEF timer_interrupt_handler
  <1>8. ASSUME \/ SchedInit \/ RegisterHandler \/ Return \/ RmSearch \/ RmLoad \/ RmCurrent
               \/ RmHead \/ RmStore \/ Compute \/ UNCHANGED vars \/ \E t \in Tasks : CallRemove(t)
        PROVE  UNCHANGED list
    <2>1. SchedInit \/ RegisterHandler \/ Return \/ RmLoad \/ RmCurrent \/ RmHead
          \/ RmStore \/ Compute => UNCHANGED list
      BY Zenon DEF SchedInit, RegisterHandler, Return, RmLoad, RmCurrent, RmHead, RmStore,
                  Compute
    <2>2. RmSearch => UNCHANGED list
      BY Zenon DEF RmSearch
    <2>3. (\E t \in Tasks : CallRemove(t)) => UNCHANGED list
      BY Zenon DEF CallRemove
    <2>4. UNCHANGED vars => UNCHANGED list
      BY DEF vars, list
    <2>5. QED
      BY <1>8, <2>1, <2>2, <2>3, <2>4
  <1>9. RmYield \/ BodyYield \/ TimerInterrupt => UNCHANGED list
    BY <1>7, Zenon DEF RmYield, BodyYield, TimerInterrupt
  <1>10. QED
    BY <1>1, <1>2, <1>3, <1>4, <1>5, <1>6, <1>8, <1>9 DEF Next, InCall

(* No insertion or removal, wherever it is interrupted, loses a task that  *)
(* is to be scheduled or ties the list into a ring.                        *)
THEOREM NobodyIsLost == ASSUME Disciplined PROVE Spec => []NoTaskLost
  <1>1. Init => Ordered
    <2> SUFFICES ASSUME Init PROVE Ordered
      OBVIOUS
    <2>1. Listed = {} /\ task_list = NoTask
      BY DEF Init, Listed
    <2>2. IsOrder([i \in 1 .. 0 |-> Main], 0)
      BY <2>1 DEF IsOrder
    <2>3. QED
      BY <2>2 DEF Ordered
  <1>2. IInv /\ Ordered /\ [Next]_vars => Ordered'
    BY OrderedStep
  <1>3. Ordered => NoTaskLost
    BY OrderedLosesNone
  <1>4. QED
    BY <1>1, <1>2, <1>3, Invariance, PTL DEF Spec

(* Every field, register and link keeps its type, through every interrupt, *)
(* and sched_remove_task unlinks only what it has found.                   *)
THEOREM TypesKept == ASSUME Disciplined PROVE Spec => []TypeOK
  <1>1. ASSUME IInv, cpu.pc \in {"rm_load", "rm_unlink", "rm_free"} PROVE cpu.rem \in Tasks
    <2>1. Caller = cpu
      BY <1>1, CallerRuns
    <2>2. QED
      BY <1>1, <2>1 DEF IInv, Cursor, Removing
  <1>2. IInv => TypeOK
    BY <1>1 DEF IInv, TypeOK
  <1>3. QED
    BY <1>2, Invariance, PTL

-----------------------------------------------------------------------------
(* Refinement.                                                             *)

(* What a step does to the abstract state when nobody joins or leaves.     *)
LEMMA OwnStep ==
  ASSUME IInv, Listed' = Listed, current_task' = current_task,
         \A t \in Listed \ {current_task} : Virtual(t)' = Virtual(t)
  PROVE  [Abs!Next]_(Abs!vars)
  <1>1. CASE current_task \in Listed
    <2>1. Abs!OthersKeep
      BY DEF Abs!OthersKeep
    <2>2. Abs!Step
      BY <1>1, <2>1 DEF Abs!Step
    <2>3. QED
      BY <2>2 DEF Abs!Next
  <1>2. CASE current_task \notin Listed
    <2>1. [t \in Listed |-> Virtual(t)]' = [t \in Listed |-> Virtual(t)]
      BY <1>2
    <2>2. QED
      BY <2>1 DEF Abs!vars
  <1>3. QED
    BY <1>1, <1>2

LEMMA SwitchStep ==
  ASSUME IInv, NEW regs, Interrupted(regs), timer_interrupt_handler(regs)
  PROVE  [Abs!Next]_(Abs!vars)
  <1>1. /\ Listed' = Listed
        /\ \A t \in Tasks \ {current_task} : Virtual(t)' = Virtual(t)
        /\ current_task' \in Listed \/ UNCHANGED <<current_task, cpu>>
    BY HandlerStep
  <1>2. Listed \subseteq Tasks
    BY DEF Listed
  <1>3. CASE current_task' \in Listed
    <2>1. Abs!OthersKeep
      BY <1>1, <1>2 DEF Abs!OthersKeep
    <2>2. Abs!Switch
      BY <1>1, <1>3, <2>1 DEF Abs!Switch
    <2>3. QED
      BY <2>2 DEF Abs!Next
  <1>4. CASE UNCHANGED <<current_task, cpu>>
    BY <1>1, <1>2, <1>4, OwnStep
  <1>5. QED
    BY <1>1, <1>3, <1>4

LEMMA SpawnStep ==
  ASSUME IInv, AddPublish
  PROVE  [Abs!Next]_(Abs!vars)
  <1> USE Names
  <1>1. Caller = cpu /\ cpu.pc = "add_publish"
    BY CallerRuns DEF AddPublish
  <1>2. PICK new \in Tasks : new = cpu.obj
    BY <1>1 DEF IInv, Custody
  <1>3. /\ memory[new] = "built" /\ new \notin Listed
        /\ saved[new] = Fresh(new)
    BY <1>1, <1>2 DEF IInv, Custody, Listed
  <1>4. Listed' = Listed \cup {new} /\ UNCHANGED <<saved, current_task>>
    BY <1>2, <1>3 DEF AddPublish, Listed, IInv, Typed
  <1>5. current_task # new
    BY <1>3 DEF IInv, ListClosed
  <1>6. Virtual(new)' = Fresh(new)
    BY <1>3, <1>4, <1>5 DEF Virtual
  <1>7. Abs!OthersKeep
    BY <1>4 DEF Abs!OthersKeep, Virtual
  <1>8. Abs!Spawn(new)
    BY <1>3, <1>4, <1>6, <1>7 DEF Abs!Spawn
  <1>9. QED
    BY <1>3, <1>8 DEF Abs!Next

LEMMA RetireStep ==
  ASSUME IInv, RmUnlink
  PROVE  [Abs!Next]_(Abs!vars)
  <1> USE Names
  <1>1. cpu.pc = "rm_unlink" /\ Caller = cpu
    BY CallerRuns DEF RmUnlink
  <1>2. /\ cpu.rem = cpu.obj /\ cpu.obj \in Tasks \ {Main}
        /\ Deref(cpu.ind) = cpu.rem /\ current_task = Main
        /\ cpu.ind \in Listed \cup {NoTask}
    BY <1>1, CallerRuns DEF IInv, Cursor, Removing
  <1>3. cpu.rem \in Listed /\ current_task \in Listed
    BY <1>2 DEF IInv, ListClosed, Deref
  <1>4. Listed' = Listed \ {cpu.rem} /\ UNCHANGED <<saved, current_task>>
    BY <1>2 DEF RmUnlink, Listed, IInv, Typed
  <1>5. Abs!OthersKeep
    BY <1>4 DEF Abs!OthersKeep, Virtual
  <1>6. Abs!Retire(cpu.rem)
    BY <1>2, <1>3, <1>4, <1>5 DEF Abs!Retire
  <1>7. QED
    BY <1>2, <1>6 DEF Abs!Next

(* Everything else leaves the set of listed tasks and the turn alone.      *)
LEMMA QuietStep ==
  ASSUME IInv, Disciplined,
         \/ SchedInit \/ RegisterHandler \/ Return \/ AddLink \/ RmSearch \/ RmLoad
         \/ RmFree \/ RmCurrent \/ Compute
         \/ \E t \in Tasks : CallAdd(t) \/ CallRemove(t)
  PROVE  [Abs!Next]_(Abs!vars)
  <1> USE Names
  <1>1. CASE SchedInit \/ RegisterHandler \/ Return \/ RmSearch \/ RmLoad \/ Compute
             \/ AddLink \/ \E t \in Tasks : CallRemove(t)
    <2>1. UNCHANGED <<memory, saved, current_task>>
      BY <1>1 DEF SchedInit, RegisterHandler, Return, RmSearch, RmLoad, Compute, AddLink,
                  CallRemove, list
    <2>2. QED
      BY <2>1, OwnStep DEF Listed, Virtual
  <1>2. CASE RmFree
    <2>1. cpu.pc = "rm_free" /\ Caller = cpu
      BY <1>2, CallerRuns DEF RmFree
    <2>2. cpu.rem \in Tasks /\ memory[cpu.rem] = "unlinked"
      BY <2>1 DEF IInv, Cursor, Removing
    <2>3. Listed' = Listed /\ UNCHANGED <<saved, current_task>>
      BY <1>2, <2>2 DEF RmFree, Listed, IInv, Typed
    <2>4. QED
      BY <2>3, OwnStep DEF Virtual
  <1>3. CASE RmCurrent
    <2>1. cpu.pc = "rm_current" /\ Caller = cpu
      BY <1>3, CallerRuns DEF RmCurrent
    <2>2. current_task = Main /\ cpu.obj # Main
      BY <2>1, CallerRuns DEF IInv, Cursor, Removing
    <2>3. UNCHANGED <<memory, saved, current_task>>
      BY <1>3, <2>2 DEF RmCurrent, list
    <2>4. QED
      BY <2>3, OwnStep DEF Listed, Virtual
  <1>4. ASSUME NEW t \in Tasks, CallAdd(t)
        PROVE  [Abs!Next]_(Abs!vars)
    <2>1. memory[t] = "free" /\ t \notin Listed
      BY <1>4 DEF CallAdd, Listed
    <2>2. Listed' = Listed /\ current_task' = current_task
          /\ \A u \in Tasks \ {t} : saved'[u] = saved[u]
      BY <1>4, <2>1 DEF CallAdd, Listed, IInv, Typed
    <2>3. \A u \in Listed \ {current_task} : Virtual(u)' = Virtual(u)
      BY <2>1, <2>2 DEF Virtual, Listed
    <2>4. QED
      BY <2>2, <2>3, OwnStep
  <1>5. QED
    BY <1>1, <1>2, <1>3, <1>4

(* Each task has a processor of its own, as far as it can see.             *)
THEOREM SchedMultiplexes == ASSUME Disciplined PROVE Spec => Multiplexes
  <1>1. Init => Abs!Init
    <2> SUFFICES ASSUME Init PROVE Abs!Init
      OBVIOUS
    <2>2. Listed = {} /\ current_task = NoTask
      BY DEF Init, Listed
    <2>3. QED
      BY <2>2 DEF Abs!Init
  <1>2. IInv /\ [Next]_vars => [Abs!Next]_(Abs!vars)
    <2> SUFFICES ASSUME IInv, [Next]_vars PROVE [Abs!Next]_(Abs!vars)
      OBVIOUS
    <2>2. CASE UNCHANGED vars
      BY <2>2, OwnStep DEF vars, Listed, Virtual
    <2>3. CASE BodyYield \/ TimerInterrupt
      BY <2>3, SwitchStep DEF BodyYield, TimerInterrupt, Interrupted
    <2>4. CASE RmYield
      BY <2>4, SwitchStep DEF RmYield, Interrupted
    <2>5. CASE AddPublish
      BY <2>5, SpawnStep
    <2>6. CASE RmUnlink
      BY <2>6, RetireStep
    <2>7. QED
      BY <2>2, <2>3, <2>4, <2>5, <2>6, QuietStep, LeavesNever DEF Next, InCall
  <1>3. QED
    BY <1>1, <1>2, Invariance, PTL DEF Spec, Multiplexes, Abs!Spec
=============================================================================
