-------------------------------- MODULE Sched --------------------------------
(***************************************************************************)
(* The preemptive round-robin scheduler (kernel/src/proc/sched.c): the     *)
(* singly linked task list, the two functions that edit it, the handler of *)
(* vector 32 that saves one task and resumes another, and the boot flow    *)
(* that starts it.                                                         *)
(*                                                                         *)
(* One step is one access to shared memory, or one stretch of code with    *)
(* interrupts off.  What the processor holds is `cpu`; the timer interrupt *)
(* may come between any two steps that run with the interrupt flag set.    *)
(* The handler itself runs behind an interrupt gate, so it is one step.    *)
(***************************************************************************)
EXTENDS Integers, Sequences, FiniteSets

CONSTANTS
  Tasks,      \* the task structures, each with a callback of its own
  Main,       \* the structure that sched_init is given
  Managers,   \* the tasks whose callback calls the scheduler
  MayRemove,  \* <<caller, victim>>: the removals a callback asks for
  RegValues,  \* 0 .. RegValues-1: what a working register can hold
  Boot,       \* the flow of _start, which is no task
  NoTask      \* nullptr; as a link location, &task_list

ASSUME TasksAssumption ==
  /\ Main \in Tasks /\ IsFiniteSet(Tasks)
  /\ Managers \subseteq Tasks
  /\ MayRemove \subseteq Managers \X Tasks
  /\ RegValues \in Nat \ {0}
  /\ Boot \notin Tasks
  /\ NoTask \notin Tasks \cup {Boot}

VARIABLES
  task_list,     \* the first structure of the list
  next,          \* the link field of each structure
  state,         \* its state field; only two values are ever assigned
  saved,         \* its saved registers: eip, eflags, cr3 and the general ones
  memory,        \* what its memory is: unallocated, built, in the list, ...
  current_task,
  cpu,           \* the registers of the processor
  stack,         \* the one stack in use: the callers to return to
  timerOn        \* the handler of vector 32 is registered

list == <<task_list, next, memory>>
vars == <<task_list, next, state, saved, memory, current_task, cpu, stack, timerOn>>

MaybeTask == Tasks \cup {NoTask}

(***************************************************************************)
(* A register image.  flow names the code that eip points into and pc the  *)
(* place there; acc is a register the callback computes with; obj, ind,    *)
(* rem and nxt are the registers that hold new_task or pid, indirect,      *)
(* removed, and a link or the head between its load and its store.         *)
(***************************************************************************)
PCs == {"body", "sched_init", "register", "idle", "add_link", "add_publish",
        "rm_search", "rm_load", "rm_unlink", "rm_free", "rm_current",
        "rm_head", "rm_store", "rm_yield", "ret"}

Image == [flow : Tasks \cup {Boot}, cr3 : Tasks \cup {Boot}, intr : BOOLEAN,
          pc : PCs, acc : 0 .. RegValues - 1,
          obj : MaybeTask, ind : MaybeTask, rem : MaybeTask, nxt : MaybeTask]

(* The registers task_create gives a task: eflags 0x202 has the interrupt  *)
(* flag set, and each task is created with an address space of its own.    *)
Fresh(t) ==
  [flow |-> t, cr3 |-> t, intr |-> TRUE, pc |-> "body", acc |-> 0,
   obj |-> NoTask, ind |-> NoTask, rem |-> NoTask, nxt |-> NoTask]

Init ==
  /\ task_list = NoTask
  /\ next = [t \in Tasks |-> NoTask]
  /\ state = [t \in Tasks |-> "READY"]
  /\ saved = [t \in Tasks |-> Fresh(t)]
  /\ memory = [t \in Tasks |-> IF t = Main THEN "built" ELSE "free"]
  /\ current_task = NoTask
  /\ cpu = [Fresh(Boot) EXCEPT !.pc = "sched_init"]
  /\ stack = <<>>
  /\ timerOn = FALSE

-----------------------------------------------------------------------------
(* The links.                                                              *)

Deref(loc) == IF loc = NoTask THEN task_list ELSE next[loc]

After(t) == IF next[t] = NoTask THEN task_list ELSE next[t]

(* Mutant: every slice restarts at the head of the list.                   *)
schedule_FromHead(st) == task_list

(***************************************************************************)
(* schedule(), with st the states it reads: the first ready task from the  *)
(* one after current_task on, around the list; the walk ends at the end of *)
(* an empty list or back at current_task.                                  *)
(***************************************************************************)
Walk(start, st) ==
  LET nth[k \in 0 .. Cardinality(Tasks)] ==
        IF k = 0 THEN start
        ELSE IF nth[k - 1] = NoTask THEN NoTask ELSE After(nth[k - 1])
      Ends(k) == \/ nth[k] = NoTask
                 \/ st[nth[k]] = "READY"
                 \/ k > 0 /\ nth[k] = current_task
  IN nth[CHOOSE k \in 0 .. Cardinality(Tasks) :
           Ends(k) /\ \A j \in 0 .. k - 1 : ~ Ends(j)]

schedule(st) ==
  LET start == IF current_task = NoTask THEN task_list ELSE After(current_task)
      found == IF start = NoTask THEN NoTask
               ELSE IF st[start] = "READY" THEN start ELSE Walk(start, st)
  IN IF found = NoTask THEN current_task ELSE found

(* Mutant: one general register is left out of the save.                   *)
timer_interrupt_handler_LosesEdi(regs) ==
  LET c == current_task
      kept == IF c = NoTask THEN saved
              ELSE [saved EXCEPT ![c] = [regs EXCEPT !.acc = saved[c].acc]]
      chosen == schedule([t \in Tasks |-> "READY"])
  IN /\ saved' = kept
     /\ current_task' = chosen
     /\ cpu' = IF chosen = NoTask THEN regs ELSE kept[chosen]
     /\ UNCHANGED <<list, state, stack, timerOn>>

(***************************************************************************)
(* timer_interrupt_handler() on the interrupted registers regs.  esp is    *)
(* stored and written back into the frame like the rest, but popa ignores  *)
(* that slot (isr.asm), so stack is the same before and after.             *)
(***************************************************************************)
timer_interrupt_handler(regs) ==
  LET kept == IF current_task = NoTask THEN saved
              ELSE [saved EXCEPT ![current_task] = regs]
      st == IF current_task = NoTask THEN state
            ELSE [state EXCEPT ![current_task] = "READY"]
      chosen == schedule(st)
  IN /\ saved' = kept
     /\ current_task' = chosen
     /\ state' = IF chosen = NoTask THEN st ELSE [st EXCEPT ![chosen] = "RUNNING"]
     /\ cpu' = IF chosen = NoTask THEN regs ELSE kept[chosen]
     /\ UNCHANGED <<list, stack, timerOn>>

(* IRQ 0, delivered only while the interrupt flag is set.                  *)
TimerInterrupt == timerOn /\ cpu.intr /\ timer_interrupt_handler(cpu)

(* A callback gives up the processor with int 0x20.                        *)
BodyYield == cpu.pc = "body" /\ timerOn /\ timer_interrupt_handler(cpu)

-----------------------------------------------------------------------------
(* Calls push the caller, and a return continues after the call of         *)
(* whichever flow is on top of the stack.                                  *)

Goto(label) == cpu' = [cpu EXCEPT !.pc = label]

Return ==
  /\ cpu.pc = "ret"
  /\ stack # <<>>
  /\ stack' = Tail(stack)
  /\ cpu' = [Fresh(Head(stack)) EXCEPT
               !.cr3 = cpu.cr3, !.acc = cpu.acc,
               !.pc = IF Head(stack) = Boot THEN "register" ELSE "body"]
  /\ UNCHANGED <<list, state, saved, current_task, timerOn>>

(* sched_init(): sti, sched_add_task(callback_task), then the handler.     *)
SchedInit ==
  /\ cpu.pc = "sched_init"
  /\ cpu' = [cpu EXCEPT !.intr = TRUE, !.pc = "add_link", !.obj = Main]
  /\ stack' = <<cpu.flow>> \o stack
  /\ UNCHANGED <<list, state, saved, current_task, timerOn>>

RegisterHandler ==
  /\ cpu.pc = "register"
  /\ timerOn' = TRUE
  /\ Goto("idle")
  /\ UNCHANGED <<list, state, saved, current_task, stack>>

(* The callback's own work.                                                *)
Compute ==
  /\ cpu.pc = "body"
  /\ cpu' = [cpu EXCEPT !.acc = (@ + 1) % RegValues]
  /\ UNCHANGED <<list, state, saved, current_task, stack, timerOn>>

-----------------------------------------------------------------------------
(* Mutant: task_create leaves the registers of the memory it reuses.       *)
CallAdd_Stale(t) ==
  /\ cpu.pc = "body"
  /\ cpu.flow \in Managers
  /\ memory[t] = "free"
  /\ memory' = [memory EXCEPT ![t] = "built"]
  /\ cpu' = [cpu EXCEPT !.pc = "add_link", !.obj = t]
  /\ stack' = <<cpu.flow>> \o stack
  /\ UNCHANGED <<task_list, next, state, saved, current_task, timerOn>>

(* sched_add_task(), on a structure task_create has just built.            *)

CallAdd(t) ==
  /\ cpu.pc = "body"
  /\ cpu.flow \in Managers
  /\ memory[t] = "free"
  /\ memory' = [memory EXCEPT ![t] = "built"]
  /\ next' = [next EXCEPT ![t] = NoTask]
  /\ state' = [state EXCEPT ![t] = "READY"]
  /\ saved' = [saved EXCEPT ![t] = Fresh(t)]
  /\ cpu' = [cpu EXCEPT !.pc = "add_link", !.obj = t]
  /\ stack' = <<cpu.flow>> \o stack
  /\ UNCHANGED <<task_list, current_task, timerOn>>

(* Mutant: the new task does not link to the old head.                     *)
AddLink_Detached ==
  /\ cpu.pc = "add_link"
  /\ cpu' = [cpu EXCEPT !.intr = FALSE, !.pc = "add_publish"]
  /\ UNCHANGED <<list, state, saved, current_task, stack, timerOn>>

AddLink ==
  /\ cpu.pc = "add_link"
  /\ next' = [next EXCEPT ![cpu.obj] = task_list]
  /\ cpu' = [cpu EXCEPT !.intr = FALSE, !.pc = "add_publish"]
  /\ UNCHANGED <<task_list, memory, state, saved, current_task, stack, timerOn>>

AddPublish ==
  /\ cpu.pc = "add_publish"
  /\ task_list' = cpu.obj
  /\ memory' = [memory EXCEPT ![cpu.obj] = "listed"]
  /\ cpu' = [cpu EXCEPT !.intr = TRUE, !.pc = "ret"]
  /\ UNCHANGED <<next, state, saved, current_task, stack, timerOn>>

-----------------------------------------------------------------------------
(* sched_remove_task(), which runs with interrupts on.                     *)

CallRemove(t) ==
  /\ cpu.pc = "body"
  /\ <<cpu.flow, t>> \in MayRemove
  /\ cpu' = [cpu EXCEPT !.pc = "rm_search", !.obj = t, !.ind = NoTask]
  /\ stack' = <<cpu.flow>> \o stack
  /\ UNCHANGED <<list, state, saved, current_task, timerOn>>

(* Mutant: the search is not asked whether it has found anything.          *)
RmSearch_Unchecked ==
  LET t == Deref(cpu.ind)
  IN /\ cpu.pc = "rm_search"
     /\ cpu' = IF t \in {cpu.obj, NoTask} THEN [cpu EXCEPT !.pc = "rm_load", !.rem = t]
               ELSE [cpu EXCEPT !.ind = t]
     /\ UNCHANGED <<list, state, saved, current_task, stack, timerOn>>

(* Mutant: indirect is not advanced.                                       *)
RmSearch_Stuck ==
  /\ cpu.pc = "rm_search"
  /\ cpu' = IF Deref(cpu.ind) = NoTask THEN [cpu EXCEPT !.pc = "rm_current"]
            ELSE IF Deref(cpu.ind) = cpu.obj
            THEN [cpu EXCEPT !.pc = "rm_load", !.rem = cpu.obj] ELSE cpu
  /\ UNCHANGED <<list, state, saved, current_task, stack, timerOn>>

RmSearch ==
  LET t == Deref(cpu.ind)
  IN /\ cpu.pc = "rm_search"
     /\ \/ t = NoTask /\ Goto("rm_current")
        \/ t = cpu.obj /\ t # NoTask
           /\ cpu' = [cpu EXCEPT !.pc = "rm_load", !.rem = t]
        \/ t \notin {cpu.obj, NoTask} /\ cpu' = [cpu EXCEPT !.ind = t]
     /\ UNCHANGED <<list, state, saved, current_task, stack, timerOn>>

RmLoad ==
  /\ cpu.pc = "rm_load"
  /\ cpu' = [cpu EXCEPT !.pc = "rm_unlink", !.nxt = next[cpu.rem]]
  /\ UNCHANGED <<list, state, saved, current_task, stack, timerOn>>

(* Mutant: the task is freed but stays linked.                             *)
RmUnlink_Forgotten ==
  /\ cpu.pc = "rm_unlink"
  /\ memory' = [memory EXCEPT ![cpu.rem] = "unlinked"]
  /\ Goto("rm_free")
  /\ UNCHANGED <<task_list, next, state, saved, current_task, stack, timerOn>>

RmUnlink ==
  /\ cpu.pc = "rm_unlink"
  /\ IF cpu.ind = NoTask
     THEN task_list' = cpu.nxt /\ UNCHANGED next
     ELSE next' = [next EXCEPT ![cpu.ind] = cpu.nxt] /\ UNCHANGED task_list
  /\ memory' = [memory EXCEPT ![cpu.rem] = "unlinked"]
  /\ Goto("rm_free")
  /\ UNCHANGED <<state, saved, current_task, stack, timerOn>>

(* kfree() returns with interrupts on and leaves the contents as they are; *)
(* the first task's structure is a local of _start, which it refuses.      *)
RmFree ==
  /\ cpu.pc = "rm_free"
  /\ memory' = [memory EXCEPT ![cpu.rem] = IF cpu.rem = Main THEN @ ELSE "free"]
  /\ cpu' = [cpu EXCEPT !.intr = TRUE, !.pc = "rm_current"]
  /\ UNCHANGED <<task_list, next, state, saved, current_task, stack, timerOn>>

(* Mutant: current_task moves whichever task was removed.                  *)
RmCurrent_Always ==
  /\ cpu.pc = "rm_current"
  /\ Goto("rm_head")
  /\ UNCHANGED <<list, state, saved, current_task, stack, timerOn>>

(* Mutant: a task that removes itself is forgotten.                        *)
RmCurrent_Never ==
  /\ cpu.pc = "rm_current"
  /\ Goto("rm_yield")
  /\ UNCHANGED <<list, state, saved, current_task, stack, timerOn>>

(* current_task->pid == pid: the test, then the load of task_list and the  *)
(* store to current_task, all with interrupts on.                          *)
RmCurrent ==
  /\ cpu.pc = "rm_current"
  /\ Goto(IF current_task = cpu.obj THEN "rm_head" ELSE "rm_yield")
  /\ UNCHANGED <<list, state, saved, current_task, stack, timerOn>>

RmHead ==
  /\ cpu.pc = "rm_head"
  /\ cpu' = [cpu EXCEPT !.pc = "rm_store", !.nxt = task_list]
  /\ UNCHANGED <<list, state, saved, current_task, stack, timerOn>>

RmStore ==
  /\ cpu.pc = "rm_store"
  /\ current_task' = cpu.nxt
  /\ Goto("rm_yield")
  /\ UNCHANGED <<list, state, saved, stack, timerOn>>

RmYield ==
  /\ cpu.pc = "rm_yield"
  /\ timer_interrupt_handler([cpu EXCEPT !.pc = "ret"])

-----------------------------------------------------------------------------
(* The steps of a flow that is inside a scheduler function, or booting.    *)
InCall ==
  \/ SchedInit \/ RegisterHandler \/ Return
  \/ AddLink \/ AddPublish
  \/ RmSearch \/ RmLoad \/ RmUnlink \/ RmFree
  \/ RmCurrent \/ RmHead \/ RmStore \/ RmYield

Next ==
  \/ InCall
  \/ Compute
  \/ BodyYield
  \/ TimerInterrupt
  \/ \E t \in Tasks : CallAdd(t) \/ CallRemove(t)

Spec == Init /\ [][Next]_vars

(***************************************************************************)
(* A time slice is longer than an instruction, so a flow that is resumed   *)
(* again and again inside a scheduler function executes its next step      *)
(* (strong fairness: the timer takes the processor away in between).  The  *)
(* 8259 latches a request that comes while interrupts are off and delivers *)
(* it when they are on again, so the handler runs although cli sections    *)
(* disable it again and again (strong fairness).  A callback owes nobody a *)
(* call.                                                                   *)
(***************************************************************************)
FairSpec ==
  /\ Spec
  /\ \A f \in Tasks \cup {Boot} : SF_vars(cpu.flow = f /\ InCall)
  /\ SF_vars(TimerInterrupt)

-----------------------------------------------------------------------------
(* Properties.                                                             *)

Listed == {t \in Tasks : memory[t] = "listed"}

Typed ==
  /\ task_list \in MaybeTask
  /\ next \in [Tasks -> MaybeTask]
  /\ state \in [Tasks -> {"READY", "RUNNING"}]
  /\ saved \in [Tasks -> Image]
  /\ memory \in [Tasks -> {"free", "built", "listed", "unlinked"}]
  /\ current_task \in MaybeTask
  /\ cpu \in Image
  /\ stack \in Seq(Tasks \cup {Boot})
  /\ timerOn \in BOOLEAN

(* The type invariant: the fields keep their types, and a removal that     *)
(* goes on to unlink something has found it (removed is no null pointer).  *)
TypeOK ==
  /\ Typed
  /\ cpu.pc \in {"rm_load", "rm_unlink", "rm_free"} => cpu.rem \in Tasks

(* Whatever the handler follows, at any point of an insertion or a removal *)
(* it interrupts, is a structure still in the list: the head, the link of  *)
(* every listed task and current_task never lead to freed memory.          *)
ListClosed ==
  /\ task_list \in Listed \cup {NoTask}
  /\ \A t \in Listed : next[t] \in Listed \cup {NoTask}
  /\ current_task \in Listed \cup {NoTask}

(* The structures a walk from task_list meets, and that it ends.           *)
Chain ==
  LET nth[k \in 0 .. Cardinality(Tasks)] ==
        IF k = 0 THEN task_list
        ELSE IF nth[k - 1] = NoTask THEN NoTask ELSE next[nth[k - 1]]
  IN nth

(* No insertion or removal loses a task that is still to be scheduled, and *)
(* the list is never circular.                                             *)
NoTaskLost ==
  /\ Listed = {Chain[k] : k \in DOMAIN Chain} \ {NoTask}
  /\ Chain[Cardinality(Tasks)] = NoTask

(* current_task leads to a structure that is not in the list only while    *)
(* that very task is on the processor, between unlinking itself and        *)
(* moving current_task to the head: a timer interrupt in between leaves it *)
(* for good, and the handler never saves into a removed task otherwise.    *)
StrayOnlyLeaving ==
  \/ current_task \in Listed \cup {NoTask}
  \/ /\ cpu.obj = current_task
     /\ cpu.pc \in {"rm_free", "rm_current", "rm_head", "rm_store"}

(* Preemption never mixes two tasks: the registers and the address space   *)
(* on the processor are those of current_task, and those saved in a task's *)
(* structure are that task's.                                              *)
ContextIntegrity ==
  /\ current_task # NoTask => cpu.flow = current_task /\ cpu.cr3 = current_task
  /\ \A t \in Listed \ {current_task} : saved[t].flow = t /\ saved[t].cr3 = t

(* Exactly the task on the processor is marked running.                    *)
OneRunning == \A t \in Listed : state[t] = "RUNNING" <=> t = current_task

(* "Process Creation and Destruction": a task whose removal is done never  *)
(* executes again.                                                         *)
RunsListedTask ==
  cpu.flow \in Tasks /\ cpu.pc \in {"body", "ret"} => cpu.flow \in Listed

(* "Context Switching": a function returns to the flow that called it,     *)
(* whatever ran in between.                                                *)
ReturnsToCaller ==
  cpu.pc = "ret" => stack # <<>> /\ Head(stack) = cpu.flow

(* The registers of a task as the task sees them, running or not.          *)
Virtual(t) == IF t = current_task THEN cpu ELSE saved[t]

(* A timer interrupt is invisible to every task: none finds a register,    *)
(* its place in the code or its interrupt flag changed by it.              *)
PreemptionTransparent ==
  [][TimerInterrupt => \A t \in Listed : Virtual(t)' = Virtual(t)]_vars

(* Round robin starves nobody: a task in the list runs, or is removed,     *)
(* however many tasks are inserted and removed meanwhile.                  *)
NoStarvation ==
  \A t \in Tasks : t \in Listed ~> (current_task = t \/ t \notin Listed)

(* sched_remove_task comes to its end although it is preempted anywhere.   *)
RemovalReturns ==
  \A m \in Managers : Virtual(m).pc = "rm_search" ~> Virtual(m).pc = "body"

(* The tasks see a processor of their own each (TaskSwitching).            *)
Abs == INSTANCE TaskSwitching WITH
         live <- Listed,
         turn <- current_task,
         image <- [t \in Listed |-> Virtual(t)]

Multiplexes == Abs!Spec
=============================================================================
