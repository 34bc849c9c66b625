---------------------------- MODULE TaskSwitching ----------------------------
(***************************************************************************)
(* What the scheduler promises its tasks: each live task has a register    *)
(* image of its own that only its own steps change, one task has the turn, *)
(* the turn only goes to live tasks, and a task that is created starts     *)
(* with the registers it was created with.                                 *)
(***************************************************************************)
CONSTANTS Tasks, NoTask, Fresh(_)

VARIABLES live, turn, image

vars == <<live, turn, image>>

Init ==
  /\ live = {}
  /\ turn = NoTask
  /\ image = [t \in {} |-> Fresh(t)]

(* Nobody's image changes but that of the task that has the turn.          *)
OthersKeep ==
  /\ DOMAIN image' = live'
  /\ \A t \in (live \cap live') \ {turn} : image'[t] = image[t]

Step ==
  /\ turn \in live
  /\ OthersKeep
  /\ UNCHANGED <<live, turn>>

Spawn(t) ==
  /\ t \in Tasks \ live
  /\ live' = live \cup {t}
  /\ OthersKeep
  /\ image'[t] = Fresh(t)
  /\ UNCHANGED turn

(* The task that has the turn removes another one.                         *)
Retire(t) ==
  /\ turn \in live
  /\ t \in live \ {turn}
  /\ live' = live \ {t}
  /\ OthersKeep
  /\ UNCHANGED turn

Switch ==
  /\ turn' \in live
  /\ OthersKeep
  /\ UNCHANGED live

Next == Step \/ Switch \/ \E t \in Tasks : Spawn(t) \/ Retire(t)

Spec == Init /\ [][Next]_vars
=============================================================================
