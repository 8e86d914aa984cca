------------------------------ MODULE WorkPool ------------------------------
(***************************************************************************)
(* What SceneUtil::WorkQueue promises its users (the comments of           *)
(* components/sceneutil/workqueue.hpp): items are started in the order of  *)
(* the queue, each once, and are done when their work is; an item that has *)
(* not been started when the queue is destroyed never is.                  *)
(***************************************************************************)
EXTENDS Sequences

CONSTANT Items

VARIABLES
    queue,          \* items waiting, in the order they will be started
    running,        \* items being worked on
    done,           \* items whose work is complete
    destroyed,      \* the queue takes no more items
    inline          \* items are worked on where they are added

poolVars == <<queue, running, done, destroyed, inline>>

Waiting == {queue[n] : n \in DOMAIN queue}
Known == Waiting \cup running \cup done

Init ==
    /\ queue = <<>>
    /\ running = {} /\ done = {}
    /\ destroyed = FALSE
    /\ inline \in BOOLEAN

(* Without threads an item is worked on where it is added.                 *)
Add(i) ==
    /\ i \notin Known /\ ~destroyed
    /\ IF inline
       THEN running' = running \cup {i} /\ UNCHANGED queue
       ELSE /\ queue' = Append(queue, i) \/ queue' = <<i>> \o queue
            /\ UNCHANGED running
    /\ UNCHANGED <<done, destroyed, inline>>

Begin ==
    /\ queue # <<>>
    /\ queue' = Tail(queue)
    /\ running' = running \cup {Head(queue)}
    /\ UNCHANGED <<done, destroyed, inline>>

Complete(i) ==
    /\ i \in running
    /\ running' = running \ {i}
    /\ done' = done \cup {i}
    /\ UNCHANGED <<queue, destroyed, inline>>

Destroy ==
    /\ ~destroyed
    /\ queue' = <<>>
    /\ destroyed' = TRUE
    /\ UNCHANGED <<running, done, inline>>

Next ==
    \/ \E i \in Items : Add(i) \/ Complete(i)
    \/ Begin
    \/ Destroy

Spec == Init /\ [][Next]_poolVars
=============================================================================
