------------------------------ MODULE TaskView ------------------------------
(***************************************************************************)
(* What the table promises its user: once connected it shows the set of    *)
(* tasks the service had at some moment, it goes through these sets in the *)
(* order the service did, and it skips none, so that it shows the present  *)
(* set as soon as nothing is on its way.                                   *)
(***************************************************************************)
EXTENDS Integers, Sequences

CONSTANT Tasks      \* the tasks the service may have

VARIABLES
    connected,      \* whether the service has sent its tasks
    tasks,          \* the tasks the service has
    shown,          \* the tasks the table shows
    coming          \* the sets of tasks on their way to the table, oldest first

viewVars == <<connected, tasks, shown, coming>>

Init ==
    /\ connected = FALSE
    /\ tasks \in SUBSET Tasks
    /\ shown = {}
    /\ coming = <<>>

Connect ==
    /\ ~connected
    /\ connected' = TRUE
    /\ coming' = <<tasks>>
    /\ UNCHANGED <<tasks, shown>>

\* The service gains or loses one task.
Change ==
    /\ \E t \in Tasks : tasks' \in {tasks \cup {t}, tasks \ {t}} \ {tasks}
    /\ coming' = IF connected THEN Append(coming, tasks') ELSE coming
    /\ UNCHANGED <<connected, shown>>

Show ==
    /\ coming # <<>>
    /\ shown' = Head(coming)
    /\ coming' = Tail(coming)
    /\ UNCHANGED <<connected, tasks>>

Next == Connect \/ Change \/ Show

Spec == Init /\ [][Next]_viewVars

\* With nothing on its way the table shows what the service has.
CaughtUp == connected /\ coming = <<>> => shown = tasks
=============================================================================
