---------------------------- MODULE BridgeQueue ----------------------------
(***************************************************************************)
(* What the message queue of JausBridge promises, told without mutex,      *)
(* condition variable or wake-ups: messages wait in the order they were    *)
(* posted and the service thread takes them one at a time until the bridge *)
(* is stopped; then the thread ends. A message that waits in a bridge that *)
(* is not stopped is taken in the end, and a stop ends the thread.         *)
(***************************************************************************)
EXTENDS Naturals, Sequences

CONSTANT Items

VARIABLES
    waiting,   \* the messages that were posted and not taken, oldest first
    running,   \* the bridge was started and not stopped
    consumer   \* the service thread: none, on or ended

vars == <<waiting, running, consumer>>

Init ==
    /\ waiting = <<>>
    /\ running = FALSE
    /\ consumer = "none"

Start ==
    /\ consumer = "none"
    /\ running' = TRUE
    /\ consumer' = "on"
    /\ UNCHANGED waiting

\* callbacks may post before the start and after the stop as well
Post(item) ==
    /\ waiting' = Append(waiting, item)
    /\ UNCHANGED <<running, consumer>>

Take ==
    /\ running
    /\ consumer = "on"
    /\ waiting # <<>>
    /\ waiting' = Tail(waiting)
    /\ UNCHANGED <<running, consumer>>

Stop ==
    /\ running
    /\ running' = FALSE
    /\ UNCHANGED <<waiting, consumer>>

End ==
    /\ ~running
    /\ consumer = "on"
    /\ consumer' = "ended"
    /\ UNCHANGED <<waiting, running>>

Next ==
    \/ Start
    \/ \E item \in Items : Post(item)
    \/ Take
    \/ Stop
    \/ End

Spec == Init /\ [][Next]_vars

FairSpec == Spec /\ WF_vars(Take) /\ WF_vars(End)

=============================================================================
