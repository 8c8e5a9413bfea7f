---------------------------- MODULE AgentThreads ----------------------------
(***************************************************************************)
(* The threads of the agent process, the queue of JausBridge between them  *)
(* at the grain of its mutex and condition variable, and the life of the   *)
(* objects they share: what main makes before it starts the others, and in *)
(* which order main and the static destructors take it all down again.     *)
(*                                                                         *)
(*   Main      main(): construction, then the io loop, which posts         *)
(*             joystick reports, then the exit                             *)
(*   Service   JausBridge::serviceLoop                                     *)
(*   OpenJAUS  the threads of the JAUS component, which run the callbacks  *)
(*                                                                         *)
(* A thread takes the mutex in one step and does what it guards in the     *)
(* next; the wait evaluates its predicate, releases the mutex and sleeps,  *)
(* and is woken by a notification or spuriously. Handlers are one step.    *)
(***************************************************************************)
EXTENDS Naturals, Sequences, FiniteSets

CONSTANTS
    Main, Service,  \* the two threads of the agent
    OpenJAUS,       \* the threads of the JAUS component
    Free,           \* owner of a mutex nobody holds
    MaxQueue        \* bound: messages waiting in the queue

ASSUME ThreadsAssumption ==
    /\ IsFiniteSet(OpenJAUS)
    /\ Main # Service
    /\ Main \notin OpenJAUS
    /\ Service \notin OpenJAUS
    /\ Free \notin OpenJAUS \cup {Main, Service}
ASSUME QueueAssumption == MaxQueue \in Nat \ {0}

VARIABLES
    at,          \* where each thread is
    inputQueue,  \* JausBridge::inputQueue, by kind of message
    queueMutex,  \* owner of JausBridge::queueMutex
    running,     \* JausBridge::running
    live         \* the shared objects that exist

vars == <<at, inputQueue, queueMutex, running, live>>

Posters == {Main} \cup OpenJAUS
Threads == {Main, Service} \cup OpenJAUS

Kinds   == {"JoystickInput", "JAUSResponse"}
Kind(t) == IF t = Main THEN "JoystickInput" ELSE "JAUSResponse"

\* jausBridge stands for the members the threads share: queue, mutex,
\* condition variable
Objects == {"ioService", "jausBridge", "uartCoapBridge"}

Starting  == {"makeJausBridge", "makeUartCoapBridge", "startServiceLoop",
              "initializeJAUS", "setRunning", "spawn"}
Posting   == {"lock", "push", "notify"}
Stopping  == {"stopServiceLoop", "clearRunning", "notifyAll", "join",
              "destroyQueue", "destroyClient"}
Exiting   == {"exit", "statics", "exited"} \cup Stopping
Consuming == {"while", "relock", "predicate", "sleep", "asleep", "pop",
              "handle"}

MainLabels     == Starting \cup {"idle"} \cup Posting \cup Exiting
ServiceLabels  == {"none"} \cup Consuming \cup {"ended"}
CallbackLabels == {"none", "idle"} \cup Posting

Init ==
    /\ at = [t \in Threads |-> IF t = Main THEN "makeJausBridge" ELSE "none"]
    /\ inputQueue = <<>>
    /\ queueMutex = Free
    /\ running = FALSE
    /\ live = {"ioService"}

-----------------------------------------------------------------------------
(* Steps of one thread *)

Goes(t, from, to) ==
    /\ at[t] = from
    /\ at' = [at EXCEPT ![t] = to]

Acquires(t) ==
    /\ queueMutex = Free
    /\ queueMutex' = t

Releases(t) == queueMutex' = Free

\* a notification wakes the one thread that can wait; without a waiter it
\* has no effect
Notifies(t, from, to) ==
    /\ at[t] = from
    /\ at' = [at EXCEPT
                 ![t] = to,
                 ![Service] = IF @ = "asleep" THEN "relock" ELSE @]

-----------------------------------------------------------------------------
(* Main: construction *)

makeJausBridge ==
    /\ Goes(Main, "makeJausBridge", "makeUartCoapBridge")
    /\ live' = live \cup {"jausBridge"}
    /\ UNCHANGED <<inputQueue, queueMutex, running>>

\* mutant: the service loop is started before the serial side exists
makeUartCoapBridge_Later ==
    /\ Goes(Main, "makeUartCoapBridge", "startServiceLoop")
    /\ UNCHANGED <<inputQueue, queueMutex, running, live>>

\* the constructor may throw, for one because the serial port is missing
makeUartCoapBridge ==
    /\ \/ /\ Goes(Main, "makeUartCoapBridge", "startServiceLoop")
          /\ live' = live \cup {"uartCoapBridge"}
       \/ /\ Goes(Main, "makeUartCoapBridge", "exit")
          /\ UNCHANGED live
    /\ UNCHANGED <<inputQueue, queueMutex, running>>

\* the requests to the joystick and the first state
startServiceLoop ==
    /\ Goes(Main, "startServiceLoop", "initializeJAUS")
    /\ UNCHANGED <<inputQueue, queueMutex, running, live>>

\* from here on callbacks may post, before there is a service thread
initializeJAUS ==
    /\ at[Main] = "initializeJAUS"
    /\ at' = [t \in Threads |-> IF t \in OpenJAUS THEN "idle"
                                ELSE IF t = Main THEN "setRunning" ELSE at[t]]
    /\ UNCHANGED <<inputQueue, queueMutex, running, live>>

setRunning ==
    /\ Goes(Main, "setRunning", "spawn")
    /\ running' = TRUE
    /\ UNCHANGED <<inputQueue, queueMutex, live>>

spawn ==
    /\ at[Main] = "spawn"
    /\ at' = [at EXCEPT ![Main] = "idle", ![Service] = "while"]
    /\ UNCHANGED <<inputQueue, queueMutex, running, live>>

-----------------------------------------------------------------------------
(* The threads that post: postInput in Main, postJAUSResponse in OpenJAUS *)

InSection == {t \in Posters : at[t] \in {"lock", "push"}}
HasRoom   == Len(inputQueue) + Cardinality(InSection) < MaxQueue

\* the members of the bridge are there; beyond its end nothing is defined
Usable == "jausBridge" \in live

\* a report or a callback that posts
post(t) ==
    /\ HasRoom
    /\ Goes(t, "idle", "lock")
    /\ UNCHANGED <<inputQueue, queueMutex, running, live>>

\* a report that pauses or releases the pause notifies without a message
postPaused ==
    /\ Goes(Main, "idle", "notify")
    /\ UNCHANGED <<inputQueue, queueMutex, running, live>>

lock(t) ==
    /\ Usable
    /\ Goes(t, "lock", "push")
    /\ Acquires(t)
    /\ UNCHANGED <<inputQueue, running, live>>

\* mutant: the message is pushed and nobody is told
push_NoNotify(t) ==
    /\ Goes(t, "push", "idle")
    /\ inputQueue' = Append(inputQueue, Kind(t))
    /\ Releases(t)
    /\ UNCHANGED <<running, live>>

\* mutant: a message is pushed again
push_Twice(t) ==
    /\ Goes(t, "push", "notify")
    /\ inputQueue' = inputQueue \o <<Kind(t), Kind(t)>>
    /\ Releases(t)
    /\ UNCHANGED <<running, live>>

push(t) ==
    /\ Goes(t, "push", "notify")
    /\ inputQueue' = Append(inputQueue, Kind(t))
    /\ Releases(t)
    /\ UNCHANGED <<running, live>>

notify(t) ==
    /\ Usable
    /\ Notifies(t, "notify", "idle")
    /\ UNCHANGED <<inputQueue, queueMutex, running, live>>

-----------------------------------------------------------------------------
(* Service: serviceLoop *)

\* the condition of the while loop reads running without the mutex
testRunning ==
    /\ \/ running /\ Goes(Service, "while", "relock")
       \/ ~running /\ Goes(Service, "while", "ended")
    /\ UNCHANGED <<inputQueue, queueMutex, running, live>>

relock ==
    /\ Goes(Service, "relock", "predicate")
    /\ Acquires(Service)
    /\ UNCHANGED <<inputQueue, running, live>>

WaitIsOver == inputQueue # <<>> \/ ~running

predicate ==
    /\ \/ WaitIsOver /\ Goes(Service, "predicate", "pop")
       \/ ~WaitIsOver /\ Goes(Service, "predicate", "sleep")
    /\ UNCHANGED <<inputQueue, queueMutex, running, live>>

\* releasing the mutex and starting to wait are one step, as the standard
\* says of condition_variable::wait
sleep ==
    /\ Goes(Service, "sleep", "asleep")
    /\ Releases(Service)
    /\ UNCHANGED <<inputQueue, running, live>>

wakeSpuriously ==
    /\ Goes(Service, "asleep", "relock")
    /\ UNCHANGED <<inputQueue, queueMutex, running, live>>

pop ==
    /\ \/ /\ running
          /\ Goes(Service, "pop", "handle")
          /\ inputQueue' = Tail(inputQueue)
       \/ /\ ~running
          /\ Goes(Service, "pop", "ended")
          /\ UNCHANGED inputQueue
    /\ Releases(Service)
    /\ UNCHANGED <<running, live>>

\* handleInput or handleResponse of the active state, which shows texts and
\* vibrates through the serial side; it is taken to return, also at the exit,
\* when what it uses may be gone
handle ==
    /\ Goes(Service, "handle", "while")
    /\ UNCHANGED <<inputQueue, queueMutex, running, live>>

-----------------------------------------------------------------------------
(* Main: the exit. An exception leaves the io loop; main returns, which      *)
(* destroys ioService, and the static singletons follow in an order that the *)
(* language leaves open between two source files.                            *)

ioServiceThrows ==
    /\ Goes(Main, "idle", "exit")
    /\ UNCHANGED <<inputQueue, queueMutex, running, live>>

returnFromMain ==
    /\ Goes(Main, "exit", "statics")
    /\ live' = live \ {"ioService"}
    /\ UNCHANGED <<inputQueue, queueMutex, running>>

destroyUartCoapBridge ==
    /\ at[Main] = "statics"
    /\ "uartCoapBridge" \in live
    /\ live' = live \ {"uartCoapBridge"}
    /\ UNCHANGED <<at, inputQueue, queueMutex, running>>

destroyJausBridge ==
    /\ "jausBridge" \in live
    /\ Goes(Main, "statics", "stopServiceLoop")
    /\ UNCHANGED <<inputQueue, queueMutex, running, live>>

\* mutant: running is cleared without the mutex
stopServiceLoop_NoLock ==
    /\ Goes(Main, "stopServiceLoop", "notifyAll")
    /\ running' = FALSE
    /\ UNCHANGED <<inputQueue, queueMutex, live>>

stopServiceLoop ==
    /\ Goes(Main, "stopServiceLoop", "clearRunning")
    /\ Acquires(Main)
    /\ UNCHANGED <<inputQueue, running, live>>

clearRunning ==
    /\ Goes(Main, "clearRunning", "notifyAll")
    /\ running' = FALSE
    /\ Releases(Main)
    /\ UNCHANGED <<inputQueue, live>>

\* mutant: stopServiceLoop notifies nobody
notifyAll_Missing ==
    /\ Goes(Main, "notifyAll", "join")
    /\ UNCHANGED <<inputQueue, queueMutex, running, live>>

notifyAll ==
    /\ Notifies(Main, "notifyAll", "join")
    /\ UNCHANGED <<inputQueue, queueMutex, running, live>>

\* mutant: the thread is detached instead of joined
join_Detached ==
    /\ Goes(Main, "join", "destroyQueue")
    /\ UNCHANGED <<inputQueue, queueMutex, running, live>>

\* a thread that was never started is not joinable
join ==
    /\ at[Service] \in {"none", "ended"}
    /\ Goes(Main, "join", "destroyQueue")
    /\ UNCHANGED <<inputQueue, queueMutex, running, live>>

\* the members of JausBridge go in reverse order of declaration: queueCV,
\* queueMutex and inputQueue before jausClient
destroyQueue ==
    /\ Goes(Main, "destroyQueue", "destroyClient")
    /\ live' = live \ {"jausBridge"}
    /\ UNCHANGED <<inputQueue, queueMutex, running>>

\* the component ends its threads when no callback runs
destroyClient ==
    /\ at[Main] = "destroyClient"
    /\ \A t \in OpenJAUS : at[t] \in {"none", "idle"}
    /\ at' = [t \in Threads |-> IF t \in OpenJAUS THEN "none"
                                ELSE IF t = Main THEN "statics" ELSE at[t]]
    /\ UNCHANGED <<inputQueue, queueMutex, running, live>>

exitProcess ==
    /\ live = {}
    /\ Goes(Main, "statics", "exited")
    /\ UNCHANGED <<inputQueue, queueMutex, running, live>>

-----------------------------------------------------------------------------
ConstructionStep ==
    \/ makeJausBridge
    \/ makeUartCoapBridge
    \/ startServiceLoop
    \/ initializeJAUS
    \/ setRunning
    \/ spawn

PostStep(t) ==
    \/ lock(t)
    \/ push(t)
    \/ notify(t)

ServiceStep ==
    \/ testRunning
    \/ relock
    \/ predicate
    \/ sleep
    \/ pop
    \/ handle

ExitStep ==
    \/ returnFromMain
    \/ destroyUartCoapBridge
    \/ destroyJausBridge
    \/ stopServiceLoop
    \/ clearRunning
    \/ notifyAll
    \/ join
    \/ destroyQueue
    \/ destroyClient
    \/ exitProcess

Next ==
    \/ ConstructionStep
    \/ \E t \in Posters : post(t) \/ PostStep(t)
    \/ postPaused
    \/ ServiceStep
    \/ wakeSpuriously
    \/ ioServiceThrows
    \/ ExitStep

Spec == Init /\ [][Next]_vars

(***************************************************************************)
(* Fairness: threads are scheduled, and a thread that waits for the mutex  *)
(* gets it although others take it again and again. Nobody has to post or  *)
(* to throw, and no spurious wake-up is relied on.                         *)
(***************************************************************************)
Fairness ==
    /\ WF_vars(ConstructionStep)
    /\ \A t \in Posters : WF_vars(PostStep(t)) /\ SF_vars(lock(t))
    /\ WF_vars(ServiceStep)
    /\ SF_vars(relock)
    /\ WF_vars(ExitStep)
    /\ SF_vars(stopServiceLoop)

FairSpec == Spec /\ Fairness

-----------------------------------------------------------------------------
(* Properties *)

\* Every thread is at a label of its own, the queue holds known messages
\* within the bound, and only what main makes exists.
TypeOK ==
    /\ at \in [Threads -> MainLabels \cup ServiceLabels \cup CallbackLabels]
    /\ at[Main] \in MainLabels
    /\ at[Service] \in ServiceLabels
    /\ \A t \in OpenJAUS : at[t] \in CallbackLabels
    /\ inputQueue \in Seq(Kinds)
    /\ Len(inputQueue) + Cardinality(InSection) <= MaxQueue
    /\ queueMutex \in Threads \cup {Free}
    /\ running \in BOOLEAN
    /\ live \subseteq Objects

\* The service thread never sleeps over a message or over a stop: whenever
\* it is waiting although its predicate holds, some thread is still about to
\* notify it. This is why postInput and postJAUSResponse may notify after the
\* unlock, and why stopServiceLoop must clear running under the mutex
\* although running is read without it.
NoLostWakeup ==
    at[Service] = "asleep" /\ WaitIsOver =>
        \E t \in Posters : at[t] \in {"notify", "notifyAll"}

\* What keeps NoLostWakeup: the mutex has one owner, and what the service
\* thread has found out under it is still true when it acts on it.
MutexHeld ==
    /\ \A t \in Posters : at[t] = "push" => queueMutex = t
    /\ at[Main] = "clearRunning" => queueMutex = Main
    /\ at[Service] \in {"predicate", "sleep", "pop"} => queueMutex = Service

PredicateFresh ==
    /\ at[Service] = "sleep" => ~WaitIsOver
    /\ at[Service] = "pop" => WaitIsOver

\* What the order of construction and destruction keeps
StartOrder ==
    /\ at[Main] \in Starting => at[Service] = "none"
    /\ at[Main] \in Starting \ {"spawn"} => ~running
    /\ at[Main] \in Starting \ {"setRunning", "spawn"} =>
        \A t \in OpenJAUS : at[t] = "none"
    /\ at[Main] = "spawn" => running
    /\ running /\ at[Service] = "none" => at[Main] = "spawn"

LifeOrder ==
    /\ at[Main] \notin {"statics", "exited"} \cup Stopping => "ioService" \in live
    /\ at[Main] \notin {"makeJausBridge", "destroyClient", "statics", "exited"} =>
        "jausBridge" \in live
    /\ at[Main] \in {"startServiceLoop", "initializeJAUS", "setRunning", "spawn",
                     "idle"} \cup Posting => "uartCoapBridge" \in live
    /\ at[Main] = "exit" /\ at[Service] \in Consuming => "uartCoapBridge" \in live
    /\ at[Main] \in {"destroyQueue", "destroyClient", "exited"} =>
        at[Service] \in {"none", "ended"}
    /\ at[Main] = "statics" /\ "jausBridge" \notin live =>
        /\ at[Service] \in {"none", "ended"}
        /\ \A t \in OpenJAUS : at[t] = "none"
    /\ at[Main] = "exited" => \A t \in OpenJAUS : at[t] = "none"

\* Inductive together with TypeOK
ThreadsInOrder ==
    /\ MutexHeld
    /\ PredicateFresh
    /\ NoLostWakeup
    /\ StartOrder
    /\ LifeOrder

\* What a thread touches where it is; the destructor of UartCoapBridge closes
\* the socket, the port and the timers it has with ioService
Uses(t) ==
    CASE t = Main /\ at[t] = "startServiceLoop" ->
            {"uartCoapBridge", "ioService"}
      [] t = Main /\ at[t] = "statics" /\ "uartCoapBridge" \in live ->
            {"ioService"}
      [] t = Service /\ at[t] = "handle" -> Objects
      [] t = Service /\ at[t] \in Consuming \ {"handle"} -> {"jausBridge"}
      [] t \in Posters /\ at[t] \in Posting -> {"jausBridge"}
      [] OTHER -> {}

\* Until main leaves its try block no thread uses what is not made yet: not
\* the first requests, not a handler, and not a callback that comes before
\* the service thread exists ("must be done after UartCoapBridge is
\* initialized").
MadeBeforeUse ==
    at[Main] \notin Exiting => \A t \in Threads : Uses(t) \subseteq live

\* After the start, a thread is left with an object that is gone in three
\* places only, all in the exit: main has returned and the service thread,
\* which nobody told to stop, still runs its handlers until it is joined;
\* ~UartCoapBridge runs after ioService is gone; and ~JausBridge has destroyed
\* the queue but not yet the client, whose callbacks post into it. In
\* particular the service loop has ended before its queue goes, whichever
\* singleton is destroyed first.
DanglingOnlyAtExit ==
    \A t \in Threads : \A object \in Uses(t) \ live :
        \/ /\ t = Service
           /\ object # "jausBridge"
           /\ at[Main] \in {"statics", "stopServiceLoop", "clearRunning",
                            "notifyAll", "join"}
        \/ t = Main /\ object = "ioService" /\ at[Main] = "statics"
        \/ /\ t \in OpenJAUS
           /\ object = "jausBridge"
           /\ at[Main] = "destroyClient"

\* Mutex, condition variable and flag implement the queue: order, one taker,
\* nothing taken after the stop, nothing left waiting, and an end of the
\* thread after a stop.
Queue ==
    INSTANCE BridgeQueue WITH
        Items <- Kinds,
        waiting <- inputQueue,
        consumer <- IF at[Service] = "ended" THEN "ended"
                    ELSE IF at[Service] = "none" /\ ~running THEN "none"
                    ELSE "on"
ImplementsQueue == Queue!FairSpec

\* stopServiceLoop returns, whatever the service thread is doing, also when
\* the loop was never started.
StopReturns == at[Main] = "stopServiceLoop" ~> at[Main] = "destroyQueue"

=============================================================================
