------------------------ MODULE AgentThreads_proofs -------------------------
(***************************************************************************)
(* Proofs about AgentThreads for any number of OpenJAUS threads and any    *)
(* bound of the queue: types, no lost wake-up, the life of the shared      *)
(* objects, and the implementation of BridgeQueue.                         *)
(***************************************************************************)
EXTENDS AgentThreads, FiniteSetTheorems, TLAPS

LEMMA Distinct ==
    /\ Main \in Threads /\ Service \in Threads
    /\ OpenJAUS \subseteq Threads
    /\ Posters \subseteq Threads
    /\ Main \in Posters /\ Service \notin Posters
    /\ Main # Service /\ Main \notin OpenJAUS /\ Service \notin OpenJAUS
    /\ Free \notin Threads
  BY ThreadsAssumption DEF Threads, Posters

-----------------------------------------------------------------------------
(* Types *)

Labels == MainLabels \cup ServiceLabels \cup CallbackLabels

\* The parts of TypeOK
LabelsOK ==
    /\ at \in [Threads -> Labels]
    /\ at[Main] \in MainLabels
    /\ at[Service] \in ServiceLabels
    /\ \A t \in OpenJAUS : at[t] \in CallbackLabels

BoundOK ==
    /\ inputQueue \in Seq(Kinds)
    /\ Len(inputQueue) + Cardinality(InSection) <= MaxQueue

SharedOK ==
    /\ queueMutex \in Threads \cup {Free}
    /\ running \in BOOLEAN
    /\ live \subseteq Objects

LEMMA TypeParts == TypeOK <=> LabelsOK /\ BoundOK /\ SharedOK
  BY DEF TypeOK, LabelsOK, BoundOK, SharedOK, Labels

USE DEF Starting, Posting, Stopping, Exiting, Consuming, MainLabels,
        ServiceLabels, CallbackLabels, Labels

LEMMA LabelsStep == LabelsOK /\ [Next]_vars => LabelsOK'
  <1> SUFFICES ASSUME LabelsOK, [Next]_vars PROVE LabelsOK'
    OBVIOUS
  <1> USE Distinct DEF LabelsOK, Goes, Notifies
  <1>1. CASE ConstructionStep
    BY <1>1 DEF ConstructionStep, makeJausBridge, makeUartCoapBridge,
       startServiceLoop, initializeJAUS, setRunning, spawn
  <1>2. ASSUME NEW t \in Posters, post(t) \/ PostStep(t)
        PROVE  LabelsOK'
    BY <1>2 DEF Posters, post, PostStep, lock, push, notify
  <1>3. CASE postPaused \/ wakeSpuriously \/ ioServiceThrows
    BY <1>3 DEF postPaused, wakeSpuriously, ioServiceThrows
  <1>4. CASE ServiceStep
    BY <1>4 DEF ServiceStep, testRunning, relock, predicate, sleep, pop, handle
  <1>5. CASE ExitStep
    BY <1>5 DEF ExitStep, returnFromMain, destroyUartCoapBridge,
       destroyJausBridge, stopServiceLoop, clearRunning, notifyAll, join,
       destroyQueue, destroyClient, exitProcess
  <1>6. CASE UNCHANGED vars
    BY <1>6 DEF vars
  <1>7. QED
    BY <1>1, <1>2, <1>3, <1>4, <1>5, <1>6 DEF Next

LEMMA SharedStep == SharedOK /\ [Next]_vars => SharedOK'
  <1> SUFFICES ASSUME SharedOK, [Next]_vars PROVE SharedOK'
    OBVIOUS
  <1> USE Distinct DEF SharedOK, Acquires, Releases, Objects
  <1>1. CASE ConstructionStep
    BY <1>1 DEF ConstructionStep, makeJausBridge, makeUartCoapBridge,
       startServiceLoop, initializeJAUS, setRunning, spawn
  <1>2. ASSUME NEW t \in Posters, post(t) \/ PostStep(t)
        PROVE  SharedOK'
    BY <1>2 DEF Posters, post, PostStep, lock, push, notify
  <1>3. CASE postPaused \/ wakeSpuriously \/ ioServiceThrows
    BY <1>3 DEF postPaused, wakeSpuriously, ioServiceThrows
  <1>4. CASE ServiceStep
    BY <1>4 DEF ServiceStep, testRunning, relock, predicate, sleep, pop, handle
  <1>5. CASE ExitStep
    BY <1>5 DEF ExitStep, returnFromMain, destroyUartCoapBridge,
       destroyJausBridge, stopServiceLoop, clearRunning, notifyAll, join,
       destroyQueue, destroyClient, exitProcess
  <1>6. CASE UNCHANGED vars
    BY <1>6 DEF vars
  <1>7. QED
    BY <1>1, <1>2, <1>3, <1>4, <1>5, <1>6 DEF Next

\* Posters that are about to push are finitely many, and a step changes them
\* only for the thread that makes it.
LEMMA SectionFinite ==
    ASSUME LabelsOK
    PROVE  IsFiniteSet(InSection) /\ Cardinality(InSection) \in Nat
  <1>1. IsFiniteSet(Posters)
    BY ThreadsAssumption, FS_AddElement DEF Posters
  <1>2. IsFiniteSet(InSection)
    BY <1>1, FS_Subset DEF InSection
  <1>3. QED
    BY <1>2, FS_CardinalityType

LEMMA SectionFrame ==
    ASSUME LabelsOK,
           \A t \in Posters : (at'[t] \in {"lock", "push"}) <=> (at[t] \in {"lock", "push"})
    PROVE  InSection' = InSection
  BY DEF InSection

LEMMA BoundStep == LabelsOK /\ BoundOK /\ PredicateFresh /\ [Next]_vars => BoundOK'
  <1> SUFFICES ASSUME LabelsOK, BoundOK, PredicateFresh, [Next]_vars
               PROVE  BoundOK'
    OBVIOUS
  <1>0. /\ inputQueue \in Seq(Kinds) /\ Len(inputQueue) \in Nat
        /\ MaxQueue \in Nat
        /\ Cardinality(InSection) \in Nat
    BY SectionFinite, QueueAssumption DEF BoundOK
  <1>1. ASSUME UNCHANGED inputQueue, UNCHANGED InSection PROVE BoundOK'
    BY <1>1 DEF BoundOK
  <1> USE Distinct DEF LabelsOK, Goes, Notifies
  <1>2. CASE ConstructionStep
    <2>1. UNCHANGED inputQueue
      BY <1>2 DEF ConstructionStep, makeJausBridge, makeUartCoapBridge,
         startServiceLoop, initializeJAUS, setRunning, spawn
    <2>2. ASSUME ~initializeJAUS PROVE UNCHANGED InSection
      BY <1>2, <2>2, SectionFrame DEF ConstructionStep, makeJausBridge,
         makeUartCoapBridge, startServiceLoop, setRunning, spawn, Posters
    <2>3. CASE initializeJAUS
      <3>1. InSection' = {}
        BY <2>3 DEF initializeJAUS, InSection, Posters
      <3>2. Cardinality(InSection') = 0
        BY <3>1, FS_EmptySet
      <3>3. QED
        BY <1>0, <2>1, <3>2 DEF BoundOK
    <2>4. QED
      BY <1>1, <2>1, <2>2, <2>3
  <1>3. ASSUME NEW t \in Posters, post(t) PROVE BoundOK'
    <2>1. InSection' = InSection \cup {t}
      BY <1>3 DEF post, InSection, Posters
    <2>2. t \notin InSection
      BY <1>3 DEF post, InSection
    <2>3. Cardinality(InSection') = Cardinality(InSection) + 1
      BY <2>1, <2>2, SectionFinite, FS_AddElement
    <2>4. QED
      BY <1>0, <1>3, <2>3 DEF post, HasRoom, BoundOK
  <1>4. ASSUME NEW t \in Posters, push(t) PROVE BoundOK'
    <2>1. InSection' = InSection \ {t}
      BY <1>4 DEF push, InSection, Posters
    <2>2. t \in InSection
      BY <1>4 DEF push, InSection
    <2>3. Cardinality(InSection') = Cardinality(InSection) - 1
      BY <2>1, <2>2, SectionFinite, FS_RemoveElement
    <2>4. Kind(t) \in Kinds
      BY DEF Kind, Kinds
    <2>5. inputQueue' \in Seq(Kinds) /\ Len(inputQueue') = Len(inputQueue) + 1
      BY <1>0, <1>4, <2>4 DEF push
    <2>6. QED
      BY <1>0, <2>3, <2>5 DEF BoundOK
  <1>5. ASSUME NEW t \in Posters, lock(t) \/ notify(t) PROVE BoundOK'
    <2>1. UNCHANGED InSection
      BY <1>5, SectionFrame DEF lock, notify, Posters
    <2>2. QED
      BY <1>1, <1>5, <2>1 DEF lock, notify
  <1>6. CASE postPaused \/ wakeSpuriously \/ ioServiceThrows
    <2>1. UNCHANGED InSection
      BY <1>6, SectionFrame DEF postPaused, wakeSpuriously, ioServiceThrows
    <2>2. QED
      BY <1>1, <1>6, <2>1 DEF postPaused, wakeSpuriously, ioServiceThrows
  <1>7. CASE ServiceStep
    <2>1. UNCHANGED InSection
      BY <1>7, SectionFrame DEF ServiceStep, testRunning, relock, predicate,
         sleep, pop, handle
    <2>2. CASE pop /\ running /\ inputQueue' = Tail(inputQueue)
      <3>1. inputQueue # <<>>
        BY <2>2 DEF PredicateFresh, WaitIsOver, pop
      <3>2. QED
        BY <1>0, <2>1, <2>2, <3>1 DEF BoundOK
    <2>3. CASE UNCHANGED inputQueue
      BY <1>1, <2>1, <2>3
    <2>4. QED
      BY <1>7, <2>2, <2>3 DEF ServiceStep, testRunning, relock, predicate,
         sleep, pop, handle
  <1>8. CASE ExitStep
    <2>1. UNCHANGED InSection
      BY <1>8, SectionFrame DEF ExitStep, returnFromMain,
         destroyUartCoapBridge, destroyJausBridge, stopServiceLoop,
         clearRunning, notifyAll, join, destroyQueue, destroyClient,
         exitProcess, Posters
    <2>2. QED
      BY <1>1, <1>8, <2>1 DEF ExitStep, returnFromMain,
         destroyUartCoapBridge, destroyJausBridge, stopServiceLoop,
         clearRunning, notifyAll, join, destroyQueue, destroyClient,
         exitProcess
  <1>9. CASE UNCHANGED vars
    BY <1>1, <1>9 DEF vars, InSection
  <1>10. QED
    BY <1>2, <1>3, <1>4, <1>5, <1>6, <1>7, <1>8, <1>9 DEF Next, PostStep

-----------------------------------------------------------------------------
(* The inductive invariant *)

LEMMA OrderInit == Init => TypeOK /\ ThreadsInOrder
  <1> SUFFICES ASSUME Init PROVE TypeOK /\ ThreadsInOrder
    OBVIOUS
  <1> USE Distinct DEF Init
  <1>1. LabelsOK
    BY DEF LabelsOK
  <1>2. InSection = {}
    BY DEF InSection, Posters
  <1>3. Cardinality(InSection) = 0
    BY <1>2, FS_EmptySet
  <1>4. inputQueue \in Seq(Kinds) /\ Len(inputQueue) = 0
    OBVIOUS
  <1>5. BoundOK
    BY <1>3, <1>4, QueueAssumption DEF BoundOK
  <1>6. SharedOK
    BY DEF SharedOK, Objects
  <1>7. MutexHeld /\ PredicateFresh /\ NoLostWakeup
    BY DEF MutexHeld, PredicateFresh, NoLostWakeup, Posters
  <1>8. StartOrder /\ LifeOrder
    BY DEF StartOrder, LifeOrder
  <1>9. QED
    BY <1>1, <1>5, <1>6, <1>7, <1>8, TypeParts DEF ThreadsInOrder

LEMMA MutexStep ==
    LabelsOK /\ SharedOK /\ MutexHeld /\ StartOrder /\ [Next]_vars => MutexHeld'
  <1> SUFFICES ASSUME LabelsOK, SharedOK, MutexHeld, StartOrder, [Next]_vars
               PROVE  MutexHeld'
    OBVIOUS
  <1> USE Distinct DEF LabelsOK, SharedOK, MutexHeld, Goes, Notifies, Acquires,
          Releases, Posters
  <1>1. CASE ConstructionStep
    BY <1>1 DEF ConstructionStep, makeJausBridge, makeUartCoapBridge,
       startServiceLoop, initializeJAUS, setRunning, spawn
  <1>2. ASSUME NEW t \in Posters, post(t) \/ PostStep(t)
        PROVE  MutexHeld'
    BY <1>2 DEF post, PostStep, lock, push, notify
  <1>3. CASE postPaused \/ wakeSpuriously \/ ioServiceThrows
    BY <1>3 DEF postPaused, wakeSpuriously, ioServiceThrows
  <1>4. CASE ServiceStep
    BY <1>4 DEF ServiceStep, testRunning, relock, predicate, sleep, pop, handle
  <1>5. CASE ExitStep
    BY <1>5 DEF ExitStep, returnFromMain, destroyUartCoapBridge,
       destroyJausBridge, stopServiceLoop, clearRunning, notifyAll, join,
       destroyQueue, destroyClient, exitProcess
  <1>6. CASE UNCHANGED vars
    BY <1>6 DEF vars
  <1>7. QED
    BY <1>1, <1>2, <1>3, <1>4, <1>5, <1>6 DEF Next

\* What the service thread found out under the mutex stays true until it acts
\* on it, and while it sleeps over a change somebody is about to notify it.
LEMMA WakeStep ==
    ASSUME LabelsOK, BoundOK, SharedOK, MutexHeld, PredicateFresh, NoLostWakeup,
           StartOrder, [Next]_vars
    PROVE  PredicateFresh' /\ NoLostWakeup'
  <1> USE Distinct DEF LabelsOK, SharedOK, MutexHeld, StartOrder, Goes, Notifies,
          Acquires, Releases
  <1>1. CASE ConstructionStep
    <2>1. at'[Service] \notin {"sleep", "pop", "asleep"}
      BY <1>1 DEF ConstructionStep, makeJausBridge, makeUartCoapBridge,
         startServiceLoop, initializeJAUS, setRunning, spawn
    <2>2. QED
      BY <2>1 DEF PredicateFresh, NoLostWakeup
  <1>2. ASSUME NEW t \in Posters, push(t)
        PROVE  PredicateFresh' /\ NoLostWakeup'
    <2>1. /\ at'[t] = "notify"
          /\ at'[Service] = at[Service]
          /\ at[Service] \notin {"sleep", "pop"}
      BY <1>2 DEF push, Posters
    <2>2. QED
      BY <2>1 DEF PredicateFresh, NoLostWakeup
  <1>3. ASSUME NEW t \in Posters, post(t) \/ lock(t)
        PROVE  PredicateFresh' /\ NoLostWakeup'
    <2>1. /\ UNCHANGED <<inputQueue, running>>
          /\ at'[Service] = at[Service]
          /\ \A u \in Posters :
                at[u] \in {"notify", "notifyAll"} => at'[u] \in {"notify", "notifyAll"}
      BY <1>3 DEF post, lock, Posters
    <2>2. QED
      BY <2>1 DEF PredicateFresh, NoLostWakeup, WaitIsOver
  <1>4. ASSUME NEW t \in Posters, notify(t)
        PROVE  PredicateFresh' /\ NoLostWakeup'
    <2>1. /\ UNCHANGED <<inputQueue, running>>
          /\ at'[Service] # "asleep"
          /\ at'[Service] \in {"sleep", "pop"} => at'[Service] = at[Service]
      BY <1>4 DEF notify, Posters
    <2>2. QED
      BY <2>1 DEF PredicateFresh, NoLostWakeup, WaitIsOver
  <1>5. CASE postPaused \/ ioServiceThrows
    <2>1. /\ UNCHANGED <<inputQueue, running>>
          /\ at'[Service] = at[Service]
          /\ \A u \in Posters :
                at[u] \in {"notify", "notifyAll"} => at'[u] \in {"notify", "notifyAll"}
      BY <1>5 DEF postPaused, ioServiceThrows, Posters
    <2>2. QED
      BY <2>1 DEF PredicateFresh, NoLostWakeup, WaitIsOver
  <1>6. CASE ServiceStep \/ wakeSpuriously
    BY <1>6 DEF ServiceStep, wakeSpuriously, testRunning, relock, predicate,
       sleep, pop, handle, PredicateFresh, NoLostWakeup, WaitIsOver
  <1>7. CASE clearRunning
    <2>1. /\ at'[Main] = "notifyAll"
          /\ at'[Service] = at[Service]
          /\ at[Service] \notin {"sleep", "pop"}
      BY <1>7 DEF clearRunning
    <2>2. QED
      BY <2>1 DEF PredicateFresh, NoLostWakeup
  <1>8. CASE notifyAll
    <2>1. /\ UNCHANGED <<inputQueue, running>>
          /\ at'[Service] # "asleep"
          /\ at'[Service] \in {"sleep", "pop"} => at'[Service] = at[Service]
      BY <1>8 DEF notifyAll
    <2>2. QED
      BY <2>1 DEF PredicateFresh, NoLostWakeup, WaitIsOver
  <1>9. CASE ExitStep /\ ~clearRunning /\ ~notifyAll
    <2>1. /\ UNCHANGED <<inputQueue, running>>
          /\ at'[Service] = at[Service]
      BY <1>9 DEF ExitStep, returnFromMain, destroyUartCoapBridge,
         destroyJausBridge, stopServiceLoop, join, destroyQueue,
         destroyClient, exitProcess
    <2>2. \A u \in Posters :
             at[u] \in {"notify", "notifyAll"} => at'[u] \in {"notify", "notifyAll"}
      BY <1>9 DEF ExitStep, returnFromMain, destroyUartCoapBridge,
         destroyJausBridge, stopServiceLoop, join, destroyQueue,
         destroyClient, exitProcess, Posters
    <2>3. QED
      BY <2>1, <2>2 DEF PredicateFresh, NoLostWakeup, WaitIsOver
  <1>10. CASE UNCHANGED vars
    BY <1>10 DEF vars, PredicateFresh, NoLostWakeup, WaitIsOver
  <1>11. QED
    BY <1>1, <1>2, <1>3, <1>4, <1>5, <1>6, <1>7, <1>8, <1>9, <1>10
       DEF Next, PostStep

\* Construction and destruction keep their order.
LEMMA LifeStep ==
    ASSUME LabelsOK, SharedOK, StartOrder, LifeOrder, [Next]_vars
    PROVE  StartOrder' /\ LifeOrder'
  <1> USE Distinct DEF LabelsOK, SharedOK, StartOrder, LifeOrder, Goes, Notifies
  <1>1. CASE ConstructionStep
    BY <1>1 DEF ConstructionStep, makeJausBridge, makeUartCoapBridge,
       startServiceLoop, initializeJAUS, setRunning, spawn
  <1>2. ASSUME NEW t \in Posters, post(t) \/ PostStep(t)
        PROVE  StartOrder' /\ LifeOrder'
    BY <1>2 DEF post, PostStep, lock, push, notify, Posters
  <1>3. CASE postPaused \/ wakeSpuriously \/ ioServiceThrows
    BY <1>3 DEF postPaused, wakeSpuriously, ioServiceThrows
  <1>4. CASE ServiceStep
    BY <1>4 DEF ServiceStep, testRunning, relock, predicate, sleep, pop, handle
  <1>5. CASE ExitStep
    BY <1>5 DEF ExitStep, returnFromMain, destroyUartCoapBridge,
       destroyJausBridge, stopServiceLoop, clearRunning, notifyAll, join,
       destroyQueue, destroyClient, exitProcess
  <1>6. CASE UNCHANGED vars
    BY <1>6 DEF vars
  <1>7. QED
    BY <1>1, <1>2, <1>3, <1>4, <1>5, <1>6 DEF Next

LEMMA OrderStep ==
    TypeOK /\ ThreadsInOrder /\ [Next]_vars => TypeOK' /\ ThreadsInOrder'
  <1>1. LabelsOK /\ BoundOK /\ SharedOK /\ ThreadsInOrder /\ [Next]_vars
        => LabelsOK' /\ BoundOK' /\ SharedOK' /\ ThreadsInOrder'
    BY LabelsStep, BoundStep, SharedStep, MutexStep, WakeStep, LifeStep
       DEF ThreadsInOrder
  <1>2. LabelsOK' /\ BoundOK' /\ SharedOK' => TypeOK'
    BY DEF TypeOK, LabelsOK, BoundOK, SharedOK
  <1>3. QED
    BY <1>1, <1>2, TypeParts

-----------------------------------------------------------------------------
(* Theorems *)

\* Every thread is where it can be, the queue is bounded by its bound and the
\* mutex has an owner (members of JausBridge, steps of main).
THEOREM TypeCorrect == Spec => []TypeOK
  BY OrderInit, OrderStep, PTL DEF Spec

\* The inductive invariant holds: owner of queueMutex, freshness of the wait
\* predicate, order of construction and destruction.
THEOREM OrderHolds == Spec => []ThreadsInOrder
  BY OrderInit, OrderStep, PTL DEF Spec

\* No wake-up of the service thread is lost (postInput, postJAUSResponse,
\* stopServiceLoop against the wait in serviceLoop).
THEOREM NoWakeupIsLost == Spec => []NoLostWakeup
  <1>1. ThreadsInOrder => NoLostWakeup
    BY DEF ThreadsInOrder
  <1>2. QED
    BY <1>1, OrderHolds, PTL

\* Nothing is used before main has made it (main of fort_agent_app.cpp).
THEOREM NothingUsedUnmade == Spec => []MadeBeforeUse
  <1>1. TypeOK /\ ThreadsInOrder => MadeBeforeUse
    <2> SUFFICES ASSUME TypeOK, ThreadsInOrder, at[Main] \notin Exiting,
                        NEW t \in Threads
                 PROVE  Uses(t) \subseteq live
      BY DEF MadeBeforeUse
    <2> USE Distinct, TypeParts DEF ThreadsInOrder, LabelsOK, StartOrder,
            LifeOrder, Objects
    <2>1. CASE t = Main
      BY <2>1 DEF Uses
    <2>2. CASE t = Service
      BY <2>2 DEF Uses
    <2>3. CASE t \in OpenJAUS
      BY <2>3 DEF Uses, Posters
    <2>4. QED
      BY <2>1, <2>2, <2>3 DEF Threads
  <1>2. QED
    BY <1>1, TypeCorrect, OrderHolds, PTL

\* Destroyed objects are used in the three known places only (the return of
\* main, ~UartCoapBridge and ~JausBridge).
THEOREM OnlyKnownDangling == Spec => []DanglingOnlyAtExit
  <1>1. TypeOK /\ ThreadsInOrder => DanglingOnlyAtExit
    <2> SUFFICES ASSUME TypeOK, ThreadsInOrder, NEW t \in Threads,
                        NEW object \in Uses(t) \ live
                 PROVE  \/ /\ t = Service
                           /\ object # "jausBridge"
                           /\ at[Main] \in {"statics", "stopServiceLoop",
                                  "clearRunning", "notifyAll", "join"}
                        \/ /\ t = Main
                           /\ object = "ioService"
                           /\ at[Main] = "statics"
                        \/ /\ t \in OpenJAUS
                           /\ object = "jausBridge"
                           /\ at[Main] = "destroyClient"
      BY DEF DanglingOnlyAtExit
    <2> USE Distinct, TypeParts DEF ThreadsInOrder, LabelsOK, StartOrder,
            LifeOrder, Objects
    <2>1. CASE t = Main
      BY <2>1 DEF Uses
    <2>2. CASE t = Service
      BY <2>2 DEF Uses
    <2>3. CASE t \in OpenJAUS
      BY <2>3 DEF Uses, Posters
    <2>4. QED
      BY <2>1, <2>2, <2>3 DEF Threads
  <1>2. QED
    BY <1>1, TypeCorrect, OrderHolds, PTL

-----------------------------------------------------------------------------
(* The threads implement the queue: every step is one of the queue or does  *)
(* not touch it.                                                            *)

Consumer == IF at[Service] = "ended" THEN "ended"
            ELSE IF at[Service] = "none" /\ ~running THEN "none"
            ELSE "on"

LEMMA ConstructionImplements ==
    ASSUME TypeOK, ThreadsInOrder, ConstructionStep
    PROVE  [Queue!Next]_(Queue!vars)
  <1> USE Distinct, TypeParts DEF ThreadsInOrder, LabelsOK, SharedOK,
          StartOrder, Goes, Queue!vars
  <1>1. CASE setRunning
    <2>1. Queue!Start
      BY <1>1 DEF setRunning, Queue!Start
    <2>2. QED
      BY <2>1 DEF Queue!Next
  <1>2. CASE ~setRunning
    <2>1. UNCHANGED <<inputQueue, running>> /\ Consumer' = Consumer
      BY <1>2 DEF ConstructionStep, makeJausBridge, makeUartCoapBridge,
         startServiceLoop, initializeJAUS, spawn, Consumer
    <2>2. QED
      BY <2>1 DEF Consumer
  <1>3. QED
    BY <1>1, <1>2

LEMMA PostImplements ==
    ASSUME TypeOK, ThreadsInOrder, NEW t \in Posters, post(t) \/ PostStep(t)
    PROVE  [Queue!Next]_(Queue!vars)
  <1> USE Distinct, TypeParts DEF LabelsOK, SharedOK, Goes, Notifies, Posters,
          Queue!vars
  <1>1. CASE push(t)
    <2>1. Kind(t) \in Kinds
      BY DEF Kind, Kinds
    <2>2. Consumer' = Consumer
      BY <1>1 DEF push, Consumer
    <2>3. Queue!Post(Kind(t))
      BY <1>1, <2>2 DEF push, Queue!Post, Consumer
    <2>4. QED
      BY <2>1, <2>3 DEF Queue!Next
  <1>2. CASE ~push(t)
    <2>1. UNCHANGED <<inputQueue, running>> /\ Consumer' = Consumer
      BY <1>2 DEF post, PostStep, lock, notify, Consumer
    <2>2. QED
      BY <2>1 DEF Consumer
  <1>3. QED
    BY <1>1, <1>2

LEMMA ServiceImplements ==
    ASSUME TypeOK, ThreadsInOrder, ServiceStep \/ wakeSpuriously
    PROVE  [Queue!Next]_(Queue!vars)
  <1> USE Distinct, TypeParts DEF LabelsOK, SharedOK, Goes, Queue!vars
  <1>1. CASE pop /\ running
    <2>1. inputQueue # <<>>
      BY <1>1 DEF ThreadsInOrder, PredicateFresh, WaitIsOver, pop
    <2>2. Queue!Take
      BY <1>1, <2>1 DEF pop, Queue!Take
    <2>3. QED
      BY <2>2 DEF Queue!Next
  <1>2. CASE (pop \/ testRunning) /\ ~running
    <2>1. Queue!End
      BY <1>2 DEF pop, testRunning, Queue!End
    <2>2. QED
      BY <2>1 DEF Queue!Next
  <1>3. CASE ~pop /\ (testRunning => running)
    <2>1. UNCHANGED <<inputQueue, running>> /\ Consumer' = Consumer
      BY <1>3 DEF ServiceStep, wakeSpuriously, testRunning, relock, predicate,
         sleep, handle, Consumer
    <2>2. QED
      BY <2>1 DEF Consumer
  <1>4. QED
    BY <1>1, <1>2, <1>3

LEMMA ExitImplements ==
    ASSUME TypeOK, ThreadsInOrder, ExitStep \/ postPaused \/ ioServiceThrows
    PROVE  [Queue!Next]_(Queue!vars)
  <1> USE Distinct, TypeParts DEF LabelsOK, SharedOK, Goes, Notifies,
          Queue!vars
  <1>1. CASE clearRunning /\ running
    <2>1. at[Service] # "none"
      BY <1>1 DEF clearRunning, ThreadsInOrder, StartOrder
    <2>2. Queue!Stop
      BY <1>1, <2>1 DEF clearRunning, Queue!Stop
    <2>3. QED
      BY <2>2 DEF Queue!Next
  <1>2. CASE clearRunning => ~running
    <2>1. UNCHANGED <<inputQueue, running>>
      BY <1>2 DEF ExitStep, postPaused, ioServiceThrows, returnFromMain,
         destroyUartCoapBridge, destroyJausBridge, stopServiceLoop,
         clearRunning, notifyAll, join, destroyQueue, destroyClient,
         exitProcess
    <2>2. /\ at'[Service] = "ended" <=> at[Service] = "ended"
          /\ at'[Service] = "none" <=> at[Service] = "none"
      BY DEF ExitStep, postPaused, ioServiceThrows, returnFromMain,
         destroyUartCoapBridge, destroyJausBridge, stopServiceLoop,
         clearRunning, notifyAll, join, destroyQueue, destroyClient,
         exitProcess
    <2>3. QED
      BY <2>1, <2>2
  <1>3. QED
    BY <1>1, <1>2

\* Mutex, condition variable and flag implement the safety of the abstract
\* queue (serviceLoop, stopServiceLoop, postInput, postJAUSResponse).
THEOREM QueueImplemented == Spec => Queue!Spec
  <1>1. Init => Queue!Init
    BY Distinct DEF Init, Queue!Init
  <1>2. TypeOK /\ ThreadsInOrder /\ [Next]_vars => [Queue!Next]_(Queue!vars)
    <2>1. CASE UNCHANGED vars
      BY <2>1 DEF vars, Queue!vars
    <2>2. QED
      BY <2>1, ConstructionImplements, PostImplements, ServiceImplements,
         ExitImplements DEF Next
  <1>3. QED
    BY <1>1, <1>2, TypeCorrect, OrderHolds, PTL DEF Spec, Queue!Spec

=============================================================================
