---------------------------- MODULE SessionProofs ----------------------------
(***************************************************************************)
(* Proofs about an outbound session, for any set of callers.               *)
(***************************************************************************)
EXTENDS Session, TLAPS

USE DEF shakeVars, callerVars

-----------------------------------------------------------------------------
(* Types. *)

\* The handlers before that of the length lead to it.
LEMMA HandleStages ==
  ASSUME Handle
  PROVE  stage' \in Stages \ {"new", "broken", "body", "silent", "done"}
<1>1. stage \in {"connect", "request", "created", "reply", "padding", "confirmed", "data"}
  BY DEF Handle, After
<1>2. /\ After["connect"] = "request" /\ After["request"] = "created"
      /\ After["created"] = "reply" /\ After["reply"] = "padding"
      /\ After["padding"] = "confirmed" /\ After["confirmed"] = "data"
      /\ After["data"] = "length"
  BY DEF After
<1>3. Stages = {"new", "broken", "silent", "connect", "request", "created", "reply",
                "padding", "confirmed", "data", "length", "body", "done"}
  BY DEF Stages, After
<1>4. QED
  BY <1>1, <1>2, <1>3 DEF Handle

\* What the thread of Run does keeps the types.
LEMMA IoType ==
  ASSUME TypeOK, IoThread
  PROVE  TypeOK'
<1> USE DEF TypeOK, IoUnchanged, After, Stages
<1>1. CASE Dispatch \/ RunReturns
  BY <1>1 DEF Dispatch, RunReturns
<1>2. CASE Handle
  <2>1. stage' \in Stages
    BY <1>2, HandleStages
  <2>2. QED
    BY <1>2, <2>1 DEF Handle
<1>3. CASE HandleLength
  BY <1>3 DEF HandleLength
<1>4. CASE ReadBody \/ HandleBody
  BY <1>4 DEF ReadBody, HandleBody
<1>5. CASE Notify
  BY <1>5 DEF Notify, NotifyAll
<1>6. CASE HandlerThrows
  BY <1>6 DEF HandlerThrows
<1>7. CASE Caught
  <2>1. CASE CatchStops
    BY <2>1 DEF CatchStops
  <2>2. CASE CatchClears
    BY <2>2 DEF CatchClears
  <2>3. QED
    BY <1>7, <2>1, <2>2 DEF Caught
<1>8. QED
  BY <1>1, <1>2, <1>3, <1>4, <1>5, <1>6, <1>7 DEF IoThread, Handlers

\* What the callers do keeps the types.
LEMMA CallerType ==
  ASSUME TypeOK, NEW c \in Callers, Caller(c)
  PROVE  TypeOK'
<1> USE DEF TypeOK, Goto, Tell, StopReturns
<1>1. CASE Start(c)
  BY <1>1 DEF Start, Stages, After
<1>2. CASE StartFails(c)
  BY <1>2 DEF StartFails, Stages, After
<1>3. CASE Assign(c)
  BY <1>3 DEF Assign, Stages, After
<1>4. CASE WaitReady(c)
  BY <1>4 DEF WaitReady
<1>5. CASE WaitSleeps(c)
  BY <1>5 DEF WaitSleeps
<1>6. CASE WaitTimesOut(c)
  BY <1>6 DEF WaitTimesOut
<1>7. CASE WaitUnlocks(c)
  BY <1>7 DEF WaitUnlocks
<1>8. CASE Use(c)
  BY <1>8 DEF Use
<1>9. CASE UseEnds(c)
  BY <1>9 DEF UseEnds
<1>10. CASE Stop(c)
  BY <1>10 DEF Stop
<1>11. CASE Destroy(c)
  BY <1>11 DEF Destroy
<1>12. CASE StopContext(c)
  BY <1>12 DEF StopContext
<1>13. CASE ClearReady(c)
  BY <1>13 DEF ClearReady
<1>14. CASE Join(c)
  BY <1>14 DEF Join
<1>15. CASE Joined(c)
  BY <1>15 DEF Joined
<1>16. CASE NothingToJoin(c)
  BY <1>16 DEF NothingToJoin
<1>17. CASE ResetThread(c)
  BY <1>17 DEF ResetThread
<1>18. CASE JoinTwice(c)
  <2>1. CASE Crash
    BY <2>1 DEF Crash
  <2>2. CASE ~Crash
    <3>1. StopReturns(c) /\ UNCHANGED <<shakeVars, ready, thread, io, ctxStopped, mutex>>
      BY <1>18, <2>2 DEF JoinTwice
    <3>2. QED
      BY <3>1
  <2>3. QED
    BY <2>1, <2>2
<1>19. QED
  BY <1>1, <1>2, <1>3, <1>4, <1>5, <1>6, <1>7, <1>8, <1>9, <1>10,
     <1>11, <1>12, <1>13, <1>14, <1>15, <1>16, <1>17, <1>18
  DEF Caller, Begin, GoOn, WaitGoesOn, StopGoesOn

\* Every variable keeps its type.
THEOREM TypeCorrect == Spec => []TypeOK
<1>1. Init => TypeOK
  BY DEF Init, TypeOK, Stages
<1>2. TypeOK /\ [Next]_vars => TypeOK'
  <2>1. TypeOK /\ UNCHANGED vars => TypeOK'
    BY DEF TypeOK, vars
  <2>2. QED
    BY <2>1, IoType, CallerType DEF Next
<1>3. QED
  BY <1>1, <1>2, PTL DEF Spec

-----------------------------------------------------------------------------
(* One lemma for each part of the invariant. *)

\* The handshake makes the DataPhase before it makes the session ready, and
\* nothing unmakes it.
LEMMA StageStep ==
  ASSUME TypeOK, StageOrder, Next
  PROVE  StageOrder'
<1> USE DEF TypeOK, StageOrder, After, Stages, IoUnchanged, Goto
<1>1. CASE Dispatch
  BY <1>1 DEF Dispatch
<1>2. CASE RunReturns
  BY <1>2 DEF RunReturns
<1>3. CASE Handle
  <2>1. stage' \in Stages \ {"new", "broken", "body", "silent", "done"}
    BY <1>3, HandleStages
  <2>2. stage \notin {"body", "silent", "done"}
    BY <1>3 DEF Handle
  <2>3. UNCHANGED <<dp, ready, pc>> /\ io' = "idle"
    BY <1>3 DEF Handle
  <2>4. QED
    BY <2>1, <2>2, <2>3
<1>4. CASE HandleLength
  BY <1>4 DEF HandleLength
<1>5. CASE ReadBody \/ HandleBody
  BY <1>5 DEF ReadBody, HandleBody
<1>6. CASE Notify
  BY <1>6 DEF Notify, NotifyAll
<1>7. CASE HandlerThrows \/ CatchStops \/ CatchClears
  BY <1>7 DEF HandlerThrows, CatchStops, CatchClears
<1>8. ASSUME NEW c \in Callers, Begin(c)
      PROVE  StageOrder'
  BY <1>8 DEF Begin, Start, StartFails, WaitReady, WaitSleeps, Use, Stop, Destroy, Calls,
              CallerAt
<1>9. ASSUME NEW c \in Callers, Assign(c) \/ WaitGoesOn(c) \/ UseEnds(c)
      PROVE  StageOrder'
  BY <1>9 DEF Assign, WaitGoesOn, WaitReady, WaitSleeps, WaitTimesOut, WaitUnlocks,
              UseEnds
<1>10. ASSUME NEW c \in Callers, StopGoesOn(c)
       PROVE  StageOrder'
  BY <1>10 DEF StopGoesOn, StopContext, ClearReady, NothingToJoin, Join, JoinTwice, Joined,
               ResetThread, StopReturns, Crash
<1>11. QED
  BY <1>1, <1>2, <1>3, <1>4, <1>5, <1>6, <1>7, <1>8, <1>9, <1>10
  DEF Next, IoThread, Handlers, Caught, Caller, GoOn

\* ready_ is set only in the step before the notification, and a caller falls
\* asleep only while it is not set.
LEMMA WakeupStep ==
  ASSUME TypeOK, StageOrder, NoLostWakeup, Next
  PROVE  NoLostWakeup'
<1> USE DEF TypeOK, NoLostWakeup, IoUnchanged, Goto
<1>1. CASE Dispatch \/ RunReturns \/ Handle \/ HandleLength \/ ReadBody
  BY <1>1 DEF Dispatch, RunReturns, Handle, HandleLength, ReadBody
<1>2. CASE HandleBody
  BY <1>2 DEF HandleBody
<1>3. CASE Notify
  BY <1>3 DEF Notify, NotifyAll
<1>4. CASE HandlerThrows
  <2>1. io # "notify" /\ UNCHANGED <<ready, pc>>
    BY <1>4 DEF HandlerThrows
  <2>2. QED
    BY <2>1
<1>5. CASE CatchStops
  <2>1. io # "notify" /\ UNCHANGED <<ready, pc>>
    BY <1>5 DEF CatchStops
  <2>2. QED
    BY <2>1
<1>6. CASE CatchClears
  BY <1>6 DEF CatchClears
<1>7. ASSUME NEW c \in Callers, Begin(c)
      PROVE  NoLostWakeup'
  <2>1. CASE Start(c)
    <3>1. ~ready /\ ready' = ready
      BY <2>1 DEF Start, StageOrder
    <3>2. QED
      BY <3>1
  <2>2. CASE StartFails(c) \/ Use(c) \/ Stop(c) \/ Destroy(c)
    BY <2>2 DEF StartFails, Use, Stop, Destroy
  <2>3. CASE WaitReady(c) \/ WaitSleeps(c)
    BY <2>3 DEF WaitReady, WaitSleeps
  <2>4. QED
    BY <1>7, <2>1, <2>2, <2>3 DEF Begin
<1>8. ASSUME NEW c \in Callers, GoOn(c)
      PROVE  NoLostWakeup'
  <2>1. CASE Assign(c) \/ UseEnds(c)
    BY <2>1 DEF Assign, UseEnds
  <2>2. CASE WaitGoesOn(c)
    BY <2>2 DEF WaitGoesOn, WaitReady, WaitSleeps, WaitTimesOut, WaitUnlocks
  <2>3. CASE StopGoesOn(c)
    BY <2>3 DEF StopGoesOn, StopContext, ClearReady, NothingToJoin, Join, JoinTwice,
                Joined, ResetThread, StopReturns, Crash
  <2>4. QED
    BY <1>8, <2>1, <2>2, <2>3 DEF GoOn
<1>9. QED
  BY <1>1, <1>2, <1>3, <1>4, <1>5, <1>6, <1>7, <1>8
  DEF Next, IoThread, Handlers, Caught, Caller

\* The thread runs from Start on, is owned as soon as Start has assigned
\* thread_, and is disowned only by who has seen it end.
LEMMA ThreadStep ==
  ASSUME TypeOK, StageOrder, ThreadOrder, ThreadOwned, Next
  PROVE  ThreadOrder' /\ ThreadOwned'
<1> USE DEF TypeOK, ThreadOrder, ThreadOwned, IoUnchanged, Goto
<1>1. ASSUME io # "none", io # "ended", io' # "none", UNCHANGED <<thread, pc>>
      PROVE  ThreadOrder' /\ ThreadOwned'
  BY <1>1
<1>2. CASE Dispatch \/ RunReturns \/ Handle \/ HandleLength \/ ReadBody \/ HandleBody
  BY <1>1, <1>2 DEF Dispatch, RunReturns, Handle, HandleLength, ReadBody, HandleBody
<1>3. CASE HandlerThrows \/ CatchStops \/ CatchClears
  BY <1>1, <1>3 DEF HandlerThrows, CatchStops, CatchClears
<1>4. CASE Notify
  <2>1. \A c \in Callers : pc'[c] = pc[c] \/ (pc[c] = "asleep" /\ pc'[c] = "woken")
    BY <1>4 DEF Notify, NotifyAll
  <2>2. io = "notify" /\ io' = "idle" /\ thread' = thread
    BY <1>4 DEF Notify
  <2>3. QED
    BY <2>1, <2>2
<1>5. ASSUME NEW c \in Callers, Start(c)
      PROVE  ThreadOrder' /\ ThreadOwned'
  <2>1. io = "none" /\ ~thread
    BY <1>5 DEF Start, StageOrder
  <2>2. /\ io' = "idle" /\ thread' = thread
        /\ pc' = [pc EXCEPT ![c] = "assign"]
    BY <1>5 DEF Start
  <2>3. QED
    BY <2>1, <2>2
<1>6. ASSUME NEW c \in Callers, Assign(c)
      PROVE  ThreadOrder' /\ ThreadOwned'
  <2>1. /\ pc[c] = "assign" /\ pc' = [pc EXCEPT ![c] = "idle"]
        /\ thread' = TRUE /\ io' = io
    BY <1>6 DEF Assign, CallerAt
  <2>2. QED
    BY <2>1
<1>7. ASSUME NEW c \in Callers, ResetThread(c)
      PROVE  ThreadOrder' /\ ThreadOwned'
  <2>1. /\ pc[c] = "reset" /\ pc' = [pc EXCEPT ![c] = "idle"]
        /\ thread' = FALSE /\ io' = io
    BY <1>7 DEF ResetThread, StopReturns, CallerAt
  <2>2. QED
    BY <2>1
<1>8. ASSUME NEW c \in Callers, Joined(c)
      PROVE  ThreadOrder' /\ ThreadOwned'
  BY <1>8 DEF Joined, CallerAt
<1>9. ASSUME UNCHANGED <<io, thread>>,
             \A c \in Callers :
               pc'[c] # pc[c] => pc[c] # "assign" /\ pc'[c] \notin {"assign", "reset"}
      PROVE  ThreadOrder' /\ ThreadOwned'
  BY <1>9
<1>10. ASSUME NEW c \in Callers,
              \/ StartFails(c) \/ WaitSleeps(c) \/ WaitTimesOut(c) \/ WaitUnlocks(c)
              \/ Use(c) \/ UseEnds(c) \/ Stop(c) \/ Destroy(c)
       PROVE  ThreadOrder' /\ ThreadOwned'
  BY <1>9, <1>10 DEF StartFails, WaitSleeps, WaitTimesOut, WaitUnlocks, Use, UseEnds,
                     Stop, Destroy, Calls, CallerAt, callerVars
<1>11. ASSUME NEW c \in Callers, WaitReady(c)
       PROVE  ThreadOrder' /\ ThreadOwned'
  <2>1. UNCHANGED <<io, thread>>
    BY <1>11 DEF WaitReady
  <2>2. pc[c] # "assign" /\ pc'[c] = "idle"
    BY <1>11 DEF WaitReady, Calls, CallerAt
  <2>3. \A d \in Callers \ {c} :
          pc'[d] # pc[d] => pc[d] = "asleep" /\ pc'[d] = "woken"
    BY <1>11 DEF WaitReady
  <2>4. QED
    BY <1>9, <2>1, <2>2, <2>3
<1>12. ASSUME NEW c \in Callers,
              StopContext(c) \/ ClearReady(c) \/ NothingToJoin(c) \/ Join(c)
       PROVE  ThreadOrder' /\ ThreadOwned'
  BY <1>9, <1>12 DEF StopContext, ClearReady, NothingToJoin, Join, StopReturns, CallerAt
<1>13. ASSUME NEW c \in Callers, JoinTwice(c)
       PROVE  ThreadOrder' /\ ThreadOwned'
  BY <1>9, <1>13 DEF JoinTwice, StopReturns, Crash, CallerAt
<1>14. QED
  BY <1>2, <1>3, <1>4, <1>5, <1>6, <1>7, <1>8, <1>10, <1>11, <1>12, <1>13
  DEF Next, IoThread, Handlers, Caught, Caller, Begin, GoOn, WaitGoesOn, StopGoesOn

\* The destructor begins when every other caller is idle, and nobody begins
\* anything after.
LEMMA DyingStep ==
  ASSUME TypeOK, DyingAlone, DestroyedIsQuiet, ThreadOrder, ThreadOwned, Next
  PROVE  DyingAlone' /\ DestroyedIsQuiet'
<1> USE DEF TypeOK, DyingAlone, DestroyedIsQuiet, IoUnchanged, Goto, Dead
<1>1. ASSUME object # "destroyed", UNCHANGED <<object, thread, pc, within>>
      PROVE  DyingAlone' /\ DestroyedIsQuiet'
  BY <1>1
<1>2. CASE object = "destroyed" /\ IoThread
  BY <1>2 DEF IoThread, Dispatch, RunReturns, Handlers, Handle, HandleLength, ReadBody,
              HandleBody, Notify, HandlerThrows, Caught, CatchStops, CatchClears
<1>3. CASE object # "destroyed" /\ IoThread
  <2>1. CASE Notify
    <3>1. \A c \in Callers : pc'[c] = pc[c] \/ (pc[c] = "asleep" /\ pc'[c] = "woken")
      BY <2>1 DEF Notify, NotifyAll
    <3>2. UNCHANGED <<object, within>>
      BY <2>1 DEF Notify
    <3>3. QED
      BY <1>3, <3>1, <3>2
  <2>2. CASE ~Notify
    BY <1>1, <1>3, <2>2
    DEF IoThread, Dispatch, RunReturns, Handlers, Handle, HandleLength, ReadBody,
        HandleBody, HandlerThrows, Caught, CatchStops, CatchClears
  <2>3. QED
    BY <2>1, <2>2
<1>4. ASSUME NEW c \in Callers, Begin(c), ~Destroy(c)
      PROVE  DyingAlone' /\ DestroyedIsQuiet'
  <2>1. object = "alive" /\ object' = object /\ within[c] # "~Session"
    BY <1>4 DEF Begin, Start, StartFails, WaitReady, WaitSleeps, Use, Stop, Calls,
                CallerAt
  <2>2. \A d \in Callers : within[d] # "~Session"
    BY <2>1
  <2>3. \A d \in Callers : within'[d] # "~Session"
    BY <1>4, <2>2 DEF Begin, Start, StartFails, WaitReady, WaitSleeps, Use, Stop
  <2>4. QED
    BY <2>1, <2>3
<1>5. ASSUME NEW c \in Callers, Destroy(c)
      PROVE  DyingAlone' /\ DestroyedIsQuiet'
  <2>1. /\ \A d \in Callers \ {c} : pc[d] = "idle"
        /\ object = "alive" /\ object' = "dying"
        /\ pc' = [pc EXCEPT ![c] = "stop"]
        /\ within' = [within EXCEPT ![c] = "~Session"]
    BY <1>5 DEF Destroy, Calls
  <2>2. \A d \in Callers : within[d] # "~Session"
    BY <2>1
  <2>3. QED
    BY <2>1, <2>2
<1>6. ASSUME NEW c \in Callers, Assign(c) \/ UseEnds(c) \/ WaitGoesOn(c)
      PROVE  DyingAlone' /\ DestroyedIsQuiet'
  <2>1. /\ object # "destroyed" /\ object # "dead" /\ object' = object
        /\ pc[c] \in {"assign", "using", "asleep", "woken", "late"}
    BY <1>6 DEF Assign, UseEnds, WaitGoesOn, WaitReady, WaitSleeps, WaitTimesOut,
                WaitUnlocks, CallerAt, Calls
  <2>2. within[c] # "~Session" /\ object = "alive"
    BY <2>1
  <2>3. \A d \in Callers : within[d] # "~Session"
    BY <2>2
  <2>4. \A d \in Callers : within'[d] # "~Session"
    BY <1>6, <2>3 DEF Assign, UseEnds, WaitGoesOn, WaitReady, WaitSleeps, WaitTimesOut,
                      WaitUnlocks
  <2>5. QED
    BY <2>1, <2>2, <2>4
<1>7. ASSUME NEW c \in Callers, StopContext(c) \/ ClearReady(c) \/ Join(c) \/ Joined(c)
      PROVE  DyingAlone' /\ DestroyedIsQuiet'
  <2>1. /\ object # "destroyed" /\ UNCHANGED <<object, within>>
        /\ pc[c] # "idle"
        /\ \E at \in {"clear", "join", "joining", "reset"} : pc' = [pc EXCEPT ![c] = at]
    BY <1>7 DEF StopContext, ClearReady, Join, Joined, CallerAt
  <2>2. \A d \in Callers \ {c} : pc'[d] = pc[d]
    BY <2>1
  <2>3. pc'[c] \in {"stop", "clear", "join", "joining", "reset"}
    BY <2>1
  <2>4. QED
    BY <2>1, <2>2, <2>3
<1>8. ASSUME NEW c \in Callers, pc[c] # "idle", object # "dead", StopReturns(c),
             within[c] = "~Session" => io' \in {"none", "ended"} /\ ~thread'
      PROVE  DyingAlone' /\ DestroyedIsQuiet'
  <2>1. /\ pc' = [pc EXCEPT ![c] = "idle"]
        /\ within' = [within EXCEPT ![c] = "none"]
        /\ object' = IF within[c] = "~Session" THEN "destroyed" ELSE object
        /\ object # "destroyed"
    BY <1>8 DEF StopReturns
  <2>2. CASE within[c] = "~Session"
    <3>1. \A d \in Callers \ {c} : pc[d] = "idle"
      BY <2>2
    <3>2. \A d \in Callers : pc'[d] = "idle"
      BY <2>1, <3>1
    <3>3. \A d \in Callers : within'[d] # "~Session"
      BY <2>1, <3>1
    <3>4. QED
      BY <1>8, <2>1, <2>2, <3>2, <3>3
  <2>3. CASE within[c] # "~Session"
    <3>1. object' = object /\ object \notin {"dying", "destroyed", "dead"}
      BY <1>8, <2>1, <2>3
    <3>2. \A d \in Callers : within[d] # "~Session"
      BY <3>1
    <3>3. \A d \in Callers : within'[d] # "~Session"
      BY <2>1, <3>2
    <3>4. QED
      BY <3>1, <3>3
  <2>4. QED
    BY <2>2, <2>3
<1>9. ASSUME NEW c \in Callers, NothingToJoin(c)
      PROVE  DyingAlone' /\ DestroyedIsQuiet'
  <2>1. pc[c] = "join" /\ object # "dead" /\ StopReturns(c) /\ ~thread
    BY <1>9 DEF NothingToJoin, CallerAt
  <2>2. UNCHANGED <<io, thread>>
    BY <1>9 DEF NothingToJoin
  <2>3. ASSUME within[c] = "~Session"
        PROVE  io \in {"none", "ended"}
    <3>1. \A d \in Callers : pc[d] # "assign"
      BY <2>1, <2>3
    <3>2. QED
      BY <2>1, <3>1 DEF ThreadOwned
  <2>4. QED
    BY <1>8, <2>1, <2>2, <2>3
<1>10. ASSUME NEW c \in Callers, ResetThread(c)
       PROVE  DyingAlone' /\ DestroyedIsQuiet'
  <2>1. pc[c] = "reset" /\ object # "dead" /\ StopReturns(c)
    BY <1>10 DEF ResetThread, CallerAt
  <2>2. io' = io /\ thread' = FALSE /\ io = "ended"
    BY <1>10, <2>1 DEF ResetThread, ThreadOrder
  <2>3. QED
    BY <1>8, <2>1, <2>2
<1>11. ASSUME NEW c \in Callers, JoinTwice(c)
       PROVE  DyingAlone' /\ DestroyedIsQuiet'
  <2>1. pc[c] = "join" /\ object # "dead"
    BY <1>11 DEF JoinTwice, CallerAt
  <2>2. within[c] # "~Session"
    <3>1. PICK d \in Callers : pc[d] \in {"joining", "reset"}
      BY <1>11 DEF JoinTwice, Joining
    <3>2. d # c
      BY <2>1, <3>1
    <3>3. QED
      BY <3>1, <3>2
  <2>3. CASE StopReturns(c)
    BY <1>8, <2>1, <2>2, <2>3
  <2>4. CASE Crash
    BY <2>1, <2>4 DEF Crash
  <2>5. QED
    BY <1>11, <2>3, <2>4 DEF JoinTwice
<1>12. QED
  BY <1>2, <1>3, <1>4, <1>5, <1>6, <1>7, <1>9, <1>10, <1>11
  DEF Next, Caller, GoOn, StopGoesOn

\* Wait succeeds only when ready_ is set, and that is when the handshake is done.
LEMMA TruthStep ==
  ASSUME TypeOK, StageOrder, WaitTellsTheTruth, Next
  PROVE  WaitTellsTheTruth'
<1> USE DEF TypeOK, WaitTellsTheTruth, IoUnchanged
<1>1. CASE IoThread
  <2>1. told' = told
    BY <1>1 DEF IoThread, Dispatch, RunReturns, Handlers, Handle, HandleLength, ReadBody,
                HandleBody, Notify, HandlerThrows, Caught, CatchStops, CatchClears, callerVars
  <2>2. stage = "done" => stage' = "done"
    BY <1>1 DEF IoThread, Dispatch, RunReturns, Handlers, Handle, HandleLength, ReadBody,
                HandleBody, Notify, HandlerThrows, Caught, CatchStops, CatchClears, After
  <2>3. QED
    BY <2>1, <2>2
<1>2. ASSUME NEW c \in Callers, Caller(c)
      PROVE  WaitTellsTheTruth'
  <2>1. stage = "done" => stage' = "done"
    BY <1>2 DEF Caller, Begin, Start, StartFails, WaitReady, WaitSleeps, Use, Stop,
                Destroy, GoOn, Assign, WaitGoesOn, WaitTimesOut, WaitUnlocks, UseEnds,
                StopGoesOn, StopContext, ClearReady, NothingToJoin, Join, JoinTwice,
                Joined, ResetThread, Crash
  <2>2. \/ told' = told
        \/ told' = [told EXCEPT ![c] = "late"]
        \/ told' = [told EXCEPT ![c] = "ready"] /\ ready
    BY <1>2 DEF Caller, Begin, Start, StartFails, WaitReady, WaitSleeps, Use, Stop,
                Destroy, GoOn, Assign, WaitGoesOn, WaitTimesOut, WaitUnlocks, UseEnds,
                StopGoesOn, StopContext, ClearReady, NothingToJoin, Join, JoinTwice,
                Joined, ResetThread, Crash, StopReturns, Tell, callerVars
  <2>3. QED
    BY <2>1, <2>2 DEF StageOrder
<1>3. QED
  BY <1>1, <1>2 DEF Next

-----------------------------------------------------------------------------
(* The invariant, and what it gives. *)

\* The conjunction is inductive.
THEOREM Invariant == Spec => []IndInv
<1>1. Init => IndInv
  BY DEF Init, IndInv, TypeOK, Stages, StageOrder, NoLostWakeup, ThreadOrder, ThreadOwned,
         DyingAlone, DestroyedIsQuiet, WaitTellsTheTruth
<1>2. IndInv /\ [Next]_vars => IndInv'
  <2> SUFFICES ASSUME IndInv, [Next]_vars PROVE IndInv'
    OBVIOUS
  <2>1. CASE Next
    <3>1. TypeOK'
      BY <2>1, IoType, CallerType DEF Next, IndInv
    <3>2. StageOrder' /\ NoLostWakeup'
      BY <2>1, StageStep, WakeupStep DEF IndInv
    <3>3. ThreadOrder' /\ ThreadOwned'
      BY <2>1, ThreadStep DEF IndInv
    <3>4. DyingAlone' /\ DestroyedIsQuiet'
      BY <2>1, DyingStep DEF IndInv
    <3>5. WaitTellsTheTruth'
      BY <2>1, TruthStep DEF IndInv
    <3>6. QED
      BY <3>1, <3>2, <3>3, <3>4, <3>5 DEF IndInv
  <2>2. CASE UNCHANGED vars
    BY <2>2 DEF vars, IndInv, TypeOK, StageOrder, NoLostWakeup, ThreadOrder, ThreadOwned,
                DyingAlone, DestroyedIsQuiet, WaitTellsTheTruth
  <2>3. QED
    BY <2>1, <2>2
<1>3. QED
  BY <1>1, <1>2, PTL DEF Spec

\* Write and Read never follow a null dp_, however many callers there are
\* (session.h:239-259).
THEOREM DataPhaseAlways == Spec => []DataPhaseExists
<1>1. IndInv => DataPhaseExists
  BY DEF IndInv, StageOrder, DataPhaseExists
<1>2. QED
  BY <1>1, Invariant, PTL

\* No notification is lost (session.h:201-216, 671-675).
THEOREM WakeupsKept == Spec => []NoLostWakeup
<1>1. IndInv => NoLostWakeup
  BY DEF IndInv
<1>2. QED
  BY <1>1, Invariant, PTL

\* A running thread stays owned by thread_ (session.h:219-235, 299-313).
THEOREM ThreadStaysOwned == Spec => []ThreadOwned
<1>1. IndInv => ThreadOwned
  BY DEF IndInv
<1>2. QED
  BY <1>1, Invariant, PTL

\* Nothing runs on a destroyed session (session.h:183-188).
THEOREM DestructionQuiesces == Spec => []DestroyedIsQuiet
<1>1. IndInv => DestroyedIsQuiet
  BY DEF IndInv
<1>2. QED
  BY <1>1, Invariant, PTL

\* A Wait that succeeds saw the handshake done (session.h:201-216).
THEOREM WaitIsTruthful == Spec => []WaitTellsTheTruth
<1>1. IndInv => WaitTellsTheTruth
  BY DEF IndInv
<1>2. QED
  BY <1>1, Invariant, PTL

=============================================================================
