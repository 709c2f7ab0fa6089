------------------------------- MODULE Session -------------------------------
(***************************************************************************)
(* An outbound Session (src/src/ntcp2/session/session.h): the life of its  *)
(* thread, its socket's io_context, ready_ and the DataPhase it hands out. *)
(* Two kinds of thread act on it:                                          *)
(*   - the callers, which Start it, Wait for it, Write and Read through    *)
(*     it, Stop it and at last destroy it;                                 *)
(*   - the thread of Run, which executes the handlers of the handshake one *)
(*     after the other.  What a handler throws is caught in Run, which     *)
(*     calls Stop on its own thread.                                       *)
(* The messages of the handshake are the subject of module Handshake; here *)
(* each handler succeeds or throws.  Operation_Fault is Operation with a   *)
(* fault put in, to show that some property notices; nothing refers to it. *)
(***************************************************************************)
EXTENDS Naturals

CONSTANTS
  Callers,   \* threads that share the session
  Nobody     \* the owner of a mutex that is free

ASSUME SessionAssumption == Nobody \notin Callers

VARIABLES
  object,      \* "alive", "dying" in its destructor, or "destroyed"
  stage,       \* the completion handler that is due next
  dp,          \* whether dp_ points to a DataPhase
  ready,       \* ready_
  thread,      \* whether thread_ points to a std::thread
  io,          \* what that thread is doing
  ctxStopped,  \* io_context::stopped()
  mutex,       \* who holds ready_mutex_ from one step to the next
  pc,          \* what each caller is doing
  within,      \* the call in which a caller is stopping the session
  told         \* what the last Wait of each caller came to

shakeVars  == <<stage, dp>>
callerVars == <<pc, within, told>>
vars == <<object, shakeVars, ready, thread, io, ctxStopped, mutex, callerVars>>

Init ==
  /\ object = "alive"
  /\ stage = "new"
  /\ dp = FALSE
  /\ ready = FALSE
  /\ thread = FALSE
  /\ io = "none"
  /\ ctxStopped = FALSE
  /\ mutex = Nobody
  /\ pc = [c \in Callers |-> "idle"]
  /\ within = [c \in Callers |-> "none"]
  /\ told = [c \in Callers |-> "nothing"]

\* The handler that each handler arms before it returns.
After ==
  [connect   |-> "request",    \* Connect: connected, SessionRequest is sent
   request   |-> "created",    \* DoSessionRequest: sent
   created   |-> "reply",      \* HandleSessionCreated: readable
   reply     |-> "padding",    \* DoSessionCreated: read and processed
   padding   |-> "confirmed",  \* its padding read, SessionConfirmed is sent
   confirmed |-> "data",       \* DoSessionConfirmed: sent
   data      |-> "length",     \* HandleDataPhase: readable
   length    |-> "body",       \* DoDataPhase: the length read
   body      |-> "done"]       \* DoDataPhase: the first message read

Stages == {"new", "broken", "silent"} \cup DOMAIN After \cup {"done"}

\* Threads that dereference freed memory take the process with them.
Dead == object = "dead"

Crash ==
  /\ object' = "dead"
  /\ UNCHANGED <<shakeVars, ready, thread, io, ctxStopped, mutex, callerVars>>

-----------------------------------------------------------------------------
(* The thread of Run. *)

IoUnchanged == UNCHANGED <<object, thread, callerVars>>

\* The operation the next handler waits for completes.
Dispatch ==
  /\ ~Dead
  /\ io = "idle" /\ ~ctxStopped
  /\ stage \in DOMAIN After
  /\ io' = "handler"
  /\ IoUnchanged /\ UNCHANGED <<shakeVars, ready, ctxStopped, mutex>>

\* run() returns when the context is stopped, or for lack of work: the first
\* data phase message has come, or its length was zero.
RunReturns ==
  /\ ~Dead
  /\ io = "idle"
  /\ ctxStopped \/ stage \notin DOMAIN After
  /\ io' = "ended"
  /\ IoUnchanged /\ UNCHANGED <<shakeVars, ready, ctxStopped, mutex>>

\* A handler that does its part of the handshake and arms the next.
Handle ==
  /\ ~Dead
  /\ io = "handler"
  /\ stage \in DOMAIN After \ {"length", "body"}
  /\ stage' = After[stage]
  /\ io' = "idle"
  /\ IoUnchanged /\ UNCHANGED <<dp, ready, ctxStopped, mutex>>

HandleLength_Early ==
  /\ ~Dead
  /\ io = "handler"
  /\ stage = "length"
  /\ stage' \in {After[stage], "silent"}
  /\ io' = "idle"
  /\ IoUnchanged /\ UNCHANGED <<dp, ready, ctxStopped, mutex>>

\* The length of the first message makes the DataPhase, and is deobfuscated
\* with it; a zero length arms nothing.
HandleLength ==
  /\ ~Dead
  /\ io = "handler"
  /\ stage = "length"
  /\ dp' = TRUE
  /\ stage' \in {After[stage], "silent"}
  /\ io' = "idle"
  /\ IoUnchanged /\ UNCHANGED <<ready, ctxStopped, mutex>>

\* The first message is read and its RouterInfo compared: what is left of the
\* handler asks for ready_mutex_, and does not throw any more.
ReadBody ==
  /\ ~Dead
  /\ io = "handler"
  /\ stage = "body"
  /\ io' = "locking"
  /\ IoUnchanged /\ UNCHANGED <<shakeVars, ready, ctxStopped, mutex>>

HandleBody_Silent ==
  /\ ~Dead
  /\ io = "locking"
  /\ mutex = Nobody
  /\ ready' = TRUE
  /\ stage' = After["body"]
  /\ io' = "idle"
  /\ IoUnchanged /\ UNCHANGED <<dp, ctxStopped, mutex>>

\* ready_ is set under its lock, ...
HandleBody ==
  /\ ~Dead
  /\ io = "locking"
  /\ mutex = Nobody
  /\ ready' = TRUE
  /\ stage' = After["body"]
  /\ io' = "notify"
  /\ IoUnchanged /\ UNCHANGED <<dp, ctxStopped, mutex>>

\* Every sleeping caller wakes up.
NotifyAll == pc' = [c \in Callers |-> IF pc[c] = "asleep" THEN "woken" ELSE pc[c]]

\* ... and the waiting callers are notified after it.
Notify ==
  /\ ~Dead
  /\ io = "notify"
  /\ NotifyAll
  /\ io' = "idle"
  /\ UNCHANGED <<object, shakeVars, ready, thread, ctxStopped, mutex, within, told>>

\* A handler throws: an error of the socket, a message that does not
\* authenticate, a missing padding, another static key.  One that waits for
\* ready_mutex_ is past all of that.
HandlerThrows ==
  /\ ~Dead
  /\ io = "handler"
  /\ io' = "caught"
  /\ IoUnchanged /\ UNCHANGED <<shakeVars, ready, ctxStopped, mutex>>

\* Run calls Stop.  The thread may not join itself: join throws, Stop catches.
CatchStops ==
  /\ ~Dead
  /\ io = "caught"
  /\ ctxStopped' = TRUE
  /\ io' = "clearing"
  /\ IoUnchanged /\ UNCHANGED <<shakeVars, ready, mutex>>

CatchClears ==
  /\ ~Dead
  /\ io = "clearing"
  /\ ready' = FALSE
  /\ io' = "ended"
  /\ IoUnchanged /\ UNCHANGED <<shakeVars, ctxStopped, mutex>>

-----------------------------------------------------------------------------
(* The callers. *)

CallerAt(c, at) == ~Dead /\ pc[c] = at

\* Calls of an object in its destructor are the caller's error, not made here.
Calls(c) == CallerAt(c, "idle") /\ object = "alive"

Goto(c, at) == pc' = [pc EXCEPT ![c] = at]

\* Connect arms the first handler; Run makes the thread and then thread_.
Start(c) ==
  /\ Calls(c)
  /\ stage = "new"
  /\ stage' = "connect"
  /\ io' = "idle"
  /\ Goto(c, "assign")
  /\ UNCHANGED <<object, dp, ready, thread, ctxStopped, mutex, within, told>>

Assign(c) ==
  /\ CallerAt(c, "assign")
  /\ thread' = TRUE
  /\ Goto(c, "idle")
  /\ UNCHANGED <<object, shakeVars, ready, io, ctxStopped, mutex, within, told>>

\* The local endpoint cannot be bound: Start throws, with the socket open for
\* the next one to stumble over.
StartFails(c) ==
  /\ Calls(c)
  /\ stage = "new"
  /\ stage' = "broken"
  /\ UNCHANGED <<object, dp, ready, thread, io, ctxStopped, mutex, callerVars>>

(* Wait. *)

Tell_Within(c, what) == told' = [told EXCEPT ![c] = within[c]]

Tell(c, what) == told' = [told EXCEPT ![c] = what]

WaitReady_Woken(c) ==
  /\ (Calls(c) /\ ready) \/ CallerAt(c, "woken") \/ CallerAt(c, "asleep")
  /\ mutex = Nobody
  /\ pc' = [d \in Callers |-> IF d = c THEN "idle"
                              ELSE IF pc[d] = "asleep" THEN "woken" ELSE pc[d]]
  /\ Tell(c, "ready")
  /\ UNCHANGED <<object, shakeVars, ready, thread, io, ctxStopped, mutex, within>>

\* The predicate is asked when Wait begins, when its caller is woken, and when
\* the time is up or it wakes for no reason.  If it holds, the lock is released
\* and the other callers are notified.
WaitReady(c) ==
  /\ Calls(c) \/ CallerAt(c, "woken") \/ CallerAt(c, "asleep")
  /\ mutex = Nobody
  /\ ready
  /\ pc' = [d \in Callers |-> IF d = c THEN "idle"
                              ELSE IF pc[d] = "asleep" THEN "woken" ELSE pc[d]]
  /\ Tell(c, "ready")
  /\ UNCHANGED <<object, shakeVars, ready, thread, io, ctxStopped, mutex, within>>

\* If it does not hold, wait_for releases the lock as it falls asleep.
WaitSleeps(c) ==
  /\ Calls(c) \/ CallerAt(c, "woken")
  /\ mutex = Nobody
  /\ ~ready
  /\ Goto(c, "asleep")
  /\ UNCHANGED <<object, shakeVars, ready, thread, io, ctxStopped, mutex, within, told>>

\* If it does not hold when WaitTimeout is over, Wait goes on with the lock.
WaitTimesOut(c) ==
  /\ CallerAt(c, "asleep")
  /\ mutex = Nobody
  /\ ~ready
  /\ Goto(c, "late")
  /\ mutex' = c
  /\ UNCHANGED <<object, shakeVars, ready, thread, io, ctxStopped, within, told>>

WaitUnlocks_Never(c) ==
  /\ CallerAt(c, "late")
  /\ Goto(c, "stop")
  /\ within' = [within EXCEPT ![c] = "Wait"]
  /\ UNCHANGED <<object, shakeVars, ready, thread, io, ctxStopped, mutex, told>>

\* The lock is released before Stop.
WaitUnlocks(c) ==
  /\ CallerAt(c, "late")
  /\ mutex' = Nobody
  /\ Goto(c, "stop")
  /\ within' = [within EXCEPT ![c] = "Wait"]
  /\ UNCHANGED <<object, shakeVars, ready, thread, io, ctxStopped, told>>

(* Write and Read. *)

\* They ask ready_, without its lock, and then follow dp_.
Use(c) ==
  /\ Calls(c)
  /\ ready
  /\ Goto(c, "using")
  /\ UNCHANGED <<object, shakeVars, ready, thread, io, ctxStopped, mutex, within, told>>

UseEnds(c) ==
  /\ CallerAt(c, "using")
  /\ Goto(c, "idle")
  /\ UNCHANGED <<object, shakeVars, ready, thread, io, ctxStopped, mutex, within, told>>

(* Stop, called for itself, by Wait and by the destructor. *)

Stop(c) ==
  /\ Calls(c)
  /\ Goto(c, "stop")
  /\ within' = [within EXCEPT ![c] = "Stop"]
  /\ UNCHANGED <<object, shakeVars, ready, thread, io, ctxStopped, mutex, told>>

\* The destructor runs once no other caller keeps the session.
Destroy(c) ==
  /\ Calls(c)
  /\ \A d \in Callers \ {c} : pc[d] = "idle"
  /\ object' = "dying"
  /\ Goto(c, "stop")
  /\ within' = [within EXCEPT ![c] = "~Session"]
  /\ UNCHANGED <<shakeVars, ready, thread, io, ctxStopped, mutex, told>>

StopContext(c) ==
  /\ CallerAt(c, "stop")
  /\ ctxStopped' = TRUE
  /\ Goto(c, "clear")
  /\ UNCHANGED <<object, shakeVars, ready, thread, io, mutex, within, told>>

\* ready_ is cleared without its lock.
ClearReady(c) ==
  /\ CallerAt(c, "clear")
  /\ ready' = FALSE
  /\ Goto(c, "join")
  /\ UNCHANGED <<object, shakeVars, thread, io, ctxStopped, mutex, within, told>>

\* The end of Stop and of the call it was part of.
StopReturns(c) ==
  /\ Goto(c, "idle")
  /\ within' = [within EXCEPT ![c] = "none"]
  /\ IF within[c] = "Wait" THEN Tell(c, "late") ELSE UNCHANGED told
  /\ object' = IF within[c] = "~Session" THEN "destroyed" ELSE object

Joining == {d \in Callers : pc[d] \in {"joining", "reset"}}

NothingToJoin(c) ==
  /\ CallerAt(c, "join")
  /\ ~thread
  /\ StopReturns(c)
  /\ UNCHANGED <<shakeVars, ready, thread, io, ctxStopped, mutex>>

Join(c) ==
  /\ CallerAt(c, "join")
  /\ thread
  /\ Joining = {}
  /\ Goto(c, "joining")
  /\ UNCHANGED <<object, shakeVars, ready, thread, io, ctxStopped, mutex, within, told>>

\* Two callers join the same std::thread: the second join fails, which Stop
\* catches, or it follows a thread_ that the first is just resetting.
JoinTwice(c) ==
  /\ CallerAt(c, "join")
  /\ thread
  /\ Joining # {}
  /\ \/ /\ StopReturns(c)
        /\ UNCHANGED <<shakeVars, ready, thread, io, ctxStopped, mutex>>
     \/ Crash

Joined_Detached(c) ==
  /\ CallerAt(c, "joining")
  /\ Goto(c, "reset")
  /\ UNCHANGED <<object, shakeVars, ready, thread, io, ctxStopped, mutex, within, told>>

Joined(c) ==
  /\ CallerAt(c, "joining")
  /\ io = "ended"
  /\ Goto(c, "reset")
  /\ UNCHANGED <<object, shakeVars, ready, thread, io, ctxStopped, mutex, within, told>>

ResetThread(c) ==
  /\ CallerAt(c, "reset")
  /\ thread' = FALSE
  /\ StopReturns(c)
  /\ UNCHANGED <<shakeVars, ready, io, ctxStopped, mutex>>

-----------------------------------------------------------------------------
Handlers ==
  \/ Handle \/ HandleLength
  \/ ReadBody \/ HandleBody \/ Notify
  \/ HandlerThrows

Caught == CatchStops \/ CatchClears

IoThread == Dispatch \/ RunReturns \/ Handlers \/ Caught

\* What a caller may begin ...
Begin(c) ==
  \/ Start(c) \/ StartFails(c)
  \/ pc[c] = "idle" /\ (WaitReady(c) \/ WaitSleeps(c))
  \/ Use(c)
  \/ Stop(c)
  \/ Destroy(c)

\* ... and what it goes on with.
WaitGoesOn(c) ==
  \/ pc[c] \in {"asleep", "woken"} /\ WaitReady(c)
  \/ pc[c] = "woken" /\ WaitSleeps(c)
  \/ WaitTimesOut(c)
  \/ WaitUnlocks(c)

StopGoesOn(c) ==
  \/ StopContext(c) \/ ClearReady(c)
  \/ NothingToJoin(c) \/ Join(c) \/ JoinTwice(c) \/ Joined(c) \/ ResetThread(c)

GoOn(c) == Assign(c) \/ WaitGoesOn(c) \/ UseEnds(c) \/ StopGoesOn(c)

Caller(c) == Begin(c) \/ GoOn(c)

Next == IoThread \/ \E c \in Callers : Caller(c)

Spec == Init /\ [][Next]_vars

\* A handler in flight goes on, run() returns when it has nothing to wait for, a
\* timeout expires and a call goes on.  A thread that keeps asking for ready_mutex_
\* gets it if it is free again and again: that is strong fairness, and it says
\* nothing where a caller holds the mutex for good.  Nothing says that the peer
\* answers.
Fairness ==
  /\ WF_vars(RunReturns \/ Handlers \/ Caught)
  /\ SF_vars(HandleBody)
  /\ \A c \in Callers : WF_vars(GoOn(c)) /\ SF_vars(WaitGoesOn(c))

FairSpec == Spec /\ Fairness

-----------------------------------------------------------------------------
(* What holds. *)

\* The type of every variable.
TypeOK ==
  /\ object \in {"alive", "dying", "destroyed", "dead"}
  /\ stage \in Stages
  /\ dp \in BOOLEAN
  /\ ready \in BOOLEAN
  /\ thread \in BOOLEAN
  /\ io \in {"none", "idle", "handler", "locking", "notify", "caught", "clearing", "ended"}
  /\ ctxStopped \in BOOLEAN
  /\ mutex \in Callers \cup {Nobody}
  /\ pc \in [Callers -> {"idle", "assign", "asleep", "woken", "late", "using", "stop",
                         "clear", "join", "joining", "reset"}]
  /\ within \in [Callers -> {"none", "Wait", "Stop", "~Session"}]
  /\ told \in [Callers -> {"nothing", "ready", "late"}]

\* Whoever is past the test of ready_ in Write or Read finds a DataPhase behind
\* dp_, although ready_ is tested without its lock and another caller or the
\* failing thread may have cleared it since (session.h:239-259, 219-235).
DataPhaseExists == (ready \/ \E c \in Callers : pc[c] = "using") => dp

\* No caller sleeps on while the session is ready, unless the thread is just
\* about to notify it (session.h:201-216 against 671-675).
NoLostWakeup ==
  ready => \A c \in Callers : pc[c] = "asleep" => io = "notify"

\* thread_ is never reset, nor left for the destructor to terminate the process
\* over, while the thread runs: only Start has it run without thread_.
ThreadOwned ==
  io \notin {"none", "ended"} /\ ~thread => \E c \in Callers : pc[c] = "assign"

\* When the destructor is through, no thread is left that could touch the
\* session, and no std::thread that would terminate the process.
DestroyedIsQuiet ==
  object = "destroyed" => /\ io \in {"none", "ended"} /\ ~thread
                          /\ \A c \in Callers : pc[c] = "idle"

\* A Wait that returned without throwing saw the whole handshake: what it did
\* not miss by a Stop, a failure or its own timeout, all of which clear ready_.
WaitTellsTheTruth == \A c \in Callers : told[c] = "ready" => stage = "done"

\* Every call returns, whatever the peer does, unless the process died.  The thread
\* that Stop joins may be waiting for ready_mutex_ with the session's first message
\* read (session.h:671-675): a Wait that kept the lock while it stops the session
\* would wait for ever (208-212).
CallsReturn ==
  \A c \in Callers : pc[c] # "idle" ~> pc[c] = "idle" \/ Dead

-----------------------------------------------------------------------------
(* What the proofs need besides. *)

\* What the handshake has made by each stage.
StageOrder ==
  /\ dp <=> stage \in {"body", "silent", "done"}
  /\ ready => stage = "done"
  /\ io = "locking" => stage = "body"
  /\ io = "notify" => stage = "done"
  /\ \A c \in Callers : pc[c] = "using" => stage = "done"
  /\ stage \in {"new", "broken"} => io = "none"

\* Who may touch thread_ when.
ThreadOrder ==
  /\ io = "none" => ~thread
  /\ \A c \in Callers :
       /\ pc[c] = "assign" => io # "none"
       /\ pc[c] = "reset" => io = "ended"

\* The destructor runs alone.
DyingAlone ==
  /\ \A c \in Callers :
       within[c] = "~Session" => /\ object \in {"dying", "dead"}
                                 /\ pc[c] \in {"stop", "clear", "join", "joining", "reset"}
                                 /\ \A d \in Callers \ {c} : pc[d] = "idle"
  /\ \A c \in Callers : object = "dying" /\ pc[c] # "idle" => within[c] = "~Session"

IndInv ==
  /\ TypeOK
  /\ StageOrder
  /\ NoLostWakeup
  /\ ThreadOrder
  /\ ThreadOwned
  /\ DyingAlone
  /\ DestroyedIsQuiet
  /\ WaitTellsTheTruth

=============================================================================
