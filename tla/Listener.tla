------------------------------ MODULE Listener ------------------------------
(***************************************************************************)
(* SessionListener (src/src/ntcp2/session/listener.h): the acceptor, the   *)
(* list of inbound sessions, the connection and failure counters and the   *)
(* blacklist.  Two threads act on them:                                    *)
(*   - the owner, which calls Start, Stop and, from any of its threads,    *)
(*     session(key), and may keep shared pointers to inbound sessions and  *)
(*     stop them;                                                          *)
(*   - the thread of Run, inside io_context::run().  It runs one handler   *)
(*     at a time: Accept's, CleanSessions, or one of an inbound session,   *)
(*     whose strand lives on the listener's own io_context.                *)
(* A handler is dispatched in one step and runs in another, so a Stop that *)
(* begins in between finds it in flight.  The handshake of a session is    *)
(* reduced to the instants the listener can observe: the peer's static key *)
(* is known, the session is ready, a handler threw.                        *)
(* A definition named Operation_Fault is Operation with a fault put in: a  *)
(* property is worth its run only if some fault breaks it.  Nothing below  *)
(* refers to them.                                                         *)
(***************************************************************************)
EXTENDS Naturals, Sequences, FiniteSets

CONSTANTS
  Sessions,         \* inbound Session objects, one for each connection
  Hosts,            \* connection keys: hashes of remote addresses
  Keys,             \* static Noise keys of remote routers
  ZeroKey,          \* remote_key_ of a session that has not read one yet
  Null,             \* a moved-from shared_ptr; also "no session"
  MaxConnections,   \* SessionMeta::MaxConnections
  MaxSessions       \* SessionMeta::MaxSessions

ASSUME ListenerAssumption ==
  /\ MaxConnections \in Nat
  /\ MaxSessions \in Nat
  /\ IsFiniteSet(Sessions)
  /\ Null \notin Sessions \cup Hosts
  /\ ZeroKey \notin Keys
  /\ Hosts \cap (Keys \cup {ZeroKey}) = {}

VARIABLES
  sessions,      \* sessions_
  host,          \* connect_key_ of each session
  key,           \* remote_key_ of each session
  ready,         \* ready_ of each session
  phase,         \* how far each session got
  connectCount,  \* connect_count_, 0 for an absent entry
  sessionCount,  \* session_count_, 0 for an absent entry
  blacklist,     \* blacklist_
  io,            \* what the thread of Run is doing
  cur,           \* the session whose handler is in flight
  ctxStopped,    \* io_context::stopped()
  mutex,         \* whether the owner holds sessions_mutex_
  owner,         \* where the owner is in Start and Stop
  held           \* sessions the owner keeps a shared_ptr to

sessionVars  == <<host, key, ready, phase>>
counterVars  == <<connectCount, sessionCount, blacklist>>
threadVars   == <<io, cur, ctxStopped>>
ownerVars    == <<mutex, owner, held>>
vars == <<sessions, sessionVars, counterVars, threadVars, ownerVars>>

AnyKey == Keys \cup {ZeroKey}
Phases == {"unborn", "handshake", "confirmed", "established", "failed",
           "destroyed"}

Init ==
  /\ sessions = <<>>
  /\ host = [s \in Sessions |-> Null]
  /\ key = [s \in Sessions |-> ZeroKey]
  /\ ready = [s \in Sessions |-> FALSE]
  /\ phase = [s \in Sessions |-> "unborn"]
  /\ connectCount = [h \in Hosts |-> 0]
  /\ sessionCount = [k \in AnyKey |-> 0]
  /\ blacklist = {}
  /\ io = "none"
  /\ cur = Null
  /\ ctxStopped = FALSE
  /\ mutex = FALSE
  /\ owner = "new"
  /\ held = {}

-----------------------------------------------------------------------------
Listed == {sessions[i] : i \in 1..Len(sessions)} \ {Null}

HasNull == \E i \in 1..Len(sessions) : sessions[i] = Null

\* std::find_if over sessions_ for a session of M meets a null pointer first.
NullBefore(M) ==
  \E i \in 1..Len(sessions) :
    /\ sessions[i] = Null
    /\ \A j \in 1..(i - 1) : sessions[j] \notin M

\* A null or dangling dereference is fatal to both threads.
Crash ==
  /\ io' = "dead"
  /\ owner' = "dead"
  /\ cur' = Null
  /\ mutex' = FALSE
  /\ held' = {}
  /\ UNCHANGED <<sessions, sessionVars, counterVars, ctxStopped>>

\* ~Session of every session in D: each one stops the context it runs on,
\* the listener's, and closes its socket.
Destroy(D) ==
  /\ phase' = [s \in Sessions |-> IF s \in D THEN "destroyed" ELSE phase[s]]
  /\ ready' = [s \in Sessions |-> IF s \in D THEN FALSE ELSE ready[s]]
  /\ ctxStopped' = (ctxStopped \/ D # {})

-----------------------------------------------------------------------------
(* The thread of Run. *)

DispatchAccept ==
  /\ io = "idle" /\ ~ctxStopped
  /\ io' = "accept"
  /\ UNCHANGED <<sessions, sessionVars, counterVars, cur, ctxStopped, ownerVars>>

\* The timer first expires after CleanTimeout and is waited for again without
\* a new expiry, so from then on it is always due.
DispatchClean ==
  /\ io = "idle" /\ ~ctxStopped
  /\ io' = "clean"
  /\ UNCHANGED <<sessions, sessionVars, counterVars, cur, ctxStopped, ownerVars>>

DispatchSession(s) ==
  /\ io = "idle" /\ ~ctxStopped
  /\ phase[s] \in {"handshake", "confirmed"}
  /\ io' = "session"
  /\ cur' = s
  /\ UNCHANGED <<sessions, sessionVars, counterVars, ctxStopped, ownerVars>>

\* run() returns once the context is stopped and no handler is in flight.
RunReturns ==
  /\ io = "idle" /\ ctxStopped
  /\ io' = "ended"
  /\ UNCHANGED <<sessions, sessionVars, counterVars, cur, ctxStopped, ownerVars>>

(* Accept's completion handler.  What throws leaves run(), and the thread of *)
(* Run ends without arming the acceptor again.                               *)

SpamOrBanned(h) ==
  \/ connectCount[h] + 1 > MaxConnections
  \/ h \in blacklist

FromHost(h) == {s \in Sessions : host[s] = h}

\* async_accept itself failed: the handler throws before it takes the lock.
AcceptError ==
  /\ io = "accept"
  /\ io' = "ended"
  /\ UNCHANGED <<sessions, sessionVars, counterVars, cur, ctxStopped, ownerVars>>

\* remote_endpoint() throws because the peer is gone: the new session dies
\* with its connection unrecorded.
AcceptGone(s) ==
  /\ io = "accept" /\ ~mutex
  /\ phase[s] = "unborn"
  /\ phase' = [phase EXCEPT ![s] = "destroyed"]
  /\ ctxStopped' = TRUE
  /\ io' = "ended"
  /\ UNCHANGED <<sessions, host, key, ready, counterVars, cur, ownerVars>>

Ban_Fresh(B) == blacklist' = B

Ban(B) == blacklist' = blacklist \cup B

\* A refused host is no longer counted.
Uncount(h) == connectCount' = [connectCount EXCEPT ![h] = 0]

AcceptReject(s, h) ==
  /\ io = "accept" /\ ~mutex
  /\ phase[s] = "unborn"
  /\ \/ SpamOrBanned(h)
     \/ /\ Listed \cap FromHost(h) # {}
        /\ ~NullBefore(FromHost(h))
  /\ Ban({h})
  /\ Uncount(h)
  /\ host' = [host EXCEPT ![s] = h]
  /\ phase' = [phase EXCEPT ![s] = "destroyed"]
  /\ ctxStopped' = TRUE
  /\ io' = "ended"
  /\ UNCHANGED <<sessions, key, ready, sessionCount, cur, ownerVars>>

AcceptNull(s, h) ==
  /\ io = "accept" /\ ~mutex
  /\ phase[s] = "unborn"
  /\ ~SpamOrBanned(h)
  /\ NullBefore(FromHost(h))
  /\ Crash

AcceptAdmit_Twice(s, h) ==
  /\ io = "accept" /\ ~mutex
  /\ phase[s] = "unborn"
  /\ ~SpamOrBanned(h)
  /\ ~HasNull
  /\ connectCount' = [connectCount EXCEPT ![h] = @ + 1]
  /\ host' = [host EXCEPT ![s] = h]
  /\ phase' = [phase EXCEPT ![s] = "handshake"]
  /\ sessions' = Append(sessions, s)
  /\ io' = "idle"
  /\ UNCHANGED <<key, ready, sessionCount, blacklist, cur, ctxStopped, ownerVars>>

AcceptAdmit(s, h) ==
  /\ io = "accept" /\ ~mutex
  /\ phase[s] = "unborn"
  /\ ~SpamOrBanned(h)
  /\ ~HasNull
  /\ Listed \cap FromHost(h) = {}
  /\ connectCount' = [connectCount EXCEPT ![h] = @ + 1]
  /\ host' = [host EXCEPT ![s] = h]
  /\ phase' = [phase EXCEPT ![s] = "handshake"]
  /\ sessions' = Append(sessions, s)
  /\ io' = "idle"
  /\ UNCHANGED <<key, ready, sessionCount, blacklist, cur, ctxStopped, ownerVars>>

(* CleanSessions. *)

Failed(s) == ~ready[s] \/ key[s] \in blacklist

Kept_Inverted == {i \in 1..Len(sessions) : Failed(sessions[i])}

Kept == {i \in 1..Len(sessions) : ~Failed(sessions[i])}

Compacted_Copied ==
  LET Rank(i) == Cardinality({j \in Kept : j <= i})
      At(p)   == IF \E i \in Kept : Rank(i) = p
                 THEN sessions[CHOOSE i \in Kept : Rank(i) = p]
                 ELSE sessions[p]
  IN [p \in 1..Len(sessions) |-> At(p)]

\* What std::remove_if leaves when nobody erases its tail: the kept pointers
\* moved to the front in order, and behind them the old entries, the kept ones
\* moved from.
Compacted ==
  LET Rank(i) == Cardinality({j \in Kept : j <= i})
      At(p)   == IF \E i \in Kept : Rank(i) = p
                 THEN sessions[CHOOSE i \in Kept : Rank(i) = p]
                 ELSE IF p \in Kept THEN Null ELSE sessions[p]
  IN [p \in 1..Len(sessions) |-> At(p)]

Overwritten == Listed \ {Compacted[i] : i \in 1..Len(sessions)}

FailuresOf(k) ==
  Cardinality({i \in 1..Len(sessions) : Failed(sessions[i]) /\ key[sessions[i]] = k})

Counted_Down == [k \in AnyKey |-> sessionCount[k] - FailuresOf(k)]

\* session_count_ once the predicate of the removal has counted, and the keys of
\* it that are over the limit.
Counted == [k \in AnyKey |-> sessionCount[k] + FailuresOf(k)]

OverLimit == {k \in AnyKey : Counted[k] > MaxSessions}

CleanNull ==
  /\ io = "clean" /\ ~mutex
  /\ HasNull
  /\ Crash

\* The second loop erases from session_count_ the entry its iterator stands on
\* and increments that iterator.  The freed node may still lead to the rest of
\* the map, look like its end, or be garbage: some of the keys over the limit
\* are blacklisted, at least the first one, or the process dies.
CleanErased ==
  /\ io = "clean" /\ ~mutex
  /\ ~HasNull
  /\ OverLimit # {}
  /\ Crash

CleanSessions ==
  /\ io = "clean" /\ ~mutex
  /\ ~HasNull
  /\ \E B \in SUBSET OverLimit :
       /\ OverLimit # {} => B # {}
       /\ Ban(B)
       /\ sessionCount' = [k \in AnyKey |-> IF k \in B THEN 0 ELSE Counted[k]]
  /\ sessions' = Compacted
  /\ Destroy(Overwritten \ held)
  /\ io' = "idle"
  /\ UNCHANGED <<host, key, connectCount, cur, ownerVars>>

(* A handler of an inbound session. *)

HandlerDone(s, at) ==
  /\ io = "session" /\ cur = s
  /\ phase[s] # "destroyed"
  /\ io' = at
  /\ cur' = Null
  /\ UNCHANGED <<sessions, host, counterVars, ctxStopped, ownerVars>>

\* SessionRequest read, SessionCreated written: nothing the listener sees.
SessionProgress(s) ==
  /\ phase[s] = "handshake"
  /\ HandlerDone(s, "idle")
  /\ UNCHANGED <<key, ready, phase>>

\* SessionConfirmed read: the static key of its first frame becomes key(), and
\* the router info of its second frame names the same key.
SessionConfirm(s, k) ==
  /\ phase[s] = "handshake"
  /\ HandlerDone(s, "idle")
  /\ key' = [key EXCEPT ![s] = k]
  /\ phase' = [phase EXCEPT ![s] = "confirmed"]
  /\ UNCHANGED ready

\* ... or names another one: the handler throws with key() already set.
SessionMismatch(s, k) ==
  /\ phase[s] = "handshake"
  /\ HandlerDone(s, "ended")
  /\ key' = [key EXCEPT ![s] = k]
  /\ phase' = [phase EXCEPT ![s] = "failed"]
  /\ UNCHANGED ready

\* The first data phase message is written.
SessionReady(s) ==
  /\ phase[s] = "confirmed"
  /\ HandlerDone(s, "idle")
  /\ ready' = [ready EXCEPT ![s] = TRUE]
  /\ phase' = [phase EXCEPT ![s] = "established"]
  /\ UNCHANGED key

\* A socket error or a message that does not authenticate: the handler throws.
SessionFail(s) ==
  /\ phase[s] \in {"handshake", "confirmed"}
  /\ HandlerDone(s, "ended")
  /\ phase' = [phase EXCEPT ![s] = "failed"]
  /\ UNCHANGED <<key, ready>>

\* The session was freed while its handler was in flight.
SessionFreed(s) ==
  /\ io = "session" /\ cur = s
  /\ phase[s] = "destroyed"
  /\ \/ Crash
     \/ /\ io' \in {"idle", "ended"}
        /\ cur' = Null
        /\ UNCHANGED <<sessions, sessionVars, counterVars, ctxStopped, ownerVars>>

-----------------------------------------------------------------------------
(* The owner. *)

Start ==
  /\ owner = "new"
  /\ owner' = "running"
  /\ io' = "idle"
  /\ UNCHANGED <<sessions, sessionVars, counterVars, cur, ctxStopped, mutex, held>>

\* session(key): a shared pointer to the first session with that key.
Lookup(k) ==
  /\ owner \notin {"new", "dead"} /\ ~mutex
  /\ LET M == {s \in Sessions : key[s] = k}
     IN IF NullBefore(M) THEN Crash
        ELSE /\ \E i \in 1..Len(sessions) :
                  /\ sessions[i] \in M
                  /\ \A j \in 1..(i - 1) : sessions[j] \notin M
                  /\ held' = held \cup {sessions[i]}
             /\ UNCHANGED <<sessions, sessionVars, counterVars, threadVars, mutex,
                            owner>>

Release_Owned(s) ==
  /\ s \in held
  /\ held' = held \ {s}
  /\ Destroy({s})
  /\ UNCHANGED <<sessions, host, key, counterVars, io, cur, mutex, owner>>

\* The last shared pointer to a session that the listener dropped goes away.
Release(s) ==
  /\ s \in held
  /\ held' = held \ {s}
  /\ Destroy({s} \ Listed)
  /\ UNCHANGED <<sessions, host, key, counterVars, io, cur, mutex, owner>>

\* Session::Stop by whoever holds the session, or by its Wait on a timeout.
StopSession(s) ==
  /\ s \in held
  /\ ready' = [ready EXCEPT ![s] = FALSE]
  /\ ctxStopped' = TRUE
  /\ UNCHANGED <<sessions, host, key, phase, counterVars, io, cur, ownerVars>>

\* Stop, under the lock: Stop of every session, ...
StopSessions ==
  /\ owner \in {"running", "stopped"} /\ ~mutex
  /\ IF HasNull THEN Crash
     ELSE /\ owner' = "stopping"
          /\ mutex' = TRUE
          /\ ready' = [s \in Sessions |-> ready[s] /\ s \notin Listed]
          /\ ctxStopped' = (ctxStopped \/ Listed # {})
          /\ UNCHANGED <<sessions, host, key, phase, counterVars, io, cur, held>>

ClearSessions_Locked ==
  /\ owner = "stopping"
  /\ owner' = "cleared"
  /\ mutex' = TRUE
  /\ sessions' = <<>>
  /\ Destroy(Listed \ held)
  /\ UNCHANGED <<host, key, counterVars, io, cur, held>>

\* ... sessions_.clear(), and the lock is released.
ClearSessions ==
  /\ owner = "stopping"
  /\ owner' = "cleared"
  /\ mutex' = FALSE
  /\ sessions' = <<>>
  /\ Destroy(Listed \ held)
  /\ UNCHANGED <<host, key, counterVars, io, cur, held>>

StopContext ==
  /\ owner = "cleared"
  /\ owner' = "joining"
  /\ ctxStopped' = TRUE
  /\ UNCHANGED <<sessions, sessionVars, counterVars, io, cur, mutex, held>>

JoinThread_Detached ==
  /\ owner = "joining"
  /\ owner' = "stopped"
  /\ UNCHANGED <<sessions, sessionVars, counterVars, threadVars, mutex, held>>

\* thread_->join() returns once the thread of Run has ended.
JoinThread ==
  /\ owner = "joining"
  /\ io = "ended"
  /\ owner' = "stopped"
  /\ UNCHANGED <<sessions, sessionVars, counterVars, threadVars, mutex, held>>

-----------------------------------------------------------------------------
AcceptStep ==
  \/ AcceptError
  \/ \E s \in Sessions :
       \/ AcceptGone(s)
       \/ \E h \in Hosts :
            \/ AcceptReject(s, h)
            \/ AcceptNull(s, h)
            \/ AcceptAdmit(s, h)

CleanStep == CleanNull \/ CleanErased \/ CleanSessions

SessionStep ==
  \E s \in Sessions :
    \/ SessionProgress(s)
    \/ \E k \in Keys : SessionConfirm(s, k) \/ SessionMismatch(s, k)
    \/ SessionReady(s)
    \/ SessionFail(s)
    \/ SessionFreed(s)

Dispatch ==
  \/ DispatchAccept
  \/ DispatchClean
  \/ \E s \in Sessions : DispatchSession(s)

IoThread == Dispatch \/ RunReturns \/ AcceptStep \/ CleanStep \/ SessionStep

Stop == StopSessions \/ ClearSessions \/ StopContext \/ JoinThread

Caller ==
  \/ \E k \in AnyKey : Lookup(k)
  \/ \E s \in Sessions : Release(s) \/ StopSession(s)

Next == IoThread \/ Start \/ Stop \/ Caller

Spec == Init /\ [][Next]_vars

\* A handler in flight ends, run() returns when its context is stopped, and a
\* Stop that has begun goes on: threads are scheduled and hold no lock forever.
\* Nothing says that a peer connects or that the owner ever calls Stop.
Fairness ==
  /\ WF_vars(RunReturns \/ AcceptStep \/ CleanStep \/ SessionStep)
  /\ WF_vars(ClearSessions \/ StopContext \/ JoinThread)

FairSpec == Spec /\ Fairness

-----------------------------------------------------------------------------
(* What holds. *)

\* The type of every variable.
TypeOK ==
  /\ sessions \in Seq(Sessions \cup {Null})
  /\ host \in [Sessions -> Hosts \cup {Null}]
  /\ key \in [Sessions -> AnyKey]
  /\ ready \in [Sessions -> BOOLEAN]
  /\ phase \in [Sessions -> Phases]
  /\ connectCount \in [Hosts -> Nat]
  /\ sessionCount \in [AnyKey -> Nat]
  /\ blacklist \subseteq Hosts \cup AnyKey
  /\ io \in {"none", "idle", "accept", "clean", "session", "ended", "dead"}
  /\ cur \in Sessions \cup {Null}
  /\ ctxStopped \in BOOLEAN
  /\ mutex \in BOOLEAN
  /\ owner \in {"new", "running", "stopping", "cleared", "joining", "stopped",
                "dead"}
  /\ held \subseteq Sessions

\* No two entries of sessions_ are the same session or come from the same
\* host, whatever Accept, the half-done removal of CleanSessions and Stop do
\* in between (listener.h:188-197 against 242-253).
UniqueHosts ==
  \A i, j \in 1..Len(sessions) :
    i # j /\ sessions[i] # Null /\ sessions[j] # Null
      => sessions[i] # sessions[j] /\ host[sessions[i]] # host[sessions[j]]

\* Every pointer in sessions_ and every pointer the owner keeps is to a live
\* session, although sessions are dropped by the listener's thread and
\* released by the owner's in any order.
NoDangling ==
  \A s \in Listed \cup held : phase[s] \notin {"unborn", "destroyed"}

\* While nobody calls Stop, a host that is not banned has made at most one
\* connection: what would let a second one in, CleanSessions dropping the first
\* from sessions_, leaves a null pointer there that the same search then meets.
\* So it is never the limit of MaxConnections that bans a host.
OneConnectionPerHost ==
  owner = "running" =>
    \A h \in Hosts \ blacklist : Cardinality(FromHost(h)) <= 1

\* A ready session that is not banned survives CleanSessions wherever its
\* neighbours in sessions_ stand (listener.h:242-253).
HealthyKept ==
  [][io = "clean" /\ io' = "idle" =>
       \A s \in Listed : ready[s] /\ key[s] \notin blacklist
                           => \E i \in 1..Len(sessions') : sessions'[i] = s]_vars

\* Nobody is ever taken off the blacklist.
BansAreForever == [][blacklist \subseteq blacklist']_vars

\* When Stop has returned the thread of Run is gone: no handler is in flight
\* and none will be.
StoppedIsQuiet == owner = "stopped" => io = "ended" /\ ctxStopped /\ ~mutex

\* A Stop that has begun returns, unless the process died: Stop does not join
\* while it holds the lock that a handler in flight needs (listener.h:100-116).
StopReturns ==
  owner \in {"stopping", "cleared", "joining"} ~> owner \in {"stopped", "dead"}

-----------------------------------------------------------------------------
(* What the proofs need besides. *)

\* A connection that was not accepted yet has no host and is not ready, and
\* the host of every session in sessions_ is known.
HostsKnown ==
  /\ \A s \in Sessions : phase[s] = "unborn" => host[s] = Null /\ ~ready[s]
  /\ \A s \in Listed : host[s] \in Hosts

\* What connect_count_ is worth as the code stands: the connections of a host that
\* is not banned are all in it, from the first one on.
CountsConnections ==
  \A h \in Hosts :
    connectCount[h] = IF h \in blacklist THEN 0 ELSE Cardinality(FromHost(h))

\* As long as no null pointer is in sessions_, everyone let in is still there.
NobodyLost ==
  owner \in {"new", "running"} /\ ~HasNull =>
    \A s \in Sessions : host[s] \in Hosts \ blacklist => s \in Listed

OneConnection ==
  owner \in {"new", "running"} =>
    \A h \in Hosts \ blacklist : Cardinality(FromHost(h)) <= 1

StopOrder ==
  /\ mutex <=> owner = "stopping"
  /\ owner \in {"joining", "stopped"} => ctxStopped
  /\ owner = "stopped" => io = "ended"

IndInv ==
  /\ TypeOK
  /\ NoDangling
  /\ UniqueHosts
  /\ HostsKnown
  /\ CountsConnections
  /\ NobodyLost
  /\ OneConnection
  /\ StopOrder

-----------------------------------------------------------------------------
(* The listener keeps the promise of Admission. *)

ActiveMap == [s \in Listed |-> host[s]]

Healthy == {s \in Listed : ready[s] /\ key[s] \notin blacklist}

A == INSTANCE Admission WITH
       Keys <- AnyKey, active <- ActiveMap, healthy <- Healthy, banned <- blacklist

\* Every step of the listener admits, turns away, sweeps or clears as
\* Admission allows, or changes nothing Admission sees.
ImplementsAdmission == A!Spec

-----------------------------------------------------------------------------
(* What the comments and tests of the repository say and the code does not. *)

\* listener.h:239, "remove failed and blacklisted sessions": after
\* CleanSessions no session that was failed or blacklisted is left.
CleanRemoves ==
  [][io = "clean" /\ io' = "idle" =>
       \A s \in Listed : Failed(s)
         => ~\E i \in 1..Len(sessions') : sessions'[i] = s]_vars

=============================================================================
