--------------------------- MODULE ListenerProofs ---------------------------
(***************************************************************************)
(* Proofs about the listener, for any sets of connections, hosts and keys  *)
(* and any limits.                                                         *)
(***************************************************************************)
EXTENDS Listener, FiniteSetTheorems, TLAPS

USE DEF Ban, Uncount, Counted, OverLimit

-----------------------------------------------------------------------------
(* The positions std::remove_if moves to. *)

\* The new place of kept entry i, and the entry that ends up at place p.
Rank(i) == Cardinality({j \in Kept : j <= i})

\* std::remove_if leaves as many pointers as it found, each an old one or null.
LEMMA CompactedType ==
  ASSUME TypeOK
  PROVE  /\ Compacted \in Seq(Sessions \cup {Null})
         /\ Len(Compacted) = Len(sessions)
         /\ DOMAIN Compacted = 1..Len(sessions)
<1> DEFINE n == Len(sessions)
<1>1. n \in Nat /\ \A i \in 1..n : sessions[i] \in Sessions \cup {Null}
  BY DEF TypeOK
<1>2. Kept \subseteq 1..n
  BY DEF Kept
<1>3. Compacted = [p \in 1..n |-> IF \E i \in Kept : Rank(i) = p
                 THEN sessions[CHOOSE i \in Kept : Rank(i) = p]
                 ELSE IF p \in Kept THEN Null ELSE sessions[p]]
  BY DEF Compacted, Rank
<1>4. ASSUME NEW p \in 1..n
      PROVE  Compacted[p] \in Sessions \cup {Null}
  BY <1>1, <1>2, <1>3
<1>5. QED
  BY <1>1, <1>3, <1>4

\* How many entries failed is a number.
LEMMA FailuresNat ==
  ASSUME TypeOK, NEW k
  PROVE  FailuresOf(k) \in Nat
<1> DEFINE F == {i \in 1..Len(sessions) : Failed(sessions[i]) /\ key[sessions[i]] = k}
<1>1. IsFiniteSet(1..Len(sessions))
  <2>1. Len(sessions) \in Nat
    BY DEF TypeOK
  <2>2. QED
    BY <2>1, FS_Interval
<1>2. IsFiniteSet(F)
  BY <1>1, FS_Subset
<1>3. QED
  BY <1>2, FS_CardinalityType DEF FailuresOf

-----------------------------------------------------------------------------
(* Types. *)

\* What is listed are sessions.
LEMMA ListedType ==
  ASSUME TypeOK
  PROVE  Listed \subseteq Sessions
BY DEF TypeOK, Listed

\* CleanSessions keeps the types.
LEMMA CleanType ==
  ASSUME TypeOK, CleanSessions
  PROVE  TypeOK'
<1> USE DEF TypeOK
<1>1. sessions' \in Seq(Sessions \cup {Null})
  BY CompactedType DEF CleanSessions
<1>2. PICK B \in SUBSET AnyKey :
        /\ blacklist' = blacklist \cup B
        /\ sessionCount' = [k \in AnyKey |->
                              IF k \in B THEN 0 ELSE sessionCount[k] + FailuresOf(k)]
  BY DEF CleanSessions
<1>3. sessionCount' \in [AnyKey -> Nat]
  BY <1>2, FailuresNat
<1>4. ready' \in [Sessions -> BOOLEAN]
  BY Zenon DEF CleanSessions, Destroy
<1>5. phase' \in [Sessions -> Phases]
  BY DEF CleanSessions, Destroy, Phases
<1>6. ctxStopped' \in BOOLEAN
  BY DEF CleanSessions, Destroy
<1>7. QED
  BY <1>1, <1>2, <1>3, <1>4, <1>5, <1>6 DEF CleanSessions, ownerVars

\* So does Accept's handler, ...
LEMMA AcceptType ==
  ASSUME TypeOK, AcceptStep
  PROVE  TypeOK'
<1> USE DEF TypeOK, Phases, sessionVars, counterVars, threadVars, ownerVars
<1>1. CASE AcceptError
  BY <1>1 DEF AcceptError
<1>2. ASSUME NEW s \in Sessions, AcceptGone(s)
      PROVE  TypeOK'
  BY <1>2 DEF AcceptGone
<1>3. ASSUME NEW s \in Sessions, NEW h \in Hosts, AcceptReject(s, h)
      PROVE  TypeOK'
  BY <1>3 DEF AcceptReject
<1>4. ASSUME NEW s \in Sessions, NEW h \in Hosts, AcceptNull(s, h)
      PROVE  TypeOK'
  BY <1>4 DEF AcceptNull, Crash
<1>5. ASSUME NEW s \in Sessions, NEW h \in Hosts, AcceptAdmit(s, h)
      PROVE  TypeOK'
  BY <1>5 DEF AcceptAdmit
<1>6. QED
  BY <1>1, <1>2, <1>3, <1>4, <1>5 DEF AcceptStep

\* ... a handler of a session, ...
LEMMA SessionType ==
  ASSUME TypeOK, SessionStep
  PROVE  TypeOK'
<1> USE DEF TypeOK, Phases, sessionVars, counterVars, threadVars, ownerVars,
            HandlerDone, AnyKey
<1>1. ASSUME NEW s \in Sessions, SessionProgress(s)
      PROVE  TypeOK'
  BY <1>1 DEF SessionProgress
<1>2. ASSUME NEW s \in Sessions, NEW k \in Keys, SessionConfirm(s, k)
      PROVE  TypeOK'
  BY <1>2 DEF SessionConfirm
<1>3. ASSUME NEW s \in Sessions, NEW k \in Keys, SessionMismatch(s, k)
      PROVE  TypeOK'
  BY <1>3 DEF SessionMismatch
<1>4. ASSUME NEW s \in Sessions, SessionReady(s)
      PROVE  TypeOK'
  BY <1>4 DEF SessionReady
<1>5. ASSUME NEW s \in Sessions, SessionFail(s)
      PROVE  TypeOK'
  BY <1>5 DEF SessionFail
<1>6. ASSUME NEW s \in Sessions, SessionFreed(s)
      PROVE  TypeOK'
  BY <1>6 DEF SessionFreed, Crash
<1>7. QED
  BY <1>1, <1>2, <1>3, <1>4, <1>5, <1>6 DEF SessionStep

\* ... and what the owner does.
LEMMA OwnerType ==
  ASSUME TypeOK, Start \/ Stop \/ Caller
  PROVE  TypeOK'
<1> USE DEF TypeOK, Phases, sessionVars, counterVars, threadVars, ownerVars
<1>1. CASE Start
  BY <1>1 DEF Start
<1>2. CASE StopSessions
  BY <1>2 DEF StopSessions, Crash
<1>3. CASE ClearSessions
  <2>1. ready' \in [Sessions -> BOOLEAN]
    BY <1>3, Zenon DEF ClearSessions, Destroy
  <2>2. sessions' \in Seq(Sessions \cup {Null})
    BY <1>3 DEF ClearSessions
  <2>3. /\ phase' \in [Sessions -> Phases]
        /\ ctxStopped' \in BOOLEAN
    BY <1>3 DEF ClearSessions, Destroy
  <2>4. QED
    BY <1>3, <2>1, <2>2, <2>3 DEF ClearSessions
<1>4. CASE StopContext
  BY <1>4 DEF StopContext
<1>5. CASE JoinThread
  BY <1>5 DEF JoinThread
<1>6. ASSUME NEW k \in AnyKey, Lookup(k)
      PROVE  TypeOK'
  <2>1. CASE Crash
    BY <2>1 DEF Crash
  <2>2. CASE ~Crash
    <3>1. PICK i \in 1..Len(sessions) : held' = held \cup {sessions[i]} /\ sessions[i] \in Sessions
      BY <1>6, <2>2 DEF Lookup
    <3>2. UNCHANGED <<sessions, sessionVars, counterVars, threadVars, mutex, owner>>
      BY <1>6, <2>2 DEF Lookup
    <3>3. QED
      BY <3>1, <3>2
  <2>3. QED
    BY <2>1, <2>2
<1>7. ASSUME NEW s \in Sessions, Release(s)
      PROVE  TypeOK'
  BY <1>7 DEF Release, Destroy
<1>8. ASSUME NEW s \in Sessions, StopSession(s)
      PROVE  TypeOK'
  BY <1>8 DEF StopSession
<1>9. QED
  BY <1>1, <1>2, <1>3, <1>4, <1>5, <1>6, <1>7, <1>8 DEF Stop, Caller

\* Every step keeps the types.
LEMMA TypeStep ==
  ASSUME TypeOK, [Next]_vars
  PROVE  TypeOK'
<1> USE DEF TypeOK, sessionVars, counterVars, threadVars, ownerVars
<1>1. CASE AcceptStep
  BY <1>1, AcceptType
<1>2. CASE CleanSessions
  BY <1>2, CleanType
<1>3. CASE CleanNull \/ CleanErased
  BY <1>3 DEF CleanNull, CleanErased, Crash
<1>4. CASE SessionStep
  BY <1>4, SessionType
<1>5. CASE Dispatch
  BY <1>5 DEF Dispatch, DispatchAccept, DispatchClean, DispatchSession
<1>6. CASE RunReturns
  BY <1>6 DEF RunReturns
<1>7. CASE Start \/ Stop \/ Caller
  BY <1>7, OwnerType
<1>8. CASE UNCHANGED vars
  BY <1>8 DEF vars
<1>9. QED
  BY <1>1, <1>2, <1>3, <1>4, <1>5, <1>6, <1>7, <1>8
  DEF Next, IoThread, CleanStep

\* The types hold at first.
LEMMA InitType ==
  ASSUME Init
  PROVE  TypeOK
<1>1. ready \in [Sessions -> BOOLEAN]
  BY Zenon DEF Init
<1>2. sessions \in Seq(Sessions \cup {Null})
  BY DEF Init
<1>3. /\ host \in [Sessions -> Hosts \cup {Null}]
      /\ key \in [Sessions -> AnyKey]
      /\ phase \in [Sessions -> Phases]
      /\ connectCount \in [Hosts -> Nat]
      /\ sessionCount \in [AnyKey -> Nat]
  BY DEF Init, AnyKey, Phases
<1>4. QED
  BY <1>1, <1>2, <1>3 DEF Init, TypeOK

\* Every variable keeps its type, for any sets and limits.
THEOREM TypeCorrect == Spec => []TypeOK
<1>1. Init => TypeOK
  BY InitType
<1>2. TypeOK /\ [Next]_vars => TypeOK'
  BY TypeStep
<1>3. QED
  BY <1>1, <1>2, PTL DEF Spec

-----------------------------------------------------------------------------
(* Pointers to live sessions. *)

\* Appending a session lists it.
LEMMA AppendListed ==
  ASSUME TypeOK, NEW s \in Sessions, sessions' = Append(sessions, s)
  PROVE  Listed' = Listed \cup {s}
<1>1. s # Null /\ Len(sessions) \in Nat
  BY ListenerAssumption DEF TypeOK
<1>2. Len(sessions') = Len(sessions) + 1
  BY DEF TypeOK
<1>3. sessions'[Len(sessions) + 1] = s
  BY DEF TypeOK
<1>4. \A i \in 1..Len(sessions) : sessions'[i] = sessions[i]
  BY DEF TypeOK
<1>5. ASSUME NEW x
      PROVE  x \in Listed' <=> x \in Listed \cup {s}
  <2>1. x \in Listed' <=> x # Null /\ \E i \in 1..(Len(sessions) + 1) : sessions'[i] = x
    BY <1>2 DEF Listed
  <2>2. x \in Listed <=> x # Null /\ \E i \in 1..Len(sessions) : sessions[i] = x
    BY DEF Listed
  <2>3. QED
    BY <1>1, <1>3, <1>4, <2>1, <2>2
<1>6. QED
  BY <1>5

\* CleanSessions lists what it listed, but for what it overwrote.
LEMMA CleanListed ==
  ASSUME TypeOK, CleanSessions
  PROVE  Listed' = Listed \ Overwritten
<1>1. sessions' = Compacted
  BY DEF CleanSessions
<1>2. /\ Len(Compacted) = Len(sessions)
      /\ Len(sessions) \in Nat
  BY CompactedType DEF TypeOK
<1>3. Kept \subseteq 1..Len(sessions)
  BY DEF Kept
<1>4. \A p \in 1..Len(sessions) :
        Compacted[p] # Null => \E i \in 1..Len(sessions) : Compacted[p] = sessions[i]
  BY <1>3 DEF Compacted
<1>5. QED
  BY <1>1, <1>2, <1>4 DEF Listed, Overwritten

\* Every action leaves the pointers alone but for these.
LEMMA DanglingStep ==
  ASSUME TypeOK, TypeOK', NoDangling, [Next]_vars
  PROVE  NoDangling'
<1> USE DEF NoDangling, TypeOK, Listed, sessionVars, counterVars, threadVars, ownerVars
<1>1. ASSUME NEW s \in Sessions, AcceptGone(s)
      PROVE  NoDangling'
  BY <1>1 DEF AcceptGone
<1>2. ASSUME NEW s \in Sessions, NEW h \in Hosts, AcceptReject(s, h)
      PROVE  NoDangling'
  BY <1>2 DEF AcceptReject
<1>3. ASSUME NEW s \in Sessions, NEW h \in Hosts, AcceptAdmit(s, h)
      PROVE  NoDangling'
  <2>1. Listed' = Listed \cup {s}
    BY <1>3, AppendListed DEF AcceptAdmit
  <2>2. phase' = [phase EXCEPT ![s] = "handshake"] /\ held' = held
    BY <1>3 DEF AcceptAdmit
  <2> HIDE DEF Listed
  <2>3. QED
    BY <2>1, <2>2, ListedType
<1>4. CASE CleanSessions
  <2>1. Listed' = Listed \ Overwritten
    BY <1>4, CleanListed
  <2>2. /\ held' = held
        /\ phase' = [s \in Sessions |-> IF s \in Overwritten \ held
                                        THEN "destroyed" ELSE phase[s]]
    BY <1>4 DEF CleanSessions, Destroy
  <2> HIDE DEF Listed
  <2>3. ASSUME NEW x \in (Listed \ Overwritten) \cup held
        PROVE  phase'[x] \notin {"unborn", "destroyed"}
    <3>1. x \in Sessions /\ x \notin Overwritten \ held
      BY ListedType
    <3>2. phase'[x] = phase[x]
      BY <2>2, <3>1
    <3>3. QED
      BY <3>2
  <2>4. QED
    BY <2>1, <2>2, <2>3
<1>5. CASE SessionStep
  <2>1. sessions' = sessions /\ (held' = held \/ held' = {})
    BY <1>5 DEF SessionStep, SessionProgress, SessionConfirm, SessionMismatch,
                SessionReady, SessionFail, SessionFreed, HandlerDone, Crash
  <2> DEFINE Moved == \A x \in Sessions : phase'[x] = phase[x] \/ phase'[x] \in
                               {"confirmed", "established", "failed"}
  <2>2. ASSUME NEW s \in Sessions, SessionFreed(s)
        PROVE  Moved
    BY <2>2 DEF SessionFreed, Crash
  <2>3. ASSUME NEW s \in Sessions, SessionProgress(s) \/ SessionReady(s) \/ SessionFail(s)
        PROVE  Moved
    BY <2>3 DEF SessionProgress, SessionReady, SessionFail
  <2>4. ASSUME NEW s \in Sessions, NEW k \in Keys, SessionConfirm(s, k) \/ SessionMismatch(s, k)
        PROVE  Moved
    BY <2>4 DEF SessionConfirm, SessionMismatch
  <2>5. Moved
    BY <1>5, <2>2, <2>3, <2>4 DEF SessionStep
  <2>6. Listed' = Listed /\ Listed \subseteq Sessions /\ held \subseteq Sessions
    BY <2>1, ListedType
  <2> HIDE DEF Listed, TypeOK
  <2>7. QED
    BY <2>1, <2>5, <2>6
<1>6. ASSUME NEW k \in AnyKey, Lookup(k)
      PROVE  NoDangling'
  BY <1>6, ListenerAssumption DEF Lookup, Crash
<1>7. ASSUME NEW s \in Sessions, Release(s)
      PROVE  NoDangling'
  BY <1>7, ListedType DEF Release, Destroy
<1>8. CASE ClearSessions
  BY <1>8, ListedType DEF ClearSessions, Destroy
<1>9. CASE StopSessions
  BY <1>9 DEF StopSessions, Crash
<1>10. ASSUME NEW s \in Sessions, NEW h \in Hosts, AcceptNull(s, h)
       PROVE  NoDangling'
  BY <1>10 DEF AcceptNull, Crash
<1>11. CASE CleanNull \/ CleanErased
  BY <1>11 DEF CleanNull, CleanErased, Crash
<1>12. CASE AcceptError \/ Dispatch \/ RunReturns \/ Start \/ StopContext \/ JoinThread
  BY <1>12 DEF AcceptError, Dispatch, DispatchAccept, DispatchClean, DispatchSession,
               RunReturns, Start, StopContext, JoinThread
<1>13. ASSUME NEW s \in Sessions, StopSession(s)
       PROVE  NoDangling'
  BY <1>13 DEF StopSession
<1>14. CASE UNCHANGED vars
  BY <1>14 DEF vars
<1>15. QED
  BY <1>1, <1>2, <1>3, <1>4, <1>5, <1>6, <1>7, <1>8, <1>9, <1>10, <1>11, <1>12, <1>13,
     <1>14
  DEF Next, IoThread, AcceptStep, CleanStep, Stop, Caller

-----------------------------------------------------------------------------
(* One session per host. *)

\* The actions that change the list, the hosts or the bans.
LEMMA ListSteps ==
  ASSUME [Next]_vars
  PROVE  \/ UNCHANGED <<sessions, host, connectCount, blacklist>>
         \/ \E s \in Sessions, h \in Hosts : AcceptReject(s, h) \/ AcceptAdmit(s, h)
         \/ CleanSessions
         \/ ClearSessions
<1> USE DEF sessionVars, counterVars, threadVars, ownerVars
<1>1. CASE AcceptStep
  BY <1>1 DEF AcceptStep, AcceptError, AcceptGone, AcceptNull, Crash
<1>2. CASE CleanNull \/ CleanErased
  BY <1>2 DEF CleanNull, CleanErased, Crash
<1>3. CASE SessionStep
  BY <1>3 DEF SessionStep, SessionProgress, SessionConfirm, SessionMismatch,
              SessionReady, SessionFail, SessionFreed, HandlerDone, Crash
<1>4. CASE Dispatch \/ RunReturns
  BY <1>4 DEF Dispatch, DispatchAccept, DispatchClean, DispatchSession, RunReturns
<1>5. CASE Start \/ StopSessions \/ StopContext \/ JoinThread
  BY <1>5 DEF Start, StopSessions, StopContext, JoinThread, Crash
<1>6. CASE Caller
  BY <1>6 DEF Caller, Lookup, Release, StopSession, Crash
<1>7. CASE UNCHANGED vars
  BY <1>7 DEF vars
<1>8. QED
  BY <1>1, <1>2, <1>3, <1>4, <1>5, <1>6, <1>7 DEF Next, IoThread, CleanStep, Stop

\* Two places of the compacted list that hold sessions hold those of two places
\* of the old one.
LEMMA CompactedSource ==
  ASSUME TypeOK
  PROVE  \E src \in [1..Len(sessions) -> 1..Len(sessions)] :
           /\ \A p \in 1..Len(sessions) :
                Compacted[p] # Null => Compacted[p] = sessions[src[p]]
           /\ \A p, q \in 1..Len(sessions) :
                Compacted[p] # Null /\ Compacted[q] # Null /\ src[p] = src[q] => p = q
<1> DEFINE n == Len(sessions)
           Moved(p) == \E i \in Kept : Rank(i) = p
           src == [p \in 1..n |-> IF Moved(p) THEN CHOOSE i \in Kept : Rank(i) = p
                                  ELSE p]
<1>1. Kept \subseteq 1..n
  BY DEF Kept
<1>2. Compacted = [p \in 1..n |->
         IF Moved(p) THEN sessions[CHOOSE i \in Kept : Rank(i) = p]
         ELSE IF p \in Kept THEN Null ELSE sessions[p]]
  BY DEF Compacted, Rank
<1> HIDE DEF Rank
<1>3. \A p \in 1..n : Moved(p) => src[p] \in Kept /\ Rank(src[p]) = p
  OBVIOUS
<1>4. src \in [1..n -> 1..n]
  BY <1>1, <1>3
<1>5. ASSUME NEW p \in 1..n, NEW q \in 1..n,
             Compacted[p] # Null, Compacted[q] # Null, src[p] = src[q]
      PROVE  p = q
  <2>1. CASE Moved(p) /\ Moved(q)
    BY <2>1, <1>3, <1>5
  <2>2. CASE Moved(p) /\ ~Moved(q)
    BY <2>2, <1>2, <1>3, <1>5
  <2>3. CASE ~Moved(p) /\ Moved(q)
    BY <2>3, <1>2, <1>3, <1>5
  <2>4. CASE ~Moved(p) /\ ~Moved(q)
    BY <2>4, <1>5
  <2>5. QED
    BY <2>1, <2>2, <2>3, <2>4
<1>6. ASSUME NEW p \in 1..n, Compacted[p] # Null
      PROVE  Compacted[p] = sessions[src[p]]
  BY <1>2, <1>6
<1> HIDE DEF src
<1>7. QED
  BY <1>4, <1>5, <1>6

\* Every step keeps sessions and their hosts apart.
LEMMA UniqueStep ==
  ASSUME TypeOK, NoDangling, UniqueHosts, [Next]_vars
  PROVE  UniqueHosts'
<1>1. CASE UNCHANGED <<sessions, host, connectCount, blacklist>>
  BY <1>1 DEF UniqueHosts
<1>2. ASSUME NEW s \in Sessions, NEW h \in Hosts, AcceptReject(s, h)
      PROVE  UniqueHosts'
  <2>1. /\ sessions' = sessions
        /\ host' = [host EXCEPT ![s] = h]
        /\ s \notin Listed
    BY <1>2 DEF AcceptReject, NoDangling
  <2>2. \A i \in 1..Len(sessions) :
          sessions[i] # Null => sessions[i] \in Sessions /\ sessions[i] # s
    BY <2>1 DEF Listed, TypeOK
  <2>3. \A i \in 1..Len(sessions) :
          sessions[i] # Null => host'[sessions[i]] = host[sessions[i]]
    BY <2>1, <2>2 DEF TypeOK
  <2>4. QED
    BY <2>1, <2>3 DEF UniqueHosts
<1>3. ASSUME NEW s \in Sessions, NEW h \in Hosts, AcceptAdmit(s, h)
      PROVE  UniqueHosts'
  <2>1. /\ sessions' = Append(sessions, s)
        /\ host' = [host EXCEPT ![s] = h]
        /\ Listed \cap FromHost(h) = {}
        /\ s \notin Listed
    BY <1>3 DEF AcceptAdmit, NoDangling
  <2>2. \A i \in 1..Len(sessions) :
          sessions[i] # Null => sessions[i] \in Listed /\ sessions[i] \in Sessions
    BY DEF Listed, TypeOK
  <2>3. \A i \in 1..Len(sessions) :
          sessions[i] # Null => sessions[i] # s /\ host[sessions[i]] # h
    BY <2>1, <2>2 DEF FromHost
  <2>4. \A i \in 1..Len(sessions') :
          \/ i \in 1..Len(sessions) /\ sessions'[i] = sessions[i]
          \/ i = Len(sessions) + 1 /\ sessions'[i] = s
    BY <2>1 DEF TypeOK
  <2>5. \A i \in 1..Len(sessions) :
          sessions[i] # Null => host'[sessions[i]] = host[sessions[i]]
    BY <2>1, <2>2, <2>3 DEF TypeOK
  <2>6. host'[s] = h
    BY <2>1 DEF TypeOK
  <2>7. ASSUME NEW i \in 1..Len(sessions'), NEW j \in 1..Len(sessions'), i # j,
               sessions'[i] # Null, sessions'[j] # Null
        PROVE  sessions'[i] # sessions'[j] /\ host'[sessions'[i]] # host'[sessions'[j]]
    <3>1. CASE i \in 1..Len(sessions) /\ j \in 1..Len(sessions)
      BY <3>1, <2>4, <2>5, <2>7 DEF UniqueHosts
    <3>2. CASE i = Len(sessions) + 1 /\ j \in 1..Len(sessions)
      BY <3>2, <2>1, <2>3, <2>4, <2>5, <2>6, <2>7 DEF TypeOK
    <3>3. CASE i \in 1..Len(sessions) /\ j = Len(sessions) + 1
      BY <3>3, <2>1, <2>3, <2>4, <2>5, <2>6, <2>7 DEF TypeOK
    <3>4. QED
      BY <3>1, <3>2, <3>3, <2>4, <2>7
  <2>8. QED
    BY <2>7 DEF UniqueHosts
<1>4. CASE CleanSessions
  <2>1. sessions' = Compacted /\ host' = host
    BY <1>4 DEF CleanSessions
  <2>2. Len(sessions') = Len(sessions)
    BY <2>1, CompactedType
  <2>3. QED
    BY <2>1, <2>2, CompactedSource DEF UniqueHosts
<1>5. CASE ClearSessions
  BY <1>5 DEF ClearSessions, UniqueHosts
<1>6. QED
  BY <1>1, <1>2, <1>3, <1>4, <1>5, ListSteps

-----------------------------------------------------------------------------
(* The connection counters. *)

\* No object is unborn again, and none is ready that is not born.
LEMMA BornOnce ==
  ASSUME TypeOK, [Next]_vars, NEW s \in Sessions, phase'[s] = "unborn"
  PROVE  phase[s] = "unborn" /\ (ready'[s] => ready[s])
<1> USE DEF TypeOK, sessionVars, counterVars, threadVars, ownerVars
<1>1. CASE AcceptStep
  BY <1>1 DEF AcceptStep, AcceptError, AcceptGone, AcceptReject, AcceptNull, AcceptAdmit,
              Crash
<1>2. CASE CleanNull \/ CleanErased
  BY <1>2 DEF CleanNull, CleanErased, Crash
<1>3. CASE CleanSessions
  BY <1>3 DEF CleanSessions, Destroy
<1>4. CASE SessionStep
  BY <1>4 DEF SessionStep, SessionProgress, SessionConfirm, SessionMismatch,
              SessionReady, SessionFail, SessionFreed, HandlerDone, Crash
<1>5. CASE Dispatch \/ RunReturns
  BY <1>5 DEF Dispatch, DispatchAccept, DispatchClean, DispatchSession, RunReturns
<1>6. CASE Start \/ StopSessions \/ StopContext \/ JoinThread
  BY <1>6 DEF Start, StopSessions, StopContext, JoinThread, Crash
<1>7. CASE ClearSessions
  BY <1>7 DEF ClearSessions, Destroy
<1>8. CASE Caller
  BY <1>8 DEF Caller, Lookup, Release, StopSession, Destroy, Crash
<1>9. CASE UNCHANGED vars
  BY <1>9 DEF vars
<1>10. QED
  BY <1>1, <1>2, <1>3, <1>4, <1>5, <1>6, <1>7, <1>8, <1>9
  DEF Next, IoThread, CleanStep, Stop

\* A host becomes known when its connection is counted.
LEMMA HostsKnownStep ==
  ASSUME TypeOK, NoDangling, HostsKnown, [Next]_vars
  PROVE  HostsKnown'
<1>1. CASE UNCHANGED <<sessions, host, connectCount, blacklist>>
  BY <1>1, BornOnce DEF HostsKnown, Listed
<1>2. ASSUME NEW s \in Sessions, NEW h \in Hosts, AcceptReject(s, h)
      PROVE  HostsKnown'
  <2>1. /\ sessions' = sessions
        /\ host' = [host EXCEPT ![s] = h]
        /\ phase'[s] = "destroyed"
    BY <1>2 DEF AcceptReject, TypeOK
  <2>2. QED
    BY <2>1, BornOnce DEF HostsKnown, TypeOK, Listed
<1>3. ASSUME NEW s \in Sessions, NEW h \in Hosts, AcceptAdmit(s, h)
      PROVE  HostsKnown'
  <2>1. /\ sessions' = Append(sessions, s)
        /\ host' = [host EXCEPT ![s] = h]
        /\ phase'[s] = "handshake"
    BY <1>3 DEF AcceptAdmit, TypeOK
  <2>2. Listed' = Listed \cup {s}
    BY <2>1, AppendListed
  <2>3. ASSUME NEW t \in Sessions, phase'[t] = "unborn"
        PROVE  host'[t] = Null /\ ~ready'[t]
    <3>1. phase[t] = "unborn" /\ ~ready'[t] /\ t # s
      BY <2>1, <2>3, BornOnce DEF HostsKnown
    <3>2. QED
      BY <2>1, <3>1 DEF HostsKnown, TypeOK
  <2>4. \A t \in Listed \cup {s} : host'[t] \in Hosts
    BY <2>1, ListedType DEF HostsKnown, TypeOK
  <2>5. QED
    BY <2>2, <2>3, <2>4 DEF HostsKnown
<1>4. CASE CleanSessions
  <2>1. host' = host
    BY <1>4 DEF CleanSessions
  <2>2. QED
    BY <1>4, <2>1, CleanListed, BornOnce DEF HostsKnown
<1>5. CASE ClearSessions
  BY <1>5, BornOnce DEF ClearSessions, HostsKnown, Listed
<1>6. QED
  BY <1>1, <1>2, <1>3, <1>4, <1>5, ListSteps

\* One more connection of a host is one more session from it.
LEMMA FromHostGrows ==
  ASSUME TypeOK, HostsKnown, NEW s \in Sessions, NEW h \in Hosts,
         phase[s] = "unborn", host' = [host EXCEPT ![s] = h]
  PROVE  /\ FromHost(h)' = FromHost(h) \cup {s}
         /\ s \notin FromHost(h)
         /\ IsFiniteSet(FromHost(h))
         /\ Cardinality(FromHost(h)') = Cardinality(FromHost(h)) + 1
         /\ \A g \in Hosts \ {h} : FromHost(g)' = FromHost(g)
<1>1. host[s] = Null /\ Null \notin Hosts
  BY ListenerAssumption DEF HostsKnown
<1>2. /\ FromHost(h)' = FromHost(h) \cup {s}
      /\ s \notin FromHost(h)
  BY <1>1 DEF FromHost, TypeOK
<1>3. \A g \in Hosts \ {h} : FromHost(g)' = FromHost(g)
  BY <1>1 DEF FromHost, TypeOK
<1>4. IsFiniteSet(FromHost(h))
  <2>1. FromHost(h) \subseteq Sessions
    BY DEF FromHost
  <2>2. QED
    BY <2>1, FS_Subset, ListenerAssumption
<1>5. QED
  BY <1>2, <1>3, <1>4, FS_AddElement

\* Every step keeps the counters exact.
LEMMA CountsStep ==
  ASSUME TypeOK, HostsKnown, CountsConnections, [Next]_vars
  PROVE  CountsConnections'
<1>1. CASE UNCHANGED <<sessions, host, connectCount, blacklist>>
  BY <1>1 DEF CountsConnections, FromHost
<1>2. ASSUME NEW s \in Sessions, NEW h \in Hosts, AcceptReject(s, h)
      PROVE  CountsConnections'
  <2>1. /\ blacklist' = blacklist \cup {h}
        /\ connectCount' = [connectCount EXCEPT ![h] = 0]
        /\ \A g \in Hosts \ {h} : FromHost(g)' = FromHost(g)
    BY <1>2, FromHostGrows DEF AcceptReject
  <2>2. ASSUME NEW g \in Hosts
        PROVE  connectCount'[g] = IF g \in blacklist' THEN 0
                                  ELSE Cardinality(FromHost(g)')
    <3>1. CASE g = h
      BY <2>1, <3>1 DEF TypeOK
    <3>2. CASE g # h
      BY <2>1, <3>2 DEF TypeOK, CountsConnections
    <3>3. QED
      BY <3>1, <3>2
  <2>3. QED
    BY <2>2 DEF CountsConnections
<1>3. ASSUME NEW s \in Sessions, NEW h \in Hosts, AcceptAdmit(s, h)
      PROVE  CountsConnections'
  <2>1. /\ blacklist' = blacklist
        /\ h \notin blacklist
        /\ connectCount' = [connectCount EXCEPT ![h] = @ + 1]
        /\ Cardinality(FromHost(h)') = Cardinality(FromHost(h)) + 1
        /\ \A g \in Hosts \ {h} : FromHost(g)' = FromHost(g)
    BY <1>3, FromHostGrows DEF AcceptAdmit, SpamOrBanned
  <2>2. ASSUME NEW g \in Hosts
        PROVE  connectCount'[g] = IF g \in blacklist' THEN 0
                                  ELSE Cardinality(FromHost(g)')
    <3>1. CASE g = h
      BY <2>1, <3>1 DEF TypeOK, CountsConnections
    <3>2. CASE g # h
      BY <2>1, <3>2 DEF TypeOK, CountsConnections
    <3>3. QED
      BY <3>1, <3>2
  <2>3. QED
    BY <2>2 DEF CountsConnections
<1>4. CASE CleanSessions
  <2>1. /\ host' = host
        /\ connectCount' = connectCount
        /\ blacklist' \cap Hosts = blacklist \cap Hosts
    BY <1>4, ListenerAssumption DEF CleanSessions, AnyKey
  <2>2. QED
    BY <2>1 DEF CountsConnections, FromHost
<1>5. CASE ClearSessions
  BY <1>5 DEF ClearSessions, CountsConnections, FromHost, counterVars
<1>6. QED
  BY <1>1, <1>2, <1>3, <1>4, <1>5, ListSteps

-----------------------------------------------------------------------------
(* What CleanSessions overwrites, it leaves a null pointer for. *)

\* Kept entries are finitely many.
LEMMA KeptFinite ==
  ASSUME TypeOK
  PROVE  Kept \subseteq 1..Len(sessions) /\ Kept \subseteq Nat /\ IsFiniteSet(Kept)
<1>1. Len(sessions) \in Nat
  BY DEF TypeOK
<1>2. IsFiniteSet(1..Len(sessions))
  BY <1>1, FS_Interval
<1>3. Kept \subseteq 1..Len(sessions)
  BY DEF Kept
<1>4. IsFiniteSet(Kept)
  BY <1>2, <1>3, FS_Subset
<1>5. QED
  BY <1>1, <1>3, <1>4

\* Two kept entries move to two places.
LEMMA RankInjective ==
  ASSUME TypeOK, NEW i \in Kept, NEW j \in Kept, Rank(i) = Rank(j)
  PROVE  i = j
<1>1. ASSUME NEW a \in Kept, NEW b \in Kept, a < b
      PROVE  Rank(a) # Rank(b)
  <2> DEFINE S == {k \in Kept : k <= a}
             T == {k \in Kept : k <= b}
  <2>1. S \subseteq T /\ b \in T /\ b \notin S
    BY <1>1, KeptFinite
  <2>2. IsFiniteSet(T)
    BY KeptFinite, FS_Subset
  <2>3. Cardinality(S) # Cardinality(T)
    BY <2>1, <2>2, FS_Subset
  <2>4. QED
    BY <2>3 DEF Rank
<1>2. i < j \/ j < i \/ i = j
  <2>1. i \in Nat /\ j \in Nat
    BY KeptFinite
  <2>2. QED
    BY <2>1
<1>3. ~(i < j) /\ ~(j < i)
  BY <1>1
<1>4. QED
  BY <1>2, <1>3

\* There are no more places moved to than entries kept.
LEMMA RanksFinite ==
  ASSUME TypeOK
  PROVE  /\ IsFiniteSet(Kept)
         /\ IsFiniteSet({Rank(i) : i \in Kept})
         /\ Cardinality({Rank(i) : i \in Kept}) <= Cardinality(Kept)
<1> DEFINE R == {Rank(i) : i \in Kept}
           f == [i \in Kept |-> Rank(i)]
<1>1. f \in Surjection(Kept, R)
  <2>1. f \in [Kept -> R]
    OBVIOUS
  <2>2. \A r \in R : \E i \in Kept : f[i] = r
    OBVIOUS
  <2>3. QED
    BY <2>1, <2>2 DEF Surjection
<1>2. IsFiniteSet(Kept)
  BY KeptFinite
<1> HIDE DEF f, R
<1>3. IsFiniteSet(R) /\ Cardinality(R) <= Cardinality(Kept)
  BY <1>1, <1>2, FS_Surjection
<1>4. QED
  BY <1>2, <1>3 DEF R

\* If CleanSessions loses a session, a null pointer is in sessions_ after it.
LEMMA OverwrittenLeavesNull ==
  ASSUME TypeOK, Overwritten # {}
  PROVE  \E p \in 1..Len(sessions) : Compacted[p] = Null
<1> SUFFICES ASSUME \A p \in 1..Len(sessions) : Compacted[p] # Null
             PROVE  FALSE
  OBVIOUS
<1> DEFINE n == Len(sessions)
           Moved(p) == \E i \in Kept : Rank(i) = p
<1>1. Kept \subseteq 1..n
  BY DEF Kept
<1>2. Compacted = [p \in 1..n |->
         IF Moved(p) THEN sessions[CHOOSE i \in Kept : Rank(i) = p]
         ELSE IF p \in Kept THEN Null ELSE sessions[p]]
  BY DEF Compacted, Rank
<1>3. PICK p \in 1..n : \A q \in 1..n : Compacted[q] # sessions[p]
  BY DEF Overwritten, Listed
<1>4. \A q \in Kept : Moved(q)
  BY <1>1, <1>2
<1>5. Kept = {Rank(i) : i \in Kept}
  <2>1. Kept \subseteq {Rank(i) : i \in Kept}
    BY <1>4
  <2>2. Cardinality(Kept) <= Cardinality({Rank(i) : i \in Kept})
    BY <2>1, RanksFinite, FS_Subset
  <2>3. Cardinality(Kept) = Cardinality({Rank(i) : i \in Kept})
    BY <2>2, RanksFinite, FS_CardinalityType
  <2>4. QED
    BY <2>1, <2>3, RanksFinite, FS_Subset
<1>6. CASE p \in Kept
  <2>1. Rank(p) \in 1..n /\ Moved(Rank(p))
    BY <1>1, <1>5, <1>6
  <2>2. \A i \in Kept : Rank(i) = Rank(p) => i = p
    BY <1>6, RankInjective
  <2>3. (CHOOSE i \in Kept : Rank(i) = Rank(p)) = p
    BY <1>6, <2>2
  <2>4. Compacted[Rank(p)] = sessions[p]
    BY <1>2, <2>1, <2>3
  <2>5. QED
    BY <1>3, <2>1, <2>4
<1>7. CASE p \notin Kept
  <2>1. ~Moved(p)
    BY <1>5, <1>7
  <2>2. Compacted[p] = sessions[p]
    BY <1>2, <1>7, <2>1
  <2>3. QED
    BY <1>3, <2>2
<1>8. QED
  BY <1>6, <1>7

\* Stop never lets the owner run again.
LEMMA OwnerBack ==
  ASSUME [Next]_vars, owner' \in {"new", "running"}
  PROVE  owner \in {"new", "running"}
<1> USE DEF sessionVars, counterVars, threadVars, ownerVars
<1>1. CASE AcceptStep
  BY <1>1 DEF AcceptStep, AcceptError, AcceptGone, AcceptReject, AcceptNull, AcceptAdmit,
              Crash
<1>2. CASE CleanStep
  BY <1>2 DEF CleanStep, CleanNull, CleanErased, CleanSessions, Crash
<1>3. CASE SessionStep
  BY <1>3 DEF SessionStep, SessionProgress, SessionConfirm, SessionMismatch,
              SessionReady, SessionFail, SessionFreed, HandlerDone, Crash
<1>4. CASE Dispatch \/ RunReturns
  BY <1>4 DEF Dispatch, DispatchAccept, DispatchClean, DispatchSession, RunReturns
<1>5. CASE Start \/ Stop
  BY <1>5 DEF Start, Stop, StopSessions, ClearSessions, StopContext, JoinThread, Crash
<1>6. CASE Caller
  BY <1>6 DEF Caller, Lookup, Release, StopSession, Crash
<1>7. CASE UNCHANGED vars
  BY <1>7 DEF vars
<1>8. QED
  BY <1>1, <1>2, <1>3, <1>4, <1>5, <1>6, <1>7 DEF Next, IoThread

\* CleanSessions loses someone only for a null pointer; nobody else loses any.
LEMMA NobodyLostStep ==
  ASSUME TypeOK, HostsKnown, NobodyLost, [Next]_vars
  PROVE  NobodyLost'
<1> SUFFICES ASSUME owner' \in {"new", "running"}, ~HasNull',
                    NEW t \in Sessions, host'[t] \in Hosts \ blacklist'
             PROVE  t \in Listed'
  BY DEF NobodyLost
<1>1. owner \in {"new", "running"}
  BY OwnerBack
<1>2. CASE UNCHANGED <<sessions, host, connectCount, blacklist>>
  BY <1>1, <1>2 DEF NobodyLost, HasNull, Listed
<1>3. ASSUME NEW s \in Sessions, NEW h \in Hosts, AcceptReject(s, h)
      PROVE  t \in Listed'
  BY <1>1, <1>3 DEF AcceptReject, NobodyLost, HasNull, Listed, TypeOK
<1>4. ASSUME NEW s \in Sessions, NEW h \in Hosts, AcceptAdmit(s, h)
      PROVE  t \in Listed'
  <2>1. Listed' = Listed \cup {s}
    BY <1>4, AppendListed DEF AcceptAdmit
  <2>2. ~HasNull /\ blacklist' = blacklist /\ host' = [host EXCEPT ![s] = h]
    BY <1>4 DEF AcceptAdmit
  <2>3. t # s => host[t] \in Hosts \ blacklist
    BY <2>2 DEF TypeOK
  <2>4. QED
    BY <1>1, <2>1, <2>2, <2>3 DEF NobodyLost
<1>5. CASE CleanSessions
  <2>1. sessions' = Compacted /\ host' = host /\ blacklist \subseteq blacklist' /\ ~HasNull
    BY <1>5 DEF CleanSessions
  <2>2. Overwritten = {}
    <3>1. Len(sessions') = Len(sessions)
      BY <2>1, CompactedType
    <3>2. ~\E p \in 1..Len(sessions) : Compacted[p] = Null
      BY <2>1, <3>1 DEF HasNull
    <3>3. QED
      BY <3>2, OverwrittenLeavesNull
  <2>3. Listed' = Listed
    BY <1>5, <2>2, CleanListed
  <2>4. QED
    BY <1>1, <2>1, <2>3 DEF NobodyLost
<1>6. CASE ClearSessions
  BY <1>6 DEF ClearSessions
<1>7. QED
  BY <1>2, <1>3, <1>4, <1>5, <1>6, ListSteps

\* A second connection of a host finds the first in sessions_, or a null pointer.
LEMMA OneConnectionStep ==
  ASSUME TypeOK, HostsKnown, NobodyLost, OneConnection, [Next]_vars
  PROVE  OneConnection'
<1> SUFFICES ASSUME owner' \in {"new", "running"}, NEW g \in Hosts \ blacklist'
             PROVE  Cardinality(FromHost(g)') <= 1
  BY DEF OneConnection
<1>1. owner \in {"new", "running"}
  BY OwnerBack
<1>2. CASE UNCHANGED <<sessions, host, connectCount, blacklist>>
  BY <1>1, <1>2 DEF OneConnection, FromHost
<1>3. ASSUME NEW s \in Sessions, NEW h \in Hosts, AcceptReject(s, h)
      PROVE  Cardinality(FromHost(g)') <= 1
  <2>1. g # h /\ g \notin blacklist
    BY <1>3 DEF AcceptReject
  <2>2. FromHost(g)' = FromHost(g)
    BY <1>3, <2>1, FromHostGrows DEF AcceptReject
  <2>3. QED
    BY <1>1, <2>1, <2>2 DEF OneConnection
<1>4. ASSUME NEW s \in Sessions, NEW h \in Hosts, AcceptAdmit(s, h)
      PROVE  Cardinality(FromHost(g)') <= 1
  <2>1. ~HasNull /\ Listed \cap FromHost(h) = {} /\ blacklist' = blacklist
    BY <1>4 DEF AcceptAdmit
  <2>2. CASE g = h
    <3>1. FromHost(h) \subseteq Listed
      BY <1>1, <2>1, <2>2 DEF NobodyLost, FromHost
    <3>2. FromHost(h) = {}
      BY <2>1, <3>1
    <3>3. Cardinality(FromHost(h)') = Cardinality(FromHost(h)) + 1
      BY <1>4, FromHostGrows DEF AcceptAdmit
    <3>4. QED
      BY <2>2, <3>2, <3>3, FS_EmptySet
  <2>3. CASE g # h
    <3>1. FromHost(g)' = FromHost(g)
      BY <1>4, <2>3, FromHostGrows DEF AcceptAdmit
    <3>2. QED
      BY <1>1, <2>1, <3>1 DEF OneConnection
  <2>4. QED
    BY <2>2, <2>3
<1>5. CASE CleanSessions
  <2>1. host' = host /\ blacklist \subseteq blacklist'
    BY <1>5 DEF CleanSessions
  <2>2. QED
    BY <1>1, <2>1 DEF OneConnection, FromHost
<1>6. CASE ClearSessions
  BY <1>6 DEF ClearSessions
<1>7. QED
  BY <1>2, <1>3, <1>4, <1>5, <1>6, ListSteps

-----------------------------------------------------------------------------
(* The order of Stop. *)

\* The lock is held for the first half of Stop, and a stopped context stays so.
LEMMA StopOrderStep ==
  ASSUME TypeOK, StopOrder, [Next]_vars
  PROVE  StopOrder'
<1> USE DEF StopOrder, sessionVars, counterVars, threadVars, ownerVars
<1>1. CASE AcceptStep
  BY <1>1 DEF AcceptStep, AcceptError, AcceptGone, AcceptReject, AcceptNull, AcceptAdmit,
              Crash
<1>2. CASE CleanStep
  <2>1. CASE CleanSessions
    <3>1. /\ ctxStopped' = (ctxStopped \/ Overwritten \ held # {})
          /\ mutex' = mutex
          /\ owner' = owner
          /\ io = "clean"
      BY <2>1 DEF CleanSessions, Destroy
    <3>2. QED
      BY <3>1
  <2>2. CASE CleanNull \/ CleanErased
    BY <2>2 DEF CleanNull, CleanErased, Crash
  <2>3. QED
    BY <1>2, <2>1, <2>2 DEF CleanStep
<1>3. CASE SessionStep
  BY <1>3 DEF SessionStep, SessionProgress, SessionConfirm, SessionMismatch,
              SessionReady, SessionFail, SessionFreed, HandlerDone, Crash
<1>4. CASE Dispatch \/ RunReturns
  BY <1>4 DEF Dispatch, DispatchAccept, DispatchClean, DispatchSession, RunReturns
<1>5. CASE Start
  BY <1>5 DEF Start
<1>6. CASE Stop
  <2>1. CASE StopSessions
    BY <2>1 DEF StopSessions, Crash
  <2>2. CASE ClearSessions
    BY <2>2 DEF ClearSessions
  <2>3. CASE StopContext \/ JoinThread
    BY <2>3 DEF StopContext, JoinThread
  <2>4. QED
    BY <1>6, <2>1, <2>2, <2>3 DEF Stop
<1>7. CASE Caller
  <2>1. ASSUME NEW k \in AnyKey, Lookup(k)
        PROVE  StopOrder'
    BY <2>1 DEF Lookup, Crash
  <2>2. ASSUME NEW s \in Sessions, Release(s)
        PROVE  StopOrder'
    <3>1. /\ ctxStopped' = (ctxStopped \/ {s} \ Listed # {})
          /\ UNCHANGED <<io, mutex, owner>>
      BY <2>2 DEF Release, Destroy
    <3>2. QED
      BY <3>1
  <2>3. ASSUME NEW s \in Sessions, StopSession(s)
        PROVE  StopOrder'
    BY <2>3 DEF StopSession
  <2>4. QED
    BY <1>7, <2>1, <2>2, <2>3 DEF Caller
<1>8. CASE UNCHANGED vars
  BY <1>8 DEF vars
<1>9. QED
  BY <1>1, <1>2, <1>3, <1>4, <1>5, <1>6, <1>7, <1>8 DEF Next, IoThread

-----------------------------------------------------------------------------
(* The invariant, and what it gives. *)

\* The conjunction of all of these is inductive.
THEOREM Invariant == Spec => []IndInv
<1>1. Init => IndInv
  <2> SUFFICES ASSUME Init PROVE IndInv
    OBVIOUS
  <2>1. TypeOK
    BY InitType
  <2>2. sessions = <<>> /\ Listed = {} /\ held = {}
    BY DEF Init, Listed
  <2>3. \A h \in Hosts : FromHost(h) = {}
    BY ListenerAssumption DEF Init, FromHost
  <2>4. \A h \in Hosts : Cardinality(FromHost(h)) = 0
    BY <2>3, FS_EmptySet
  <2>5. NoDangling /\ UniqueHosts
    BY <2>2 DEF NoDangling, UniqueHosts
  <2>6. HostsKnown /\ NobodyLost
    BY <2>2, ListenerAssumption DEF HostsKnown, NobodyLost, Init
  <2>7. CountsConnections /\ OneConnection
    BY <2>4 DEF CountsConnections, OneConnection, Init
  <2>8. StopOrder
    BY DEF Init, StopOrder
  <2>9. QED
    BY <2>1, <2>5, <2>6, <2>7, <2>8 DEF IndInv
<1>2. IndInv /\ [Next]_vars => IndInv'
  <2> SUFFICES ASSUME IndInv, [Next]_vars PROVE IndInv'
    OBVIOUS
  <2>1. TypeOK'
    BY TypeStep DEF IndInv
  <2>2. NoDangling' /\ UniqueHosts'
    BY <2>1, DanglingStep, UniqueStep DEF IndInv
  <2>3. HostsKnown' /\ CountsConnections'
    BY HostsKnownStep, CountsStep DEF IndInv
  <2>4. NobodyLost' /\ OneConnection' /\ StopOrder'
    BY NobodyLostStep, OneConnectionStep, StopOrderStep DEF IndInv
  <2>5. QED
    BY <2>1, <2>2, <2>3, <2>4 DEF IndInv
<1>3. QED
  BY <1>1, <1>2, PTL DEF Spec

\* No pointer in sessions_ or in the owner's hands is to a destroyed session
\* (listener.h:94-141, 188-203, 232-267).
THEOREM PointersLive == Spec => []NoDangling
<1>1. IndInv => NoDangling
  BY DEF IndInv
<1>2. QED
  BY <1>1, Invariant, PTL

\* sessions_ never holds two sessions of one host (listener.h:188-203).
THEOREM HostsUnique == Spec => []UniqueHosts
<1>1. IndInv => UniqueHosts
  BY DEF IndInv
<1>2. QED
  BY <1>1, Invariant, PTL

\* Whatever MaxConnections is, a host that is not banned has connected once at
\* most while the listener runs (listener.h:169-197).
THEOREM LimitNeverReached == Spec => []OneConnectionPerHost
<1>1. IndInv => OneConnectionPerHost
  BY DEF IndInv, OneConnection, OneConnectionPerHost
<1>2. QED
  BY <1>1, Invariant, PTL

\* After Stop no thread of the listener runs (listener.h:94-124).
THEOREM StopQuiesces == Spec => []StoppedIsQuiet
<1>1. IndInv => StoppedIsQuiet
  BY DEF IndInv, StopOrder, StoppedIsQuiet, TypeOK
<1>2. QED
  BY <1>1, Invariant, PTL

-----------------------------------------------------------------------------
(* What a step may not do. *)

\* A kept entry moves to the place of its rank.
LEMMA KeptMoves ==
  ASSUME TypeOK, NEW i \in Kept
  PROVE  Rank(i) \in 1..Len(sessions) /\ Compacted[Rank(i)] = sessions[i]
<1> DEFINE S == {j \in Kept : j <= i}
<1>1. i \in 1..Len(sessions) /\ Len(sessions) \in Nat
  BY KeptFinite DEF TypeOK
<1>2. S \subseteq 1..i /\ i \in S
  BY KeptFinite
<1>3. IsFiniteSet(1..i) /\ Cardinality(1..i) = i
  BY <1>1, FS_Interval
<1>4. IsFiniteSet(S) /\ Cardinality(S) <= i /\ Cardinality(S) \in Nat
  BY <1>2, <1>3, FS_Subset, FS_CardinalityType
<1>5. Cardinality(S) # 0
  BY <1>2, <1>4, FS_EmptySet
<1>6. Rank(i) \in 1..Len(sessions)
  BY <1>1, <1>4, <1>5 DEF Rank
<1>7. (CHOOSE j \in Kept : Rank(j) = Rank(i)) = i
  <2>1. \A j \in Kept : Rank(j) = Rank(i) => j = i
    BY RankInjective
  <2>2. QED
    BY <2>1
<1>8. Compacted = [p \in 1..Len(sessions) |->
         IF \E j \in Kept : Rank(j) = p THEN sessions[CHOOSE j \in Kept : Rank(j) = p]
         ELSE IF p \in Kept THEN Null ELSE sessions[p]]
  BY DEF Compacted, Rank
<1> HIDE DEF Rank
<1>9. Compacted[Rank(i)] = sessions[i]
  BY <1>6, <1>7, <1>8
<1>10. QED
  BY <1>6, <1>9

\* CleanSessions overwrites nobody who is ready and not banned.
LEMMA HealthyStays ==
  ASSUME TypeOK, NEW s \in Listed, ready[s], key[s] \notin blacklist
  PROVE  s \notin Overwritten
<1>1. PICK i \in 1..Len(sessions) : sessions[i] = s
  BY DEF Listed
<1>2. i \in Kept
  BY <1>1 DEF Kept, Failed
<1>3. Len(Compacted) = Len(sessions)
  BY CompactedType
<1>4. QED
  BY <1>1, <1>2, <1>3, KeptMoves DEF Overwritten

\* CleanSessions keeps every ready session that is not banned, wherever it and
\* the failed ones stand (listener.h:242-253).
THEOREM HealthySurvive == Spec => HealthyKept
<1>1. ASSUME TypeOK, [Next]_vars
      PROVE  [io = "clean" /\ io' = "idle" =>
                \A s \in Listed : ready[s] /\ key[s] \notin blacklist
                  => \E i \in 1..Len(sessions') : sessions'[i] = s]_vars
  <2> SUFFICES ASSUME io = "clean", io' = "idle", NEW s \in Listed, ready[s],
                      key[s] \notin blacklist
               PROVE  \E i \in 1..Len(sessions') : sessions'[i] = s
    OBVIOUS
  <2>1. s \in Listed'
    <3>1. CASE CleanSessions
      BY <1>1, <3>1, CleanListed, HealthyStays
    <3>2. ~ClearSessions
      BY DEF ClearSessions, counterVars
    <3>3. QED
      BY <1>1, <3>1, <3>2, ListSteps DEF AcceptReject, AcceptAdmit, Listed
  <2>2. QED
    BY <2>1 DEF Listed
<1>2. QED
  BY <1>1, TypeCorrect, PTL DEF Spec, HealthyKept

\* Nobody is taken off the blacklist (listener.h:152-267).
THEOREM BansStay == Spec => BansAreForever
<1>1. ASSUME [Next]_vars
      PROVE  [blacklist \subseteq blacklist']_vars
  BY <1>1, ListSteps DEF AcceptReject, AcceptAdmit, CleanSessions, ClearSessions,
                         counterVars
<1>2. QED
  BY <1>1, PTL DEF Spec, BansAreForever

-----------------------------------------------------------------------------
(* The listener keeps the promise of Admission. *)

\* A step of the listener is a step of Admission or leaves alone what it sees.
LEMMA AdmissionStep ==
  ASSUME TypeOK, NoDangling, HostsKnown, [Next]_vars
  PROVE  [A!Next]_(A!vars)
<1> USE DEF A!vars, A!Next
<1>1. CASE UNCHANGED <<sessions, host, connectCount, blacklist>>
  <2>1. Listed' = Listed /\ ActiveMap' = ActiveMap /\ blacklist' = blacklist
    BY <1>1 DEF Listed, ActiveMap
  <2>2. Healthy' \in SUBSET DOMAIN ActiveMap
    BY <2>1 DEF Healthy, ActiveMap
  <2>3. A!Change(Healthy')
    BY <2>1 DEF A!Change
  <2>4. QED
    BY <2>2, <2>3
<1>2. ASSUME NEW s \in Sessions, NEW h \in Hosts, AcceptReject(s, h)
      PROVE  A!TurnAway(h)
  <2>1. /\ sessions' = sessions /\ key' = key /\ ready' = ready
        /\ host' = [host EXCEPT ![s] = h]
        /\ blacklist' = blacklist \cup {h}
        /\ phase[s] = "unborn"
    BY <1>2 DEF AcceptReject
  <2>2. Listed' = Listed /\ s \notin Listed
    BY <2>1 DEF Listed, NoDangling
  <2>3. ActiveMap' = ActiveMap
    BY <2>1, <2>2, ListedType DEF ActiveMap, TypeOK
  <2>4. \A t \in Listed : key[t] # h
    BY ListedType, ListenerAssumption DEF TypeOK, AnyKey
  <2>5. Healthy' = Healthy
    BY <2>1, <2>2, <2>4 DEF Healthy
  <2>6. QED
    BY <2>1, <2>3, <2>5 DEF A!TurnAway
<1>3. ASSUME NEW s \in Sessions, NEW h \in Hosts, AcceptAdmit(s, h)
      PROVE  A!Admit(s, h)
  <2>1. /\ key' = key /\ ready' = ready /\ blacklist' = blacklist
        /\ host' = [host EXCEPT ![s] = h]
        /\ sessions' = Append(sessions, s)
        /\ phase[s] = "unborn" /\ h \notin blacklist
        /\ Listed \cap FromHost(h) = {}
    BY <1>3 DEF AcceptAdmit, SpamOrBanned
  <2>2. Listed' = Listed \cup {s} /\ s \notin Listed /\ DOMAIN ActiveMap = Listed
    BY <2>1, AppendListed DEF NoDangling, ActiveMap
  <2>3. ActiveMap' = [t \in Listed \cup {s} |-> IF t = s THEN h ELSE ActiveMap[t]]
    BY <2>1, <2>2, ListedType DEF ActiveMap, TypeOK
  <2>4. Healthy' = Healthy
    BY <2>1, <2>2 DEF Healthy, HostsKnown
  <2>5. {t \in Listed : ActiveMap[t] = h} = {}
    BY <2>1, ListedType DEF FromHost, ActiveMap
  <2>6. QED
    BY <2>1, <2>2, <2>3, <2>4, <2>5 DEF A!Admit, A!Serving
<1>4. CASE CleanSessions
  <2>1. PICK B \in SUBSET AnyKey : blacklist' = blacklist \cup B
    BY <1>4 DEF CleanSessions
  <2>2. Listed' = Listed \ Overwritten /\ host' = host /\ key' = key
    BY <1>4, CleanListed DEF CleanSessions
  <2>3. ready' = [s \in Sessions |-> IF s \in Overwritten \ held THEN FALSE ELSE ready[s]]
    BY <1>4 DEF CleanSessions, Destroy
  <2>4. Overwritten \in SUBSET DOMAIN ActiveMap /\ DOMAIN ActiveMap = Listed
    BY DEF Overwritten, ActiveMap
  <2>5. Overwritten \cap Healthy = {}
    BY HealthyStays DEF Healthy
  <2>6. ActiveMap' = [s \in DOMAIN ActiveMap \ Overwritten |-> ActiveMap[s]]
    BY <2>2, <2>4 DEF ActiveMap
  <2>7. Healthy' \subseteq Healthy
    BY <2>1, <2>2, <2>3, ListedType DEF Healthy
  <2>8. A!Sweep(Overwritten, B)
    BY <2>1, <2>5, <2>6, <2>7 DEF A!Sweep
  <2>9. QED
    BY <2>1, <2>4, <2>8
<1>5. CASE ClearSessions
  <2>1. Listed' = {} /\ blacklist' = blacklist
    BY <1>5 DEF ClearSessions, Listed, counterVars
  <2>2. ActiveMap' = [s \in {} |-> {}] /\ Healthy' = {}
    BY <2>1 DEF ActiveMap, Healthy
  <2>3. QED
    BY <2>1, <2>2 DEF A!Clear
<1>6. QED
  BY <1>1, <1>2, <1>3, <1>4, <1>5, ListSteps

\* The listener implements Admission: it lets in one session per host, never one
\* of a banned host, and drops none that is healthy but in Stop.
THEOREM Implements == Spec => ImplementsAdmission
<1>1. Init => A!Init
  <2> SUFFICES ASSUME Init PROVE A!Init
    OBVIOUS
  <2>1. Listed = {}
    BY DEF Init, Listed
  <2>2. QED
    BY <2>1 DEF Init, A!Init, ActiveMap, Healthy
<1>2. IndInv /\ [Next]_vars => [A!Next]_(A!vars)
  BY AdmissionStep DEF IndInv
<1>3. QED
  BY <1>1, <1>2, Invariant, PTL DEF Spec, ImplementsAdmission, A!Spec

=============================================================================
