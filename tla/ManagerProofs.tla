--------------------------- MODULE ManagerProofs ----------------------------
(***************************************************************************)
(* Proofs about the manager, for any sets of sessions, destinations, keys  *)
(* and callers, and any assignment of keys to destinations.                *)
(***************************************************************************)
EXTENDS Manager, SequenceTheorems, WellFoundedInduction, TLAPS

-----------------------------------------------------------------------------
(* The invariant. *)

\* The steps of session(dest) that are taken with the lock.
Inside == {"ask v4", "follow v4", "ask v6", "follow v6", "decide", "create"}

\* Whoever is in session(dest) has the lock, and asks for a destination.
Locked == \A c \in Callers : pc[c] \in Inside => mutex = c /\ arg[c] \in Dests

\* What was found out under the lock stays true until it is released: that a
\* banned key is banned, and that there is no session yet.
Learned ==
  \A c \in Callers :
    /\ pc[c] \in Inside => (IdKey[arg[c]] \in blacklist => verdict[c])
    /\ pc[c] = "create" => ~Found(arg[c]) /\ ~verdict[c]

\* The list has every session once, and each has a destination.
NoTwice ==
  /\ \A i, j \in 1..Len(outs) : outs[i] = outs[j] => i = j
  /\ \A i \in 1..Len(outs) : dest[outs[i]] \in Dests

\* A session that is listed under the key of its identity is the first one with
\* that key: more than OnePerKey, since it is the first one that is banned.
FirstOfItsKey ==
  \A i, j \in 1..Len(outs) :
    j < i /\ Consistent(outs[i]) => KeyOf(outs[j]) # KeyOf(outs[i])

IInv == TypeOK /\ Locked /\ Learned /\ NoTwice /\ FirstOfItsKey /\ BannedStayOut /\ Reachable

-----------------------------------------------------------------------------
(* Lists. *)

\* If some session has the key, one is the first.
LEMMA FirstExists ==
  ASSUME NEW d, outs \in Seq(Outs), NEW i \in 1..Len(outs), KeyOf(outs[i]) = IdKey[d]
  PROVE  Found(d)
<1> DEFINE T == {j \in 1..Len(outs) : KeyOf(outs[j]) = IdKey[d]}
<1>1. T \subseteq Nat /\ T # {}
  OBVIOUS
<1>2. PICK j \in T : \A k \in T : ~(<<k, j>> \in OpToRel(<, Nat))
  BY <1>1, NatLessThanWellFounded, WFMin, Zenon
<1>3. \A k \in T : ~(k < j)
  BY <1>1, <1>2, Zenon DEF OpToRel
<1>4. IsFirst(j, d)
  BY <1>3 DEF IsFirst
<1>5. QED
  BY <1>4 DEF Found

\* Where the sessions are when the one at i is removed.
LEMMA Removed ==
  ASSUME NEW S, NEW q \in Seq(S), NEW i \in 1..Len(q)
  PROVE  /\ RemoveAt(q, i) \in Seq(S)
         /\ Len(RemoveAt(q, i)) = Len(q) - 1
         /\ \A j \in 1..(Len(q) - 1) :
              RemoveAt(q, i)[j] = IF j < i THEN q[j] ELSE q[j + 1]
<1> DEFINE front == SubSeq(q, 1, i - 1)
           back == SubSeq(q, i + 1, Len(q))
<1>1. front \in Seq(S) /\ back \in Seq(S)
  OBVIOUS
<1>2. /\ Len(front) = i - 1 /\ \A j \in 1..(i - 1) : front[j] = q[j]
      /\ Len(back) = Len(q) - i /\ \A j \in 1..(Len(q) - i) : back[j] = q[i + j]
  OBVIOUS
<1>3. RemoveAt(q, i) = front \o back
  BY DEF RemoveAt
<1> HIDE DEF front, back
<1>4. front \o back \in Seq(S) /\ Len(front \o back) = Len(q) - 1
  BY <1>1, <1>2
<1>5. ASSUME NEW j \in 1..(Len(q) - 1)
      PROVE  (front \o back)[j] = IF j < i THEN q[j] ELSE q[j + 1]
  <2>1. CASE j < i
    BY <1>1, <1>2, <2>1
  <2>2. CASE ~(j < i)
    <3>1. (front \o back)[j] = back[j - (i - 1)]
      BY <1>1, <1>2, <2>2
    <3>2. j - (i - 1) \in 1..(Len(q) - i) /\ i + (j - (i - 1)) = j + 1
      BY <2>2
    <3>3. QED
      BY <1>2, <2>2, <3>1, <3>2
  <2>3. QED
    BY <2>1, <2>2
<1>6. QED
  BY <1>3, <1>4, <1>5

-----------------------------------------------------------------------------
(* Types. *)

\* The types of the verdicts and of what else is true or false are proved apart.
Flags == verdict \in [Callers -> BOOLEAN] /\ dead \in BOOLEAN

Rest ==
  /\ outs \in Seq(Outs)
  /\ dest \in [Outs -> Dests \cup {Nobody}]
  /\ life \in [Outs -> {"unborn", "new", "running", "failed", "stopped", "destroyed"}]
  /\ held \subseteq Outs
  /\ blacklist \subseteq Keys
  /\ listeners \subseteq IPs
  /\ banned \in [IPs -> SUBSET Keys]
  /\ mutex \in Callers \cup {Nobody}
  /\ pc \in [Callers -> Steps]
  /\ arg \in [Callers -> Dests \cup {Nobody}]

LEMMA Types == TypeOK <=> Flags /\ Rest
BY Zenon DEF TypeOK, Flags, Rest

\* Where the steps with a listener lead.
LEMMA Names ==
  ASSUME NEW ip \in IPs
  PROVE  /\ AskAt[ip] \in Inside /\ FollowAt[ip] \in Inside /\ AskedAt[ip] \in Inside
         /\ AskAt[ip] # "create" /\ FollowAt[ip] # "create" /\ AskedAt[ip] # "create"
         /\ StopAt[ip] \in Steps \ Inside /\ ResetAt[ip] \in Steps \ Inside
         /\ StoppedAt[ip] \in Steps \ Inside
<1>1. CASE ip = "v4"
  BY <1>1 DEF AskAt, FollowAt, AskedAt, StopAt, ResetAt, StoppedAt, Steps, Inside
<1>2. CASE ip = "v6"
  BY <1>2 DEF AskAt, FollowAt, AskedAt, StopAt, ResetAt, StoppedAt, Steps, Inside
<1>3. QED
  BY <1>1, <1>2 DEF IPs

\* Everything Init says.
LEMMA InitIInv ==
  ASSUME Init
  PROVE  IInv
<1> USE DEF Init
<1>1. TypeOK
  <2>1. Flags
    BY Zenon DEF Flags
  <2>2. Rest
    BY DEF Rest, Steps, IPs
  <2>3. QED
    BY <2>1, <2>2, Types
<1>2. Locked /\ Learned
  BY DEF Locked, Learned, Inside
<1>3. NoTwice /\ FirstOfItsKey /\ BannedStayOut
  BY DEF NoTwice, FirstOfItsKey, BannedStayOut
<1>4. Reachable
  BY DEF Reachable, Listed
<1>5. QED
  BY <1>1, <1>2, <1>3, <1>4 DEF IInv

\* The flags keep their types whatever happens.
LEMMA FlagsStep ==
  ASSUME Flags, [Next]_vars
  PROVE  Flags'
<1> USE DEF Flags, Leave, Goto, Crash, sessionVars, listenerVars, callVars
<1>1. ASSUME NEW c \in Callers, Caller(c)
      PROVE  Flags'
  <2>1. ASSUME NEW d \in Dests, Ask(c, d)
        PROVE  Flags'
    <3>1. (IdKey[d] \in blacklist) \in BOOLEAN
      OBVIOUS
    <3>2. verdict' = [verdict EXCEPT ![c] = IdKey[d] \in blacklist] /\ UNCHANGED dead
      BY <2>1, Zenon DEF Ask
    <3>3. QED
      BY <3>1, <3>2, Zenon
  <2>2. ASSUME NEW ip \in IPs, TestListener(c, ip) \/ StopListener(c, ip) \/ ResetListener(c, ip)
        PROVE  Flags'
    BY <2>2, Zenon DEF TestListener, StopListener, ResetListener
  <2>3. ASSUME NEW ip \in IPs, FollowListener(c, ip)
        PROVE  Flags'
    BY <2>3, Zenon DEF FollowListener
  <2>4. CASE Refuse(c) \/ RefuseAndBan(c) \/ CreateThrows(c) \/ \E s \in Outs : Create(c, s)
    BY <2>4, Zenon DEF Refuse, RefuseAndBan, CreateThrows, Create
  <2>5. CASE Missed(c) \/ StopOuts(c)
    BY <2>5, Zenon DEF Missed, StopOuts
  <2>6. QED
    BY <1>1, <2>1, <2>2, <2>3, <2>4, <2>5, Zenon DEF Caller, SessionGoesOn, StopGoesOn
<1>2. CASE Around
  BY <1>2, Zenon DEF Around, StartSession, StopSession, FailSession, Release, SessionChange,
               ListenerBans
<1>3. CASE UNCHANGED vars
  BY <1>3, Zenon DEF vars
<1>4. QED
  BY <1>1, <1>2, <1>3, Zenon DEF Next

\* The steps of session(dest) keep the other types, ...
LEMMA SessionType ==
  ASSUME Rest, NoTwice, NEW c \in Callers,
         (\E d \in Dests : Ask(c, d)) \/ SessionGoesOn(c)
  PROVE  Rest'
<1> USE DEF Rest, sessionVars, listenerVars, callVars, Goto, Leave
<1>1. ASSUME NEW d \in Dests, Ask(c, d)
      PROVE  Rest'
  BY <1>1 DEF Ask, Steps
<1>2. ASSUME NEW ip \in IPs, TestListener(c, ip)
      PROVE  Rest'
  BY <1>2, Names DEF TestListener, Inside, Steps
<1>3. ASSUME NEW ip \in IPs, FollowListener(c, ip)
      PROVE  Rest'
  <2>1. UNCHANGED <<outs, dest, life, held, blacklist, listeners, banned, mutex, arg>>
    BY <1>3 DEF FollowListener, Crash
  <2>2. pc' = pc \/ pc' = [pc EXCEPT ![c] = AskedAt[ip]]
    BY <1>3 DEF FollowListener, Crash
  <2>3. AskedAt[ip] \in Steps
    BY Names DEF Inside, Steps
  <2>4. QED
    BY <2>1, <2>2, <2>3
<1>4. CASE Refuse(c) \/ CreateThrows(c)
  BY <1>4 DEF Refuse, CreateThrows, Steps
<1>5. CASE RefuseAndBan(c)
  <2>1. PICK i \in 1..Len(outs) :
          /\ blacklist' = blacklist \cup {KeyOf(outs[i])}
          /\ IsFirst(i, arg[c])
          /\ outs' = RemoveAt(outs, i)
          /\ Destroy(life, {outs[i]} \ held)
    BY <1>5 DEF RefuseAndBan
  <2>2. outs' \in Seq(Outs)
    BY <2>1, Removed
  <2>3. life' \in [Outs -> {"unborn", "new", "running", "failed", "stopped", "destroyed"}]
    BY <2>1 DEF Destroy
  <2>4. blacklist' \subseteq Keys
    BY <2>1, ManagerAssumption DEF NoTwice, KeyOf
  <2>5. UNCHANGED <<dest, held, listeners, banned>> /\ mutex' = Nobody
        /\ pc' = [pc EXCEPT ![c] = "idle"] /\ arg' = [arg EXCEPT ![c] = Nobody]
    BY <1>5 DEF RefuseAndBan
  <2>6. QED
    BY <2>2, <2>3, <2>4, <2>5 DEF Steps
<1>6. CASE Missed(c)
  BY <1>6 DEF Missed, Steps
<1>7. ASSUME NEW s \in Outs, Create(c, s)
      PROVE  Rest'
  <2>1. UNCHANGED <<blacklist, listeners, banned>> /\ mutex' = Nobody
        /\ pc' = [pc EXCEPT ![c] = "idle"] /\ arg' = [arg EXCEPT ![c] = Nobody]
    BY <1>7 DEF Create
  <2>2. /\ life' = [life EXCEPT ![s] = "new"] /\ dest' = [dest EXCEPT ![s] = arg[c]]
        /\ outs' = Append(outs, s) /\ held' = held \cup {s}
    BY <1>7 DEF Create
  <2>3. outs' \in Seq(Outs)
    BY <2>2, AppendProperties
  <2>4. "idle" \in Steps
    BY DEF Steps
  <2>5. pc' \in [Callers -> Steps] /\ arg' \in [Callers -> Dests \cup {Nobody}]
    BY <2>1, <2>4
  <2>6. dest' \in [Outs -> Dests \cup {Nobody}] /\ held' \subseteq Outs
    BY <2>2
  <2>7. life' \in [Outs -> {"unborn", "new", "running", "failed", "stopped", "destroyed"}]
    BY <2>2
  <2>8. QED
    BY <2>1, <2>3, <2>5, <2>6, <2>7
<1>8. QED
  BY <1>1, <1>2, <1>3, <1>4, <1>5, <1>6, <1>7 DEF SessionGoesOn

\* ... and so do those of Stop, ...
LEMMA StopType ==
  ASSUME Rest, NEW c \in Callers, StopOuts(c) \/ StopGoesOn(c)
  PROVE  Rest'
<1> USE DEF Rest, sessionVars, listenerVars, callVars, Goto
<1>1. CASE StopOuts(c)
  <2>1. life' \in [Outs -> {"unborn", "new", "running", "failed", "stopped", "destroyed"}]
    BY <1>1 DEF StopOuts, Destroy, StopOne
  <2>2. outs' = <<>> /\ pc' = [pc EXCEPT ![c] = "stop v4"]
        /\ UNCHANGED <<dest, held, blacklist, listenerVars, mutex, arg>>
    BY <1>1 DEF StopOuts
  <2>3. outs' \in Seq(Outs)
    BY ONLY <2>2, EmptySeq
  <2>4. pc' \in [Callers -> Steps]
    BY <2>2 DEF Steps
  <2>5. QED
    BY <2>1, <2>2, <2>3, <2>4
<1>2. ASSUME NEW ip \in IPs, StopListener(c, ip)
      PROVE  Rest'
  BY <1>2, Names DEF StopListener, Inside, Steps
<1>3. ASSUME NEW ip \in IPs, ResetListener(c, ip)
      PROVE  Rest'
  BY <1>3, Names DEF ResetListener, Crash, Inside, Steps
<1>4. QED
  BY <1>1, <1>2, <1>3 DEF StopGoesOn

\* ... and whatever goes on around the manager.
LEMMA AroundType ==
  ASSUME Rest, Around
  PROVE  Rest'
<1> USE DEF Rest, sessionVars, listenerVars, callVars
<1>1. ASSUME NEW s \in Outs, StartSession(s) \/ StopSession(s) \/ FailSession(s)
      PROVE  Rest'
  BY <1>1 DEF StartSession, StopSession, FailSession, SessionChange
<1>2. ASSUME NEW s \in Outs, Release(s)
      PROVE  Rest'
  BY <1>2 DEF Release, Destroy
<1>3. ASSUME NEW ip \in IPs, NEW k \in Keys, ListenerBans(ip, k)
      PROVE  Rest'
  BY <1>3 DEF ListenerBans
<1>4. QED
  BY <1>1, <1>2, <1>3 DEF Around

\* Every step keeps the types.
LEMMA TypeStep ==
  ASSUME IInv, [Next]_vars
  PROVE  TypeOK'
<1>1. Flags /\ Rest /\ NoTwice
  BY Types DEF IInv
<1>2. Flags'
  BY <1>1, FlagsStep
<1>3. Rest'
  <2>1. CASE UNCHANGED vars
    BY <1>1, <2>1 DEF Rest, vars, sessionVars, listenerVars, callVars
  <2>2. CASE Around
    BY <1>1, <2>2, AroundType
  <2>3. ASSUME NEW c \in Callers, Caller(c)
        PROVE  Rest'
    BY <1>1, <2>3, SessionType, StopType DEF Caller
  <2>4. QED
    BY <2>1, <2>2, <2>3 DEF Next
<1>4. QED
  <2>1. TypeOK' <=> Flags' /\ Rest'
    BY Zenon DEF TypeOK, Flags, Rest
  <2>2. QED
    BY <1>2, <1>3, <2>1, Zenon

-----------------------------------------------------------------------------
(* What those with the lock know. *)

\* Who leaves session(dest) is no longer inside, and the lock is free.
LEMMA LeftType ==
  ASSUME TypeOK, Locked, NEW c \in Callers, pc[c] \in Inside, Leave(c)
  PROVE  \A b \in Callers : pc'[b] \notin Inside
<1>1. \A b \in Callers : b # c => pc[b] \notin Inside
  BY DEF Locked
<1>2. pc' = [pc EXCEPT ![c] = "idle"] /\ pc \in [Callers -> Steps]
  BY DEF Leave, Goto, TypeOK
<1>3. QED
  BY <1>1, <1>2 DEF Inside

\* Nobody else is inside while somebody asks for a destination, ...
LEMMA AskLocked ==
  ASSUME IInv, NEW c \in Callers, NEW d \in Dests, Ask(c, d)
  PROVE  Locked' /\ Learned'
<1>1. \A b \in Callers : pc[b] \notin Inside
  BY ManagerAssumption DEF IInv, Locked, Ask
<1>2. /\ mutex' = c /\ blacklist' = blacklist
      /\ pc' = [pc EXCEPT ![c] = "ask v4"] /\ arg' = [arg EXCEPT ![c] = d]
      /\ verdict'[c] = (IdKey[d] \in blacklist)
  BY DEF IInv, TypeOK, Ask, Goto
<1>3. pc \in [Callers -> Steps] /\ arg \in [Callers -> Dests \cup {Nobody}]
  BY DEF IInv, TypeOK
<1>4. \A b \in Callers : pc'[b] \in Inside => b = c
  BY <1>1, <1>2, <1>3
<1>5. pc'[c] = "ask v4" /\ arg'[c] = d
  BY <1>2, <1>3
<1>6. Locked'
  BY <1>2, <1>4, <1>5 DEF Locked
<1>7. Learned'
  BY <1>2, <1>4, <1>5 DEF Learned, Inside
<1>8. QED
  BY <1>6, <1>7

\* ... or when somebody leaves with the lock, ...
LEMMA LeaveLocked ==
  ASSUME IInv, NEW c \in Callers,
         Refuse(c) \/ RefuseAndBan(c) \/ CreateThrows(c) \/ \E s \in Outs : Create(c, s)
  PROVE  Locked' /\ Learned'
<1>1. pc[c] \in Inside /\ Leave(c)
  BY DEF Refuse, RefuseAndBan, CreateThrows, Create, At, Inside
<1>2. \A b \in Callers : pc'[b] \notin Inside
  BY <1>1, LeftType DEF IInv
<1>3. QED
  BY <1>2 DEF Locked, Learned, Inside

\* ... and what one learned stays true while it goes on.
LEMMA OnLocked ==
  ASSUME IInv, NEW c \in Callers, UNCHANGED <<outs, dest, blacklist, arg>>, mutex' = mutex,
         NEW at, pc' = [pc EXCEPT ![c] = at],
         pc[c] \in Inside \/ at \notin Inside,
         \A b \in Callers : verdict[b] => verdict'[b],
         at = "create" => ~Found(arg[c]) /\ ~verdict'[c],
         \A b \in Callers : b # c => verdict'[b] = verdict[b]
  PROVE  Locked' /\ Learned'
<1>1. pc \in [Callers -> Steps]
  BY DEF IInv, TypeOK
<1>2. Locked'
  BY <1>1 DEF IInv, Locked
<1>3. \A b \in Callers : Found(arg[b])' <=> Found(arg[b])
  BY DEF Found, IsFirst, KeyOf
<1>4. ASSUME NEW b \in Callers
      PROVE  /\ pc'[b] \in Inside => (IdKey[arg'[b]] \in blacklist' => verdict'[b])
             /\ pc'[b] = "create" => ~Found(arg[b])' /\ ~verdict'[b]
  <2>1. CASE b = c
    BY <1>1, <1>3, <2>1 DEF IInv, Learned, Inside
  <2>2. CASE b # c
    BY <1>1, <1>3, <2>2 DEF IInv, Learned, Inside
  <2>3. QED
    BY <2>1, <2>2
<1>5. QED
  BY <1>2, <1>4 DEF Learned

\* Where nothing of it changes, it stays true.
LEMMA StillLocked ==
  ASSUME IInv, UNCHANGED <<outs, dest, blacklist, mutex, pc, arg, verdict>>
  PROVE  Locked' /\ Learned'
<1>1. \A c \in Callers : Found(arg[c])' <=> Found(arg[c])
  BY DEF Found, IsFirst, KeyOf
<1>2. QED
  BY <1>1 DEF IInv, Locked, Learned

\* Every step keeps what those with the lock know.
LEMMA LockStep ==
  ASSUME IInv, [Next]_vars
  PROVE  Locked' /\ Learned'
<1> USE DEF sessionVars, listenerVars, callVars
<1>1. ASSUME NEW c \in Callers, NEW d \in Dests, Ask(c, d)
      PROVE  Locked' /\ Learned'
  BY <1>1, AskLocked
<1>2. ASSUME NEW c \in Callers, NEW ip \in IPs, TestListener(c, ip)
      PROVE  Locked' /\ Learned'
  <2>1. PICK at \in {FollowAt[ip], AskedAt[ip]} : pc' = [pc EXCEPT ![c] = at]
    BY <1>2 DEF TestListener, Goto
  <2>2. at # "create" /\ pc[c] \in Inside
    BY <1>2, <2>1, Names DEF TestListener, At
  <2>3. UNCHANGED <<outs, dest, blacklist, arg, mutex, verdict>>
    BY <1>2 DEF TestListener
  <2>4. QED
    BY <2>1, <2>2, <2>3, OnLocked
<1>3. ASSUME NEW c \in Callers, NEW ip \in IPs, FollowListener(c, ip)
      PROVE  Locked' /\ Learned'
  <2>1. CASE ip \notin listeners
    BY <1>3, <2>1, StillLocked DEF FollowListener, Crash
  <2>2. CASE ip \in listeners
    <3>1. /\ UNCHANGED <<outs, dest, blacklist, arg, mutex>>
          /\ pc' = [pc EXCEPT ![c] = AskedAt[ip]] /\ pc[c] \in Inside
      BY <1>3, <2>2, Names DEF FollowListener, Goto, At
    <3>2. verdict' = [verdict EXCEPT ![c] = @ \/ IdKey[arg[c]] \in banned[ip]]
          /\ verdict \in [Callers -> BOOLEAN]
      BY <1>3, <2>2, Zenon DEF FollowListener, IInv, TypeOK
    <3>3. /\ \A b \in Callers : b # c => verdict'[b] = verdict[b]
          /\ \A b \in Callers : verdict[b] => verdict'[b]
      BY <3>2
    <3>4. AskedAt[ip] # "create"
      BY Names
    <3>5. QED
      BY <3>1, <3>3, <3>4, OnLocked
  <2>3. QED
    BY <2>1, <2>2
<1>4. ASSUME NEW c \in Callers,
             Refuse(c) \/ RefuseAndBan(c) \/ CreateThrows(c) \/ \E s \in Outs : Create(c, s)
      PROVE  Locked' /\ Learned'
  BY <1>4, LeaveLocked
<1>5. ASSUME NEW c \in Callers, Missed(c)
      PROVE  Locked' /\ Learned'
  <2>1. /\ UNCHANGED <<outs, dest, blacklist, arg, mutex, verdict>>
        /\ pc' = [pc EXCEPT ![c] = "create"] /\ pc[c] \in Inside
        /\ ~Found(arg[c]) /\ ~verdict[c]
    BY <1>5 DEF Missed, Goto, At, Inside
  <2>2. QED
    BY <2>1, OnLocked
<1>6. ASSUME NEW c \in Callers, StopOuts(c)
      PROVE  Locked' /\ Learned'
  <2>1. \A b \in Callers : pc[b] \notin Inside
    BY <1>6, ManagerAssumption DEF IInv, Locked, StopOuts
  <2>2. pc' = [pc EXCEPT ![c] = "stop v4"] /\ pc \in [Callers -> Steps]
    BY <1>6 DEF StopOuts, Goto, IInv, TypeOK
  <2>3. \A b \in Callers : pc'[b] \notin Inside
    BY <2>1, <2>2 DEF Inside
  <2>4. QED
    BY <2>3 DEF Locked, Learned, Inside
<1>7. ASSUME NEW c \in Callers, NEW ip \in IPs, StopListener(c, ip) \/ ResetListener(c, ip)
      PROVE  Locked' /\ Learned'
  <2>1. CASE pc' = pc
    BY <1>7, <2>1, StillLocked DEF StopListener, ResetListener, Crash
  <2>2. CASE pc' # pc
    <3>1. PICK at \in {ResetAt[ip], StoppedAt[ip]} : pc' = [pc EXCEPT ![c] = at]
      BY <1>7, <2>2 DEF StopListener, ResetListener, Crash, Goto
    <3>2. at \notin Inside /\ at # "create"
      BY <3>1, Names DEF Inside
    <3>3. UNCHANGED <<outs, dest, blacklist, arg, mutex, verdict>>
      BY <1>7 DEF StopListener, ResetListener, Crash
    <3>4. QED
      BY <3>1, <3>2, <3>3, OnLocked
  <2>3. QED
    BY <2>1, <2>2
<1>8. CASE Around
  BY <1>8, StillLocked DEF Around, StartSession, StopSession, FailSession, SessionChange, Release,
                           ListenerBans
<1>9. CASE UNCHANGED vars
  BY <1>9, StillLocked DEF vars
<1>10. QED
  BY <1>1, <1>2, <1>3, <1>4, <1>5, <1>6, <1>7, <1>8, <1>9
     DEF Next, Caller, SessionGoesOn, StopGoesOn

-----------------------------------------------------------------------------
(* The list. *)

ListInv == NoTwice /\ FirstOfItsKey /\ BannedStayOut

\* Removing the first session to a key and banning the key leaves the rest in order.
LEMMA BanList ==
  ASSUME IInv, NEW c \in Callers, RefuseAndBan(c)
  PROVE  ListInv'
<1>1. PICK i \in 1..Len(outs) :
        /\ IsFirst(i, arg[c])
        /\ blacklist' = blacklist \cup {KeyOf(outs[i])}
        /\ outs' = RemoveAt(outs, i)
  BY DEF RefuseAndBan
<1>2. dest' = dest /\ outs \in Seq(Outs)
  BY DEF RefuseAndBan, IInv, TypeOK
<1> DEFINE at(j) == IF j < i THEN j ELSE j + 1
<1>3. Len(outs') = Len(outs) - 1 /\ Len(outs) \in Nat
  BY <1>1, <1>2, Removed
<1>4. ASSUME NEW j \in 1..Len(outs')
      PROVE  at(j) \in 1..Len(outs) /\ at(j) # i /\ outs'[j] = outs[at(j)]
  BY <1>1, <1>2, <1>3, Removed
<1>5. \A j, k \in 1..Len(outs') : (at(j) = at(k) => j = k) /\ (j < k => at(j) < at(k))
  BY <1>3
<1> HIDE DEF at
<1>6. NoTwice'
  BY <1>2, <1>4, <1>5 DEF IInv, NoTwice
<1>7. ASSUME NEW s
      PROVE  KeyOf(s)' = KeyOf(s) /\ (Consistent(s)' <=> Consistent(s))
  BY <1>2 DEF KeyOf, Consistent
<1>8. FirstOfItsKey'
  BY <1>2, <1>4, <1>5 DEF IInv, FirstOfItsKey, KeyOf, Consistent
<1>9. ASSUME NEW j \in 1..Len(outs), j # i, Consistent(outs[j])
      PROVE  KeyOf(outs[j]) # KeyOf(outs[i])
  <2>1. CASE i < j
    BY <1>9, <2>1 DEF IInv, FirstOfItsKey
  <2>2. CASE j < i
    BY <1>1, <1>3, <2>2 DEF IsFirst
  <2>3. QED
    BY <1>3, <1>9, <2>1, <2>2
<1>10. BannedStayOut'
  BY <1>1, <1>2, <1>4, <1>9 DEF IInv, BannedStayOut, KeyOf, Consistent
<1>11. QED
  BY <1>6, <1>8, <1>10 DEF ListInv

\* A new session is the first with its key, if its key is that of its identity.
LEMMA CreateList ==
  ASSUME IInv, NEW c \in Callers, NEW s \in Outs, Create(c, s)
  PROVE  ListInv'
<1>1. /\ pc[c] = "create" /\ life[s] = "unborn" /\ blacklist' = blacklist
      /\ dest' = [dest EXCEPT ![s] = arg[c]] /\ outs' = Append(outs, s)
  BY DEF Create, At
<1>2. /\ outs \in Seq(Outs) /\ dest \in [Outs -> Dests \cup {Nobody}] /\ Len(outs) \in Nat
      /\ arg[c] \in Dests /\ ~Found(arg[c]) /\ IdKey[arg[c]] \notin blacklist
  <2>1. outs \in Seq(Outs) /\ dest \in [Outs -> Dests \cup {Nobody}] /\ Len(outs) \in Nat
    BY DEF IInv, TypeOK
  <2>2. arg[c] \in Dests
    BY <1>1 DEF IInv, Locked, Inside
  <2>3. ~Found(arg[c]) /\ IdKey[arg[c]] \notin blacklist
    BY <1>1, Zenon DEF IInv, Learned, Inside
  <2>4. QED
    BY <2>1, <2>2, <2>3
<1>3. Len(outs') = Len(outs) + 1 /\ outs'[Len(outs) + 1] = s
      /\ \A i \in 1..Len(outs) : outs'[i] = outs[i]
  BY <1>1, <1>2
<1>4. \A i \in 1..Len(outs) : outs[i] \in Outs /\ outs[i] # s
  BY <1>1, <1>2 DEF IInv, Reachable, Listed
<1>5. \A i \in 1..Len(outs) : dest'[outs'[i]] = dest[outs[i]]
  BY <1>1, <1>2, <1>3, <1>4
<1>6. dest'[s] = arg[c]
  BY <1>1, <1>2
<1>7. \A i \in 1..Len(outs) : KeyOf(outs[i]) # IdKey[arg[c]]
  BY <1>2, FirstExists
<1>8. NoTwice'
  BY <1>2, <1>3, <1>4, <1>5, <1>6 DEF IInv, NoTwice
<1>9. FirstOfItsKey'
  <2> SUFFICES ASSUME NEW i \in 1..Len(outs'), NEW j \in 1..Len(outs'), j < i, Consistent(outs[i])'
               PROVE  KeyOf(outs[j])' # KeyOf(outs[i])'
    BY DEF FirstOfItsKey
  <2>1. CASE i = Len(outs) + 1
    BY <1>2, <1>3, <1>5, <1>6, <1>7, <2>1 DEF KeyOf, Consistent
  <2>2. CASE i # Len(outs) + 1
    BY <1>2, <1>3, <1>5, <2>2 DEF IInv, FirstOfItsKey, KeyOf, Consistent
  <2>3. QED
    BY <2>1, <2>2
<1>10. BannedStayOut'
  <2> SUFFICES ASSUME NEW i \in 1..Len(outs'), Consistent(outs[i])'
               PROVE  KeyOf(outs[i])' \notin blacklist'
    BY DEF BannedStayOut
  <2>1. CASE i = Len(outs) + 1
    BY <1>1, <1>2, <1>3, <1>6, <2>1 DEF KeyOf, Consistent
  <2>2. CASE i # Len(outs) + 1
    BY <1>1, <1>2, <1>3, <1>5, <2>2 DEF IInv, BannedStayOut, KeyOf, Consistent
  <2>3. QED
    BY <2>1, <2>2
<1>11. QED
  BY <1>8, <1>9, <1>10 DEF ListInv

\* Every step keeps the list in order.
LEMMA ListStep ==
  ASSUME IInv, [Next]_vars
  PROVE  ListInv'
<1> USE DEF sessionVars, listenerVars, callVars
<1>1. ASSUME UNCHANGED <<outs, dest, blacklist>>
      PROVE  ListInv'
  BY <1>1 DEF IInv, ListInv, NoTwice, FirstOfItsKey, BannedStayOut, KeyOf, Consistent
<1>2. ASSUME NEW c \in Callers, Caller(c)
      PROVE  ListInv'
  <2>1. CASE RefuseAndBan(c)
    BY <2>1, BanList
  <2>2. ASSUME NEW s \in Outs, Create(c, s)
        PROVE  ListInv'
    BY <2>2, CreateList
  <2>3. CASE StopOuts(c)
    <3>1. outs' = <<>>
      BY <2>3 DEF StopOuts
    <3>2. QED
      BY <3>1 DEF ListInv, NoTwice, FirstOfItsKey, BannedStayOut
  <2>4. ASSUME NEW ip \in IPs, TestListener(c, ip) \/ FollowListener(c, ip)
                               \/ StopListener(c, ip) \/ ResetListener(c, ip)
        PROVE  ListInv'
    BY <1>1, <2>4 DEF TestListener, FollowListener, StopListener, ResetListener, Crash
  <2>5. ASSUME NEW d \in Dests, Ask(c, d)
        PROVE  ListInv'
    BY <1>1, <2>5 DEF Ask
  <2>6. CASE Refuse(c) \/ Missed(c) \/ CreateThrows(c)
    BY <1>1, <2>6 DEF Refuse, Missed, CreateThrows
  <2>7. QED
    BY <1>2, <2>1, <2>2, <2>3, <2>4, <2>5, <2>6 DEF Caller, SessionGoesOn, StopGoesOn
<1>3. CASE Around
  BY <1>1, <1>3 DEF Around, StartSession, StopSession, FailSession, SessionChange, Release,
                    ListenerBans
<1>4. CASE UNCHANGED vars
  BY <1>1, <1>4 DEF vars
<1>5. QED
  BY <1>2, <1>3, <1>4 DEF Next

-----------------------------------------------------------------------------
(* The lives of the sessions. *)

Gone == {"unborn", "destroyed"}

\* Dropping a session from the list destroys it unless a caller has it.
LEMMA BanReach ==
  ASSUME IInv, NEW c \in Callers, RefuseAndBan(c)
  PROVE  Reachable'
<1>1. PICK i \in 1..Len(outs) :
        outs' = RemoveAt(outs, i) /\ Destroy(life, {outs[i]} \ held)
  BY DEF RefuseAndBan
<1>2. held' = held /\ outs \in Seq(Outs) /\ Len(outs) \in Nat
  BY DEF RefuseAndBan, IInv, TypeOK
<1>3. Listed' = Listed \ {outs[i]}
  <2>1. ASSUME NEW s \in Listed, s # outs[i]
        PROVE  s \in Listed'
    <3>1. PICK k \in 1..Len(outs) : s = outs[k] /\ k # i
      BY <2>1 DEF Listed
    <3>2. PICK j \in 1..(Len(outs) - 1) : k = IF j < i THEN j ELSE j + 1
      <4>1. CASE k < i
        BY <1>2, <4>1
      <4>2. CASE k > i
        <5>1. k - 1 \in 1..(Len(outs) - 1) /\ ~(k - 1 < i) /\ k = (k - 1) + 1
          BY <1>2, <4>2
        <5>2. QED
          BY <5>1
      <4>3. QED
        BY <1>2, <3>1, <4>1, <4>2
    <3>3. QED
      BY <1>1, <1>2, <3>1, <3>2, Removed DEF Listed
  <2>2. ASSUME NEW s \in Listed'
        PROVE  s \in Listed /\ s # outs[i]
    <3>1. PICK j \in 1..(Len(outs) - 1) : s = IF j < i THEN outs[j] ELSE outs[j + 1]
      BY <1>1, <1>2, Removed DEF Listed
    <3>2. PICK k \in 1..Len(outs) : s = outs[k] /\ k # i
      <4>1. CASE j < i
        BY <1>2, <3>1, <4>1
      <4>2. CASE ~(j < i)
        <5>1. j + 1 \in 1..Len(outs) /\ j + 1 # i
          BY <1>2, <4>2
        <5>2. QED
          BY <3>1, <4>2, <5>1
      <4>3. QED
        BY <4>1, <4>2
    <3>3. QED
      BY <3>2 DEF IInv, NoTwice, Listed
  <2>3. QED
    BY <2>1, <2>2
<1>4. outs[i] \in Listed
  BY DEF Listed
<1>5. QED
  BY <1>1, <1>2, <1>3, <1>4 DEF IInv, Reachable, Destroy

\* Every step leaves the living sessions in the list or in somebody's hands.
LEMMA ReachStep ==
  ASSUME IInv, [Next]_vars
  PROVE  Reachable'
<1> USE DEF sessionVars, listenerVars, callVars
<1>1. ASSUME UNCHANGED <<outs, life, held>>
      PROVE  Reachable'
  BY <1>1 DEF IInv, Reachable, Listed
<1>2. ASSUME NEW c \in Callers, Caller(c)
      PROVE  Reachable'
  <2>1. CASE RefuseAndBan(c)
    BY <2>1, BanReach
  <2>2. ASSUME NEW s \in Outs, Create(c, s)
        PROVE  Reachable'
    <3>1. /\ life' = [life EXCEPT ![s] = "new"] /\ held' = held \cup {s}
          /\ outs' = Append(outs, s) /\ life[s] = "unborn"
      BY <2>2 DEF Create
    <3>2. outs \in Seq(Outs) /\ life \in [Outs -> {"unborn", "new", "running", "failed", "stopped", "destroyed"}]
      BY DEF IInv, TypeOK
    <3>3. Listed' = Listed \cup {s}
      BY <3>1, <3>2 DEF Listed
    <3>4. QED
      BY <3>1, <3>2, <3>3 DEF IInv, Reachable
  <2>3. CASE StopOuts(c)
    <3>1. outs' = <<>> /\ held' = held
      BY <2>3 DEF StopOuts
    <3>2. Listed' = {}
      BY <3>1 DEF Listed
    <3>3. \A s \in Outs : life'[s] = IF s \in Listed \ held THEN "destroyed"
                                     ELSE IF s \in Listed THEN StopOne(life[s]) ELSE life[s]
      BY <2>3 DEF StopOuts, Destroy
    <3>4. QED
      BY <3>1, <3>2, <3>3 DEF IInv, Reachable, StopOne
  <2>4. ASSUME NEW ip \in IPs, TestListener(c, ip) \/ FollowListener(c, ip)
                               \/ StopListener(c, ip) \/ ResetListener(c, ip)
        PROVE  Reachable'
    BY <1>1, <2>4 DEF TestListener, FollowListener, StopListener, ResetListener, Crash
  <2>5. ASSUME NEW d \in Dests, Ask(c, d)
        PROVE  Reachable'
    BY <1>1, <2>5 DEF Ask
  <2>6. CASE Refuse(c) \/ Missed(c) \/ CreateThrows(c)
    BY <1>1, <2>6 DEF Refuse, Missed, CreateThrows
  <2>7. QED
    BY <1>2, <2>1, <2>2, <2>3, <2>4, <2>5, <2>6 DEF Caller, SessionGoesOn, StopGoesOn
<1>3. ASSUME NEW s \in Outs, StartSession(s) \/ StopSession(s) \/ FailSession(s)
      PROVE  Reachable'
  <2>1. PICK to \in {"running", "stopped", "failed"} : life' = [life EXCEPT ![s] = to]
    BY <1>3 DEF StartSession, StopSession, FailSession, SessionChange
  <2>2. life[s] \notin Gone
    BY <1>3 DEF StartSession, StopSession, FailSession, SessionChange, Gone
  <2>3. UNCHANGED <<outs, held>>
    BY <1>3 DEF StartSession, StopSession, FailSession, SessionChange
  <2>4. QED
    BY <2>1, <2>2, <2>3 DEF IInv, TypeOK, Reachable, Listed, Gone
<1>4. ASSUME NEW s \in Outs, Release(s)
      PROVE  Reachable'
  <2>1. held' = held \ {s} /\ s \in held /\ outs' = outs /\ Destroy(life, {s} \ Listed)
    BY <1>4 DEF Release
  <2>2. QED
    BY <2>1 DEF IInv, Reachable, Destroy, Listed
<1>5. ASSUME NEW ip \in IPs, NEW k \in Keys, ListenerBans(ip, k)
      PROVE  Reachable'
  BY <1>1, <1>5 DEF ListenerBans
<1>6. CASE UNCHANGED vars
  BY <1>1, <1>6 DEF vars
<1>7. QED
  BY <1>2, <1>3, <1>4, <1>5, <1>6 DEF Next, Around

-----------------------------------------------------------------------------
(* The theorems. *)

\* The invariant holds in every reachable state.
THEOREM Invariance == Spec => []IInv
<1>1. Init => IInv
  BY InitIInv
<1>2. IInv /\ [Next]_vars => IInv'
  BY TypeStep, LockStep, ListStep, ReachStep DEF IInv, ListInv
<1>3. QED
  BY <1>1, <1>2, PTL DEF Spec

\* The variables of the manager keep their types.
THEOREM TypeCorrect == Spec => []TypeOK
<1>1. IInv => TypeOK
  BY DEF IInv
<1>2. QED
  BY <1>1, Invariance, PTL

\* session(dest) never lists two sessions under one identity key, although the
\* listeners come and go between its search and its insertion.
THEOREM OneSessionPerKey == Spec => []OnePerKey
<1>1. IInv => OnePerKey
  <2> SUFFICES ASSUME IInv, NEW i \in 1..Len(outs), NEW j \in 1..Len(outs), i # j,
                      KeyOf(outs[i]) = KeyOf(outs[j])
               PROVE  ~(Consistent(outs[i]) /\ Consistent(outs[j]))
    BY DEF OnePerKey
  <2>1. Len(outs) \in Nat
    BY DEF IInv, TypeOK
  <2>2. CASE i < j
    BY <2>2 DEF IInv, FirstOfItsKey
  <2>3. CASE j < i
    BY <2>3 DEF IInv, FirstOfItsKey
  <2>4. QED
    BY <2>1, <2>2, <2>3
<1>2. QED
  BY <1>1, Invariance, PTL

\* A key that the manager banned never has a session under it again.
THEOREM BannedAreOut == Spec => []BannedStayOut
<1>1. IInv => BannedStayOut
  BY DEF IInv
<1>2. QED
  BY <1>1, Invariance, PTL

\* No session lives that nobody could stop, and none is used that is destroyed.
THEOREM NoneLost == Spec => []Reachable
<1>1. IInv => Reachable
  BY DEF IInv
<1>2. QED
  BY <1>1, Invariance, PTL

=============================================================================
