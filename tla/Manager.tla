------------------------------- MODULE Manager -------------------------------
(***************************************************************************)
(* SessionManager (src/src/ntcp2/session/manager.h): the list of outbound  *)
(* sessions, the manager's own blacklist and its two listeners.  Several   *)
(* threads call session(dest) and Stop; out_sessions_mutex_ covers         *)
(* session(dest) and the first part of Stop, but not the rest of Stop,     *)
(* which resets the pointers to the listeners that session(dest) follows.  *)
(* Of a session only its life matters here (module Session has the rest),  *)
(* of a listener only its blacklist (module Listener has the rest).        *)
(* Operation_Fault is Operation with a fault put in; nothing refers to it. *)
(***************************************************************************)
EXTENDS Naturals, SequencesExt

CONSTANTS
  Outs,      \* outbound Session objects
  Dests,     \* RouterInfos of destinations
  Keys,      \* public keys
  IdKey,     \* IdKey[d]: the crypto key of d's identity
  StaticKey, \* StaticKey[d]: option "s" of d, a key that need not be the same
  Callers,   \* threads that share the manager
  Nobody     \* no thread; no destination

ASSUME ManagerAssumption ==
  /\ IdKey \in [Dests -> Keys]
  /\ StaticKey \in [Dests -> Keys]
  /\ Nobody \notin Callers \cup Dests

VARIABLES
  outs,       \* out_sessions_
  dest,       \* dest_ of each session
  life,       \* what became of each session
  held,       \* sessions the callers keep a shared_ptr to
  blacklist,  \* blacklist_, its session keys
  listeners,  \* which of listener_ ("v4") and listener_v6_ ("v6") are set
  banned,     \* the blacklists of the listeners
  mutex,      \* who holds out_sessions_mutex_
  pc,         \* what each caller is doing
  arg,        \* the destination each caller asks a session for
  verdict,    \* what blacklisted() has found for it so far
  dead        \* the process followed a null pointer

sessionVars  == <<outs, dest, life, held>>
listenerVars == <<listeners, banned>>
callVars     == <<pc, arg, verdict>>
vars == <<sessionVars, blacklist, listenerVars, mutex, callVars, dead>>

IPs == {"v4", "v6"}

Init ==
  /\ outs = <<>>
  /\ dest = [s \in Outs |-> Nobody]
  /\ life = [s \in Outs |-> "unborn"]
  /\ held = {}
  /\ blacklist = {}
  /\ listeners \in SUBSET IPs \ {{}}
  /\ banned = [ip \in IPs |-> {}]
  /\ mutex = Nobody
  /\ pc = [c \in Callers |-> "idle"]
  /\ arg = [c \in Callers |-> Nobody]
  /\ verdict = [c \in Callers |-> FALSE]
  /\ dead = FALSE

Listed == {outs[i] : i \in 1..Len(outs)}

\* key() of an outbound session, whether it ever connected or not.
KeyOf(s) == StaticKey[dest[s]]

Destroy_Only(L, D) == life' = [s \in D |-> "destroyed"]

\* The sessions of D lose their last shared_ptr: ~Session stops them.
Destroy(L, D) == life' = [s \in Outs |-> IF s \in D THEN "destroyed" ELSE L[s]]

At(c, at) == ~dead /\ pc[c] = at

Goto(c, at) == pc' = [pc EXCEPT ![c] = at]

Crash ==
  /\ dead' = TRUE
  /\ UNCHANGED <<sessionVars, blacklist, listenerVars, mutex, callVars>>

-----------------------------------------------------------------------------
(* session(dest). *)

\* Bound: an object is left for the session that may be made.
Room == \E s \in Outs : life[s] = "unborn"

Ask_Unlocked(c, d) ==
  /\ At(c, "idle") /\ Room
  /\ UNCHANGED mutex
  /\ arg' = [arg EXCEPT ![c] = d]
  /\ verdict' = [verdict EXCEPT ![c] = IdKey[d] \in blacklist]
  /\ Goto(c, "ask v4")
  /\ UNCHANGED <<sessionVars, blacklist, listenerVars, dead>>

\* The lock is taken, and the manager's own blacklist asked.
Ask(c, d) ==
  /\ At(c, "idle") /\ Room
  /\ mutex = Nobody
  /\ mutex' = c
  /\ arg' = [arg EXCEPT ![c] = d]
  /\ verdict' = [verdict EXCEPT ![c] = IdKey[d] \in blacklist]
  /\ Goto(c, "ask v4")
  /\ UNCHANGED <<sessionVars, blacklist, listenerVars, dead>>

\* The names of what session(dest) and Stop do with each listener.
AskAt     == [v4 |-> "ask v4", v6 |-> "ask v6"]
FollowAt  == [v4 |-> "follow v4", v6 |-> "follow v6"]
AskedAt   == [v4 |-> "ask v6", v6 |-> "decide"]
StopAt    == [v4 |-> "stop v4", v6 |-> "stop v6"]
ResetAt   == [v4 |-> "reset v4", v6 |-> "reset v6"]
StoppedAt == [v4 |-> "stop v6", v6 |-> "idle"]

\* listener_ is tested ...
TestListener(c, ip) ==
  /\ At(c, AskAt[ip])
  /\ Goto(c, IF ip \in listeners THEN FollowAt[ip] ELSE AskedAt[ip])
  /\ UNCHANGED <<sessionVars, blacklist, listenerVars, mutex, arg, verdict, dead>>

\* ... and followed, though a Stop may have reset it in between.
FollowListener(c, ip) ==
  /\ At(c, FollowAt[ip])
  /\ IF ip \notin listeners THEN Crash
     ELSE /\ verdict' = [verdict EXCEPT ![c] = @ \/ IdKey[arg[c]] \in banned[ip]]
          /\ Goto(c, AskedAt[ip])
          /\ UNCHANGED <<sessionVars, blacklist, listenerVars, mutex, arg, dead>>

\* session(dest) returns or throws, and the lock is released.
Leave(c) ==
  /\ Goto(c, "idle")
  /\ mutex' = Nobody
  /\ arg' = [arg EXCEPT ![c] = Nobody]
  /\ verdict' = [verdict EXCEPT ![c] = FALSE]
  /\ UNCHANGED <<listenerVars, dead>>

Refuse(c) ==
  /\ At(c, "decide")
  /\ verdict[c]
  /\ Leave(c)
  /\ UNCHANGED <<sessionVars, blacklist>>

\* The place of the first session to the key of d's identity.
IsFirst(i, d) ==
  /\ i \in 1..Len(outs)
  /\ KeyOf(outs[i]) = IdKey[d]
  /\ \A j \in 1..(i - 1) : KeyOf(outs[j]) # IdKey[d]

Found(d) == \E i \in 1..Len(outs) : IsFirst(i, d)

RefuseAndBan_Keep(c) ==
  /\ At(c, "decide")
  /\ ~verdict[c]
  /\ \E i \in 1..Len(outs) :
       /\ IsFirst(i, arg[c])
       /\ blacklist' = blacklist \cup {KeyOf(outs[i])}
  /\ Leave(c)
  /\ UNCHANGED sessionVars

\* A second session to a destination bans it and drops the first.
RefuseAndBan(c) ==
  /\ At(c, "decide")
  /\ ~verdict[c]
  /\ \E i \in 1..Len(outs) :
       /\ IsFirst(i, arg[c])
       /\ blacklist' = blacklist \cup {KeyOf(outs[i])}
       /\ outs' = RemoveAt(outs, i)
       /\ Destroy(life, {outs[i]} \ held)
  /\ Leave(c)
  /\ UNCHANGED <<dest, held>>

Missed(c) ==
  /\ At(c, "decide")
  /\ ~verdict[c]
  /\ ~Found(arg[c])
  /\ Goto(c, "create")
  /\ UNCHANGED <<sessionVars, blacklist, listenerVars, mutex, arg, verdict, dead>>

\* None was found, so one is made and listed, still under the lock ...
Create(c, s) ==
  /\ At(c, "create")
  /\ life[s] = "unborn"
  /\ life' = [life EXCEPT ![s] = "new"]
  /\ dest' = [dest EXCEPT ![s] = arg[c]]
  /\ outs' = Append(outs, s)
  /\ held' = held \cup {s}
  /\ Leave(c)
  /\ UNCHANGED blacklist

\* ... or its constructor throws: the RouterInfo lacks a key or an IV.
CreateThrows(c) ==
  /\ At(c, "create")
  /\ Leave(c)
  /\ UNCHANGED <<sessionVars, blacklist>>

-----------------------------------------------------------------------------
(* Stop. *)

\* Session::Stop: a stopped context never runs again.
StopOne(l) == IF l \in {"new", "running", "failed"} THEN "stopped" ELSE l

\* Under the lock, every session in the list is stopped and dropped.
StopOuts(c) ==
  /\ At(c, "idle")
  /\ mutex = Nobody
  /\ LET stopped == [s \in Outs |-> IF s \in Listed THEN StopOne(life[s]) ELSE life[s]]
     IN Destroy(stopped, Listed \ held)
  /\ outs' = <<>>
  /\ Goto(c, "stop v4")
  /\ UNCHANGED <<dest, held, blacklist, listenerVars, mutex, arg, verdict, dead>>

\* Without it, each listener that is set ...
StopListener(c, ip) ==
  /\ At(c, StopAt[ip])
  /\ Goto(c, IF ip \in listeners THEN ResetAt[ip] ELSE StoppedAt[ip])
  /\ UNCHANGED <<sessionVars, blacklist, listenerVars, mutex, arg, verdict, dead>>

\* ... is stopped and reset.
ResetListener(c, ip) ==
  /\ At(c, ResetAt[ip])
  /\ IF ip \notin listeners THEN Crash
     ELSE /\ listeners' = listeners \ {ip}
          /\ Goto(c, StoppedAt[ip])
          /\ UNCHANGED <<sessionVars, blacklist, banned, mutex, arg, verdict, dead>>

-----------------------------------------------------------------------------
(* What goes on around the manager. *)

SessionChange(s, from, to) ==
  /\ ~dead
  /\ life[s] \in from
  /\ life' = [life EXCEPT ![s] = to]
  /\ UNCHANGED <<outs, dest, held, blacklist, listenerVars, mutex, callVars, dead>>

StartSession(s) == s \in held /\ SessionChange(s, {"new"}, "running")

StopSession(s) == s \in held /\ SessionChange(s, {"new", "running", "failed"}, "stopped")

\* The handshake throws, or times out in Wait: the session stops itself.
FailSession(s) == SessionChange(s, {"running"}, "failed")

Release_Leaks(s) ==
  /\ ~dead
  /\ s \in held
  /\ held' = held \ {s}
  /\ UNCHANGED <<life, outs, dest, blacklist, listenerVars, mutex, callVars, dead>>

Release(s) ==
  /\ ~dead
  /\ s \in held
  /\ held' = held \ {s}
  /\ Destroy(life, {s} \ Listed)
  /\ UNCHANGED <<outs, dest, blacklist, listenerVars, mutex, callVars, dead>>

\* A listener bans the key of a peer that failed too often.
ListenerBans(ip, k) ==
  /\ ~dead
  /\ ip \in listeners
  /\ banned' = [banned EXCEPT ![ip] = @ \cup {k}]
  /\ UNCHANGED <<sessionVars, blacklist, listeners, mutex, callVars, dead>>

-----------------------------------------------------------------------------
SessionGoesOn(c) ==
  \/ \E ip \in IPs : TestListener(c, ip) \/ FollowListener(c, ip)
  \/ Refuse(c)
  \/ RefuseAndBan(c)
  \/ Missed(c)
  \/ CreateThrows(c)
  \/ \E s \in Outs : Create(c, s)

StopGoesOn(c) == \E ip \in IPs : StopListener(c, ip) \/ ResetListener(c, ip)

Caller(c) ==
  \/ \E d \in Dests : Ask(c, d)
  \/ SessionGoesOn(c)
  \/ StopOuts(c)
  \/ StopGoesOn(c)

Around ==
  \/ \E s \in Outs : StartSession(s) \/ StopSession(s) \/ FailSession(s) \/ Release(s)
  \/ \E ip \in IPs, k \in Keys : ListenerBans(ip, k)

Next == (\E c \in Callers : Caller(c)) \/ Around

Spec == Init /\ [][Next]_vars

-----------------------------------------------------------------------------
(* What holds. *)

Steps == {"idle", "ask v4", "follow v4", "ask v6", "follow v6", "decide", "create",
          "stop v4", "reset v4", "stop v6", "reset v6"}

\* The type of every variable.
TypeOK ==
  /\ outs \in Seq(Outs)
  /\ dest \in [Outs -> Dests \cup {Nobody}]
  /\ life \in [Outs -> {"unborn", "new", "running", "failed", "stopped", "destroyed"}]
  /\ held \subseteq Outs
  /\ blacklist \subseteq Keys
  /\ listeners \subseteq IPs
  /\ banned \in [IPs -> SUBSET Keys]
  /\ mutex \in Callers \cup {Nobody}
  /\ pc \in [Callers -> Steps]
  /\ arg \in [Callers -> Dests \cup {Nobody}]
  /\ verdict \in [Callers -> BOOLEAN]
  /\ dead \in BOOLEAN

Consistent(s) == StaticKey[dest[s]] = IdKey[dest[s]]

\* However the callers interleave, there are never two sessions in the list to
\* destinations of one key that are reached under that key (manager.h:157-192).
OnePerKey ==
  \A i, j \in 1..Len(outs) :
    i # j /\ KeyOf(outs[i]) = KeyOf(outs[j])
      => ~(Consistent(outs[i]) /\ Consistent(outs[j]))

\* A key the manager banned has no session in the list, and never again gets one
\* (manager.h:160-187).
BannedStayOut ==
  \A i \in 1..Len(outs) : Consistent(outs[i]) => KeyOf(outs[i]) \notin blacklist

\* Every session that is not destroyed is still in somebody's hands, so somebody
\* can stop its thread; and nobody keeps a destroyed one.
Reachable ==
  \A s \in Outs : life[s] \notin {"unborn", "destroyed"} <=> s \in Listed \cup held

-----------------------------------------------------------------------------
(* What the comments of the repository say and the code does not. *)

\* manager.h:147, "throw Runtime error if session already exists for given
\* destination": no two sessions in the list have the same destination.
OnePerDestination ==
  \A i, j \in 1..Len(outs) : i # j => dest[outs[i]] # dest[outs[j]]

=============================================================================
