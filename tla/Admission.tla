------------------------------ MODULE Admission -----------------------------
(***************************************************************************)
(* What a listener promises about the connections it lets in, without its  *)
(* threads, lock, counters, pointers and contexts: DESIGN.md's "track      *)
(* existing sessions" and "reject bad peers".  A host that is banned or    *)
(* already has a session is turned away, and for that it is banned; a      *)
(* sweep drops only sessions that are not in order; a stop drops them all. *)
(***************************************************************************)
CONSTANTS Sessions, Hosts, Keys

VARIABLES
  active,   \* the sessions let in, each with the host it serves
  healthy,  \* those of them that are ready and whose key is not banned
  banned    \* the banned hosts and keys

vars == <<active, healthy, banned>>

Init ==
  /\ active = [s \in {} |-> {}]
  /\ healthy = {}
  /\ banned = {}

Serving(h) == {s \in DOMAIN active : active[s] = h}

Admit(s, h) ==
  /\ s \notin DOMAIN active
  /\ h \notin banned
  /\ Serving(h) = {}
  /\ active' = [t \in DOMAIN active \cup {s} |-> IF t = s THEN h ELSE active[t]]
  /\ UNCHANGED <<healthy, banned>>

TurnAway(h) ==
  /\ banned' = banned \cup {h}
  /\ UNCHANGED <<active, healthy>>

\* Sessions become ready, or stop being so.
Change(S) ==
  /\ healthy' = S
  /\ UNCHANGED <<active, banned>>

Sweep(D, B) ==
  /\ D \cap healthy = {}
  /\ active' = [s \in DOMAIN active \ D |-> active[s]]
  /\ banned' = banned \cup B
  /\ healthy' \subseteq healthy

Clear ==
  /\ active' = [s \in {} |-> {}]
  /\ healthy' = {}
  /\ UNCHANGED banned

Next ==
  \/ \E s \in Sessions, h \in Hosts : Admit(s, h)
  \/ \E h \in Hosts : TurnAway(h)
  \/ \E S \in SUBSET DOMAIN active : Change(S)
  \/ \E D \in SUBSET DOMAIN active, B \in SUBSET Keys : Sweep(D, B)
  \/ Clear

Spec == Init /\ [][Next]_vars
=============================================================================
