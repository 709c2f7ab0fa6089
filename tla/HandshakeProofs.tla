-------------------------- MODULE HandshakeProofs ---------------------------
(***************************************************************************)
(* Proofs about the handshake, for any RouterInfos and keys, any paddings, *)
(* sizes and times, whatever is lost and whoever goes away; and, as long   *)
(* as nobody does and keys and clocks fit, of what exactly is on the wire. *)
(***************************************************************************)
EXTENDS Handshake, SequenceTheorems, TLAPS

-----------------------------------------------------------------------------
(* Sequences of whatever there is: frames, and what goes into a hash. *)

IsSeq(q) == \E S : q \in Seq(S)

Items(q) == {q[i] : i \in 1..Len(q)}

\* What an async_read takes away.
Rest(q) == IF q = <<>> THEN q ELSE Tail(q)

\* The length of a sequence is a number.
LEMMA SeqLen ==
  ASSUME NEW q, IsSeq(q)
  PROVE  Len(q) \in Nat /\ (q = <<>> <=> Len(q) = 0)
<1>1. PICK S : q \in Seq(S)
  BY DEF IsSeq
<1>2. QED
  BY <1>1, EmptySeq

\* What is left of a sequence.
LEMMA RestOf ==
  ASSUME NEW q, IsSeq(q)
  PROVE  /\ IsSeq(Rest(q)) /\ Items(Rest(q)) \subseteq Items(q)
         /\ q = <<>> => Rest(q) = <<>>
         /\ q # <<>> => Len(Rest(q)) = Len(q) - 1 /\ Head(q) \in Items(q)
<1>1. PICK S : q \in Seq(S)
  BY DEF IsSeq
<1>2. CASE q = <<>>
  BY <1>1, <1>2 DEF IsSeq, Rest, Items
<1>3. CASE q # <<>>
  <2>1. /\ Tail(q) \in Seq(S) /\ Len(Tail(q)) = Len(q) - 1 /\ Len(q) \in Nat /\ Len(q) > 0
        /\ \A i \in 1..Len(Tail(q)) : Tail(q)[i] = q[i + 1]
        /\ Head(q) = q[1]
    BY <1>1, <1>3
  <2>2. Items(Tail(q)) \subseteq Items(q)
    <3> SUFFICES ASSUME NEW i \in 1..Len(Tail(q))
                 PROVE  Tail(q)[i] \in Items(q)
      BY DEF Items
    <3>1. i + 1 \in 1..Len(q)
      BY <2>1
    <3>2. QED
      BY <2>1, <3>1 DEF Items
  <2>3. Head(q) \in Items(q)
    BY <2>1 DEF Items
  <2>4. QED
    BY <1>3, <2>1, <2>2, <2>3 DEF IsSeq, Rest
<1>4. QED
  BY <1>2, <1>3

\* Two sequences one after the other.
LEMMA Joined ==
  ASSUME NEW q, IsSeq(q), NEW r, IsSeq(r)
  PROVE  /\ IsSeq(q \o r) /\ Len(q \o r) = Len(q) + Len(r)
         /\ Items(q \o r) = Items(q) \cup Items(r)
         /\ Len(q) > 0 => (q \o r)[1] = q[1]
<1>1. PICK S : q \in Seq(S)
  BY DEF IsSeq
<1>2. PICK T : r \in Seq(T)
  BY DEF IsSeq
<1> DEFINE U == S \cup T
<1>3. q \in Seq(U) /\ r \in Seq(U)
  BY <1>1, <1>2
<1> HIDE DEF U
<1>4. /\ q \o r \in Seq(U) /\ Len(q \o r) = Len(q) + Len(r) /\ Len(q) \in Nat /\ Len(r) \in Nat
      /\ \A i \in 1..Len(q \o r) : (q \o r)[i] = IF i <= Len(q) THEN q[i] ELSE r[i - Len(q)]
  BY <1>3
<1>5. Items(q \o r) \subseteq Items(q) \cup Items(r)
  <2> SUFFICES ASSUME NEW i \in 1..Len(q \o r)
               PROVE  (q \o r)[i] \in Items(q) \cup Items(r)
    BY DEF Items
  <2>1. CASE i <= Len(q)
    BY <1>4, <2>1 DEF Items
  <2>2. CASE ~(i <= Len(q))
    <3>1. i - Len(q) \in 1..Len(r)
      BY <1>4, <2>2
    <3>2. QED
      BY <1>4, <2>2, <3>1 DEF Items
  <2>3. QED
    BY <2>1, <2>2
<1>6. Items(q) \subseteq Items(q \o r)
  BY <1>4 DEF Items
<1>7. Items(r) \subseteq Items(q \o r)
  <2> SUFFICES ASSUME NEW i \in 1..Len(r)
               PROVE  r[i] \in Items(q \o r)
    BY DEF Items
  <2>1. Len(q) + i \in 1..Len(q \o r) /\ ~(Len(q) + i <= Len(q)) /\ (Len(q) + i) - Len(q) = i
    BY <1>4
  <2>2. (q \o r)[Len(q) + i] = r[i]
    BY <1>4, <2>1
  <2>3. QED
    BY <2>1, <2>2 DEF Items
<1>8. QED
  BY <1>4, <1>5, <1>6, <1>7 DEF IsSeq

\* The beginning of a sequence.
LEMMA Front ==
  ASSUME NEW q, IsSeq(q), NEW n \in 0..Len(q)
  PROVE  /\ IsSeq(SubSeq(q, 1, n)) /\ Len(SubSeq(q, 1, n)) <= Len(q)
         /\ Items(SubSeq(q, 1, n)) \subseteq Items(q)
<1>1. PICK S : q \in Seq(S)
  BY DEF IsSeq
<1>2. SubSeq(q, 1, n) \in Seq(S) /\ Len(SubSeq(q, 1, n)) = n
      /\ \A i \in 1..n : SubSeq(q, 1, n)[i] = q[i]
  BY <1>1
<1>3. Items(SubSeq(q, 1, n)) \subseteq Items(q)
  <2> SUFFICES ASSUME NEW i \in 1..Len(SubSeq(q, 1, n))
               PROVE  SubSeq(q, 1, n)[i] \in Items(q)
    BY DEF Items
  <2>1. i \in 1..Len(q) /\ SubSeq(q, 1, n)[i] = q[i]
    BY <1>1, <1>2
  <2>2. QED
    BY <2>1 DEF Items
<1>4. Len(SubSeq(q, 1, n)) <= Len(q)
  BY <1>1, <1>2
<1>5. QED
  BY <1>2, <1>3, <1>4 DEF IsSeq

\* The sequences that are written.
LEMMA Pair ==
  ASSUME NEW a, NEW b
  PROVE  IsSeq(<<a, b>>) /\ Len(<<a, b>>) = 2 /\ Items(<<a, b>>) = {a, b}
<1>1. <<a, b>> \in Seq({a, b})
  OBVIOUS
<1> DEFINE q == <<a, b>>
<1>2. Len(q) = 2 /\ q[1] = a /\ q[2] = b
  OBVIOUS
<1>3. q \in Seq({a, b})
  BY <1>1
<1> HIDE DEF q
<1>4. Items(q) = {a, b}
  BY <1>2 DEF Items
<1>5. IsSeq(q)
  BY <1>3 DEF IsSeq
<1>6. QED
  BY <1>2, <1>4, <1>5 DEF q

LEMMA One ==
  ASSUME NEW a
  PROVE  IsSeq(<<a>>) /\ Len(<<a>>) = 1 /\ Items(<<a>>) = {a} /\ <<a>>[1] = a
<1>1. <<a>> \in Seq({a})
  OBVIOUS
<1> DEFINE q == <<a>>
<1>2. Len(q) = 1 /\ q[1] = a
  OBVIOUS
<1>3. q \in Seq({a})
  BY <1>1
<1> HIDE DEF q
<1>4. Items(q) = {a}
  BY <1>2 DEF Items
<1>5. IsSeq(q)
  BY <1>3 DEF IsSeq
<1>6. QED
  BY <1>2, <1>4, <1>5 DEF q

LEMMA Nothing == IsSeq(<<>>) /\ Len(<<>>) = 0 /\ Items(<<>>) = {}
<1>1. <<>> \in Seq({})
  BY EmptySeq
<1>2. Len(<<>>) = 0
  BY EmptySeq
<1>3. QED
  BY <1>1, <1>2 DEF IsSeq, Items

-----------------------------------------------------------------------------
(* The invariant. *)

AliceStates ==
  {"connected", "sending_request", "await_created", "reading_created",
   "reading_created_padding", "sending_confirmed", "await_data", "reading_length",
   "reading_data", "silent", "ready", "failed"}

BobStates ==
  {"await_request", "reading_request", "reading_request_padding", "sending_created",
   "await_confirmed", "reading_confirmed", "sending_data", "ready", "failed"}

\* The states of each after the last thing that goes into its handshake hash.
AliceLate ==
  {"sending_confirmed", "await_data", "reading_length", "reading_data", "silent", "ready",
   "failed"}

BobLate == {"sending_data", "ready", "failed"}

Shapes ==
  /\ DOMAIN h = Parties /\ DOMAIN srq = Parties /\ DOMAIN scr = Parties
  /\ DOMAIN wire = Parties /\ DOMAIN rkey = Parties
  /\ \A p \in Parties : IsSeq(wire[p])
  /\ pc["alice"] \in AliceStates /\ pc["bob"] \in BobStates
  /\ who.alice \in Infos /\ who.dest \in Infos /\ who.bob \in Infos

\* Both have finished their hashes, they are the same, and Bob knows Alice.
BobKnows ==
  /\ pc["alice"] \in AliceLate /\ pc["bob"] \in BobLate
  /\ h["bob"] = h["alice"]
  /\ rkey["bob"] = LocalKey("alice") /\ peer["bob"] = who.alice
  /\ rkey["bob"] = StaticKey[peer["bob"]]

\* What a frame on its way to Bob can be, if it can be opened at all: of the last
\* message the hash under which it opens is the one Alice had.
ToBob(f) ==
  f.val.kind = "sealed" =>
    IF f.val.via = NoInfo
    THEN pc["alice"] \in AliceLate /\ f.val.body = Confirmed /\ h["alice"] = Append(f.val.hash, Confirmed)
    ELSE f.val.body \in Messages

\* A frame on its way to Alice: of the data phase, only when Bob knows her.
ToAlice(f) ==
  f.val.kind = "sealed" =>
    IF f.val.via = NoInfo
    THEN BobKnows
    ELSE f.val.body.kind = "created" /\ f.val.body.pad \in CreatedPads

OnTheWire ==
  /\ \A f \in Items(wire["bob"]) : ToBob(f)
  /\ \A f \in Items(wire["alice"]) : ToAlice(f)

Known == pc["alice"] = "ready" \/ pc["bob"] \in {"sending_data", "ready"} => BobKnows

\* A hash begins with the key of Bob that its owner knows.
Begins(q, k) == IsSeq(q) /\ Len(q) > 0 /\ q[1] = k

Begun == \A p \in Parties : Begins(h[p], BobsKey(p))

\* How many frames each has written by the time it is in a state, and how many
\* it has taken.
AliceWrote(at) == IF at = "connected" THEN 0 ELSE IF at \in AliceLate THEN 3 ELSE 2
BobTook(at) ==
  IF at \in {"sending_data", "ready"} THEN 3
  ELSE IF at \in {"sending_created", "await_confirmed", "reading_confirmed"} THEN 2
  ELSE IF at = "reading_request_padding" THEN 1 ELSE 0
BobWrote(at) ==
  IF at \in {"sending_data", "ready"} THEN 4
  ELSE IF at \in {"sending_created", "await_confirmed", "reading_confirmed"} THEN 2 ELSE 0
AliceTook(at) ==
  IF at = "ready" THEN 4
  ELSE IF at \in {"reading_data", "silent"} THEN 3
  ELSE IF at \in {"sending_confirmed", "await_data", "reading_length"} THEN 2
  ELSE IF at = "reading_created_padding" THEN 1 ELSE 0

\* Unless the writer has failed, no more frames are left than it wrote and the
\* reader did not take; or it is gone, and nothing is left.
Left ==
  /\ pc["alice"] # "failed" =>
       \/ wire["bob"] = <<>> /\ "alice" \in closed
       \/ Len(wire["bob"]) + BobTook(pc["bob"]) <= AliceWrote(pc["alice"])
  /\ pc["bob"] # "failed" =>
       \/ wire["alice"] = <<>> /\ "bob" \in closed
       \/ Len(wire["alice"]) + AliceTook(pc["alice"]) <= BobWrote(pc["bob"])

Flow == OnTheWire /\ Known /\ Begun /\ Left

IInv == TypeOK /\ Shapes /\ Flow

-----------------------------------------------------------------------------
(* The socket. *)

\* What a reader gets is what was written, or garbage.
LEMMA ReadFrom ==
  ASSUME NEW p \in Parties, NEW n, NEW v \in Read(p, n), IsSeq(wire[p])
  PROVE  v = Garbage \/ \E f \in Items(wire[p]) : v = f.val
BY RestOf DEF Read

\* What an exchange does to both queues.
LEMMA Exchanged ==
  ASSUME Shapes, NEW p \in Parties, NEW out, IsSeq(out), Exchange(p, out)
  PROVE  /\ DOMAIN wire' = Parties
         /\ wire'[p] = Rest(wire[p]) /\ wire'[Other(p)] = wire[Other(p)] \o out
         /\ \A q \in Parties : IsSeq(wire'[q])
         /\ Items(wire'[p]) \subseteq Items(wire[p])
         /\ Items(wire'[Other(p)]) = Items(wire[Other(p)]) \cup Items(out)
         /\ Len(wire'[Other(p)]) = Len(wire[Other(p)]) + Len(out)
<1>1. Other(p) \in Parties /\ Other(p) # p /\ \A q \in Parties : q = p \/ q = Other(p)
  BY DEF Parties, Other
<1>2. wire' = [wire EXCEPT ![p] = Rest(wire[p]), ![Other(p)] = wire[Other(p)] \o out]
  BY <1>1 DEF Exchange, Rest, Shapes
<1>3. DOMAIN wire' = Parties /\ wire'[p] = Rest(wire[p]) /\ wire'[Other(p)] = wire[Other(p)] \o out
  BY <1>1, <1>2 DEF Shapes
<1>4. IsSeq(wire[p]) /\ IsSeq(wire[Other(p)])
  BY <1>1 DEF Shapes
<1>5. IsSeq(Rest(wire[p])) /\ Items(Rest(wire[p])) \subseteq Items(wire[p])
  BY <1>4, RestOf
<1>6. LET q == wire[Other(p)] \o out
      IN IsSeq(q) /\ Items(q) = Items(wire[Other(p)]) \cup Items(out)
         /\ Len(q) = Len(wire[Other(p)]) + Len(out)
  BY <1>4, Joined
<1>7. \A q \in Parties : IsSeq(wire'[q])
  BY <1>1, <1>3, <1>5, <1>6
<1>8. QED
  BY <1>3, <1>5, <1>6, <1>7

\* What is appended to a hash is behind its beginning.
LEMMA Appended ==
  ASSUME NEW q, NEW k, Begins(q, k), NEW a
  PROVE  Begins(Append(q, a), k)
<1>1. PICK S : q \in Seq(S)
  BY DEF Begins, IsSeq
<1> DEFINE U == S \cup {a}
<1>2. q \in Seq(U) /\ a \in U
  BY <1>1
<1> HIDE DEF U
<1>3. Append(q, a) \in Seq(U) /\ Len(Append(q, a)) = Len(q) + 1 /\ Len(q) \in Nat
  BY <1>2, AppendProperties
<1>4. Len(q) > 0 => Append(q, a)[1] = q[1]
  BY <1>2
<1>5. QED
  BY <1>3, <1>4 DEF Begins, IsSeq

LEMMA MixedBegins ==
  ASSUME NEW q, NEW k, Begins(q, k), NEW a, NEW b
  PROVE  Begins(Mixed(q, a, b), k)
<1>1. IsSeq(<<a, b>>) /\ Len(<<a, b>>) = 2
  BY Pair
<1>2. Len(q) \in Nat /\ IsSeq(q)
  BY SeqLen DEF Begins
<1>3. QED
  BY <1>1, <1>2, Joined DEF Begins, Mixed

-----------------------------------------------------------------------------
(* Steps that only lead one party to another state. *)

\* The states that such a step may lead to without disturbing anything.
Harmless(p, to) ==
  /\ p = "alice" => /\ to \in AliceStates \ {"ready"}
                    /\ pc["alice"] \in AliceLate => to \in AliceLate
                    /\ to # "failed" => AliceWrote(to) = AliceWrote(pc["alice"])
                    /\ AliceTook(to) <= AliceTook(pc["alice"])
  /\ p = "bob" => /\ to \in BobStates
                  /\ pc["bob"] \in BobLate => to \in BobLate
                  /\ to # "sending_data" /\ (to = "ready" => pc["bob"] = "sending_data")
                  /\ to # "failed" => BobWrote(to) = BobWrote(pc["bob"])
                  /\ BobTook(to) <= BobTook(pc["bob"])

\* What was taken and written are numbers.
LEMMA Numbers ==
  ASSUME NEW at
  PROVE  /\ AliceWrote(at) \in Nat /\ BobTook(at) \in Nat
         /\ BobWrote(at) \in Nat /\ AliceTook(at) \in Nat
BY DEF AliceWrote, BobTook, BobWrote, AliceTook

\* Nothing on the wire, no hash and no key changes.
LEMMA Quiet ==
  ASSUME Shapes, Flow, NEW p \in Parties, NEW to, pc' = [pc EXCEPT ![p] = to], Harmless(p, to),
         pc[p] # "failed", DOMAIN pc = Parties, UNCHANGED <<who, shakeVars, wire>>, closed \subseteq closed'
  PROVE  Shapes' /\ Flow'
<1> USE DEF shakeVars
<1>1. /\ p = "alice" => pc'["alice"] = to /\ pc'["bob"] = pc["bob"]
      /\ p = "bob" => pc'["bob"] = to /\ pc'["alice"] = pc["alice"]
  BY DEF Parties
<1>2. p = "alice" \/ p = "bob"
  BY DEF Parties
<1>3. Shapes'
  BY <1>1, <1>2 DEF Shapes, Harmless
<1>4. LocalKey("alice")' = LocalKey("alice") /\ Confirmed' = Confirmed
  BY DEF LocalKey, Confirmed
<1>5. BobKnows => BobKnows'
  BY <1>1, <1>2, <1>4 DEF BobKnows, Harmless
<1>6. OnTheWire'
  <2>1. ASSUME NEW f, ToBob(f)
        PROVE  ToBob(f)'
    BY <1>1, <1>2, <1>4, <2>1 DEF ToBob, Harmless
  <2>2. ASSUME NEW f, ToAlice(f)
        PROVE  ToAlice(f)'
    BY <1>5, <2>2 DEF ToAlice
  <2>3. QED
    BY <2>1, <2>2 DEF OnTheWire, Flow
<1>7. Known'
  BY <1>1, <1>2, <1>5 DEF Known, Flow, Harmless
<1>8. Begun'
  BY DEF Begun, Flow, BobsKey
<1>9. Left'
  <2>1. /\ wire' = wire /\ \A q \in Parties : q \in closed => q \in closed'
        /\ Len(wire["bob"]) \in Nat /\ Len(wire["alice"]) \in Nat
    BY SeqLen DEF Shapes, Parties
  <2>2. /\ pc'["alice"] # "failed" => AliceWrote(pc'["alice"]) = AliceWrote(pc["alice"])
                                      /\ pc["alice"] # "failed"
        /\ pc'["bob"] # "failed" => BobWrote(pc'["bob"]) = BobWrote(pc["bob"]) /\ pc["bob"] # "failed"
        /\ BobTook(pc'["bob"]) <= BobTook(pc["bob"])
        /\ AliceTook(pc'["alice"]) <= AliceTook(pc["alice"])
    <3>1. CASE p = "alice"
      <4>1. pc'["alice"] = to /\ pc'["bob"] = pc["bob"] /\ pc["alice"] # "failed"
        BY <1>1, <3>1
      <4>2. /\ to # "failed" => AliceWrote(to) = AliceWrote(pc["alice"])
            /\ AliceTook(to) <= AliceTook(pc["alice"])
        BY <3>1 DEF Harmless
      <4>3. BobTook(pc["bob"]) <= BobTook(pc["bob"])
        BY Numbers
      <4>4. QED
        BY <4>1, <4>2, <4>3
    <3>2. CASE p = "bob"
      <4>1. pc'["bob"] = to /\ pc'["alice"] = pc["alice"] /\ pc["bob"] # "failed"
        BY <1>1, <3>2
      <4>2. /\ to # "failed" => BobWrote(to) = BobWrote(pc["bob"])
            /\ BobTook(to) <= BobTook(pc["bob"])
        BY <3>2 DEF Harmless
      <4>3. AliceTook(pc["alice"]) <= AliceTook(pc["alice"])
        BY Numbers
      <4>4. QED
        BY <4>1, <4>2, <4>3
    <3>3. QED
      BY <1>2, <3>1, <3>2
  <2>3. BobTook(pc'["bob"]) \in Nat /\ AliceTook(pc'["alice"]) \in Nat /\ AliceWrote(pc["alice"]) \in Nat
        /\ BobTook(pc["bob"]) \in Nat /\ AliceTook(pc["alice"]) \in Nat /\ BobWrote(pc["bob"]) \in Nat
    BY Numbers
  <2>4. "alice" \in Parties /\ "bob" \in Parties
    BY DEF Parties
  <2>5. QED
    BY <2>1, <2>2, <2>3, <2>4 DEF Left, Flow
<1>10. QED
  BY <1>3, <1>6, <1>7, <1>8, <1>9 DEF Flow

\* Where they lead.
LEMMA Leads ==
  /\ Harmless("alice", "failed") /\ Harmless("bob", "failed")
  /\ pc["alice"] = "sending_request" => Harmless("alice", "await_created")
  /\ pc["alice"] = "await_created" => Harmless("alice", "reading_created")
  /\ pc["alice"] = "sending_confirmed" => Harmless("alice", "await_data")
  /\ pc["alice"] = "await_data" => Harmless("alice", "reading_length")
  /\ pc["bob"] = "await_request" => Harmless("bob", "reading_request")
  /\ pc["bob"] = "sending_created" => Harmless("bob", "await_confirmed")
  /\ pc["bob"] = "await_confirmed" => Harmless("bob", "reading_confirmed")
  /\ pc["bob"] = "sending_data" => Harmless("bob", "ready")
<1> USE DEF Harmless, AliceStates, BobStates, AliceLate, BobLate, AliceWrote, AliceTook, BobWrote,
            BobTook
<1>1. Harmless("alice", "failed") /\ Harmless("bob", "failed")
  OBVIOUS
<1>2. pc["alice"] = "sending_request" => Harmless("alice", "await_created")
  OBVIOUS
<1>3. pc["alice"] = "await_created" => Harmless("alice", "reading_created")
  OBVIOUS
<1>4. pc["alice"] = "sending_confirmed" => Harmless("alice", "await_data")
  OBVIOUS
<1>5. pc["alice"] = "await_data" => Harmless("alice", "reading_length")
  OBVIOUS
<1>6. pc["bob"] = "await_request" => Harmless("bob", "reading_request")
  OBVIOUS
<1>7. pc["bob"] = "sending_created" => Harmless("bob", "await_confirmed")
  OBVIOUS
<1>8. pc["bob"] = "await_confirmed" => Harmless("bob", "reading_confirmed")
  OBVIOUS
<1>9. pc["bob"] = "sending_data" => Harmless("bob", "ready")
  OBVIOUS
<1>10. QED
  BY <1>1, <1>2, <1>3, <1>4, <1>5, <1>6, <1>7, <1>8, <1>9

\* Those steps, of either party.
LEMMA QuietSteps ==
  ASSUME TypeOK, Shapes, Flow,
         \/ RefuseKeys
         \/ Sent("alice", "sending_request", "await_created")
         \/ Readable("alice", "await_created", "reading_created")
         \/ Sent("alice", "sending_confirmed", "await_data")
         \/ Readable("alice", "await_data", "reading_length")
         \/ Readable("bob", "await_request", "reading_request")
         \/ CreatedSent
         \/ Readable("bob", "await_confirmed", "reading_confirmed")
         \/ Sent("bob", "sending_data", "ready")
         \/ \E p \in Parties : NotRead(p) \/ \E at \in Sending : NotSent(p, at)
  PROVE  Shapes' /\ Flow'
<1> USE DEF RefuseKeys, Sent, Readable, CreatedSent, NotRead, NotSent, At, Goto, Fail
<1>1. DOMAIN pc = Parties
  BY DEF TypeOK
<1>2. UNCHANGED <<who, shakeVars, wire, closed>>
  OBVIOUS
<1>3. \E p \in Parties : \E to : pc' = [pc EXCEPT ![p] = to] /\ Harmless(p, to) /\ pc[p] # "failed"
  <2>1. "alice" \in Parties /\ "bob" \in Parties /\ \A p \in Parties : p = "alice" \/ p = "bob"
    BY DEF Parties
  <2>2. ASSUME NEW p \in Parties, NotRead(p) \/ \E at \in Sending : NotSent(p, at)
        PROVE  pc' = [pc EXCEPT ![p] = "failed"] /\ Harmless(p, "failed") /\ pc[p] # "failed"
    BY <2>1, <2>2, Leads DEF Reading, Sending
  <2>3. CASE RefuseKeys
    BY <2>1, <2>3, Leads
  <2>4. CASE Sent("alice", "sending_request", "await_created")
    BY <2>1, <2>4, Leads
  <2>5. CASE Readable("alice", "await_created", "reading_created")
    BY <2>1, <2>5, Leads
  <2>6. CASE Sent("alice", "sending_confirmed", "await_data")
    BY <2>1, <2>6, Leads
  <2>7. CASE Readable("alice", "await_data", "reading_length")
    BY <2>1, <2>7, Leads
  <2>8. CASE Readable("bob", "await_request", "reading_request")
    BY <2>1, <2>8, Leads
  <2>9. CASE CreatedSent
    BY <2>1, <2>9, Leads
  <2>10. CASE Readable("bob", "await_confirmed", "reading_confirmed")
    BY <2>1, <2>10, Leads
  <2>11. CASE Sent("bob", "sending_data", "ready")
    BY <2>1, <2>11, Leads
  <2>12. QED
    BY <2>2, <2>3, <2>4, <2>5, <2>6, <2>7, <2>8, <2>9, <2>10, <2>11
<1>4. QED
  BY <1>1, <1>2, <1>3, Quiet
-----------------------------------------------------------------------------
(* Steps that read and write. *)

\* How many frames a party has taken and written in a state.
Took(p, at) == IF p = "alice" THEN AliceTook(at) ELSE BobTook(at)
Wrote(p, at) == IF p = "alice" THEN AliceWrote(at) ELSE BobWrote(at)

\* The lengths of the queues go with the states.
LEMMA LeftStep ==
  ASSUME Shapes, Left, DOMAIN pc = Parties, NEW p \in Parties, NEW to, NEW out,
         pc' = [pc EXCEPT ![p] = to], pc[p] # "failed", p \notin closed, closed' = closed,
         IsSeq(out), Exchange(p, out),
         \/ Took(p, to) = Took(p, pc[p])
         \/ /\ wire[p] # <<>> \/ Gone(p)
            /\ Took(p, to) = Took(p, pc[p]) + 1 \/ to = "failed",
         to # "failed" => Wrote(p, to) = Wrote(p, pc[p]) + Len(out)
  PROVE  Left'
<1>1. /\ wire'[p] = Rest(wire[p]) /\ Len(wire'[Other(p)]) = Len(wire[Other(p)]) + Len(out)
  BY Exchanged
<1>2. /\ IsSeq(wire[p]) /\ IsSeq(wire[Other(p)]) /\ Other(p) \in Parties
  BY DEF Shapes, Parties, Other
<1>3. /\ wire[p] = <<>> => wire'[p] = <<>> /\ Len(wire'[p]) = 0 /\ Len(wire[p]) = 0
      /\ wire[p] # <<>> => Len(wire'[p]) = Len(wire[p]) - 1 /\ Len(wire[p]) > 0
      /\ Len(wire[p]) \in Nat /\ Len(wire[Other(p)]) \in Nat /\ Len(out) \in Nat
  BY <1>1, <1>2, RestOf, SeqLen
<1>4. /\ Took(p, to) \in Nat /\ Took(p, pc[p]) \in Nat /\ Wrote(p, to) \in Nat
      /\ Wrote(p, pc[p]) \in Nat /\ Took(Other(p), pc[Other(p)]) \in Nat
      /\ Wrote(Other(p), pc[Other(p)]) \in Nat
  BY Numbers DEF Took, Wrote
<1>5. Took(p, "failed") = 0
  BY DEF Took, AliceTook, BobTook
<1>6. /\ pc'[p] = to /\ pc'[Other(p)] = pc[Other(p)]
  BY DEF Parties, Other
<1>7. pc[Other(p)] # "failed" =>
        \/ wire[p] = <<>> /\ Other(p) \in closed
        \/ Len(wire[p]) + Took(p, pc[p]) <= Wrote(Other(p), pc[Other(p)])
  BY DEF Left, Parties, Other, Took, Wrote
<1>8. \/ wire[Other(p)] = <<>> /\ p \in closed
      \/ Len(wire[Other(p)]) + Took(Other(p), pc[Other(p)]) <= Wrote(p, pc[p])
  BY DEF Left, Parties, Other, Took, Wrote
<1>9. pc'[Other(p)] # "failed" =>
        \/ wire'[p] = <<>> /\ Other(p) \in closed'
        \/ Len(wire'[p]) + Took(p, pc'[p]) <= Wrote(Other(p), pc'[Other(p)])
  <2> SUFFICES ASSUME pc'[Other(p)] # "failed", ~(wire'[p] = <<>> /\ Other(p) \in closed')
               PROVE  Len(wire'[p]) + Took(p, to) <= Wrote(Other(p), pc[Other(p)])
    BY <1>6
  <2>1. Len(wire[p]) + Took(p, pc[p]) <= Wrote(Other(p), pc[Other(p)])
    BY <1>3, <1>6, <1>7
  <2>2. CASE wire[p] = <<>>
    <3>1. Took(p, to) = Took(p, pc[p])
      BY <1>3, <2>2 DEF Gone
    <3>2. QED
      BY <1>3, <1>4, <2>1, <2>2, <3>1
  <2>3. CASE wire[p] # <<>>
    <3>1. Took(p, to) <= Took(p, pc[p]) + 1
      BY <1>4, <1>5
    <3>2. Len(wire'[p]) = Len(wire[p]) - 1 /\ Len(wire[p]) \in Nat
      BY <1>3, <2>3
    <3>3. /\ Took(p, to) \in Nat /\ Took(p, pc[p]) \in Nat
          /\ Wrote(Other(p), pc[Other(p)]) \in Nat
      BY <1>4
    <3>4. QED
      BY <2>1, <3>1, <3>2, <3>3
  <2>4. QED
    BY <2>2, <2>3
<1>10. pc'[p] # "failed" =>
         Len(wire'[Other(p)]) + Took(Other(p), pc'[Other(p)]) <= Wrote(p, pc'[p])
  BY <1>1, <1>3, <1>4, <1>6, <1>8
<1>11. QED
  BY <1>9, <1>10 DEF Left, Parties, Other, Took, Wrote

\* The shapes stay what they are.
LEMMA ShapesStep ==
  ASSUME Shapes, NEW p \in Parties, NEW to, NEW out, IsSeq(out), Exchange(p, out),
         DOMAIN pc = Parties, pc' = [pc EXCEPT ![p] = to],
         p = "alice" => to \in AliceStates, p = "bob" => to \in BobStates, who' = who,
         DOMAIN h' = DOMAIN h, DOMAIN srq' = DOMAIN srq, DOMAIN scr' = DOMAIN scr,
         DOMAIN rkey' = DOMAIN rkey
  PROVE  Shapes'
<1>1. DOMAIN wire' = Parties /\ \A q \in Parties : IsSeq(wire'[q])
  BY Exchanged
<1>2. pc'["alice"] \in AliceStates /\ pc'["bob"] \in BobStates
  BY DEF Shapes, Parties
<1>3. QED
  BY <1>1, <1>2 DEF Shapes

\* While one of them has not finished its hash, nothing of the data phase is on
\* its way to Alice, and neither is ready.
LEMMA Unknown ==
  ASSUME Flow, pc["alice"] \notin AliceLate \/ pc["bob"] \notin BobLate
  PROVE  /\ ~BobKnows /\ pc["alice"] # "ready" /\ pc["bob"] \notin {"sending_data", "ready"}
         /\ \A f \in Items(wire["alice"]) :
              f.val.kind = "sealed" => f.val.via # NoInfo /\ f.val.body.kind = "created"
                                       /\ f.val.body.pad \in CreatedPads
<1>1. ~BobKnows
  BY DEF BobKnows
<1>2. QED
  BY <1>1 DEF Flow, Known, OnTheWire, ToAlice

\* A step of a party that has not finished its hash, and does not get to be ready.
LEMMA Early ==
  ASSUME Shapes, Flow, DOMAIN pc = Parties, NEW p \in Parties, NEW to, NEW out,
         IsSeq(out), Exchange(p, out), pc' = [pc EXCEPT ![p] = to], who' = who,
         to \notin {"ready", "sending_data"},
         p = "alice" => pc["alice"] \notin AliceLate,
         p = "bob" => pc["bob"] \notin BobLate /\ h'["alice"] = h["alice"],
         p = "alice" => \A f \in Items(out) : f.val.kind = "sealed" =>
           IF f.val.via = NoInfo
           THEN /\ to \in AliceLate /\ f.val.body = Confirmed
                /\ h'["alice"] = Append(f.val.hash, Confirmed)
           ELSE f.val.body \in Messages,
         p = "bob" => \A f \in Items(out) : f.val.kind = "sealed" =>
           f.val.via # NoInfo /\ f.val.body.kind = "created" /\ f.val.body.pad \in CreatedPads
  PROVE  OnTheWire' /\ Known'
<1>1. p = "alice" \/ p = "bob"
  BY DEF Parties
<1>2. /\ p = "alice" => pc'["alice"] = to /\ pc'["bob"] = pc["bob"]
      /\ p = "bob" => pc'["bob"] = to /\ pc'["alice"] = pc["alice"]
  BY DEF Parties
<1>3. Items(wire'[p]) \subseteq Items(wire[p])
      /\ Items(wire'[Other(p)]) = Items(wire[Other(p)]) \cup Items(out)
  BY Exchanged
<1>4. Confirmed' = Confirmed
  BY DEF Confirmed, LocalKey
<1>5. ASSUME NEW f \in Items(wire["bob"])
      PROVE  ToBob(f)'
  BY <1>1, <1>2, <1>4 DEF Flow, OnTheWire, ToBob
<1>6. ASSUME NEW f \in Items(wire["alice"])
      PROVE  ToAlice(f)'
  BY <1>1, Unknown DEF ToAlice
<1>7. OnTheWire'
  <2>1. CASE p = "alice"
    <3>1. \A f \in Items(out) : ToBob(f)'
      BY <1>2, <1>4, <2>1 DEF ToBob
    <3>2. QED
      BY <1>3, <1>5, <1>6, <2>1, <3>1 DEF OnTheWire, Other
  <2>2. CASE p = "bob"
    <3>1. \A f \in Items(out) : ToAlice(f)'
      BY <2>2 DEF ToAlice
    <3>2. QED
      BY <1>3, <1>5, <1>6, <2>2, <3>1 DEF OnTheWire, Other
  <2>3. QED
    BY <1>1, <2>1, <2>2
<1>8. Known'
  BY <1>1, <1>2, Unknown DEF Known
<1>9. QED
  BY <1>7, <1>8

\* What the frames carry that are written.
LEMMA Frames ==
  ASSUME NEW n, NEW v
  PROVE  Frame(n, v).val = v
BY DEF Frame

\* A message under somebody's identity, and how it opens.
LEMMA Seals ==
  ASSUME NEW hash, NEW via, NEW body
  PROVE  /\ Sealed(hash, via, body).kind = "sealed" /\ Sealed(hash, via, body).hash = hash
         /\ Sealed(hash, via, body).via = via /\ Sealed(hash, via, body).body = body
BY DEF Sealed

LEMMA PadKind ==
  ASSUME NEW n
  PROVE  Padding(n).kind # "sealed"
BY DEF Padding

\* What a hash of another is, and what it is of.
LEMMA BegunStep ==
  ASSUME Shapes, Flow, who' = who, NEW p \in Parties,
         \/ h' = h
         \/ \E q : h' = [h EXCEPT ![p] = q] /\ Begins(q, BobsKey(p))
  PROVE  Begun' /\ DOMAIN h' = Parties
<1>1. \A q \in Parties : BobsKey(q)' = BobsKey(q)
  BY DEF BobsKey
<1>2. \A q \in Parties : Begins(h[q], BobsKey(q))
  BY DEF Flow, Begun
<1>3. DOMAIN h = Parties
  BY DEF Shapes
<1>4. QED
  BY <1>1, <1>2, <1>3 DEF Begun

\* Alice writes SessionRequest.
LEMMA SendRequestFlow ==
  ASSUME TypeOK, Shapes, Flow, SendRequest
  PROVE  Shapes' /\ Flow'
<1>1. PICK pad \in RequestPads, size \in ConfirmedSizes :
        /\ srq' = [srq EXCEPT !["alice"] = Request(pad, size)]
        /\ Exchange("alice", RequestFrames(Request(pad, size)))
  BY DEF SendRequest
<1> DEFINE msg == Request(pad, size)
           out == RequestFrames(msg)
<1>2. msg \in Messages
  BY DEF Request, Messages, Clock, TypeOK
<1>3. /\ pc' = [pc EXCEPT !["alice"] = "sending_request"] /\ pc["alice"] = "connected"
      /\ UNCHANGED <<who, h, scr, rkey, peer, closed>> /\ "alice" \notin closed
  BY DEF SendRequest, At, Goto
<1>4. IsSeq(out) /\ Len(out) = 2
      /\ Items(out) = {Frame(NoisePayloadSize, Sealed(h["alice"], who.dest, msg)),
                       Frame(msg.pad, Padding(msg.pad))}
  BY Pair DEF RequestFrames
<1>5. DOMAIN pc = Parties /\ "alice" \in Parties
  BY DEF TypeOK, Parties
<1>6. ASSUME NEW f \in Items(out), f.val.kind = "sealed"
      PROVE  f.val.via # NoInfo /\ f.val.body \in Messages
  <2>1. who.dest # NoInfo
    BY HandshakeAssumption DEF Shapes
  <2>2. QED
    BY <1>2, <1>4, <1>6, <2>1, Frames, Seals, PadKind
<1>7. Exchange("alice", out) /\ DOMAIN srq' = DOMAIN srq
  BY <1>1
<1> HIDE DEF out, msg
<1>8. OnTheWire' /\ Known'
  <2>1. pc["alice"] \notin AliceLate /\ "alice" # "bob"
    BY <1>3 DEF AliceLate
  <2>2. \A f \in Items(out) : f.val.kind = "sealed" =>
          IF f.val.via = NoInfo
          THEN /\ "sending_request" \in AliceLate /\ f.val.body = Confirmed
               /\ h'["alice"] = Append(f.val.hash, Confirmed)
          ELSE f.val.body \in Messages
    BY <1>6
  <2>3. who' = who /\ IsSeq(out) /\ "sending_request" \notin {"ready", "sending_data"}
    BY <1>3, <1>4
  <2>4. QED
    BY <1>3, <1>5, <1>7, <2>1, <2>2, <2>3, Early, Zenon
<1>9. Left'
  <2>1. Took("alice", "sending_request") = Took("alice", pc["alice"])
    BY <1>3 DEF Took, AliceTook
  <2>2. Wrote("alice", "sending_request") = Wrote("alice", pc["alice"]) + Len(out)
    BY <1>3, <1>4 DEF Wrote, AliceWrote, AliceLate
  <2>3. QED
    BY <1>3, <1>4, <1>5, <1>7, <2>1, <2>2, LeftStep DEF Flow
<1>10. Shapes'
  BY <1>3, <1>4, <1>5, <1>7, ShapesStep DEF AliceStates
<1>11. Begun'
  BY <1>3, <1>5, BegunStep
<1>12. QED
  BY <1>8, <1>9, <1>10, <1>11 DEF Flow

\* Bob reads it.
LEMMA ReadRequestFlow ==
  ASSUME TypeOK, Shapes, Flow, ReadRequest
  PROVE  Shapes' /\ Flow'
<1>1. PICK v \in Read("bob", NoisePayloadSize) :
        /\ srq' = IF RequestError(v) = "authentication" THEN srq ELSE [srq EXCEPT !["bob"] = v.body]
        /\ IF RequestError(v) = "nothing" THEN Goto("bob", "reading_request_padding")
                                          ELSE Fail("bob", RequestError(v))
  BY DEF ReadRequest
<1>2. PICK to \in {"reading_request_padding", "failed"} : pc' = [pc EXCEPT !["bob"] = to]
  BY <1>1 DEF Goto, Fail
<1>3. /\ pc["bob"] = "reading_request" /\ Exchange("bob", <<>>)
      /\ UNCHANGED <<who, h, scr, rkey, peer, closed>> /\ "bob" \notin closed
  BY DEF ReadRequest, At
<1>4. DOMAIN pc = Parties /\ "bob" \in Parties
  BY DEF TypeOK, Parties
<1>5. wire["bob"] # <<>> \/ Gone("bob")
  BY <1>1 DEF Read
<1>6. OnTheWire' /\ Known'
  BY <1>2, <1>3, <1>4, Nothing, Early DEF BobLate
<1>7. Left'
  <2>1. to # "failed" => Took("bob", to) = Took("bob", pc["bob"]) + 1
                         /\ Wrote("bob", to) = Wrote("bob", pc["bob"]) + 0
    BY <1>2, <1>3 DEF Took, BobTook, Wrote, BobWrote
  <2>2. QED
    BY <1>2, <1>3, <1>4, <1>5, <2>1, Nothing, LeftStep DEF Flow
<1>8. Shapes'
  BY <1>1, <1>2, <1>3, <1>4, Nothing, ShapesStep DEF BobStates
<1>9. Begun'
  BY <1>3, <1>4, BegunStep
<1>10. QED
  BY <1>6, <1>7, <1>8, <1>9 DEF Flow

\* Bob reads its padding, and writes SessionCreated.
LEMMA SendCreatedFlow ==
  ASSUME TypeOK, Shapes, Flow, SendCreated
  PROVE  Shapes' /\ Flow'
<1>1. PICK v \in Read("bob", srq["bob"].pad), pad \in CreatedPads :
        LET hash == Mixed(h["bob"], srq["bob"], v)
        IN /\ h' = [h EXCEPT !["bob"] = hash]
           /\ scr' = [scr EXCEPT !["bob"] = Created(pad)]
           /\ Exchange("bob", CreatedFrames(hash, Created(pad)))
  BY DEF SendCreated
<1> DEFINE hash == Mixed(h["bob"], srq["bob"], v)
           msg == Created(pad)
           out == CreatedFrames(hash, msg)
<1>2. msg.kind = "created" /\ msg.pad \in CreatedPads
  BY DEF Created
<1>3. /\ pc' = [pc EXCEPT !["bob"] = "sending_created"] /\ pc["bob"] = "reading_request_padding"
      /\ UNCHANGED <<who, srq, rkey, peer, closed>> /\ "bob" \notin closed
  BY DEF SendCreated, At, Goto
<1>4. IsSeq(out) /\ Len(out) = 2
      /\ Items(out) = {Frame(NoisePayloadSize, Sealed(hash, who.bob, msg)),
                       Frame(msg.pad, Padding(msg.pad))}
  BY Pair DEF CreatedFrames
<1>5. DOMAIN pc = Parties /\ "bob" \in Parties
  BY DEF TypeOK, Parties
<1>6. ASSUME NEW f \in Items(out), f.val.kind = "sealed"
      PROVE  f.val.via # NoInfo /\ f.val.body.kind = "created" /\ f.val.body.pad \in CreatedPads
  <2>1. who.bob # NoInfo
    BY HandshakeAssumption DEF Shapes
  <2>2. QED
    BY <1>2, <1>4, <1>6, <2>1, Frames, Seals, PadKind
<1>7. Exchange("bob", out) /\ DOMAIN scr' = DOMAIN scr /\ h' = [h EXCEPT !["bob"] = hash]
  BY <1>1
<1>8. wire["bob"] # <<>> \/ Gone("bob")
  BY <1>1 DEF Read
<1>9. Begins(hash, BobsKey("bob"))
  BY <1>5, MixedBegins DEF Flow, Begun
<1> HIDE DEF out, msg, hash
<1>10. h'["alice"] = h["alice"]
  BY <1>7 DEF Shapes, Parties
<1>11. OnTheWire' /\ Known'
  <2>1. pc["bob"] \notin BobLate /\ "alice" # "bob"
    BY <1>3 DEF BobLate
  <2>2. who' = who /\ IsSeq(out) /\ "sending_created" \notin {"ready", "sending_data"}
    BY <1>3, <1>4
  <2>3. QED
    BY <1>3, <1>5, <1>6, <1>7, <1>10, <2>1, <2>2, Early, Zenon
<1>12. Left'
  <2>1. Took("bob", "sending_created") = Took("bob", pc["bob"]) + 1
    BY <1>3 DEF Took, BobTook
  <2>2. Wrote("bob", "sending_created") = Wrote("bob", pc["bob"]) + Len(out)
    BY <1>3, <1>4 DEF Wrote, BobWrote
  <2>3. QED
    BY <1>3, <1>4, <1>5, <1>7, <1>8, <2>1, <2>2, LeftStep DEF Flow
<1>13. Begun' /\ DOMAIN h' = Parties
  BY <1>3, <1>5, <1>7, <1>9, BegunStep
<1>14. Shapes'
  <2>1. DOMAIN h' = DOMAIN h
    BY <1>13 DEF Shapes
  <2>2. QED
    BY <1>3, <1>4, <1>5, <1>7, <2>1, ShapesStep DEF BobStates
<1>15. QED
  BY <1>11, <1>12, <1>13, <1>14 DEF Flow

\* Alice reads it.
LEMMA ReadCreatedFlow ==
  ASSUME TypeOK, Shapes, Flow, ReadCreated
  PROVE  Shapes' /\ Flow'
<1> DEFINE hash == Mixed(h["alice"], srq["alice"], Padding(srq["alice"].pad))
<1>1. PICK v \in Read("alice", NoisePayloadSize) :
        /\ scr' = IF CreatedError(hash, v) = "authentication" THEN scr
                                                             ELSE [scr EXCEPT !["alice"] = v.body]
        /\ IF CreatedError(hash, v) = "nothing" THEN Goto("alice", "reading_created_padding")
                                                ELSE Fail("alice", CreatedError(hash, v))
  BY DEF ReadCreated
<1>2. PICK to \in {"reading_created_padding", "failed"} : pc' = [pc EXCEPT !["alice"] = to]
  BY <1>1 DEF Goto, Fail
<1>3. /\ pc["alice"] = "reading_created" /\ Exchange("alice", <<>>)
      /\ UNCHANGED <<who, srq, rkey, peer, closed>> /\ "alice" \notin closed
      /\ h' = [h EXCEPT !["alice"] = hash]
  BY DEF ReadCreated, At
<1>4. DOMAIN pc = Parties /\ "alice" \in Parties
  BY DEF TypeOK, Parties
<1>5. wire["alice"] # <<>> \/ Gone("alice")
  BY <1>1 DEF Read
<1>6. Begins(hash, BobsKey("alice"))
  BY <1>4, MixedBegins DEF Flow, Begun
<1>7. DOMAIN scr' = DOMAIN scr
  BY <1>1
<1> HIDE DEF hash
<1>8. OnTheWire' /\ Known'
  <2>1. pc["alice"] \notin AliceLate /\ "alice" # "bob"
    BY <1>3 DEF AliceLate
  <2>2. who' = who /\ IsSeq(<<>>) /\ Items(<<>>) = {} /\ to \notin {"ready", "sending_data"}
    BY <1>2, <1>3, Nothing
  <2>3. QED
    BY <1>2, <1>3, <1>4, <2>1, <2>2, Early
<1>9. Left'
  <2>1. to # "failed" => Took("alice", to) = Took("alice", pc["alice"]) + 1
                         /\ Wrote("alice", to) = Wrote("alice", pc["alice"]) + 0
    BY <1>2, <1>3 DEF Took, AliceTook, Wrote, AliceWrote, AliceLate
  <2>2. QED
    BY <1>2, <1>3, <1>4, <1>5, <2>1, Nothing, LeftStep DEF Flow
<1>10. Begun' /\ DOMAIN h' = Parties
  BY <1>3, <1>4, <1>6, BegunStep
<1>11. Shapes'
  <2>1. DOMAIN h' = DOMAIN h
    BY <1>10 DEF Shapes
  <2>2. QED
    BY <1>2, <1>3, <1>4, <1>7, <2>1, Nothing, ShapesStep DEF AliceStates
<1>12. QED
  BY <1>8, <1>9, <1>10, <1>11 DEF Flow

\* Alice reads its padding, and writes SessionConfirmed under the hash that she
\* has by then; with that message in it, the hash is complete.
LEMMA SendConfirmedFlow ==
  ASSUME TypeOK, Shapes, Flow, SendConfirmed
  PROVE  Shapes' /\ Flow'
<1>1. PICK v \in Read("alice", scr["alice"].pad) :
        LET hash == Mixed(h["alice"], scr["alice"], v)
        IN /\ h' = [h EXCEPT !["alice"] = Append(hash, Confirmed)]
           /\ Exchange("alice", <<ConfirmedFrame(hash, srq["alice"].size)>>)
  BY DEF SendConfirmed
<1> DEFINE hash == Mixed(h["alice"], scr["alice"], v)
           f == ConfirmedFrame(hash, srq["alice"].size)
<1>2. /\ pc' = [pc EXCEPT !["alice"] = "sending_confirmed"] /\ pc["alice"] = "reading_created_padding"
      /\ UNCHANGED <<who, srq, scr, rkey, peer, closed>> /\ "alice" \notin closed
  BY DEF SendConfirmed, At, Goto
<1>3. IsSeq(<<f>>) /\ Len(<<f>>) = 1 /\ Items(<<f>>) = {f}
  BY One
<1>4. DOMAIN pc = Parties /\ "alice" \in Parties
  BY DEF TypeOK, Parties
<1>5. f.val.body = Confirmed /\ f.val.hash = hash /\ f.val.via = NoInfo
  BY Frames, Seals DEF ConfirmedFrame
<1>6. Exchange("alice", <<f>>) /\ h' = [h EXCEPT !["alice"] = Append(hash, Confirmed)]
  BY <1>1
<1>7. wire["alice"] # <<>> \/ Gone("alice")
  BY <1>1 DEF Read
<1>8. Begins(Append(hash, Confirmed), BobsKey("alice"))
  BY <1>4, MixedBegins, Appended DEF Flow, Begun
<1> HIDE DEF f, hash
<1>9. h'["alice"] = Append(hash, Confirmed)
  BY <1>6 DEF Shapes, Parties
<1>10. OnTheWire' /\ Known'
  <2>1. pc["alice"] \notin AliceLate /\ "alice" # "bob" /\ "sending_confirmed" \in AliceLate
    BY <1>2 DEF AliceLate
  <2>2. \A g \in Items(<<f>>) : g.val.kind = "sealed" =>
          IF g.val.via = NoInfo
          THEN /\ "sending_confirmed" \in AliceLate /\ g.val.body = Confirmed
               /\ h'["alice"] = Append(g.val.hash, Confirmed)
          ELSE g.val.body \in Messages
    BY <1>3, <1>5, <1>9, <2>1
  <2>3. who' = who /\ IsSeq(<<f>>) /\ "sending_confirmed" \notin {"ready", "sending_data"}
    BY <1>2, <1>3
  <2>4. QED
    BY <1>2, <1>4, <1>6, <2>1, <2>2, <2>3, Early, Zenon
<1>11. Left'
  <2>1. Took("alice", "sending_confirmed") = Took("alice", pc["alice"]) + 1
    BY <1>2 DEF Took, AliceTook
  <2>2. Wrote("alice", "sending_confirmed") = Wrote("alice", pc["alice"]) + Len(<<f>>)
    BY <1>2, <1>3 DEF Wrote, AliceWrote, AliceLate
  <2>3. QED
    BY <1>2, <1>3, <1>4, <1>6, <1>7, <2>1, <2>2, LeftStep DEF Flow
<1>12. Begun' /\ DOMAIN h' = Parties
  BY <1>2, <1>4, <1>6, <1>8, BegunStep
<1>13. Shapes'
  <2>1. DOMAIN h' = DOMAIN h
    BY <1>12 DEF Shapes
  <2>2. QED
    BY <1>2, <1>3, <1>4, <1>6, <2>1, ShapesStep DEF AliceStates
<1>14. QED
  BY <1>10, <1>11, <1>12, <1>13 DEF Flow

\* Bob does not accept SessionConfirmed.
LEMMA RefusedFlow ==
  ASSUME TypeOK, Shapes, Flow, pc["bob"] = "reading_confirmed", "bob" \notin closed,
         wire["bob"] # <<>> \/ Gone("bob"), pc' = [pc EXCEPT !["bob"] = "failed"],
         Exchange("bob", <<>>), UNCHANGED <<who, srq, scr, closed>>, DOMAIN rkey' = DOMAIN rkey,
         \/ h' = h
         \/ \E q : h' = [h EXCEPT !["bob"] = q] /\ Begins(q, BobsKey("bob"))
  PROVE  Shapes' /\ Flow'
<1>1. DOMAIN pc = Parties /\ "bob" \in Parties /\ "alice" # "bob"
  BY DEF TypeOK, Parties
<1>2. Begun' /\ DOMAIN h' = Parties
  BY <1>1, BegunStep
<1>3. h'["alice"] = h["alice"]
  BY <1>1 DEF Shapes, Parties
<1>4. OnTheWire' /\ Known'
  <2>1. pc["bob"] \notin BobLate
    BY DEF BobLate
  <2>2. IsSeq(<<>>) /\ Items(<<>>) = {} /\ "failed" \notin {"ready", "sending_data"}
    BY Nothing
  <2>3. QED
    BY <1>1, <1>3, <2>1, <2>2, Early
<1>5. Left'
  BY <1>1, Nothing, LeftStep DEF Flow
<1>6. Shapes'
  <2>1. DOMAIN h' = DOMAIN h
    BY <1>2 DEF Shapes
  <2>2. QED
    BY <1>1, <2>1, Nothing, ShapesStep DEF BobStates
<1>7. QED
  BY <1>2, <1>4, <1>5, <1>6 DEF Flow

\* Bob accepts it: since it opened, Alice has finished her hash with the same
\* things in it, and he has her key and her RouterInfo.
LEMMA AcceptedFlow ==
  ASSUME TypeOK, Shapes, Flow, pc["bob"] = "reading_confirmed", "bob" \notin closed,
         NEW n, NEW v \in Read("bob", n),
         NEW hash, Begins(hash, BobsKey("bob")), ConfirmedOpens(v, hash),
         h' = [h EXCEPT !["bob"] = Append(hash, v.body)],
         peer' = [peer EXCEPT !["bob"] = v.body.info], rkey' = [rkey EXCEPT !["bob"] = v.body.key],
         StaticKey[v.body.info] = v.body.key,
         pc' = [pc EXCEPT !["bob"] = "sending_data"],
         Exchange("bob", DataFrames(Append(hash, v.body))), UNCHANGED <<who, srq, scr, closed>>
  PROVE  Shapes' /\ Flow'
<1> DEFINE out == DataFrames(Append(hash, v.body))
<1>1. DOMAIN pc = Parties /\ "bob" \in Parties /\ "alice" \in Parties /\ "alice" # "bob"
  BY DEF TypeOK, Parties
<1>2. IsSeq(out) /\ Len(out) = 2 /\ Exchange("bob", out)
  BY Pair DEF DataFrames
<1>3. /\ Items(wire'["bob"]) \subseteq Items(wire["bob"])
      /\ Items(wire'["alice"]) = Items(wire["alice"]) \cup Items(out)
  BY <1>1, <1>2, Exchanged DEF Other
<1>4. wire["bob"] # <<>> \/ Gone("bob")
  BY DEF Read
<1>5. v.kind = "sealed" /\ v.hash = hash /\ v.via = NoInfo
  BY DEF ConfirmedOpens, Opens
<1>6. PICK f \in Items(wire["bob"]) : v = f.val
  <2>1. v # Garbage
    BY <1>5 DEF Garbage
  <2>2. IsSeq(wire["bob"])
    BY <1>1 DEF Shapes
  <2>3. QED
    BY <1>1, <2>1, <2>2, ReadFrom
<1>7. pc["alice"] \in AliceLate /\ v.body = Confirmed /\ h["alice"] = Append(hash, Confirmed)
  BY <1>5, <1>6 DEF Flow, OnTheWire, ToBob
<1>8. Confirmed.key = LocalKey("alice") /\ Confirmed.info = who.alice
  BY DEF Confirmed
<1>9. /\ h'["bob"] = Append(hash, v.body) /\ h'["alice"] = h["alice"]
      /\ rkey'["bob"] = v.body.key /\ peer'["bob"] = v.body.info
      /\ pc'["bob"] = "sending_data" /\ pc'["alice"] = pc["alice"]
  BY <1>1 DEF Shapes, TypeOK
<1>10. LocalKey("alice")' = LocalKey("alice") /\ Confirmed' = Confirmed
  BY DEF LocalKey, Confirmed
<1>11. BobKnows'
  BY <1>7, <1>8, <1>9, <1>10 DEF BobKnows, BobLate
<1>12. Known'
  BY <1>11 DEF Known
<1>13. OnTheWire'
  <2>1. \A g \in Items(wire["bob"]) : ToBob(g)'
    BY <1>9, <1>10 DEF Flow, OnTheWire, ToBob
  <2>2. \A g \in Items(wire["alice"]) : ToAlice(g)'
    BY <1>11, Unknown DEF Flow, OnTheWire, ToAlice
  <2>3. \A g \in Items(out) : ToAlice(g)'
    <3>1. Items(out) = {Frame(SizeLen, [kind |-> "length", hash |-> Append(hash, v.body)]),
                        Frame(DataSize, Sealed(Append(hash, v.body), NoInfo, who.bob))}
      BY Pair DEF DataFrames
    <3>2. \A g \in Items(out) : g.val.kind = "sealed" => g.val.via = NoInfo
      BY <3>1, Frames, Seals
    <3>3. QED
      BY <1>11, <3>2 DEF ToAlice
  <2>4. QED
    BY <1>3, <2>1, <2>2, <2>3 DEF OnTheWire
<1>14. Begun' /\ DOMAIN h' = Parties
  <2>1. Begins(Append(hash, v.body), BobsKey("bob"))
    BY Appended
  <2>2. QED
    BY <1>1, <2>1, BegunStep
<1> HIDE DEF out
<1>15. Left'
  <2>1. Took("bob", "sending_data") = Took("bob", pc["bob"]) + 1
    BY DEF Took, BobTook
  <2>2. Wrote("bob", "sending_data") = Wrote("bob", pc["bob"]) + Len(out)
    BY <1>2 DEF Wrote, BobWrote
  <2>3. QED
    BY <1>1, <1>2, <1>4, <2>1, <2>2, LeftStep DEF Flow
<1>16. Shapes'
  <2>1. DOMAIN h' = DOMAIN h /\ DOMAIN rkey' = DOMAIN rkey
    BY <1>14 DEF Shapes
  <2>2. QED
    BY <1>1, <1>2, <2>1, ShapesStep DEF BobStates
<1>17. QED
  BY <1>12, <1>13, <1>14, <1>15, <1>16 DEF Flow

\* Bob reads SessionConfirmed.
LEMMA ReadConfirmedFlow ==
  ASSUME TypeOK, Shapes, Flow, ReadConfirmed
  PROVE  Shapes' /\ Flow'
<1> DEFINE hash == Mixed(h["bob"], scr["bob"], Padding(scr["bob"].pad))
           n == PartOneSize + srq["bob"].size
<1>1. /\ pc["bob"] = "reading_confirmed" /\ "bob" \notin closed
      /\ UNCHANGED <<who, closed>>
  BY DEF ReadConfirmed, At
<1>2. PICK v \in Read("bob", n) :
        IF ~ConfirmedOpens(v, hash)
        THEN /\ Fail("bob", "authentication")
             /\ Exchange("bob", <<>>)
             /\ UNCHANGED shakeVars
        ELSE /\ h' = [h EXCEPT !["bob"] = Append(hash, v.body)]
             /\ peer' = [peer EXCEPT !["bob"] = v.body.info]
             /\ rkey' = [rkey EXCEPT !["bob"] = v.body.key]
             /\ IF StaticKey[v.body.info] = v.body.key
                THEN /\ Goto("bob", "sending_data")
                     /\ Exchange("bob", DataFrames(Append(hash, v.body)))
                ELSE /\ Fail("bob", "static_key")
                     /\ Exchange("bob", <<>>)
             /\ UNCHANGED <<srq, scr>>
  BY DEF ReadConfirmed
<1>3. wire["bob"] # <<>> \/ Gone("bob")
  BY <1>2 DEF Read
<1>4. Begins(hash, BobsKey("bob")) /\ Begins(Append(hash, v.body), BobsKey("bob"))
  BY MixedBegins, Appended DEF Flow, Begun, Parties
<1> HIDE DEF hash, n
<1>5. CASE ~ConfirmedOpens(v, hash)
  <2>1. /\ pc' = [pc EXCEPT !["bob"] = "failed"] /\ Exchange("bob", <<>>)
        /\ UNCHANGED <<h, srq, scr, rkey>>
    BY <1>2, <1>5 DEF Fail, shakeVars
  <2>2. QED
    BY <1>1, <1>3, <2>1, RefusedFlow
<1>6. CASE ConfirmedOpens(v, hash) /\ StaticKey[v.body.info] # v.body.key
  <2>1. /\ pc' = [pc EXCEPT !["bob"] = "failed"] /\ Exchange("bob", <<>>)
        /\ h' = [h EXCEPT !["bob"] = Append(hash, v.body)] /\ DOMAIN rkey' = DOMAIN rkey
        /\ UNCHANGED <<srq, scr>>
    BY <1>2, <1>6 DEF Fail
  <2>2. QED
    BY <1>1, <1>3, <1>4, <2>1, RefusedFlow
<1>7. CASE ConfirmedOpens(v, hash) /\ StaticKey[v.body.info] = v.body.key
  <2>1. /\ pc' = [pc EXCEPT !["bob"] = "sending_data"]
        /\ Exchange("bob", DataFrames(Append(hash, v.body)))
        /\ h' = [h EXCEPT !["bob"] = Append(hash, v.body)]
        /\ peer' = [peer EXCEPT !["bob"] = v.body.info]
        /\ rkey' = [rkey EXCEPT !["bob"] = v.body.key]
        /\ UNCHANGED <<srq, scr>>
    BY <1>2, <1>7 DEF Goto
  <2>2. QED
    BY <1>1, <1>4, <1>7, <2>1, AcceptedFlow
<1>8. QED
  BY <1>5, <1>6, <1>7

\* A step of Alice once her hash is complete: she takes a frame, and gets ready
\* only by one that Bob wrote when he knew her.
LEMMA LateFlow ==
  ASSUME TypeOK, Shapes, Flow, pc["alice"] \in {"reading_length", "reading_data"},
         "alice" \notin closed, NEW to \in {"reading_data", "silent", "ready", "failed"},
         pc' = [pc EXCEPT !["alice"] = to], wire["alice"] # <<>> \/ Gone("alice"),
         Exchange("alice", <<>>), UNCHANGED <<who, shakeVars, closed>>,
         to # "failed" => AliceTook(to) = AliceTook(pc["alice"]) + 1,
         to = "ready" => BobKnows
  PROVE  Shapes' /\ Flow'
<1> USE DEF shakeVars
<1>1. DOMAIN pc = Parties /\ "alice" \in Parties /\ "alice" # "bob"
  BY DEF TypeOK, Parties
<1>2. /\ pc'["alice"] = to /\ pc'["bob"] = pc["bob"]
      /\ pc["alice"] \in AliceLate /\ to \in AliceLate
  BY <1>1 DEF AliceLate, Parties
<1>3. LocalKey("alice")' = LocalKey("alice") /\ Confirmed' = Confirmed
  BY DEF LocalKey, Confirmed
<1>4. BobKnows => BobKnows'
  BY <1>2, <1>3 DEF BobKnows
<1>5. Known'
  BY <1>2, <1>4 DEF Known, Flow
<1>6. OnTheWire'
  <2>1. Items(wire'["alice"]) \subseteq Items(wire["alice"])
        /\ Items(wire'["bob"]) = Items(wire["bob"])
    <3>1. Other("alice") = "bob"
      BY DEF Other
    <3>2. Items(wire'["alice"]) \subseteq Items(wire["alice"])
      BY <1>1, Exchanged, Nothing
    <3>3. Items(wire'["bob"]) = Items(wire["bob"]) \cup Items(<<>>)
      BY <1>1, <3>1, Exchanged, Nothing
    <3>4. Items(wire'["bob"]) = Items(wire["bob"])
      BY <3>3, Nothing
    <3>5. QED
      BY <3>2, <3>4
  <2>2. ASSUME NEW f, ToBob(f)
        PROVE  ToBob(f)'
    BY <1>2, <1>3, <2>2 DEF ToBob
  <2>3. ASSUME NEW f, ToAlice(f)
        PROVE  ToAlice(f)'
    BY <1>4, <2>3 DEF ToAlice
  <2>4. QED
    BY <2>1, <2>2, <2>3 DEF OnTheWire, Flow
<1>7. Left'
  <2>1. to # "failed" => Took("alice", to) = Took("alice", pc["alice"]) + 1
                         /\ Wrote("alice", to) = Wrote("alice", pc["alice"]) + 0
    BY <1>2 DEF Took, Wrote, AliceWrote, AliceLate
  <2>2. pc["alice"] # "failed" /\ closed' = closed
    OBVIOUS
  <2>3. QED
    BY <1>1, <2>1, <2>2, Nothing, LeftStep DEF Flow
<1>8. Begun'
  BY <1>1, BegunStep
<1>9. Shapes'
  BY <1>1, Nothing, ShapesStep DEF AliceStates
<1>10. QED
  BY <1>5, <1>6, <1>7, <1>8, <1>9 DEF Flow

\* Alice reads the length of the first data phase message.
LEMMA ReadLengthFlow ==
  ASSUME TypeOK, Shapes, Flow, ReadLength
  PROVE  Shapes' /\ Flow'
<1>1. PICK v \in Read("alice", SizeLen) :
        IF v = [kind |-> "length", hash |-> h["alice"]]
        THEN Goto("alice", "reading_data")
        ELSE \E at \in {"reading_data", "silent"} : Goto("alice", at)
  BY DEF ReadLength
<1>2. PICK to \in {"reading_data", "silent"} : pc' = [pc EXCEPT !["alice"] = to]
  BY <1>1 DEF Goto
<1>3. /\ pc["alice"] = "reading_length" /\ "alice" \notin closed /\ Exchange("alice", <<>>)
      /\ UNCHANGED <<who, shakeVars, closed>>
  BY DEF ReadLength, At
<1>4. wire["alice"] # <<>> \/ Gone("alice")
  BY <1>1 DEF Read
<1>5. AliceTook(to) = AliceTook(pc["alice"]) + 1
  BY <1>2, <1>3 DEF AliceTook
<1>6. pc["alice"] \in {"reading_length", "reading_data"} /\ to # "ready"
      /\ to \in {"reading_data", "silent", "ready", "failed"}
  BY <1>2, <1>3
<1>7. QED
  BY <1>2, <1>3, <1>4, <1>5, <1>6, LateFlow

\* Alice reads that message: if it opens, Bob wrote it.
LEMMA ReadDataFlow ==
  ASSUME TypeOK, Shapes, Flow, ReadData
  PROVE  Shapes' /\ Flow'
<1>1. PICK v \in Read("alice", DataSize) :
        IF ~Opens(v, h["alice"], NoInfo) THEN Fail("alice", "authentication")
        ELSE IF StaticKey[v.body] # StaticKey[who.dest] THEN Fail("alice", "static_key")
        ELSE Goto("alice", "ready")
  BY DEF ReadData
<1>2. /\ pc["alice"] = "reading_data" /\ "alice" \notin closed /\ Exchange("alice", <<>>)
      /\ UNCHANGED <<who, shakeVars, closed>>
  BY DEF ReadData, At
<1>3. wire["alice"] # <<>> \/ Gone("alice")
  BY <1>1 DEF Read
<1>4. Opens(v, h["alice"], NoInfo) => BobKnows
  <2> SUFFICES ASSUME v.kind = "sealed", v.via = NoInfo
               PROVE  BobKnows
    BY DEF Opens
  <2>1. v # Garbage
    BY DEF Garbage
  <2>2. IsSeq(wire["alice"]) /\ "alice" \in Parties
    BY DEF Shapes, Parties
  <2>3. PICK f \in Items(wire["alice"]) : v = f.val
    BY <2>1, <2>2, ReadFrom
  <2>4. QED
    BY <2>3 DEF Flow, OnTheWire, ToAlice
<1>5. PICK to \in {"ready", "failed"} :
        pc' = [pc EXCEPT !["alice"] = to] /\ (to = "ready" => BobKnows)
  <2>1. CASE Opens(v, h["alice"], NoInfo) /\ StaticKey[v.body] = StaticKey[who.dest]
    BY <1>1, <1>4, <2>1 DEF Goto
  <2>2. CASE ~(Opens(v, h["alice"], NoInfo) /\ StaticKey[v.body] = StaticKey[who.dest])
    BY <1>1, <2>2 DEF Fail
  <2>3. QED
    BY <2>1, <2>2
<1>6. to # "failed" => AliceTook(to) = AliceTook(pc["alice"]) + 1
  BY <1>2, <1>5 DEF AliceTook
<1>7. pc["alice"] \in {"reading_length", "reading_data"}
      /\ to \in {"reading_data", "silent", "ready", "failed"}
  BY <1>2, <1>5
<1>8. QED
  BY <1>2, <1>3, <1>5, <1>6, <1>7, LateFlow

\* With fewer left there is no more of them and of those taken.
LEMMA Fewer ==
  \A a, b, c, d \in Nat : a <= b /\ b + c <= d => a + c <= d
OBVIOUS

\* A party goes away, with some of what it wrote.
LEMMA CloseFlow ==
  ASSUME TypeOK, Shapes, Flow, NEW p \in Parties, Close(p)
  PROVE  Shapes' /\ Flow'
<1> DEFINE o == Other(p)
<1>1. PICK n \in 0..Len(wire[o]) : wire' = [wire EXCEPT ![o] = SubSeq(wire[o], 1, n)]
  BY DEF Close
<1>2. UNCHANGED <<who, pc, h, srq, scr, rkey, peer>> /\ closed' = closed \cup {p}
  BY DEF Close, shakeVars
<1>3. o \in Parties /\ o # p /\ \A q \in Parties : q = p \/ q = o
  BY DEF Parties, Other
<1>4. DOMAIN wire = Parties /\ \A q \in Parties : IsSeq(wire[q])
  BY DEF Shapes
<1> HIDE DEF o
<1>5. /\ IsSeq(SubSeq(wire[o], 1, n)) /\ Len(SubSeq(wire[o], 1, n)) <= Len(wire[o])
      /\ Items(SubSeq(wire[o], 1, n)) \subseteq Items(wire[o])
  BY <1>3, <1>4, Front
<1>6. \A q \in Parties : /\ IsSeq(wire'[q]) /\ Items(wire'[q]) \subseteq Items(wire[q])
                         /\ Len(wire'[q]) <= Len(wire[q])
  <2>1. wire'[o] = SubSeq(wire[o], 1, n) /\ wire'[p] = wire[p]
    BY <1>1, <1>3, <1>4
  <2>2. Len(wire[p]) \in Nat
    BY <1>4, SeqLen
  <2>3. IsSeq(wire'[o]) /\ Items(wire'[o]) \subseteq Items(wire[o]) /\ Len(wire'[o]) <= Len(wire[o])
    BY <1>5, <2>1
  <2>4. IsSeq(wire'[p]) /\ Items(wire'[p]) \subseteq Items(wire[p]) /\ Len(wire'[p]) <= Len(wire[p])
    BY <1>4, <2>1, <2>2
  <2>5. QED
    BY <1>3, <2>3, <2>4
<1>7. DOMAIN wire' = Parties
  BY <1>1, <1>4
<1>8. Shapes'
  BY <1>2, <1>6, <1>7 DEF Shapes
<1>9. BobKnows' = BobKnows /\ Confirmed' = Confirmed
  BY <1>2 DEF BobKnows, Confirmed, LocalKey
<1>10. OnTheWire'
  <2>1. \A f : ToBob(f)' = ToBob(f)
    BY <1>2, <1>9 DEF ToBob
  <2>2. \A f : ToAlice(f)' = ToAlice(f)
    BY <1>9 DEF ToAlice
  <2>3. QED
    BY <1>6, <2>1, <2>2 DEF Flow, OnTheWire, Parties
<1>11. Known'
  BY <1>2, <1>9 DEF Flow, Known
<1>12. Begun'
  BY <1>2 DEF Flow, Begun, BobsKey
<1>13. Left'
  <2>1. \A q \in Parties : /\ Len(wire[q]) \in Nat /\ Len(wire'[q]) \in Nat
                           /\ wire[q] = <<>> => wire'[q] = <<>>
    <3> SUFFICES ASSUME NEW q \in Parties
                 PROVE  Len(wire[q]) \in Nat /\ Len(wire'[q]) \in Nat
                        /\ (wire[q] = <<>> => wire'[q] = <<>>)
      OBVIOUS
    <3>1. /\ Len(wire[q]) \in Nat /\ (wire[q] = <<>> <=> Len(wire[q]) = 0)
          /\ Len(wire'[q]) \in Nat /\ (wire'[q] = <<>> <=> Len(wire'[q]) = 0)
      BY <1>4, <1>6, SeqLen
    <3>2. QED
      BY <1>6, <3>1
  <2>2. /\ BobTook(pc["bob"]) \in Nat /\ AliceTook(pc["alice"]) \in Nat
        /\ AliceWrote(pc["alice"]) \in Nat /\ BobWrote(pc["bob"]) \in Nat
    BY Numbers
  <2>3. pc' = pc /\ closed \subseteq closed' /\ "alice" \in Parties /\ "bob" \in Parties
    BY <1>2 DEF Parties
  <2>4. Left
    BY DEF Flow
  <2>5. /\ Len(wire["bob"]) \in Nat /\ Len(wire'["bob"]) \in Nat
        /\ Len(wire'["bob"]) <= Len(wire["bob"])
        /\ wire["bob"] = <<>> => wire'["bob"] = <<>>
    BY <1>6, <2>1, <2>3
  <2>6. /\ Len(wire["alice"]) \in Nat /\ Len(wire'["alice"]) \in Nat
        /\ Len(wire'["alice"]) <= Len(wire["alice"])
        /\ wire["alice"] = <<>> => wire'["alice"] = <<>>
    BY <1>6, <2>1, <2>3
  <2>7. pc'["alice"] # "failed" =>
          \/ wire'["bob"] = <<>> /\ "alice" \in closed'
          \/ Len(wire'["bob"]) + BobTook(pc'["bob"]) <= AliceWrote(pc'["alice"])
    <3>1. pc["alice"] # "failed" =>
            \/ wire["bob"] = <<>> /\ "alice" \in closed
            \/ Len(wire["bob"]) + BobTook(pc["bob"]) <= AliceWrote(pc["alice"])
      BY <2>4 DEF Left
    <3>2. Len(wire["bob"]) + BobTook(pc["bob"]) <= AliceWrote(pc["alice"])
            => Len(wire'["bob"]) + BobTook(pc["bob"]) <= AliceWrote(pc["alice"])
      BY <2>2, <2>5, Fewer
    <3>3. QED
      BY <2>3, <2>5, <3>1, <3>2
  <2>8. pc'["bob"] # "failed" =>
          \/ wire'["alice"] = <<>> /\ "bob" \in closed'
          \/ Len(wire'["alice"]) + AliceTook(pc'["alice"]) <= BobWrote(pc'["bob"])
    <3>1. pc["bob"] # "failed" =>
            \/ wire["alice"] = <<>> /\ "bob" \in closed
            \/ Len(wire["alice"]) + AliceTook(pc["alice"]) <= BobWrote(pc["bob"])
      BY <2>4 DEF Left
    <3>2. Len(wire["alice"]) + AliceTook(pc["alice"]) <= BobWrote(pc["bob"])
            => Len(wire'["alice"]) + AliceTook(pc["alice"]) <= BobWrote(pc["bob"])
      BY <2>2, <2>6, Fewer
    <3>3. QED
      BY <2>3, <2>6, <3>1, <3>2
  <2>9. QED
    BY <2>7, <2>8 DEF Left
<1>14. QED
  BY <1>8, <1>10, <1>11, <1>12, <1>13 DEF Flow

\* Nothing happens to either, or time passes.
LEMMA StillFlow ==
  ASSUME Shapes, Flow, UNCHANGED <<who, pc, shakeVars, wire, closed>>
  PROVE  Shapes' /\ Flow'
<1> USE DEF shakeVars
<1>1. Shapes'
  BY DEF Shapes
<1>2. BobKnows' = BobKnows /\ Confirmed' = Confirmed
  BY DEF BobKnows, Confirmed, LocalKey
<1>3. OnTheWire'
  <2>1. \A f : ToBob(f)' = ToBob(f)
    BY <1>2 DEF ToBob
  <2>2. \A f : ToAlice(f)' = ToAlice(f)
    BY <1>2 DEF ToAlice
  <2>3. QED
    BY <2>1, <2>2 DEF Flow, OnTheWire
<1>4. Known'
  BY <1>2 DEF Flow, Known
<1>5. Begun'
  BY DEF Flow, Begun, BobsKey
<1>6. Left'
  BY DEF Flow, Left
<1>7. QED
  BY <1>1, <1>3, <1>4, <1>5, <1>6 DEF Flow

-----------------------------------------------------------------------------
(* The types. *)

\* Where a party may be.
Places ==
  Reading \cup Sending \cup {"connected", "await_request", "await_created", "await_confirmed",
                             "await_data", "silent", "ready", "failed"}

Reasons == {"nothing", "key_pair", "socket", "authentication", "lag", "options", "static_key"}

\* A step leads a party somewhere, or it fails for a reason.
LEMMA Went ==
  ASSUME TypeOK, NEW p \in Parties,
         \/ \E at \in Places : Goto(p, at)
         \/ \E reason \in Reasons : Fail(p, reason)
  PROVE  pc' \in [Parties -> Places] /\ why' \in [Parties -> Reasons]
<1>1. pc \in [Parties -> Places] /\ why \in [Parties -> Reasons] /\ "failed" \in Places
  BY DEF TypeOK, Places, Reasons
<1>2. QED
  BY <1>1 DEF Goto, Fail

\* The rest of what has a type, when it does not change.
LEMMA SameRest ==
  ASSUME TypeOK, pc' \in [Parties -> Places] /\ why' \in [Parties -> Reasons],
         UNCHANGED <<who, shakeVars, now>>, closed' \subseteq Parties
  PROVE  TypeOK'
BY DEF TypeOK, Places, Reasons, shakeVars, Messages

LEMMA QuietTypes ==
  ASSUME TypeOK,
         \/ RefuseKeys
         \/ Sent("alice", "sending_request", "await_created")
         \/ Readable("alice", "await_created", "reading_created")
         \/ Sent("alice", "sending_confirmed", "await_data")
         \/ Readable("alice", "await_data", "reading_length")
         \/ Readable("bob", "await_request", "reading_request")
         \/ CreatedSent
         \/ Readable("bob", "await_confirmed", "reading_confirmed")
         \/ Sent("bob", "sending_data", "ready")
         \/ ReadLength \/ ReadData
         \/ \E p \in Parties : NotRead(p) \/ \E at \in Sending : NotSent(p, at)
  PROVE  TypeOK'
<1>1. "alice" \in Parties /\ "bob" \in Parties
  BY DEF Parties
<1>2. /\ {"await_created", "reading_created", "await_data", "reading_length", "reading_request",
          "await_confirmed", "reading_confirmed", "ready", "reading_data", "silent"} \subseteq Places
      /\ {"key_pair", "socket", "authentication", "static_key"} \subseteq Reasons
  BY DEF Places, Reasons, Reading, Sending
<1>3. UNCHANGED <<who, shakeVars, now, closed>>
  BY DEF RefuseKeys, Sent, Readable, CreatedSent, ReadLength, ReadData, NotRead, NotSent
<1>4. \E p \in Parties : \/ \E at \in Places : Goto(p, at)
                        \/ \E reason \in Reasons : Fail(p, reason)
  <2>1. CASE RefuseKeys
    BY <1>1, <1>2, <2>1 DEF RefuseKeys
  <2>2. CASE \/ Sent("alice", "sending_request", "await_created")
             \/ Readable("alice", "await_created", "reading_created")
             \/ Sent("alice", "sending_confirmed", "await_data")
             \/ Readable("alice", "await_data", "reading_length")
    <3>1. \E at \in Places : Goto("alice", at)
      BY <1>2, <2>2 DEF Sent, Readable
    <3>2. QED
      BY <1>1, <3>1
  <2>3. CASE \/ Readable("bob", "await_request", "reading_request")
             \/ CreatedSent
             \/ Readable("bob", "await_confirmed", "reading_confirmed")
             \/ Sent("bob", "sending_data", "ready")
    <3>1. \E at \in Places : Goto("bob", at)
      BY <1>2, <2>3 DEF Sent, Readable, CreatedSent
    <3>2. QED
      BY <1>1, <3>1
  <2>4. CASE ReadLength
    <3>1. \E at \in Places : Goto("alice", at)
      BY <1>2, <2>4 DEF ReadLength
    <3>2. QED
      BY <1>1, <3>1
  <2>5. CASE ReadData
    <3>1. (\E at \in Places : Goto("alice", at)) \/ \E reason \in Reasons : Fail("alice", reason)
      BY <1>2, <2>5 DEF ReadData
    <3>2. QED
      BY <1>1, <3>1
  <2>6. CASE \E p \in Parties : NotRead(p) \/ \E at \in Sending : NotSent(p, at)
    BY <1>2, <2>6 DEF NotRead, NotSent
  <2>7. QED
    BY <2>1, <2>2, <2>3, <2>4, <2>5, <2>6
<1>5. pc' \in [Parties -> Places] /\ why' \in [Parties -> Reasons]
  BY <1>4, Went
<1>6. closed' \subseteq Parties
  BY <1>3 DEF TypeOK
<1>7. QED
  BY <1>3, <1>5, <1>6, SameRest

LEMMA TroubleTypes ==
  ASSUME TypeOK, Pass \/ \E p \in Parties : Close(p)
  PROVE  TypeOK'
<1>1. CASE Pass
  BY <1>1, HandshakeAssumption DEF Pass, TypeOK, shakeVars, Messages
<1>2. CASE \E p \in Parties : Close(p)
  BY <1>2 DEF Close, TypeOK, shakeVars, Messages
<1>3. QED
  BY <1>1, <1>2

LEMMA SendRequestTypes ==
  ASSUME TypeOK, SendRequest
  PROVE  TypeOK'
<1>1. PICK pad \in RequestPads, size \in ConfirmedSizes :
        srq' = [srq EXCEPT !["alice"] = Request(pad, size)]
  BY DEF SendRequest
<1>2. Request(pad, size) \in Messages
  BY DEF Request, Messages, Clock, TypeOK
<1>3. \A p \in Parties : srq'[p] \in {NoMsg} \cup Messages
  BY <1>1, <1>2 DEF TypeOK
<1>4. pc' \in [Parties -> Places] /\ why' \in [Parties -> Reasons]
  BY Went DEF SendRequest, Places, Sending, Parties
<1>5. UNCHANGED <<who, h, scr, rkey, peer, closed, now>> /\ Messages' = Messages
  BY DEF SendRequest, Messages
<1>6. QED
  BY <1>3, <1>4, <1>5 DEF TypeOK, Places, Reasons

\* What Bob takes for a SessionRequest was written as one.
LEMMA ReadRequestTypes ==
  ASSUME TypeOK, Shapes, Flow, ReadRequest
  PROVE  TypeOK'
<1>1. PICK v \in Read("bob", NoisePayloadSize) :
        /\ srq' = IF RequestError(v) = "authentication" THEN srq ELSE [srq EXCEPT !["bob"] = v.body]
        /\ IF RequestError(v) = "nothing" THEN Goto("bob", "reading_request_padding")
                                          ELSE Fail("bob", RequestError(v))
  BY DEF ReadRequest
<1>2. RequestError(v) \in {"authentication", "lag", "options", "nothing"}
  BY DEF RequestError
<1>3. RequestError(v) # "authentication" => v.body \in Messages
  <2> SUFFICES ASSUME Opens(v, h["bob"], who.bob)
               PROVE  v.body \in Messages
    BY DEF RequestError
  <2>1. v.kind = "sealed" /\ v.via # NoInfo
    BY HandshakeAssumption DEF Opens, Shapes
  <2>2. v # Garbage
    BY <2>1 DEF Garbage
  <2>3. PICK f \in Items(wire["bob"]) : v = f.val
    BY <2>2, ReadFrom DEF Shapes, Parties
  <2>4. QED
    BY <2>1, <2>3 DEF Flow, OnTheWire, ToBob
<1>4. \A p \in Parties : srq'[p] \in {NoMsg} \cup Messages
  BY <1>1, <1>3 DEF TypeOK, Shapes
<1>5. pc' \in [Parties -> Places] /\ why' \in [Parties -> Reasons]
  <2>1. "reading_request_padding" \in Places /\ RequestError(v) \in Reasons /\ "bob" \in Parties
    BY <1>2 DEF Places, Reasons, Reading, Parties
  <2>2. (\E at \in Places : Goto("bob", at)) \/ \E reason \in Reasons : Fail("bob", reason)
    BY <1>1, <2>1
  <2>3. QED
    BY <2>1, <2>2, Went
<1>6. UNCHANGED <<who, scr, rkey, peer, closed, now>> /\ Messages' = Messages
  BY DEF ReadRequest, Messages
<1>7. QED
  BY <1>4, <1>5, <1>6 DEF TypeOK, Places, Reasons

LEMMA SendCreatedTypes ==
  ASSUME TypeOK, Shapes, SendCreated
  PROVE  TypeOK'
<1>1. PICK pad \in CreatedPads : scr' = [scr EXCEPT !["bob"] = Created(pad)]
  BY DEF SendCreated
<1>2. \A p \in Parties : scr'[p] = NoMsg \/ (scr'[p].kind = "created" /\ scr'[p].pad \in CreatedPads)
  BY <1>1 DEF TypeOK, Created, Shapes
<1>3. pc' \in [Parties -> Places] /\ why' \in [Parties -> Reasons]
  BY Went DEF SendCreated, Places, Sending, Parties
<1>4. UNCHANGED <<who, srq, rkey, peer, closed, now>> /\ Messages' = Messages
  BY DEF SendCreated, Messages
<1>5. QED
  BY <1>2, <1>3, <1>4 DEF TypeOK, Places, Reasons

\* What Alice takes for a SessionCreated was written as one.
LEMMA ReadCreatedTypes ==
  ASSUME TypeOK, Shapes, Flow, ReadCreated
  PROVE  TypeOK'
<1> DEFINE hash == Mixed(h["alice"], srq["alice"], Padding(srq["alice"].pad))
<1>1. PICK v \in Read("alice", NoisePayloadSize) :
        /\ scr' = IF CreatedError(hash, v) = "authentication" THEN scr
                                                             ELSE [scr EXCEPT !["alice"] = v.body]
        /\ IF CreatedError(hash, v) = "nothing" THEN Goto("alice", "reading_created_padding")
                                                ELSE Fail("alice", CreatedError(hash, v))
  BY DEF ReadCreated
<1> HIDE DEF hash
<1>2. CreatedError(hash, v) \in {"authentication", "lag", "options", "nothing"}
  BY DEF CreatedError
<1>3. CreatedError(hash, v) # "authentication" =>
        v.body.kind = "created" /\ v.body.pad \in CreatedPads
  <2> SUFFICES ASSUME Opens(v, hash, who.dest)
               PROVE  v.body.kind = "created" /\ v.body.pad \in CreatedPads
    BY DEF CreatedError
  <2>1. v.kind = "sealed" /\ v.via # NoInfo
    BY HandshakeAssumption DEF Opens, Shapes
  <2>2. v # Garbage
    BY <2>1 DEF Garbage
  <2>3. PICK f \in Items(wire["alice"]) : v = f.val
    BY <2>2, ReadFrom DEF Shapes, Parties
  <2>4. QED
    BY <2>1, <2>3 DEF Flow, OnTheWire, ToAlice
<1>4. \A p \in Parties : scr'[p] = NoMsg \/ (scr'[p].kind = "created" /\ scr'[p].pad \in CreatedPads)
  <2>1. DOMAIN scr = Parties
    BY DEF Shapes
  <2>2. \A p \in Parties : scr[p] = NoMsg \/ (scr[p].kind = "created" /\ scr[p].pad \in CreatedPads)
    BY DEF TypeOK
  <2>3. CASE CreatedError(hash, v) = "authentication"
    BY <1>1, <2>2, <2>3
  <2>4. CASE CreatedError(hash, v) # "authentication"
    BY <1>1, <1>3, <2>1, <2>2, <2>4
  <2>5. QED
    BY <2>3, <2>4
<1>5. pc' \in [Parties -> Places] /\ why' \in [Parties -> Reasons]
  <2>1. "reading_created_padding" \in Places /\ CreatedError(hash, v) \in Reasons
        /\ "alice" \in Parties
    BY <1>2 DEF Places, Reasons, Reading, Parties
  <2>2. (\E at \in Places : Goto("alice", at)) \/ \E reason \in Reasons : Fail("alice", reason)
    BY <1>1, <2>1
  <2>3. QED
    BY <2>1, <2>2, Went
<1>6. UNCHANGED <<who, srq, rkey, peer, closed, now>> /\ Messages' = Messages
  BY DEF ReadCreated, Messages
<1>7. QED
  BY <1>4, <1>5, <1>6 DEF TypeOK, Places, Reasons

LEMMA SendConfirmedTypes ==
  ASSUME TypeOK, SendConfirmed
  PROVE  TypeOK'
<1>1. pc' \in [Parties -> Places] /\ why' \in [Parties -> Reasons]
  BY Went DEF SendConfirmed, Places, Sending, Parties
<1>2. UNCHANGED <<who, srq, scr, rkey, peer, closed, now>> /\ Messages' = Messages
  BY DEF SendConfirmed, Messages
<1>3. QED
  BY <1>1, <1>2 DEF TypeOK, Places, Reasons

\* The key that Bob keeps is one that Alice presented.
LEMMA ReadConfirmedTypes ==
  ASSUME TypeOK, Shapes, Flow, ReadConfirmed
  PROVE  TypeOK'
<1> DEFINE hash == Mixed(h["bob"], scr["bob"], Padding(scr["bob"].pad))
           n == PartOneSize + srq["bob"].size
<1>1. PICK v \in Read("bob", n) :
        IF ~ConfirmedOpens(v, hash)
        THEN /\ Fail("bob", "authentication")
             /\ UNCHANGED shakeVars
        ELSE /\ peer' = [peer EXCEPT !["bob"] = v.body.info]
             /\ rkey' = [rkey EXCEPT !["bob"] = v.body.key]
             /\ IF StaticKey[v.body.info] = v.body.key
                THEN Goto("bob", "sending_data")
                ELSE Fail("bob", "static_key")
             /\ UNCHANGED <<srq, scr>>
  BY DEF ReadConfirmed
<1>2. UNCHANGED <<who, closed, now>> /\ Messages' = Messages
  BY DEF ReadConfirmed, Messages
<1> HIDE DEF hash, n
<1>3. pc' \in [Parties -> Places] /\ why' \in [Parties -> Reasons]
  <2>1. "sending_data" \in Places /\ {"authentication", "static_key"} \subseteq Reasons
        /\ "bob" \in Parties
    BY DEF Places, Reasons, Sending, Parties
  <2>2. (\E at \in Places : Goto("bob", at)) \/ \E reason \in Reasons : Fail("bob", reason)
    BY <1>1, <2>1
  <2>3. QED
    BY <2>1, <2>2, Went
<1>4. CASE ~ConfirmedOpens(v, hash)
  BY <1>1, <1>2, <1>3, <1>4 DEF TypeOK, Places, Reasons, shakeVars
<1>5. CASE ConfirmedOpens(v, hash)
  <2>1. v.kind = "sealed" /\ v.via = NoInfo
    BY <1>5 DEF ConfirmedOpens, Opens
  <2>2. v # Garbage
    BY <2>1 DEF Garbage
  <2>3. PICK f \in Items(wire["bob"]) : v = f.val
    BY <2>2, ReadFrom DEF Shapes, Parties
  <2>4. v.body = Confirmed
    BY <2>1, <2>3 DEF Flow, OnTheWire, ToBob
  <2>5. v.body.info \in Infos /\ v.body.key \in {IdKey[i] : i \in Infos}
    BY <2>4 DEF Confirmed, LocalKey, Shapes
  <2>6. peer' = [peer EXCEPT !["bob"] = v.body.info] /\ rkey' = [rkey EXCEPT !["bob"] = v.body.key]
        /\ UNCHANGED <<srq, scr>>
    BY <1>1, <1>5
  <2>7. peer' \in [Parties -> Infos \cup {NoInfo}]
    BY <2>5, <2>6 DEF TypeOK
  <2>8. rkey'["alice"] = rkey["alice"] /\ rkey'["bob"] = v.body.key
    BY <2>6 DEF Shapes, Parties
  <2>9. QED
    BY <1>2, <1>3, <2>5, <2>6, <2>7, <2>8 DEF TypeOK, Places, Reasons
<1>6. QED
  BY <1>4, <1>5

-----------------------------------------------------------------------------
(* The theorems. *)

LEMMA InitIInv ==
  ASSUME Init
  PROVE  IInv
<1>1. PICK a \in Infos, d \in Infos, b \in Infos, paired \in BOOLEAN :
        /\ who = [alice |-> a, bob |-> b, dest |-> d, paired |-> paired]
        /\ rkey = [alice |-> StaticKey[d], bob |-> NoKey]
        /\ peer = [alice |-> d, bob |-> NoInfo]
  BY DEF Init
<1>2. /\ h = [p \in Parties |-> Started(p)] /\ wire = [p \in Parties |-> <<>>]
      /\ pc = [alice |-> "connected", bob |-> "await_request"]
      /\ why = [p \in Parties |-> "nothing"] /\ closed = {} /\ now = 0
      /\ srq = [p \in Parties |-> NoMsg] /\ scr = [p \in Parties |-> NoMsg]
  BY DEF Init
<1>3. TypeOK
  <2>1. pc \in [Parties -> Places] /\ why \in [Parties -> Reasons]
    BY <1>2 DEF Parties, Places, Reasons
  <2>2. peer \in [Parties -> Infos \cup {NoInfo}]
    BY <1>1 DEF Parties
  <2>3. now \in 0..MaxTime
    BY <1>2, HandshakeAssumption
  <2>4. rkey["alice"] = StaticKey[who.dest] /\ rkey["bob"] \in {NoKey} \cup {IdKey[i] : i \in Infos}
    BY <1>1
  <2>5. QED
    BY <1>2, <2>1, <2>2, <2>3, <2>4 DEF TypeOK, Places, Reasons
<1>4. Shapes
  <2>1. DOMAIN rkey = Parties
    BY <1>1 DEF Parties
  <2>2. \A p \in Parties : IsSeq(wire[p])
    BY <1>2, Nothing
  <2>3. pc["alice"] \in AliceStates /\ pc["bob"] \in BobStates
    BY <1>2 DEF AliceStates, BobStates
  <2>4. QED
    BY <1>1, <1>2, <2>1, <2>2, <2>3 DEF Shapes
<1>5. Begun
  <2> SUFFICES ASSUME NEW p \in Parties
               PROVE  Begins(h[p], BobsKey(p))
    BY DEF Begun
  <2>1. h[p] = <<BobsKey(p)>>
    BY <1>2 DEF Started
  <2>2. QED
    BY <2>1, One DEF Begins
<1>6. OnTheWire
  BY <1>2, Nothing DEF OnTheWire, Parties
<1>7. Known
  BY <1>2 DEF Known
<1>8. Left
  BY <1>2, Nothing DEF Left, Parties, BobTook, AliceWrote, AliceTook, BobWrote
<1>9. QED
  BY <1>3, <1>4, <1>5, <1>6, <1>7, <1>8 DEF IInv, Flow

LEMMA StepIInv ==
  ASSUME IInv, [Next]_vars
  PROVE  IInv'
<1> USE DEF IInv
<1>1. CASE UNCHANGED vars
  <2>1. Shapes' /\ Flow'
    BY <1>1, StillFlow DEF vars
  <2>2. TypeOK'
    BY <1>1 DEF TypeOK, vars, shakeVars, Messages
  <2>3. QED
    BY <2>1, <2>2
<1>2. CASE SendRequest
  BY <1>2, SendRequestFlow, SendRequestTypes
<1>3. CASE ReadRequest
  BY <1>3, ReadRequestFlow, ReadRequestTypes
<1>4. CASE SendCreated
  BY <1>4, SendCreatedFlow, SendCreatedTypes
<1>5. CASE ReadCreated
  BY <1>5, ReadCreatedFlow, ReadCreatedTypes
<1>6. CASE SendConfirmed
  BY <1>6, SendConfirmedFlow, SendConfirmedTypes
<1>7. CASE ReadConfirmed
  BY <1>7, ReadConfirmedFlow, ReadConfirmedTypes
<1>8. CASE ReadLength
  BY <1>8, ReadLengthFlow, QuietTypes
<1>9. CASE ReadData
  BY <1>9, ReadDataFlow, QuietTypes
<1>10. CASE \/ RefuseKeys
            \/ Sent("alice", "sending_request", "await_created")
            \/ Readable("alice", "await_created", "reading_created")
            \/ Sent("alice", "sending_confirmed", "await_data")
            \/ Readable("alice", "await_data", "reading_length")
            \/ Readable("bob", "await_request", "reading_request")
            \/ CreatedSent
            \/ Readable("bob", "await_confirmed", "reading_confirmed")
            \/ Sent("bob", "sending_data", "ready")
            \/ \E p \in Parties : NotRead(p) \/ \E at \in Sending : NotSent(p, at)
  BY <1>10, QuietSteps, QuietTypes
<1>11. CASE \E p \in Parties : Close(p)
  BY <1>11, CloseFlow, TroubleTypes
<1>12. CASE Pass
  <2>1. Shapes' /\ Flow'
    BY <1>12, StillFlow DEF Pass
  <2>2. QED
    BY <1>12, <2>1, TroubleTypes
<1>13. CASE Next
  <2>1. CASE Alice
    BY <1>2, <1>5, <1>6, <1>8, <1>9, <1>10, <2>1 DEF Alice
  <2>2. CASE Bob
    BY <1>3, <1>4, <1>7, <1>10, <2>2 DEF Bob
  <2>3. CASE Trouble
    BY <1>10, <1>11, <1>12, <2>3 DEF Trouble
  <2>4. QED
    BY <1>13, <2>1, <2>2, <2>3 DEF Next
<1>14. QED
  BY <1>1, <1>13

\* The handlers of both ends, what is lost and who goes away preserve the
\* invariant.
THEOREM Invariance == Spec => []IInv
<1>1. Init => IInv
  BY InitIInv
<1>2. IInv /\ [Next]_vars => IInv'
  BY StepIInv
<1>3. QED
  BY <1>1, <1>2, PTL DEF Spec

\* What a party takes for a SessionRequest or SessionCreated was written as one,
\* and the keys and reasons are what they may be (TypeOK).
THEOREM TypeCorrect == Spec => []TypeOK
<1>1. IInv => TypeOK
  BY DEF IInv
<1>2. QED
  BY <1>1, Invariance, PTL

\* Two hashes that are equal began with the same key of Bob.
LEMMA SameKey ==
  ASSUME IInv, h["bob"] = h["alice"]
  PROVE  rkey["alice"] = LocalKey("bob")
<1>1. h["alice"][1] = BobsKey("alice") /\ h["bob"][1] = BobsKey("bob")
  BY DEF IInv, Flow, Begun, Begins, Parties
<1>2. QED
  BY <1>1 DEF BobsKey, LocalKey, IInv, TypeOK

\* When both are ready, as many frames were taken as written.
LEMMA Emptied ==
  ASSUME IInv, pc["alice"] = "ready", pc["bob"] = "ready"
  PROVE  wire["alice"] = <<>> /\ wire["bob"] = <<>>
<1>1. /\ Len(wire["bob"]) \in Nat /\ (wire["bob"] = <<>> <=> Len(wire["bob"]) = 0)
      /\ Len(wire["alice"]) \in Nat /\ (wire["alice"] = <<>> <=> Len(wire["alice"]) = 0)
  BY SeqLen DEF IInv, Shapes, Parties
<1>2. BobTook("ready") = 3 /\ AliceWrote("ready") = 3 /\ AliceTook("ready") = 4 /\ BobWrote("ready") = 4
  BY DEF BobTook, AliceWrote, AliceTook, BobWrote, AliceLate
<1>3. /\ wire["bob"] = <<>> \/ Len(wire["bob"]) + 3 <= 3
      /\ wire["alice"] = <<>> \/ Len(wire["alice"]) + 4 <= 4
  BY <1>2 DEF IInv, Flow, Left
<1>4. QED
  BY <1>1, <1>3

\* When either party is ready both have the same hash, so the same view of all
\* that was exchanged, and each has the other's key; when both are ready,
\* nothing of the handshake is left to be read (Agreement; session.h:584-597,
\* 662-674).
THEOREM Agreed == Spec => []Agreement
<1>1. IInv => Agreement
  <2> SUFFICES ASSUME IInv
               PROVE  Agreement
    OBVIOUS
  <2>1. ASSUME NEW p \in Parties, pc[p] = "ready"
        PROVE  BobKnows
    BY <2>1 DEF IInv, Flow, Known, Parties
  <2>2. pc["alice"] = "ready" => h["bob"] = h["alice"] /\ rkey["alice"] = LocalKey("bob")
    <3> SUFFICES ASSUME pc["alice"] = "ready"
                 PROVE  h["bob"] = h["alice"] /\ rkey["alice"] = LocalKey("bob")
      OBVIOUS
    <3>1. h["bob"] = h["alice"]
      BY <2>1 DEF BobKnows, Parties
    <3>2. QED
      BY <3>1, SameKey
  <2>3. "ready" \in {pc[p] : p \in Parties} => /\ h["bob"] = h["alice"]
                                              /\ rkey["bob"] = LocalKey("alice")
                                              /\ peer["bob"] = who.alice
                                              /\ rkey["bob"] = StaticKey[peer["bob"]]
    BY <2>1 DEF BobKnows
  <2>4. {pc[p] : p \in Parties} = {"ready"} => \A p \in Parties : wire[p] = <<>>
    <3> SUFFICES ASSUME {pc[p] : p \in Parties} = {"ready"}
                 PROVE  \A p \in Parties : wire[p] = <<>>
      OBVIOUS
    <3>1. pc["alice"] = "ready" /\ pc["bob"] = "ready"
      BY DEF Parties
    <3>2. QED
      BY <3>1, Emptied DEF Parties
  <2>5. QED
    BY <2>2, <2>3, <2>4 DEF Agreement
<1>2. QED
  BY <1>1, Invariance, PTL

-----------------------------------------------------------------------------
(* What goes on while nobody goes away, the keys fit and the clocks agree. *)

Calm == KeysFit /\ skew = 0 /\ now <= MaxLagDelta /\ closed = {}

\* The two messages that were drawn, and the hashes that follow from them.
TheRequest == srq["alice"]
TheAnswer == scr["bob"]

Hash1 == Started("bob")
Hash2 == Mixed(Hash1, TheRequest, Padding(TheRequest.pad))
Hash3 == Mixed(Hash2, TheAnswer, Padding(TheAnswer.pad))
Hash4 == Append(Hash3, Confirmed)

\* All the frames that each writes, in order.
AliceFrames ==
  <<Frame(NoisePayloadSize, Sealed(Hash1, who.bob, TheRequest)),
    Frame(TheRequest.pad, Padding(TheRequest.pad)),
    ConfirmedFrame(Hash3, TheRequest.size)>>

BobFrames ==
  <<Frame(NoisePayloadSize, Sealed(Hash2, who.bob, TheAnswer)),
    Frame(TheAnswer.pad, Padding(TheAnswer.pad)),
    Frame(SizeLen, [kind |-> "length", hash |-> Hash4]),
    Frame(DataSize, Sealed(Hash4, NoInfo, who.bob))>>

FramesOf(p) == IF p = "alice" THEN AliceFrames ELSE BobFrames

\* A queue holds the frames after those taken, as far as they are written.
Due(q, took, wrote, frames) ==
  /\ Len(q) = wrote - took
  /\ \A i \in 1..Len(q) : q[i] = frames[took + i]

Queues ==
  \A p \in Parties : Due(wire[p], Took(p, pc[p]), Wrote(Other(p), pc[Other(p)]), FramesOf(Other(p)))

\* Each has the other's messages, as far as it has taken their frames.
Letters ==
  /\ pc["alice"] # "connected" => TheRequest \in Messages /\ TheRequest.time <= now
  /\ BobTook(pc["bob"]) >= 1 => srq["bob"] = TheRequest
  /\ BobTook(pc["bob"]) >= 2 =>
       TheAnswer.kind = "created" /\ TheAnswer.pad \in CreatedPads /\ TheAnswer.time \in 0..now
  /\ AliceTook(pc["alice"]) >= 1 => scr["alice"] = TheAnswer

Hashes ==
  /\ h["alice"] = IF AliceTook(pc["alice"]) = 0 THEN Hash1
                  ELSE IF AliceTook(pc["alice"]) = 1 THEN Hash2 ELSE Hash4
  /\ h["bob"] = IF BobTook(pc["bob"]) <= 1 THEN Hash1
                ELSE IF BobTook(pc["bob"]) = 2 THEN Hash2 ELSE Hash4

Well == pc["alice"] \notin {"failed", "silent"} /\ pc["bob"] # "failed"

Exact == Well /\ Queues /\ Letters /\ Hashes

\* A frame that is taken is the next.
LEMMA DueTaken ==
  ASSUME NEW q, IsSeq(q), q # <<>>, NEW t \in Nat, NEW w \in Nat, NEW F, Due(q, t, w, F)
  PROVE  Head(q) = F[t + 1] /\ Due(Rest(q), t + 1, w, F)
<1>1. PICK S : q \in Seq(S)
  BY DEF IsSeq
<1>2. /\ Tail(q) \in Seq(S) /\ Len(Tail(q)) = Len(q) - 1 /\ Len(q) \in Nat /\ Len(q) > 0
      /\ \A i \in 1..Len(Tail(q)) : Tail(q)[i] = q[i + 1]
      /\ Head(q) = q[1]
  BY <1>1
<1>3. Head(q) = F[t + 1]
  BY <1>2 DEF Due
<1>4. Len(Tail(q)) = w - (t + 1)
  BY <1>2 DEF Due
<1>5. ASSUME NEW i \in 1..Len(Tail(q))
      PROVE  Tail(q)[i] = F[(t + 1) + i]
  <2>1. i + 1 \in 1..Len(q) /\ t + (i + 1) = (t + 1) + i
    BY <1>2
  <2>2. QED
    BY <1>2, <2>1 DEF Due
<1>6. QED
  BY <1>3, <1>4, <1>5 DEF Due, Rest

\* Frames that are written come after the others.
LEMMA DueWritten ==
  ASSUME NEW q, IsSeq(q), NEW t \in Nat, NEW w \in Nat, NEW F, Due(q, t, w, F),
         NEW out, IsSeq(out), \A i \in 1..Len(out) : out[i] = F[w + i]
  PROVE  Due(q \o out, t, w + Len(out), F)
<1>1. PICK S : q \in Seq(S)
  BY DEF IsSeq
<1>2. PICK T : out \in Seq(T)
  BY DEF IsSeq
<1> DEFINE U == S \cup T
<1>3. q \in Seq(U) /\ out \in Seq(U)
  BY <1>1, <1>2
<1> HIDE DEF U
<1>4. /\ Len(q \o out) = Len(q) + Len(out) /\ Len(q) \in Nat /\ Len(out) \in Nat
      /\ \A i \in 1..Len(q \o out) : (q \o out)[i] = IF i <= Len(q) THEN q[i] ELSE out[i - Len(q)]
  BY <1>3
<1>5. Len(q) = w - t
  BY DEF Due
<1>6. ASSUME NEW i \in 1..Len(q \o out)
      PROVE  (q \o out)[i] = F[t + i]
  <2>1. CASE i <= Len(q)
    <3>1. i \in 1..Len(q)
      BY <1>4, <2>1
    <3>2. QED
      BY <1>4, <2>1, <3>1 DEF Due
  <2>2. CASE ~(i <= Len(q))
    <3>1. i - Len(q) \in 1..Len(out) /\ w + (i - Len(q)) = t + i
      BY <1>4, <1>5, <2>2
    <3>2. QED
      BY <1>4, <2>2, <3>1
  <2>3. QED
    BY <2>1, <2>2
<1>7. Len(q \o out) = (w + Len(out)) - t
  BY <1>4, <1>5
<1>8. QED
  BY <1>6, <1>7 DEF Due

\* Only the frames that are written matter.
LEMMA DueSame ==
  ASSUME NEW q, Len(q) \in Nat, NEW t \in Nat, NEW w \in Nat, NEW F, Due(q, t, w, F),
         NEW G, \A k \in 1..w : G[k] = F[k]
  PROVE  Due(q, t, w, G)
<1>1. ASSUME NEW i \in 1..Len(q)
      PROVE  q[i] = G[t + i]
  <2>1. t + i \in 1..w
    BY DEF Due
  <2>2. QED
    BY <2>1 DEF Due
<1>2. QED
  BY <1>1 DEF Due

LEMMA TookWrote ==
  ASSUME NEW p, NEW at
  PROVE  Took(p, at) \in Nat /\ Wrote(p, at) \in Nat
BY Numbers DEF Took, Wrote

\* What a reader gets is the frame that is due, if it asks for its size.
LEMMA ReadDue ==
  ASSUME Shapes, Queues, closed = {}, NEW p \in Parties, NEW n, NEW v \in Read(p, n),
         NEW x, FramesOf(Other(p))[Took(p, pc[p]) + 1] = Frame(n, x)
  PROVE  v = x /\ wire[p] # <<>>
<1>1. wire[p] # <<>>
  BY DEF Read, Gone
<1>2. Head(wire[p]) = Frame(n, x)
  <2>1. IsSeq(wire[p]) /\ Due(wire[p], Took(p, pc[p]), Wrote(Other(p), pc[Other(p)]), FramesOf(Other(p)))
    BY DEF Shapes, Queues
  <2>2. QED
    BY <1>1, <2>1, TookWrote, DueTaken
<1>3. QED
  BY <1>1, <1>2 DEF Read, Frame

\* The queues after a party has taken a frame, if any was there, and written.
LEMMA QueuesStep ==
  ASSUME Shapes, Queues, DOMAIN pc = Parties, NEW p \in Parties, NEW to, pc' = [pc EXCEPT ![p] = to],
         NEW out, IsSeq(out), Exchange(p, out),
         \/ wire[p] # <<>> /\ Took(p, to) = Took(p, pc[p]) + 1
         \/ wire[p] = <<>> /\ Took(p, to) = Took(p, pc[p]),
         Wrote(p, to) = Wrote(p, pc[p]) + Len(out),
         \A q \in Parties : \A k \in 1..Wrote(q, pc[q]) : FramesOf(q)'[k] = FramesOf(q)[k],
         \A i \in 1..Len(out) : out[i] = FramesOf(p)'[Wrote(p, pc[p]) + i]
  PROVE  Queues'
<1> DEFINE o == Other(p)
<1>1. o \in Parties /\ o # p /\ Other(o) = p /\ \A q \in Parties : q = p \/ q = o
  BY DEF Parties, Other
<1>2. pc'[p] = to /\ pc'[o] = pc[o]
  BY <1>1
<1>3. wire'[p] = Rest(wire[p]) /\ wire'[o] = wire[o] \o out
  BY Exchanged
<1>4. IsSeq(wire[p]) /\ IsSeq(wire[o])
  BY <1>1 DEF Shapes
<1>5. /\ Due(wire[p], Took(p, pc[p]), Wrote(o, pc[o]), FramesOf(o))
      /\ Due(wire[o], Took(o, pc[o]), Wrote(p, pc[p]), FramesOf(p))
  BY <1>1 DEF Queues
<1> HIDE DEF o
<1>6. /\ Due(wire[p], Took(p, pc[p]), Wrote(o, pc[o]), FramesOf(o)')
      /\ Due(wire[o], Took(o, pc[o]), Wrote(p, pc[p]), FramesOf(p)')
  <2>1. /\ \A k \in 1..Wrote(o, pc[o]) : FramesOf(o)'[k] = FramesOf(o)[k]
        /\ \A k \in 1..Wrote(p, pc[p]) : FramesOf(p)'[k] = FramesOf(p)[k]
    BY <1>1
  <2>2. Len(wire[p]) \in Nat /\ Len(wire[o]) \in Nat
    BY <1>4, SeqLen
  <2>3. QED
    BY <1>5, <2>1, <2>2, TookWrote, DueSame
<1>7. Due(wire'[p], Took(p, to), Wrote(o, pc[o]), FramesOf(o)')
  <2>1. CASE wire[p] # <<>> /\ Took(p, to) = Took(p, pc[p]) + 1
    BY <1>3, <1>4, <1>6, <2>1, TookWrote, DueTaken
  <2>2. CASE wire[p] = <<>> /\ Took(p, to) = Took(p, pc[p])
    BY <1>3, <1>6, <2>2 DEF Rest
  <2>3. QED
    BY <2>1, <2>2
<1>8. Due(wire'[o], Took(o, pc[o]), Wrote(p, to), FramesOf(p)')
  <2> DEFINE F == FramesOf(p)'
             w == Wrote(p, pc[p])
             t == Took(o, pc[o])
  <2>1. IsSeq(wire[o]) /\ Due(wire[o], t, w, F) /\ t \in Nat /\ w \in Nat
    BY <1>4, <1>6, TookWrote
  <2>2. \A i \in 1..Len(out) : out[i] = F[w + i]
    OBVIOUS
  <2>3. Wrote(p, to) = w + Len(out)
    OBVIOUS
  <2> HIDE DEF F, w, t
  <2>4. Due(wire[o] \o out, t, w + Len(out), F)
    BY <2>1, <2>2, DueWritten
  <2>5. QED
    BY <1>3, <2>3, <2>4 DEF F, t
<1>9. ASSUME NEW q \in Parties
      PROVE  Due(wire'[q], Took(q, pc'[q]), Wrote(Other(q), pc'[Other(q)]), FramesOf(Other(q))')
  BY <1>1, <1>2, <1>7, <1>8 DEF o
<1>10. QED
  BY <1>9 DEF Queues

\* The frames and the hashes follow from the messages drawn.
LEMMA SameScript ==
  ASSUME who' = who, srq'["alice"] = srq["alice"], scr'["bob"] = scr["bob"]
  PROVE  /\ TheRequest' = TheRequest /\ TheAnswer' = TheAnswer
         /\ Hash1' = Hash1 /\ Hash2' = Hash2 /\ Hash3' = Hash3 /\ Hash4' = Hash4
         /\ \A p \in Parties : FramesOf(p)' = FramesOf(p)
<1>1. TheRequest' = TheRequest /\ TheAnswer' = TheAnswer
  BY DEF TheRequest, TheAnswer
<1>2. Hash1' = Hash1 /\ Confirmed' = Confirmed
  BY DEF Hash1, Started, BobsKey, Confirmed, LocalKey
<1>3. Hash2' = Hash2
  BY <1>1, <1>2 DEF Hash2
<1>4. Hash3' = Hash3
  BY <1>1, <1>3 DEF Hash3
<1>5. Hash4' = Hash4
  BY <1>2, <1>4 DEF Hash4
<1>6. AliceFrames' = AliceFrames
  BY <1>1, <1>2, <1>4 DEF AliceFrames, ConfirmedFrame
<1>7. BobFrames' = BobFrames
  BY <1>1, <1>3, <1>5 DEF BobFrames
<1>8. QED
  BY <1>1, <1>2, <1>3, <1>4, <1>5, <1>6, <1>7 DEF FramesOf

\* The frames, one by one.
LEMMA Triple ==
  ASSUME NEW a, NEW b, NEW c
  PROVE  <<a, b, c>>[1] = a /\ <<a, b, c>>[2] = b /\ <<a, b, c>>[3] = c
OBVIOUS

LEMMA Quadruple ==
  ASSUME NEW a, NEW b, NEW c, NEW d
  PROVE  <<a, b, c, d>>[1] = a /\ <<a, b, c, d>>[2] = b /\ <<a, b, c, d>>[3] = c /\ <<a, b, c, d>>[4] = d
OBVIOUS

LEMMA AlicesFrames ==
  /\ FramesOf("alice")[1] = Frame(NoisePayloadSize, Sealed(Hash1, who.bob, TheRequest))
  /\ FramesOf("alice")[2] = Frame(TheRequest.pad, Padding(TheRequest.pad))
  /\ FramesOf("alice")[3] = ConfirmedFrame(Hash3, TheRequest.size)
BY Triple DEF FramesOf, AliceFrames

LEMMA BobsFrames ==
  /\ FramesOf("bob")[1] = Frame(NoisePayloadSize, Sealed(Hash2, who.bob, TheAnswer))
  /\ FramesOf("bob")[2] = Frame(TheAnswer.pad, Padding(TheAnswer.pad))
  /\ FramesOf("bob")[3] = Frame(SizeLen, [kind |-> "length", hash |-> Hash4])
  /\ FramesOf("bob")[4] = Frame(DataSize, Sealed(Hash4, NoInfo, who.bob))
BY Quadruple DEF FramesOf, BobFrames

\* Alice writes SessionRequest: Bob has written nothing.
LEMMA SendRequestExact ==
  ASSUME IInv, Calm, Exact, SendRequest
  PROVE  Exact'
<1>1. PICK pad \in RequestPads, size \in ConfirmedSizes :
        /\ srq' = [srq EXCEPT !["alice"] = Request(pad, size)]
        /\ Exchange("alice", RequestFrames(Request(pad, size)))
  BY DEF SendRequest
<1> DEFINE msg == Request(pad, size)
           out == RequestFrames(msg)
<1>2. msg \in Messages /\ msg.time = now
  BY DEF Request, Messages, Clock, IInv, TypeOK
<1>3. /\ pc' = [pc EXCEPT !["alice"] = "sending_request"] /\ pc["alice"] = "connected"
      /\ UNCHANGED <<who, h, scr, now>>
  BY DEF SendRequest, At, Goto
<1>4. DOMAIN pc = Parties /\ DOMAIN srq = Parties /\ "alice" \in Parties /\ "bob" \in Parties
  BY DEF IInv, TypeOK, Shapes, Parties
<1>5. pc'["alice"] = "sending_request" /\ pc'["bob"] = pc["bob"] /\ TheRequest' = msg
  BY <1>1, <1>3, <1>4 DEF TheRequest
<1>6. /\ AliceTook("connected") = 0 /\ AliceTook("sending_request") = 0
      /\ AliceWrote("connected") = 0 /\ AliceWrote("sending_request") = 2
  BY DEF AliceTook, AliceWrote, AliceLate
<1>7. BobTook(pc["bob"]) = 0 /\ BobWrote(pc["bob"]) = 0 /\ wire["alice"] = <<>>
  <2>1. IsSeq(wire["alice"]) /\ IsSeq(wire["bob"])
    BY <1>4 DEF IInv, Shapes
  <2>2. /\ Len(wire["bob"]) = 0 - BobTook(pc["bob"])
        /\ Len(wire["alice"]) = BobWrote(pc["bob"]) - 0
    BY <1>3, <1>4, <1>6 DEF Exact, Queues, Due, Took, Wrote, Other
  <2>3. BobTook(pc["bob"]) = 0
    BY <2>1, <2>2, SeqLen, Numbers
  <2>4. BobWrote(pc["bob"]) = 0
    BY <2>3 DEF BobTook, BobWrote
  <2>5. QED
    BY <2>1, <2>2, <2>3, <2>4, SeqLen
<1>8. Hash1' = Hash1 /\ h["alice"] = Hash1 /\ h["bob"] = Hash1 /\ who.dest = who.bob
  BY <1>3, <1>6, <1>7 DEF Exact, Hashes, Calm, KeysFit, Hash1, Started, BobsKey
<1>9. IsSeq(out) /\ Len(out) = 2 /\ out[1] = FramesOf("alice")'[1] /\ out[2] = FramesOf("alice")'[2]
  <2>1. /\ FramesOf("alice")'[1] = Frame(NoisePayloadSize, Sealed(Hash1, who.bob, msg))
        /\ FramesOf("alice")'[2] = Frame(msg.pad, Padding(msg.pad))
    BY <1>3, <1>5, <1>8, Triple DEF FramesOf, AliceFrames, Frame, Sealed, Padding
  <2>2. /\ out[1] = Frame(NoisePayloadSize, Sealed(Hash1, who.bob, msg))
        /\ out[2] = Frame(msg.pad, Padding(msg.pad))
    BY <1>8 DEF RequestFrames
  <2>3. IsSeq(out) /\ Len(out) = 2
    BY Pair DEF RequestFrames
  <2>4. QED
    BY <2>1, <2>2, <2>3
<1>10. Exchange("alice", out)
  BY <1>1
<1> HIDE DEF msg, out
<1>11. Queues'
  <2>1. \A q \in Parties : \A k \in 1..Wrote(q, pc[q]) : FramesOf(q)'[k] = FramesOf(q)[k]
    <3>1. Wrote("alice", pc["alice"]) = 0 /\ Wrote("bob", pc["bob"]) = 0
      BY <1>3, <1>6, <1>7 DEF Wrote
    <3>2. QED
      BY <3>1 DEF Parties
  <2>2. /\ Took("alice", "sending_request") = Took("alice", pc["alice"])
        /\ Wrote("alice", pc["alice"]) = 0
        /\ Wrote("alice", "sending_request") = Wrote("alice", pc["alice"]) + Len(out)
    BY <1>3, <1>6, <1>9 DEF Took, Wrote
  <2>3. \A i \in 1..Len(out) : out[i] = FramesOf("alice")'[Wrote("alice", pc["alice"]) + i]
    BY <1>9, <2>2
  <2>4. Shapes /\ Queues
    BY DEF IInv, Exact
  <2>5. QED
    BY <1>3, <1>4, <1>7, <1>9, <1>10, <2>1, <2>2, <2>3, <2>4, QueuesStep
<1>12. Letters'
  BY <1>2, <1>3, <1>5, <1>6, <1>7 DEF Letters, Messages
<1>13. Hashes' /\ Well'
  BY <1>3, <1>5, <1>6, <1>7, <1>8 DEF Hashes, Well, Exact
<1>14. QED
  BY <1>11, <1>12, <1>13 DEF Exact

\* The numbers of frames in the states where frames are taken and written.
LEMMA Counts ==
  /\ AliceTook("reading_created") = 0 /\ AliceTook("reading_created_padding") = 1
  /\ AliceTook("sending_confirmed") = 2 /\ AliceTook("reading_length") = 2
  /\ AliceTook("reading_data") = 3 /\ AliceTook("ready") = 4
  /\ AliceWrote("reading_created") = 2 /\ AliceWrote("reading_created_padding") = 2
  /\ \A at \in AliceLate : AliceWrote(at) = 3
  /\ BobTook("reading_request") = 0 /\ BobTook("reading_request_padding") = 1
  /\ BobTook("sending_created") = 2 /\ BobTook("reading_confirmed") = 2 /\ BobTook("sending_data") = 3
  /\ BobWrote("reading_request") = 0 /\ BobWrote("reading_request_padding") = 0
  /\ BobWrote("sending_created") = 2 /\ BobWrote("reading_confirmed") = 2
  /\ BobWrote("sending_data") = 4
BY DEF AliceTook, AliceWrote, AliceLate, BobTook, BobWrote

\* Who has something to read, knows that it was written.
LEMMA Written ==
  ASSUME Shapes, Queues
  PROVE  /\ wire["bob"] # <<>> => AliceWrote(pc["alice"]) > BobTook(pc["bob"])
         /\ wire["alice"] # <<>> => BobWrote(pc["bob"]) > AliceTook(pc["alice"])
<1>1. IsSeq(wire["alice"]) /\ IsSeq(wire["bob"])
  BY DEF Shapes, Parties
<1>2. /\ Len(wire["bob"]) = AliceWrote(pc["alice"]) - BobTook(pc["bob"])
      /\ Len(wire["alice"]) = BobWrote(pc["bob"]) - AliceTook(pc["alice"])
  BY DEF Queues, Due, Took, Wrote, Other, Parties
<1>3. /\ wire["bob"] # <<>> => Len(wire["bob"]) > 0
      /\ wire["alice"] # <<>> => Len(wire["alice"]) > 0
  BY <1>1, SeqLen
<1>4. /\ AliceWrote(pc["alice"]) \in Nat /\ BobTook(pc["bob"]) \in Nat
      /\ BobWrote(pc["bob"]) \in Nat /\ AliceTook(pc["alice"]) \in Nat
  BY Numbers
<1>5. QED
  BY <1>2, <1>3, <1>4

\* A party takes the frame that is due and writes those that follow, of the
\* messages that were drawn before.
LEMMA TakeStep ==
  ASSUME IInv, Exact, NEW p \in Parties, NEW to, pc' = [pc EXCEPT ![p] = to],
         NEW out, IsSeq(out), Exchange(p, out), wire[p] # <<>>,
         Took(p, to) = Took(p, pc[p]) + 1, Wrote(p, to) = Wrote(p, pc[p]) + Len(out),
         \A i \in 1..Len(out) : out[i] = FramesOf(p)[Wrote(p, pc[p]) + i],
         who' = who, srq'["alice"] = srq["alice"], scr'["bob"] = scr["bob"]
  PROVE  Queues'
<1>1. \A q \in Parties : FramesOf(q)' = FramesOf(q)
  BY SameScript
<1>2. \A q \in Parties : \A k \in 1..Wrote(q, pc[q]) : FramesOf(q)'[k] = FramesOf(q)[k]
  BY <1>1
<1>3. \A i \in 1..Len(out) : out[i] = FramesOf(p)'[Wrote(p, pc[p]) + i]
  BY <1>1
<1>4. Shapes /\ Queues /\ DOMAIN pc = Parties
  BY DEF IInv, Exact, TypeOK
<1>5. QED
  BY <1>2, <1>3, <1>4, QueuesStep

\* The messages drawn are in time, and their lengths are what they may be.
LEMMA FitLetters ==
  ASSUME IInv, Calm, Exact
  PROVE  /\ who.dest = who.bob /\ who.paired /\ closed = {}
         /\ AliceWrote(pc["alice"]) > 0 =>
              /\ RequestOptionsFit(TheRequest) /\ Fresh("bob", TheRequest.time)
         /\ BobWrote(pc["bob"]) > 0 =>
              /\ PadFits(TheAnswer.pad) /\ Fresh("alice", TheAnswer.time)
<1>1. who.dest = who.bob /\ who.paired /\ closed = {} /\ skew = 0 /\ now <= MaxLagDelta
  BY DEF Calm, KeysFit
<1>2. ASSUME AliceWrote(pc["alice"]) > 0
      PROVE  RequestOptionsFit(TheRequest) /\ Fresh("bob", TheRequest.time)
  <2>1. TheRequest \in Messages /\ TheRequest.time <= now
    BY <1>2 DEF Exact, Letters, AliceWrote
  <2>2. PICK s \in ConfirmedSizes, d \in RequestPads, t \in 0..MaxTime :
          TheRequest.size = s /\ TheRequest.pad = d /\ TheRequest.time = t
    BY <2>1 DEF Messages
  <2>3. now \in Nat /\ t \in Nat /\ t <= now /\ MaxLagDelta = 360
    BY <2>1, <2>2, HandshakeAssumption DEF IInv, TypeOK, MaxLagDelta
  <2>4. Fresh("bob", TheRequest.time)
    BY <1>1, <2>2, <2>3 DEF Fresh, Clock
  <2>5. RequestOptionsFit(TheRequest)
    BY <2>2, HandshakeAssumption DEF RequestOptionsFit, PadFits
  <2>6. QED
    BY <2>4, <2>5
<1>3. ASSUME BobWrote(pc["bob"]) > 0
      PROVE  PadFits(TheAnswer.pad) /\ Fresh("alice", TheAnswer.time)
  <2>1. BobTook(pc["bob"]) >= 2
    BY <1>3 DEF BobTook, BobWrote
  <2>2. TheAnswer.pad \in CreatedPads /\ TheAnswer.time \in 0..now
    BY <2>1 DEF Exact, Letters
  <2>3. PICK t \in 0..now : TheAnswer.time = t
    BY <2>2
  <2>4. now \in Nat /\ MaxLagDelta = 360
    BY HandshakeAssumption DEF IInv, TypeOK, MaxLagDelta
  <2>5. Fresh("alice", TheAnswer.time)
    BY <1>1, <2>3, <2>4 DEF Fresh, Clock
  <2>6. PadFits(TheAnswer.pad)
    BY <2>2, HandshakeAssumption DEF PadFits
  <2>7. QED
    BY <2>5, <2>6
<1>4. QED
  BY <1>1, <1>2, <1>3

\* Bob reads SessionRequest: it is the one that Alice sent.
LEMMA ReadRequestExact ==
  ASSUME IInv, Calm, Exact, ReadRequest
  PROVE  Exact'
<1>1. PICK v \in Read("bob", NoisePayloadSize) :
        /\ srq' = IF RequestError(v) = "authentication" THEN srq ELSE [srq EXCEPT !["bob"] = v.body]
        /\ IF RequestError(v) = "nothing" THEN Goto("bob", "reading_request_padding")
                                          ELSE Fail("bob", RequestError(v))
  BY DEF ReadRequest
<1>2. pc["bob"] = "reading_request" /\ Exchange("bob", <<>>) /\ UNCHANGED <<who, h, scr, now>>
  BY DEF ReadRequest, At
<1>3. DOMAIN pc = Parties /\ DOMAIN srq = Parties /\ "alice" \in Parties /\ "bob" \in Parties
  BY DEF IInv, TypeOK, Shapes, Parties
<1>4. v = Sealed(Hash1, who.bob, TheRequest) /\ wire["bob"] # <<>>
  <2>1. FramesOf(Other("bob"))[Took("bob", pc["bob"]) + 1]
          = Frame(NoisePayloadSize, Sealed(Hash1, who.bob, TheRequest))
    BY <1>2, Counts, AlicesFrames DEF Took, Other
  <2>2. QED
    BY <1>1, <1>3, <2>1, ReadDue, FitLetters DEF IInv, Exact
<1>5. AliceWrote(pc["alice"]) > 0
  BY <1>2, <1>4, Written, Counts DEF IInv, Exact
<1>6. h["bob"] = Hash1
  BY <1>2, Counts DEF Exact, Hashes
<1>7. Opens(v, h["bob"], who.bob) /\ v.body = TheRequest
  BY <1>4, <1>6, Seals DEF Opens
<1>8. RequestError(v) = "nothing"
  BY <1>5, <1>7, FitLetters DEF RequestError
<1>9. srq' = [srq EXCEPT !["bob"] = TheRequest] /\ pc' = [pc EXCEPT !["bob"] = "reading_request_padding"]
  BY <1>1, <1>7, <1>8 DEF Goto
<1>10. pc'["bob"] = "reading_request_padding" /\ pc'["alice"] = pc["alice"] /\ srq'["bob"] = TheRequest
       /\ srq'["alice"] = srq["alice"] /\ scr'["bob"] = scr["bob"]
  BY <1>2, <1>3, <1>9
<1>11. Queues'
  <2>1. IsSeq(<<>>) /\ Len(<<>>) = 0
    BY Nothing
  <2>2. Took("bob", "reading_request_padding") = Took("bob", pc["bob"]) + 1
        /\ Wrote("bob", "reading_request_padding") = Wrote("bob", pc["bob"]) + Len(<<>>)
    BY <1>2, <2>1, Counts DEF Took, Wrote
  <2>3. \A i \in 1..Len(<<>>) : <<>>[i] = FramesOf("bob")[Wrote("bob", pc["bob"]) + i]
    BY <2>1
  <2>4. QED
    BY <1>2, <1>3, <1>4, <1>9, <1>10, <2>1, <2>2, <2>3, TakeStep
<1>12. Letters' /\ Hashes' /\ Well'
  BY <1>2, <1>10, SameScript, Counts DEF Exact, Letters, Hashes, Well
<1>13. QED
  BY <1>11, <1>12 DEF Exact

\* Bob reads its padding, which Alice wrote, and answers: the hash that he mixes
\* is the one she will have, and nothing of his is on the wire yet.
LEMMA SendCreatedExact ==
  ASSUME IInv, Calm, Exact, SendCreated
  PROVE  Exact'
<1>1. PICK v \in Read("bob", srq["bob"].pad), pad \in CreatedPads :
        LET hash == Mixed(h["bob"], srq["bob"], v)
        IN /\ h' = [h EXCEPT !["bob"] = hash]
           /\ scr' = [scr EXCEPT !["bob"] = Created(pad)]
           /\ Exchange("bob", CreatedFrames(hash, Created(pad)))
  BY DEF SendCreated
<1> DEFINE msg == Created(pad)
           out == CreatedFrames(Hash2, msg)
<1>2. /\ pc' = [pc EXCEPT !["bob"] = "sending_created"] /\ pc["bob"] = "reading_request_padding"
      /\ UNCHANGED <<who, srq, now>>
  BY DEF SendCreated, At, Goto
<1>3. DOMAIN pc = Parties /\ DOMAIN scr = Parties /\ DOMAIN h = Parties
      /\ "alice" \in Parties /\ "bob" \in Parties /\ now \in Nat
  BY DEF IInv, TypeOK, Shapes, Parties
<1>4. srq["bob"] = TheRequest /\ h["bob"] = Hash1
  BY <1>2, Counts DEF Exact, Letters, Hashes
<1>5. v = Padding(TheRequest.pad) /\ wire["bob"] # <<>>
  <2>1. FramesOf(Other("bob"))[Took("bob", pc["bob"]) + 1] = Frame(TheRequest.pad, Padding(TheRequest.pad))
    BY <1>2, Counts, AlicesFrames DEF Took, Other
  <2>2. QED
    BY <1>1, <1>3, <1>4, <2>1, ReadDue, FitLetters DEF IInv, Exact
<1>6. Mixed(h["bob"], srq["bob"], v) = Hash2
  BY <1>4, <1>5 DEF Hash2
<1>7. h' = [h EXCEPT !["bob"] = Hash2] /\ scr' = [scr EXCEPT !["bob"] = msg] /\ Exchange("bob", out)
  BY <1>1, <1>6
<1>8. msg.kind = "created" /\ msg.pad = pad /\ msg.time \in 0..now
  <2>1. skew = 0
    BY DEF Calm
  <2>2. msg.kind = "created" /\ msg.pad = pad /\ msg.time = now + 0
    BY <2>1 DEF Created, Clock
  <2>3. QED
    BY <1>3, <2>2
<1>9. AliceTook(pc["alice"]) = 0 /\ AliceWrote(pc["alice"]) <= 2
  <2>1. IsSeq(wire["alice"])
    BY <1>3 DEF IInv, Shapes
  <2>2. Len(wire["alice"]) = 0 - AliceTook(pc["alice"])
    BY <1>2, <1>3, Counts DEF Exact, Queues, Due, Took, Wrote, Other
  <2>3. Len(wire["alice"]) \in Nat /\ AliceTook(pc["alice"]) \in Nat
    BY <2>1, SeqLen, Numbers
  <2>4. AliceTook(pc["alice"]) = 0
    BY <2>2, <2>3
  <2>5. pc["alice"] \notin {"failed"}
    BY DEF Exact, Well
  <2>6. QED
    BY <2>4, <2>5 DEF AliceTook, AliceWrote, AliceLate
<1>10. Hash1' = Hash1 /\ Hash2' = Hash2 /\ TheRequest' = TheRequest /\ TheAnswer' = msg
  <2>1. Hash1' = Hash1 /\ TheRequest' = TheRequest
    BY <1>2 DEF Hash1, Started, BobsKey, TheRequest
  <2>2. Hash2' = Hash2
    BY <2>1 DEF Hash2
  <2>3. TheAnswer' = msg
    BY <1>3, <1>7 DEF TheAnswer
  <2>4. QED
    BY <2>1, <2>2, <2>3
<1>11. IsSeq(out) /\ Len(out) = 2 /\ out[1] = FramesOf("bob")'[1] /\ out[2] = FramesOf("bob")'[2]
  <2>1. /\ FramesOf("bob")'[1] = Frame(NoisePayloadSize, Sealed(Hash2, who.bob, msg))
        /\ FramesOf("bob")'[2] = Frame(msg.pad, Padding(msg.pad))
    BY <1>2, <1>10, Quadruple DEF FramesOf, BobFrames, Frame, Sealed, Padding
  <2>2. /\ out[1] = Frame(NoisePayloadSize, Sealed(Hash2, who.bob, msg))
        /\ out[2] = Frame(msg.pad, Padding(msg.pad))
    BY DEF CreatedFrames
  <2>3. IsSeq(out) /\ Len(out) = 2
    BY Pair DEF CreatedFrames
  <2>4. QED
    BY <2>1, <2>2, <2>3
<1>12. \A k \in 1..AliceWrote(pc["alice"]) : FramesOf("alice")'[k] = FramesOf("alice")[k]
  <2>1. FramesOf("alice")'[1] = FramesOf("alice")[1] /\ FramesOf("alice")'[2] = FramesOf("alice")[2]
    BY <1>2, <1>10, Triple DEF FramesOf, AliceFrames, Frame, Sealed, Padding
  <2>2. \A k \in 1..AliceWrote(pc["alice"]) : k = 1 \/ k = 2
    BY <1>9, Numbers
  <2>3. QED
    BY <2>1, <2>2
<1> HIDE DEF msg, out
<1>13. Queues'
  <2>1. Wrote("bob", pc["bob"]) = 0 /\ Wrote("alice", pc["alice"]) = AliceWrote(pc["alice"])
        /\ Wrote("bob", "sending_created") = 2
        /\ Took("bob", "sending_created") = Took("bob", pc["bob"]) + 1
    BY <1>2, Counts DEF Wrote, Took
  <2>2. \A q \in Parties : \A k \in 1..Wrote(q, pc[q]) : FramesOf(q)'[k] = FramesOf(q)[k]
    BY <1>12, <2>1 DEF Parties
  <2>3. \A i \in 1..Len(out) : out[i] = FramesOf("bob")'[Wrote("bob", pc["bob"]) + i]
    BY <1>11, <2>1
  <2>4. Wrote("bob", "sending_created") = Wrote("bob", pc["bob"]) + Len(out)
    BY <1>11, <2>1
  <2>5. Shapes /\ Queues
    BY DEF IInv, Exact
  <2>6. QED
    BY <1>2, <1>3, <1>5, <1>7, <1>11, <2>1, <2>2, <2>3, <2>4, <2>5, QueuesStep
<1>14. pc'["bob"] = "sending_created" /\ pc'["alice"] = pc["alice"]
       /\ h'["bob"] = Hash2 /\ h'["alice"] = h["alice"]
  BY <1>2, <1>3, <1>7
<1>15. Letters'
  <2>1. pc["alice"] # "connected" => TheRequest \in Messages /\ TheRequest.time <= now
    BY DEF Exact, Letters
  <2>2. Messages' = Messages
    BY DEF Messages
  <2>3. QED
    BY <1>2, <1>4, <1>8, <1>9, <1>10, <1>14, <2>1, <2>2 DEF Letters
<1>16. Hashes' /\ Well'
  BY <1>9, <1>10, <1>14, Counts DEF Exact, Hashes, Well
<1>17. QED
  BY <1>13, <1>15, <1>16 DEF Exact

\* Alice reads SessionCreated: it is the one that Bob sent.
LEMMA ReadCreatedExact ==
  ASSUME IInv, Calm, Exact, ReadCreated
  PROVE  Exact'
<1> DEFINE hash == Mixed(h["alice"], srq["alice"], Padding(srq["alice"].pad))
<1>1. PICK v \in Read("alice", NoisePayloadSize) :
        /\ scr' = IF CreatedError(hash, v) = "authentication" THEN scr
                                                              ELSE [scr EXCEPT !["alice"] = v.body]
        /\ IF CreatedError(hash, v) = "nothing" THEN Goto("alice", "reading_created_padding")
                                                ELSE Fail("alice", CreatedError(hash, v))
  BY DEF ReadCreated
<1>2. pc["alice"] = "reading_created" /\ Exchange("alice", <<>>) /\ UNCHANGED <<who, srq, now>>
      /\ h' = [h EXCEPT !["alice"] = hash]
  BY DEF ReadCreated, At
<1>3. DOMAIN pc = Parties /\ DOMAIN scr = Parties /\ DOMAIN h = Parties
      /\ "alice" \in Parties /\ "bob" \in Parties
  BY DEF IInv, TypeOK, Shapes, Parties
<1>4. hash = Hash2
  <2>1. h["alice"] = Hash1
    BY <1>2, Counts DEF Exact, Hashes
  <2>2. QED
    BY <2>1 DEF Hash2, TheRequest
<1> HIDE DEF hash
<1>5. v = Sealed(Hash2, who.bob, TheAnswer) /\ wire["alice"] # <<>>
  <2>1. FramesOf(Other("alice"))[Took("alice", pc["alice"]) + 1]
          = Frame(NoisePayloadSize, Sealed(Hash2, who.bob, TheAnswer))
    BY <1>2, Counts, BobsFrames DEF Took, Other
  <2>2. QED
    BY <1>1, <1>3, <2>1, ReadDue, FitLetters DEF IInv, Exact
<1>6. BobWrote(pc["bob"]) > 0
  BY <1>2, <1>5, Written, Counts DEF IInv, Exact
<1>7. Opens(v, hash, who.dest) /\ v.body = TheAnswer
  BY <1>4, <1>5, Seals, FitLetters DEF Opens
<1>8. CreatedError(hash, v) = "nothing"
  BY <1>6, <1>7, FitLetters DEF CreatedError
<1>9. scr' = [scr EXCEPT !["alice"] = TheAnswer] /\ pc' = [pc EXCEPT !["alice"] = "reading_created_padding"]
  BY <1>1, <1>7, <1>8 DEF Goto
<1>10. /\ pc'["alice"] = "reading_created_padding" /\ pc'["bob"] = pc["bob"]
       /\ scr'["alice"] = TheAnswer /\ scr'["bob"] = scr["bob"]
       /\ h'["alice"] = Hash2 /\ h'["bob"] = h["bob"]
       /\ srq'["alice"] = srq["alice"] /\ srq'["bob"] = srq["bob"]
  BY <1>2, <1>3, <1>4, <1>9
<1>11. Queues'
  <2>1. IsSeq(<<>>) /\ Len(<<>>) = 0
    BY Nothing
  <2>2. /\ Took("alice", "reading_created_padding") = Took("alice", pc["alice"]) + 1
        /\ Wrote("alice", "reading_created_padding") = Wrote("alice", pc["alice"]) + Len(<<>>)
    BY <1>2, <2>1, Counts DEF Took, Wrote
  <2>3. \A i \in 1..Len(<<>>) : <<>>[i] = FramesOf("alice")[Wrote("alice", pc["alice"]) + i]
    BY <2>1
  <2>4. QED
    BY <1>2, <1>3, <1>5, <1>9, <1>10, <2>1, <2>2, <2>3, TakeStep
<1>12. Letters' /\ Hashes' /\ Well'
  BY <1>2, <1>10, SameScript, Counts DEF Exact, Letters, Hashes, Well, Messages
<1>13. QED
  BY <1>11, <1>12 DEF Exact

\* Alice reads its padding, which Bob wrote, and sends SessionConfirmed.
LEMMA SendConfirmedExact ==
  ASSUME IInv, Calm, Exact, SendConfirmed
  PROVE  Exact'
<1>1. PICK v \in Read("alice", scr["alice"].pad) :
        LET hash == Mixed(h["alice"], scr["alice"], v)
        IN /\ h' = [h EXCEPT !["alice"] = Append(hash, Confirmed)]
           /\ Exchange("alice", <<ConfirmedFrame(hash, srq["alice"].size)>>)
  BY DEF SendConfirmed
<1> DEFINE f == ConfirmedFrame(Hash3, TheRequest.size)
<1>2. /\ pc' = [pc EXCEPT !["alice"] = "sending_confirmed"] /\ pc["alice"] = "reading_created_padding"
      /\ UNCHANGED <<who, srq, scr, now>>
  BY DEF SendConfirmed, At, Goto
<1>3. DOMAIN pc = Parties /\ DOMAIN h = Parties /\ "alice" \in Parties /\ "bob" \in Parties
  BY DEF IInv, TypeOK, Shapes, Parties
<1>4. scr["alice"] = TheAnswer /\ h["alice"] = Hash2
  BY <1>2, Counts DEF Exact, Letters, Hashes
<1>5. v = Padding(TheAnswer.pad) /\ wire["alice"] # <<>>
  <2>1. FramesOf(Other("alice"))[Took("alice", pc["alice"]) + 1] = Frame(TheAnswer.pad, Padding(TheAnswer.pad))
    BY <1>2, Counts, BobsFrames DEF Took, Other
  <2>2. QED
    BY <1>1, <1>3, <1>4, <2>1, ReadDue, FitLetters DEF IInv, Exact
<1>6. Mixed(h["alice"], scr["alice"], v) = Hash3
  BY <1>4, <1>5 DEF Hash3
<1>7. h' = [h EXCEPT !["alice"] = Hash4] /\ Exchange("alice", <<f>>)
  BY <1>1, <1>6 DEF Hash4, TheRequest
<1>8. IsSeq(<<f>>) /\ Len(<<f>>) = 1 /\ <<f>>[1] = FramesOf("alice")[3]
  BY One, AlicesFrames
<1> HIDE DEF f
<1>9. /\ pc'["alice"] = "sending_confirmed" /\ pc'["bob"] = pc["bob"]
      /\ h'["alice"] = Hash4 /\ h'["bob"] = h["bob"]
  BY <1>2, <1>3, <1>7
<1>10. Queues'
  <2>1. /\ Took("alice", "sending_confirmed") = Took("alice", pc["alice"]) + 1
        /\ Wrote("alice", pc["alice"]) = 2 /\ Wrote("alice", "sending_confirmed") = 3
    BY <1>2, Counts DEF Took, Wrote, AliceLate
  <2>2. Wrote("alice", "sending_confirmed") = Wrote("alice", pc["alice"]) + Len(<<f>>)
    BY <1>8, <2>1
  <2>3. \A i \in 1..Len(<<f>>) : <<f>>[i] = FramesOf("alice")[Wrote("alice", pc["alice"]) + i]
    BY <1>8, <2>1
  <2>4. QED
    BY <1>2, <1>3, <1>5, <1>7, <1>8, <2>1, <2>2, <2>3, TakeStep
<1>11. Letters' /\ Hashes' /\ Well'
  BY <1>2, <1>4, <1>9, SameScript, Counts DEF Exact, Letters, Hashes, Well, Messages
<1>12. QED
  BY <1>10, <1>11 DEF Exact

\* Bob reads SessionConfirmed: its key is that of the RouterInfo, and he writes
\* the first message of the data phase.
LEMMA ReadConfirmedExact ==
  ASSUME IInv, Calm, Exact, ReadConfirmed
  PROVE  Exact'
<1> DEFINE hash == Mixed(h["bob"], scr["bob"], Padding(scr["bob"].pad))
           n == PartOneSize + srq["bob"].size
<1>1. PICK v \in Read("bob", n) :
          IF ~ConfirmedOpens(v, hash)
          THEN /\ Fail("bob", "authentication")
               /\ Exchange("bob", <<>>)
               /\ UNCHANGED shakeVars
          ELSE /\ h' = [h EXCEPT !["bob"] = Append(hash, v.body)]
               /\ peer' = [peer EXCEPT !["bob"] = v.body.info]
               /\ rkey' = [rkey EXCEPT !["bob"] = v.body.key]
               /\ IF StaticKey[v.body.info] = v.body.key
                  THEN /\ Goto("bob", "sending_data")
                       /\ Exchange("bob", DataFrames(Append(hash, v.body)))
                  ELSE /\ Fail("bob", "static_key")
                       /\ Exchange("bob", <<>>)
               /\ UNCHANGED <<srq, scr>>
  BY DEF ReadConfirmed
<1>2. pc["bob"] = "reading_confirmed" /\ UNCHANGED <<who, now>>
  BY DEF ReadConfirmed, At
<1>3. DOMAIN pc = Parties /\ DOMAIN h = Parties /\ "alice" \in Parties /\ "bob" \in Parties
  BY DEF IInv, TypeOK, Shapes, Parties
<1>4. srq["bob"] = TheRequest /\ h["bob"] = Hash2
  BY <1>2, Counts DEF Exact, Letters, Hashes
<1>5. hash = Hash3 /\ n = PartOneSize + TheRequest.size
  BY <1>4 DEF Hash3, TheAnswer
<1> HIDE DEF hash, n
<1>6. v = Sealed(Hash3, NoInfo, Confirmed) /\ wire["bob"] # <<>>
  <2>1. FramesOf(Other("bob"))[Took("bob", pc["bob"]) + 1] = Frame(n, Sealed(Hash3, NoInfo, Confirmed))
    BY <1>2, <1>5, Counts, AlicesFrames DEF Took, Other, ConfirmedFrame
  <2>2. QED
    BY <1>1, <1>3, <2>1, ReadDue, FitLetters DEF IInv, Exact
<1>7. v.body = Confirmed /\ Confirmed.paired /\ StaticKey[Confirmed.info] = Confirmed.key
  <2>1. v.body = Confirmed
    BY <1>6, Seals
  <2>2. Confirmed.paired = who.paired /\ Confirmed.info = who.alice /\ Confirmed.key = IdKey[who.dest]
    BY DEF Confirmed, LocalKey
  <2>3. who.paired /\ StaticKey[who.alice] = IdKey[who.dest]
    BY DEF Calm, KeysFit
  <2>4. QED
    BY <2>1, <2>2, <2>3
<1>8. ConfirmedOpens(v, hash)
  BY <1>5, <1>6, <1>7, Seals DEF ConfirmedOpens, Opens
<1>9. Append(hash, v.body) = Hash4
  BY <1>5, <1>7 DEF Hash4
<1>10. /\ h' = [h EXCEPT !["bob"] = Hash4] /\ pc' = [pc EXCEPT !["bob"] = "sending_data"]
       /\ Exchange("bob", DataFrames(Hash4)) /\ UNCHANGED <<srq, scr>>
  BY <1>1, <1>7, <1>8, <1>9 DEF Goto
<1> DEFINE out == DataFrames(Hash4)
<1>11. IsSeq(out) /\ Len(out) = 2 /\ out[1] = FramesOf("bob")[3] /\ out[2] = FramesOf("bob")[4]
  BY Pair, BobsFrames DEF DataFrames
<1>12. Exchange("bob", out)
  BY <1>10
<1> HIDE DEF out
<1>13. /\ pc'["bob"] = "sending_data" /\ pc'["alice"] = pc["alice"]
       /\ h'["bob"] = Hash4 /\ h'["alice"] = h["alice"]
  BY <1>3, <1>10
<1>14. Queues'
  <2>1. /\ Took("bob", "sending_data") = Took("bob", pc["bob"]) + 1
        /\ Wrote("bob", pc["bob"]) = 2 /\ Wrote("bob", "sending_data") = 4
    BY <1>2, Counts DEF Took, Wrote
  <2>2. Wrote("bob", "sending_data") = Wrote("bob", pc["bob"]) + Len(out)
    BY <1>11, <2>1
  <2>3. \A i \in 1..Len(out) : out[i] = FramesOf("bob")[Wrote("bob", pc["bob"]) + i]
    BY <1>11, <2>1
  <2>4. QED
    BY <1>2, <1>3, <1>6, <1>10, <1>11, <1>12, <2>1, <2>2, <2>3, TakeStep
<1>15. Letters' /\ Hashes' /\ Well'
  BY <1>2, <1>4, <1>10, <1>13, SameScript, Counts DEF Exact, Letters, Hashes, Well, Messages
<1>16. QED
  BY <1>14, <1>15 DEF Exact

\* Alice reads the length, and the message, which Bob sealed under her hash.
LEMMA ReadDataExact ==
  ASSUME IInv, Calm, Exact, ReadLength \/ ReadData
  PROVE  Exact'
<1>1. DOMAIN pc = Parties /\ "alice" \in Parties /\ "bob" \in Parties
  BY DEF IInv, TypeOK, Parties
<1>2. Exchange("alice", <<>>) /\ UNCHANGED <<who, shakeVars, closed, now>>
  BY DEF ReadLength, ReadData
<1>3. pc["alice"] \in {"reading_length", "reading_data"}
  BY DEF ReadLength, ReadData, At
<1>4. h["alice"] = Hash4
  BY <1>3, Counts DEF Exact, Hashes
<1>5. \E to \in {"reading_data", "ready"} :
        /\ pc' = [pc EXCEPT !["alice"] = to] /\ AliceTook(to) = AliceTook(pc["alice"]) + 1
        /\ wire["alice"] # <<>>
  <2>1. CASE ReadLength
    <3>1. PICK v \in Read("alice", SizeLen) :
            IF v = [kind |-> "length", hash |-> h["alice"]]
            THEN Goto("alice", "reading_data")
            ELSE \E at \in {"reading_data", "silent"} : Goto("alice", at)
      BY <2>1 DEF ReadLength
    <3>2. pc["alice"] = "reading_length"
      BY <2>1 DEF ReadLength, At
    <3>3. FramesOf(Other("alice"))[Took("alice", pc["alice"]) + 1]
            = Frame(SizeLen, [kind |-> "length", hash |-> Hash4])
      BY <3>2, Counts, BobsFrames DEF Took, Other
    <3>4. v = [kind |-> "length", hash |-> Hash4] /\ wire["alice"] # <<>>
      BY <1>1, <3>1, <3>3, ReadDue, FitLetters DEF IInv, Exact
    <3>5. Goto("alice", "reading_data")
      BY <1>4, <3>1, <3>4
    <3>6. QED
      BY <3>2, <3>4, <3>5, Counts DEF Goto
  <2>2. CASE ReadData
    <3>1. PICK v \in Read("alice", DataSize) :
            IF ~Opens(v, h["alice"], NoInfo) THEN Fail("alice", "authentication")
            ELSE IF StaticKey[v.body] # StaticKey[who.dest] THEN Fail("alice", "static_key")
            ELSE Goto("alice", "ready")
      BY <2>2 DEF ReadData
    <3>2. pc["alice"] = "reading_data"
      BY <2>2 DEF ReadData, At
    <3>3. FramesOf(Other("alice"))[Took("alice", pc["alice"]) + 1]
            = Frame(DataSize, Sealed(Hash4, NoInfo, who.bob))
      BY <3>2, Counts, BobsFrames DEF Took, Other
    <3>4. v = Sealed(Hash4, NoInfo, who.bob) /\ wire["alice"] # <<>>
      BY <1>1, <3>1, <3>3, ReadDue, FitLetters DEF IInv, Exact
    <3>5. Opens(v, h["alice"], NoInfo) /\ v.body = who.dest
      BY <1>4, <3>4, Seals, FitLetters DEF Opens
    <3>6. Goto("alice", "ready")
      BY <3>1, <3>5
    <3>7. QED
      BY <3>2, <3>4, <3>6, Counts DEF Goto
  <2>3. QED
    BY <2>1, <2>2
<1>6. PICK to \in {"reading_data", "ready"} :
        /\ pc' = [pc EXCEPT !["alice"] = to] /\ AliceTook(to) = AliceTook(pc["alice"]) + 1
        /\ wire["alice"] # <<>>
  BY <1>5
<1>7. pc'["alice"] = to /\ pc'["bob"] = pc["bob"]
  BY <1>1, <1>6
<1>8. AliceTook(pc["alice"]) >= 2 /\ AliceTook(to) >= 2
  BY <1>3, <1>6, Counts
<1>9. Queues'
  <2>1. IsSeq(<<>>) /\ Len(<<>>) = 0
    BY Nothing
  <2>2. Took("alice", to) = Took("alice", pc["alice"]) + 1
    BY <1>6 DEF Took
  <2>3. Wrote("alice", to) = Wrote("alice", pc["alice"]) + Len(<<>>)
    BY <1>3, <2>1 DEF Wrote, AliceWrote, AliceLate
  <2>4. \A i \in 1..Len(<<>>) : <<>>[i] = FramesOf("alice")[Wrote("alice", pc["alice"]) + i]
    BY <2>1
  <2>5. QED
    BY <1>1, <1>2, <1>6, <2>1, <2>2, <2>3, <2>4, TakeStep DEF shakeVars
<1>10. TheRequest' = TheRequest /\ TheAnswer' = TheAnswer /\ Hash1' = Hash1 /\ Hash2' = Hash2 /\ Hash4' = Hash4
  BY <1>2, SameScript DEF shakeVars
<1>11. Letters'
  <2>1. AliceTook(pc["alice"]) \in Nat /\ pc["alice"] # "connected"
    BY <1>3, Numbers
  <2>2. TheRequest \in Messages /\ TheRequest.time <= now /\ scr["alice"] = TheAnswer
    BY <1>8, <2>1 DEF Exact, Letters
  <2>3. Messages' = Messages /\ now' = now /\ srq' = srq /\ scr' = scr
    BY <1>2 DEF Messages, shakeVars
  <2>4. QED
    BY <1>7, <1>10, <2>2, <2>3 DEF Exact, Letters
<1>12. Hashes'
  BY <1>2, <1>4, <1>7, <1>8, <1>10 DEF Exact, Hashes, shakeVars
<1>13. Well'
  BY <1>7 DEF Exact, Well
<1>14. QED
  BY <1>9, <1>11, <1>12, <1>13 DEF Exact

\* Steps that take nothing and write nothing.
LEMMA LedExact ==
  ASSUME IInv, Exact, NEW p \in Parties, NEW from, NEW to, pc[p] = from, pc' = [pc EXCEPT ![p] = to],
         UNCHANGED <<who, shakeVars, wire, now>>,
         Took(p, to) = Took(p, from), Wrote(p, to) = Wrote(p, from),
         to \notin {"failed", "silent"}, from # "connected"
  PROVE  Exact'
<1>1. DOMAIN pc = Parties
  BY DEF IInv, TypeOK
<1>2. \A q \in Parties : /\ Took(q, pc'[q]) = Took(q, pc[q]) /\ Wrote(q, pc'[q]) = Wrote(q, pc[q])
                         /\ Other(q) \in Parties
  BY <1>1 DEF Parties, Other
<1>3. AliceTook(pc'["alice"]) = AliceTook(pc["alice"]) /\ BobTook(pc'["bob"]) = BobTook(pc["bob"])
  BY <1>2 DEF Took, Parties
<1>4. /\ TheRequest' = TheRequest /\ TheAnswer' = TheAnswer /\ Hash1' = Hash1 /\ Hash2' = Hash2
      /\ Hash4' = Hash4 /\ \A q \in Parties : FramesOf(q)' = FramesOf(q)
  BY SameScript DEF shakeVars
<1>5. Queues'
  <2>1. \A q \in Parties :
          Due(wire[q], Took(q, pc'[q]), Wrote(Other(q), pc'[Other(q)]), FramesOf(Other(q))')
    BY <1>2, <1>4 DEF Exact, Queues
  <2>2. QED
    BY <2>1 DEF Queues
<1>6. Letters'
  <2>1. pc'["alice"] # "connected" => pc["alice"] # "connected"
    BY <1>1 DEF Parties
  <2>2. Messages' = Messages /\ now' = now /\ srq' = srq /\ scr' = scr
    BY DEF Messages, shakeVars
  <2>3. QED
    BY <1>3, <1>4, <2>1, <2>2 DEF Exact, Letters
<1>7. Hashes'
  BY <1>3, <1>4 DEF Exact, Hashes, shakeVars
<1>8. Well'
  BY <1>1 DEF Exact, Well
<1>9. QED
  BY <1>5, <1>6, <1>7, <1>8 DEF Exact

LEMMA QuietExact ==
  ASSUME IInv, Exact,
         \/ Sent("alice", "sending_request", "await_created")
         \/ Readable("alice", "await_created", "reading_created")
         \/ Sent("alice", "sending_confirmed", "await_data")
         \/ Readable("alice", "await_data", "reading_length")
         \/ Readable("bob", "await_request", "reading_request")
         \/ CreatedSent
         \/ Readable("bob", "await_confirmed", "reading_confirmed")
         \/ Sent("bob", "sending_data", "ready")
  PROVE  Exact'
<1>1. "alice" \in Parties /\ "bob" \in Parties
  BY DEF Parties
<1>2. UNCHANGED <<who, shakeVars, wire, now>>
  BY DEF Sent, Readable, CreatedSent
<1>3. CASE \/ Sent("alice", "sending_request", "await_created")
           \/ Readable("alice", "await_created", "reading_created")
           \/ Sent("alice", "sending_confirmed", "await_data")
           \/ Readable("alice", "await_data", "reading_length")
  <2>1. PICK from, to :
          /\ pc["alice"] = from /\ pc' = [pc EXCEPT !["alice"] = to]
          /\ <<from, to>> \in {<<"sending_request", "await_created">>, <<"await_created", "reading_created">>,
                               <<"sending_confirmed", "await_data">>, <<"await_data", "reading_length">>}
    BY <1>3 DEF Sent, Readable, At, Goto
  <2>2. /\ Took("alice", to) = Took("alice", from) /\ Wrote("alice", to) = Wrote("alice", from)
        /\ to \notin {"failed", "silent"} /\ from # "connected"
    BY <2>1 DEF Took, Wrote, AliceTook, AliceWrote, AliceLate
  <2>3. QED
    BY <1>1, <1>2, <2>1, <2>2, LedExact
<1>4. CASE \/ Readable("bob", "await_request", "reading_request")
           \/ CreatedSent
           \/ Readable("bob", "await_confirmed", "reading_confirmed")
           \/ Sent("bob", "sending_data", "ready")
  <2>1. PICK from, to :
          /\ pc["bob"] = from /\ pc' = [pc EXCEPT !["bob"] = to]
          /\ <<from, to>> \in {<<"await_request", "reading_request">>, <<"sending_created", "await_confirmed">>,
                               <<"await_confirmed", "reading_confirmed">>, <<"sending_data", "ready">>}
    BY <1>4 DEF Sent, Readable, CreatedSent, At, Goto
  <2>2. /\ Took("bob", to) = Took("bob", from) /\ Wrote("bob", to) = Wrote("bob", from)
        /\ to \notin {"failed", "silent"} /\ from # "connected"
    BY <2>1 DEF Took, Wrote, BobTook, BobWrote
  <2>3. QED
    BY <1>1, <1>2, <2>1, <2>2, LedExact
<1>5. QED
  BY <1>3, <1>4

\* Time passes, or nothing happens.
LEMMA LaterExact ==
  ASSUME IInv, Exact, UNCHANGED <<who, pc, shakeVars, wire>>, now' \in Nat, now <= now'
  PROVE  Exact'
<1>1. /\ TheRequest' = TheRequest /\ TheAnswer' = TheAnswer /\ Hash1' = Hash1 /\ Hash2' = Hash2
      /\ Hash4' = Hash4 /\ \A q \in Parties : FramesOf(q)' = FramesOf(q)
  BY SameScript DEF shakeVars
<1>2. now \in Nat
  BY HandshakeAssumption DEF IInv, TypeOK
<1>3. Queues'
  <2>1. \A q \in Parties : Other(q) \in Parties
    BY DEF Parties, Other
  <2>2. \A q \in Parties :
          Due(wire[q], Took(q, pc[q]), Wrote(Other(q), pc[Other(q)]), FramesOf(Other(q))')
    BY <1>1, <2>1 DEF Exact, Queues
  <2>3. QED
    BY <2>2 DEF Queues
<1>4. TheRequest \in Messages /\ TheRequest.time <= now => TheRequest.time <= now'
  <2> SUFFICES ASSUME TheRequest \in Messages, TheRequest.time <= now
               PROVE  TheRequest.time <= now'
    OBVIOUS
  <2>1. PICK t \in 0..MaxTime : TheRequest.time = t
    BY DEF Messages
  <2>2. t \in Nat /\ t <= now
    BY <2>1, HandshakeAssumption
  <2>3. QED
    BY <1>2, <2>1, <2>2
<1>5. TheAnswer.time \in 0..now => TheAnswer.time \in 0..now'
  BY <1>2
<1>6. Letters'
  <2>1. Messages' = Messages /\ srq' = srq /\ scr' = scr /\ pc' = pc
    BY DEF Messages, shakeVars
  <2>2. QED
    BY <1>1, <1>4, <1>5, <2>1 DEF Exact, Letters
<1>7. Hashes' /\ Well'
  BY <1>1 DEF Exact, Hashes, Well, shakeVars
<1>8. QED
  BY <1>3, <1>6, <1>7 DEF Exact

\* What was not calm never becomes so: keys and clocks stay, time and closed grow.
LEMMA Steady ==
  ASSUME IInv, [Next]_vars
  PROVE  /\ who' = who /\ skew' = skew /\ now' \in Nat /\ now <= now' /\ closed \subseteq closed'
         /\ Calm' => Calm
<1>1. now \in Nat
  BY HandshakeAssumption DEF IInv, TypeOK
<1>2. who' = who /\ skew' = skew /\ (Pass \/ now' = now) /\ ((\E p \in Parties : Close(p)) \/ closed' = closed)
  <2> DEFINE Still == who' = who /\ skew' = skew /\ now' = now /\ closed' = closed
  <2>1. ASSUME NEW p, NEW at, NEW to, Sent(p, at, to) \/ Readable(p, at, to) \/ NotSent(p, at) \/ NotRead(p)
        PROVE  Still
    BY <2>1 DEF Sent, Readable, NotSent, NotRead
  <2>2. Alice => Still
    BY <2>1 DEF Alice, SendRequest, RefuseKeys, ReadCreated, SendConfirmed, ReadLength, ReadData
  <2>3. Bob => Still
    BY <2>1 DEF Bob, ReadRequest, SendCreated, CreatedSent, Sent, ReadConfirmed
  <2>4. Trouble => \/ Still
                   \/ who' = who /\ skew' = skew /\ now' = now /\ \E p \in Parties : Close(p)
                   \/ who' = who /\ skew' = skew /\ closed' = closed /\ Pass
    BY <2>1 DEF Trouble, Pass, Close
  <2>5. QED
    BY <2>2, <2>3, <2>4 DEF Next, vars
<1>3. now' \in Nat /\ now <= now'
  <2>1. CASE Pass
    BY <1>1, <2>1, HandshakeAssumption DEF Pass
  <2>2. QED
    BY <1>1, <1>2, <2>1
<1>4. closed \subseteq closed'
  BY <1>2 DEF Close
<1>5. Calm' => Calm
  <2>1. KeysFit' => KeysFit
    BY <1>2 DEF KeysFit
  <2>2. now' <= MaxLagDelta => now <= MaxLagDelta
    BY <1>1, <1>3 DEF MaxLagDelta
  <2>3. closed' = {} => closed = {}
    BY <1>4
  <2>4. QED
    BY <1>2, <2>1, <2>2, <2>3 DEF Calm
<1>6. QED
  BY <1>2, <1>3, <1>4, <1>5

\* As long as it stays calm, what is exact stays exact.
LEMMA StepExact ==
  ASSUME IInv, Calm => Exact, [Next]_vars, Calm'
  PROVE  Exact'
<1>1. Calm /\ Exact /\ closed' = {} /\ closed = {}
  BY Steady DEF Calm
<1>2. now' \in Nat /\ now <= now'
  BY Steady
<1>3. CASE \/ SendRequest \/ ReadRequest \/ SendCreated \/ ReadCreated \/ SendConfirmed
           \/ ReadConfirmed \/ ReadLength \/ ReadData
  BY <1>1, <1>3, SendRequestExact, ReadRequestExact, SendCreatedExact, ReadCreatedExact,
     SendConfirmedExact, ReadConfirmedExact, ReadDataExact
<1>4. CASE \/ Sent("alice", "sending_request", "await_created")
           \/ Readable("alice", "await_created", "reading_created")
           \/ Sent("alice", "sending_confirmed", "await_data")
           \/ Readable("alice", "await_data", "reading_length")
           \/ Readable("bob", "await_request", "reading_request")
           \/ CreatedSent
           \/ Readable("bob", "await_confirmed", "reading_confirmed")
           \/ Sent("bob", "sending_data", "ready")
  BY <1>1, <1>4, QuietExact
<1>5. ~RefuseKeys
  BY <1>1 DEF RefuseKeys, Calm, KeysFit
<1>6. ASSUME NEW p \in Parties
      PROVE  ~Close(p) /\ ~NotRead(p) /\ \A at \in Sending : ~NotSent(p, at)
  BY <1>1 DEF Close, NotRead, NotSent, Gone
<1>7. CASE Pass \/ UNCHANGED vars
  <2>1. UNCHANGED <<who, pc, shakeVars, wire>>
    BY <1>7 DEF Pass, vars
  <2>2. QED
    BY <1>1, <1>2, <2>1, LaterExact
<1>8. QED
  BY <1>3, <1>4, <1>5, <1>6, <1>7 DEF Next, Alice, Bob, Trouble

LEMMA InitExact ==
  ASSUME Init, Calm
  PROVE  Exact
<1>1. /\ pc = [alice |-> "connected", bob |-> "await_request"]
      /\ wire = [p \in Parties |-> <<>>] /\ h = [p \in Parties |-> Started(p)]
  BY DEF Init
<1>2. pc["alice"] = "connected" /\ pc["bob"] = "await_request"
  BY <1>1
<1>3. /\ AliceTook("connected") = 0 /\ AliceWrote("connected") = 0
      /\ BobTook("await_request") = 0 /\ BobWrote("await_request") = 0
  BY DEF AliceTook, AliceWrote, BobTook, BobWrote
<1>4. Queues
  <2>1. ASSUME NEW q \in Parties
        PROVE  Due(wire[q], Took(q, pc[q]), Wrote(Other(q), pc[Other(q)]), FramesOf(Other(q)))
    <3>1. Took(q, pc[q]) = 0 /\ Wrote(Other(q), pc[Other(q)]) = 0
      BY <1>2, <1>3 DEF Took, Wrote, Other, Parties
    <3>2. wire[q] = <<>> /\ Len(<<>>) = 0
      BY <1>1, Nothing
    <3>3. QED
      BY <3>1, <3>2 DEF Due
  <2>2. QED
    BY <2>1 DEF Queues
<1>5. Letters /\ Well
  BY <1>2, <1>3 DEF Letters, Well
<1>6. Hashes
  <2>1. who.dest = who.bob /\ StaticKey[who.dest] = IdKey[who.dest]
    BY DEF Calm, KeysFit
  <2>2. Started("alice") = Hash1 /\ Started("bob") = Hash1
    BY <2>1 DEF Started, BobsKey, Hash1
  <2>3. h["alice"] = Hash1 /\ h["bob"] = Hash1
    BY <1>1, <2>2 DEF Parties
  <2>4. QED
    BY <1>2, <1>3, <2>3 DEF Hashes
<1>7. QED
  BY <1>4, <1>5, <1>6 DEF Exact

\* A party that goes on has its socket.
LEMMA Moved ==
  ASSUME IInv, [Next]_vars, NEW p \in Parties, pc'[p] # pc[p]
  PROVE  p \notin closed /\ closed' = closed
<1>1. DOMAIN pc = Parties
  BY DEF IInv, TypeOK
<1>2. ASSUME NEW q \in Parties, q \notin closed, closed' = closed,
             (\E at : Goto(q, at)) \/ \E reason : Fail(q, reason)
      PROVE  p \notin closed /\ closed' = closed
  BY <1>1, <1>2 DEF Goto, Fail
<1>3. "alice" \in Parties /\ "bob" \in Parties
  BY DEF Parties
<1>4. CASE SendRequest \/ ReadCreated \/ SendConfirmed
  <2>1. "alice" \notin closed /\ closed' = closed
        /\ ((\E at : Goto("alice", at)) \/ \E reason : Fail("alice", reason))
    BY <1>4 DEF SendRequest, ReadCreated, SendConfirmed, At
  <2>2. QED
    BY <1>2, <1>3, <2>1
<1>5. CASE ReadRequest \/ SendCreated \/ ReadConfirmed
  <2>1. "bob" \notin closed /\ closed' = closed
        /\ ((\E at : Goto("bob", at)) \/ \E reason : Fail("bob", reason))
    BY <1>5 DEF ReadRequest, SendCreated, ReadConfirmed, At
  <2>2. QED
    BY <1>2, <1>3, <2>1
<1>6. CASE RefuseKeys \/ ReadLength \/ ReadData
  <2>1. "alice" \notin closed /\ closed' = closed
        /\ ((\E at : Goto("alice", at)) \/ \E reason : Fail("alice", reason))
    BY <1>6 DEF RefuseKeys, ReadLength, ReadData, At
  <2>2. QED
    BY <1>2, <1>3, <2>1
<1>7. ASSUME NEW q \in Parties, NEW at, NEW to,
             Sent(q, at, to) \/ Readable(q, at, to) \/ NotSent(q, at) \/ NotRead(q)
      PROVE  p \notin closed /\ closed' = closed
  <2>1. q \notin closed /\ closed' = closed
        /\ ((\E next : Goto(q, next)) \/ \E reason : Fail(q, reason))
    BY <1>7 DEF Sent, Readable, NotSent, NotRead, At
  <2>2. QED
    BY <1>2, <2>1
<1>8. ~Pass /\ ~(\E q \in Parties : Close(q)) /\ ~UNCHANGED vars
  BY DEF Pass, Close, vars
<1>9. QED
  BY <1>3, <1>4, <1>5, <1>6, <1>7, <1>8 DEF Next, Alice, Bob, Trouble, CreatedSent

\* While both have their sockets a party only fails where something was wrong
\* from the start; once one has closed its own, the other may.
LEMMA StepOnlyTroubleFails ==
  ASSUME IInv, IInv', [Next]_vars, Calm' => Exact', OnlyTroubleFails
  PROVE  OnlyTroubleFails'
<1> SUFFICES ASSUME KeysFit', skew' = 0, now' <= MaxLagDelta,
                    NEW p \in Parties, pc'[p] \in {"failed", "silent"}
             PROVE  Gone(p)'
  BY DEF OnlyTroubleFails
<1>1. closed' # {}
  <2> SUFFICES ASSUME closed' = {}
               PROVE  FALSE
    OBVIOUS
  <2>1. Exact'
    BY DEF Calm
  <2>2. pc'["bob"] # "silent"
    BY DEF IInv, Shapes, BobStates
  <2>3. QED
    BY <2>1, <2>2 DEF Exact, Well, Parties
<1>2. closed \subseteq closed' /\ closed' \subseteq Parties
  BY Steady DEF IInv, TypeOK
<1>3. CASE pc'[p] = pc[p]
  <2>1. KeysFit /\ skew = 0 /\ now <= MaxLagDelta
    <3>1. KeysFit /\ skew = 0
      BY Steady DEF KeysFit
    <3>2. now \in Nat
      BY HandshakeAssumption DEF IInv, TypeOK
    <3>3. now <= MaxLagDelta
      BY <3>2, Steady DEF MaxLagDelta
    <3>4. QED
      BY <3>1, <3>3
  <2>2. Gone(p)
    BY <1>3, <2>1 DEF OnlyTroubleFails
  <2>3. QED
    BY <1>2, <2>2 DEF Gone
<1>4. CASE pc'[p] # pc[p]
  <2>1. p \notin closed /\ closed' = closed
    BY <1>4, Moved
  <2>2. PICK q \in Parties : q \in closed'
    BY <1>1, <1>2
  <2>3. q = Other(p)
    BY <2>1, <2>2 DEF Parties, Other
  <2>4. QED
    BY <2>2, <2>3 DEF Gone
<1>5. QED
  BY <1>3, <1>4

\* If the keys fit, the clocks agree and no more time passes than MaxLagDelta, a
\* party fails only when the other has closed its socket: what each reads is, in
\* order, what the other wrote, under the same hash (OnlyTroubleFails;
\* session.h:340-717, session_request.h:141-182, session_created.h:117-159).
THEOREM CalmSucceeds == Spec => []OnlyTroubleFails
<1> DEFINE CInv == IInv /\ (Calm => Exact) /\ OnlyTroubleFails
<1>1. Init => CInv
  <2>1. Init => IInv
    BY InitIInv
  <2>2. Init => OnlyTroubleFails
    BY DEF Init, OnlyTroubleFails, Parties
  <2>3. QED
    BY <2>1, <2>2, InitExact
<1>2. CInv /\ [Next]_vars => CInv'
  <2> SUFFICES ASSUME CInv, [Next]_vars
               PROVE  CInv'
    OBVIOUS
  <2>1. IInv'
    BY StepIInv
  <2>2. Calm' => Exact'
    BY StepExact
  <2>3. OnlyTroubleFails'
    BY <2>1, <2>2, StepOnlyTroubleFails
  <2>4. QED
    BY <2>1, <2>2, <2>3
<1>3. CInv => OnlyTroubleFails
  OBVIOUS
<1>4. QED
  BY <1>1, <1>2, <1>3, PTL DEF Spec

=============================================================================
