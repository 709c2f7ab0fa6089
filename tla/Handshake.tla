------------------------------ MODULE Handshake ------------------------------
(***************************************************************************)
(* The NTCP2 handshake between an outbound session, Alice, and an inbound  *)
(* one, Bob: the handlers of src/src/ntcp2/session/session.h on both ends, *)
(* the processors of the three messages they call, and the socket between  *)
(* them.  The socket is a queue of what each async_read is meant to take:  *)
(* an async_read takes an exact number of bytes, so one that asks for      *)
(* another number than was written together gets garbage.  Either end may  *)
(* go away, and then the reads of the other complete with eof, which the   *)
(* handlers let pass, or with an error.  Noise is symbolic: a message can  *)
(* be read by whoever mixed the same things into the handshake hash as its *)
(* writer, in the same order.                                              *)
(* Operation_Fault is Operation with a fault put in, to show that some     *)
(* property notices; nothing refers to it.                                 *)
(***************************************************************************)
EXTENDS Integers, Sequences

CONSTANTS
  Infos,           \* RouterInfos
  StaticKey,       \* StaticKey[i]: option "s" of i
  IdKey,           \* IdKey[i]: the crypto key of the identity of i
  NoKey, NoInfo,   \* none yet
  RequestPads,     \* padding lengths Alice may draw for SessionRequest
  CreatedPads,     \* padding lengths Bob may draw for SessionCreated
  ConfirmedSizes,  \* payload sizes that SessionConfirmed may have
  DataSize,        \* size of Bob's first data phase message
  Skews,           \* how far Bob's clock may be ahead of Alice's, in seconds
  Delays, MaxTime  \* how much time passes at once, and the bound on it

NoisePayloadSize == 64
PartOneSize == 48
SizeLen == 2
MinPaddingSize == 32
MaxPaddingSize == 65535 - NoisePayloadSize
MinMsg3Pt2Size == 456
MaxMsg3Pt2Size == 65471
MaxLagDelta == 360

ASSUME HandshakeAssumption ==
  /\ RequestPads \subseteq MinPaddingSize..MaxPaddingSize
  /\ CreatedPads \subseteq MinPaddingSize..MaxPaddingSize
  /\ ConfirmedSizes \subseteq MinMsg3Pt2Size..MaxMsg3Pt2Size
  /\ DataSize \in Nat /\ DataSize > 0
  /\ Skews \subseteq Int /\ Delays \subseteq Nat /\ MaxTime \in Nat
  /\ NoKey \notin {StaticKey[i] : i \in Infos} \cup {IdKey[i] : i \in Infos}
  /\ NoInfo \notin Infos

VARIABLES
  who,     \* Alice's info_ and dest_, and if that has its private keys; Bob's info_
  pc,      \* the handler each party is about to run
  why,     \* what its last handler threw
  h,       \* the handshake hash: what went into it, in order
  srq,     \* srq_msg_ of each party, as far as the other can read it
  scr,     \* scr_msg_, likewise
  rkey,    \* remote_key_
  peer,    \* dest_
  wire,    \* what is on its way to each party
  closed,  \* the parties whose socket is closed
  now,     \* seconds on Alice's clock
  skew     \* how far Bob's is ahead of it

shakeVars == <<h, srq, scr, rkey, peer>>
vars == <<who, pc, why, shakeVars, wire, closed, now, skew>>

Parties == {"alice", "bob"}
Other(p) == IF p = "alice" THEN "bob" ELSE "alice"

Garbage == [kind |-> "garbage"]
Padding(n) == [kind |-> "padding", size |-> n]
NoMsg == [kind |-> "none"]

\* The key each party puts into its Noise state, and the static key of Bob that
\* the pattern XK mixes in before the first message.
LocalKey(p) == IdKey[IF p = "alice" THEN who.dest ELSE who.bob]
BobsKey(p) == IF p = "alice" THEN StaticKey[who.dest] ELSE IdKey[who.bob]

\* SessionRequestKDF::Derive
Started(p) == <<BobsKey(p)>>

Init ==
  /\ \E a, d, b \in Infos, paired \in BOOLEAN :
       /\ a = d => paired
       /\ who = [alice |-> a, bob |-> b, dest |-> d, paired |-> paired]
       /\ rkey = [alice |-> StaticKey[d], bob |-> NoKey]
       /\ peer = [alice |-> d, bob |-> NoInfo]
       /\ h = [p \in Parties |-> Started(p)]
  /\ pc = [alice |-> "connected", bob |-> "await_request"]
  /\ why = [p \in Parties |-> "nothing"]
  /\ srq = [p \in Parties |-> NoMsg]
  /\ scr = [p \in Parties |-> NoMsg]
  /\ wire = [p \in Parties |-> <<>>]
  /\ closed = {}
  /\ now = 0
  /\ skew \in Skews

-----------------------------------------------------------------------------
(* The socket. *)

At(p, at) == p \notin closed /\ pc[p] = at

Goto(p, at) == pc' = [pc EXCEPT ![p] = at] /\ UNCHANGED why

Fail_Where(p, reason) ==
  /\ pc' = [pc EXCEPT ![p] = "failed"]
  /\ why' = [why EXCEPT ![p] = pc[p]]

Fail(p, reason) ==
  /\ pc' = [pc EXCEPT ![p] = "failed"]
  /\ why' = [why EXCEPT ![p] = reason]

Gone(p) == Other(p) \in closed

\* What an async_read of n bytes may hand to its handler: nothing yet, what was
\* written, or at the end of the stream a buffer that was not filled.
Read(p, n) ==
  IF wire[p] = <<>> THEN (IF Gone(p) THEN {Garbage} ELSE {})
  ELSE {IF Head(wire[p]).size = n THEN Head(wire[p]).val ELSE Garbage}

Frame(n, v) == [size |-> n, val |-> v]

\* The handler took what it read and wrote the frames of out.
Exchange(p, out) ==
  wire' = [wire EXCEPT ![p] = IF @ = <<>> THEN @ ELSE Tail(@),
                       ![Other(p)] = @ \o out]

\* The handler waited for the socket to be readable, then armed a read.
Readable(p, at, next) ==
  /\ At(p, at)
  /\ wire[p] # <<>> \/ Gone(p)
  /\ Goto(p, next)
  /\ UNCHANGED <<who, shakeVars, wire, closed, now, skew>>

\* A write completes when all of it is on its way, or fails for lack of a peer.
Sent(p, at, next) ==
  /\ At(p, at)
  /\ Goto(p, next)
  /\ UNCHANGED <<who, shakeVars, wire, closed, now, skew>>

NotSent(p, at) ==
  /\ At(p, at)
  /\ Gone(p)
  /\ Fail(p, "socket")
  /\ UNCHANGED <<who, shakeVars, wire, closed, now, skew>>

Reading == {"reading_request", "reading_request_padding", "reading_confirmed",
            "reading_created", "reading_created_padding", "reading_length",
            "reading_data"}

\* The connection was reset: any error but eof is thrown.
NotRead(p) ==
  /\ p \notin closed /\ pc[p] \in Reading
  /\ Gone(p)
  /\ Fail(p, "socket")
  /\ UNCHANGED <<who, shakeVars, wire, closed, now, skew>>

\* The session is destroyed and its socket closed; some of what it wrote may be
\* lost with it.
Close(p) ==
  /\ p \notin closed
  /\ closed' = closed \cup {p}
  /\ \E n \in 0..Len(wire[Other(p)]) :
       wire' = [wire EXCEPT ![Other(p)] = SubSeq(@, 1, n)]
  /\ UNCHANGED <<who, pc, why, shakeVars, now, skew>>

Pass ==
  /\ \E d \in Delays : now' = now + d /\ now + d <= MaxTime
  /\ UNCHANGED <<who, pc, why, shakeVars, wire, closed, skew>>

Clock(p) == IF p = "alice" THEN now ELSE now + skew

\* check_lag_s.  The difference is unsigned: a time still to come is far away.
Fresh(p, t) == t <= Clock(p) /\ Clock(p) - t <= MaxLagDelta

-----------------------------------------------------------------------------
(* Noise. *)

\* A message sealed under a handshake hash, its first key obfuscated under the
\* identity and the IV of the RouterInfo via.
Sealed(hash, via, body) == [kind |-> "sealed", hash |-> hash, via |-> via, body |-> body]

Opens(v, hash, via) == v.kind = "sealed" /\ v.hash = hash /\ v.via = via

\* SessionCreatedKDF::Derive: the message before and its padding are mixed in.
Mixed(hash, msg, padding) == hash \o <<msg, padding>>

-----------------------------------------------------------------------------
(* SessionRequest. *)

\* What the message is made of; its options take the time.
Request(pad, size) == [kind |-> "request", size |-> size, pad |-> pad, time |-> Clock("alice")]

\* SessionRequest::Write
RequestFrames(msg) ==
  <<Frame(NoisePayloadSize, Sealed(h["alice"], who.dest, msg)), Frame(msg.pad, Padding(msg.pad))>>

PadFits(pad) == pad \in MinPaddingSize..MaxPaddingSize

RequestOptionsFit(msg) == PadFits(msg.pad) /\ msg.size \in MinMsg3Pt2Size..MaxMsg3Pt2Size

\* SessionRequest::Read, of what Bob read: what it throws, if anything.
RequestError(v) ==
  CASE ~Opens(v, h["bob"], who.bob) -> "authentication"
    [] Opens(v, h["bob"], who.bob) /\ ~Fresh("bob", v.body.time) -> "lag"
    [] Opens(v, h["bob"], who.bob) /\ Fresh("bob", v.body.time) /\ ~RequestOptionsFit(v.body) -> "options"
    [] OTHER -> "nothing"

\* Alice writes it.  She signs on with the key pair of her destination's
\* identity.  Without its private key that is no pair: the Noise library may
\* refuse it, and what she seals with it opens for nobody.
SendRequest ==
  /\ At("alice", "connected")
  /\ \E pad \in RequestPads, size \in ConfirmedSizes :
       LET msg == Request(pad, size)
       IN srq' = [srq EXCEPT !["alice"] = msg] /\ Exchange("alice", RequestFrames(msg))
  /\ Goto("alice", "sending_request")
  /\ UNCHANGED <<who, h, scr, rkey, peer, closed, now, skew>>

RefuseKeys ==
  /\ At("alice", "connected")
  /\ ~who.paired
  /\ Fail("alice", "key_pair")
  /\ UNCHANGED <<who, shakeVars, wire, closed, now, skew>>

\* Bob reads it, all but its padding.
ReadRequest ==
  /\ At("bob", "reading_request")
  /\ \E v \in Read("bob", NoisePayloadSize) :
       /\ srq' = IF RequestError(v) = "authentication" THEN srq ELSE [srq EXCEPT !["bob"] = v.body]
       /\ IF RequestError(v) = "nothing" THEN Goto("bob", "reading_request_padding")
                                         ELSE Fail("bob", RequestError(v))
  /\ Exchange("bob", <<>>)
  /\ UNCHANGED <<who, h, scr, rkey, peer, closed, now, skew>>

-----------------------------------------------------------------------------
(* SessionCreated. *)

Created(pad) == [kind |-> "created", pad |-> pad, time |-> Clock("bob")]

\* SessionCreated::Write
CreatedFrames(hash, msg) ==
  <<Frame(NoisePayloadSize, Sealed(hash, who.bob, msg)), Frame(msg.pad, Padding(msg.pad))>>

\* SessionCreated::Read, of what Alice read: what it throws, if anything.
CreatedError(hash, v) ==
  CASE ~Opens(v, hash, who.dest) -> "authentication"
    [] Opens(v, hash, who.dest) /\ ~Fresh("alice", v.body.time) -> "lag"
    [] Opens(v, hash, who.dest) /\ Fresh("alice", v.body.time) /\ ~PadFits(v.body.pad) -> "options"
    [] OTHER -> "nothing"

\* Bob reads the padding, and answers in the same handler.
SendCreated ==
  /\ At("bob", "reading_request_padding")
  /\ \E v \in Read("bob", srq["bob"].pad), pad \in CreatedPads :
       LET hash == Mixed(h["bob"], srq["bob"], v)
       IN /\ h' = [h EXCEPT !["bob"] = hash]
          /\ scr' = [scr EXCEPT !["bob"] = Created(pad)]
          /\ Exchange("bob", CreatedFrames(hash, Created(pad)))
  /\ Goto("bob", "sending_created")
  /\ UNCHANGED <<who, srq, rkey, peer, closed, now, skew>>

\* Alice, who knows the padding she sent, reads it, all but its padding.
ReadCreated ==
  /\ At("alice", "reading_created")
  /\ LET hash == Mixed(h["alice"], srq["alice"], Padding(srq["alice"].pad))
     IN /\ h' = [h EXCEPT !["alice"] = hash]
        /\ \E v \in Read("alice", NoisePayloadSize) :
             /\ scr' = IF CreatedError(hash, v) = "authentication" THEN scr
                                                                  ELSE [scr EXCEPT !["alice"] = v.body]
             /\ IF CreatedError(hash, v) = "nothing" THEN Goto("alice", "reading_created_padding")
                                                     ELSE Fail("alice", CreatedError(hash, v))
  /\ Exchange("alice", <<>>)
  /\ UNCHANGED <<who, srq, rkey, peer, closed, now, skew>>

-----------------------------------------------------------------------------
(* SessionConfirmed. *)

\* The static key and the RouterInfo of part two.
Confirmed == [kind |-> "confirmed", paired |-> who.paired, key |-> LocalKey("alice"),
              info |-> who.alice]

\* SessionConfirmed::Write
ConfirmedFrame(hash, size) == Frame(PartOneSize + size, Sealed(hash, NoInfo, Confirmed))

\* SessionConfirmed::Read, of a frame of the size that was announced.
ConfirmedOpens(v, hash) == Opens(v, hash, NoInfo) /\ v.body.paired

SendConfirmed_Unmixed ==
  /\ At("alice", "reading_created_padding")
  /\ \E v \in Read("alice", scr["alice"].pad) :
       LET hash == Append(h["alice"], scr["alice"])
       IN /\ h' = [h EXCEPT !["alice"] = Append(hash, Confirmed)]
          /\ Exchange("alice", <<ConfirmedFrame(hash, srq["alice"].size)>>)
  /\ Goto("alice", "sending_confirmed")
  /\ UNCHANGED <<who, srq, scr, rkey, peer, closed, now, skew>>

\* Alice reads the padding and sends in the same handler, in a frame of the size
\* she announced, her static key and her RouterInfo.
SendConfirmed ==
  /\ At("alice", "reading_created_padding")
  /\ \E v \in Read("alice", scr["alice"].pad) :
       LET hash == Mixed(h["alice"], scr["alice"], v)
       IN /\ h' = [h EXCEPT !["alice"] = Append(hash, Confirmed)]
          /\ Exchange("alice", <<ConfirmedFrame(hash, srq["alice"].size)>>)
  /\ Goto("alice", "sending_confirmed")
  /\ UNCHANGED <<who, srq, scr, rkey, peer, closed, now, skew>>

DataFrames_Unshrunk(hash) ==
  <<Frame(SizeLen, [kind |-> "length", hash |-> hash]),
    Frame(DataSize, Sealed(hash, NoInfo, who.bob)),
    Frame(MinPaddingSize, Padding(MinPaddingSize))>>

\* The length and, of that length, the message.
DataFrames(hash) ==
  <<Frame(SizeLen, [kind |-> "length", hash |-> hash]),
    Frame(DataSize, Sealed(hash, NoInfo, who.bob))>>

ReadConfirmed_Unchecked ==
  /\ At("bob", "reading_confirmed")
  /\ LET hash == Mixed(h["bob"], scr["bob"], Padding(scr["bob"].pad))
     IN \E v \in Read("bob", PartOneSize + srq["bob"].size) :
          IF ~ConfirmedOpens(v, hash)
          THEN /\ Fail("bob", "authentication")
               /\ Exchange("bob", <<>>)
               /\ UNCHANGED shakeVars
          ELSE /\ h' = [h EXCEPT !["bob"] = Append(hash, v.body)]
               /\ peer' = [peer EXCEPT !["bob"] = v.body.info]
               /\ rkey' = [rkey EXCEPT !["bob"] = v.body.key]
               /\ Goto("bob", "sending_data")
               /\ Exchange("bob", DataFrames(Append(hash, v.body)))
               /\ UNCHANGED <<srq, scr>>
  /\ UNCHANGED <<who, closed, now, skew>>

\* Bob reads the frame, compares the key with the one in the RouterInfo, and
\* writes in the same handler the first data phase message, with his RouterInfo.
ReadConfirmed ==
  /\ At("bob", "reading_confirmed")
  /\ LET hash == Mixed(h["bob"], scr["bob"], Padding(scr["bob"].pad))
     IN \E v \in Read("bob", PartOneSize + srq["bob"].size) :
          IF ~ConfirmedOpens(v, hash)
          THEN /\ Fail("bob", "authentication")
               /\ Exchange("bob", <<>>)
               /\ UNCHANGED shakeVars
          ELSE /\ h' = [h EXCEPT !["bob"] = Append(hash, v.body)]
               /\ peer' = [peer EXCEPT !["bob"] = v.body.info]
               /\ rkey' = [rkey EXCEPT !["bob"] = v.body.key]
               /\ IF StaticKey[v.body.info] = v.body.key
                  THEN /\ Goto("bob", "sending_data")
                       /\ Exchange("bob", DataFrames(Append(hash, v.body)))
                  ELSE /\ Fail("bob", "static_key")
                       /\ Exchange("bob", <<>>)
               /\ UNCHANGED <<srq, scr>>
  /\ UNCHANGED <<who, closed, now, skew>>

-----------------------------------------------------------------------------
(* The first data phase message. *)

\* What Alice makes of the length: the one Bob wrote, or of garbage any other,
\* or zero, after which she waits for nothing.
ReadLength ==
  /\ At("alice", "reading_length")
  /\ \E v \in Read("alice", SizeLen) :
       IF v = [kind |-> "length", hash |-> h["alice"]]
       THEN Goto("alice", "reading_data")
       ELSE \E at \in {"reading_data", "silent"} : Goto("alice", at)
  /\ Exchange("alice", <<>>)
  /\ UNCHANGED <<who, shakeVars, closed, now, skew>>

ReadData ==
  /\ At("alice", "reading_data")
  /\ \E v \in Read("alice", DataSize) :
       IF ~Opens(v, h["alice"], NoInfo) THEN Fail("alice", "authentication")
       ELSE IF StaticKey[v.body] # StaticKey[who.dest] THEN Fail("alice", "static_key")
       ELSE Goto("alice", "ready")
  /\ Exchange("alice", <<>>)
  /\ UNCHANGED <<who, shakeVars, closed, now, skew>>

-----------------------------------------------------------------------------
CreatedSent_Unarmed == Sent("bob", "sending_created", "sending_created")

\* Bob waits for SessionConfirmed once SessionCreated is out.
CreatedSent == Sent("bob", "sending_created", "await_confirmed")

Alice ==
  \/ SendRequest \/ RefuseKeys
  \/ Sent("alice", "sending_request", "await_created")
  \/ Readable("alice", "await_created", "reading_created")
  \/ ReadCreated \/ SendConfirmed
  \/ Sent("alice", "sending_confirmed", "await_data")
  \/ Readable("alice", "await_data", "reading_length")
  \/ ReadLength \/ ReadData

Bob ==
  \/ Readable("bob", "await_request", "reading_request")
  \/ ReadRequest \/ SendCreated
  \/ CreatedSent
  \/ Readable("bob", "await_confirmed", "reading_confirmed")
  \/ ReadConfirmed
  \/ Sent("bob", "sending_data", "ready")

Sending == {"sending_request", "sending_created", "sending_confirmed", "sending_data"}

Trouble ==
  \/ \E p \in Parties : Close(p) \/ NotRead(p) \/ \E at \in Sending : NotSent(p, at)
  \/ Pass

Next == Alice \/ Bob \/ Trouble

Spec == Init /\ [][Next]_vars

\* Each io_context runs the handlers that are due.  Nothing says that time
\* passes or that a party goes away.
Fairness == WF_vars(Alice) /\ WF_vars(Bob)

FairSpec == Spec /\ Fairness

-----------------------------------------------------------------------------
(* What holds. *)

Messages == {[kind |-> "request", size |-> s, pad |-> p, time |-> t] :
               p \in RequestPads, s \in ConfirmedSizes, t \in 0..MaxTime}

\* The type of every variable but the wire's and the hash's contents.
TypeOK ==
  /\ pc \in [Parties -> Reading \cup Sending \cup
                {"connected", "await_request", "await_created", "await_confirmed",
                 "await_data", "silent", "ready", "failed"}]
  /\ why \in [Parties -> {"nothing", "key_pair", "socket", "authentication", "lag",
                          "options", "static_key"}]
  /\ \A p \in Parties : srq[p] \in {NoMsg} \cup Messages
  /\ \A p \in Parties : scr[p] = NoMsg \/ (scr[p].kind = "created" /\ scr[p].pad \in CreatedPads)
  /\ rkey["alice"] = StaticKey[who.dest]
  /\ rkey["bob"] \in {NoKey} \cup {IdKey[i] : i \in Infos}
  /\ peer \in [Parties -> Infos \cup {NoInfo}]
  /\ closed \subseteq Parties
  /\ now \in 0..MaxTime

\* When either party is ready, it and the other have the same view of the
\* handshake and of each other's keys, and when Bob is ready the key he
\* authenticated is that of the RouterInfo he was given (session.h:584-597,
\* 662-674).  When both are ready the handshake left nothing on the wire: each
\* async_read took what one async_write put there, padding included, so the data
\* phase begins where a message does.
Agreement ==
  /\ pc["alice"] = "ready" => /\ h["bob"] = h["alice"]
                              /\ rkey["alice"] = LocalKey("bob")
  /\ "ready" \in {pc[p] : p \in Parties} => /\ h["bob"] = h["alice"]
                                            /\ rkey["bob"] = LocalKey("alice")
                                            /\ peer["bob"] = who.alice
                                            /\ rkey["bob"] = StaticKey[peer["bob"]]
  /\ {pc[p] : p \in Parties} = {"ready"} => \A p \in Parties : wire[p] = <<>>

\* The keys are what the code, not the protocol, asks of them: Alice has the
\* private keys of her destination and presents them as her own.
KeysFit ==
  /\ who.dest = who.bob
  /\ who.paired
  /\ StaticKey[who.dest] = IdKey[who.dest]
  /\ StaticKey[who.alice] = IdKey[who.dest]

\* If the keys fit, the clocks agree and no more time passes than MaxLagDelta, a
\* party that fails does so because the other went away: lengths, paddings,
\* times and hashes are the same at both ends, whatever was drawn.
OnlyTroubleFails ==
  KeysFit /\ skew = 0 /\ now <= MaxLagDelta
    => \A p \in Parties : pc[p] \in {"failed", "silent"} => Gone(p)

\* Neither end waits for the other forever: both get ready, or one fails, or one
\* is gone (session.h:340-717).
Finishes ==
  <>(\/ \A p \in Parties : pc[p] = "ready"
     \/ \E p \in Parties : pc[p] = "failed"
     \/ closed # {})

-----------------------------------------------------------------------------
(* What the comments of the repository say and the code does not. *)

\* session.h:127-128, "RouterInfo for remote destination" and "RouterInfo for
\* local router", and 592: between routers whose RouterInfos name their own keys,
\* Bob never finds that Alice's static key is not that of her RouterInfo.
OwnKeyAccepted ==
  who.dest = who.bob /\ (\A i \in Infos : StaticKey[i] = IdKey[i])
    => why["bob"] # "static_key"

=============================================================================
