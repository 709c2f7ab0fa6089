------------------------------ MODULE DataPhase ------------------------------
(***************************************************************************)
(* The data phase of a session: DataPhase and DataPhaseMessage of          *)
(* src/src/ntcp2/data_phase/.  Each party keeps for each direction the     *)
(* position of its chain of SipHash IVs, which mask the length of a        *)
(* message, and a cipher state with a nonce.  What one party writes the    *)
(* caller sends, and TCP delivers it to the other in order; one thread at  *)
(* a time writes and one reads, as nothing in the code guards either.      *)
(* A masked length is its value and the position of the mask; a sealed     *)
(* message opens under the key and the nonce it was sealed with, at the    *)
(* length it was sealed at.                                                *)
(* Operation_Fault is Operation with a fault put in, to show that some     *)
(* property notices; nothing refers to it.                                 *)
(***************************************************************************)
EXTENDS Integers, Sequences

CONSTANTS
  Sizes,    \* total sizes of the blocks of messages, in bytes
  MaxSent   \* bound on the messages tried in each direction

MaxLen == 65535 + 2   \* DataPhaseMessage::MaxLen
DigestLen == 16       \* Poly1305::DigestLen
MaxUInt16 == 65535
NoiseMax == 65535     \* what the Noise library seals at most

ASSUME DataPhaseAssumption == Sizes \subseteq 0..MaxLen /\ MaxSent \in Nat

VARIABLES
  iv,      \* iv[p][d]: IVs that p has derived for direction d
  nonce,   \* nonce[p][d]: the nonce of p's cipher state for d
  wire,    \* wire[d]: messages written and not yet read
  sent,    \* sent[d]: messages that Write has made
  got,     \* got[d]: numbers of the messages that Read has returned
  tried,   \* tried[d]: calls of Write
  upset,   \* upset[d]: whether a Write threw, or wrote more than is ever read
  used     \* the keys and nonces that messages were sealed with

counters == <<iv, nonce>>
vars == <<counters, wire, sent, got, tried, upset, used>>

Parties == {"alice", "bob"}
Dirs == {"alice to bob", "bob to alice"}

\* The initiator of the session is the responder of its data phase.
Role(p) == IF p = "alice" THEN "responder" ELSE "initiator"

WriteDir(p) == IF Role(p) = "initiator" THEN "bob to alice" ELSE "alice to bob"
ReadDir(p)  == IF Role(p) = "initiator" THEN "alice to bob" ELSE "bob to alice"

\* What noise_handshakestate_split gives each party to send and to receive with.
SendKey(p) == IF p = "alice" THEN "k1" ELSE "k2"
ReceiveKey(p) == IF p = "alice" THEN "k2" ELSE "k1"

Cipher_Swapped(p, d) ==
  IF d = "alice to bob" THEN SendKey(p) ELSE ReceiveKey(p)

\* KDF: the two cipher states are assigned by role, which makes each party write
\* with the key it got to receive with, and read with the other.
Cipher(p, d) ==
  IF (Role(p) = "initiator") = (d = "alice to bob") THEN SendKey(p) ELSE ReceiveKey(p)

Init ==
  /\ iv = [p \in Parties |-> [d \in Dirs |-> 0]]
  /\ nonce = [p \in Parties |-> [d \in Dirs |-> 0]]
  /\ wire = [d \in Dirs |-> <<>>]
  /\ sent = [d \in Dirs |-> 0]
  /\ got = [d \in Dirs |-> <<>>]
  /\ tried = [d \in Dirs |-> 0]
  /\ upset = [d \in Dirs |-> FALSE]
  /\ used = {}

-----------------------------------------------------------------------------
(* Sixteen bits. *)

UInt16(n) == n % 65536

Int16(n) == IF UInt16(n) < 32768 THEN UInt16(n) ELSE UInt16(n) - 65536

\* The length Write announces for blocks of that size, and what it seals: the
\* buffer has been made to fit the length and then the blocks.
Length(size) == UInt16(UInt16(size) + DigestLen)

SealedSize(size) == IF Length(size) < size THEN size ELSE Length(size)

\* Read takes such a length for that of a null message.
IsNull(length) == Int16(length - DigestLen) <= 0

\* The largest blocks whose length Read takes for what it is.
MaxRead == 32767

-----------------------------------------------------------------------------
\* The mask of a direction moves on with every length, read or written.
Advance(p, d) == iv' = [iv EXCEPT ![p][d] = @ + 1]

Try(d) ==
  /\ tried[d] < MaxSent
  /\ tried' = [tried EXCEPT ![d] = @ + 1]

Accepted_Unbounded(size) == UInt16(size) # 0

Accepted(size) == UInt16(size) # 0 /\ SealedSize(size) <= NoiseMax

Write_SameNonce(p, size) ==
  LET d == WriteDir(p)
  IN /\ Try(d)
     /\ Accepted(size)
     /\ Advance(p, d)
     /\ wire' = [wire EXCEPT ![d] =
                  Append(@, [id |-> sent[d] + 1, length |-> Length(size), mask |-> iv[p][d],
                             size |-> SealedSize(size), key |-> Cipher(p, d),
                             nonce |-> nonce[p][d]])]
     /\ used' = used \cup {<<Cipher(p, d), nonce[p][d]>>}
     /\ sent' = [sent EXCEPT ![d] = @ + 1]
     /\ upset' = [upset EXCEPT ![d] = @ \/ size > MaxRead]
     /\ UNCHANGED <<nonce, got>>

\* A message of ordered blocks: its length is masked, it is serialized and
\* sealed.
Write(p, size) ==
  LET d == WriteDir(p)
  IN /\ Try(d)
     /\ Accepted(size)
     /\ Advance(p, d)
     /\ nonce' = [nonce EXCEPT ![p][d] = @ + 1]
     /\ wire' = [wire EXCEPT ![d] =
                  Append(@, [id |-> sent[d] + 1, length |-> Length(size), mask |-> iv[p][d],
                             size |-> SealedSize(size), key |-> Cipher(p, d),
                             nonce |-> nonce[p][d]])]
     /\ used' = used \cup {<<Cipher(p, d), nonce[p][d]>>}
     /\ sent' = [sent EXCEPT ![d] = @ + 1]
     /\ upset' = [upset EXCEPT ![d] = @ \/ size > MaxRead]
     /\ UNCHANGED got

WriteEmpty_Late(p, size) ==
  /\ UInt16(size) = 0
  /\ Try(WriteDir(p))
  /\ Advance(p, WriteDir(p))
  /\ UNCHANGED <<nonce, wire, sent, got, upset, used>>

\* An empty message is refused before anything is done.
WriteEmpty(p, size) ==
  /\ UInt16(size) = 0
  /\ Try(WriteDir(p))
  /\ UNCHANGED <<counters, wire, sent, got, upset, used>>

\* The blocks are out of order, since add_block keeps the one it refuses, or the
\* message is too large to seal: Write throws with the mask moved on.
WriteThrows(p, size) ==
  LET d == WriteDir(p)
  IN /\ UInt16(size) # 0
     /\ Try(d)
     /\ Advance(p, d)
     /\ upset' = [upset EXCEPT ![d] = TRUE]
     /\ UNCHANGED <<nonce, wire, sent, got, used>>

Take(d) == wire[d] # <<>> /\ wire' = [wire EXCEPT ![d] = Tail(@)]

\* The length that p reads: the one written, or any under another mask.
LengthRead(p, m) ==
  IF m.mask = iv[p][ReadDir(p)] THEN {m.length} ELSE {0, m.length, 65535}

Opens(p, m, length) ==
  /\ length = m.size
  /\ m.key = Cipher(p, ReadDir(p))
  /\ m.nonce = nonce[p][ReadDir(p)]

\* Nothing is read, and nothing thrown.
ReadNull(p) ==
  LET d == ReadDir(p)
  IN /\ Take(d)
     /\ \E length \in LengthRead(p, Head(wire[d])) : IsNull(length)
     /\ Advance(p, d)
     /\ UNCHANGED <<nonce, sent, got, tried, upset, used>>

Read(p) ==
  LET d == ReadDir(p)
      m == Head(wire[d])
  IN /\ Take(d)
     /\ \E length \in LengthRead(p, m) : ~IsNull(length) /\ Opens(p, m, length)
     /\ Advance(p, d)
     /\ nonce' = [nonce EXCEPT ![p][d] = @ + 1]
     /\ got' = [got EXCEPT ![d] = Append(@, m.id)]
     /\ UNCHANGED <<sent, tried, upset, used>>

\* The message does not authenticate.  Whether that takes a nonce is up to the
\* Noise library.
ReadThrows(p) ==
  LET d == ReadDir(p)
      m == Head(wire[d])
  IN /\ Take(d)
     /\ \E length \in LengthRead(p, m) : ~IsNull(length) /\ ~Opens(p, m, length)
     /\ Advance(p, d)
     /\ \E n \in 0..1 : nonce' = [nonce EXCEPT ![p][d] = @ + n]
     /\ UNCHANGED <<sent, got, tried, upset, used>>

Next ==
  \E p \in Parties :
    \/ \E size \in Sizes : Write(p, size) \/ WriteEmpty(p, size) \/ WriteThrows(p, size)
    \/ ReadNull(p) \/ Read(p) \/ ReadThrows(p)

Spec == Init /\ [][Next]_vars

-----------------------------------------------------------------------------
(* What holds. *)

Message == [id : Nat, length : 0..MaxUInt16, mask : Nat, size : 0..NoiseMax,
            key : {"k1", "k2"}, nonce : Nat]

\* The type of every variable.
TypeOK ==
  /\ iv \in [Parties -> [Dirs -> Nat]]
  /\ nonce \in [Parties -> [Dirs -> Nat]]
  /\ wire \in [Dirs -> Seq(Message)]
  /\ sent \in [Dirs -> Nat]
  /\ got \in [Dirs -> Seq(Nat)]
  /\ tried \in [Dirs -> 0..MaxSent]
  /\ upset \in [Dirs -> BOOLEAN]
  /\ used \subseteq {"k1", "k2"} \X Nat

Writer(d) == IF d = "bob to alice" THEN "bob" ELSE "alice"
Reader(d) == IF d = "bob to alice" THEN "alice" ELSE "bob"

\* The messages of d on the wire carry the masks, the nonces and the key that
\* the reader will come to, at lengths it can read.
Synced(d) ==
  /\ iv[Writer(d)][d] = iv[Reader(d)][d] + Len(wire[d])
  /\ nonce[Writer(d)][d] = nonce[Reader(d)][d] + Len(wire[d])
  /\ \A i \in 1..Len(wire[d]) :
       /\ wire[d][i].mask = iv[Reader(d)][d] + i - 1
       /\ wire[d][i].nonce = nonce[Reader(d)][d] + i - 1
       /\ wire[d][i].key = Cipher(Reader(d), d)
       /\ wire[d][i].length = wire[d][i].size
       /\ ~IsNull(wire[d][i].length)

\* Until a Write of a direction throws or exceeds MaxRead, its two ends keep to
\* the same masks and nonces, whatever goes on in the other direction
\* (data_phase.h:207-275).
InSync == \A d \in Dirs : ~upset[d] => Synced(d)

InOrder(d) ==
  /\ Len(got[d]) + Len(wire[d]) = sent[d]
  /\ \A i \in 1..Len(got[d]) : got[d][i] = i
  /\ \A i \in 1..Len(wire[d]) : wire[d][i].id = Len(got[d]) + i

\* Until then Read returns every message that Write made, once and in order.
Delivered == \A d \in Dirs : ~upset[d] => InOrder(d)

\* No two messages of a session, of either direction, are sealed with the same
\* key and nonce, whatever was thrown before.
NonceFresh ==
  [][\A p \in Parties : sent'[WriteDir(p)] # sent[WriteDir(p)]
       => <<Cipher(p, WriteDir(p)), nonce[p][WriteDir(p)]>> \notin used]_vars

-----------------------------------------------------------------------------
(* The data phase keeps the promise of Channel. *)

\* The numbers of messages.
Ids(q) == [i \in 1..Len(q) |-> q[i].id]

C == INSTANCE Channel WITH
       queue <- [d \in Dirs |-> Ids(wire[d])], count <- sent, broken <- upset

\* Every Write and Read puts in, takes out or loses a message as Channel allows,
\* or changes nothing Channel sees: after a throw too, what Read returns was
\* written, once and in order (data_phase.h:187-275).
ImplementsChannel == C!Spec

=============================================================================
