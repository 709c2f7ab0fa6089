------------------------------- MODULE Ratchet -------------------------------
(***************************************************************************)
(* EciesX25519 of src/src/crypto/ecies/x25519.h with what it calls: X3DH,  *)
(* HKDF, the counting nonce and the AEAD cipher.  Some objects encrypt to  *)
(* and decrypt from buffers that their callers may use again.              *)
(* Keys are terms.  A pair of keys is its private key, and that a random   *)
(* one or what the KDF makes of another; the secret of a Diffie-Hellman    *)
(* exchange is the set of the two private keys, so both sides make the     *)
(* same; a derived key names all that it was derived from.                 *)
(* Operation_Fault is Operation with a fault put in, to show that some     *)
(* property notices; nothing refers to it.                                 *)
(***************************************************************************)
EXTENDS Naturals

CONSTANTS
  Objects,   \* instances of EciesX25519
  Randoms,   \* the private keys that create_keys draws
  Lens,      \* lengths of messages
  MaxCalls,  \* bound on the constructions, copies and rekeyings
  MaxSent    \* bound on the encryptions

CacheSize == 32   \* EciesX25519State::MsgKeyCacheSize
MACLen == 16      \* ChaChaPoly1305::MACLen
ADLen == 32       \* EciesX25519::ADLen
MaxNonce == 65535 \* Nonce::uint_t

ASSUME RatchetAssumption == Lens \subseteq Nat /\ MaxCalls \in Nat /\ MaxSent \in Nat

VARIABLES
  state,    \* state[o]: the EciesX25519State of object o
  cipher,   \* the ciphertext buffer, and what was sealed in it last
  plain,    \* the buffer for messages, and how much of it the last one fills
  calls,    \* number of constructions, copies and rekeyings
  sent      \* number of encryptions

vars == <<state, cipher, plain, calls, sent>>

-----------------------------------------------------------------------------
(* Keys. *)

Random(r) == [of |-> r, kdf |-> 0]

\* X25519::DeriveEphemeralKeys: the HKDF of a private key is another.
Derived(key) == [key EXCEPT !.kdf = @ + 1]

Pairs == [of : Randoms, kdf : Nat]

\* Members that nothing has been assigned to: all zeroes.
NoPair == [of |-> "nobody", kdf |-> 0]
Zeros  == <<"zeros">>

DH(pvt, pub) == {pvt, pub}

\* X3DH::DH: three exchanges in this order, at either end.
X3DH(rid, rep, id, ep) == <<"x3dh", <<DH(id, rep), DH(ep, rid)>>, DH(ep, rep)>>

\* HKDF::Derive into twice the length of a key, with the nonce for a salt.
Master(key, n) == <<"master", key, n>>
Sub(key, n)    == <<"sub", key, n>>

-----------------------------------------------------------------------------
(* States. *)

NewState_NoEphemeral(key) ==
  [rid |-> NoPair, rep |-> NoPair, id |-> key, ep |-> NoPair, n |-> 0,
   root |-> Zeros, chain |-> Zeros, keys |-> [i \in 0..CacheSize - 1 |-> Zeros],
   needsRemote |-> TRUE, needsDH |-> TRUE, needsChain |-> TRUE]

\* EciesX25519State with an identity pair and no remote keys.
NewState(key) ==
  [rid |-> NoPair, rep |-> NoPair, id |-> key, ep |-> Derived(key), n |-> 0,
   root |-> Zeros, chain |-> Zeros, keys |-> [i \in 0..CacheSize - 1 |-> Zeros],
   needsRemote |-> TRUE, needsDH |-> TRUE, needsChain |-> TRUE]

\* rekey(remote_id_key), which does not lift the requirement of remote keys.
SetRemoteId(s, rid) == [s EXCEPT !.rid = rid]

\* rekey(remote_id_key, remote_ep_key)
SetRemote(s, rid, rep) == [s EXCEPT !.rid = rid, !.rep = rep, !.needsRemote = FALSE]

\* rekey(keypair): the pairs are passed to DeriveEphemeralKeys in the wrong
\* order, so that the identity becomes what the old ephemeral key derives, and
\* the ephemeral pair stays (identity.h:354-355 speaks of the "Local crypto
\* identity keypair").
SetKeys(s, key) == [s EXCEPT !.id = Derived(s.ep)]

DHRatchet_OldRoot(s) ==
  LET root == X3DH(s.rid, s.rep, s.id, s.ep)
  IN IF s.needsDH
     THEN [s EXCEPT !.root = Master(root, s.n), !.chain = Sub(s.root, s.n), !.n = @ + 1,
                    !.needsDH = FALSE]
     ELSE [s EXCEPT !.needsDH = TRUE]

\* Ratchet(DH).  One that is not required makes it required.
DHRatchet(s) ==
  LET root == X3DH(s.rid, s.rep, s.id, s.ep)
  IN IF s.needsDH
     THEN [s EXCEPT !.root = Master(root, s.n), !.chain = Sub(root, s.n), !.n = @ + 1,
                    !.needsDH = FALSE]
     ELSE [s EXCEPT !.needsDH = TRUE]

ChainRatchet_LateNonce(s) ==
  IF s.needsChain
  THEN [s EXCEPT !.chain = Master(@, s.n), !.keys[s.n] = Sub(s.chain, s.n), !.n = @ + 1,
                 !.needsChain = FALSE]
  ELSE [s EXCEPT !.needsChain = TRUE]

\* Ratchet(Chain)
ChainRatchet(s) ==
  IF s.needsChain
  THEN [s EXCEPT !.chain = Master(@, s.n), !.keys[s.n + 1] = Sub(s.chain, s.n), !.n = @ + 1,
                 !.needsChain = FALSE]
  ELSE [s EXCEPT !.needsChain = TRUE]

\* What Encrypt and Decrypt do to the state before they use a key.
Readied(s) == IF s.needsChain THEN ChainRatchet(s) ELSE s

MessageKey(s) == s.keys[s.n]

\* Objects that a constructor makes: with keys of its own, and with the keys of
\* a remote router too.
Local(key) == NewState(key)
Remote(key, rid, rep) == DHRatchet(SetRemote(NewState(key), rid, rep))

-----------------------------------------------------------------------------
(* Buffers. *)

NoText == [key |-> Zeros, id |-> 0, n |-> 0, len |-> 0]

Resized_MessageOnly(size, len) == IF len > size THEN len + MACLen ELSE size

\* AEADEncrypt grows a ciphertext buffer that is too small, counting the
\* additional data which is not put there, and shrinks none.
Resized(size, len) == IF len + ADLen + MACLen > size THEN len + MACLen ELSE size

Grown_NotAtAll(size, len) == size

\* AEADDecrypt grows the message buffer.
Grown(size, len) == IF size < len THEN len ELSE size

\* A ciphertext opens whole, under the key and the nonce it was sealed with.  The
\* additional data are a hash of the two.
Opens(s, c) ==
  /\ c.size = c.text.len + MACLen
  /\ c.text.key = MessageKey(s)
  /\ c.text.n = s.n

-----------------------------------------------------------------------------
(* Steps. *)

\* Each object is made with the keys it was given or has drawn.
Init ==
  /\ state \in {[o \in Objects |-> Local(Random(r[o]))] : r \in [Objects -> Randoms]}
  /\ cipher = [size |-> 0, text |-> NoText]
  /\ plain = [size |-> 0, len |-> 0]
  /\ calls = 0
  /\ sent = 0

Set(o, s) ==
  /\ calls < MaxCalls
  /\ calls' = calls + 1
  /\ state' = [state EXCEPT ![o] = s]
  /\ UNCHANGED <<cipher, plain, sent>>

\* An object is assigned a new one.
AssignLocal(o) == \E r \in Randoms : Set(o, Local(Random(r)))

AssignRemote(o) ==
  \E r \in Randoms, q \in Objects \ {o} :
    Set(o, Remote(Random(r), state[q].id, state[q].ep))

\* An object is copied, or assigned.
Copy(o) == \E q \in Objects \ {o} : Set(o, state[q])

RekeyRemoteId(o) == \E q \in Objects \ {o} : Set(o, SetRemoteId(state[o], state[q].id))

RekeyRemote(o) ==
  \E q \in Objects \ {o} : Set(o, SetRemote(state[o], state[q].id, state[q].ep))

RekeyKeys(o) == \E r \in Randoms : Set(o, SetKeys(state[o], Random(r)))

\* Encrypt, to the buffer that was used before or to a new one.
Encrypt(o) ==
  \E len \in Lens, size \in {0, cipher.size} :
    LET s == Readied(state[o])
    IN /\ ~state[o].needsRemote
       /\ sent < MaxSent
       /\ state' = [state EXCEPT ![o] = s]
       /\ cipher' = [size |-> Resized(size, len),
                     text |-> [key |-> MessageKey(s), id |-> sent + 1, n |-> s.n, len |-> len]]
       /\ sent' = sent + 1
       /\ UNCHANGED <<plain, calls>>

\* Decrypt, to the buffer that was used before or to a new one.
Decrypt(o) ==
  \E size \in {0, plain.size} :
    LET s == Readied(state[o])
    IN /\ ~state[o].needsRemote
       /\ Opens(s, cipher)
       /\ state' = [state EXCEPT ![o] = s]
       /\ plain' = [size |-> Grown(size, cipher.text.len), len |-> cipher.text.len]
       /\ UNCHANGED <<cipher, calls, sent>>

\* A ciphertext that does not open has moved the ratchet before it throws.  One
\* shorter than a MAC makes for a message too long to make room for.
DecryptThrows(o) ==
  \E size \in {0, plain.size} :
    LET s == Readied(state[o])
    IN /\ ~state[o].needsRemote
       /\ ~Opens(s, cipher)
       /\ state' = [state EXCEPT ![o] = s]
       /\ plain' = [size |-> IF cipher.size < MACLen THEN size
                              ELSE Grown(size, cipher.size - MACLen),
                    len |-> 0]
       /\ UNCHANGED <<cipher, calls, sent>>

Next ==
  \E o \in Objects :
    \/ AssignLocal(o) \/ AssignRemote(o) \/ Copy(o)
    \/ RekeyRemoteId(o) \/ RekeyRemote(o) \/ RekeyKeys(o)
    \/ Encrypt(o) \/ Decrypt(o) \/ DecryptThrows(o)

Spec == Init /\ [][Next]_vars

-----------------------------------------------------------------------------
(* Properties. *)

\* The type of every variable.
TypeOK ==
  /\ \A o \in Objects :
       /\ state[o].id \in Pairs /\ state[o].ep \in Pairs
       /\ state[o].n \in 0..MaxNonce
       /\ DOMAIN state[o].keys = 0..CacheSize - 1
       /\ {state[o].needsRemote, state[o].needsDH, state[o].needsChain} \subseteq BOOLEAN
  /\ cipher.size \in Nat /\ cipher.text.len \in Lens \cup {0} /\ cipher.text.id \in 0..MaxSent
  /\ plain \in [size : Nat, len : Lens \cup {0}]
  /\ calls \in 0..MaxCalls /\ sent \in 0..MaxSent

\* What is sealed is sealed with a key that a ratchet has put in the cache, at the
\* place the nonce names, and an object never leaves the cache: the keys that
\* Encrypt and Decrypt look up by the nonce are there.
InCache ==
  /\ \A o \in Objects : ~state[o].needsChain =>
       state[o].n \in 1..CacheSize - 1 /\ MessageKey(state[o]) # Zeros
  /\ cipher.text.id # 0 => cipher.text.key # Zeros

\* The two ephemeral pairs that the third exchange of a root's agreement was between.
Ends(root) == root[2][3]

\* A key that comes from an agreement with a remote router stays with the two ends
\* of the agreement and their copies: whichever objects are made, copied, assigned
\* and rekeyed in between, nobody whose ephemeral pair had no part in the agreement
\* comes to hold it (x25519.h:172-187, 428-475).
Readers ==
  \A o, q \in Objects :
    /\ ~state[o].needsDH /\ ~state[o].needsChain /\ ~state[q].needsChain
    /\ MessageKey(state[o]) = MessageKey(state[q])
    => {state[o].ep, state[q].ep} \subseteq Ends(state[o].root)

\* The buffers hold all that is written to them, however they were used before.
\* A ciphertext buffer that is longer than its ciphertext, which then does not
\* open, is so by at least the length of the additional data.
Fits ==
  /\ cipher.text.id # 0 =>
       LET whole == cipher.text.len + MACLen
       IN cipher.size = whole \/ cipher.size >= whole + ADLen
  /\ plain.size >= plain.len

-----------------------------------------------------------------------------
(* What the comments of the repository say and the code does not. *)

\* x25519.h:209, "On each message, a new chain key and one-time message key are
\* derived".
NewKeysPerMessage ==
  [][\A o \in Objects : Encrypt(o) => state'[o].chain # state[o].chain]_vars

=============================================================================
