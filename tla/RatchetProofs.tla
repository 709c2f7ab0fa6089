---------------------------- MODULE RatchetProofs ----------------------------
(***************************************************************************)
(* Proofs about Ratchet, for any objects, keys and lengths of messages and *)
(* any number of calls.  What an operation makes of one state is proved    *)
(* apart from the steps, as most steps give an object a state that one     *)
(* operation made.                                                         *)
(***************************************************************************)
EXTENDS Ratchet, TLAPS

Owner(s) == Random(s.ep.of)

\* x is the secret of an agreement that an object of s's ephemeral pair made with
\* the ephemeral pair of some other.
Agreed(s, x) ==
  \E r \in Randoms, rid \in Pairs :
    x = X3DH(rid, Derived(Random(r)), Owner(s), s.ep)

Shape(s) ==
  s = [rid |-> s.rid, rep |-> s.rep, id |-> s.id, ep |-> s.ep, n |-> s.n, root |-> s.root,
       chain |-> s.chain, keys |-> s.keys, needsRemote |-> s.needsRemote,
       needsDH |-> s.needsDH, needsChain |-> s.needsChain]

Own(s) ==
  /\ s.ep.of \in Randoms
  /\ s.ep = Derived(Owner(s))
  /\ s.id \in {Owner(s), Derived(s.ep)}

Cached(s) == s.keys = [i \in 0..CacheSize - 1 |-> s.keys[i]]

Flags(s) == s.needsRemote \in BOOLEAN /\ s.needsDH \in BOOLEAN /\ s.needsChain \in BOOLEAN

Typed(s) == Shape(s) /\ Cached(s) /\ Flags(s) /\ s.n \in 0..2

\* Where the two ratchets are.
Unagreed(s) ==
  /\ s.needsDH
  /\ s.needsChain => s.n = 0 /\ s.chain = Zeros
  /\ ~s.needsChain => s.n = 1 /\ s.keys[1] = Sub(Zeros, 0)

AgreedOn(s, x) ==
  /\ ~s.needsDH
  /\ s.root = Master(x, 0)
  /\ s.needsChain => s.n = 1 /\ s.chain = Sub(x, 0)
  /\ ~s.needsChain => s.n = 2 /\ s.keys[2] = Sub(Sub(x, 0), 1)

Sound(s) ==
  /\ Typed(s)
  /\ Own(s)
  /\ Unagreed(s) \/ \E x : Agreed(s, x) /\ AgreedOn(s, x)

Sealed(c) ==
  /\ c.size \in Nat /\ c.text.len \in Nat
  /\ c.text.len \in Lens \cup {0}
  /\ c.text.id \in 0..MaxSent
  /\ c.text.id # 0 =>
       /\ c.text.key # Zeros
       /\ \/ c.size = c.text.len + MACLen
          \/ c.size >= c.text.len + MACLen + ADLen

IInv ==
  /\ \A o \in Objects : Sound(state[o])
  /\ state = [o \in Objects |-> state[o]]
  /\ Sealed(cipher)
  /\ plain \in [size : Nat, len : Lens \cup {0}] /\ plain.size >= plain.len
  /\ calls \in 0..MaxCalls
  /\ sent \in 0..MaxSent

-----------------------------------------------------------------------------
(* Terms. *)

\* A derived key tells what it was derived from, and is no zeroed member.
LEMMA SubInjective ==
  ASSUME NEW a, NEW b, NEW m, NEW n, Sub(a, m) = Sub(b, n)
  PROVE  a = b /\ m = n
<1>1. Sub(a, m)[2] = a /\ Sub(a, m)[3] = m
  BY DEF Sub
<1>2. Sub(b, n)[2] = b /\ Sub(b, n)[3] = n
  BY DEF Sub
<1> QED BY <1>1, <1>2

LEMMA SubNotZeros ==
  ASSUME NEW a, NEW m
  PROVE  Sub(a, m) # Zeros
<1>1. Sub(a, m)[1] = "sub"
  BY DEF Sub
<1>2. Zeros[1] = "zeros"
  BY DEF Zeros
<1> QED BY <1>1, <1>2

\* The KDF keeps whose key it is.
LEMMA KeyTerms ==
  ASSUME NEW r \in Randoms
  PROVE  /\ Random(r) \in Pairs /\ Random(r).of = r /\ Random(r).kdf = 0
         /\ Derived(Random(r)) \in Pairs
         /\ Derived(Random(r)).of = r /\ Derived(Random(r)).kdf = 1
         /\ Derived(Derived(Random(r))) \in Pairs
         /\ Derived(Derived(Random(r))).of = r
<1>1. Random(r) = [of |-> r, kdf |-> 0]
  BY DEF Random
<1>2. Derived(Random(r)) = [of |-> r, kdf |-> 1]
  BY <1>1 DEF Derived
<1>3. Derived([of |-> r, kdf |-> 1]) = [of |-> r, kdf |-> 2]
  BY DEF Derived
<1> QED BY <1>1, <1>2, <1>3 DEF Pairs

\* The ephemeral pair of who made an agreement is one of its ends.
LEMMA EndOfOwn ==
  ASSUME NEW s, NEW x, Agreed(s, x)
  PROVE  s.ep \in Ends(Master(x, 0))
<1>1. PICK r \in Randoms, rid \in Pairs :
        x = X3DH(rid, Derived(Random(r)), Owner(s), s.ep)
  BY DEF Agreed
<1>2. x[3] = DH(s.ep, Derived(Random(r)))
  BY <1>1 DEF X3DH
<1>3. Master(x, 0)[2] = x
  BY DEF Master
<1> QED BY <1>2, <1>3 DEF Ends, DH

-----------------------------------------------------------------------------
(* What the operations make of a state. *)

LEMMA LocalSound ==
  ASSUME NEW r \in Randoms
  PROVE  Sound(Local(Random(r)))
<1> DEFINE s == Local(Random(r))
<1>1. /\ s.rid = NoPair /\ s.rep = NoPair /\ s.id = Random(r) /\ s.ep = Derived(Random(r))
      /\ s.n = 0 /\ s.root = Zeros /\ s.chain = Zeros
      /\ s.keys = [i \in 0..CacheSize - 1 |-> Zeros]
      /\ s.needsRemote = TRUE /\ s.needsDH = TRUE /\ s.needsChain = TRUE
  BY DEF Local, NewState
<1>2. Shape(s)
  BY <1>1 DEF Shape, Local, NewState
<1>3. Cached(s)
  BY <1>1 DEF Cached
<1> HIDE DEF s
<1>8. Flags(s)
  BY <1>1, Zenon DEF Flags
<1>9. s.n \in 0..2
  BY <1>1
<1>6. Typed(s)
  BY <1>2, <1>3, <1>8, <1>9 DEF Typed
<1>4. Own(s)
  BY <1>1, KeyTerms DEF Own, Owner
<1>5. Unagreed(s)
  BY <1>1 DEF Unagreed
<1>7. Sound(s)
  BY <1>4, <1>5, <1>6 DEF Sound
<1> QED BY <1>7 DEF s

\* New remote keys change nothing that has been derived.
LEMMA RemoteSound ==
  ASSUME NEW s, Sound(s), NEW rid, NEW rep, NEW t,
         t = SetRemoteId(s, rid) \/ t = SetRemote(s, rid, rep)
  PROVE  Sound(t)
<1>1. Shape(s) /\ Typed(s) /\ Own(s)
  BY DEF Sound, Typed
<1>2. /\ t.id = s.id /\ t.ep = s.ep /\ t.n = s.n /\ t.root = s.root /\ t.chain = s.chain
      /\ t.keys = s.keys /\ t.needsDH = s.needsDH /\ t.needsChain = s.needsChain
      /\ t.needsRemote \in {s.needsRemote, FALSE}
      /\ Shape(t)
  BY <1>1 DEF Shape, SetRemoteId, SetRemote
<1>6. Cached(t) /\ Flags(t) /\ t.n \in 0..2
  BY <1>1, <1>2 DEF Typed, Cached, Flags
<1>3. Typed(t) /\ Own(t)
  BY <1>1, <1>2, <1>6 DEF Typed, Own, Owner
<1>4. ASSUME Unagreed(s) PROVE Unagreed(t)
  BY <1>2, <1>4 DEF Unagreed
<1>5. ASSUME NEW x, Agreed(s, x), AgreedOn(s, x) PROVE Agreed(t, x) /\ AgreedOn(t, x)
  BY <1>2, <1>5 DEF Agreed, AgreedOn, Owner
<1> QED BY <1>3, <1>4, <1>5 DEF Sound

\* Neither do new keys of its own.
LEMMA KeysSound ==
  ASSUME NEW s, Sound(s), NEW key
  PROVE  Sound(SetKeys(s, key))
<1> DEFINE t == SetKeys(s, key)
<1>1. Shape(s) /\ Typed(s) /\ Own(s)
  BY DEF Sound, Typed
<1>2. /\ t.id = Derived(s.ep) /\ t.ep = s.ep /\ t.n = s.n /\ t.root = s.root
      /\ t.chain = s.chain /\ t.keys = s.keys /\ t.needsDH = s.needsDH
      /\ t.needsChain = s.needsChain /\ t.needsRemote = s.needsRemote
      /\ Shape(t)
  BY <1>1 DEF Shape, SetKeys
<1>6. Cached(t) /\ Flags(t) /\ t.n \in 0..2
  BY <1>1, <1>2 DEF Typed, Cached, Flags
<1>3. Typed(t) /\ Own(t)
  BY <1>1, <1>2, <1>6 DEF Typed, Own, Owner
<1>4. ASSUME Unagreed(s) PROVE Unagreed(t)
  BY <1>2, <1>4 DEF Unagreed
<1>5. ASSUME NEW x, Agreed(s, x), AgreedOn(s, x) PROVE Agreed(t, x) /\ AgreedOn(t, x)
  BY <1>2, <1>5 DEF Agreed, AgreedOn, Owner
<1> QED BY <1>3, <1>4, <1>5 DEF Sound

\* A new object with remote keys makes its agreement.
LEMMA MadeSound ==
  ASSUME NEW r \in Randoms, NEW q, Sound(q)
  PROVE  Sound(Remote(Random(r), q.id, q.ep))
<1> DEFINE s == SetRemote(Local(Random(r)), q.id, q.ep)
           x == X3DH(q.id, q.ep, Random(r), Derived(Random(r)))
           t == Remote(Random(r), q.id, q.ep)
<1> DEFINE l == Local(Random(r))
<1>15. l =
          [rid |-> NoPair, rep |-> NoPair, id |-> Random(r), ep |-> Derived(Random(r)), n |-> 0,
           root |-> Zeros, chain |-> Zeros, keys |-> [i \in 0..CacheSize - 1 |-> Zeros],
           needsRemote |-> TRUE, needsDH |-> TRUE, needsChain |-> TRUE]
  BY DEF Local, NewState
<1>17. s = [l EXCEPT !.rid = q.id, !.rep = q.ep, !.needsRemote = FALSE]
  BY DEF SetRemote
<1> HIDE DEF l
<1>1. s = [rid |-> q.id, rep |-> q.ep, id |-> Random(r), ep |-> Derived(Random(r)), n |-> 0,
           root |-> Zeros, chain |-> Zeros, keys |-> [i \in 0..CacheSize - 1 |-> Zeros],
           needsRemote |-> FALSE, needsDH |-> TRUE, needsChain |-> TRUE]
  BY <1>15, <1>17
<1>2. t = DHRatchet(s)
  BY DEF Remote, Local, l
<1> HIDE DEF s
<1>8. /\ s.rid = q.id /\ s.rep = q.ep /\ s.id = Random(r) /\ s.ep = Derived(Random(r))
      /\ s.n = 0 /\ s.needsDH = TRUE
  BY <1>1
<1>9. t = [s EXCEPT !.root = Master(x, 0), !.chain = Sub(x, 0), !.n = 1, !.needsDH = FALSE]
  BY <1>2, <1>8 DEF DHRatchet
<1> HIDE DEF x, t
<1>10. t = [rid |-> q.id, rep |-> q.ep, id |-> Random(r), ep |-> Derived(Random(r)), n |-> 1,
            root |-> Master(x, 0), chain |-> Sub(x, 0),
            keys |-> [i \in 0..CacheSize - 1 |-> Zeros],
            needsRemote |-> FALSE, needsDH |-> FALSE, needsChain |-> TRUE]
  BY <1>1, <1>9
<1>3. /\ t.id = Random(r) /\ t.ep = Derived(Random(r))
      /\ t.needsDH = FALSE /\ t.needsChain = TRUE /\ t.needsRemote = FALSE
      /\ t.root = Master(x, 0) /\ t.chain = Sub(x, 0) /\ t.n = 1
  BY <1>10
<1>11. Cached(t)
  BY <1>10 DEF Cached
<1>14. Flags(t)
  BY <1>3, Zenon DEF Flags
<1>16. t.n \in 0..2
  BY <1>3
<1>12. Shape(t)
  BY <1>10 DEF Shape
<1>4. Typed(t)
  BY <1>11, <1>12, <1>14, <1>16 DEF Typed
<1>5. Own(t) /\ Owner(t) = Random(r)
  BY <1>3, KeyTerms DEF Own, Owner
<1>6. Agreed(t, x)
  <2>1. q.ep.of \in Randoms /\ q.ep = Derived(Random(q.ep.of))
    BY DEF Sound, Own, Owner
  <2>2. q.id \in Pairs
    BY <2>1, KeyTerms DEF Sound, Own, Owner
  <2> QED BY <1>3, <1>5, <2>1, <2>2 DEF Agreed, x
<1>7. AgreedOn(t, x)
  BY <1>3 DEF AgreedOn
<1>13. Sound(t)
  BY <1>4, <1>5, <1>6, <1>7 DEF Sound
<1> QED BY <1>13 DEF t

\* What is used has gone through the chain's ratchet.
LEMMA ReadiedSound ==
  ASSUME NEW s, Sound(s)
  PROVE  /\ Sound(Readied(s)) /\ ~Readied(s).needsChain
         /\ Readied(s).n \in 1..2
         /\ MessageKey(Readied(s)) # Zeros
<1> DEFINE t == Readied(s)
<1>1. Shape(s) /\ Typed(s) /\ Own(s)
  BY DEF Sound, Typed
<1>2. CASE ~s.needsChain
  <2>1. t = s
    BY <1>2 DEF Readied
  <2>2. s.n \in 1..2 /\ s.keys[s.n] # Zeros
    BY <1>2, SubNotZeros DEF Sound, Unagreed, AgreedOn
  <2> QED BY <1>2, <2>1, <2>2 DEF MessageKey
<1>3. CASE s.needsChain
  <2>1. s.n \in 0..1
    BY <1>3 DEF Sound, Unagreed, AgreedOn
  <2>2. t = ChainRatchet(s)
    BY <1>3 DEF Readied
  <2>3. /\ t.id = s.id /\ t.ep = s.ep /\ t.root = s.root /\ t.needsDH = s.needsDH
        /\ t.needsRemote = s.needsRemote /\ t.needsChain = FALSE
        /\ t.n = s.n + 1
        /\ t.keys = [s.keys EXCEPT ![s.n + 1] = Sub(s.chain, s.n)]
        /\ Shape(t)
    BY <1>1, <1>3, <2>1, <2>2 DEF ChainRatchet, Shape
  <2>4. /\ Cached(t)
        /\ t.keys[s.n + 1] = Sub(s.chain, s.n)
    BY <1>1, <2>1, <2>3 DEF Typed, Cached, CacheSize
  <2>11. Flags(t)
    BY <1>1, <2>3, Zenon DEF Typed, Flags
  <2>12. t.n \in 0..2
    BY <2>1, <2>3
  <2>10. Typed(t)
    BY <2>3, <2>4, <2>11, <2>12 DEF Typed
  <2>5. Typed(t) /\ Own(t)
    BY <1>1, <2>10, <2>3 DEF Own, Owner
  <2>6. ASSUME Unagreed(s) PROVE Unagreed(t)
    BY <1>3, <2>3, <2>4, <2>6 DEF Unagreed
  <2>7. ASSUME NEW x, Agreed(s, x), AgreedOn(s, x) PROVE Agreed(t, x) /\ AgreedOn(t, x)
    BY <1>3, <2>3, <2>4, <2>7 DEF Agreed, AgreedOn, Owner
  <2>8. Sound(t)
    BY <2>5, <2>6, <2>7 DEF Sound
  <2>9. t.n \in 1..2 /\ MessageKey(t) # Zeros
    BY <2>1, <2>3, <2>4, SubNotZeros DEF MessageKey
  <2> QED BY <2>3, <2>8, <2>9
<1>4. s.needsChain \in BOOLEAN
  BY <1>1 DEF Typed, Flags
<1> QED BY <1>2, <1>3, <1>4

-----------------------------------------------------------------------------
(* Steps. *)

LEMMA InitSound ==
  ASSUME Init
  PROVE  IInv
<1>1. PICK r \in [Objects -> Randoms] : state = [o \in Objects |-> Local(Random(r[o]))]
  BY DEF Init
<1>2. \A o \in Objects : Sound(state[o])
  BY <1>1, LocalSound
<1>3. state = [o \in Objects |-> state[o]]
  BY <1>1
<1>4. Sealed(cipher)
  BY RatchetAssumption DEF Init, Sealed, NoText
<1>5. plain \in [size : Nat, len : Lens \cup {0}] /\ plain.size >= plain.len
  BY DEF Init
<1>6. calls \in 0..MaxCalls /\ sent \in 0..MaxSent
  BY RatchetAssumption DEF Init
<1> QED BY <1>2, <1>3, <1>4, <1>5, <1>6 DEF IInv

\* An object is given a state that some operation made, and the others keep theirs.
LEMMA GivenSound ==
  ASSUME IInv, NEW o \in Objects, NEW s, Sound(s), state' = [state EXCEPT ![o] = s]
  PROVE  (\A q \in Objects : Sound(state[q]))' /\ (state = [q \in Objects |-> state[q]])'
<1>1. state = [q \in Objects |-> state[q]] /\ \A q \in Objects : Sound(state[q])
  BY DEF IInv
<1>2. state' = [q \in Objects |-> IF q = o THEN s ELSE state[q]]
  BY <1>1
<1> HIDE DEF IInv
<1>3. \A q \in Objects : Sound(state'[q])
  BY <1>1, <1>2
<1> QED BY <1>2, <1>3

LEMMA SetSound ==
  ASSUME IInv, NEW o \in Objects, NEW s, Sound(s), Set(o, s)
  PROVE  IInv'
<1>1. state' = [state EXCEPT ![o] = s]
  BY DEF Set
<1>2. (\A q \in Objects : Sound(state[q]))' /\ (state = [q \in Objects |-> state[q]])'
  BY <1>1, GivenSound
<1>3. cipher' = cipher /\ plain' = plain /\ sent' = sent
  BY DEF Set
<1>4. calls' \in 0..MaxCalls
  BY RatchetAssumption DEF Set, IInv
<1>5. Sealed(cipher')
  BY <1>3 DEF IInv
<1>6. (Sealed(cipher))'
  BY <1>3 DEF IInv, Sealed
<1> QED BY <1>2, <1>3, <1>4, <1>6 DEF IInv

LEMMA EncryptSound ==
  ASSUME IInv, NEW o \in Objects, Encrypt(o)
  PROVE  IInv'
<1> DEFINE s == Readied(state[o])
<1>1. PICK len \in Lens, size \in {0, cipher.size} :
        /\ sent < MaxSent
        /\ state' = [state EXCEPT ![o] = s]
        /\ cipher' = [size |-> Resized(size, len),
                      text |-> [key |-> MessageKey(s), id |-> sent + 1, n |-> s.n, len |-> len]]
        /\ sent' = sent + 1 /\ plain' = plain /\ calls' = calls
  BY DEF Encrypt
<1>2. Sound(s) /\ MessageKey(s) # Zeros
  BY ReadiedSound DEF IInv
<1> HIDE DEF s
<1>3. (\A q \in Objects : Sound(state[q]))' /\ (state = [q \in Objects |-> state[q]])'
  BY <1>1, <1>2, GivenSound
<1>4. len \in Nat /\ size \in Nat /\ sent \in Nat /\ MaxSent \in Nat
  BY <1>1, RatchetAssumption DEF IInv, Sealed
<1>5. /\ Resized(size, len) \in Nat
      /\ \/ Resized(size, len) = len + MACLen
         \/ Resized(size, len) >= len + MACLen + ADLen
  BY <1>4 DEF Resized, MACLen, ADLen
<1>6. /\ cipher'.size = Resized(size, len) /\ cipher'.text.len = len
      /\ cipher'.text.id = sent + 1 /\ cipher'.text.key = MessageKey(s)
  BY <1>1
<1>7. sent' \in 0..MaxSent
  BY <1>1, <1>4
<1>8. (Sealed(cipher))'
  BY <1>1, <1>2, <1>4, <1>5, <1>6, <1>7 DEF Sealed
<1> QED BY <1>1, <1>3, <1>7, <1>8 DEF IInv

LEMMA DecryptSound ==
  ASSUME IInv, NEW o \in Objects, Decrypt(o) \/ DecryptThrows(o)
  PROVE  IInv'
<1> DEFINE s == Readied(state[o])
<1>1. /\ state' = [state EXCEPT ![o] = s]
      /\ cipher' = cipher /\ calls' = calls /\ sent' = sent
  BY DEF Decrypt, DecryptThrows
<1>2. Sound(s)
  BY ReadiedSound DEF IInv
<1> HIDE DEF s
<1>3. (\A q \in Objects : Sound(state[q]))' /\ (state = [q \in Objects |-> state[q]])'
  BY <1>1, <1>2, GivenSound
<1>4. /\ cipher.size \in Nat /\ cipher.text.len \in Nat /\ plain.size \in Nat
      /\ cipher.text.len \in Lens \cup {0}
  BY DEF IInv, Sealed
<1>5. plain' \in [size : Nat, len : Lens \cup {0}] /\ plain'.size >= plain'.len
  <2>1. CASE Decrypt(o)
    <3>1. PICK size \in {0, plain.size} :
            plain' = [size |-> Grown(size, cipher.text.len), len |-> cipher.text.len]
      BY <2>1 DEF Decrypt
    <3>2. Grown(size, cipher.text.len) \in Nat /\ Grown(size, cipher.text.len) >= cipher.text.len
      BY <1>4 DEF Grown
    <3> QED BY <1>4, <3>1, <3>2
  <2>2. CASE DecryptThrows(o)
    <3>1. PICK size \in {0, plain.size} :
            plain' = [size |-> IF cipher.size < MACLen THEN size
                               ELSE Grown(size, cipher.size - MACLen),
                      len |-> 0]
      BY <2>2 DEF DecryptThrows
    <3>2. CASE cipher.size < MACLen
      BY <1>4, <3>1, <3>2
    <3>3. CASE cipher.size >= MACLen
      <4>1. Grown(size, cipher.size - MACLen) \in Nat
        BY <1>4, <3>3 DEF Grown, MACLen
      <4>2. plain' = [size |-> Grown(size, cipher.size - MACLen), len |-> 0]
        BY <1>4, <3>1, <3>3 DEF MACLen
      <4> QED BY <4>1, <4>2
    <3> QED BY <1>4, <3>2, <3>3 DEF MACLen
  <2> QED BY <2>1, <2>2
<1>6. (Sealed(cipher))'
  BY <1>1 DEF IInv, Sealed
<1> QED BY <1>1, <1>3, <1>5, <1>6 DEF IInv

LEMMA StepSound ==
  ASSUME IInv, [Next]_vars
  PROVE  IInv'
<1>1. CASE UNCHANGED vars
  BY <1>1 DEF IInv, Sealed, vars
<1>2. ASSUME NEW o \in Objects, AssignLocal(o) PROVE IInv'
  BY <1>2, LocalSound, SetSound DEF AssignLocal
<1>3. ASSUME NEW o \in Objects, AssignRemote(o) PROVE IInv'
  <2>1. PICK r \in Randoms, q \in Objects \ {o} :
          Set(o, Remote(Random(r), state[q].id, state[q].ep))
    BY <1>3 DEF AssignRemote
  <2>2. Sound(Remote(Random(r), state[q].id, state[q].ep))
    BY MadeSound DEF IInv
  <2> QED BY <2>1, <2>2, SetSound
<1>4. ASSUME NEW o \in Objects, Copy(o) PROVE IInv'
  <2>1. PICK q \in Objects \ {o} : Set(o, state[q])
    BY <1>4 DEF Copy
  <2>2. Sound(state[q])
    BY DEF IInv
  <2> QED BY <2>1, <2>2, SetSound
<1>5. ASSUME NEW o \in Objects, RekeyRemoteId(o) PROVE IInv'
  <2>1. PICK q \in Objects \ {o} : Set(o, SetRemoteId(state[o], state[q].id))
    BY <1>5 DEF RekeyRemoteId
  <2>2. Sound(SetRemoteId(state[o], state[q].id))
    BY RemoteSound DEF IInv
  <2> QED BY <2>1, <2>2, SetSound
<1>6. ASSUME NEW o \in Objects, RekeyRemote(o) PROVE IInv'
  <2>1. PICK q \in Objects \ {o} : Set(o, SetRemote(state[o], state[q].id, state[q].ep))
    BY <1>6 DEF RekeyRemote
  <2>2. Sound(SetRemote(state[o], state[q].id, state[q].ep))
    BY RemoteSound DEF IInv
  <2> QED BY <2>1, <2>2, SetSound
<1>7. ASSUME NEW o \in Objects, RekeyKeys(o) PROVE IInv'
  <2>1. PICK r \in Randoms : Set(o, SetKeys(state[o], Random(r)))
    BY <1>7 DEF RekeyKeys
  <2>2. Sound(SetKeys(state[o], Random(r)))
    BY KeysSound DEF IInv
  <2> QED BY <2>1, <2>2, SetSound
<1> QED BY <1>1, <1>2, <1>3, <1>4, <1>5, <1>6, <1>7, EncryptSound, DecryptSound DEF Next

-----------------------------------------------------------------------------
(* Theorems. *)

THEOREM Invariance == Spec => []IInv
<1>1. Init => IInv
  BY InitSound
<1>2. IInv /\ [Next]_vars => IInv'
  BY StepSound
<1> QED BY <1>1, <1>2, PTL DEF Spec

\* The state has its type, however many messages are encrypted and decrypted
\* (x25519.h:61-130).
THEOREM Type == Spec => []TypeOK
<1>1. IInv => TypeOK
  <2> SUFFICES ASSUME IInv PROVE TypeOK
    OBVIOUS
  <2>1. ASSUME NEW o \in Objects
        PROVE  /\ state[o].id \in Pairs /\ state[o].ep \in Pairs
               /\ state[o].n \in 0..MaxNonce
               /\ DOMAIN state[o].keys = 0..CacheSize - 1
               /\ {state[o].needsRemote, state[o].needsDH, state[o].needsChain} \subseteq BOOLEAN
    <3>1. Typed(state[o]) /\ Own(state[o])
      BY DEF IInv, Sound
    <3>2. state[o].id \in Pairs /\ state[o].ep \in Pairs
      BY <3>1, KeyTerms DEF Own, Owner
    <3>3. DOMAIN state[o].keys = 0..CacheSize - 1
      BY <3>1 DEF Typed, Cached
    <3>4. {state[o].needsRemote, state[o].needsDH, state[o].needsChain} \subseteq BOOLEAN
      BY <3>1 DEF Typed, Flags
    <3>5. state[o].n \in 0..MaxNonce
      <4>1. state[o].n \in 0..2
        BY <3>1 DEF Typed
      <4>2. 0..2 \subseteq 0..MaxNonce
        BY DEF MaxNonce
      <4> QED BY <4>1, <4>2
    <3> QED BY <3>2, <3>3, <3>4, <3>5
  <2> QED BY <2>1 DEF IInv, Sealed, TypeOK
<1> QED BY <1>1, Invariance, PTL

\* No object ever looks a key up outside the cache, or seals with one that was not
\* derived.
THEOREM CacheHolds == Spec => []InCache
<1>1. IInv => InCache
  <2> SUFFICES ASSUME IInv PROVE InCache
    OBVIOUS
  <2>1. ASSUME NEW o \in Objects, ~state[o].needsChain
        PROVE  state[o].n \in 1..CacheSize - 1 /\ MessageKey(state[o]) # Zeros
    <3>1. Readied(state[o]) = state[o]
      BY <2>1 DEF Readied
    <3> QED BY <3>1, ReadiedSound DEF IInv, CacheSize
  <2> QED BY <2>1 DEF IInv, Sealed, InCache
<1> QED BY <1>1, Invariance, PTL

\* The buffers hold what is written to them.
THEOREM BuffersFit == Spec => []Fits
<1>1. IInv => Fits
  BY DEF IInv, Sealed, Fits, MACLen, ADLen
<1> QED BY <1>1, Invariance, PTL

\* The keys of an agreement stay with its ends: two objects with the same message
\* key have the same root, and the agreement that made it was with the ephemeral
\* pair of each (x25519.h:428-475).
THEOREM ReadersAreEnds == Spec => []Readers
<1>1. ASSUME IInv, NEW o \in Objects, NEW q \in Objects,
             ~state[o].needsDH, ~state[o].needsChain, ~state[q].needsChain,
             MessageKey(state[o]) = MessageKey(state[q])
      PROVE  {state[o].ep, state[q].ep} \subseteq Ends(state[o].root)
  <2>1. Sound(state[o]) /\ Sound(state[q])
    BY <1>1 DEF IInv
  <2>2. PICK x : Agreed(state[o], x) /\ AgreedOn(state[o], x)
    BY <1>1, <2>1 DEF Sound, Unagreed
  <2>3. MessageKey(state[o]) = Sub(Sub(x, 0), 1) /\ state[o].root = Master(x, 0)
    BY <1>1, <2>2 DEF AgreedOn, MessageKey
  <2>4. ASSUME Unagreed(state[q]) PROVE FALSE
    <3>1. MessageKey(state[q]) = Sub(Zeros, 0)
      BY <1>1, <2>4 DEF Unagreed, MessageKey
    <3>2. Sub(Sub(x, 0), 1) = Sub(Zeros, 0)
      BY <1>1, <2>3, <3>1
    <3>3. 1 = 0
      BY ONLY <3>2, SubInjective
    <3> QED BY <3>3
  <2>5. PICK y : Agreed(state[q], y) /\ AgreedOn(state[q], y)
    BY <2>1, <2>4 DEF Sound
  <2>6. MessageKey(state[q]) = Sub(Sub(y, 0), 1)
    BY <1>1, <2>5 DEF AgreedOn, MessageKey
  <2>7. x = y
    <3>1. Sub(Sub(x, 0), 1) = Sub(Sub(y, 0), 1)
      BY <1>1, <2>3, <2>6
    <3>2. Sub(x, 0) = Sub(y, 0)
      BY ONLY <3>1, SubInjective
    <3> QED BY ONLY <3>2, SubInjective
  <2>8. state[o].ep \in Ends(Master(x, 0))
    BY <2>2, EndOfOwn
  <2>9. state[q].ep \in Ends(Master(x, 0))
    BY <2>5, <2>7, EndOfOwn
  <2> QED BY <2>3, <2>8, <2>9
<1>2. IInv => Readers
  BY <1>1 DEF Readers
<1> QED BY <1>2, Invariance, PTL

=============================================================================
