-------------------------- MODULE RouterDataProofs --------------------------
(***************************************************************************)
(* Proofs about RouterInfos, for any objects, any numbers of addresses and *)
(* certificates of others, and any number of calls.                        *)
(***************************************************************************)
EXTENDS RouterData, TLAPS

Images == [body : Bodies, sig : Signatures]

-----------------------------------------------------------------------------
(* The invariant. *)

\* Drawn by call n of any object.
Drawn(d, n) == d[2] <= n

\* An image as it was written: signed, with the key of its identity, in full.
Written(m, n) ==
  /\ m.sig.of = m.body /\ m.sig.by = m.body.ident.signer
  /\ m.body.odd = "nothing" /\ m.body.ident.cert # InvalidCert
  /\ Drawn(m.body.ident.pad, n) /\ Drawn(m.sig.by[1], n)

\* The key pair is one, and was drawn here.
Paired(i, n) == Own(i) => i.sk = i.signer /\ Drawn(i.sk[1], n) /\ i.sk[1][1] \in Infos

\* The signature is of contents that a read does not throw for.  It may be of a
\* certificate for RedDSA, for which a read throws late, if the object has met an
\* unsupported one; or if the object made it, but then only as long as it has the
\* private key that it made it with, or none that verifies it.
Readable(i, n) ==
  /\ i.sig.of.odd = "nothing" /\ i.sig.of.ident.cert # InvalidCert
  /\ Drawn(i.sig.of.ident.pad, n) /\ Drawn(i.sig.by[1], n)
  /\ ~i.bad /\ i.sig.of.ident.cert.sign = "reddsa" =>
       i.sig.by[1][1] \in Infos /\ (Own(i) \/ i.sig.by # i.signer)

\* What Unmixed says of an object.
Whole(i) ==
  Verifies(i) /\ ~Own(i) =>
    /\ i.addrs = i.body.addrs /\ Options(i) = i.body.options
    /\ ~i.bad => Ident(i) = i.body.ident /\ i.hash = i.body.ident /\ i.crypto = i.cert.crypto

Sound(i, n) ==
  /\ Paired(i, n) /\ Readable(i, n) /\ Whole(i)
  /\ i.cert = InvalidCert => i.body.ident.cert = InvalidCert

IInv ==
  /\ TypeOK
  /\ \A o \in Infos : Sound(info[o], calls)
  /\ \A m \in net : Written(m, calls)

-----------------------------------------------------------------------------
(* Types. *)

LEMMA Basics ==
  /\ None \in Keys /\ Far \in Draws /\ <<"none", 0>> \in Draws /\ <<"none", 0>>[2] = 0
  /\ \A d \in Draws : Key(d) \in Keys /\ Key(d)[1] = d /\ d[2] \in Nat
  /\ \A k \in Keys : Derived(k) \in Keys /\ k[1] \in Draws
  /\ InvalidCert \notin Certs /\ DefaultCert \in Certs
<1>1. "none" \in Infos \cup {"far", "none"} /\ "far" \in Infos \cup {"far", "none"}
  OBVIOUS
<1>2. <<"none", 0>> \in Draws /\ Far \in Draws /\ <<"none", 0>>[2] = 0
  BY <1>1 DEF Draws, Far
<1>3. \A d \in Draws : Key(d) \in Keys /\ Key(d)[1] = d /\ d[2] \in Nat
  BY DEF Draws, Keys, Key
<1>4. \A k \in Keys : Derived(k) \in Keys /\ k[1] \in Draws
  BY DEF Keys, Derived
<1>5. InvalidCert \notin Certs /\ DefaultCert \in Certs
  BY DEF InvalidCert, Certs, DefaultCert, Cert
<1>6. QED
  BY <1>2, <1>3, <1>4, <1>5 DEF None

\* What an object writes.
LEMMA WhatIsWritten ==
  ASSUME NEW i \in Objects
  PROVE  Ident(i) \in Idents /\ Body(i) \in Bodies
<1>1. Ident(i) \in Idents
  BY DEF Objects, Ident, Idents
<1>2. Options(i) \in [s : Keys, more : Keys]
  BY DEF Objects, Options
<1>3. QED
  BY <1>1, <1>2 DEF Body, Bodies, Odds, Objects

LEMMA Nothings == NoIdent \in Idents /\ NoBody \in Bodies /\ NoSig \in Signatures
<1>1. NoIdent \in Idents
  BY Basics DEF NoIdent, Idents
<1>2. NoBody \in Bodies
  BY <1>1, Basics DEF NoBody, Bodies, Odds
<1>3. QED
  BY <1>1, <1>2, Basics DEF NoSig, Signatures

\* A new identity.
LEMMA Blanks ==
  ASSUME NEW d \in Draws
  PROVE  LET i == Blank(d)
         IN /\ i \in Objects /\ i.cert = DefaultCert /\ i.sign = "eddsa" /\ i.sig = NoSig
            /\ i.sk = Key(d) /\ i.signer = Key(d) /\ i.bad = FALSE /\ i.body = NoBody
<1> DEFINE k == [crypto |-> "hmac", sign |-> "eddsa", cert |-> DefaultCert, id |-> Key(d), pad |-> d,
                 signer |-> Key(d), s |-> None, more |-> None, addrs |-> 0, sk |-> Key(d),
                 hash |-> NoIdent, body |-> NoBody, sig |-> NoSig, ep |-> Derived(Key(d)),
                 bad |-> FALSE]
<1>1. k \in Objects
  BY Basics, Nothings DEF Objects
<1>2. k.cert = DefaultCert /\ k.sign = "eddsa" /\ k.sig = NoSig /\ k.sk = Key(d)
      /\ k.signer = Key(d) /\ k.bad = FALSE /\ k.body = NoBody
  OBVIOUS
<1>3. Blank(d) = [k EXCEPT !.hash = Ident(k)]
  BY DEF Blank
<1> HIDE DEF k
<1>4. Ident(k) \in Idents
  BY <1>1, WhatIsWritten
<1>5. QED
  BY <1>1, <1>2, <1>3, <1>4 DEF Objects

LEMMA Names ==
  ASSUME NEW i \in Objects
  PROVE  Named(i) \in Objects
         /\ \E k \in Keys : Named(i) = [i EXCEPT !.s = k]
<1>1. i.id \in Keys /\ i.s \in Keys
  BY DEF Objects
<1>2. CASE i.s = None
  BY <1>1, <1>2 DEF Named, Objects
<1>3. CASE i.s # None
  <2>1. i = [i EXCEPT !.s = i.s]
    BY DEF Objects
  <2>2. QED
    BY <1>1, <1>3, <2>1 DEF Named
<1>4. QED
  BY <1>2, <1>3

\* What serialize does.
LEMMA Serializing ==
  ASSUME NEW i \in Objects, NEW d \in Draws
  PROVE  LET j == Serialized(i, d)
         IN /\ j \in Objects
            /\ j.sk = i.sk /\ j.signer = i.signer /\ j.cert = i.cert /\ j.bad = i.bad
            /\ j.sign = i.sign
            /\ Writable(i.cert) => /\ j.body = Body(j) /\ j.body.ident.pad = d
                                   /\ j.body.odd = "nothing" /\ j.body.ident.cert = i.cert
                                   /\ j.body.ident.signer = i.signer
            /\ ~Writable(i.cert) => j.body = i.body /\ j.sig = i.sig
            /\ Writable(i.cert) /\ Signs(i) => j.sig = Signed(i, j.body)
            /\ ~Signs(i) => j.sig = i.sig
<1> DEFINE q == [i EXCEPT !.pad = d]
           p == Padded(i, d)
<1>1. q \in Objects /\ q.pad = d /\ q.sk = i.sk /\ q.signer = i.signer /\ q.cert = i.cert
      /\ q.bad = i.bad /\ q.sign = i.sign /\ q.body = i.body /\ q.sig = i.sig
  BY DEF Objects
<1>2. Ident(q) \in Idents
  BY <1>1, WhatIsWritten
<1>3. p = IF Writable(i.cert) THEN [q EXCEPT !.hash = Ident(q)] ELSE q
  BY DEF Padded
<1> HIDE DEF q
<1>4. p \in Objects /\ p.pad = d /\ p.sk = i.sk /\ p.signer = i.signer /\ p.cert = i.cert
      /\ p.bad = i.bad /\ p.sign = i.sign /\ p.body = i.body /\ p.sig = i.sig
  BY <1>1, <1>2, <1>3 DEF Objects
<1>5. Body(p) \in Bodies
  BY <1>4, WhatIsWritten
<1>6. Signs(p) = Signs(i) /\ Signed(p, Body(p)) = Signed(i, Body(p))
  BY <1>4 DEF Signs, Own, Signed
<1>7. Signed(i, Body(p)) \in Signatures
  BY <1>5 DEF Signed, Signatures, Objects
<1>8. Body(p).ident.pad = d /\ Body(p).odd = "nothing" /\ Body(p).ident.cert = i.cert
      /\ Body(p).ident.signer = i.signer
  BY <1>4 DEF Body, Ident
<1>9. CASE ~Writable(i.cert)
  <2>1. Serialized(i, d) = p
    BY <1>9 DEF Serialized
  <2>2. QED
    BY <1>4, <1>9, <2>1
<1>10. CASE Writable(i.cert) /\ Signs(i)
  <2>1. Serialized(i, d) = [p EXCEPT !.body = Body(p), !.sig = Signed(i, Body(p))]
    BY <1>6, <1>10 DEF Serialized
  <2> DEFINE j == [p EXCEPT !.body = Body(p), !.sig = Signed(i, Body(p))]
  <2>2. j \in Objects
    BY <1>4, <1>5, <1>7 DEF Objects
  <2>3. j.body = Body(p) /\ j.sig = Signed(i, Body(p)) /\ j.sk = i.sk /\ j.signer = i.signer
        /\ j.cert = i.cert /\ j.bad = i.bad /\ j.sign = i.sign
    BY <1>4 DEF Objects
  <2>4. Body(j) = Body(p)
    BY <1>4 DEF Body, Ident, Options, Objects
  <2> HIDE DEF j, p
  <2>5. QED
    BY <1>8, <1>10, <2>1, <2>2, <2>3, <2>4 DEF j
<1>11. CASE Writable(i.cert) /\ ~Signs(i)
  <2>1. Serialized(i, d) = [p EXCEPT !.body = Body(p)]
    BY <1>6, <1>11 DEF Serialized
  <2> DEFINE j == [p EXCEPT !.body = Body(p)]
  <2>2. j \in Objects
    BY <1>4, <1>5 DEF Objects
  <2>3. j.body = Body(p) /\ j.sig = i.sig /\ j.sk = i.sk /\ j.signer = i.signer
        /\ j.cert = i.cert /\ j.bad = i.bad /\ j.sign = i.sign
    BY <1>4 DEF Objects
  <2>4. Body(j) = Body(p)
    BY <1>4 DEF Body, Ident, Options, Objects
  <2> HIDE DEF j, p
  <2>5. QED
    BY <1>8, <1>11, <2>1, <2>2, <2>3, <2>4 DEF j
<1>12. QED
  BY <1>9, <1>10, <1>11

-----------------------------------------------------------------------------
(* Reading. *)

\* What reading the certificate does.
LEMMA Certified ==
  ASSUME NEW i \in Objects, NEW m \in Images
  PROVE  LET c == ReadCert(i, m)
         IN /\ c \in Objects /\ c.cert = m.body.ident.cert
            /\ c.bad = (i.bad \/ ~Supported(m.body.ident.cert))
            /\ c.sk = i.sk /\ c.signer = i.signer /\ c.sig = i.sig /\ c.body = i.body
            /\ c.sign = i.sign
<1>1. m.body.ident.cert \in Certs \cup {InvalidCert}
  BY DEF Images, Bodies, Idents
<1>2. (i.bad \/ ~Supported(m.body.ident.cert)) \in BOOLEAN /\ i.bad \in BOOLEAN
  BY DEF Objects
<1> DEFINE b == i.bad \/ ~Supported(m.body.ident.cert)
<1>3. ReadCert(i, m) = [i EXCEPT !.cert = m.body.ident.cert, !.bad = b]
  BY DEF ReadCert
<1>4. b \in BOOLEAN
  BY <1>2
<1> HIDE DEF b
<1>5. LET c == ReadCert(i, m)
      IN c \in Objects /\ c.cert = m.body.ident.cert /\ c.bad = b /\ c.sk = i.sk
         /\ c.signer = i.signer /\ c.sig = i.sig /\ c.body = i.body /\ c.sign = i.sign
  BY <1>1, <1>3, <1>4 DEF Objects
<1>6. QED
  BY <1>5 DEF b

\* What getting the crypto object of the certificate does.
LEMMA Converted ==
  ASSUME NEW i \in Objects, NEW d \in Draws, Supported(i.cert)
  PROVE  LET c == ToCrypto(i, d)
         IN /\ c \in Objects /\ c.crypto = i.cert.crypto /\ c.cert = i.cert /\ c.bad = i.bad
            /\ c.sk = i.sk /\ c.signer = i.signer /\ c.sig = i.sig /\ c.body = i.body
<1>1. Key(d) \in Keys /\ Derived(Key(d)) \in Keys /\ i.cert.crypto \in {"hmac", "blake"}
  BY Basics DEF Supported
<1>2. CASE i.crypto = i.cert.crypto
  BY <1>2 DEF ToCrypto
<1>3. CASE i.crypto # i.cert.crypto
  BY <1>1, <1>3 DEF ToCrypto, Objects
<1>4. QED
  BY <1>2, <1>3

\* Whether the keys were read.
KeysOf(j, i, m) ==
  IF j.bad
  THEN j.sk = i.sk /\ j.signer = i.signer
  ELSE /\ j.sk = None /\ Ident(j) = m.body.ident /\ j.hash = m.body.ident
       /\ j.crypto = j.cert.crypto /\ j.sign = j.cert.sign /\ j.signer = m.body.ident.signer

\* What reading the whole identity does, when that does not throw.
LEMMA Identified ==
  ASSUME NEW i \in Objects, NEW m \in Images, NEW d \in Draws,
         LET c == ReadCert(i, m) IN c.cert.sign = "reddsa" => c.bad
  PROVE  LET j == ReadIdentity(i, m, d)
         IN /\ j \in Objects /\ j.cert = m.body.ident.cert
            /\ j.bad = (i.bad \/ ~Supported(m.body.ident.cert))
            /\ j.sig = i.sig /\ j.body = i.body /\ KeysOf(j, i, m)
<1> DEFINE c == ReadCert(i, m)
           k == ReadKeys(c, m, d)
<1>1. /\ c \in Objects /\ c.cert = m.body.ident.cert
      /\ c.bad = (i.bad \/ ~Supported(m.body.ident.cert))
      /\ c.sk = i.sk /\ c.signer = i.signer /\ c.sig = i.sig /\ c.body = i.body
  BY Certified
<1>2. c.cert.sign = "reddsa" => c.bad
  OBVIOUS
<1> HIDE DEF c
<1>3. k \in Objects /\ k.cert = c.cert /\ k.bad = c.bad /\ k.sig = c.sig /\ k.body = c.body
      /\ KeysOf(k, i, m)
  <2>1. CASE c.bad
    BY <1>1, <2>1 DEF ReadKeys, KeysOf
  <2>2. CASE ~c.bad
    <3> DEFINE t == ToCrypto(c, d)
               q == [t EXCEPT !.sign = c.cert.sign, !.id = m.body.ident.id,
                              !.pad = m.body.ident.pad, !.signer = m.body.ident.signer,
                              !.sk = None, !.hash = m.body.ident]
    <3>1. Supported(c.cert) /\ c.cert.sign \in {"eddsa", "xeddsa"}
      BY <1>1, <1>2, <2>2 DEF Supported
    <3>2. t \in Objects /\ t.crypto = c.cert.crypto /\ t.cert = c.cert /\ t.bad = c.bad
          /\ t.sig = c.sig /\ t.body = c.body
      BY <1>1, <3>1, Converted
    <3>3. m.body.ident \in Idents
      BY DEF Images, Bodies
    <3>4. k = q
      BY <2>2 DEF ReadKeys
    <3> HIDE DEF t
    <3>5. q \in Objects
      BY <3>1, <3>2, <3>3, Basics DEF Objects, Idents
    <3>6. q.cert = c.cert /\ q.bad = c.bad /\ q.sig = c.sig /\ q.body = c.body /\ q.sk = None
          /\ q.hash = m.body.ident /\ q.crypto = c.cert.crypto /\ q.signer = m.body.ident.signer
          /\ q.id = m.body.ident.id /\ q.pad = m.body.ident.pad /\ q.sign = c.cert.sign
      BY <3>2 DEF Objects
    <3> HIDE DEF q
    <3>7. Ident(q) = m.body.ident
      BY <1>1, <3>3, <3>6 DEF Ident, Idents
    <3>8. KeysOf(q, i, m)
      BY <2>2, <3>6, <3>7 DEF KeysOf
    <3>9. QED
      BY <3>4, <3>5, <3>6, <3>8
  <2>3. QED
    BY <2>1, <2>2
<1>4. ReadIdentity(i, m, d) = Named(k)
  BY DEF ReadIdentity, c
<1> HIDE DEF k
<1>5. PICK s \in Keys : Named(k) = [k EXCEPT !.s = s]
  BY <1>3, Names
<1> DEFINE j == [k EXCEPT !.s = s]
<1>6. j \in Objects /\ j.cert = k.cert /\ j.bad = k.bad /\ j.sig = k.sig /\ j.body = k.body
      /\ j.sk = k.sk /\ j.signer = k.signer /\ Ident(j) = Ident(k) /\ j.hash = k.hash
      /\ j.crypto = k.crypto /\ j.sign = k.sign
  BY <1>3, <1>5 DEF Objects, Ident
<1> HIDE DEF j
<1>7. KeysOf(j, i, m)
  BY <1>3, <1>6 DEF KeysOf
<1>8. QED
  BY <1>1, <1>3, <1>4, <1>5, <1>6, <1>7 DEF j

\* What reading an image does.
LEMMA Reading ==
  ASSUME NEW i \in Objects, NEW m \in Images, NEW d \in Draws, ~Throws(i, m)
  PROVE  LET j == ReadAll(i, m, d)
         IN /\ j \in Objects /\ j.cert = m.body.ident.cert /\ m.body.ident.cert # InvalidCert
            /\ m.body.odd = "nothing" /\ (m.body.ident.cert.sign = "reddsa" => j.bad)
            /\ j.bad = (i.bad \/ ~Supported(m.body.ident.cert))
            /\ j.body = m.body /\ KeysOf(j, i, m)
            /\ Overrun(m) => j.sig = NoSig
            /\ ~Overrun(m) => /\ j.sig = m.sig /\ j.addrs = m.body.addrs
                              /\ Options(j) = m.body.options
<1> DEFINE b == [i EXCEPT !.body = m.body]
           k == ReadIdentity(b, m, d)
           a == ReadAddresses(k, m)
           p == ReadOptions(a, m)
<1>0. m.body \in Bodies /\ m.sig \in Signatures /\ m.body.options \in [s : Keys, more : Keys]
      /\ m.body.addrs \in Nat
  BY DEF Images, Bodies
<1>1. b \in Objects /\ b.body = m.body /\ b.bad = i.bad /\ b.sk = i.sk /\ b.signer = i.signer
      /\ b.sig = i.sig
  BY <1>0 DEF Objects
<1>2. /\ m.body.odd = "nothing" /\ m.body.ident.cert # InvalidCert
      /\ m.body.ident.cert.sign = "reddsa" => i.bad \/ ~Supported(m.body.ident.cert)
  BY Certified DEF Throws
<1> HIDE DEF b
<1>3. LET c == ReadCert(b, m) IN c.cert.sign = "reddsa" => c.bad
  BY <1>1, <1>2, Certified
<1>4. /\ k \in Objects /\ k.cert = m.body.ident.cert
      /\ k.bad = (b.bad \/ ~Supported(m.body.ident.cert))
      /\ k.body = m.body /\ KeysOf(k, b, m)
  BY <1>1, <1>3, Identified
<1> HIDE DEF k
<1>5. Counted(m.body.addrs) \in Nat
  BY <1>0 DEF Counted
<1>6. /\ a \in Objects /\ a.cert = k.cert /\ a.bad = k.bad /\ a.body = k.body
      /\ a.addrs = Counted(m.body.addrs) /\ a.sk = k.sk /\ a.signer = k.signer
      /\ Ident(a) = Ident(k) /\ a.hash = k.hash /\ a.crypto = k.crypto /\ a.sign = k.sign
  BY <1>4, <1>5 DEF ReadAddresses, Objects, Ident
<1> HIDE DEF a
<1>7. /\ p \in Objects /\ p.cert = k.cert /\ p.bad = k.bad /\ p.body = k.body
      /\ p.addrs = Counted(m.body.addrs) /\ p.sk = k.sk /\ p.signer = k.signer
      /\ Ident(p) = Ident(k) /\ p.hash = k.hash /\ p.crypto = k.crypto /\ p.sign = k.sign
      /\ ~Overrun(m) => Options(p) = m.body.options
  <2>1. CASE Overrun(m)
    BY <1>6, <2>1 DEF ReadOptions
  <2>2. CASE ~Overrun(m)
    <3>1. p = [a EXCEPT !.s = m.body.options.s, !.more = m.body.options.more]
      BY <2>2 DEF ReadOptions, ReadMapping
    <3>2. m.body.options.s \in Keys /\ m.body.options.more \in Keys
      BY <1>0
    <3>3. m.body.options = [s |-> m.body.options.s, more |-> m.body.options.more]
      BY <1>0
    <3>4. /\ p \in Objects /\ p.s = m.body.options.s /\ p.more = m.body.options.more
          /\ p.cert = a.cert /\ p.id = a.id /\ p.pad = a.pad /\ p.signer = a.signer
          /\ p.bad = a.bad /\ p.body = a.body /\ p.addrs = a.addrs /\ p.sk = a.sk
          /\ p.hash = a.hash /\ p.crypto = a.crypto /\ p.sign = a.sign
      <4>1. a \in Objects
        BY <1>6
      <4> DEFINE s == m.body.options.s
                 more == m.body.options.more
      <4>2. p = [a EXCEPT !.s = s, !.more = more] /\ s \in Keys /\ more \in Keys
        BY <3>1, <3>2
      <4> HIDE DEF p, s, more
      <4>3. p \in Objects
        BY <4>1, <4>2 DEF Objects
      <4>4. /\ p.s = s /\ p.more = more
            /\ p.cert = a.cert /\ p.id = a.id /\ p.pad = a.pad /\ p.signer = a.signer
        BY <4>1, <4>2 DEF Objects
      <4>5. /\ p.bad = a.bad /\ p.body = a.body /\ p.addrs = a.addrs /\ p.sk = a.sk
            /\ p.hash = a.hash /\ p.crypto = a.crypto /\ p.sign = a.sign
        BY <4>1, <4>2 DEF Objects
      <4>6. QED
        BY <4>3, <4>4, <4>5 DEF s, more
    <3>5. Ident(p) = Ident(a) /\ Options(p) = m.body.options
      BY <3>3, <3>4 DEF Ident, Options
    <3> HIDE DEF p
    <3>6. QED
      BY <1>6, <3>4, <3>5
  <2>3. QED
    BY <2>1, <2>2
<1> HIDE DEF p
<1> DEFINE sig == IF Overrun(m) THEN NoSig ELSE m.sig
           j == [p EXCEPT !.sig = sig]
<1>8. sig \in Signatures
  BY <1>0, Nothings
<1>9. ReadAll(i, m, d) = j
  BY DEF ReadAll, ReadSignature, p, a, k, b
<1> HIDE DEF sig
<1>10. /\ j \in Objects /\ j.cert = p.cert /\ j.bad = p.bad /\ j.body = p.body /\ j.sig = sig
       /\ j.addrs = p.addrs /\ j.sk = p.sk /\ j.signer = p.signer /\ Options(j) = Options(p)
       /\ Ident(j) = Ident(p) /\ j.hash = p.hash /\ j.crypto = p.crypto /\ j.sign = p.sign
  BY <1>7, <1>8 DEF Objects, Ident, Options
<1> HIDE DEF j
<1>11. KeysOf(j, i, m)
  BY <1>1, <1>4, <1>7, <1>10 DEF KeysOf
<1>12. ~Overrun(m) => Counted(m.body.addrs) = m.body.addrs
  BY DEF Overrun
<1>13. m.body.ident.cert.sign = "reddsa" => j.bad
  BY <1>1, <1>2, <1>4, <1>7, <1>10
<1>14. Overrun(m) => j.sig = NoSig
  BY <1>10 DEF sig
<1>15. ~Overrun(m) => j.sig = m.sig
  BY <1>10 DEF sig
<1>16. QED
  BY <1>1, <1>2, <1>4, <1>7, <1>9, <1>10, <1>11, <1>12, <1>13, <1>14, <1>15

\* What a read has done when it throws.
LEMMA Throwing ==
  ASSUME NEW i \in Objects, NEW m \in Images, NEW d \in Draws, Throws(i, m)
  PROVE  LET j == ReadUpTo(i, m, d)
         IN /\ j \in Objects /\ j.body = m.body /\ j.cert = m.body.ident.cert /\ j.sig = i.sig
            /\ \/ j.sk = i.sk /\ j.signer = i.signer
               \/ j.sk = None /\ j.signer = m.body.ident.signer /\ m.body.odd # "nothing"
            /\ i.bad => j.bad
            /\ \/ m.body.odd # "nothing"
               \/ m.body.ident.cert = InvalidCert
               \/ m.body.ident.cert.sign = "reddsa" /\ ~j.bad /\ j.sk = i.sk /\ j.signer = i.signer
<1> DEFINE b == [i EXCEPT !.body = m.body]
           c == ReadCert(b, m)
           k == ReadIdentity(b, m, d)
           a == ReadAddresses(k, m)
<1>0. m.body \in Bodies /\ m.body.options \in [s : Keys, more : Keys] /\ m.body.addrs \in Nat
      /\ m.body.ident.cert \in Certs \cup {InvalidCert}
  BY DEF Images, Bodies, Idents
<1>1. b \in Objects /\ b.body = m.body /\ b.bad = i.bad /\ b.sk = i.sk /\ b.signer = i.signer
      /\ b.sig = i.sig
  BY <1>0 DEF Objects
<1> HIDE DEF b
<1>2. /\ c \in Objects /\ c.cert = m.body.ident.cert
      /\ c.bad = (i.bad \/ ~Supported(m.body.ident.cert))
      /\ c.sk = i.sk /\ c.signer = i.signer /\ c.sig = i.sig /\ c.body = m.body
  BY <1>1, Certified
<1>3. \/ m.body.odd # "nothing"
      \/ m.body.ident.cert = InvalidCert
      \/ m.body.ident.cert.sign = "reddsa" /\ ~c.bad
  BY <1>2, Certified DEF Throws
<1>4. CASE c.cert = InvalidCert
  <2> DEFINE j == [b EXCEPT !.cert = c.cert]
  <2>1. ReadUpTo(i, m, d) = j
    BY <1>4 DEF ReadUpTo, b, c
  <2>2. j \in Objects /\ j.body = m.body /\ j.cert = m.body.ident.cert /\ j.sig = i.sig
        /\ j.sk = i.sk /\ j.signer = i.signer /\ j.bad = i.bad
    BY <1>1, <1>2 DEF Objects
  <2> HIDE DEF j
  <2>3. QED
    BY <1>2, <1>4, <2>1, <2>2
<1>5. CASE c.cert # InvalidCert /\ c.cert.sign = "reddsa" /\ ~c.bad
  <2> DEFINE j == ToCrypto(c, d)
  <2>1. ReadUpTo(i, m, d) = j
    BY <1>5 DEF ReadUpTo, b, c
  <2>2. Supported(c.cert)
    BY <1>2, <1>5
  <2>3. j \in Objects /\ j.body = m.body /\ j.cert = m.body.ident.cert /\ j.sig = i.sig
        /\ j.sk = i.sk /\ j.signer = i.signer /\ j.bad = c.bad
    BY <1>2, <2>2, Converted
  <2> HIDE DEF j, c
  <2>4. i.bad => j.bad
    BY <1>2, <1>5
  <2>5. QED
    BY <1>2, <1>5, <2>1, <2>3, <2>4
<1>6. CASE c.cert # InvalidCert /\ ~(c.cert.sign = "reddsa" /\ ~c.bad)
  <2>1. m.body.odd # "nothing"
    BY <1>2, <1>3, <1>6
  <2>2. LET q == ReadCert(b, m) IN q.cert.sign = "reddsa" => q.bad
    BY <1>6
  <2>3. /\ k \in Objects /\ k.cert = m.body.ident.cert
        /\ k.bad = (b.bad \/ ~Supported(m.body.ident.cert))
        /\ k.sig = b.sig /\ k.body = b.body /\ KeysOf(k, b, m)
    BY <1>1, <2>2, Identified
  <2>4. ReadUpTo(i, m, d) = IF m.body.odd = "address" THEN [k EXCEPT !.addrs = 0]
                                                      ELSE ReadOptions(a, m)
    BY <1>6 DEF ReadUpTo, b, c, k, a
  <2> HIDE DEF k, c
  <2>5. Counted(m.body.addrs) \in Nat
    BY <1>0 DEF Counted
  <2>6. a = [k EXCEPT !.addrs = Counted(m.body.addrs)] /\ a \in Objects
    BY <2>3, <2>5 DEF ReadAddresses, Objects
  <2>7. ReadUpTo(i, m, d) \in {[k EXCEPT !.addrs = 0], a,
                               [a EXCEPT !.s = m.body.options.s, !.more = m.body.options.more]}
    BY <2>4 DEF ReadOptions, ReadMapping
  <2>8. ASSUME NEW j \in {[k EXCEPT !.addrs = 0], a,
                          [a EXCEPT !.s = m.body.options.s, !.more = m.body.options.more]}
        PROVE  /\ j \in Objects /\ j.body = m.body /\ j.cert = m.body.ident.cert /\ j.sig = i.sig
               /\ j.sk = k.sk /\ j.signer = k.signer /\ j.bad = k.bad
    <3>1. CASE j = [k EXCEPT !.addrs = 0]
      BY <1>1, <2>3, <3>1 DEF Objects
    <3>2. CASE j = a
      BY <1>1, <2>3, <2>6, <3>2 DEF Objects
    <3>3. CASE j = [a EXCEPT !.s = m.body.options.s, !.more = m.body.options.more]
      <4>1. a.body = m.body /\ a.cert = m.body.ident.cert /\ a.sig = i.sig
            /\ a.sk = k.sk /\ a.signer = k.signer /\ a.bad = k.bad
        BY <1>1, <2>3, <2>6 DEF Objects
      <4> HIDE DEF a
      <4>2. QED
        BY <1>0, <2>6, <3>3, <4>1 DEF Objects
    <3>4. QED
      BY <3>1, <3>2, <3>3
  <2> DEFINE j == ReadUpTo(i, m, d)
  <2>9. /\ j \in Objects /\ j.body = m.body /\ j.cert = m.body.ident.cert /\ j.sig = i.sig
        /\ j.sk = k.sk /\ j.signer = k.signer /\ j.bad = k.bad
    BY <2>7, <2>8
  <2>10. \/ k.sk = i.sk /\ k.signer = i.signer
         \/ k.sk = None /\ k.signer = m.body.ident.signer
    BY <1>1, <2>3 DEF KeysOf
  <2>11. i.bad => k.bad
    BY <1>1, <2>3
  <2> HIDE DEF j
  <2>12. QED
    BY <2>1, <2>9, <2>10, <2>11 DEF j
<1>7. QED
  BY <1>4, <1>5, <1>6

-----------------------------------------------------------------------------
(* What every call makes is sound. *)

\* An image of another implementation, or as it was written.
Genuine(m, n) ==
  /\ m.sig.of = m.body /\ m.sig.by = m.body.ident.signer
  /\ Drawn(m.body.ident.pad, n) /\ Drawn(m.sig.by[1], n)
  /\ m.body.odd # "nothing" => m.sig.by[1][1] = "far"

\* Later, everything is still drawn before.
LEMMA Later ==
  ASSUME NEW n \in Nat
  PROVE  /\ \A i \in Objects : Sound(i, n) => Sound(i, n + 1)
         /\ \A m \in Images : Written(m, n) => Written(m, n + 1)
         /\ \A m \in Images : Genuine(m, n) => Genuine(m, n + 1)
<1>1. \A d \in Draws : Drawn(d, n) => Drawn(d, n + 1)
  BY Basics DEF Drawn
<1>2. \A i \in Objects : i.sk[1] \in Draws /\ i.sig.of.ident.pad \in Draws /\ i.sig.by[1] \in Draws
  BY Basics DEF Objects, Signatures, Bodies, Idents
<1>3. \A m \in Images : m.body.ident.pad \in Draws /\ m.sig.by[1] \in Draws
  BY Basics DEF Images, Signatures, Bodies, Idents
<1>4. \A i \in Objects : Sound(i, n) => Sound(i, n + 1)
  BY <1>1, <1>2 DEF Sound, Paired, Readable
<1>5. \A m \in Images : Written(m, n) => Written(m, n + 1)
  BY <1>1, <1>3 DEF Written
<1>6. \A m \in Images : Genuine(m, n) => Genuine(m, n + 1)
  BY <1>1, <1>3 DEF Genuine
<1>7. QED
  BY <1>4, <1>5, <1>6

\* Whoever keeps a private key and a sound signature is sound.
LEMMA OwnSound ==
  ASSUME NEW i \in Objects, NEW n \in Nat, Own(i), Paired(i, n), Readable(i, n),
         i.cert = InvalidCert => i.body.ident.cert = InvalidCert
  PROVE  Sound(i, n)
BY DEF Sound, Whole

\* To write with a private key.
LEMMA OwnWrites ==
  ASSUME NEW i \in Objects, NEW d \in Draws, NEW n \in Nat, Own(i), Paired(i, n), Readable(i, n),
         Drawn(d, n), i.cert = InvalidCert => i.body.ident.cert = InvalidCert
  PROVE  LET j == Serialized(i, d)
         IN /\ j \in Objects /\ Sound(j, n)
            /\ Writable(i.cert) /\ Signs(i) => Image(j) \in Images /\ Written(Image(j), n)
<1> DEFINE j == Serialized(i, d)
<1>1. /\ j \in Objects
      /\ j.sk = i.sk /\ j.signer = i.signer /\ j.cert = i.cert /\ j.bad = i.bad
      /\ j.sign = i.sign
      /\ Writable(i.cert) => /\ j.body = Body(j) /\ j.body.ident.pad = d
                             /\ j.body.odd = "nothing" /\ j.body.ident.cert = i.cert
                             /\ j.body.ident.signer = i.signer
      /\ ~Writable(i.cert) => j.body = i.body /\ j.sig = i.sig
      /\ Writable(i.cert) /\ Signs(i) => j.sig = Signed(i, j.body)
      /\ ~Signs(i) => j.sig = i.sig
  BY Serializing
<1> HIDE DEF j
<1>2. Own(j) /\ Paired(j, n)
  BY <1>1 DEF Own, Paired
<1>3. j.sig = i.sig \/ (Writable(i.cert) /\ j.sig.by = i.sk /\ j.sig.of = j.body)
  BY <1>1 DEF Signed
<1>4. Readable(j, n)
  <2>1. CASE j.sig = i.sig
    BY <1>1, <1>2, <2>1 DEF Readable
  <2>2. CASE Writable(i.cert) /\ j.sig.by = i.sk /\ j.sig.of = j.body
    BY <1>1, <1>2, <2>2 DEF Readable, Paired, Writable
  <2>3. QED
    BY <1>3, <2>1, <2>2
<1>5. j.cert = InvalidCert => j.body.ident.cert = InvalidCert
  BY <1>1 DEF Writable
<1>6. Sound(j, n)
  BY <1>1, <1>2, <1>4, <1>5, OwnSound
<1>7. Image(j) \in Images
  BY <1>1 DEF Image, Images, Objects
<1>8. ASSUME Writable(i.cert), Signs(i)
      PROVE  Written(Image(j), n)
  <2>1. Image(j).body = j.body /\ Image(j).sig = j.sig
    BY DEF Image
  <2>2. j.sig.of = j.body /\ j.sig.by = i.sk /\ i.sk = i.signer /\ Drawn(i.sk[1], n)
    BY <1>1, <1>8 DEF Signed, Paired
  <2>3. QED
    BY <1>1, <1>8, <2>1, <2>2 DEF Written, Writable
<1>9. QED
  BY <1>1, <1>6, <1>7, <1>8 DEF j

\* To write without one: the padding is new, so what is written is not signed.
LEMMA OthersWrite ==
  ASSUME NEW i \in Objects, NEW d \in Draws, NEW n \in Nat, ~Own(i), Sound(i, n), d[2] = n + 1
  PROVE  LET j == Serialized(i, d) IN j \in Objects /\ Sound(j, n + 1) /\ ~Signs(i)
<1> DEFINE j == Serialized(i, d)
<1>1. ~Signs(i)
  BY DEF Signs
<1>2. /\ j \in Objects
      /\ j.sk = i.sk /\ j.signer = i.signer /\ j.cert = i.cert /\ j.bad = i.bad /\ j.sig = i.sig
      /\ Writable(i.cert) => j.body.ident.pad = d
      /\ ~Writable(i.cert) => j.body = i.body
  BY <1>1, Serializing
<1> HIDE DEF j
<1>3. ~Own(j)
  BY <1>2 DEF Own
<1>4. Sound(i, n + 1) /\ Readable(i, n)
  BY Later DEF Sound
<1>5. Readable(j, n + 1) /\ Paired(j, n + 1)
  BY <1>2, <1>3, <1>4 DEF Sound, Readable, Paired, Own
<1>6. j.sig.of # j.body
  <2>1. CASE Writable(i.cert)
    <3>1. i.sig.of.ident.pad[2] <= n
      BY <1>4 DEF Readable, Drawn
    <3>2. i.sig.of.ident.pad # d
      BY <3>1
    <3>3. QED
      BY <1>2, <2>1, <3>2
  <2>2. CASE ~Writable(i.cert)
    BY <1>2, <1>4, <2>2 DEF Readable, Sound, Writable
  <2>3. QED
    BY <2>1, <2>2
<1>7. Whole(j)
  BY <1>6 DEF Whole, Verifies, Holds
<1>8. j.cert = InvalidCert => j.body.ident.cert = InvalidCert
  BY <1>2, <1>4 DEF Sound, Writable
<1>9. QED
  BY <1>1, <1>2, <1>5, <1>7, <1>8 DEF Sound, j

\* To read whole.
LEMMA ReadsSound ==
  ASSUME NEW i \in Objects, NEW m \in Images, NEW d \in Draws, NEW n \in Nat, Sound(i, n),
         Genuine(m, n), ~Throws(i, m)
  PROVE  ReadAll(i, m, d) \in Objects /\ Sound(ReadAll(i, m, d), n)
<1> DEFINE j == ReadAll(i, m, d)
<1>1. /\ j \in Objects /\ j.cert = m.body.ident.cert /\ m.body.ident.cert # InvalidCert
      /\ m.body.odd = "nothing" /\ (m.body.ident.cert.sign = "reddsa" => j.bad)
      /\ j.body = m.body /\ KeysOf(j, i, m)
      /\ Overrun(m) => j.sig = NoSig
      /\ ~Overrun(m) => /\ j.sig = m.sig /\ j.addrs = m.body.addrs
                        /\ Options(j) = m.body.options
  BY Reading
<1> HIDE DEF j
<1>2. Paired(j, n)
  BY <1>1 DEF Sound, Paired, Own, KeysOf
<1>3. /\ NoSig.of = NoBody /\ NoBody.odd = "nothing" /\ NoBody.ident.cert = DefaultCert
      /\ NoBody.ident.pad[2] = 0 /\ NoSig.by[1][2] = 0 /\ NoBody.addrs = 0
  BY Basics DEF NoSig, NoBody, NoIdent, None, Key
<1>4. DefaultCert # InvalidCert /\ DefaultCert.sign # "reddsa"
  BY Basics DEF DefaultCert, Cert
<1>5. Readable(j, n)
  <2>1. CASE Overrun(m)
    BY <1>1, <1>3, <1>4, <2>1 DEF Readable, Drawn
  <2>2. CASE ~Overrun(m)
    BY <1>1, <2>2 DEF Readable, Genuine
  <2>3. QED
    BY <2>1, <2>2
<1>6. Whole(j)
  <2> SUFFICES ASSUME Verifies(j), ~Own(j)
               PROVE  /\ j.addrs = j.body.addrs /\ Options(j) = j.body.options
                      /\ ~j.bad => Ident(j) = j.body.ident /\ j.hash = j.body.ident
                                   /\ j.crypto = j.cert.crypto
    BY DEF Whole
  <2>1. ~Overrun(m)
    <3> SUFFICES ASSUME Overrun(m)
                 PROVE  FALSE
      OBVIOUS
    <3>1. m.body = NoBody
      BY <1>1, <1>3 DEF Verifies, Holds
    <3>2. QED
      BY <1>3, <3>1 DEF Overrun, Counted
  <2>2. QED
    BY <1>1, <2>1 DEF KeysOf
<1>7. QED
  BY <1>1, <1>2, <1>5, <1>6 DEF Sound, j

\* To read until something throws: what was read is no image that the old
\* signature is of.
LEMMA ThrowsSound ==
  ASSUME NEW i \in Objects, NEW m \in Images, NEW d \in Draws, NEW n \in Nat, Sound(i, n),
         Genuine(m, n), Throws(i, m)
  PROVE  ReadUpTo(i, m, d) \in Objects /\ Sound(ReadUpTo(i, m, d), n)
<1> DEFINE j == ReadUpTo(i, m, d)
<1>1. /\ j \in Objects /\ j.body = m.body /\ j.cert = m.body.ident.cert /\ j.sig = i.sig
      /\ \/ j.sk = i.sk /\ j.signer = i.signer
         \/ j.sk = None /\ j.signer = m.body.ident.signer /\ m.body.odd # "nothing"
      /\ i.bad => j.bad
      /\ \/ m.body.odd # "nothing"
         \/ m.body.ident.cert = InvalidCert
         \/ m.body.ident.cert.sign = "reddsa" /\ ~j.bad /\ j.sk = i.sk /\ j.signer = i.signer
  BY Throwing
<1> HIDE DEF j
<1>2. Paired(i, n) /\ Readable(i, n)
  BY DEF Sound
<1>3. Paired(j, n)
  BY <1>1, <1>2 DEF Paired, Own
<1>4. Readable(j, n)
  <2>1. CASE j.sk = i.sk /\ j.signer = i.signer
    BY <1>1, <1>2, <2>1 DEF Readable, Own
  <2>2. CASE j.signer = m.body.ident.signer /\ m.body.odd # "nothing"
    <3>1. j.signer[1][1] \notin Infos
      BY <2>2, RouterDataAssumption DEF Genuine
    <3>2. QED
      BY <1>1, <1>2, <3>1 DEF Readable
  <2>3. QED
    BY <1>1, <2>1, <2>2
<1>5. ~(Verifies(j) /\ ~Own(j))
  <2> SUFFICES ASSUME Verifies(j), ~Own(j)
               PROVE  FALSE
    OBVIOUS
  <2>1. i.sig.of = m.body /\ i.sig.by = j.signer
    BY <1>1 DEF Verifies, Holds
  <2>2. m.body.odd = "nothing" /\ m.body.ident.cert # InvalidCert
    BY <1>2, <2>1 DEF Readable
  <2>3. QED
    BY <1>1, <1>2, <2>1, <2>2 DEF Readable, Own
<1>6. j.cert = InvalidCert => j.body.ident.cert = InvalidCert
  BY <1>1
<1>7. QED
  BY <1>1, <1>3, <1>4, <1>5, <1>6 DEF Sound, Whole, j

-----------------------------------------------------------------------------
(* New objects and new keys. *)

\* What is drawn for an object is a key, and not none.
LEMMA Drawing ==
  ASSUME NEW o \in Infos, NEW n \in Nat
  PROVE  /\ <<o, n>> \in Draws /\ Key(<<o, n>>) \in Keys /\ Key(<<o, n>>) # None
         /\ <<o, n>>[2] = n /\ Key(<<o, n>>)[1] = <<o, n>> /\ Key(<<o, n>>)[1][1] = o
         /\ Drawn(<<o, n>>, n)
<1>1. <<o, n>> \in Draws /\ <<o, n>>[2] = n /\ <<o, n>>[1] = o
  BY DEF Draws
<1>2. Key(<<o, n>>) \in Keys /\ Key(<<o, n>>)[1] = <<o, n>>
  BY <1>1, Basics
<1>3. None[1][1] = "none" /\ o # "none"
  BY RouterDataAssumption DEF None, Key
<1>4. Key(<<o, n>>) # None
  BY <1>1, <1>2, <1>3
<1>5. QED
  BY <1>1, <1>2, <1>4 DEF Drawn

\* A blank object, whatever is put into it, can sign what it writes.
LEMMA BlankSound ==
  ASSUME NEW o \in Infos, NEW n \in Nat, NEW i \in Objects,
         i.sk = Key(<<o, n>>), i.signer = Key(<<o, n>>), i.sig = NoSig, i.cert # InvalidCert
  PROVE  Own(i) /\ Paired(i, n) /\ Readable(i, n) /\ Sound(i, n)
<1>1. Own(i) /\ Paired(i, n)
  BY Drawing DEF Own, Paired
<1>2. /\ NoSig.of = NoBody /\ NoBody.odd = "nothing" /\ NoBody.ident.cert = DefaultCert
      /\ NoBody.ident.pad[2] = 0 /\ NoSig.by[1][2] = 0
  BY Basics DEF NoSig, NoBody, NoIdent, None, Key
<1>3. DefaultCert # InvalidCert /\ DefaultCert.sign # "reddsa"
  BY Basics DEF DefaultCert, Cert
<1>4. Readable(i, n)
  BY <1>2, <1>3 DEF Readable, Drawn
<1>5. QED
  BY <1>1, <1>4, OwnSound

\* What a new object wrote.
LEMMA NewWrites ==
  ASSUME NEW o \in Infos, NEW n \in Nat, NEW i \in Objects, i.sign = "eddsa",
         i.sk = Key(<<o, n>>), i.signer = Key(<<o, n>>), i.sig = NoSig, i.cert # InvalidCert
  PROVE  LET j == Serialized(i, <<o, n>>)
         IN j \in Objects /\ Sound(j, n) /\ Image(j) \in Images /\ Written(Image(j), n)
<1>1. Own(i) /\ Paired(i, n) /\ Readable(i, n)
  BY BlankSound
<1>2. <<o, n>> \in Draws /\ Drawn(<<o, n>>, n)
  BY Drawing
<1>3. Writable(i.cert) /\ Signs(i)
  BY <1>1 DEF Writable, Signs, Implemented
<1>4. i.cert = InvalidCert => i.body.ident.cert = InvalidCert
  OBVIOUS
<1>5. QED
  BY <1>1, <1>2, <1>3, <1>4, OwnWrites

LEMMA NewSound ==
  ASSUME NEW o \in Infos, NEW n \in Nat
  PROVE  LET j == New(<<o, n>>)
         IN j \in Objects /\ Sound(j, n) /\ Image(j) \in Images /\ Written(Image(j), n)
<1> DEFINE d == <<o, n>>
           b == Blank(d)
           k == Named(b)
           i == [k EXCEPT !.more = Key(d)]
<1>1. d \in Draws /\ Key(d) \in Keys
  BY Drawing
<1>2. b \in Objects /\ b.cert = DefaultCert /\ b.sign = "eddsa" /\ b.sig = NoSig
      /\ b.sk = Key(d) /\ b.signer = Key(d)
  BY <1>1, Blanks
<1>3. New(d) = Serialized(i, d)
  BY DEF New
<1> HIDE DEF b
<1>4. PICK s \in Keys : k = [b EXCEPT !.s = s]
  BY <1>2, Names
<1>5. k \in Objects /\ k.cert = DefaultCert /\ k.sign = "eddsa" /\ k.sig = NoSig
      /\ k.sk = Key(d) /\ k.signer = Key(d)
  BY <1>2, <1>4 DEF Objects
<1> HIDE DEF k
<1>6. i \in Objects /\ i.cert = DefaultCert /\ i.sign = "eddsa" /\ i.sig = NoSig
      /\ i.sk = Key(d) /\ i.signer = Key(d)
  BY <1>1, <1>5 DEF Objects
<1> HIDE DEF i
<1>7. DefaultCert # InvalidCert
  BY Basics
<1>8. QED
  BY <1>3, <1>6, <1>7, NewWrites

LEMMA NewFromSound ==
  ASSUME NEW o \in Infos, NEW n \in Nat, NEW crypto \in {"hmac", "blake"}, NEW count \in Nat,
         NEW options \in Objects
  PROVE  LET j == NewFrom(crypto, count, options, <<o, n>>)
         IN j \in Objects /\ Sound(j, n) /\ Image(j) \in Images /\ Written(Image(j), n)
<1> DEFINE d == <<o, n>>
           b == Blank(d)
           more == IF options.s = None THEN Key(d) ELSE options.more
           i == [b EXCEPT !.crypto = crypto, !.cert = Cert(crypto, "eddsa"), !.addrs = count,
                          !.s = options.s, !.more = more]
           k == Named(i)
<1>1. d \in Draws /\ Key(d) \in Keys
  BY Drawing
<1>2. b \in Objects /\ b.cert = DefaultCert /\ b.sign = "eddsa" /\ b.sig = NoSig
      /\ b.sk = Key(d) /\ b.signer = Key(d)
  BY <1>1, Blanks
<1>3. NewFrom(crypto, count, options, d) = Serialized(k, d)
  BY DEF NewFrom
<1>4. more \in Keys /\ options.s \in Keys
  BY <1>1 DEF Objects
<1>5. Cert(crypto, "eddsa") \in Certs /\ Cert(crypto, "eddsa") # InvalidCert
  BY Basics DEF Cert, Certs
<1> HIDE DEF b, more
<1>6. i \in Objects /\ i.cert = Cert(crypto, "eddsa") /\ i.sign = "eddsa" /\ i.sig = NoSig
      /\ i.sk = Key(d) /\ i.signer = Key(d)
  BY <1>2, <1>4, <1>5 DEF Objects
<1> HIDE DEF i
<1>7. PICK s \in Keys : k = [i EXCEPT !.s = s]
  BY <1>6, Names
<1>8. k \in Objects /\ k.cert = Cert(crypto, "eddsa") /\ k.sign = "eddsa" /\ k.sig = NoSig
      /\ k.sk = Key(d) /\ k.signer = Key(d)
  BY <1>6, <1>7 DEF Objects
<1> HIDE DEF k
<1>9. QED
  BY <1>3, <1>5, <1>8, NewWrites

\* Keys of the object's own, for its identity and to sign with.
LEMMA RekeySound ==
  ASSUME NEW o \in Infos, NEW n \in Nat, NEW i \in Objects, Own(i), Sound(i, n),
         NEW crypto \in {"hmac", "blake"}, NEW sign \in {"eddsa", "xeddsa"},
         NEW signer \in {Key(<<o, n>>), i.signer}
  PROVE  LET j == Rekeyed(i, crypto, sign, signer, <<o, n>>) IN j \in Objects /\ Sound(j, n)
<1> DEFINE d == <<o, n>>
           k == IF i.crypto = crypto
                THEN [i EXCEPT !.id = Derived(i.ep)]
                ELSE [i EXCEPT !.crypto = crypto, !.id = Key(d), !.ep = Derived(Key(d))]
           q == [k EXCEPT !.sign = sign, !.signer = signer, !.sk = signer]
           p == [q EXCEPT !.pad = d]
           j == IF Writable(q.cert) THEN [p EXCEPT !.hash = Ident(p)] ELSE p
<1>1. d \in Draws /\ Key(d) \in Keys /\ Derived(Key(d)) \in Keys /\ Derived(i.ep) \in Keys
  BY Drawing, Basics DEF Objects
<1>2. Rekeyed(i, crypto, sign, signer, d) = j
  BY DEF Rekeyed, Padded
<1>3. i.sk = i.signer /\ Drawn(i.sk[1], n) /\ i.sk[1][1] \in Infos /\ i.sk # None
  BY DEF Sound, Paired, Own
<1>4. signer \in Keys /\ signer # None /\ Drawn(signer[1], n) /\ signer[1][1] \in Infos
  BY <1>3, Drawing DEF Objects
<1>5. k \in Objects /\ k.cert = i.cert /\ k.sig = i.sig /\ k.body = i.body /\ k.bad = i.bad
  <2>1. CASE i.crypto = crypto
    BY <1>1, <2>1 DEF Objects
  <2>2. CASE i.crypto # crypto
    BY <1>1, <2>2 DEF Objects
  <2>3. QED
    BY <2>1, <2>2
<1> HIDE DEF k
<1>6. /\ q \in Objects /\ q.cert = i.cert /\ q.sig = i.sig /\ q.body = i.body /\ q.bad = i.bad
      /\ q.sk = signer /\ q.signer = signer
  BY <1>4, <1>5 DEF Objects
<1> HIDE DEF q
<1>7. /\ p \in Objects /\ p.cert = i.cert /\ p.sig = i.sig /\ p.body = i.body /\ p.bad = i.bad
      /\ p.sk = signer /\ p.signer = signer
  BY <1>1, <1>6 DEF Objects
<1> HIDE DEF p
<1>8. Ident(p) \in Idents
  BY <1>7, WhatIsWritten
<1>9. /\ j \in Objects /\ j.cert = i.cert /\ j.sig = i.sig /\ j.body = i.body /\ j.bad = i.bad
      /\ j.sk = signer /\ j.signer = signer
  BY <1>7, <1>8 DEF Objects
<1> HIDE DEF j
<1>10. Own(j) /\ Paired(j, n)
  BY <1>4, <1>9 DEF Own, Paired
<1>11. Readable(j, n)
  BY <1>9, <1>10 DEF Sound, Readable
<1>12. Sound(j, n)
  BY <1>9, <1>10, <1>11, OwnSound DEF Sound
<1>13. QED
  BY <1>2, <1>9, <1>12

\* Whatever else changes, but not the key pair nor what was read or written.
LEMMA OtherSound ==
  ASSUME NEW n \in Nat, NEW i \in Objects, Own(i), Sound(i, n), NEW j \in Objects,
         j.sk = i.sk, j.signer = i.signer, j.cert = i.cert, j.sig = i.sig, j.body = i.body,
         j.bad = i.bad
  PROVE  Sound(j, n)
<1>1. Own(j) /\ Paired(j, n) /\ Readable(j, n)
  BY DEF Own, Sound, Paired, Readable
<1>2. QED
  BY <1>1, OwnSound DEF Sound

\* A public signing key in place of the pair: nothing was signed with it yet.
LEMMA SignerSound ==
  ASSUME NEW o \in Infos, NEW n \in Nat, NEW i \in Objects, Own(i), Sound(i, n)
  PROVE  LET j == RekeyedSigner(i, <<o, n + 1>>) IN j \in Objects /\ Sound(j, n + 1)
<1> DEFINE d == <<o, n + 1>>
           j == RekeyedSigner(i, d)
<1>1. n + 1 \in Nat
  OBVIOUS
<1>2. Key(d) \in Keys /\ Key(d)[1][2] = n + 1
  BY <1>1, Drawing
<1>3. j = [i EXCEPT !.signer = Key(d), !.sk = None]
  BY DEF RekeyedSigner
<1>4. /\ j \in Objects /\ j.cert = i.cert /\ j.sig = i.sig /\ j.body = i.body /\ j.bad = i.bad
      /\ j.sk = None /\ j.signer = Key(d)
  <2>1. j \in Objects /\ j.sk = None /\ j.signer = Key(d)
    <3>1. Key(d) \in Keys /\ None \in Keys
      BY <1>2, Basics
    <3> HIDE DEF d
    <3>2. QED
      BY <1>3, <3>1 DEF Objects
  <2>2. j.cert = i.cert /\ j.sig = i.sig /\ j.body = i.body /\ j.bad = i.bad
    BY <1>3 DEF Objects
  <2>3. QED
    BY <2>1, <2>2
<1> HIDE DEF j
<1>5. Sound(i, n + 1)
  BY Later
<1>6. i.sig.by # Key(d)
  <2>1. i.sig.by[1][2] <= n
    BY DEF Sound, Readable, Drawn
  <2>2. QED
    BY <1>2, <2>1
<1>7. ~Own(j) /\ ~Verifies(j)
  BY <1>4, <1>6 DEF Own, Verifies, Holds
<1>8. Readable(j, n + 1)
  BY <1>4, <1>5, <1>6 DEF Sound, Readable
<1>9. QED
  BY <1>4, <1>5, <1>7, <1>8 DEF Sound, Paired, Whole, j

\* Images of other implementations.
LEMMA FarImages ==
  ASSUME NEW n \in Nat, NEW m \in Foreign
  PROVE  m \in Images /\ Genuine(m, n)
<1> DEFINE Bytes(cert, odd) ==
             [ident |-> [cert |-> cert, id |-> Key(Far), pad |-> Far, signer |-> Key(Far)],
              addrs |-> IF odd = "address" THEN 1 ELSE 0,
              options |-> [s |-> Key(Far), more |-> Key(Far)], odd |-> odd]
<1>1. PICK cert \in FarCerts, odd \in Odds :
        m = [body |-> Bytes(cert, odd), sig |-> [by |-> Key(Far), of |-> Bytes(cert, odd)]]
  BY DEF Foreign, Odds
<1>2. Far \in Draws /\ Key(Far) \in Keys /\ Key(Far)[1] = Far /\ Far[2] = 0 /\ Far[1] = "far"
  BY Basics DEF Far
<1>3. cert \in Certs \cup {InvalidCert}
  BY RouterDataAssumption DEF Certs, InvalidCert, Cert
<1> DEFINE ident == [cert |-> cert, id |-> Key(Far), pad |-> Far, signer |-> Key(Far)]
           bytes == Bytes(cert, odd)
<1>4. ident \in Idents
  BY <1>2, <1>3 DEF Idents
<1>5. bytes \in Bodies /\ bytes.ident = ident
  BY <1>2, <1>4 DEF Bodies
<1>6. ident.pad = Far /\ ident.signer = Key(Far)
  OBVIOUS
<1>7. m = [body |-> bytes, sig |-> [by |-> Key(Far), of |-> bytes]]
  BY <1>1
<1> HIDE DEF bytes, ident
<1>8. m \in Images
  BY <1>2, <1>5, <1>7 DEF Images, Signatures
<1>9. m.sig.of = bytes /\ m.body = bytes /\ m.sig.by = Key(Far)
  BY <1>7
<1>10. QED
  BY <1>2, <1>5, <1>6, <1>8, <1>9 DEF Genuine, Drawn

-----------------------------------------------------------------------------
(* The invariant holds. *)

\* What a call leaves.
LEMMA PutStep ==
  ASSUME IInv, NEW o \in Infos, NEW i, i \in Objects, NEW images, Put(o, i, images),
         Sound(i, calls + 1), \A m \in images : m \in Images /\ Written(m, calls + 1)
  PROVE  IInv'
<1>1. /\ calls \in Nat /\ calls' = calls + 1 /\ calls' \in 0..MaxCalls
      /\ info' = [info EXCEPT ![o] = i] /\ net' = net \cup images
  BY RouterDataAssumption DEF IInv, TypeOK, Put
<1>2. /\ info \in [Infos -> Objects] /\ net \subseteq Images
      /\ \A q \in Infos : Sound(info[q], calls)
      /\ \A m \in net : Written(m, calls)
  BY DEF IInv, TypeOK, Images
<1>3. info' \in [Infos -> Objects] /\ net' \subseteq Images
  BY <1>1, <1>2
<1>4. \A q \in Infos : Sound(info[q], calls + 1)
  BY <1>1, <1>2, Later
<1>5. \A q \in Infos : Sound(info'[q], calls')
  <2> SUFFICES ASSUME NEW q \in Infos
               PROVE  Sound(info'[q], calls + 1)
    BY <1>1
  <2>1. info'[q] = IF q = o THEN i ELSE info[q]
    BY <1>1, <1>2
  <2>2. QED
    BY <1>4, <2>1
<1>6. \A m \in net' : Written(m, calls')
  <2> SUFFICES ASSUME NEW m \in net'
               PROVE  Written(m, calls + 1)
    BY <1>1
  <2>1. CASE m \in images
    BY <2>1
  <2>2. CASE m \in net
    BY <1>1, <1>2, <2>2, Later
  <2>3. QED
    BY <1>1, <2>1, <2>2
<1>7. QED
  BY <1>1, <1>3, <1>5, <1>6 DEF IInv, TypeOK, Images

\* What is known of the object that is called and of what it may read.
LEMMA Here ==
  ASSUME IInv, NEW o \in Infos, calls < MaxCalls
  PROVE  /\ calls \in Nat /\ Now(o) = <<o, calls + 1>> /\ Now(o) \in Draws
         /\ info[o] \in Objects /\ Sound(info[o], calls) /\ Sound(info[o], calls + 1)
         /\ \A m \in net \cup Foreign : m \in Images /\ Genuine(m, calls) /\ Genuine(m, calls + 1)
<1>1. calls \in Nat
  BY RouterDataAssumption DEF IInv, TypeOK
<1>2. info[o] \in Objects /\ Sound(info[o], calls) /\ Sound(info[o], calls + 1)
  BY <1>1, Later DEF IInv, TypeOK
<1>3. Now(o) = <<o, calls + 1>> /\ Now(o) \in Draws
  BY <1>1, Drawing DEF Now
<1>4. \A m \in net : m \in Images /\ Genuine(m, calls)
  BY DEF IInv, TypeOK, Images, Written, Genuine
<1>5. \A m \in Foreign : m \in Images /\ Genuine(m, calls)
  BY <1>1, FarImages
<1>6. \A m \in net \cup Foreign : m \in Images /\ Genuine(m, calls) /\ Genuine(m, calls + 1)
  BY <1>1, <1>4, <1>5, Later
<1>7. QED
  BY <1>1, <1>2, <1>3, <1>6

LEMMA MakeStep ==
  ASSUME IInv, NEW o \in Infos, Make(o)
  PROVE  IInv'
<1> DEFINE i == New(Now(o))
<1>1. Put(o, i, {Image(i)})
  BY DEF Make
<1>2. calls \in Nat /\ Now(o) = <<o, calls + 1>>
  BY <1>1, Here DEF Put
<1>3. i \in Objects /\ Sound(i, calls + 1) /\ Image(i) \in Images /\ Written(Image(i), calls + 1)
  BY <1>2, NewSound
<1> HIDE DEF i
<1>4. QED
  BY <1>1, <1>3, PutStep

LEMMA MakeFromStep ==
  ASSUME IInv, NEW o \in Infos, MakeFrom(o)
  PROVE  IInv'
<1>1. PICK crypto \in {"hmac", "blake"}, n \in AddrCounts \cup {0} :
        \E options \in {info[q] : q \in Infos} \cup {Blank(Now(o))} :
          LET i == NewFrom(crypto, n, options, Now(o)) IN Put(o, i, {Image(i)})
  BY DEF MakeFrom
<1>2. PICK options \in {info[q] : q \in Infos} \cup {Blank(Now(o))} :
        LET i == NewFrom(crypto, n, options, Now(o)) IN Put(o, i, {Image(i)})
  BY <1>1
<1> DEFINE i == NewFrom(crypto, n, options, Now(o))
<1>3. Put(o, i, {Image(i)})
  BY <1>2
<1>4. calls \in Nat /\ Now(o) = <<o, calls + 1>> /\ Now(o) \in Draws
  BY <1>3, Here DEF Put
<1>5. options \in Objects
  BY <1>4, Blanks DEF IInv, TypeOK
<1>6. n \in Nat
  BY RouterDataAssumption
<1>7. i \in Objects /\ Sound(i, calls + 1) /\ Image(i) \in Images /\ Written(Image(i), calls + 1)
  BY <1>4, <1>5, <1>6, NewFromSound
<1> HIDE DEF i
<1>8. QED
  BY <1>3, <1>7, PutStep

LEMMA RekeyStep ==
  ASSUME IInv, NEW o \in Infos, Rekey(o)
  PROVE  IInv'
<1>1. PICK crypto \in {"hmac", "blake"}, sign \in {"eddsa", "xeddsa"} :
        \E signer \in {Key(Now(o))} \cup {k \in {info[o].signer} : sign = info[o].sign} :
          Put(o, Rekeyed(info[o], crypto, sign, signer, Now(o)), {})
  BY DEF Rekey
<1>2. PICK signer \in {Key(Now(o)), info[o].signer} :
        Put(o, Rekeyed(info[o], crypto, sign, signer, Now(o)), {})
  BY <1>1
<1> DEFINE i == Rekeyed(info[o], crypto, sign, signer, Now(o))
<1>3. calls \in Nat /\ Now(o) = <<o, calls + 1>> /\ info[o] \in Objects
      /\ Sound(info[o], calls + 1) /\ calls + 1 \in Nat
  BY <1>2, Here DEF Put
<1>4. Own(info[o])
  BY DEF Rekey
<1>5. i \in Objects /\ Sound(i, calls + 1)
  BY <1>3, <1>4, RekeySound
<1> HIDE DEF i
<1>6. Put(o, i, {})
  BY <1>2 DEF i
<1>7. QED
  BY <1>5, <1>6, PutStep

\* Other keys and entries.
LEMMA OtherStep ==
  ASSUME IInv, NEW o \in Infos, RekeyCrypto(o) \/ AddOption(o) \/ AddAddresses(o)
  PROVE  IInv'
<1> DEFINE d == Now(o)
<1>1. calls < MaxCalls /\ Own(info[o])
  BY DEF RekeyCrypto, AddOption, AddAddresses, Put
<1>2. calls \in Nat /\ Now(o) = <<o, calls + 1>> /\ info[o] \in Objects
      /\ Sound(info[o], calls + 1) /\ calls + 1 \in Nat /\ d \in Draws
  BY <1>1, Here
<1>3. Key(d) \in Keys /\ Derived(Key(d)) \in Keys
  BY <1>2, Basics
<1>4. ASSUME NEW i \in Objects, Put(o, i, {}), i.sk = info[o].sk, i.signer = info[o].signer,
             i.cert = info[o].cert, i.sig = info[o].sig, i.body = info[o].body,
             i.bad = info[o].bad
      PROVE  IInv'
  <2>1. Sound(i, calls + 1)
    BY <1>1, <1>2, <1>4, OtherSound
  <2>2. QED
    BY <1>4, <2>1, PutStep
<1>5. CASE RekeyCrypto(o)
  <2>1. PICK crypto \in {"hmac", "blake"} : Put(o, RekeyedCrypto(info[o], crypto, d), {})
    BY <1>5 DEF RekeyCrypto
  <2> DEFINE i == [info[o] EXCEPT !.crypto = crypto, !.id = Key(d), !.ep = Derived(Key(d))]
  <2>2. Put(o, i, {})
    BY <2>1 DEF RekeyedCrypto
  <2>3. i \in Objects /\ i.sk = info[o].sk /\ i.signer = info[o].signer
        /\ i.cert = info[o].cert /\ i.sig = info[o].sig /\ i.body = info[o].body
        /\ i.bad = info[o].bad
    BY <1>2, <1>3 DEF Objects
  <2> HIDE DEF i
  <2>4. QED
    BY <1>4, <2>2, <2>3
<1>6. CASE AddOption(o)
  <2> DEFINE i == [info[o] EXCEPT !.more = Key(d)]
  <2>2. Put(o, i, {})
    BY <1>6 DEF AddOption
  <2>3. i \in Objects /\ i.sk = info[o].sk /\ i.signer = info[o].signer
        /\ i.cert = info[o].cert /\ i.sig = info[o].sig /\ i.body = info[o].body
        /\ i.bad = info[o].bad
    BY <1>2, <1>3 DEF Objects
  <2> HIDE DEF i
  <2>4. QED
    BY <1>4, <2>2, <2>3
<1>7. CASE AddAddresses(o)
  <2>1. PICK n \in AddrCounts : Put(o, [info[o] EXCEPT !.addrs = info[o].addrs + n], {})
    BY <1>7 DEF AddAddresses
  <2> DEFINE i == [info[o] EXCEPT !.addrs = info[o].addrs + n]
  <2>2. Put(o, i, {})
    BY <2>1
  <2>3. i \in Objects /\ i.sk = info[o].sk /\ i.signer = info[o].signer
        /\ i.cert = info[o].cert /\ i.sig = info[o].sig /\ i.body = info[o].body
        /\ i.bad = info[o].bad
    <3>1. n \in Nat /\ info[o].addrs + n \in Nat
      BY <1>2, RouterDataAssumption DEF Objects
    <3>2. QED
      BY <1>2, <3>1 DEF Objects
  <2> HIDE DEF i
  <2>4. QED
    BY <1>4, <2>2, <2>3
<1>8. QED
  BY <1>5, <1>6, <1>7

LEMMA RekeySignerStep ==
  ASSUME IInv, NEW o \in Infos, RekeySigner(o)
  PROVE  IInv'
<1> DEFINE i == RekeyedSigner(info[o], Now(o))
<1>1. Own(info[o]) /\ Put(o, i, {})
  BY DEF RekeySigner
<1>2. calls \in Nat /\ Now(o) = <<o, calls + 1>> /\ info[o] \in Objects /\ Sound(info[o], calls)
  BY <1>1, Here DEF Put
<1>3. i \in Objects /\ Sound(i, calls + 1)
  BY <1>1, <1>2, SignerSound
<1> HIDE DEF i
<1>4. QED
  BY <1>1, <1>3, PutStep

LEMMA SerializeStep ==
  ASSUME IInv, NEW o \in Infos, Serialize(o)
  PROVE  IInv'
<1> DEFINE i == Serialized(info[o], Now(o))
           images == IF Signs(i) /\ Writable(i.cert) THEN {Image(i)} ELSE {}
<1>1. Put(o, i, images)
  BY DEF Serialize
<1>2. calls \in Nat /\ Now(o) = <<o, calls + 1>> /\ info[o] \in Objects
      /\ Sound(info[o], calls) /\ Sound(info[o], calls + 1) /\ calls + 1 \in Nat /\ Now(o) \in Draws
      /\ Drawn(Now(o), calls + 1) /\ Now(o)[2] = calls + 1
  BY <1>1, Here, Drawing DEF Put
<1>3. i.sk = info[o].sk /\ i.cert = info[o].cert /\ i.sign = info[o].sign
  BY <1>2, Serializing
<1>4. Signs(i) = Signs(info[o]) /\ Own(i) = Own(info[o])
  BY <1>3 DEF Signs, Own
<1>5. i \in Objects /\ Sound(i, calls + 1)
      /\ (Signs(i) /\ Writable(i.cert) => Image(i) \in Images /\ Written(Image(i), calls + 1))
  <2>1. CASE Own(info[o])
    BY <1>2, <1>3, <1>4, <2>1, OwnWrites DEF Sound
  <2>2. CASE ~Own(info[o])
    BY <1>2, <1>4, <2>2, OthersWrite
  <2>3. QED
    BY <2>1, <2>2
<1> HIDE DEF i
<1>6. \A m \in images : m \in Images /\ Written(m, calls + 1)
  BY <1>5
<1> HIDE DEF images
<1>7. QED
  BY <1>1, <1>5, <1>6, PutStep

LEMMA ReadStep ==
  ASSUME IInv, NEW o \in Infos, ReadNew(o) \/ ReadAgain(o) \/ ReadThrows(o)
  PROVE  IInv'
<1>1. calls < MaxCalls
  BY DEF ReadNew, ReadAgain, ReadThrows, Put
<1>2. /\ calls + 1 \in Nat /\ Now(o) = <<o, calls + 1>> /\ Now(o) \in Draws
      /\ info[o] \in Objects /\ Sound(info[o], calls + 1)
      /\ \A m \in net \cup Foreign : m \in Images /\ Genuine(m, calls + 1)
  BY <1>1, Here
<1>3. CASE ReadNew(o)
  <2> DEFINE b == Blank(Now(o))
  <2>1. PICK m \in net \cup Foreign : ~Throws(b, m) /\ Put(o, ReadAll(b, m, Now(o)), {})
    BY <1>3 DEF ReadNew
  <2>2. /\ b \in Objects /\ b.cert = DefaultCert /\ b.sig = NoSig
        /\ b.sk = Key(Now(o)) /\ b.signer = Key(Now(o))
    BY <1>2, Blanks
  <2> HIDE DEF b
  <2>3. Sound(b, calls + 1)
    BY <1>2, <2>2, Basics, BlankSound
  <2>4. ReadAll(b, m, Now(o)) \in Objects /\ Sound(ReadAll(b, m, Now(o)), calls + 1)
    BY <1>2, <2>1, <2>2, <2>3, ReadsSound
  <2>5. QED
    BY <2>1, <2>4, PutStep
<1>4. CASE ReadAgain(o)
  <2>1. PICK m \in net \cup Foreign :
          ~Throws(info[o], m) /\ Put(o, ReadAll(info[o], m, Now(o)), {})
    BY <1>4 DEF ReadAgain
  <2>2. ReadAll(info[o], m, Now(o)) \in Objects /\ Sound(ReadAll(info[o], m, Now(o)), calls + 1)
    BY <1>2, <2>1, ReadsSound
  <2>3. QED
    BY <2>1, <2>2, PutStep
<1>5. CASE ReadThrows(o)
  <2>1. PICK m \in net \cup Foreign :
          Throws(info[o], m) /\ Put(o, ReadUpTo(info[o], m, Now(o)), {})
    BY <1>5 DEF ReadThrows
  <2>2. ReadUpTo(info[o], m, Now(o)) \in Objects /\ Sound(ReadUpTo(info[o], m, Now(o)), calls + 1)
    BY <1>2, <2>1, ThrowsSound
  <2>3. QED
    BY <2>1, <2>2, PutStep
<1>6. QED
  BY <1>3, <1>4, <1>5

LEMMA InitIInv ==
  ASSUME Init
  PROVE  IInv
<1>1. \A o \in Infos : LET j == New(<<o, 0>>)
                       IN j \in Objects /\ Sound(j, 0) /\ Image(j) \in Images /\ Written(Image(j), 0)
  BY NewSound
<1>2. \A o \in Infos : info[o] \in Objects /\ Sound(info[o], 0) /\ Image(info[o]) \in Images
                       /\ Written(Image(info[o]), 0)
  BY <1>1 DEF Init
<1>3. info = [o \in Infos |-> info[o]] /\ net = {Image(info[o]) : o \in Infos} /\ calls = 0
  BY DEF Init
<1>4. info \in [Infos -> Objects] /\ net \subseteq Images /\ \A m \in net : Written(m, 0)
  BY <1>2, <1>3
<1>5. QED
  BY <1>2, <1>3, <1>4, RouterDataAssumption DEF IInv, TypeOK, Images

LEMMA StepIInv ==
  ASSUME IInv, [Next]_vars
  PROVE  IInv'
<1>1. CASE UNCHANGED vars
  BY <1>1 DEF IInv, TypeOK, vars
<1>2. CASE Next
  <2>1. PICK o \in Infos :
          \/ Make(o) \/ MakeFrom(o) \/ Rekey(o) \/ RekeyCrypto(o) \/ RekeySigner(o)
          \/ AddOption(o) \/ AddAddresses(o) \/ Serialize(o)
          \/ ReadNew(o) \/ ReadAgain(o) \/ ReadThrows(o)
    BY <1>2 DEF Next
  <2>2. QED
    BY <2>1, MakeStep, MakeFromStep, RekeyStep, OtherStep, RekeySignerStep, SerializeStep,
       ReadStep
<1>3. QED
  BY <1>1, <1>2

-----------------------------------------------------------------------------
(* The theorems. *)

\* Making, rekeying, writing and reading preserve the invariant.
THEOREM Invariance == Spec => []IInv
<1>1. Init => IInv
  BY InitIInv
<1>2. IInv /\ [Next]_vars => IInv'
  BY StepIInv
<1>3. QED
  BY <1>1, <1>2, PTL DEF Spec

\* No object gets keys of a kind that is not supported (TypeOK).
THEOREM TypeCorrect == Spec => []TypeOK
<1>1. IInv => TypeOK
  BY DEF IInv
<1>2. QED
  BY <1>1, Invariance, PTL

\* Whoever has a private signing key has its public key (PairedKeys).
THEOREM KeysPaired == Spec => []PairedKeys
<1>1. IInv => PairedKeys
  BY DEF IInv, Sound, Paired, PairedKeys
<1>2. QED
  BY <1>1, Invariance, PTL

\* What verifies is not mixed with what the object was before (Unmixed).
THEOREM NeverMixed == Spec => []Unmixed
<1>1. IInv => Unmixed
  BY DEF IInv, Sound, Whole, Unmixed
<1>2. QED
  BY <1>1, Invariance, PTL

\* What was written whole is read by others as it was written, and verifies
\* (RoundTrip).
THEOREM ReadBack == Spec => []RoundTrip
<1>1. IInv => RoundTrip
  <2> SUFFICES ASSUME IInv, NEW m \in net, ~Overrun(m), Supported(m.body.ident.cert),
                      m.body.ident.cert.sign = "eddsa"
               PROVE  LET i == ReadAll(Blank(Far), m, Far)
                      IN /\ ~Throws(Blank(Far), m) /\ Verifies(i) /\ Body(i) = m.body
                         /\ i.hash = m.body.ident
    BY DEF RoundTrip
  <2> DEFINE b == Blank(Far)
             i == ReadAll(b, m, Far)
  <2>1. m \in Images /\ m.sig.of = m.body /\ m.sig.by = m.body.ident.signer
        /\ m.body.odd = "nothing" /\ m.body.ident.cert # InvalidCert
    BY DEF IInv, TypeOK, Images, Written
  <2>2. Far \in Draws /\ b \in Objects /\ b.bad = FALSE
    BY Basics, Blanks
  <2> HIDE DEF b
  <2>3. ~Throws(b, m)
    BY <2>1, <2>2, Certified DEF Throws
  <2>4. /\ i \in Objects /\ i.cert = m.body.ident.cert
        /\ i.bad = (b.bad \/ ~Supported(m.body.ident.cert)) /\ i.body = m.body
        /\ i.sig = m.sig /\ i.addrs = m.body.addrs /\ Options(i) = m.body.options
        /\ KeysOf(i, b, m)
    BY <2>1, <2>2, <2>3, Reading
  <2> HIDE DEF i
  <2>5. Ident(i) = m.body.ident /\ i.hash = m.body.ident /\ i.sign = "eddsa"
        /\ i.signer = m.body.ident.signer
    BY <2>2, <2>4 DEF KeysOf
  <2>6. Verifies(i)
    BY <2>1, <2>4, <2>5 DEF Verifies, Holds, Implemented
  <2>7. Body(i) = m.body
    <3>1. m.body \in Bodies
      BY <2>1 DEF Images
    <3>2. QED
      BY <2>1, <2>4, <2>5, <3>1 DEF Body, Bodies
  <2>8. QED
    BY <2>3, <2>5, <2>6, <2>7 DEF i, b
<1>2. QED
  BY <1>1, Invariance, PTL

=============================================================================
