----------------------------- MODULE RouterData -----------------------------
(***************************************************************************)
(* RouterInfos and the router identities and certificates in them, of      *)
(* src/src/data/router: made, rekeyed, added to, written, and read from    *)
(* what was written before, by new objects and by objects that were used.  *)
(* Whatever is drawn at random is named by who drew it and in which call.  *)
(* A key is a draw and how many times the KDF was applied to it; a hash is *)
(* what was hashed, and a signature the key and the bytes that it signs.   *)
(* Operation_Fault is Operation with a fault put in, to show that some     *)
(* property notices; nothing refers to it.                                 *)
(***************************************************************************)
EXTENDS Naturals

CONSTANTS
  Infos,        \* the Info objects of this program
  AddrCounts,   \* numbers of addresses that are added at once
  FarCerts,     \* certificates of the images that others made
  MaxCalls      \* bound on the calls

ASSUME RouterDataAssumption ==
  /\ AddrCounts \subseteq Nat /\ MaxCalls \in Nat
  /\ Infos \cap {"far", "none"} = {}
  /\ FarCerts \subseteq [crypto : {"hmac", "blake", "other"},
                         sign : {"eddsa", "xeddsa", "reddsa", "other"}]
                        \cup [crypto : {"invalid"}, sign : {"invalid"}]

VARIABLES
  info,   \* info[o]: the object o
  net,    \* the images that were written whole
  calls   \* number of calls

vars == <<info, net, calls>>

-----------------------------------------------------------------------------
(* Certificates. *)

Cert(crypto, sign) == [crypto |-> crypto, sign |-> sign]

Key(d) == <<d, 0>>
Derived(k) == <<k[1], k[2] + 1>>

\* Certificate() and Identity(): what an identity is made with if nobody chooses.
DefaultCert == Cert("hmac", "eddsa")

Supported(cert) == cert.crypto \in {"hmac", "blake"} /\ cert.sign \in {"eddsa", "xeddsa", "reddsa"}

Certs == [crypto : {"hmac", "blake", "other"}, sign : {"eddsa", "xeddsa", "reddsa", "other"}]

\* One whose own type is neither key nor null: check_params throws.
InvalidCert == Cert("invalid", "invalid")

\* Certificate::serialize checks the same.
Writable(cert) == cert # InvalidCert

-----------------------------------------------------------------------------
(* What is written. *)

\* Identity::serialize, the hash is of all of it.
Ident(i) == [cert |-> i.cert, id |-> i.id, pad |-> i.pad, signer |-> i.signer]

\* Mapping::serialize: the static key, and whatever else.
Options(i) == [s |-> i.s, more |-> i.more]

\* The bytes of a RouterInfo up to its signature.  What is odd about it, if
\* anything, makes readers throw.
Body(i) == [ident |-> Ident(i), addrs |-> i.addrs, options |-> Options(i), odd |-> "nothing"]

\* What nothing was assigned to yet, or is no key.
None == Key(<<"none", 0>>)

\* Whether there is a private signing key.
Own(i) == i.sk # None

\* The kinds of keys that implement Sign and Verify; the others throw.
Implemented == {"eddsa"}

\* Sign throws without a private key, too.
Signs(i) == i.sign \in Implemented /\ Own(i)

Signed(i, bytes) == [by |-> i.sk, of |-> bytes]

\* Identity::serialize: new padding, and so another hash.  With an invalid
\* certificate it throws in between.
Padded(i, d) ==
  LET p == [i EXCEPT !.pad = d]
  IN IF Writable(i.cert) THEN [p EXCEPT !.hash = Ident(p)] ELSE p

Serialized_SignsFirst(i, d) ==
  LET p == Padded(i, d)
  IN CASE ~Writable(i.cert) -> p
       [] Writable(i.cert) /\ Signs(p) -> [p EXCEPT !.body = Body(p), !.sig = Signed(p, Body(i))]
       [] OTHER -> [p EXCEPT !.body = Body(p)]

\* Info::serialize.  When Sign throws, the bytes before the signature are those
\* of the new contents and the signature is the old one.
Serialized(i, d) ==
  LET p == Padded(i, d)
      bytes == Body(p)
  IN CASE ~Writable(i.cert) -> p
       [] Writable(i.cert) /\ Signs(p) -> [p EXCEPT !.body = bytes, !.sig = Signed(p, bytes)]
       [] OTHER -> [p EXCEPT !.body = bytes]

Image(i) == [body |-> i.body, sig |-> i.sig]

\* Identity::Verify
Holds(i, bytes, sig) == i.sign \in Implemented /\ sig.by = i.signer /\ sig.of = bytes

\* Info::Verify
Verifies(i) == Holds(i, i.body, i.sig)

-----------------------------------------------------------------------------
(* New objects. *)

NoIdent == [cert |-> DefaultCert, id |-> None, pad |-> <<"none", 0>>, signer |-> None]
NoBody == [ident |-> NoIdent, addrs |-> 0, options |-> [s |-> None, more |-> None],
           odd |-> "nothing"]
NoSig == [by |-> None, of |-> NoBody]

\* Identity(): its keys are drawn, and there is nothing around it yet.
Blank(d) ==
  LET i == [crypto |-> "hmac", sign |-> "eddsa", cert |-> DefaultCert, id |-> Key(d), pad |-> d,
            signer |-> Key(d), s |-> None, more |-> None, addrs |-> 0, sk |-> Key(d),
            hash |-> NoIdent, body |-> NoBody, sig |-> NoSig, ep |-> Derived(Key(d)), bad |-> FALSE]
  IN [i EXCEPT !.hash = Ident(i)]

\* update_id_pubkey, which does not replace an option "s" that is there.
Named(i) == IF i.s = None THEN [i EXCEPT !.s = i.id] ELSE i

\* Info()
New(d) == Serialized([Named(Blank(d)) EXCEPT !.more = Key(d)], d)

\* Info(identity, addresses, options), the options of another RouterInfo for
\* example; a RouterInfo without options of its own gets new ones.
NewFrom(crypto, n, options, d) ==
  LET i == [Blank(d) EXCEPT !.crypto = crypto, !.cert = Cert(crypto, "eddsa"), !.addrs = n,
                            !.s = options.s,
                            !.more = IF options.s = None THEN Key(d) ELSE options.more]
  IN Serialized(Named(i), d)

-----------------------------------------------------------------------------
(* What is read. *)

\* Certificate::deserialize.  Nothing takes the mark of an unsupported one back.
ReadCert(i, m) ==
  LET cert == m.body.ident.cert
  IN [i EXCEPT !.cert = cert, !.bad = @ \/ ~Supported(cert)]

\* Identity::type_to_variant, for the crypto: one of another kind draws a pair.
ToCrypto(i, d) ==
  IF i.crypto = i.cert.crypto
  THEN i
  ELSE [i EXCEPT !.crypto = i.cert.crypto, !.id = Key(d), !.ep = Derived(Key(d))]

ReadKeys_Unsupported(i, m, d) ==
  LET ident == m.body.ident
  IN [i EXCEPT !.crypto = i.cert.crypto, !.sign = i.cert.sign, !.id = ident.id, !.pad = ident.pad,
               !.signer = ident.signer, !.sk = None, !.hash = ident]

\* The rest of Identity::deserialize: public keys in place of the own ones.  With
\* an unsupported certificate it is left out.
ReadKeys(i, m, d) ==
  LET ident == m.body.ident
  IN IF i.bad
     THEN i
     ELSE [ToCrypto(i, d) EXCEPT !.sign = i.cert.sign, !.id = ident.id, !.pad = ident.pad,
                                 !.signer = ident.signer, !.sk = None, !.hash = ident]

\* Info::ProcessIdentity
ReadIdentity(i, m, d) == Named(ReadKeys(ReadCert(i, m), m, d))

\* The number of addresses is written as one byte.
Counted(n) == n % 256

ReadAddresses_Appends(i, m) == [i EXCEPT !.addrs = @ + Counted(m.body.addrs)]

\* Info::ProcessAddresses
ReadAddresses(i, m) == [i EXCEPT !.addrs = Counted(m.body.addrs)]

Overrun(m) == m.body.addrs # Counted(m.body.addrs)

\* Mapping::deserialize replaces all the entries.
ReadMapping(i, options) == [i EXCEPT !.s = options.s, !.more = options.more]

\* Info::ProcessOptions.  When addresses are left, what is taken for the size of
\* the options is the expiration of one of them, which is zero.
ReadOptions(i, m) ==
  IF Overrun(m) THEN i ELSE ReadMapping(i, m.body.options)

\* When addresses are left, the signature is read from them.
ReadSignature(i, m) == [i EXCEPT !.sig = IF Overrun(m) THEN NoSig ELSE m.sig]

\* Info::deserialize, of an object whose buffer is the image.
ReadAll(i, m, d) ==
  LET b == [i EXCEPT !.body = m.body]
  IN ReadSignature(ReadOptions(ReadAddresses(ReadIdentity(b, m, d), m), m), m)

\* What a read has done when it throws: for a certificate of no known type, for
\* RedDSA, which cannot be constructed, for an address of another transport, for
\* another version of NTCP2.
ReadUpTo(i, m, d) ==
  LET b == [i EXCEPT !.body = m.body]
      c == ReadCert(b, m)
      k == ReadIdentity(b, m, d)
  IN IF c.cert = InvalidCert THEN [b EXCEPT !.cert = c.cert]
     ELSE IF c.cert.sign = "reddsa" /\ ~c.bad THEN ToCrypto(c, d)
     ELSE IF m.body.odd = "address" THEN [k EXCEPT !.addrs = 0]
     ELSE ReadOptions(ReadAddresses(k, m), m)

\* Whether a read throws depends on how far it gets.
Throws(i, m) ==
  \/ m.body.odd # "nothing"
  \/ LET c == ReadCert(i, m) IN c.cert = InvalidCert \/ (c.cert.sign = "reddsa" /\ ~c.bad)

\* Images that other implementations made and signed.
Far == <<"far", 0>>

Foreign ==
  {LET bytes == [ident |-> [cert |-> cert, id |-> Key(Far), pad |-> Far, signer |-> Key(Far)],
                 addrs |-> IF odd = "address" THEN 1 ELSE 0,
                 options |-> [s |-> Key(Far), more |-> Key(Far)], odd |-> odd]
   IN [body |-> bytes, sig |-> [by |-> Key(Far), of |-> bytes]] :
     cert \in FarCerts, odd \in {"nothing", "address", "version"}}

-----------------------------------------------------------------------------
(* Keys. *)

\* Identity::rekey(crypto_keys, sign_keys).  The crypto object of the same kind
\* takes for its identity what its ephemeral key derives; the certificate stays.
Rekeyed(i, crypto, sign, signer, d) ==
  LET k == IF i.crypto = crypto
           THEN [i EXCEPT !.id = Derived(i.ep)]
           ELSE [i EXCEPT !.crypto = crypto, !.id = Key(d), !.ep = Derived(Key(d))]
  IN Padded([k EXCEPT !.sign = sign, !.signer = signer, !.sk = signer], d)

\* rekey(r_id_key, r_ep_key), of a crypto object that has to be of another kind:
\* one of the same kind only gets remote keys.
RekeyedCrypto(i, crypto, d) ==
  [i EXCEPT !.crypto = crypto, !.id = Key(d), !.ep = Derived(Key(d))]

RekeyedSigner_Keeps(i, d) == [i EXCEPT !.signer = Key(d)]

\* rekey(sk), with a public signing key of the same kind.
RekeyedSigner(i, d) == [i EXCEPT !.signer = Key(d), !.sk = None]

-----------------------------------------------------------------------------
(* Steps. *)

\* Each object is an Info().
Init ==
  /\ info = [o \in Infos |-> New(<<o, 0>>)]
  /\ net = {Image(info[o]) : o \in Infos}
  /\ calls = 0

Now(o) == <<o, calls + 1>>

\* What was written whole is sent to others.
Put(o, i, images) ==
  /\ calls < MaxCalls
  /\ calls' = calls + 1
  /\ info' = [info EXCEPT ![o] = i]
  /\ net' = net \cup images

Make(o) == LET i == New(Now(o)) IN Put(o, i, {Image(i)})

MakeFrom(o) ==
  \E crypto \in {"hmac", "blake"}, n \in AddrCounts \cup {0} :
    \E options \in {info[q] : q \in Infos} \cup {Blank(Now(o))} :
      LET i == NewFrom(crypto, n, options, Now(o)) IN Put(o, i, {Image(i)})

\* A router rekeys its own RouterInfo.
Rekey(o) ==
  /\ Own(info[o])
  /\ \E crypto \in {"hmac", "blake"}, sign \in {"eddsa", "xeddsa"} :
       \E signer \in {Key(Now(o))} \cup {k \in {info[o].signer} : sign = info[o].sign} :
         Put(o, Rekeyed(info[o], crypto, sign, signer, Now(o)), {})

RekeyCrypto(o) ==
  /\ Own(info[o])
  /\ \E crypto \in {"hmac", "blake"} \ {info[o].crypto} :
       Put(o, RekeyedCrypto(info[o], crypto, Now(o)), {})

RekeySigner(o) == Own(info[o]) /\ Put(o, RekeyedSigner(info[o], Now(o)), {})

AddOption(o) == Own(info[o]) /\ Put(o, [info[o] EXCEPT !.more = Key(Now(o))], {})

AddAddresses(o) ==
  \E n \in AddrCounts : Own(info[o]) /\ Put(o, [info[o] EXCEPT !.addrs = @ + n], {})

\* An InfoBlock is made, or a SessionConfirmed message written.
Serialize(o) ==
  LET i == Serialized(info[o], Now(o))
  IN Put(o, i, IF Signs(i) /\ Writable(i.cert) THEN {Image(i)} ELSE {})

\* A new object reads an image; if that throws there is no object.
ReadNew(o) ==
  \E m \in net \cup Foreign :
    LET i == Blank(Now(o))
    IN ~Throws(i, m) /\ Put(o, ReadAll(i, m, Now(o)), {})

\* To make a signing object of another kind a copy of the old one is made, through
\* a null pointer if that has no private key; no caller does that.  An image whose
\* certificate makes the read throw before is no such case.
Replaceable(i, m) ==
  LET c == ReadCert(i, m)
  IN \/ c.cert = InvalidCert \/ c.bad
     \/ c.cert.sign \in {i.sign, "reddsa"}
     \/ Own(i)

\* An object reads an image, its own for example.
ReadAgain(o) ==
  \E m \in net \cup Foreign :
    /\ ~Throws(info[o], m) /\ Replaceable(info[o], m)
    /\ Put(o, ReadAll(info[o], m, Now(o)), {})

ReadThrows(o) ==
  \E m \in net \cup Foreign :
    /\ Throws(info[o], m) /\ Replaceable(info[o], m)
    /\ Put(o, ReadUpTo(info[o], m, Now(o)), {})

Next ==
  \E o \in Infos :
    \/ Make(o) \/ MakeFrom(o) \/ Rekey(o) \/ RekeyCrypto(o) \/ RekeySigner(o)
    \/ AddOption(o) \/ AddAddresses(o) \/ Serialize(o)
    \/ ReadNew(o) \/ ReadAgain(o) \/ ReadThrows(o)

Spec == Init /\ [][Next]_vars

-----------------------------------------------------------------------------
(* Properties. *)

Draws == (Infos \cup {"far", "none"}) \X Nat
Keys == Draws \X Nat
Idents == [cert : Certs \cup {InvalidCert}, id : Keys, pad : Draws, signer : Keys]
Odds == {"nothing", "address", "version"}
Bodies == [ident : Idents, addrs : Nat, options : [s : Keys, more : Keys], odd : Odds]
Signatures == [by : Keys, of : Bodies]
Objects ==
  [crypto : {"hmac", "blake"}, sign : {"eddsa", "xeddsa"}, cert : Certs \cup {InvalidCert},
   id : Keys, pad : Draws, signer : Keys, s : Keys, more : Keys, addrs : Nat, sk : Keys,
   hash : Idents, body : Bodies, sig : Signatures, ep : Keys, bad : BOOLEAN]

\* The types, and that only supported kinds of keys come to be used.
TypeOK ==
  /\ info \in [Infos -> Objects]
  /\ net \subseteq [body : Bodies, sig : Signatures]
  /\ calls \in 0..MaxCalls

\* Whatever was written whole with a certificate for the kind of key that signs, a
\* new object reads and verifies, unless there are more addresses than a byte
\* counts.
RoundTrip ==
  \A m \in net :
    ~Overrun(m) /\ Supported(m.body.ident.cert) /\ m.body.ident.cert.sign = "eddsa" =>
    LET i == ReadAll(Blank(Far), m, Far)
    IN ~Throws(Blank(Far), m) /\ Verifies(i) /\ Body(i) = m.body /\ i.hash = m.body.ident

\* Whoever has a private signing key has the public key that goes with it, whatever
\* was read or rekeyed around it.
PairedKeys == \A o \in Infos : Own(info[o]) => info[o].sk = info[o].signer

\* An object that verifies and has only public keys has the contents that were
\* signed, however often it was used, and the identity too if it has never met an
\* unsupported certificate.
Unmixed ==
  \A o \in Infos :
    LET i == info[o]
    IN Verifies(i) /\ ~Own(i) =>
         /\ i.addrs = i.body.addrs /\ Options(i) = i.body.options
         /\ ~i.bad => Ident(i) = i.body.ident /\ i.hash = i.body.ident /\ i.crypto = i.cert.crypto

=============================================================================
