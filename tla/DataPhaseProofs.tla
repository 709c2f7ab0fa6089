--------------------------- MODULE DataPhaseProofs ---------------------------
(***************************************************************************)
(* Proofs about the data phase, for any sizes of messages and any number   *)
(* of them.                                                                *)
(***************************************************************************)
EXTENDS DataPhase, SequenceTheorems, TLAPS

-----------------------------------------------------------------------------
(* Lengths. *)

\* The bounds are numbers; the prover need not know which.
LEMMA Bounds == MaxLen \in Nat /\ MaxUInt16 \in Nat /\ NoiseMax \in Nat
BY DEF MaxLen, MaxUInt16, NoiseMax

\* Up to MaxRead the sixteen bits of the length hold, and Read sees it positive.
LEMMA ShortLength ==
  ASSUME NEW size \in Nat, size # 0, size <= MaxRead
  PROVE  Length(size) = size + 16 /\ SealedSize(size) = size + 16 /\ ~IsNull(size + 16)
<1>1. UInt16(size) = size /\ UInt16(size + 16) = size + 16
  BY DEF UInt16, MaxRead
<1>2. Length(size) = size + 16
  BY <1>1 DEF Length, DigestLen
<1>3. SealedSize(size) = size + 16
  BY <1>2 DEF SealedSize
<1>4. ~IsNull(size + 16)
  BY <1>1 DEF IsNull, Int16, DigestLen, MaxRead
<1>5. QED
  BY <1>2, <1>3, <1>4

\* Whatever the size, the length has sixteen bits.
LEMMA LengthType ==
  ASSUME NEW size \in Nat
  PROVE  Length(size) \in 0..MaxUInt16 /\ SealedSize(size) \in Nat
<1>1. Length(size) \in Nat /\ Length(size) <= MaxUInt16
  BY DEF Length, UInt16, DigestLen, MaxUInt16
<1>2. SealedSize(size) \in Nat
  BY <1>1 DEF SealedSize
<1>3. QED
  BY <1>1, <1>2, Bounds

\* What Write accepts is not empty.
LEMMA AcceptedSize ==
  ASSUME NEW size \in Nat, Accepted(size)
  PROVE  size # 0 /\ SealedSize(size) <= NoiseMax
BY DEF Accepted, UInt16

-----------------------------------------------------------------------------
(* Directions. *)

\* Each direction has one writer and one reader, and each party one of each; the
\* two cipher states agree on the key, and the writers have different keys.
LEMMA Directions ==
  /\ \A p \in Parties : /\ WriteDir(p) \in Dirs /\ ReadDir(p) \in Dirs
                        /\ Writer(WriteDir(p)) = p /\ Reader(ReadDir(p)) = p
  /\ \A d \in Dirs : /\ Writer(d) \in Parties /\ Reader(d) \in Parties
                     /\ Writer(d) # Reader(d)
                     /\ WriteDir(Writer(d)) = d /\ ReadDir(Reader(d)) = d
                     /\ Cipher(Writer(d), d) = Cipher(Reader(d), d)
                     /\ Cipher(Writer(d), d) \in {"k1", "k2"}
  /\ \A d, e \in Dirs : Cipher(Writer(d), d) = Cipher(Writer(e), e) => d = e
BY DEF Parties, Dirs, WriteDir, ReadDir, Role, Writer, Reader, Cipher, SendKey, ReceiveKey

\* Only what these operators give is used from here on.
LEMMA WriterIs ==
  ASSUME NEW p \in Parties, NEW d \in Dirs
  PROVE  (Writer(d) = p <=> d = WriteDir(p)) /\ (Reader(d) = p <=> d = ReadDir(p))
BY DEF Parties, Dirs, WriteDir, ReadDir, Role, Writer, Reader

-----------------------------------------------------------------------------
(* Types. *)

\* The message that Write puts on the wire.
Made(p, size) ==
  [id |-> sent[WriteDir(p)] + 1, length |-> Length(size), mask |-> iv[p][WriteDir(p)],
   size |-> SealedSize(size), key |-> Cipher(p, WriteDir(p)),
   nonce |-> nonce[p][WriteDir(p)]]

\* It is a message.
LEMMA MadeType ==
  ASSUME TypeOK, NEW p \in Parties, NEW size \in Sizes, Accepted(size)
  PROVE  Made(p, size) \in Message /\ size \in Nat
<1>1. size \in Nat
  BY DataPhaseAssumption, Bounds
<1>2. Length(size) \in 0..MaxUInt16
  BY <1>1, LengthType
<1>3. SealedSize(size) \in 0..NoiseMax
  BY <1>1, LengthType, AcceptedSize, Bounds
<1>4. WriteDir(p) \in Dirs /\ Cipher(p, WriteDir(p)) \in {"k1", "k2"}
  BY Directions
<1>5. /\ sent[WriteDir(p)] + 1 \in Nat
      /\ iv[p][WriteDir(p)] \in Nat /\ nonce[p][WriteDir(p)] \in Nat
  BY <1>4 DEF TypeOK
<1>6. QED
  BY <1>1, <1>2, <1>3, <1>4, <1>5 DEF Made, Message

\* The calls are counted up to the bound.
LEMMA TryType ==
  ASSUME TypeOK, NEW d \in Dirs, Try(d)
  PROVE  tried' \in [Dirs -> 0..MaxSent]
BY DataPhaseAssumption DEF TypeOK, Try

\* A mask that moves on is one, and so is a nonce.
LEMMA AdvanceType ==
  ASSUME TypeOK, NEW p \in Parties, NEW d \in Dirs
  PROVE  /\ Advance(p, d) => iv' \in [Parties -> [Dirs -> Nat]]
         /\ \A n \in Nat : [nonce EXCEPT ![p][d] = @ + n] \in [Parties -> [Dirs -> Nat]]
<1>1. iv \in [Parties -> [Dirs -> Nat]] /\ nonce \in [Parties -> [Dirs -> Nat]]
  BY DEF TypeOK
<1>2. iv[p][d] + 1 \in Nat
  BY <1>1
<1>3. Advance(p, d) => iv' \in [Parties -> [Dirs -> Nat]]
  BY <1>1, <1>2 DEF Advance
<1>4. ASSUME NEW n \in Nat
      PROVE  [nonce EXCEPT ![p][d] = @ + n] \in [Parties -> [Dirs -> Nat]]
  <2>1. nonce[p][d] + n \in Nat
    BY <1>1
  <2>2. QED
    BY <1>1, <2>1
<1>5. QED
  BY <1>3, <1>4

\* Write keeps the types.
LEMMA WriteType ==
  ASSUME TypeOK, NEW p \in Parties, NEW size \in Sizes,
         Write(p, size) \/ WriteEmpty(p, size) \/ WriteThrows(p, size)
  PROVE  TypeOK'
<1> USE DEF TypeOK, Advance
<1>1. WriteDir(p) \in Dirs
  BY Directions
<1>2. CASE Write(p, size)
  <2>1. Accepted(size)
    BY <1>2 DEF Write
  <2>2. wire' = [wire EXCEPT ![WriteDir(p)] = Append(@, Made(p, size))]
    BY <1>2 DEF Write, Made
  <2>3. wire' \in [Dirs -> Seq(Message)]
    BY <2>1, <2>2, <1>1, MadeType
  <2>4. /\ iv' \in [Parties -> [Dirs -> Nat]] /\ nonce' \in [Parties -> [Dirs -> Nat]]
        /\ sent' \in [Dirs -> Nat] /\ got' \in [Dirs -> Seq(Nat)]
    <3>1. iv' \in [Parties -> [Dirs -> Nat]] /\ got' \in [Dirs -> Seq(Nat)]
      BY <1>1, <1>2 DEF Write
    <3>2. nonce' \in [Parties -> [Dirs -> Nat]]
      BY <1>1, <1>2 DEF Write
    <3>3. sent' \in [Dirs -> Nat]
      BY <1>1, <1>2 DEF Write
    <3>4. QED
      BY <3>1, <3>2, <3>3
  <2>5. tried' \in [Dirs -> 0..MaxSent]
    <3>1. Try(WriteDir(p))
      BY <1>2 DEF Write
    <3>2. QED
      BY <1>1, <3>1, TryType
  <2>6. upset' \in [Dirs -> BOOLEAN]
    BY <1>1, <1>2 DEF Write
  <2>7. used' \subseteq {"k1", "k2"} \X Nat
    <3>1. Cipher(p, WriteDir(p)) \in {"k1", "k2"} /\ nonce[p][WriteDir(p)] \in Nat
      BY <1>1, Directions
    <3>2. used' = used \cup {<<Cipher(p, WriteDir(p)), nonce[p][WriteDir(p)]>>}
      BY <1>2 DEF Write
    <3>3. QED
      BY <3>1, <3>2
  <2>8. QED
    BY <2>3, <2>4, <2>5, <2>6, <2>7
<1>3. CASE WriteEmpty(p, size)
  BY <1>1, <1>3, TryType DEF WriteEmpty, counters
<1>4. CASE WriteThrows(p, size)
  <2>1. Try(WriteDir(p)) /\ Advance(p, WriteDir(p))
    BY <1>4 DEF WriteThrows
  <2>2. iv' \in [Parties -> [Dirs -> Nat]]
    BY <1>1, <2>1, AdvanceType
  <2>3. tried' \in [Dirs -> 0..MaxSent]
    BY <1>1, <2>1, TryType
  <2>4. upset' \in [Dirs -> BOOLEAN]
    BY <1>1, <1>4 DEF WriteThrows
  <2>5. UNCHANGED <<nonce, wire, sent, got, used>>
    BY <1>4 DEF WriteThrows
  <2>6. QED
    BY <2>2, <2>3, <2>4, <2>5
<1>5. QED
  BY <1>2, <1>3, <1>4

\* Read keeps the types.
LEMMA ReadType ==
  ASSUME TypeOK, NEW p \in Parties, ReadNull(p) \/ Read(p) \/ ReadThrows(p)
  PROVE  TypeOK'
<1> USE DEF TypeOK, Take, Advance
<1>1. ReadDir(p) \in Dirs
  BY Directions
<1>2. CASE ReadNull(p)
  BY <1>1, <1>2 DEF ReadNull
<1>3. CASE Read(p)
  <2>1. wire[ReadDir(p)] \in Seq(Message) /\ wire[ReadDir(p)] # <<>>
    BY <1>1, <1>3 DEF Read
  <2>2. Head(wire[ReadDir(p)]) \in Message
    BY <2>1, HeadTailProperties
  <2>3. Head(wire[ReadDir(p)]).id \in Nat
    BY <2>2 DEF Message
  <2>4. got' = [got EXCEPT ![ReadDir(p)] = Append(@, Head(wire[ReadDir(p)]).id)]
    BY <1>3 DEF Read
  <2>5. got' \in [Dirs -> Seq(Nat)]
    BY <1>1, <2>3, <2>4
  <2>6. wire' \in [Dirs -> Seq(Message)]
    BY <1>1, <1>3, <2>1, HeadTailProperties DEF Read
  <2>7. /\ iv' \in [Parties -> [Dirs -> Nat]] /\ nonce' \in [Parties -> [Dirs -> Nat]]
        /\ UNCHANGED <<sent, tried, upset, used>>
    <3>1. Advance(p, ReadDir(p)) /\ nonce' = [nonce EXCEPT ![p][ReadDir(p)] = @ + 1]
      BY <1>3 DEF Read
    <3>2. UNCHANGED <<sent, tried, upset, used>>
      BY <1>3 DEF Read
    <3>3. QED
      BY <1>1, <3>1, <3>2, AdvanceType
  <2>8. QED
    BY <2>5, <2>6, <2>7
<1>4. CASE ReadThrows(p)
  <2>1. wire[ReadDir(p)] \in Seq(Message) /\ wire[ReadDir(p)] # <<>>
    BY <1>1, <1>4 DEF ReadThrows
  <2>2. wire' \in [Dirs -> Seq(Message)]
    BY <1>1, <1>4, <2>1, HeadTailProperties DEF ReadThrows
  <2>3. PICK n \in 0..1 : nonce' = [nonce EXCEPT ![p][ReadDir(p)] = @ + n]
    BY <1>4 DEF ReadThrows
  <2>4. n \in Nat /\ Advance(p, ReadDir(p))
    BY <1>4 DEF ReadThrows
  <2>5. nonce' \in [Parties -> [Dirs -> Nat]] /\ iv' \in [Parties -> [Dirs -> Nat]]
    BY <1>1, <2>3, <2>4, AdvanceType
  <2>6. UNCHANGED <<sent, got, tried, upset, used>>
    BY <1>4 DEF ReadThrows
  <2>7. QED
    BY <2>2, <2>5, <2>6
<1>5. QED
  BY <1>2, <1>3, <1>4

-----------------------------------------------------------------------------
(* The two ends of a direction. *)

\* Nothing of direction d changes.
Unchanged(d) ==
  /\ iv'[Writer(d)][d] = iv[Writer(d)][d] /\ iv'[Reader(d)][d] = iv[Reader(d)][d]
  /\ nonce'[Writer(d)][d] = nonce[Writer(d)][d] /\ nonce'[Reader(d)][d] = nonce[Reader(d)][d]
  /\ wire'[d] = wire[d] /\ sent'[d] = sent[d] /\ got'[d] = got[d] /\ upset'[d] = upset[d]

\* What holds of a direction then still holds.
LEMMA UnchangedKeeps ==
  ASSUME NEW d \in Dirs, Unchanged(d)
  PROVE  (Synced(d) => Synced(d)') /\ (InOrder(d) => InOrder(d)')
BY DEF Unchanged, Synced, InOrder

\* A call of Write leaves the other direction alone ...
LEMMA WriteElsewhere ==
  ASSUME TypeOK, NEW p \in Parties, NEW size \in Sizes, NEW d \in Dirs, d # WriteDir(p),
         Write(p, size) \/ WriteEmpty(p, size) \/ WriteThrows(p, size)
  PROVE  Unchanged(d)
<1>1. WriteDir(p) \in Dirs /\ Writer(d) \in Parties /\ Reader(d) \in Parties
  BY Directions
<1>2. CASE Write(p, size)
  BY <1>1, <1>2 DEF Write, Advance, TypeOK, Unchanged
<1>3. CASE WriteEmpty(p, size)
  BY <1>3 DEF WriteEmpty, counters, Unchanged
<1>4. CASE WriteThrows(p, size)
  BY <1>1, <1>4 DEF WriteThrows, Advance, TypeOK, Unchanged
<1>5. QED
  BY <1>2, <1>3, <1>4

\* ... and so does a call of Read.
LEMMA ReadElsewhere ==
  ASSUME TypeOK, NEW p \in Parties, NEW d \in Dirs, d # ReadDir(p),
         ReadNull(p) \/ Read(p) \/ ReadThrows(p)
  PROVE  Unchanged(d)
<1>1. ReadDir(p) \in Dirs /\ Writer(d) \in Parties /\ Reader(d) \in Parties
  BY Directions
<1>2. CASE ReadNull(p)
  BY <1>1, <1>2 DEF ReadNull, Take, Advance, TypeOK, Unchanged
<1>3. CASE Read(p)
  BY <1>1, <1>3 DEF Read, Take, Advance, TypeOK, Unchanged
<1>4. CASE ReadThrows(p)
  <2>1. PICK k \in 0..1 : nonce' = [nonce EXCEPT ![p][ReadDir(p)] = @ + k]
    BY <1>4 DEF ReadThrows
  <2>2. /\ nonce'[Writer(d)][d] = nonce[Writer(d)][d]
        /\ nonce'[Reader(d)][d] = nonce[Reader(d)][d]
    BY <1>1, <2>1 DEF TypeOK
  <2>3. QED
    BY <1>1, <1>4, <2>2 DEF ReadThrows, Take, Advance, TypeOK, Unchanged
<1>5. QED
  BY <1>2, <1>3, <1>4

\* A sum grows with its last term.
LEMMA OneMore ==
  \A a, b, n \in Nat : b + n = a => a + 1 = b + (n + 1)
OBVIOUS

\* What Write adds to a direction in which nothing went wrong.
LEMMA WriteStep ==
  ASSUME TypeOK, NEW d \in Dirs, NEW size \in Sizes, ~upset[d], Synced(d), InOrder(d),
         Write(Writer(d), size), ~upset'[d]
  PROVE  Synced(d)' /\ InOrder(d)'
<1> DEFINE p == Writer(d)
           r == Reader(d)
           m == Made(p, size)
           n == Len(wire[d])
<1>1. /\ p \in Parties /\ r \in Parties /\ p # r /\ WriteDir(p) = d
      /\ Cipher(p, d) = Cipher(r, d)
  BY Directions
<1>2. Accepted(size)
  BY DEF Write
<1>3. m \in Message /\ size \in Nat
  BY <1>1, <1>2, MadeType
<1>4. size # 0 /\ size <= MaxRead
  <2>1. size # 0
    BY <1>2, <1>3, AcceptedSize
  <2>2. ~(size > MaxRead)
    BY <1>1 DEF Write, TypeOK
  <2>3. QED
    BY <1>3, <2>1, <2>2 DEF MaxRead
<1>5. m.length = size + 16 /\ m.size = size + 16 /\ ~IsNull(size + 16)
  BY <1>3, <1>4, ShortLength DEF Made
<1>6. /\ iv'[p][d] = iv[p][d] + 1 /\ iv'[r][d] = iv[r][d]
      /\ nonce'[p][d] = nonce[p][d] + 1 /\ nonce'[r][d] = nonce[r][d]
      /\ sent'[d] = sent[d] + 1 /\ got'[d] = got[d]
  BY <1>1 DEF Write, Advance, TypeOK
<1>7. /\ m.mask = iv[p][d] /\ m.nonce = nonce[p][d] /\ m.key = Cipher(r, d)
      /\ m.id = sent[d] + 1
  BY <1>1 DEF Made
<1>8. /\ n \in Nat /\ Len(wire'[d]) = n + 1 /\ wire'[d][n + 1] = m
      /\ \A i \in 1..n : wire'[d][i] = wire[d][i]
  <2>1. wire'[d] = Append(wire[d], m)
    BY <1>1 DEF Write, TypeOK, Made
  <2>2. QED
    BY <1>3, <2>1 DEF TypeOK
<1>9. /\ iv[p][d] \in Nat /\ iv[r][d] \in Nat /\ nonce[p][d] \in Nat /\ nonce[r][d] \in Nat
  BY <1>1 DEF TypeOK
<1>10. Len(got[d]) \in Nat /\ sent[d] \in Nat
  BY DEF TypeOK
<1> HIDE DEF m, n
<1>11. Synced(d)'
  <2>0. iv[p][d] = iv[r][d] + n /\ nonce[p][d] = nonce[r][d] + n
    BY DEF Synced, n
  <2>1. /\ iv'[p][d] = iv'[r][d] + Len(wire'[d])
        /\ nonce'[p][d] = nonce'[r][d] + Len(wire'[d])
    <3>1. n \in Nat /\ Len(wire'[d]) = n + 1
      BY <1>8
    <3>2. iv[p][d] + 1 = iv[r][d] + (n + 1)
      BY <2>0, <1>9, <3>1, OneMore
    <3>3. nonce[p][d] + 1 = nonce[r][d] + (n + 1)
      BY <2>0, <1>9, <3>1, OneMore
    <3>4. QED
      BY <1>6, <3>1, <3>2, <3>3, Zenon
  <2>2. ASSUME NEW i \in 1..Len(wire'[d])
        PROVE  /\ wire'[d][i].mask = iv'[r][d] + i - 1
               /\ wire'[d][i].nonce = nonce'[r][d] + i - 1
               /\ wire'[d][i].key = Cipher(r, d)
               /\ wire'[d][i].length = wire'[d][i].size
               /\ ~IsNull(wire'[d][i].length)
    <3>1. CASE i \in 1..n
      BY <1>6, <1>8, <3>1 DEF Synced, n
    <3>2. CASE i = n + 1
      <4>1. wire'[d][i] = m /\ i - 1 = n
        BY <1>8, <3>2
      <4>2. m.mask = iv[r][d] + n /\ m.nonce = nonce[r][d] + n
        BY <2>0, <1>7
      <4>3. /\ iv[r][d] + n = iv[r][d] + i - 1 /\ nonce[r][d] + n = nonce[r][d] + i - 1
        BY <1>8, <1>9, <3>2
      <4>4. QED
        BY <1>5, <1>6, <1>7, <4>1, <4>2, <4>3
    <3>3. QED
      BY <1>8, <3>1, <3>2
  <2>3. QED
    BY <2>1, <2>2 DEF Synced
<1>12. InOrder(d)'
  <2>0. Len(got[d]) + n = sent[d]
    BY DEF InOrder, n
  <2>1. Len(got'[d]) + Len(wire'[d]) = sent'[d]
    <3>1. n \in Nat /\ Len(wire'[d]) = n + 1
      BY <1>8
    <3>2. sent[d] + 1 = Len(got[d]) + (n + 1)
      BY <2>0, <1>10, <3>1, OneMore, Zenon
    <3>3. QED
      BY <1>6, <3>1, <3>2, Zenon
  <2>2. ASSUME NEW i \in 1..Len(wire'[d])
        PROVE  wire'[d][i].id = Len(got'[d]) + i
    <3>1. CASE i \in 1..n
      BY <1>6, <1>8, <3>1 DEF InOrder, n
    <3>2. CASE i = n + 1
      <4>1. wire'[d][i] = m /\ n \in Nat
        BY <1>8, <3>2
      <4>2. sent[d] + 1 = Len(got[d]) + (n + 1)
        BY <2>0, <1>10, <4>1, OneMore, Zenon
      <4>3. QED
        BY <1>6, <1>7, <3>2, <4>1, <4>2, Zenon
    <3>3. QED
      BY <1>8, <3>1, <3>2
  <2>3. QED
    BY <1>6, <2>1, <2>2 DEF InOrder
<1>13. QED
  BY <1>11, <1>12

\* Of a direction in which nothing went wrong, Read can only take the first
\* message as it was written.
LEMMA OnlyRead ==
  ASSUME TypeOK, NEW d \in Dirs, Synced(d), wire[d] # <<>>
  PROVE  ~ReadNull(Reader(d)) /\ ~ReadThrows(Reader(d))
<1> DEFINE r == Reader(d)
           m == Head(wire[d])
<1>1. r \in Parties /\ ReadDir(r) = d
  BY Directions
<1>2. 1 \in 1..Len(wire[d]) /\ m = wire[d][1]
  BY DEF TypeOK
<1>3. /\ m.mask = iv[r][d] + 1 - 1 /\ m.nonce = nonce[r][d] + 1 - 1
      /\ m.key = Cipher(r, d) /\ m.length = m.size /\ ~IsNull(m.length)
  BY <1>2 DEF Synced
<1>4. m.mask = iv[r][d] /\ m.nonce = nonce[r][d]
  BY <1>1, <1>3 DEF TypeOK
<1>5. LengthRead(r, m) = {m.length}
  BY <1>1, <1>4 DEF LengthRead
<1>6. Opens(r, m, m.length)
  BY <1>1, <1>3, <1>4 DEF Opens
<1>7. ~ReadNull(r)
  BY <1>1, <1>3, <1>5 DEF ReadNull
<1>8. ~ReadThrows(r)
  BY <1>1, <1>5, <1>6 DEF ReadThrows
<1>9. QED
  BY <1>7, <1>8

\* A sum goes from its last term to its first.
LEMMA OneOver ==
  /\ \A b, n \in Nat : b + n = (b + 1) + (n - 1)
  /\ \A b, i \in Nat : b + (i + 1) - 1 = (b + 1) + i - 1
OBVIOUS

\* What Read takes from such a direction.
LEMMA ReadStep ==
  ASSUME TypeOK, NEW d \in Dirs, Synced(d), InOrder(d), Read(Reader(d))
  PROVE  Synced(d)' /\ InOrder(d)'
<1> DEFINE p == Writer(d)
           r == Reader(d)
           m == Head(wire[d])
           n == Len(wire[d])
           g == Len(got[d])
<1>1. /\ p \in Parties /\ r \in Parties /\ p # r /\ ReadDir(r) = d
  BY Directions
<1>2. wire[d] \in Seq(Message) /\ got[d] \in Seq(Nat) /\ wire[d] # <<>>
  BY <1>1 DEF TypeOK, Read, Take
<1>3. /\ n \in Nat /\ n # 0 /\ g \in Nat /\ m = wire[d][1] /\ m \in Message
  BY <1>2
<1>4. m.id = g + 1
  BY <1>3 DEF InOrder
<1>5. /\ wire'[d] = Tail(wire[d]) /\ got'[d] = Append(got[d], m.id)
      /\ iv'[r][d] = iv[r][d] + 1 /\ iv'[p][d] = iv[p][d]
      /\ nonce'[r][d] = nonce[r][d] + 1 /\ nonce'[p][d] = nonce[p][d]
      /\ sent'[d] = sent[d]
  BY <1>1 DEF Read, Take, Advance, TypeOK
<1>6. /\ Len(wire'[d]) = n - 1
      /\ \A i \in 1..(n - 1) : wire'[d][i] = wire[d][i + 1]
  BY <1>2, <1>5, HeadTailProperties
<1>7. /\ Len(got'[d]) = g + 1 /\ got'[d][g + 1] = m.id
      /\ \A i \in 1..g : got'[d][i] = got[d][i]
  <2>1. m.id \in Nat
    BY <1>3 DEF Message
  <2>2. QED
    BY <1>2, <1>5, <2>1, AppendProperties
<1>8. iv[p][d] \in Nat /\ iv[r][d] \in Nat /\ nonce[p][d] \in Nat /\ nonce[r][d] \in Nat
  BY <1>1 DEF TypeOK
<1>9. Synced(d)'
  <2>1. iv[p][d] = iv[r][d] + n /\ nonce[p][d] = nonce[r][d] + n
    BY DEF Synced
  <2>2. \A i \in 1..n : /\ wire[d][i].mask = iv[r][d] + i - 1
                         /\ wire[d][i].nonce = nonce[r][d] + i - 1
                         /\ wire[d][i].key = Cipher(r, d)
                         /\ wire[d][i].length = wire[d][i].size
                         /\ ~IsNull(wire[d][i].length)
    BY DEF Synced
  <2> HIDE DEF m, n, g
  <2>3. iv'[p][d] = iv'[r][d] + Len(wire'[d])
    <3>1. iv[r][d] + n = (iv[r][d] + 1) + (n - 1)
      BY <1>3, <1>8, OneOver, Zenon
    <3>2. iv'[r][d] + Len(wire'[d]) = (iv[r][d] + 1) + (n - 1)
      BY <1>5, <1>6, Zenon
    <3>3. QED
      BY <1>5, <2>1, <3>1, <3>2, Zenon
  <2>4. nonce'[p][d] = nonce'[r][d] + Len(wire'[d])
    <3>1. nonce[r][d] + n = (nonce[r][d] + 1) + (n - 1)
      BY <1>3, <1>8, OneOver, Zenon
    <3>2. nonce'[r][d] + Len(wire'[d]) = (nonce[r][d] + 1) + (n - 1)
      BY <1>5, <1>6, Zenon
    <3>3. QED
      BY <1>5, <2>1, <3>1, <3>2, Zenon
  <2>5. ASSUME NEW i \in 1..(n - 1)
        PROVE  /\ wire'[d][i].mask = iv'[r][d] + i - 1
               /\ wire'[d][i].nonce = nonce'[r][d] + i - 1
               /\ wire'[d][i].key = Cipher(r, d)
               /\ wire'[d][i].length = wire'[d][i].size
               /\ ~IsNull(wire'[d][i].length)
    <3>1. i \in Nat /\ i + 1 \in 1..n /\ wire'[d][i] = wire[d][i + 1]
      BY <1>3, <1>6
    <3>2. /\ wire[d][i + 1].mask = (iv[r][d] + 1) + i - 1
          /\ wire[d][i + 1].nonce = (nonce[r][d] + 1) + i - 1
      BY <1>8, <2>2, <3>1, OneOver, Zenon
    <3>3. /\ wire[d][i + 1].key = Cipher(r, d)
          /\ wire[d][i + 1].length = wire[d][i + 1].size
          /\ ~IsNull(wire[d][i + 1].length)
      BY <2>2, <3>1
    <3>4. QED
      BY <1>5, <3>1, <3>2, <3>3, Zenon
  <2>6. QED
    BY <1>6, <2>3, <2>4, <2>5 DEF Synced
<1>10. InOrder(d)'
  <2>1. /\ g + n = sent[d]
        /\ \A i \in 1..g : got[d][i] = i
        /\ \A i \in 1..n : wire[d][i].id = g + i
    BY DEF InOrder
  <2> HIDE DEF m, n, g
  <2>2. Len(got'[d]) + Len(wire'[d]) = sent'[d]
    BY <1>3, <1>5, <1>6, <1>7, <2>1, OneOver, Zenon
  <2>3. \A i \in 1..Len(got'[d]) : got'[d][i] = i
    BY <1>3, <1>4, <1>7, <2>1
  <2>4. ASSUME NEW i \in 1..Len(wire'[d])
        PROVE  wire'[d][i].id = Len(got'[d]) + i
    <3>1. i \in 1..(n - 1) /\ i + 1 \in 1..n /\ wire'[d][i] = wire[d][i + 1]
      BY <1>3, <1>6
    <3>2. wire[d][i + 1].id = g + (i + 1)
      BY <2>1, <3>1
    <3>3. QED
      BY <1>3, <1>7, <3>1, <3>2
  <2>5. QED
    BY <2>2, <2>3, <2>4 DEF InOrder
<1>11. QED
  BY <1>9, <1>10

-----------------------------------------------------------------------------
(* The invariant. *)

\* A direction in which nothing went wrong stays synchronized and in order.
LEMMA DirectionStep ==
  ASSUME TypeOK, InSync, Delivered, Next, NEW d \in Dirs, ~upset'[d]
  PROVE  Synced(d)' /\ InOrder(d)'
<1>1. ~upset[d] => Synced(d) /\ InOrder(d)
  BY DEF InSync, Delivered
<1>2. SUFFICES ~Unchanged(d) => Synced(d)' /\ InOrder(d)'
  <2>1. Unchanged(d) => ~upset[d]
    BY DEF Unchanged
  <2>2. QED
    BY <1>1, <2>1, UnchangedKeeps
<1>3. Writer(d) \in Parties /\ Reader(d) \in Parties
  BY Directions
<1>4. ASSUME NEW p \in Parties, NEW size \in Sizes, Write(p, size), ~Unchanged(d)
      PROVE  Synced(d)' /\ InOrder(d)'
  <2>1. p = Writer(d)
    BY <1>4, WriteElsewhere, WriterIs
  <2>2. WriteDir(p) = d
    BY <2>1, Directions
  <2>3. ~upset[d]
    BY <1>4, <2>2 DEF Write, TypeOK
  <2>4. QED
    BY <1>1, <1>4, <2>1, <2>3, WriteStep
<1>5. ASSUME NEW p \in Parties, NEW size \in Sizes,
             WriteEmpty(p, size) \/ WriteThrows(p, size), ~Unchanged(d)
      PROVE  FALSE
  <2>1. p = Writer(d) /\ WriteDir(p) = d
    BY <1>5, WriteElsewhere, WriterIs
  <2>2. CASE WriteEmpty(p, size)
    BY <1>5, <2>2 DEF WriteEmpty, counters, Unchanged
  <2>3. CASE WriteThrows(p, size)
    BY <2>1, <2>3 DEF WriteThrows, TypeOK
  <2>4. QED
    BY <1>5, <2>2, <2>3
<1>6. ASSUME NEW p \in Parties, ReadNull(p) \/ Read(p) \/ ReadThrows(p), ~Unchanged(d)
      PROVE  Synced(d)' /\ InOrder(d)'
  <2>1. p = Reader(d) /\ ReadDir(p) = d
    BY <1>6, ReadElsewhere, WriterIs
  <2>2. ~upset[d] /\ wire[d] # <<>>
    BY <1>6, <2>1 DEF ReadNull, Read, ReadThrows, Take
  <2>3. Read(Reader(d))
    BY <1>1, <1>6, <2>1, <2>2, OnlyRead
  <2>4. QED
    BY <1>1, <2>2, <2>3, ReadStep
<1>7. QED
  BY <1>4, <1>5, <1>6 DEF Next

\* What a writer has sealed with came before the nonce it is at.
NoncesSpent ==
  \A d \in Dirs, k \in Nat :
    <<Cipher(Writer(d), d), k>> \in used => k < nonce[Writer(d)][d]

\* Sealing takes a nonce, and reading takes none of the writer's.
LEMMA SpentStep ==
  ASSUME TypeOK, NoncesSpent, Next
  PROVE  NoncesSpent'
<1> SUFFICES ASSUME NEW d \in Dirs, NEW k \in Nat, <<Cipher(Writer(d), d), k>> \in used'
             PROVE  k < nonce'[Writer(d)][d]
  BY DEF NoncesSpent
<1>1. Writer(d) \in Parties /\ nonce[Writer(d)][d] \in Nat
  BY Directions DEF TypeOK
<1>2. ASSUME NEW p \in Parties, NEW size \in Sizes, Write(p, size)
      PROVE  k < nonce'[Writer(d)][d]
  <2>1. WriteDir(p) \in Dirs /\ p = Writer(WriteDir(p))
    BY Directions
  <2>2. used' = used \cup {<<Cipher(p, WriteDir(p)), nonce[p][WriteDir(p)]>>}
    BY <1>2 DEF Write
  <2>3. nonce' = [nonce EXCEPT ![p][WriteDir(p)] = @ + 1]
    BY <1>2 DEF Write
  <2>4. nonce'[Writer(d)][d] \in Nat /\ nonce'[Writer(d)][d] >= nonce[Writer(d)][d]
    <3>1. nonce[p][WriteDir(p)] \in Nat
      BY <2>1 DEF TypeOK
    <3>2. CASE d = WriteDir(p)
      <4>1. Writer(d) = p /\ nonce'[p][d] = nonce[p][d] + 1
        BY <2>1, <2>3, <3>2 DEF TypeOK
      <4>2. QED
        BY <3>1, <3>2, <4>1
    <3>3. CASE d # WriteDir(p)
      <4>1. nonce'[Writer(d)][d] = nonce[Writer(d)][d]
        BY <1>1, <2>1, <2>3, <3>3 DEF TypeOK
      <4>2. QED
        BY <1>1, <4>1
    <3>4. QED
      BY <3>2, <3>3
  <2>5. CASE <<Cipher(Writer(d), d), k>> \in used
    <3>1. k < nonce[Writer(d)][d]
      BY <2>5 DEF NoncesSpent
    <3>2. QED
      BY <1>1, <2>4, <3>1
  <2>6. CASE <<Cipher(Writer(d), d), k>> = <<Cipher(p, WriteDir(p)), nonce[p][WriteDir(p)]>>
    <3>1. Cipher(Writer(d), d) = Cipher(Writer(WriteDir(p)), WriteDir(p))
      BY <2>1, <2>6, Zenon
    <3>2. d = WriteDir(p)
      BY <2>1, <3>1, Directions, Zenon
    <3>3. k = nonce[p][d] /\ p = Writer(d)
      BY <2>1, <2>6, <3>2, Zenon
    <3>4. nonce'[p][d] = nonce[p][d] + 1
      BY <2>1, <2>3, <3>2 DEF TypeOK
    <3>5. QED
      BY <3>3, <3>4
  <2>7. QED
    BY <2>2, <2>5, <2>6, Zenon
<1>3. ASSUME NEW p \in Parties, NEW size \in Sizes,
             WriteEmpty(p, size) \/ WriteThrows(p, size)
      PROVE  k < nonce'[Writer(d)][d]
  <2>1. nonce' = nonce /\ used' = used
    BY <1>3 DEF WriteEmpty, WriteThrows, counters
  <2>2. QED
    BY <2>1 DEF NoncesSpent
<1>4. ASSUME NEW p \in Parties, ReadNull(p) \/ Read(p) \/ ReadThrows(p)
      PROVE  k < nonce'[Writer(d)][d]
  <2>1. used' = used
    BY <1>4 DEF ReadNull, Read, ReadThrows
  <2>2. nonce'[Writer(d)][d] = nonce[Writer(d)][d]
    <3>1. CASE d = ReadDir(p)
      <4>1. ReadDir(p) \in Dirs /\ p = Reader(d) /\ p # Writer(d)
        BY <3>1, Directions
      <4>2. CASE ReadNull(p)
        BY <4>2 DEF ReadNull
      <4>3. CASE Read(p)
        BY <1>1, <4>1, <4>3 DEF Read, TypeOK
      <4>4. CASE ReadThrows(p)
        <5>1. PICK j \in 0..1 : nonce' = [nonce EXCEPT ![p][ReadDir(p)] = @ + j]
          BY <4>4 DEF ReadThrows
        <5>2. QED
          BY <1>1, <4>1, <5>1 DEF TypeOK
      <4>5. QED
        BY <1>4, <4>2, <4>3, <4>4
    <3>2. CASE d # ReadDir(p)
      BY <1>4, <3>2, ReadElsewhere DEF Unchanged
    <3>3. QED
      BY <3>1, <3>2
  <2>3. QED
    BY <2>1, <2>2 DEF NoncesSpent
<1>5. QED
  BY <1>2, <1>3, <1>4 DEF Next

IndInv == TypeOK /\ InSync /\ Delivered /\ NoncesSpent

\* The conjunction is inductive.
THEOREM Invariant == Spec => []IndInv
<1>1. Init => IndInv
  <2> SUFFICES ASSUME Init PROVE IndInv
    OBVIOUS
  <2>1. TypeOK
    BY DataPhaseAssumption DEF Init, TypeOK
  <2>2. ASSUME NEW d \in Dirs
        PROVE  Synced(d) /\ InOrder(d)
    <3>1. Writer(d) \in Parties /\ Reader(d) \in Parties
      BY Directions
    <3>2. /\ iv[Writer(d)][d] = 0 /\ iv[Reader(d)][d] = 0
          /\ nonce[Writer(d)][d] = 0 /\ nonce[Reader(d)][d] = 0
          /\ wire[d] = <<>> /\ got[d] = <<>> /\ sent[d] = 0
      BY <3>1 DEF Init
    <3>3. QED
      BY <3>2 DEF Synced, InOrder
  <2>3. NoncesSpent
    BY DEF Init, NoncesSpent
  <2>4. QED
    BY <2>1, <2>2, <2>3 DEF IndInv, InSync, Delivered
<1>2. IndInv /\ [Next]_vars => IndInv'
  <2> SUFFICES ASSUME IndInv, [Next]_vars PROVE IndInv'
    OBVIOUS
  <2>1. CASE Next
    <3>1. TypeOK'
      BY <2>1, WriteType, ReadType DEF Next, IndInv
    <3>2. InSync' /\ Delivered'
      BY <2>1, DirectionStep DEF IndInv, InSync, Delivered
    <3>3. NoncesSpent'
      BY <2>1, SpentStep DEF IndInv
    <3>4. QED
      BY <3>1, <3>2, <3>3 DEF IndInv
  <2>2. CASE UNCHANGED vars
    BY <2>2 DEF vars, counters, IndInv, TypeOK, InSync, Delivered, Synced, InOrder, NoncesSpent
  <2>3. QED
    BY <2>1, <2>2
<1>3. QED
  BY <1>1, <1>2, PTL DEF Spec

\* Every variable keeps its type.
THEOREM TypeCorrect == Spec => []TypeOK
<1>1. IndInv => TypeOK
  BY DEF IndInv
<1>2. QED
  BY <1>1, Invariant, PTL

\* The two ends of a direction keep to the same masks and nonces until one of its
\* Writes throws, however many messages there are (data_phase.h:207-275).
THEOREM StaysInSync == Spec => []InSync
<1>1. IndInv => InSync
  BY DEF IndInv
<1>2. QED
  BY <1>1, Invariant, PTL

\* Until then every message is returned once and in order (data_phase.h:243-275).
THEOREM AllDelivered == Spec => []Delivered
<1>1. IndInv => Delivered
  BY DEF IndInv
<1>2. QED
  BY <1>1, Invariant, PTL

\* No key and nonce seal two messages, whatever is thrown (data_phase.h:231-236).
THEOREM NoncesFresh == Spec => NonceFresh
<1>1. IndInv /\ [Next]_vars =>
        [\A p \in Parties : sent'[WriteDir(p)] # sent[WriteDir(p)]
           => <<Cipher(p, WriteDir(p)), nonce[p][WriteDir(p)]>> \notin used]_vars
  <2> SUFFICES ASSUME IndInv, NEW p \in Parties
               PROVE  <<Cipher(p, WriteDir(p)), nonce[p][WriteDir(p)]>> \notin used
    OBVIOUS
  <2>1. WriteDir(p) \in Dirs /\ Writer(WriteDir(p)) = p
    BY Directions
  <2>2. nonce[p][WriteDir(p)] \in Nat
    BY <2>1 DEF IndInv, TypeOK
  <2>3. ~(nonce[p][WriteDir(p)] < nonce[p][WriteDir(p)])
    BY <2>2
  <2>4. QED
    BY <2>1, <2>2, <2>3, Zenon DEF IndInv, NoncesSpent
<1>2. QED
  BY <1>1, Invariant, PTL DEF Spec, NonceFresh

-----------------------------------------------------------------------------
(* The data phase keeps the promise of Channel. *)

\* The numbers of a queue, when something is appended to it or taken from it.
LEMMA IdsOf ==
  ASSUME NEW q \in Seq(Message)
  PROVE  /\ Ids(q) \in Seq(Nat) /\ Len(Ids(q)) = Len(q)
         /\ \A i \in 1..Len(q) : Ids(q)[i] = q[i].id
<1>1. ASSUME NEW i \in 1..Len(q)
      PROVE  q[i].id \in Nat
  <2>1. q[i] \in Message
    OBVIOUS
  <2>2. QED
    BY <2>1 DEF Message
<1>2. Len(q) \in Nat
  OBVIOUS
<1>3. QED
  BY <1>1, <1>2 DEF Ids

LEMMA IdsAppend ==
  ASSUME NEW q \in Seq(Message), NEW m \in Message
  PROVE  Ids(Append(q, m)) = Append(Ids(q), m.id)
<1>1. PICK r \in Seq(Message) : r = Append(q, m)
  <2>1. Append(q, m) \in Seq(Message)
    BY AppendProperties
  <2>2. QED
    BY <2>1
<1>2. /\ Len(q) \in Nat /\ Len(r) = Len(q) + 1 /\ r[Len(q) + 1] = m
      /\ \A i \in 1..Len(q) : r[i] = q[i]
  BY <1>1, AppendProperties
<1>3. /\ Ids(q) \in Seq(Nat) /\ Len(Ids(q)) = Len(q) /\ \A i \in 1..Len(q) : Ids(q)[i] = q[i].id
  BY IdsOf
<1>4. /\ Ids(r) \in Seq(Nat) /\ Len(Ids(r)) = Len(r) /\ \A i \in 1..Len(r) : Ids(r)[i] = r[i].id
  BY IdsOf
<1>5. m.id \in Nat
  BY DEF Message
<1>6. PICK n \in Nat : n = m.id
  BY <1>5
<1>7. PICK t \in Seq(Nat) : t = Append(Ids(q), n)
  <2>1. Append(Ids(q), n) \in Seq(Nat)
    BY <1>3, AppendProperties
  <2>2. QED
    BY <2>1
<1>8. /\ Len(t) = Len(q) + 1 /\ t[Len(q) + 1] = n
      /\ \A i \in 1..Len(q) : t[i] = Ids(q)[i]
  BY <1>3, <1>7, AppendProperties
<1>9. ASSUME NEW i \in 1..Len(Ids(r))
      PROVE  Ids(r)[i] = t[i]
  <2>1. i \in 1..Len(r) /\ (i \in 1..Len(q) \/ i = Len(q) + 1)
    BY <1>2, <1>4
  <2>2. Ids(r)[i] = r[i].id
    BY <1>4, <2>1
  <2>3. CASE i \in 1..Len(q)
    BY <1>2, <1>3, <1>8, <2>2, <2>3
  <2>4. CASE i = Len(q) + 1
    BY <1>2, <1>6, <1>8, <2>2, <2>4
  <2>5. QED
    BY <2>1, <2>3, <2>4
<1>10. Ids(r) = t
  BY <1>2, <1>4, <1>8, <1>9, SeqEqual
<1>11. QED
  BY <1>1, <1>6, <1>7, <1>10

LEMMA IdsTail ==
  ASSUME NEW q \in Seq(Message), q # <<>>
  PROVE  Ids(q) # <<>> /\ Head(Ids(q)) = Head(q).id /\ Ids(Tail(q)) = Tail(Ids(q))
<1>1. PICK r \in Seq(Message) : r = Tail(q)
  <2>1. Tail(q) \in Seq(Message)
    BY HeadTailProperties
  <2>2. QED
    BY <2>1
<1>2. /\ Len(q) \in Nat /\ Len(q) # 0 /\ Head(q) = q[1] /\ Len(r) = Len(q) - 1
      /\ \A i \in 1..Len(r) : r[i] = q[i + 1]
  BY <1>1, HeadTailProperties
<1>3. /\ Ids(q) \in Seq(Nat) /\ Len(Ids(q)) = Len(q) /\ \A i \in 1..Len(q) : Ids(q)[i] = q[i].id
  BY IdsOf
<1>4. /\ Ids(r) \in Seq(Nat) /\ Len(Ids(r)) = Len(r) /\ \A i \in 1..Len(r) : Ids(r)[i] = r[i].id
  BY IdsOf
<1>5. Ids(q) # <<>> /\ Head(Ids(q)) = Head(q).id
  BY <1>2, <1>3
<1>6. PICK t \in Seq(Nat) : t = Tail(Ids(q))
  <2>1. Tail(Ids(q)) \in Seq(Nat)
    BY <1>3, <1>5, HeadTailProperties
  <2>2. QED
    BY <2>1
<1>7. Len(t) = Len(q) - 1 /\ \A i \in 1..Len(t) : t[i] = Ids(q)[i + 1]
  BY <1>3, <1>5, <1>6, HeadTailProperties
<1>8. ASSUME NEW i \in 1..Len(Ids(r))
      PROVE  Ids(r)[i] = t[i]
  <2>1. i \in 1..Len(r) /\ i \in 1..Len(t) /\ i + 1 \in 1..Len(q)
    BY <1>2, <1>4, <1>7
  <2>2. Ids(r)[i] = q[i + 1].id
    BY <1>2, <1>4, <2>1
  <2>3. t[i] = q[i + 1].id
    BY <1>3, <1>7, <2>1
  <2>4. QED
    BY <2>2, <2>3
<1>9. Ids(r) = t
  BY <1>2, <1>4, <1>7, <1>8, SeqEqual
<1>10. QED
  BY <1>1, <1>5, <1>6, <1>9

\* The queues of Channel.
Queue == [d \in Dirs |-> Ids(wire[d])]

\* A message is taken off one of them.
LEMMA TakeDrops ==
  ASSUME TypeOK, NEW d \in Dirs, Take(d)
  PROVE  C!Drop(d) /\ Head(Queue[d]) = Head(wire[d]).id
<1>1. wire \in [Dirs -> Seq(Message)] /\ wire[d] # <<>> /\ wire' = [wire EXCEPT ![d] = Tail(@)]
  BY DEF TypeOK, Take
<1>2. /\ Ids(wire[d]) # <<>> /\ Head(Ids(wire[d])) = Head(wire[d]).id
      /\ Ids(Tail(wire[d])) = Tail(Ids(wire[d]))
  BY <1>1, IdsTail
<1>3. Queue' = [Queue EXCEPT ![d] = Tail(@)]
  BY <1>1, <1>2 DEF Queue
<1>4. QED
  BY <1>2, <1>3 DEF C!Drop, Queue

LEMMA WriteIsPut ==
  ASSUME TypeOK, NEW p \in Parties, NEW size \in Sizes, Write(p, size)
  PROVE  C!Put(WriteDir(p))
<1> DEFINE d == WriteDir(p)
           m == Made(p, size)
<1>1. d \in Dirs
  BY Directions
<1>2. m \in Message /\ m.id = sent[d] + 1
  <2>1. Accepted(size)
    BY DEF Write
  <2>2. QED
    BY <2>1, MadeType DEF Made
<1>3. wire' = [wire EXCEPT ![d] = Append(@, m)] /\ sent' = [sent EXCEPT ![d] = @ + 1] /\ got' = got
      /\ upset' = [upset EXCEPT ![d] = @ \/ size > MaxRead]
  BY DEF Write, Made
<1> HIDE DEF m, d
<1>4. wire \in [Dirs -> Seq(Message)] /\ sent \in [Dirs -> Nat] /\ upset \in [Dirs -> BOOLEAN]
  BY DEF TypeOK
<1>5. Ids(Append(wire[d], m)) = Append(Ids(wire[d]), sent'[d])
  <2>1. sent'[d] = m.id
    BY <1>1, <1>2, <1>3, <1>4
  <2>2. wire[d] \in Seq(Message)
    BY <1>1, <1>4
  <2>3. QED
    BY <1>2, <2>1, <2>2, IdsAppend
<1>6. Queue' = [Queue EXCEPT ![d] = Append(@, sent'[d])]
  BY <1>1, <1>3, <1>4, <1>5 DEF Queue
<1>7. upset' \in {upset, [upset EXCEPT ![d] = TRUE]}
  <2>1. CASE size > MaxRead
    BY <1>1, <1>3, <1>4, <2>1
  <2>2. CASE ~(size > MaxRead)
    BY <1>1, <1>3, <1>4, <2>2
  <2>3. QED
    BY <2>1, <2>2
<1>8. QED
  BY <1>3, <1>6, <1>7 DEF C!Put, Queue, d

\* A step of the data phase is a step of Channel, or changes nothing it sees.
LEMMA ChannelStep ==
  ASSUME IndInv, [Next]_vars
  PROVE  [C!Next]_(C!vars)
<1> TypeOK /\ InSync
  BY DEF IndInv
<1> USE DEF C!vars, C!Next
<1>1. ASSUME NEW p \in Parties, NEW size \in Sizes, Write(p, size)
      PROVE  C!Next
  <2>1. WriteDir(p) \in Dirs
    BY Directions
  <2>2. QED
    BY <1>1, <2>1, WriteIsPut
<1>2. ASSUME NEW p \in Parties, NEW size \in Sizes, WriteThrows(p, size)
      PROVE  C!Next
  <2>1. WriteDir(p) \in Dirs
    BY Directions
  <2>2. C!Break(WriteDir(p))
    BY <1>2 DEF WriteThrows, C!Break
  <2>3. QED
    BY <2>1, <2>2
<1>3. ASSUME NEW p \in Parties, Read(p)
      PROVE  C!Next
  <2>1. ReadDir(p) \in Dirs /\ Take(ReadDir(p))
    BY <1>3, Directions DEF Read
  <2>2. C!Drop(ReadDir(p)) /\ Head(Queue[ReadDir(p)]) = Head(wire[ReadDir(p)]).id
    BY <2>1, TakeDrops
  <2>3. /\ got' = [got EXCEPT ![ReadDir(p)] = Append(@, Head(wire[ReadDir(p)]).id)]
        /\ UNCHANGED <<sent, upset>>
    BY <1>3 DEF Read
  <2>4. C!Get(ReadDir(p))
    BY <2>2, <2>3 DEF C!Get, Queue
  <2>5. QED
    BY <2>1, <2>4
<1>4. ASSUME NEW p \in Parties, ReadNull(p) \/ ReadThrows(p)
      PROVE  C!Next
  <2>1. ReadDir(p) \in Dirs /\ Reader(ReadDir(p)) = p
    BY Directions
  <2>2. Take(ReadDir(p)) /\ UNCHANGED <<got, sent, upset>>
    BY <1>4 DEF ReadNull, ReadThrows
  <2>3. upset[ReadDir(p)]
    <3>1. ~upset[ReadDir(p)] => Synced(ReadDir(p))
      BY <2>1 DEF InSync
    <3>2. wire[ReadDir(p)] # <<>>
      BY <2>2 DEF Take
    <3>3. QED
      BY <1>4, <2>1, <3>1, <3>2, OnlyRead
  <2>4. C!Lose(ReadDir(p))
    BY <2>1, <2>2, <2>3, TakeDrops DEF C!Lose
  <2>5. QED
    BY <2>1, <2>4
<1>5. ASSUME UNCHANGED <<wire, sent, got, upset>>
      PROVE  UNCHANGED C!vars
  BY <1>5
<1>6. CASE (\E p \in Parties, size \in Sizes : WriteEmpty(p, size)) \/ UNCHANGED vars
  <2>1. UNCHANGED <<wire, sent, got, upset>>
    BY <1>6 DEF WriteEmpty, vars
  <2>2. QED
    BY <1>5, <2>1
<1>7. QED
  BY <1>1, <1>2, <1>3, <1>4, <1>6 DEF Next

\* The data phase implements Channel: whatever throws, Read returns messages that
\* were written, once and in order, and before anything throws it misses none.
THEOREM Implements == Spec => ImplementsChannel
<1>1. Init => C!Init
  <2> SUFFICES ASSUME Init
               PROVE  C!Init
    OBVIOUS
  <2>1. Ids(<<>>) = <<>>
    BY DEF Ids
  <2>2. \A d \in Dirs : Ids(wire[d]) = <<>>
    BY <2>1 DEF Init
  <2>3. QED
    BY <2>2 DEF Init, C!Init
<1>2. IndInv /\ [Next]_vars => [C!Next]_(C!vars)
  BY ChannelStep
<1>3. QED
  BY <1>1, <1>2, Invariant, PTL DEF Spec, ImplementsChannel, C!Spec

=============================================================================
