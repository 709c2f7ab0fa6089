----------------------------- MODULE BlocksProofs -----------------------------
(***************************************************************************)
(* Proofs about the order of blocks, about what a reader gets of them and  *)
(* about SessionConfirmed, for any blocks, contents and numbers of calls.  *)
(* Sums over blocks are a recursive function: what it computes is proved   *)
(* by an induction over sets of numbers.                                   *)
(***************************************************************************)
EXTENDS Blocks, SequenceTheorems, FiniteSetTheorems, WellFoundedInduction, TLAPS

-----------------------------------------------------------------------------
(* Order. *)

SameTypes(bs, cs) ==
  /\ Len(bs) \in Nat /\ Len(cs) = Len(bs)
  /\ \A i \in 1..Len(bs) : cs[i].type = bs[i].type

\* The order is one of types.
LEMMA OrderOfTypes ==
  ASSUME NEW bs, NEW cs, SameTypes(bs, cs)
  PROVE  Ordered(bs) <=> Ordered(cs)
BY DEF SameTypes, Ordered

\* What CheckBlockOrder lets pass is what its comment asks for.
LEMMA OrderedInFormat ==
  ASSUME NEW bs, Len(bs) \in Nat, Ordered(bs)
  PROVE  InFormat(bs)
<1> SUFFICES ASSUME NEW i \in 1..Len(bs)
             PROVE  /\ bs[i].type = "Padding" => i = Len(bs)
                    /\ bs[i].type = "Termination" =>
                         i = Len(bs) \/ (i = Len(bs) - 1 /\ bs[Len(bs)].type = "Padding")
  BY DEF InFormat
<1>1. bs[i].type = "Padding" => i = Len(bs)
  BY Len(bs) \in 1..Len(bs) DEF Ordered
<1>2. ASSUME bs[i].type = "Termination", i # Len(bs)
      PROVE  i = Len(bs) - 1 /\ bs[Len(bs)].type = "Padding"
  <2>1. i + 1 \in 1..Len(bs) /\ i < i + 1
    BY <1>2
  <2>2. bs[i + 1].type = "Padding"
    BY <1>2, <2>1 DEF Ordered
  <2>3. ~(i + 1 < Len(bs))
    BY <2>1, <2>2, Len(bs) \in 1..Len(bs) DEF Ordered
  <2>4. i + 1 = Len(bs)
    BY <2>1, <2>3
  <2>5. QED
    BY <2>2, <2>4
<1>3. QED
  BY <1>1, <1>2

\* What is appended to a list out of order does not mend it.
LEMMA AppendSpoiled ==
  ASSUME NEW S, NEW bs \in Seq(S), NEW b \in S, ~Ordered(bs)
  PROVE  ~Ordered(Append(bs, b))
<1>1. PICK i, j \in 1..Len(bs) :
        i < j /\ ~(bs[i].type # "Padding" /\ (bs[i].type = "Termination" => bs[j].type = "Padding"))
  BY DEF Ordered
<1>2. /\ i \in 1..Len(Append(bs, b)) /\ j \in 1..Len(Append(bs, b))
      /\ Append(bs, b)[i] = bs[i] /\ Append(bs, b)[j] = bs[j]
  OBVIOUS
<1>3. QED
  BY <1>1, <1>2 DEF Ordered

-----------------------------------------------------------------------------
(* Sums. *)

\* A set that has zero, and with each number the next, has all of them: the least
\* number outside would follow one inside.
LEMMA SetInduction ==
  ASSUME NEW S, 0 \in S, \A n \in Nat : n \in S => n + 1 \in S
  PROVE  Nat \subseteq S
<1> DEFINE T == Nat \ S
           R == OpToRel(<, Nat)
<1> SUFFICES ASSUME T # {}
             PROVE  FALSE
  OBVIOUS
<1>1. IsWellFoundedOn(R, Nat)
  BY NatLessThanWellFounded
<1>2. PICK x \in T : \A y \in T : ~(<<y, x>> \in R)
  <2> HIDE DEF R
  <2>1. QED
    BY <1>1, WFMin
<1>3. \A y \in T : ~(y < x)
  BY <1>2 DEF OpToRel
<1>4. x \in Nat /\ x \notin S /\ x # 0
  OBVIOUS
<1>5. x - 1 \in Nat /\ x - 1 < x
  BY <1>4
<1>6. x - 1 \in S
  BY <1>3, <1>5
<1>7. (x - 1) + 1 \in S
  BY <1>5, <1>6
<1>8. QED
  BY <1>4, <1>7

\* What the sums up to each of the first n blocks satisfy.
Sums(f, bs, n) == f = [i \in 0..n |-> IF i = 0 THEN 0 ELSE f[i - 1] + Size(bs[i])]

\* There are such sums.
LEMMA SumsExist ==
  ASSUME NEW bs
  PROVE  \A n \in Nat : \E f : Sums(f, bs, n)
<1> DEFINE S == {n \in Nat : \E f : Sums(f, bs, n)}
<1>1. 0 \in S
  <2>1. Sums([i \in 0..0 |-> 0], bs, 0)
    BY DEF Sums
  <2>2. QED
    BY <2>1
<1>2. ASSUME NEW n \in Nat, n \in S
      PROVE  n + 1 \in S
  <2>1. PICK f : Sums(f, bs, n)
    BY <1>2
  <2>2. \A i \in 0..n : f[i] = IF i = 0 THEN 0 ELSE f[i - 1] + Size(bs[i])
    BY <2>1 DEF Sums
  <2> DEFINE g == [i \in 0..(n + 1) |-> IF i <= n THEN f[i] ELSE f[n] + Size(bs[n + 1])]
  <2>3. ASSUME NEW i \in 0..(n + 1)
        PROVE  g[i] = IF i = 0 THEN 0 ELSE g[i - 1] + Size(bs[i])
    <3>1. CASE i = n + 1
      <4>1. i - 1 = n /\ n \in 0..(n + 1) /\ ~(i <= n) /\ i # 0
        BY <3>1
      <4>2. QED
        BY <3>1, <4>1
    <3>2. CASE i # n + 1
      <4>1. i \in 0..n /\ i <= n /\ (i # 0 => i - 1 \in 0..(n + 1) /\ i - 1 <= n)
        BY <3>2
      <4>2. QED
        BY <2>2, <4>1
    <3>3. QED
      BY <3>1, <3>2
  <2>4. Sums(g, bs, n + 1)
    <3>1. g = [i \in 0..(n + 1) |-> g[i]]
      OBVIOUS
    <3> HIDE DEF g
    <3>2. QED
      BY <2>3, <3>1 DEF Sums
  <2>5. QED
    BY <2>4
<1>3. Nat \subseteq S
  <2> HIDE DEF S
  <2>1. QED
    BY <1>1, <1>2, SetInduction
<1>4. QED
  BY <1>3

Sized(bs) == Len(bs) \in Nat /\ \A i \in 1..Len(bs) : Size(bs[i]) \in Nat

\* The bytes of a list are the sum of the sizes of its blocks.
LEMMA BytesAdd ==
  ASSUME NEW bs, Sized(bs)
  PROVE  /\ Bytes(bs, 0) = 0
         /\ \A n \in 1..Len(bs) : Bytes(bs, n) = Bytes(bs, n - 1) + Size(bs[n])
         /\ \A n \in 0..Len(bs) : Bytes(bs, n) \in Nat
<1> DEFINE f == CHOOSE f : Sums(f, bs, Len(bs))
<1>1. \A n : Bytes(bs, n) = f[n]
  BY DEF Bytes, Sums
<1>2. Sums(f, bs, Len(bs))
  BY SumsExist DEF Sized
<1> HIDE DEF f
<1>3. \A i \in 0..Len(bs) : f[i] = IF i = 0 THEN 0 ELSE f[i - 1] + Size(bs[i])
  BY <1>2 DEF Sums
<1>4. f[0] = 0
  BY <1>3 DEF Sized
<1>5. ASSUME NEW n \in 1..Len(bs)
      PROVE  f[n] = f[n - 1] + Size(bs[n])
  BY <1>3 DEF Sized
<1>6. \A n \in 0..Len(bs) : f[n] \in Nat
  <2> DEFINE S == {n \in Nat : n <= Len(bs) => f[n] \in Nat}
  <2>1. 0 \in S
    BY <1>4
  <2>2. ASSUME NEW n \in Nat, n \in S
        PROVE  n + 1 \in S
    <3> SUFFICES ASSUME n + 1 <= Len(bs)
                 PROVE  f[n + 1] \in Nat
      OBVIOUS
    <3>1. f[n] \in Nat /\ n + 1 \in 1..Len(bs) /\ (n + 1) - 1 = n
      BY <2>2 DEF Sized
    <3>2. f[n + 1] = f[n] + Size(bs[n + 1]) /\ Size(bs[n + 1]) \in Nat
      BY <1>5, <3>1 DEF Sized
    <3>3. QED
      BY <3>1, <3>2
  <2>3. Nat \subseteq S
    <3> HIDE DEF S
    <3>1. QED
      BY <2>1, <2>2, SetInduction
  <2>4. QED
    BY <2>3 DEF Sized
<1>7. QED
  BY <1>1, <1>4, <1>5, <1>6

\* The more blocks the more bytes.
LEMMA BytesGrow ==
  ASSUME NEW bs, Sized(bs), NEW i \in 0..Len(bs), NEW j \in i..Len(bs)
  PROVE  Bytes(bs, i) <= Bytes(bs, j)
<1> DEFINE S == {d \in Nat : i + d <= Len(bs) => Bytes(bs, i) <= Bytes(bs, i + d)}
<1>1. 0 \in S
  <2>1. i + 0 = i /\ Bytes(bs, i) \in Nat
    BY BytesAdd
  <2>2. QED
    BY <2>1
<1>2. ASSUME NEW d \in Nat, d \in S
      PROVE  d + 1 \in S
  <2> SUFFICES ASSUME i + (d + 1) <= Len(bs)
               PROVE  Bytes(bs, i) <= Bytes(bs, i + (d + 1))
    OBVIOUS
  <2> DEFINE n == i + (d + 1)
  <2>1. n \in 1..Len(bs) /\ n - 1 = i + d /\ i + d \in 0..Len(bs)
    BY DEF Sized
  <2>2. Bytes(bs, i) <= Bytes(bs, n - 1)
    BY <1>2, <2>1 DEF Sized
  <2> HIDE DEF n
  <2>3. /\ Bytes(bs, n) = Bytes(bs, n - 1) + Size(bs[n]) /\ Size(bs[n]) \in Nat
        /\ Bytes(bs, i) \in Nat /\ Bytes(bs, n - 1) \in Nat
    BY <2>1, BytesAdd DEF Sized
  <2>4. Bytes(bs, i) <= Bytes(bs, n)
    BY <2>2, <2>3
  <2>5. QED
    BY <2>4 DEF n
<1>3. Nat \subseteq S
  <2> HIDE DEF S
  <2>1. QED
    BY <1>1, <1>2, SetInduction
<1>4. Len(bs) \in Nat /\ i \in Nat /\ j \in Nat /\ i <= j /\ j <= Len(bs)
  BY DEF Sized
<1>5. j - i \in Nat /\ i + (j - i) = j
  BY <1>4
<1>6. j - i \in S
  BY <1>3, <1>5
<1>7. QED
  BY <1>4, <1>5, <1>6

-----------------------------------------------------------------------------
(* The writer's blocks. *)

Typed == blocks \in Seq(Block) /\ now \in Nat

\* The lengths as numbers; the large ones between bounds, since the provers write
\* out a range of numbers whose ends they know.
LEMMA Lengths ==
  /\ HeaderLen = 3 /\ DigestLen = 16 /\ OptionsLen = 12 /\ FloodFlagLen = 1 /\ MinInfoLen = 440
  /\ MaxInfoLen \in Nat /\ MaxInfoLen >= 65515 /\ MaxInfoLen <= 65515
  /\ BlockMaxLen \in Nat /\ BlockMaxLen >= 65516 /\ BlockMaxLen <= 65516
  /\ MaxUInt16 \in Nat /\ MaxUInt16 >= 65535 /\ MaxUInt16 <= 65535
  /\ MaxMsgLen \in Nat /\ MaxMsgLen >= 65507 /\ MaxMsgLen <= 65507
  /\ MaxPaddingLen \in Nat /\ MaxPaddingLen >= 65073 /\ MaxPaddingLen <= 65073
  /\ MinMsg3Pt2Size \in Nat /\ MinMsg3Pt2Size >= 456 /\ MinMsg3Pt2Size <= 456
  /\ MaxMsg3Pt2Size \in Nat /\ MaxMsg3Pt2Size >= 65471 /\ MaxMsg3Pt2Size <= 65471
BY DEF HeaderLen, DigestLen, OptionsLen, FloodFlagLen, MinInfoLen, MaxInfoLen, BlockMaxLen, MaxUInt16,
   MaxMsgLen, MaxPaddingLen, MinMsg3Pt2Size, MaxMsg3Pt2Size

LEMMA Remainder ==
  ASSUME NEW n \in Nat, NEW d \in Nat \ {0}
  PROVE  n % d \in 0..(d - 1)
OBVIOUS

LEMMA SixteenBits ==
  ASSUME NEW n \in Nat
  PROVE  UInt16(n) \in 0..MaxUInt16
<1>1. MaxUInt16 + 1 \in Nat \ {0} /\ (MaxUInt16 + 1) - 1 = MaxUInt16
  BY Lengths
<1>2. QED
  BY <1>1, Remainder DEF UInt16

LEMMA SmallRemainder ==
  ASSUME NEW d \in Nat \ {0}, NEW n \in 0..(d - 1)
  PROVE  n % d = n
OBVIOUS

LEMMA FitsSixteenBits ==
  ASSUME NEW n \in 0..MaxUInt16
  PROVE  UInt16(n) = n
<1>1. MaxUInt16 + 1 \in Nat \ {0} /\ (MaxUInt16 + 1) - 1 = MaxUInt16
  BY Lengths
<1>2. QED
  BY <1>1, SmallRemainder DEF UInt16

\* Serializing changes sizes and nothing else.
LEMMA SerializedTypes ==
  ASSUME Typed, NEW n
  PROVE  Serialized(n) \in Seq(Block) /\ SameTypes(blocks, Serialized(n))
<1>1. Len(blocks) \in Nat /\ \A i \in 1..Len(blocks) : blocks[i] \in Block
  BY DEF Typed
<1>2. ASSUME NEW i \in 1..Len(blocks)
      PROVE  Serialized(n)[i] \in Block /\ Serialized(n)[i].type = blocks[i].type
  <2>1. UInt16(blocks[i].held) \in 0..MaxUInt16
    BY <1>1, SixteenBits DEF Block
  <2>2. /\ [blocks[i] EXCEPT !.size = UInt16(blocks[i].held)] \in Block
        /\ [blocks[i] EXCEPT !.size = UInt16(blocks[i].held)].type = blocks[i].type
    BY <1>1, <2>1 DEF Block
  <2>3. Serialized(n)[i] \in {[blocks[i] EXCEPT !.size = UInt16(blocks[i].held)], blocks[i]}
    BY DEF Serialized
  <2>4. QED
    BY <1>1, <2>2, <2>3
<1>3. Serialized(n) \in [1..Len(blocks) -> Block]
  BY <1>2 DEF Serialized
<1>4. Serialized(n) \in Seq(Block) /\ Len(Serialized(n)) = Len(blocks)
  BY <1>1, <1>3
<1>5. QED
  BY <1>1, <1>2, <1>4 DEF SameTypes

\* So does a caller that resizes the contents of a block.
LEMMA ResizedTypes ==
  ASSUME Typed, NEW i \in 1..Len(blocks), NEW n \in Resizes[blocks[i].type],
         Resize(i, n) \/ ResizeMessage(i, n)
  PROVE  blocks' \in Seq(Block) /\ SameTypes(blocks, blocks')
<1>1. blocks \in Seq(Block) /\ blocks[i] \in Block /\ blocks[i].type \in Types
  <2>1. blocks \in Seq(Block) /\ blocks[i] \in Block
    BY DEF Typed
  <2>2. QED
    BY <2>1 DEF Block
<1>2. n \in Nat
  BY <1>1, BlocksAssumption
<1>3. CASE Resize(i, n)
  <2>1. /\ [blocks[i] EXCEPT !.held = n] \in Block
        /\ [blocks[i] EXCEPT !.held = n].type = blocks[i].type
    BY <1>1, <1>2 DEF Block
  <2>2. blocks' = [blocks EXCEPT ![i] = [blocks[i] EXCEPT !.held = n]]
    BY <1>3 DEF Resize
  <2>3. QED
    BY <1>1, <2>1, <2>2 DEF SameTypes
<1>4. CASE ResizeMessage(i, n)
  <2> DEFINE b == [[blocks[i] EXCEPT !.held = n] EXCEPT !.size = UInt16(n)]
  <2>1. b \in Block /\ b.type = blocks[i].type
    BY <1>1, <1>2, SixteenBits DEF Block
  <2>2. blocks' = [blocks EXCEPT ![i] = b]
    BY <1>1, <1>4 DEF ResizeMessage
  <2>3. QED
    BY <1>1, <2>1, <2>2 DEF SameTypes
<1>5. QED
  BY <1>3, <1>4

\* A block that a caller makes is one.
LEMMA MadeBlock ==
  ASSUME Typed, NEW o \in Offers
  PROVE  Made(o) \in Block
<1>1. o.type \in Types /\ o.size \in 0..MaxUInt16 /\ o.held \in Nat
  BY BlocksAssumption
<1>2. \A t \in DOMAIN Lives : Lives[t] \in Nat
  BY DEF Lives
<1>3. QED
  BY <1>1, <1>2 DEF Made, Block, Typed

LEMMA TypedStep ==
  ASSUME Typed, [Next]_vars
  PROVE  Typed'
<1>1. CASE \E o \in Offers : AddBlock(o)
  BY <1>1, MadeBlock DEF AddBlock, Typed
<1>2. CASE \E i \in 1..Len(blocks) : \E n \in Resizes[blocks[i].type] : Resize(i, n) \/ ResizeMessage(i, n)
  BY <1>2, ResizedTypes DEF Resize, ResizeMessage, Typed
<1>3. CASE ClearBlocks
  BY <1>3 DEF ClearBlocks, Typed
<1>4. CASE Write \/ WriteLong
  BY <1>4, SerializedTypes DEF Write, WriteLong, Typed
<1>5. CASE WriteThrows
  BY <1>5, SerializedTypes DEF WriteThrows, Typed
<1>6. CASE Read \/ ReadThrows \/ Confirm \/ ReadConfirmed \/ UNCHANGED vars
  BY <1>6 DEF Read, ReadThrows, Confirm, ReadConfirmed, vars, dataVars, Typed
<1>7. CASE \E d \in Delays : Tick(d)
  BY <1>7, BlocksAssumption DEF Tick, dataVars, Typed
<1>8. QED
  BY <1>1, <1>2, <1>3, <1>4, <1>5, <1>6, <1>7 DEF Next

-----------------------------------------------------------------------------
(* The message on its way, and the reader's. *)

\* A message as Write leaves it: its blocks are in order and of sizes that they
\* may have, and it has no room left over unless some size was behind.
Sound(m) ==
  /\ Ordered(m.blocks)
  /\ \A i \in 1..Len(m.blocks) : m.blocks[i].size \in SizeRange(m.blocks[i].type)
  /\ ~m.stale => m.spare = 0

ReadBlock == [type : Types, size : 0..MaxUInt16, whole : BOOLEAN]

\* The sizes of any blocks add up.
LEMMA BlocksSized ==
  ASSUME NEW bs \in Seq(Block)
  PROVE  Sized(bs) /\ TotalSize(bs) \in Nat
<1>1. ASSUME NEW i \in 1..Len(bs)
      PROVE  Size(bs[i]) \in Nat
  <2>1. bs[i] \in Block
    OBVIOUS
  <2>2. HeaderLen + bs[i].size \in Nat
    BY <2>1 DEF Block, HeaderLen
  <2>3. QED
    BY <2>2, SixteenBits DEF Size
<1>2. Sized(bs)
  BY <1>1 DEF Sized
<1>3. QED
  BY <1>2, BytesAdd DEF TotalSize, Sized

\* No block that may be written is so large that its header overflows its size.
LEMMA SizesFit ==
  ASSUME NEW type \in Types, NEW n \in SizeRange(type)
  PROVE  n \in Nat /\ UInt16(HeaderLen + n) = HeaderLen + n
<1>1. n \in Nat /\ n <= FloodFlagLen + BlockMaxLen
  <2>1. CASE type = "DateTime"
    BY <2>1, Lengths DEF SizeRange
  <2>2. CASE type = "Options"
    BY <2>2, Lengths DEF SizeRange
  <2>3. CASE type = "Info"
    BY <2>3, Lengths DEF SizeRange
  <2>4. CASE type = "I2NP"
    BY <2>4, Lengths DEF SizeRange
  <2>5. CASE type = "Termination"
    BY <2>5, Lengths DEF SizeRange
  <2>6. CASE type = "Padding"
    BY <2>6, Lengths DEF SizeRange
  <2>7. QED
    BY <2>1, <2>2, <2>3, <2>4, <2>5, <2>6 DEF Types
<1>2. HeaderLen + n \in 0..MaxUInt16
  BY <1>1, Lengths
<1>3. QED
  BY <1>1, <1>2, FitsSixteenBits

LEMMA ReachedFinite ==
  ASSUME NEW m \in Msg
  PROVE  /\ Reached(m) \subseteq 1..Len(m.blocks)
         /\ Cardinality(Reached(m)) \in 0..Len(m.blocks)
<1>1. Len(m.blocks) \in Nat
  BY DEF Msg
<1>2. Reached(m) \subseteq 1..Len(m.blocks)
  BY DEF Reached
<1>3. IsFiniteSet(1..Len(m.blocks)) /\ Cardinality(1..Len(m.blocks)) = Len(m.blocks)
  BY <1>1, FS_Interval
<1>4. Cardinality(Reached(m)) \in Nat /\ Cardinality(Reached(m)) <= Len(m.blocks)
  BY <1>2, <1>3, FS_Subset, FS_CardinalityType
<1>5. QED
  BY <1>1, <1>2, <1>4

\* What a reader makes of a message are blocks.
LEMMA FoundBlocks ==
  ASSUME NEW m \in Msg
  PROVE  Found(m) \in Seq(ReadBlock)
<1> DEFINE n == Cardinality(Reached(m))
<1>1. n \in Nat /\ n <= Len(m.blocks) /\ m.blocks \in Seq(Block)
  BY ReachedFinite DEF Msg
<1>2. ASSUME NEW i \in 1..n
      PROVE  [type |-> m.blocks[i].type, size |-> m.blocks[i].size, whole |-> Whole(m, i)] \in ReadBlock
  <2>1. m.blocks[i] \in Block
    BY <1>1
  <2>2. Whole(m, i) \in BOOLEAN
    BY DEF Whole
  <2>3. QED
    BY <2>1, <2>2 DEF Block, ReadBlock
<1> HIDE DEF n
<1>3. Found(m) \in [1..n -> ReadBlock]
  BY <1>2 DEF Found, n
<1>4. QED
  BY <1>1, <1>3

\* So is what it makes of room that nothing was written to.
LEMMA TailBlocks ==
  ASSUME NEW m \in Msg, NEW tail \in Tails(m)
  PROVE  tail \in Seq(ReadBlock)
<1>1. \A t \in Types : Phantom(t) \in ReadBlock
  BY Lengths DEF Phantom, ReadBlock
<1>2. CASE tail = <<>>
  BY <1>2
<1>3. CASE tail # <<>>
  <2> DEFINE sure == IF m.zeros /\ m.spare \div HeaderLen \in 1..MaxRead
                     THEN m.spare \div HeaderLen ELSE 0
             P == {Phantom(t) : t \in Types}
  <2>1. sure \in Nat
    <3>1. MaxRead \in Nat
      BY DEF MaxRead
    <3>2. QED
      BY <3>1
  <2> HIDE DEF sure
  <2>2. PICK k \in 0..MaxGarbage :
          \E q \in [1..k -> P] : tail = [i \in 1..sure |-> Phantom("DateTime")] \o q
    BY <1>3 DEF Tails, sure
  <2>3. PICK q \in Seq(ReadBlock) : tail = [i \in 1..sure |-> Phantom("DateTime")] \o q
    <3>1. k \in Nat /\ P \subseteq ReadBlock
      BY <1>1, BlocksAssumption
    <3> HIDE DEF P
    <3>2. [1..k -> P] \subseteq Seq(ReadBlock)
      BY <3>1
    <3>3. QED
      BY <2>2, <3>2
  <2>4. [i \in 1..sure |-> Phantom("DateTime")] \in Seq(ReadBlock)
    BY <1>1, <2>1 DEF Types
  <2>5. QED
    BY <2>3, <2>4
<1>4. QED
  BY <1>2, <1>3

Sent(m) ==
  [i \in 1..Len(m.blocks) |->
     [type |-> m.blocks[i].type, size |-> m.blocks[i].size, whole |-> TRUE]]

\* Of a message without room left over a reader reaches every block and the end
\* of each, and finds nothing else.
LEMMA AllFound ==
  ASSUME NEW m \in Msg, Sound(m), ~m.stale
  PROVE  /\ Reached(m) = 1..Len(m.blocks)
         /\ Found(m) = Sent(m)
         /\ Tails(m) = {<<>>}
         /\ ~Garbled(m)
<1>1. m.blocks \in Seq(Block) /\ Len(m.blocks) \in Nat /\ m.spare = 0
  BY DEF Msg, Sound
<1>2. Sized(m.blocks) /\ TotalSize(m.blocks) \in Nat
  BY <1>1, BlocksSized
<1>3. ASSUME NEW i \in 1..Len(m.blocks)
      PROVE  Bytes(m.blocks, i - 1) < TotalSize(m.blocks) /\ Bytes(m.blocks, i) <= TotalSize(m.blocks)
  <2>1. m.blocks[i] \in Block /\ m.blocks[i].size \in SizeRange(m.blocks[i].type)
    BY <1>1 DEF Sound
  <2>2. Size(m.blocks[i]) \in Nat \ {0}
    <3>1. m.blocks[i].type \in Types
      BY <2>1 DEF Block
    <3>2. Size(m.blocks[i]) = HeaderLen + m.blocks[i].size /\ m.blocks[i].size \in Nat
      BY <2>1, <3>1, SizesFit DEF Size
    <3>3. QED
      BY <3>2 DEF HeaderLen
  <2>3. /\ Bytes(m.blocks, i) = Bytes(m.blocks, i - 1) + Size(m.blocks[i])
        /\ Bytes(m.blocks, i) \in Nat /\ Bytes(m.blocks, i - 1) \in Nat
    BY <1>1, <1>2, BytesAdd
  <2>4. Bytes(m.blocks, i) <= TotalSize(m.blocks)
    BY <1>1, <1>2, BytesGrow DEF TotalSize
  <2>5. QED
    BY <1>2, <2>2, <2>3, <2>4
<1>4. Reached(m) = 1..Len(m.blocks)
  BY <1>1, <1>2, <1>3 DEF Reached
<1>5. Cardinality(Reached(m)) = Len(m.blocks)
  BY <1>1, <1>4, FS_Interval
<1>6. \A i \in 1..Len(m.blocks) : Whole(m, i) = TRUE
  BY <1>1, <1>2, <1>3 DEF Whole
<1>7. Found(m) = Sent(m)
  BY <1>5, <1>6 DEF Found, Sent
<1>8. Tails(m) = {<<>>}
  BY <1>1 DEF Tails
<1>9. QED
  BY <1>1, <1>4, <1>7, <1>8 DEF Garbled

-----------------------------------------------------------------------------
(* SessionConfirmed. *)

\* The padding that its block holds, with a header if there is any.
LEMMA PadBlock ==
  ASSUME NEW pad \in 0..MaxPaddingLen, sco.pad = pad
  PROVE  PadBlockSize = IF pad = 0 THEN 0 ELSE HeaderLen + pad
<1>1. HeaderLen + pad \in 0..MaxUInt16
  BY Lengths
<1>2. UInt16(HeaderLen + pad) = HeaderLen + pad
  BY <1>1, FitsSixteenBits
<1>3. QED
  BY <1>2 DEF PadBlockSize

\* With the padding that Session draws while its limit does not wrap, every
\* RouterInfo can be written.
LEMMA DrawnConfirmable ==
  ASSUME NEW info \in MinInfoLen..MaxInfoLen, NEW pad \in Nat,
         sco.info = info, sco.pad = pad, DrawLimit >= 0, sco.pad \in Drawn
  PROVE  Confirmable
<1>1. info \in Nat /\ pad >= 32 /\ pad <= 65014 - info /\ info >= 440 /\ info <= 65515
  BY Lengths DEF Drawn, DrawLimit
<1>2. pad \in 0..MaxPaddingLen /\ pad # 0
  BY <1>1, Lengths
<1>3. PadBlockSize = 3 + pad
  BY <1>2, PadBlock, Lengths
<1>4. InfoBlockSize = 4 + info
  <2>1. HeaderLen + FloodFlagLen + info \in 0..MaxUInt16 /\ HeaderLen + FloodFlagLen + info = 4 + info
    BY <1>1, Lengths
  <2>2. QED
    BY <2>1, FitsSixteenBits DEF InfoBlockSize
<1>5. Content = 22 + info + pad
  BY <1>3, <1>4, Lengths DEF Content
<1>6. PayloadSize = 38 + info + pad
  <2>1. 38 + info + pad \in 0..MaxUInt16
    BY <1>1, Lengths
  <2>2. Content + DigestLen = 38 + info + pad
    BY <1>1, <1>5, Lengths
  <2>3. QED
    BY <2>1, <2>2, FitsSixteenBits DEF PayloadSize
<1>7. PayloadSize \in MinMsg3Pt2Size..MaxMsg3Pt2Size /\ Content <= PayloadSize
  <2>1. 38 + info + pad \in MinMsg3Pt2Size..MaxMsg3Pt2Size
    BY <1>1, Lengths
  <2>2. 22 + info + pad <= 38 + info + pad
    BY <1>1
  <2>3. QED
    BY <1>5, <1>6, <2>1, <2>2
<1>8. QED
  BY <1>2, <1>7 DEF Confirmable

\* What ReadConfirmed takes, by the padding there is.
LEMMA Taken ==
  ASSUME NEW pad \in 0..MaxPaddingLen, sco.pad = pad
  PROVE  /\ ReadsOn(HeaderLen + OptionsLen + PadBlockSize) = (pad # 0)
         /\ ReadsOn(PadBlockSize) = (pad > 15)
         /\ (PadBlockSize > DigestLen) = (pad > 13)
         /\ ~(pad = 0 /\ HeaderLen + OptionsLen + PadBlockSize > DigestLen)
<1>1. PadBlockSize = IF pad = 0 THEN 0 ELSE 3 + pad
  BY PadBlock, Lengths
<1>2. pad \in Nat
  BY Lengths
<1> DEFINE n == PadBlockSize
<1>3. n \in Nat /\ (n >= 4 <=> pad # 0) /\ (n >= 19 <=> pad > 15) /\ (n > 16 <=> pad > 13) /\ (pad = 0 => n = 0)
  BY <1>1, <1>2
<1>4. /\ ReadsOn(HeaderLen + OptionsLen + n) <=> pad # 0
      /\ ReadsOn(n) <=> pad > 15
      /\ n > DigestLen <=> pad > 13
      /\ ~(pad = 0 /\ HeaderLen + OptionsLen + n > DigestLen)
  <2> HIDE DEF n
  <2>1. (HeaderLen + OptionsLen + n >= HeaderLen + DigestLen) <=> n >= 4
    BY <1>3, Lengths
  <2>2. (n >= HeaderLen + DigestLen) <=> n >= 19
    BY <1>3, Lengths
  <2>3. (n > DigestLen) <=> n > 16
    BY <1>3, Lengths
  <2>4. pad = 0 => ~(HeaderLen + OptionsLen + n > DigestLen)
    BY <1>3, Lengths
  <2>5. QED
    BY <1>3, <2>1, <2>2, <2>3, <2>4 DEF ReadsOn
<1>5. QED
  BY <1>4 DEF ReadsOn

\* What has become of a SessionConfirmed message.
Confirmed ==
  /\ sco.at # "none" => sco.info \in InfoSizes /\ sco.pad \in Pads
  /\ sco.at \in {"written", "read", "threw"} => Confirmable
  /\ sco.at = "refused" => ~Confirmable
  /\ sco.at \in {"read", "threw"} => /\ sco.options = (sco.pad # 0)
                                     /\ sco.padding = (sco.pad > 15)
                                     /\ (sco.at = "threw") <=> (sco.pad \in {14, 15})

State == {"none", "made", "written", "refused", "read", "threw"}
ScoType == [info : InfoSizes \cup {0}, pad : Pads \cup {0}, at : State, options : BOOLEAN, padding : BOOLEAN]

LEMMA ConfirmStep ==
  ASSUME sco \in ScoType, Confirmed, Confirm
  PROVE  sco' \in ScoType /\ Confirmed'
<1> DEFINE to == IF Confirmable THEN "written" ELSE "refused"
<1>1. sco.at = "made" /\ sco' = [sco EXCEPT !.at = to]
  BY DEF Confirm
<1>2. to \in State
  BY DEF State
<1>3. /\ sco' \in ScoType /\ sco'.at = to /\ sco'.info = sco.info /\ sco'.pad = sco.pad
  <2> HIDE DEF to
  <2>1. QED
    BY <1>1, <1>2 DEF ScoType
<1>4. Confirmable' = Confirmable
  BY <1>3 DEF Confirmable, PayloadSize, Content, InfoBlockSize, PadBlockSize
<1>5. sco.info \in InfoSizes /\ sco.pad \in Pads
  BY <1>1 DEF Confirmed
<1>6. QED
  BY <1>3, <1>4, <1>5 DEF Confirmed

LEMMA ReadConfirmedStep ==
  ASSUME sco \in ScoType, Confirmed, ReadConfirmed
  PROVE  sco' \in ScoType /\ Confirmed'
<1> DEFINE options == ReadsOn(HeaderLen + OptionsLen + PadBlockSize)
           padding == options /\ ReadsOn(PadBlockSize)
           left == IF padding THEN 0
                   ELSE IF options THEN PadBlockSize ELSE HeaderLen + OptionsLen + PadBlockSize
           to == IF left > DigestLen THEN "threw" ELSE "read"
<1>1. sco.at = "written"
  BY DEF ReadConfirmed
<1>2. sco' = [sco EXCEPT !.at = to, !.options = options, !.padding = padding]
  BY DEF ReadConfirmed
<1>3. Confirmable /\ sco.info \in InfoSizes /\ sco.pad \in Pads
  BY <1>1 DEF Confirmed
<1>4. sco.pad \in 0..MaxPaddingLen
  <2>1. sco.pad \in 0..MaxUInt16
    BY <1>3, BlocksAssumption
  <2>2. sco.pad <= MaxPaddingLen
    BY <1>3 DEF Confirmable
  <2>3. QED
    BY <2>1, <2>2, Lengths
<1>5. PICK pad \in 0..MaxPaddingLen : sco.pad = pad
  BY <1>4
<1>6. options = (pad # 0) /\ padding = (pad > 15) /\ (to = "threw" <=> pad \in {14, 15})
  <2>1. pad \in Nat
    BY Lengths
  <2>2. /\ options <=> pad # 0
        /\ ReadsOn(PadBlockSize) <=> pad > 15
        /\ PadBlockSize > DigestLen <=> pad > 13
        /\ ~(pad = 0 /\ HeaderLen + OptionsLen + PadBlockSize > DigestLen)
    BY <1>5, Taken
  <2>3. padding <=> pad > 15
    BY <2>1, <2>2
  <2>4. (left > DigestLen) <=> (pad \in {14, 15})
    <3>1. CASE pad > 15
      BY <2>1, <2>3, <3>1 DEF DigestLen
    <3>2. CASE pad \in 1..15
      BY <2>1, <2>2, <2>3, <3>2
    <3>3. CASE pad = 0
      BY <2>1, <2>2, <2>3, <3>3
    <3>4. QED
      BY <2>1, <3>1, <3>2, <3>3
  <2> HIDE DEF options, padding, left
  <2>5. options \in BOOLEAN /\ padding \in BOOLEAN
    BY DEF options, padding, ReadsOn
  <2>6. QED
    BY <2>2, <2>3, <2>4, <2>5
<1>7. options \in BOOLEAN /\ padding \in BOOLEAN /\ to \in State
  BY DEF ReadsOn, State
<1> HIDE DEF options, padding, to
<1>8. /\ sco' \in ScoType /\ sco'.at = to /\ sco'.info = sco.info /\ sco'.pad = sco.pad
      /\ sco'.options = options /\ sco'.padding = padding
  BY <1>2, <1>7 DEF ScoType
<1>9. Confirmable'
  BY <1>3, <1>8 DEF Confirmable, PayloadSize, Content, InfoBlockSize, PadBlockSize
<1>10. to \in {"threw", "read"}
  BY DEF to
<1>11. QED
  BY <1>3, <1>5, <1>6, <1>8, <1>9, <1>10 DEF Confirmed

-----------------------------------------------------------------------------
(* The theorems. *)

\* What the writer holds, has written, what the reader has got, and what has
\* become of SessionConfirmed.
Inv ==
  /\ TypeOK
  /\ Sound(wire)
  /\ Ordered(theirs)
  /\ Confirmed

LEMMA InvInit == Init => Inv
<1> SUFFICES ASSUME Init
             PROVE  Inv
  OBVIOUS
<1>1. wire \in Msg /\ Sound(wire)
  BY DEF Init, NoMsg, Msg, Sound, Ordered
<1>2. sco \in ScoType /\ Confirmed
  <2>1. CASE sco = NoConfirmed
    BY <2>1 DEF NoConfirmed, ScoType, State, Confirmed
  <2>2. CASE sco # NoConfirmed
    <3>1. sco \in [info : InfoSizes, pad : Pads, at : {"made"}, options : {FALSE}, padding : {FALSE}]
      BY <2>2 DEF Init
    <3>2. QED
      BY <3>1 DEF ScoType, State, Confirmed
  <2>3. QED
    BY <2>1, <2>2
<1>3. TypeOK
  BY <1>1, <1>2, BlocksAssumption DEF Init, TypeOK, ScoType, State
<1>4. QED
  BY <1>1, <1>2, <1>3 DEF Init, Inv, Ordered

\* Write leaves a sound message.
LEMMA WriteSound ==
  ASSUME TypeOK, Write
  PROVE  wire' \in Msg /\ Sound(wire')
<1> DEFINE after == Serialized(Len(blocks))
           spare == TotalSize(blocks) - TotalSize(after)
<1>1. Typed /\ clean \in BOOLEAN
  BY DEF TypeOK, Typed
<1>2. after \in Seq(Block) /\ SameTypes(blocks, after)
  BY <1>1, SerializedTypes
<1>3. spare \in Int /\ (after = blocks => spare = 0)
  <2>1. TotalSize(blocks) \in Nat /\ TotalSize(after) \in Nat
    BY <1>1, <1>2, BlocksSized DEF Typed
  <2>2. QED
    BY <2>1
<1>4. Ordered(after)
  BY <1>2, OrderOfTypes DEF Write
<1>5. \A i \in 1..Len(after) : after[i].size \in SizeRange(after[i].type)
  BY DEF Write, Bad, Valid
<1>6. wire' = [blocks |-> after, zeros |-> clean, stale |-> after # blocks, spare |-> spare]
  BY DEF Write
<1> HIDE DEF after, spare
<1>7. (after # blocks) \in BOOLEAN
  OBVIOUS
<1>8. wire' \in Msg
  BY <1>1, <1>2, <1>3, <1>6, <1>7 DEF Msg
<1>9. /\ wire'.blocks = after /\ wire'.spare = spare
      /\ wire'.stale = (after # blocks)
  BY <1>6
<1>10. QED
  BY <1>3, <1>4, <1>5, <1>8, <1>9 DEF Sound

\* Every step keeps it.
LEMMA InvStep ==
  ASSUME Inv, [Next]_vars
  PROVE  Inv'
<1>1. Typed' /\ Typed
  BY TypedStep DEF Inv, TypeOK, Typed
<1>2. carrier' = carrier /\ clean' \in BOOLEAN /\ calls' \in 0..MaxCalls
  <2>1. CASE calls' = calls
    BY <2>1 DEF Inv, TypeOK, Next, AddBlock, Resize, ResizeMessage, ClearBlocks, Write, WriteLong,
       WriteThrows, Read, ReadThrows, Tick, Confirm, ReadConfirmed, vars, dataVars
  <2>2. CASE calls' # calls
    <3>1. Call /\ carrier' = carrier /\ clean' \in {clean, FALSE}
      BY <2>2 DEF Next, AddBlock, Resize, ResizeMessage, ClearBlocks, Write, WriteLong,
         WriteThrows, Read, ReadThrows, Tick, Confirm, ReadConfirmed, vars, dataVars
    <3>2. calls' \in 0..MaxCalls
      BY <3>1, BlocksAssumption DEF Call, Inv, TypeOK
    <3>3. QED
      BY <3>1, <3>2 DEF Inv, TypeOK
  <2>3. QED
    BY <2>1, <2>2
<1>3. wire' \in Msg /\ Sound(wire')
  <2>1. CASE Write
    BY <2>1, WriteSound DEF Inv
  <2>2. CASE wire' = NoMsg
    BY <2>2 DEF NoMsg, Msg, Sound, Ordered
  <2>3. CASE wire' = wire
    BY <2>3 DEF Inv, TypeOK
  <2>4. QED
    BY <2>1, <2>2, <2>3 DEF Next, AddBlock, Resize, ResizeMessage, ClearBlocks, WriteLong,
       WriteThrows, Read, ReadThrows, Tick, Confirm, ReadConfirmed, vars, dataVars
<1>4. theirs' \in Seq(ReadBlock) /\ Ordered(theirs') /\ result' \in {"none", "read", "threw"}
  <2>1. CASE Read
    <3>1. PICK tail \in Tails(wire) : Ordered(Found(wire) \o tail) /\ theirs' = Found(wire) \o tail
      BY <2>1 DEF Read
    <3>2. Found(wire) \in Seq(ReadBlock) /\ tail \in Seq(ReadBlock)
      BY FoundBlocks, TailBlocks DEF Inv, TypeOK
    <3>3. QED
      BY <2>1, <3>1, <3>2 DEF Read
  <2>2. CASE theirs' = theirs
    <3>1. result' \in {result, "read", "threw"}
      BY DEF Next, AddBlock, Resize, ResizeMessage, ClearBlocks, Write, WriteLong,
         WriteThrows, Read, ReadThrows, Tick, Confirm, ReadConfirmed, vars, dataVars
    <3>2. QED
      BY <2>2, <3>1 DEF Inv, TypeOK, ReadBlock
  <2>3. QED
    BY <2>1, <2>2 DEF Next, AddBlock, Resize, ResizeMessage, ClearBlocks, Write, WriteLong,
       WriteThrows, ReadThrows, Tick, Confirm, ReadConfirmed, vars, dataVars
<1>5. sco' \in ScoType /\ Confirmed'
  <2>1. sco \in ScoType /\ Confirmed
    BY DEF Inv, TypeOK, ScoType, State
  <2>2. CASE Confirm \/ ReadConfirmed
    BY <2>1, <2>2, ConfirmStep, ReadConfirmedStep
  <2>3. CASE sco' = sco
    BY <2>1, <2>3 DEF Confirmed, Confirmable, PayloadSize, Content, InfoBlockSize, PadBlockSize
  <2>4. QED
    BY <2>2, <2>3 DEF Next, AddBlock, Resize, ResizeMessage, ClearBlocks, Write, WriteLong,
       WriteThrows, Read, ReadThrows, Tick, vars, dataVars
<1>6. TypeOK'
  BY <1>1, <1>2, <1>3, <1>4, <1>5 DEF Inv, TypeOK, Typed, ReadBlock, ScoType, State
<1>7. QED
  BY <1>3, <1>4, <1>5, <1>6 DEF Inv

LEMMA Invariance == Spec => []Inv
<1>1. Init => Inv
  BY InvInit
<1>2. Inv /\ [Next]_vars => Inv'
  BY InvStep
<1>3. QED
  BY <1>1, <1>2, PTL DEF Spec

\* The values of every variable.
THEOREM TypeCorrect == Spec => []TypeOK
<1>1. Inv => TypeOK
  BY DEF Inv
<1>2. QED
  BY <1>1, Invariance, PTL

\* What is written, and what a reader has, is in the format's order, whatever
\* blocks the writer's message was given and refused.
THEOREM Order == Spec => []AlwaysOrdered
<1>1. Inv => AlwaysOrdered
  <2>1. Inv => Len(wire.blocks) \in Nat /\ Len(theirs) \in Nat
    BY DEF Inv, TypeOK, Msg
  <2>2. QED
    BY <2>1, OrderedInFormat DEF Inv, Sound, AlwaysOrdered
<1>2. QED
  BY <1>1, Invariance, PTL

\* A message whose blocks are out of order writes nothing until it is cleared.
THEOREM SpoiledIsSilent == Spec => Spoiled
<1>1. ASSUME Inv, [Next]_vars, ~Ordered(blocks)
      PROVE  wire' \in {wire, NoMsg} /\ (~Ordered(blocks') \/ blocks' = <<>>)
  <2> Typed
    BY <1>1 DEF Inv, TypeOK, Typed
  <2>1. CASE \E o \in Offers : AddBlock(o)
    <3>1. PICK o \in Offers : AddBlock(o)
      BY <2>1
    <3>2. blocks' = Append(blocks, Made(o)) /\ wire' = wire /\ Made(o) \in Block
      BY <1>1, <3>1, MadeBlock DEF AddBlock
    <3>3. QED
      BY <1>1, <3>2, AppendSpoiled DEF Typed
  <2>2. CASE \E i \in 1..Len(blocks) : \E n \in Resizes[blocks[i].type] :
               Resize(i, n) \/ ResizeMessage(i, n)
    <3>1. SameTypes(blocks, blocks')
      BY <1>1, <2>2, ResizedTypes
    <3>2. wire' = wire
      BY <2>2 DEF Resize, ResizeMessage
    <3>3. QED
      BY <1>1, <3>1, <3>2, OrderOfTypes
  <2>3. CASE ClearBlocks
    BY <2>3 DEF ClearBlocks
  <2>4. CASE Write \/ WriteLong \/ WriteThrows
    BY <1>1, <2>4 DEF Write, WriteLong, WriteThrows
  <2>5. CASE Read \/ ReadThrows
    BY <1>1, <2>5 DEF Read, ReadThrows
  <2>6. CASE (\E d \in Delays : Tick(d)) \/ Confirm \/ ReadConfirmed \/ UNCHANGED vars
    BY <1>1, <2>6 DEF Tick, Confirm, ReadConfirmed, vars, dataVars
  <2>7. QED
    BY <1>1, <2>1, <2>2, <2>3, <2>4, <2>5, <2>6 DEF Next
<1>2. Inv /\ [Next]_vars => [~Ordered(blocks) => /\ wire' \in {wire, NoMsg}
                                                 /\ ~Ordered(blocks') \/ blocks' = <<>>]_vars
  BY <1>1
<1>3. QED
  BY <1>2, Invariance, PTL DEF Spec, Spoiled

\* A message all of whose sizes were right when it was written is read to the
\* block, or refused for a timestamp that has passed.
THEOREM ReadsWhatWasWritten == Spec => RoundTrip
<1> DEFINE A == wire # NoMsg /\ wire' = NoMsg /\ ~wire.stale =>
                  IF result' = "read"
                  THEN theirs' = Sent(wire)
                  ELSE \E i \in 1..Len(wire.blocks) : ~Lasts(wire.blocks[i], now)
<1>1. ASSUME Inv, [Next]_vars
      PROVE  A
  <2> SUFFICES ASSUME wire # NoMsg, wire' = NoMsg, ~wire.stale
               PROVE  IF result' = "read"
                      THEN theirs' = Sent(wire)
                      ELSE \E i \in 1..Len(wire.blocks) : ~Lasts(wire.blocks[i], now)
    OBVIOUS
  <2>1. wire \in Msg /\ Sound(wire)
    BY <1>1 DEF Inv, TypeOK
  <2>2. /\ Reached(wire) = 1..Len(wire.blocks) /\ Found(wire) = Sent(wire)
        /\ Tails(wire) = {<<>>} /\ ~Garbled(wire)
    BY <2>1, AllFound
  <2>3. Sent(wire) \in Seq(ReadBlock) /\ Sent(wire) \o <<>> = Sent(wire)
    <3>1. Sent(wire) \in Seq(ReadBlock)
      BY <2>1, <2>2, FoundBlocks
    <3> HIDE DEF Sent
    <3>2. QED
      BY <3>1
  <2>4. CASE Read
    <3>1. theirs' = Found(wire) \o <<>> /\ result' = "read"
      BY <2>2, <2>4 DEF Read
    <3>2. QED
      BY <2>2, <2>3, <3>1
  <2>5. CASE ReadThrows
    <3>1. Ordered(Sent(wire))
      <4>1. Len(Sent(wire)) = Len(wire.blocks) /\ Len(wire.blocks) \in Nat
        BY <2>1 DEF Sent, Msg
      <4>2. \A i \in 1..Len(wire.blocks) : Sent(wire)[i].type = wire.blocks[i].type
        BY DEF Sent
      <4>3. SameTypes(wire.blocks, Sent(wire))
        BY <4>1, <4>2 DEF SameTypes
      <4>4. QED
        BY <2>1, <4>3, OrderOfTypes DEF Sound
    <3>2. Lapsed(wire, now)
      BY <2>2, <2>3, <2>5, <3>1 DEF ReadThrows
    <3>3. \E i \in 1..Len(wire.blocks) : ~Lasts(wire.blocks[i], now)
      BY <2>2, <3>2 DEF Lapsed
    <3>4. result' = "threw"
      BY <2>5 DEF ReadThrows
    <3>5. QED
      BY <3>3, <3>4
  <2>6. CASE wire' = wire
    BY <2>6
  <2>7. CASE Write
    BY <2>7 DEF Write
  <2>8. QED
    BY <1>1, <2>4, <2>5, <2>6, <2>7 DEF Next, AddBlock, Resize, ResizeMessage, ClearBlocks,
       WriteLong, WriteThrows, Tick, Confirm, ReadConfirmed, vars, dataVars
<1>2. Inv /\ [Next]_vars => [A]_vars
  BY <1>1
<1>3. QED
  BY <1>2, Invariance, PTL DEF Spec, RoundTrip, Sent

\* For every RouterInfo for which Session's limit on the padding does not wrap,
\* SessionConfirmed can be written and is read to the end with the padding that
\* Session draws; for every RouterInfo, and with every padding, it is refused
\* before the handshake or read, but for 14 and 15 bytes of it
\* (session.h:142-146, message.h:94-203 of SessionConfirmed).
THEOREM SessionConfirmedArrives == Spec => []ConfirmedArrives
<1>1. ASSUME Inv
      PROVE  ConfirmedArrives
  <2>1. Confirmed
    BY <1>1 DEF Inv
  <2>2. PICK pad \in Nat : sco.pad = pad
    <3>1. \A n \in 0..MaxUInt16 : n \in Nat
      BY Lengths
    <3>2. sco.pad \in Pads \cup {0}
      BY <1>1 DEF Inv, TypeOK
    <3>3. QED
      BY <3>1, <3>2, BlocksAssumption
  <2>3. ASSUME DrawLimit >= 0, pad \in Drawn
        PROVE  sco.at # "refused"
    <3>1. SUFFICES ASSUME sco.at = "refused"
                   PROVE  Confirmable
      BY <2>1 DEF Confirmed
    <3>2. sco.info \in MinInfoLen..MaxInfoLen
      BY <2>1, <3>1, BlocksAssumption DEF Confirmed
    <3>3. QED
      BY <2>2, <2>3, <3>2, DrawnConfirmable
  <2>4. DrawLimit >= 0 /\ pad \in Drawn => pad >= 32
    BY DEF Drawn
  <2>5. CASE sco.at \in {"read", "threw"}
    <3>1. /\ sco.options <=> pad # 0
          /\ sco.padding <=> pad > 15
          /\ sco.at = "threw" <=> pad \in {14, 15}
      BY <2>1, <2>2, <2>5 DEF Confirmed
    <3>2. DrawLimit >= 0 /\ pad \in Drawn => pad # 0 /\ pad > 15 /\ pad \notin {14, 15}
      BY <2>4
    <3>3. QED
      BY <2>2, <2>5, <3>1, <3>2 DEF ConfirmedArrives
  <2>6. CASE sco.at \notin {"read", "threw"}
    BY <2>2, <2>3, <2>6 DEF ConfirmedArrives
  <2>7. QED
    BY <2>5, <2>6
<1>2. QED
  BY <1>1, Invariance, PTL

=============================================================================
