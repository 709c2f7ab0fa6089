-------------------------------- MODULE Blocks --------------------------------
(***************************************************************************)
(* The blocks that messages carry, and the two messages that carry them:   *)
(* SessionConfirmedMessage, and DataPhaseMessage with the lists and the    *)
(* order of src/src/data/blocks/blocks.h.  A block keeps its size next to  *)
(* its contents; callers reach the contents through references, and the    *)
(* size follows only when the block is serialized.  A message is laid out  *)
(* by the sizes, written block by block from the contents, and read again  *)
(* by the sizes that were written.                                         *)
(* Of a block there is its type, its size and that of its contents, and    *)
(* until when its timestamp passes; the clocks of both ends agree.         *)
(* Operation_Fault is Operation with a fault put in, to show that some     *)
(* property notices; nothing refers to it.                                 *)
(***************************************************************************)
EXTENDS Integers, Sequences, FiniteSetsExt

CONSTANTS
  Offers,          \* blocks callers add: type, size and that of the contents
  Resizes,         \* sizes that callers give the contents of a type
  MaxCalls,        \* bound on the calls that the writer's message gets
  MaxGarbage,      \* bound on the blocks that garbage may be taken for
  Delays, MaxTime, \* how much time passes at once, and the bound on it
  InfoSizes,       \* sizes of RouterInfos
  Pads             \* lengths of the padding of SessionConfirmed

HeaderLen == 3
DigestLen == 16
OptionsLen == 12
FloodFlagLen == 1
MinInfoLen == 440
BlockMaxLen == 65516
MaxInfoLen == 65515                                   \* Info
MaxUInt16 == 65535
MaxMsgLen == BlockMaxLen - 9                          \* I2NPBlock
MaxPaddingLen == BlockMaxLen - (HeaderLen + MinInfoLen) \* PaddingBlock
MaxLen == 65535 + 2                                   \* DataPhaseMessage
MaxRead == 32767   \* beyond it a reader takes the length for a null message's
MinMsg3Pt2Size == MinInfoLen + DigestLen
MaxMsg3Pt2Size == 65471

Types == {"DateTime", "Options", "Info", "I2NP", "Termination", "Padding"}

\* How long the timestamp of a block passes: MaxLagDelta, and short of
\* DefaultI2NPExp.
Lives == [DateTime |-> 360, I2NP |-> 119]

UInt16(n) == n % (MaxUInt16 + 1)

ASSUME BlocksAssumption ==
  /\ Offers \subseteq [type : Types, size : 0..MaxUInt16, held : Nat]
  /\ Resizes \in [Types -> SUBSET Nat]
  /\ \A t \in {"DateTime", "Options", "Info"} : Resizes[t] = {}
  /\ InfoSizes \subseteq MinInfoLen..MaxInfoLen /\ Pads \subseteq 0..MaxUInt16
  /\ MaxCalls \in Nat /\ MaxGarbage \in Nat /\ Delays \subseteq Nat /\ MaxTime \in Nat

VARIABLES
  carrier,  \* which of the messages this is about
  blocks,   \* blocks_ of the writer's DataPhaseMessage
  clean,    \* whether its buffer holds zeros where nothing has been written
  wire,     \* the message written and not yet read
  theirs,   \* blocks_ of the reader's DataPhaseMessage
  result,   \* what became of the message read last
  now,      \* seconds
  calls,    \* calls that the writer's message has got
  sco       \* the SessionConfirmed message of either end

dataVars == <<blocks, clean, wire, theirs, result>>
vars == <<carrier, dataVars, now, calls, sco>>

NoMsg == [blocks |-> <<>>, spare |-> 0, zeros |-> TRUE, stale |-> FALSE]

NoConfirmed == [info |-> 0, pad |-> 0, at |-> "none", options |-> FALSE, padding |-> FALSE]

Init ==
  /\ carrier \in {"DataPhase", "SessionConfirmed"}
  /\ blocks = <<>> /\ theirs = <<>>
  /\ clean = TRUE
  /\ wire = NoMsg
  /\ result = "none"
  /\ now = 0 /\ calls = 0
  /\ sco \in IF carrier = "DataPhase" THEN {NoConfirmed}
             ELSE [info : InfoSizes, pad : Pads, at : {"made"}, options : {FALSE}, padding : {FALSE}]

-----------------------------------------------------------------------------
(* Blocks and lists of blocks. *)

\* size() of a block, and the bytes of the first n of a list.
Size(b) == UInt16(HeaderLen + b.size)

Bytes(bs, n) ==
  LET upTo[i \in 0..Len(bs)] == IF i = 0 THEN 0 ELSE upTo[i - 1] + Size(bs[i])
  IN upTo[n]

TotalSize(bs) == Bytes(bs, Len(bs))

Ordered_AfterTermination(bs) ==
  \A i, j \in 1..Len(bs) : i < j => bs[i].type # "Padding"

\* CheckBlockOrder: nothing follows padding, and only padding a termination.
Ordered(bs) ==
  \A i, j \in 1..Len(bs) : i < j =>
    /\ bs[i].type # "Padding"
    /\ bs[i].type = "Termination" => bs[j].type = "Padding"

Lasts(b, t) == b.type \in DOMAIN Lives => t <= b.until

SizeRange(type) ==
  CASE type = "DateTime" -> 4..4
    [] type = "Options" -> OptionsLen..OptionsLen
    [] type = "Info" -> (FloodFlagLen + MinInfoLen)..(FloodFlagLen + BlockMaxLen)
    [] type = "I2NP" -> 9..MaxMsgLen
    [] type = "Termination" -> 9..BlockMaxLen
    [] type = "Padding" -> 0..MaxPaddingLen

\* check_params of each type of block.
Valid(b, t) == b.size \in SizeRange(b.type) /\ Lasts(b, t)

Made(o) == [type |-> o.type, size |-> o.size, held |-> o.held,
            until |-> IF o.type \in DOMAIN Lives THEN now + Lives[o.type] ELSE 0]

-----------------------------------------------------------------------------
(* The writer's DataPhaseMessage. *)

Call ==
  /\ carrier = "DataPhase" /\ calls < MaxCalls
  /\ calls' = calls + 1

AddBlock_Checked(o) ==
  /\ Call
  /\ TotalSize(blocks) + Size(o) <= MaxLen
  /\ blocks' = IF Ordered(blocks) THEN Append(blocks, Made(o)) ELSE <<Made(o)>>
  /\ UNCHANGED <<carrier, clean, wire, theirs, result, now, sco>>

\* A block that does not fit is turned away; one that is out of order is
\* complained of, and stays.
AddBlock(o) ==
  /\ Call
  /\ TotalSize(blocks) + Size(o) <= MaxLen
  /\ blocks' = Append(blocks, Made(o))
  /\ UNCHANGED <<carrier, clean, wire, theirs, result, now, sco>>

\* msg_data(), ad() and padding() of a block that get_block hands out.
Resize(i, n) ==
  /\ Call
  /\ blocks' = [blocks EXCEPT ![i].held = n]
  /\ UNCHANGED <<carrier, clean, wire, theirs, result, now, sco>>

\* I2NPBlock::resize_message keeps the size up with the contents.
ResizeMessage(i, n) ==
  /\ Call
  /\ blocks[i].type = "I2NP" /\ n - 9 <= MaxMsgLen
  /\ blocks' = [blocks EXCEPT ![i].held = n, ![i].size = UInt16(n)]
  /\ UNCHANGED <<carrier, clean, wire, theirs, result, now, sco>>

ClearBlocks ==
  /\ Call
  /\ blocks' = <<>>
  /\ UNCHANGED <<carrier, clean, wire, theirs, result, now, sco>>

Serialized_Wide(n) ==
  [i \in 1..Len(blocks) |->
     IF i <= n THEN [blocks[i] EXCEPT !.size = blocks[i].held] ELSE blocks[i]]

\* The blocks once the first n have been serialized.
Serialized(n) ==
  [i \in 1..Len(blocks) |->
     IF i <= n THEN [blocks[i] EXCEPT !.size = UInt16(blocks[i].held)] ELSE blocks[i]]

\* The room DataPhase::Write and serialize make: for the announced length,
\* the MAC in it, and for the blocks.
Room(total) ==
  LET length == UInt16(UInt16(total) + DigestLen)
  IN IF length < total THEN total ELSE length

\* Contents larger than sixteen bits overflow the block's buffer, unless that
\* leaves padding without any.
Holds(b) == b.held = b.size \/ (b.type = "Padding" /\ b.size = 0)

\* The blocks that do not serialize or, their contents having grown, do not fit.
Bad(bs) ==
  {i \in 1..Len(bs) : \/ ~Valid(bs[i], now) \/ ~Holds(bs[i])
                      \/ Bytes(bs, i) > Room(TotalSize(blocks))}

Write_Unordered ==
  LET after == Serialized(Len(blocks))
  IN /\ Call
     /\ blocks # <<>> /\ TotalSize(blocks) <= MaxRead
     /\ Bad(after) = {}
     /\ wire = NoMsg
     /\ wire' = [blocks |-> after, zeros |-> clean, stale |-> after # blocks,
                 spare |-> TotalSize(blocks) - TotalSize(after)]
     /\ blocks' = after
     /\ clean' = FALSE
     /\ UNCHANGED <<carrier, theirs, result, now, sco>>

\* DataPhase::Write: the room is that of the sizes before the blocks are
\* serialized, so some of it may be left unwritten (spare), or the last bytes
\* of the blocks be where the MAC goes (spare below 0).
Write ==
  LET after == Serialized(Len(blocks))
  IN /\ Call
     /\ blocks # <<>> /\ TotalSize(blocks) <= MaxRead
     /\ Ordered(blocks) /\ Bad(after) = {}
     /\ wire = NoMsg
     /\ wire' = [blocks |-> after, zeros |-> clean, stale |-> after # blocks,
                 spare |-> TotalSize(blocks) - TotalSize(after)]
     /\ blocks' = after
     /\ clean' = FALSE
     /\ UNCHANGED <<carrier, theirs, result, now, sco>>

\* Blocks too many to be read: the DataPhase module says what becomes of them.
WriteLong ==
  /\ Call
  /\ TotalSize(blocks) \in (MaxRead + 1)..MaxLen
  /\ Ordered(blocks) /\ Bad(Serialized(Len(blocks))) = {}
  /\ blocks' = Serialized(Len(blocks))
  /\ clean' = FALSE
  /\ UNCHANGED <<carrier, wire, theirs, result, now, sco>>

\* The blocks are too many, out of order, or one of them is bad: those up to it
\* have been serialized.
WriteThrows ==
  /\ Call
  /\ blocks # <<>>
  /\ \/ /\ TotalSize(blocks) > MaxLen \/ ~Ordered(blocks)
        /\ UNCHANGED <<blocks, clean>>
     \/ /\ TotalSize(blocks) <= MaxLen /\ Ordered(blocks)
        /\ LET bad == Bad(Serialized(Len(blocks)))
           IN bad # {} /\ blocks' = Serialized(Min(bad))
        /\ clean' = FALSE
  /\ UNCHANGED <<carrier, wire, theirs, result, now, sco>>

-----------------------------------------------------------------------------
(* The reader's. *)

Reached_LongHeader(m) ==
  {i \in 1..Len(m.blocks) : Bytes(m.blocks, i - 1) + HeaderLen < TotalSize(m.blocks) + m.spare}

\* The blocks of a message that begin before its MAC, and whether they end there.
Reached(m) ==
  {i \in 1..Len(m.blocks) : Bytes(m.blocks, i - 1) < TotalSize(m.blocks) + m.spare}

Whole(m, i) == Bytes(m.blocks, i) <= TotalSize(m.blocks) + m.spare

Found(m) ==
  [i \in 1..Cardinality(Reached(m)) |->
     [type |-> m.blocks[i].type, size |-> m.blocks[i].size, whole |-> Whole(m, i)]]

Phantom(type) == [type |-> type, size |-> 0, whole |-> FALSE]

\* What unwritten room may read as, three bytes or more to a block: zeros are
\* the header of an empty DateTime, and what an earlier message left is anything.
Tails(m) ==
  LET sure == IF m.zeros /\ m.spare \div HeaderLen \in 1..MaxRead
              THEN m.spare \div HeaderLen ELSE 0
      most == (m.spare + HeaderLen - 1) \div HeaderLen
      more == {n \in 0..MaxGarbage : sure + n \in 1..most}
  IN IF m.spare <= 0 THEN {<<>>}
     ELSE {[i \in 1..sure |-> Phantom("DateTime")] \o q :
             q \in UNION {[1..n -> {Phantom(t) : t \in Types}] : n \in more}}

\* Whether some of that, or a block cut short, may not deserialize.
Garbled(m) == m.spare < 0 \/ (m.spare > 0 /\ ~(m.zeros /\ m.spare % HeaderLen = 0))

\* A block that is there in full but whose timestamp has passed by now.
Lapsed(m, t) == \E i \in Reached(m) : Whole(m, i) /\ ~Lasts(m.blocks[i], t)

Read ==
  /\ wire # NoMsg
  /\ ~Lapsed(wire, now)
  /\ \E tail \in Tails(wire) :
       /\ Ordered(Found(wire) \o tail)
       /\ theirs' = Found(wire) \o tail
  /\ wire' = NoMsg
  /\ result' = "read"
  /\ UNCHANGED <<carrier, blocks, clean, now, calls, sco>>

\* The blocks read so far are dropped, and those of the message before stay.
ReadThrows ==
  /\ wire # NoMsg
  /\ \/ Lapsed(wire, now) \/ Garbled(wire)
     \/ \E tail \in Tails(wire) : ~Ordered(Found(wire) \o tail)
  /\ wire' = NoMsg
  /\ result' = "threw"
  /\ UNCHANGED <<carrier, blocks, clean, theirs, now, calls, sco>>

Tick(d) ==
  /\ carrier = "DataPhase" /\ now + d <= MaxTime
  /\ now' = now + d
  /\ UNCHANGED <<carrier, dataVars, calls, sco>>

-----------------------------------------------------------------------------
(* SessionConfirmedMessage: a RouterInfo, options, and padding if any. *)

InfoBlockSize == UInt16(HeaderLen + FloodFlagLen + sco.info)
PadBlockSize == IF sco.pad = 0 THEN 0 ELSE UInt16(HeaderLen + sco.pad)
Content == InfoBlockSize + HeaderLen + OptionsLen + PadBlockSize

\* payload_size(), in sixteen bits.
PayloadSize == UInt16(Content + DigestLen)

\* The padding block, the buffer and SessionRequest's options have limits of
\* their own.
Confirmable ==
  /\ sco.pad <= MaxPaddingLen
  /\ Content <= PayloadSize
  /\ PayloadSize \in MinMsg3Pt2Size..MaxMsg3Pt2Size

\* The room that Session leaves for its RouterInfo, computed without a sign.
DrawLimit == MaxMsg3Pt2Size - MinMsg3Pt2Size - sco.info

\* The padding that Session draws.  RandInRange stays below its upper limit, and
\* draws again until it has 32 or more: up to a limit of 32 it never returns.  A
\* limit below zero wraps in 32 bits, and what is drawn then is cut to sixteen.
Drawn == IF DrawLimit >= 0 THEN 32..(DrawLimit - 1) ELSE 0..MaxUInt16

Confirm ==
  /\ carrier = "SessionConfirmed" /\ sco.at = "made"
  /\ sco' = [sco EXCEPT !.at = IF Confirmable THEN "written" ELSE "refused"]
  /\ UNCHANGED <<carrier, dataVars, now, calls>>

ReadsOn_NoMac(left) == left >= HeaderLen

\* Whether the loop of deserialize reads another block of the bytes left: it
\* counts on a MAC, which is not in the payload any more.
ReadsOn(left) == left >= HeaderLen + DigestLen

ReadConfirmed ==
  LET options == ReadsOn(HeaderLen + OptionsLen + PadBlockSize)
      padding == options /\ ReadsOn(PadBlockSize)
      left == IF padding THEN 0
              ELSE IF options THEN PadBlockSize ELSE HeaderLen + OptionsLen + PadBlockSize
  IN /\ sco.at = "written"
     /\ sco' = [sco EXCEPT !.at = IF left > DigestLen THEN "threw" ELSE "read",
                           !.options = options, !.padding = padding]
     /\ UNCHANGED <<carrier, dataVars, now, calls>>

Next ==
  \/ \E o \in Offers : AddBlock(o)
  \/ \E i \in 1..Len(blocks) : \E n \in Resizes[blocks[i].type] : Resize(i, n) \/ ResizeMessage(i, n)
  \/ ClearBlocks \/ Write \/ WriteLong \/ WriteThrows
  \/ Read \/ ReadThrows
  \/ \E d \in Delays : Tick(d)
  \/ Confirm \/ ReadConfirmed

Spec == Init /\ [][Next]_vars

-----------------------------------------------------------------------------
(* What holds. *)

Block == [type : Types, size : 0..MaxUInt16, held : Nat, until : Nat]
Msg == [blocks : Seq(Block), spare : Int, zeros : BOOLEAN, stale : BOOLEAN]

\* The type of every variable.
TypeOK ==
  /\ carrier \in {"DataPhase", "SessionConfirmed"}
  /\ blocks \in Seq(Block)
  /\ clean \in BOOLEAN
  /\ wire \in Msg
  /\ theirs \in Seq([type : Types, size : 0..MaxUInt16, whole : BOOLEAN])
  /\ result \in {"none", "read", "threw"}
  /\ now \in Nat /\ calls \in 0..MaxCalls
  /\ sco \in [info : InfoSizes \cup {0}, pad : Pads \cup {0}, at : {"none", "made", "written", "refused", "read", "threw"},
              options : BOOLEAN, padding : BOOLEAN]

\* "Termination block must either be last, or followed only by a single padding
\* block."
InFormat(bs) ==
  \A i \in 1..Len(bs) :
    /\ bs[i].type = "Padding" => i = Len(bs)
    /\ bs[i].type = "Termination" =>
         i = Len(bs) \/ (i = Len(bs) - 1 /\ bs[Len(bs)].type = "Padding")

\* Although add_block keeps a block it complains of, what is written is always
\* in order, and so is what a reader has (blocks.h:337-376).
AlwaysOrdered == InFormat(wire.blocks) /\ InFormat(theirs)

\* A message that has complained of the order writes nothing, whatever is done
\* to its blocks, until they are cleared.
Spoiled ==
  [][~Ordered(blocks) => /\ wire' \in {wire, NoMsg}
                         /\ ~Ordered(blocks') \/ blocks' = <<>>]_vars

\* Unless some size was behind the contents when a message was written, the
\* reader gets exactly its blocks, or throws for a timestamp that has passed and
\* not otherwise (message.h:97-116).
RoundTrip ==
  [][wire # NoMsg /\ wire' = NoMsg /\ ~wire.stale =>
       IF result' = "read"
       THEN theirs' = [i \in 1..Len(wire.blocks) |->
                         [type |-> wire.blocks[i].type, size |-> wire.blocks[i].size, whole |-> TRUE]]
       ELSE \E i \in 1..Len(wire.blocks) : ~Lasts(wire.blocks[i], now)]_vars

\* As long as the limit that Session puts on the padding does not wrap, which it
\* does for a RouterInfo of more than 65015 bytes, a SessionConfirmed message with
\* the padding it draws can be written, and all of it is read.  With any other
\* padding, and with any that a wrapped limit lets through, it is refused before
\* the handshake or, except for 14 and 15 bytes, the reader has the RouterInfo;
\* the options too when there is padding (session.h:142-146).
ConfirmedArrives ==
  /\ DrawLimit >= 0 /\ sco.pad \in Drawn =>
       /\ sco.at \notin {"refused", "threw"}
       /\ sco.at = "read" => sco.options /\ sco.padding
  /\ sco.at = "threw" <=> sco.at \in {"threw", "read"} /\ sco.pad \in {14, 15}
  /\ sco.at = "read" => (sco.options <=> sco.pad # 0)
  /\ sco.at = "read" => (sco.padding <=> sco.pad > 15)

=============================================================================
