# tini2p in TLA+

tini2p is a C++ implementation of parts of I2P; what runs today is its NTCP2
transport (`src/src/ntcp2/`): authenticated sessions between routers over TCP.
This directory holds TLA+ models of that transport, of the blocks and RouterInfos
it carries and of the ratchet written for later transports, TLC configurations
that check them on small instances, and TLAPS proofs of what holds for instances
of any size.  Paths below are relative to `src/src/`.

Contents: [the system](#the-system) · [modules](#the-modules) ·
[runs](#the-runs) · [disagreements](#where-code-and-comments-disagree) ·
[proofs](#the-proofs) · [limits](#what-is-only-model-checked-and-what-is-left-out) ·
[plan](#plan)

## The system

### Components

| component | state | operations | what makes it correct |
|---|---|---|---|
| `Session<Initiator>`, `ntcp2/session/session.h` | an `io_context` and the thread that runs it (`thread_`), `ready_` with its mutex and condition variable, the four message objects, `dp_` | `Start`, `Wait`, `Write`, `Read`, `Stop`, destructor; a chain of ten completion handlers | no call follows a null `dp_`, no wakeup is lost, the thread never outlives its owner, calls return |
| `Session<Responder>`, same file | the same without a thread: its handlers run on the listener's `io_context` | `Start`, the same handlers seen from the other side | both ends agree on the hash and on each other's keys |
| messages, `ntcp2/session_request/`, `session_created/`, `session_confirmed/`, `noise.h` | one Noise handshake state; ciphertext and padding of the last message | `ProcessMessage` (write or read by role), `Derive` | same lengths, times and hash inputs at both ends |
| `DataPhase`, `ntcp2/data_phase/` | two chains of SipHash IVs, two cipher states with nonces | `Write`, `Read` | the ends stay in step; no nonce is used twice; what is written is read |
| `SessionListener`, `ntcp2/session/listener.h` | acceptor, timer, `sessions_`, `connect_count_`, `session_count_`, `blacklist_`, a thread | `Start`, `Stop`, `session(key)`, `blacklisted`, the accept handler, `CleanSessions` | one session of a host, no dangling pointer, no healthy session dropped, `Stop` returns and leaves nothing running |
| `SessionManager`, `ntcp2/session/manager.h` | `out_sessions_`, `blacklist_`, one or two listeners | `session(dest)`, `listener(ip)`, `blacklisted`, `Stop` | one session of a destination, none of a banned one, every session in someone's reach |
| clock, `time.h` | none | `now_s`, `check_lag_s` | ends with agreeing clocks accept each other's messages |
| blocks, `data/blocks/` | none | serialize, deserialize, order check | what is written is read; ill-ordered messages are refused |
| router data, `data/router/` | an identity with its crypto and signing objects, certificate and hash; addresses, options, the serialized bytes and signature | `rekey`, `add_option`, `addresses`, `serialize`, `deserialize`, `Verify` | what is written whole is read and verifies; what verifies is no mixture of two; a private key has its public key |
| `bytes.h`, `crypto/codecs.h` | a cursor | bounded reads and writes, Base64, Base32 | bounds; round trips |
| `crypto/ecies/`, `crypto/dh/`, `nonce.h`, `hkdf.h` | identity and ephemeral pairs, remote keys, root and chain keys, a cache of message keys, a counting nonce | `rekey`, `Encrypt`, `Decrypt`, `Ratchet` | the key in use was derived; a key of an agreement stays with its ends; buffers are long enough |
| other `crypto/` | none | wrappers of libsodium, Crypto++ and Noise-C | taken as perfect |

### How they interact

* The manager makes an outbound session and hands out shared pointers to it; the
  caller starts it and waits for it.  `Start` connects and runs the session's
  `io_context` on a thread of its own; what a handler throws is caught in `Run`,
  which calls `Stop` from that very thread.
* A listener's accept handler makes an inbound session on the listener's
  `io_context` and starts it.  All handlers of all its inbound sessions, its own
  accept handler and its cleaning timer share one thread.  What any of them throws
  ends that thread.
* `Session::Stop` and `~Session` stop the `io_context` of the socket.  For an
  inbound session that is the listener's.
* The handlers of the two ends drive each other through TCP: each end arms its
  next read on the completion of its own write or read.
* `ready_mutex_` covers `ready_` in `Wait` and in the handler that sets it, but
  not in `Stop`, `Write` or `Read`; `sessions_mutex_` covers the listener's lists
  but not `blacklisted`; `out_sessions_mutex_` covers `session(dest)` and half of
  `Stop`.

### What is hard

Handlers that run between a test and its use; `Stop` from four places (caller,
destructor, timed out `Wait`, failing thread) against a handler in flight; a join
under a lock; `std::remove_if` without `erase`; maps erased under an iterator;
pointers that another thread resets; byte counts that must match across two
programs; peers that vanish in mid-message with `eof` tolerated; 16-bit lengths
with a signed cast; masks and nonces that must advance together at two ends when
one of them throws.  `PROJECT.json` lists each at its line.

## The modules

Every module states at its head what it abstracts.  A definition
`Operation_Fault` is `Operation` with a plausible bug; nothing refers to it, it
is there to show that a property notices.

**`Session`** — an outbound session shared by `Callers`.  `stage` names the
completion handler that is due; `Dispatch` takes it into flight, `Handle`,
`HandleLength`, `ReadBody`, `HandleBody`, `NotifyAll` run it, `HandlerThrows` and the
two `Catch` actions are `Run`'s catch.  The handler of the body is two steps: `ReadBody`
reads the message and may throw, `HandleBody` waits for `ready_mutex_` and sets
`ready_`; in between it can only wait.  Each call of a caller is split where another
thread can get in between: `Wait` into test, sleep, wakeup, timeout, unlock;
`Stop` into stop of the context, `ready_ = false`, join, reset; `Start` into the
creation of the thread and the assignment to `thread_`.  Two joins of one
`std::thread` are undefined behaviour: a choice that includes the end of the
process (`JoinTwice`).

**`Handshake`** — both ends of one handshake, from `HandleSessionRequest` to the
first data phase message.  One action per completion handler: a handler takes
what the socket gives for the number of bytes it asked for, checks it, and writes
what follows in the same step, since it runs under a strand.  The socket is a
queue of frames with their sizes: an `async_read` of another size than was
written gets `Garbage`, as does any read after the peer is gone, because the
handlers let `eof` pass.  Noise is symbolic: `h[p]` is the sequence of what was
mixed into the hash, and a message opens under exactly the hash it was sealed
under.  Keys follow the code: `LocalKey("alice")` is the key of her
*destination's* identity (`session.h:372-375`), and whether its private key is at
hand is part of `who`.

**`DataPhase`** — masks, nonces, keys and lengths of both directions.
`Length`, `SealedSize`, `Int16` and `IsNull` are the arithmetic of
`data_phase.h:213-219` and `261` at its width.  A `Write` that throws after
`ProcessLength` has moved the mask; `upset[d]` records that this or an unreadable
length happened in direction `d`.  **`Channel`** is its abstract specification: a
queue for each direction, whose messages are taken once and in order, and are lost, from
the head only, after a `Write` that threw or made more than `MaxRead`.

**`Listener`** — the listener's thread and its owner.  A handler is dispatched in
one step and runs in another, so `Stop` finds it in flight.  `Compacted` is what
`std::remove_if` leaves in the unerased tail, moved-from pointers included;
following one is `Crash`.  The inbound sessions are reduced to what the listener
can see of them.  **`Admission`** is its abstract specification: who may be let in,
turned away, dropped and banned, without threads, locks, counters or pointers.

**`Manager`** — `session(dest)` step by step under its lock, `Stop` half under it,
two listeners that ban keys at any time, sessions that are started, stopped,
fail and are released.  `StaticKey` (option "s") and `IdKey` (identity) of a
destination are separate, as they are in a RouterInfo.

**`Blocks`** — the messages' contents.  A block is its type, its size (`size_` in
the code), the size of what it holds (`held`) and until when its timestamp passes.
Callers change `held` through the references that `msg_data()`, `ad()` and
`padding()` return (`Resize`), and the size follows when `serialize` runs.  `Write`
is `DataPhaseMessage::serialize` inside `DataPhase::Write`: the room is laid out by
the old sizes, so `spare` bytes of it may be left unwritten, or be missing.  What
unwritten room reads as is in `Tails`: headers of empty blocks where the buffer is
zeros, anything where an earlier message was.  `WriteThrows` keeps what was
serialized before the exception; `ReadThrows` drops the blocks read so far.
`Confirm` and `ReadConfirmed` are the two ends of `SessionConfirmedMessage`, in
`sco`; `Drawn` is the padding that the constructor of `Session` draws,
none at all or any there is once `DrawLimit` has wrapped.

**`Ratchet`** — objects of `EciesX25519` and the buffers their callers pass.  Keys
are terms: a pair is the key that was drawn and how often the KDF went over it, a
Diffie-Hellman secret the set of two private keys, so that both ends make the same,
and a derived key names all it was derived from.  The actions are the constructors
(`AssignLocal`, `AssignRemote`, assigned over an object in use), the copy, the three
`rekey`s, `Encrypt` and `Decrypt` with the ratchets they run first, and the throws.
The flags `needsRemote`, `needsDH` and `needsChain` are the code's `requires_...`.

**`RouterData`** — `Info` objects and the images they wrote.  Whatever is drawn at
random is named by the object and the call that drew it; a hash is what was hashed,
and a signature the key and the bytes.  `Serialized` is `Info::serialize` up to where
it throws, `ReadAll` is `Info::deserialize`, and `ReadUpTo` what that has done when it
throws: which of certificate, keys, addresses and options are new then depends on
the image.  Images come from the objects themselves (`net`) and from other
implementations (`Foreign`), with other kinds of keys and with contents that readers
throw for.  `bad` is the mark of an unsupported certificate, which nothing takes back.

How they compose: `Session`, `Handshake` and `DataPhase` are three views of one
object (its threads, its messages, its stream after the handshake); `Session`
assumes of the messages only that a handler succeeds or throws, and `Handshake`
ends where `DataPhase` starts, with an empty wire and one hash (`Agreement`).  `Listener` uses the observable instants of inbound sessions, and
`Manager` the life of outbound ones and the blacklists of listeners.

`Blocks` is what `DataPhase` carries: of a message that `DataPhase` only knows the
length of, it knows the blocks.

`RouterData` is what `Handshake` calls a RouterInfo, and `Blocks` a size: `StaticKey`
of a RouterInfo is its option "s" and `IdKey` the key of its identity, and
`RouterData` shows how the two come to differ (`Rekey` does not replace the option).
The AES key that obfuscates the first bytes of a handshake is the identity's hash,
which each `serialize` changes.  `Ratchet` stands alone: nothing calls it yet.

`MCManager`, `MCHandshake`, `MCBlocks`, `MCRatchet` and `MCRouterData` hold the values of
constants and the symmetries for TLC.

## The runs

| run | instance | checks |
|---|---|---|
| `listener_safety` | 3 connections, 2 hosts, 1 key, limits 2 and 1 | types, pointers, one connection of a host, who survives a pass, refinement of `Admission`; a `Stop` that has begun returns |
| `session_lifecycle` | 2 callers | wakeups, `dp_`, quiet destruction, truth of `Wait`, calls return |
| `manager_safety` | 2 callers, 2 sessions, 2 destinations | one session of a key, bans, reachability |
| `handshake` | 3 RouterInfos, extreme paddings, 2 clock differences | agreement, nothing left on the wire, no failure without a cause, no mutual wait |
| `data_phase` | 7 sizes around the boundaries, 3 messages in each direction | masks and nonces in step, nonces fresh, messages delivered once and in order (refinement of `Channel`) |
| `blocks_safety` | 7 blocks, 3 sizes to give an I2NP block, 6 calls; 8 RouterInfos, 28 paddings | order, round trip of messages, SessionConfirmed is read |
| `ratchet_safety` | 2 objects, 2 drawn keys, 3 lengths, 4 calls and 2 encryptions | keys are in the cache and those of an agreement stay with its ends; buffers are long enough |
| `router_data` | 2 objects, 1 or 256 addresses, 5 foreign certificates, 3 calls | round trip, no mixture verifies, key pairs |
| `listener_clean_removes`, `manager_one_per_dest`, `handshake_own_key`, `ratchet_new_keys` | as above | see [below](#where-code-and-comments-disagree) |

Why the bounds are enough to be interesting:

* Three connections from two hosts give a host that comes back, a list with a
  failed session before, between and behind healthy ones, and a second pass over
  what the first left.  Limits of 2 and 1 stand for 11 and 3 and are reached.
  The run checks a liveness property, too, so nothing is permuted.
* Two callers are what a race takes: one in each half of two calls.
* RouterInfos `i1` and `i2` are of routers made by this code, `i3` names another's
  key.  Paddings of the least and the greatest length meet every size check at its
  edge.  Bob's clock agrees or is one second behind, and time passes by
  `MaxLagDelta` at once, so a message is on time, just on time, late, or from the
  future.
* The sizes are empty, least, the last that is read and the first that is not,
  the last whose length with the MAC fits 16 bits less one, and three around the
  wrap.  Three messages let a failed one be followed and preceded by good ones.
* The blocks offered are one of each kind that the order rules or the timestamps
  treat differently, an I2NP block too large to serialize, and a RouterInfo that
  makes a second block pass the limits.  The sizes given to contents fall three
  bytes short (one phantom header), outgrow the MAC (and run past the buffer), and
  wrap 16 bits.  Six calls are two messages of two blocks with a change in each.
  One phantom block may be of any type.  The paddings are around every constant of
  the two size checks, less each RouterInfo's size.  Two RouterInfos are of common
  sizes, one is large, and the others lie on either side of where `Session` can draw one
  length only, none, or any, up to the largest that `Info` allows.
* In `Ratchet` two objects are an end and a copy, or the two ends of an agreement.
  Four calls make both and replace the keys of each once, and two encryptions use a
  buffer twice.  Lengths of 1, 32 and 33 lie on either side of the length of the
  additional data (`ADLen`), by which the conditions for growing a buffer are off.
* In `RouterData` three calls are a change, a write and a read of it by the other
  object, and the foreign images make a use of it before that.  256 addresses are
  the least number that its byte does not count.  The certificates are one that reads
  and verifies, one of a kind that cannot verify, one that throws when its signing
  object is made, one that is unsupported and one that is none.
* `MaxSent`, `MaxCalls`, `MaxGarbage`, `MaxTime` and the sets of objects are the only bounds.

Fairness.  `Listener`: a handler in flight ends, `run()` returns once its context
is stopped, a `Stop` that has begun goes on; no peer need connect and no owner
call `Stop`.  `Session`: a handler in flight ends, timeouts expire, calls go on;
strong fairness only for those who compete for `ready_mutex_`, which is held for an
instant at a time: `Wait` and `HandleBody`.  A handler that waits for the lock cannot
end by throwing, so a `Stop` that joined the thread with the lock held would be stuck.  No answer of the peer is assumed: `CallsReturn` holds
because `Wait` has a time limit.  `Handshake`: each end runs the handlers that are
due; neither the passing of time nor the loss of a party is fair.  Deadlock is not
checked where a system may stop: a session that is destroyed, a handshake that is
over, messages at their bound.

## Where code and comments disagree

Four runs expect a violation.  Each counterexample is a few steps long.

1. `CleanSessions` calls `std::remove_if` and drops its result
   (`listener.h:242-253`): nothing is ever erased, though line 239 says "remove
   failed and blacklisted sessions".
2. `session(dest)` searches by the key of the identity for sessions that are filed
   under the static key (`manager.h:168`), so "session already exists" (line 147)
   is not noticed when they differ.
3. The initiator uses the keys of its destination as its own (`session.h:372-375`).
   With a RouterInfo of its own, the responder's check "static key from first
   frame matches RouterInfo static key" (`session.h:592`) fails.
4. `Encrypt` and `Decrypt` move the chain ratchet only while a flag is set that the
   first move clears (`crypto/ecies/x25519.h:328`, `474`): every later message has the
   key and the nonce of the first, though line 209 says "On each message, a new chain
   key and one-time message key are derived".

Four more disagreements need no run: they can be read off one definition each, which
follows the code, and no property of a passing run takes either side.

* `connect_count_` is reset by nothing but a ban (`listener.h:170-184`; `Uncount`), so
  `MaxConnections` is of the listener's whole life and not, as `session.h:57` has it, "max
  connections in CleanTimeout".
* A session that is not ready is never erased and is counted by every pass
  (`listener.h:250`; `Counted`), and the cleaning timer is waited for again without a new
  expiry, so one session gets its key banned for `MaxSessions`, "max sessions in
  CleanTimeout" (`session.h:56`).
* `rekey(keypair)` calls `DeriveEphemeralKeys` with its arguments swapped
  (`crypto/ecies/x25519.h:418`; `SetKeys`): the pair that was given, the "Local crypto
  identity keypair" of `data/router/identity.h:355`, is overwritten and never used.
* Both ends of `X3DH::DH` take the exchange of their own static key first
  (`crypto/dh/x3dh.h:87-88`; `X3DH`), so they hash the same secrets in different orders,
  and "derive a shared key" (line 65) derives two.

Observed while modelling, and in the models' behaviours, but stated otherwise
nowhere in the repository, hence not listed as findings:

* the accept handler throws when it turns a peer away (`listener.h:186`), which ends
  the thread of `Run` with the acceptor not armed again: the first rejected peer is
  the last;
* `DataPhase::Read` casts the length to a signed 16-bit number (`data_phase.h:261`):
  messages of 32768 bytes and more are written and silently not read;
* a null entry that a cleaning pass left is followed by `Stop` or `session(key)`,
  and the process dies;
* a host is banned at its second connection, long before `MaxConnections`, by the
  search for an existing session (theorem `LimitNeverReached`);
* `Stop` or destruction of one inbound session stops the listener's context;
* `Stop` clears `ready_` before it joins, so the handler in flight can make a
  stopped session ready again; two `Wait`s that time out together join one thread;
* `SessionManager::Stop` resets its listeners outside the lock under which
  `session(dest)` follows them; a session that was dropped when its key was banned
  is not stopped by it if someone holds it;
* outbound sessions that failed are never pruned, and a retry bans the destination;
* contents that were changed through a reference after the last `serialize` are
  laid out by their old size: the reader gets blocks nobody wrote, throws, or
  misses the end of the last block, and the writer is not told;
* `add_block` keeps the block whose place it complains of, so the message writes
  nothing until it is cleared;
* `SessionConfirmedMessage::deserialize` counts on a MAC that its payload no longer
  has: padding of 1 to 13 bytes is not read, 14 or 15 bytes throw, and without
  padding the options are not read.  `Session` draws 32 bytes or more;
* the upper limit of the padding that `Session` draws is unsigned (`session.h:146`): for
  a RouterInfo of 64983 to 65015 bytes the constructor draws forever, and beyond that the
  limit wraps, any padding may be drawn, and most of it is refused when it is written;
* an object that reads a RouterInfo, its own image included, loses its private signing
  key, and its next `serialize` throws after the buffer was filled, with the old
  signature still behind it (`router/info.h:166`);
* `Identity::rekey` leaves the certificate as it was (`router/identity.h:373`), so a
  reader takes the new keys for the old kinds; a key of the same kind is the one that
  the ephemeral key derives, and the same again when repeated; the option "s" keeps
  the old key;
* each `serialize` draws padding, so an object that read an earlier image has another
  hash of the same router (`router/identity.h:256`);
* the number of addresses is written as one byte (`router/info.h:152`): of 256 none is
  read, and what follows is taken from among them;
* a certificate that was unsupported once marks its object for good, and the keys of
  whatever it reads later are left out (`router/certificate.h:258`);
* RedDSA objects cannot be made from a certificate, and XEdDSA neither signs nor
  verifies, so RouterInfos with either are not read or not accepted.

## The proofs

TLAPS proves, for any values of the constants that satisfy the named assumption
of each module:

| module | theorems | assumption |
|---|---|---|
| `ListenerProofs` | every safety and action property of `listener_safety`, `Implements`: the refinement of `Admission`, and some more | `ListenerAssumption` |
| `SessionProofs` | every safety property of `session_lifecycle` | `SessionAssumption` |
| `ManagerProofs` | every property of `manager_safety` | `ManagerAssumption` |
| `HandshakeProofs` | every safety property of `handshake` | `HandshakeAssumption` |
| `DataPhaseProofs` | every property of `data_phase`, among them `Implements`: the refinement of `Channel`; `AllDelivered`, what that refinement says of a direction where nothing was lost | `DataPhaseAssumption` |
| `BlocksProofs` | every property of `blocks_safety` | `BlocksAssumption` |
| `RatchetProofs` | every property of `ratchet_safety` | `RatchetAssumption` |
| `RouterDataProofs` | every property of `router_data` | `RouterDataAssumption` |

Each proof has the same shape: an inductive invariant (`IndInv`, `IInv` or `Inv`), lemmas
that say one step keeps its conjuncts, a theorem that it holds, and the properties
as corollaries; action properties and the refinement are proved of steps from states
where it holds.

*Listener.*  The deep property is `OneConnectionPerHost`: a host that is not banned
has connected once.  It is not inductive, since a pass of `CleanSessions` might
drop the first session from the list.  `NobodyLost` says why that does not help:
whatever the half-done removal overwrites leaves a null pointer behind
(`OverwrittenLeavesNull`, by counting the kept entries: a compacted list with no
null has lost nobody), and the search that would let the host in again meets that
pointer first.  `UniqueHosts` needs that `Compacted` never shows one kept entry
twice (`CompactedSource`, over the injectivity of ranks), and `HealthyKept` that
every kept entry has a place (`KeptMoves`).  `StopOrder` ties the lock, the stopped
context and the end of the thread to where the owner is in `Stop`.

*Session.*  `StageOrder` says what the handshake has made by each stage and that
nothing is `ready` before the last; `ThreadOrder` who may touch `thread_` when;
`DyingAlone` that a destructor runs while no other call does, which is the caller's
duty in C++ and a guard of the model.  With these `DataPhaseExists` and
`WaitTellsTheTruth` follow although `ready_` is cleared and tested without its lock.

*Data phase.*  `Synced(d)` says that the masks and nonces on the wire are those the
reader will come to, counted from the writer's, and that every length on the wire
is its message's and reads as such.  `ShortLength` is the arithmetic: up to
`MaxRead` no 16-bit operation wraps.  The two directions share `iv`, `nonce` and
`upset`, so each step is shown to leave the other direction alone
(`WriteElsewhere`, `ReadElsewhere`).  `NoncesFresh` holds with no such condition:
every nonce in `used` is below the writer's, whatever was thrown (`SpentStep`).  For
`Implements` a queue of `Channel` is the numbers of the messages on the wire (`IdsAppend`,
`IdsTail`); a read that returns nothing, or throws, loses its message, which `Channel`
allows only of a broken direction: `OnlyRead` says that in one that is `Synced` neither
happens.

*Blocks.*  `Ordered` is the code's pairwise check and `InFormat` the format's rule;
`OrderedInFormat` derives one from the other.  The invariant `Inv` is type correctness,
that the lists written and read are `Ordered`, which depends on types only
(`OrderOfTypes`): changing sizes, by a caller or by `serialize`, keeps it; that what is
on the wire is `Sound`: each size is one that its type may have, and nothing is spare
unless a size was stale; and `Confirmed`, of SessionConfirmed.  For `Spoiled`, a list
that is out of order stays so under every operation but `clear_blocks`
(`AppendSpoiled`, `ResizedTypes`, `SerializedTypes`).

`RoundTrip` is about positions in a buffer, which are sums of sizes.  `Bytes`, the sum
over the first n blocks, is a recursive function.  That it is one, adds up and grows
(`SumsExist`, `BytesAdd`, `BytesGrow`) is proved by an induction over sets of numbers:
`SetInduction`, which follows from the well-foundedness of `<`, takes the set where a
property holds and not the property.  A reader that starts each block where the sums
say finds every block of a message that is not stale and nothing else (`AllFound`), and
the one thing that can stop it is a timestamp.  `SizesFit` keeps the size of a block
and its header within 16 bits, so that it does not wrap.  In `ConfirmedArrives`
the same arithmetic is done for the one RouterInfo, options and padding:
`DrawnConfirmable` says that padding within the limits of `Session` never makes the
payload too long, as long as the upper one does not wrap (RouterInfos of up to 65015
bytes; see above for the others), `Taken` what the reader's
loop, which counts on a MAC that is gone, comes to.

*Manager.*  `OnePerKey` needs to know what a caller found out before it adds to the
list: `Locked` says that it holds the lock from there on, and `Learned` that what it
found, no session under the key and no ban, is still so when it comes to `create`.
`FirstOfItsKey` is stronger than `OnePerKey`: a session listed under its identity's
key is the *first* with that key, and since a ban drops the first session found
(`Found`, `RefuseAndBan`) none that the banned key names is left.  `NoTwice` makes
removal from the list remove a session, not an entry (`Removed`).

*Handshake.*  `Agreement` speaks of two hashes and two programs; the invariant speaks
of the frames between them.  `ToBob` says that a SessionConfirmed on the wire opens only
under the hash that Alice had when she wrote it and has grown by that message since;
`ToAlice` that a data phase message is on the wire only when `BobKnows`: both hashes are
finished and equal and Bob has Alice's key and RouterInfo.  So a party gets ready only
by a frame that says the other agrees (`AcceptedFlow`, `ReadDataFlow`), and a step before
that cannot disturb it (`Early`).  `Begun` keeps the first element of each hash, Bob's
key as its owner knows it, from which equal hashes give equal keys.  `Left` counts:
unless its writer failed or is gone with all it wrote, a queue holds at most what the
one wrote and the other did not take, and in two `ready` states that is nothing.

`IInv` bounds what may happen; `OnlyTroubleFails` needs to know what does.  While it is
`Calm`, that is, the keys fit, the clocks agree, no more than `MaxLagDelta` has passed and
nobody is gone, the invariant is `Exact`.  The two messages drawn determine four hashes
(`Hash1` to `Hash4`), and those all seven frames of the exchange (`AliceFrames`,
`BobFrames`).  `Queues` says that each queue *is* the stretch of that script between what
was taken and what was written, `Hashes` and `Letters` that each party is as far along it
as the frames it took.  So a read gets the frame due, of the size it asks for
(`ReadDue`), and each handler finds it authentic, in time and within limits
(`FitLetters`).  A draw changes only the part of the script that is not yet written
(`SendRequestExact`, `SendCreatedExact`); everything else leaves it alone (`SameScript`).
From then on, no party fails while both have their sockets (`Well`), and once one is
closed only the other moves (`Moved`), which may fail.

*Ratchet.*  Derived keys are terms, so that a message key is no zero key and names its
agreement is injectivity of terms (`SubInjective`, `KeyTerms`), and that the agreement
names the pair of whoever made it is `EndOfOwn`.  The
invariant ties each flag to what has been derived: a state that needs no chain ratchet
has a key in the cache at its nonce, whatever order of copies and rekeyings led to it
(`MadeSound`, `ReadiedSound`).

*RouterData.*  `Sound` says of each object that a private key goes with its public key
and was drawn here before; that the signature it holds is of contents that a read
does not throw for; and `Whole`, that if it verifies without a private key it has the
contents signed.  Writing without a private key changes the padding, so what is in
the buffer was never signed (`OthersWrite`); a read that throws leaves bytes in the
buffer that the old signature is not of (`ThrowsSound`), with one exception that needs
a clause of its own: an image for RedDSA that the object itself signed.  A new public
signing key has signed nothing yet (`SignerSound`).  `Written` says of each image that
its signature is of it and by the key in it, from which `ReadBack` follows.

## What is only model-checked, and what is left out

Only model-checked: `StopReturns`, `CallsReturn` and `Finishes`, since liveness under
fairness is out of the prover's reach.  Every other property of a passing run is a
theorem.  What the four runs that expect a violation refute is not a theorem either.

Abstracted: cryptography is perfect and Noise symbolic; in `Handshake` a RouterInfo is
its keys; the contents of a block are their size, and in `DataPhase` a message is its
length, a bad one only that `Write` throws.  In `Blocks` the clocks of the ends agree;
the skew is in `Handshake`.  In `RouterData` the options are the static key and
whatever else, an address is one of a number, and dates and the limits of sizes are
left out, as are null certificates (of length zero, of old kinds) and `Mapping::entry`,
which returns a reference to nothing for a missing key.  The Noise library,
boost::asio and `std::thread` are modelled from how the session code uses them.

Not modelled, and why:

* unsynchronised `Write`s of one session by two callers: a data race on the IV, after
  which nothing holds (`session.h:239`); two `Wait`s that time out together
  (`session.h:225`) are modelled and may end the process;
* `Stop` of an inbound session beyond its effect on the listener's context
  (`session.h:221`), and a session held beyond the life of its listener
  (`listener.h:129`): the objects' lifetimes are the owner's, and the listener's life
  ends with the model;
* the bytes of single blocks, and `serialize` called outside a `Write`;
* replacing the signing object of an identity that has no private key by one of
  another kind, which copies through a null pointer (`Replaceable` excludes it), and
  `Identity::rekey` with remote keys, a template that does not compile when used;
* `bytes.h`, `crypto/codecs.h`: pure functions of bytes, tested by round trips;
* the primitives of `crypto/`, wrappers of libraries, apart from which keys an EdDSA
  object holds and how ChaCha20-Poly1305 grows its buffers;
* formatting of exceptions; tests and build files.

## Plan

Done: `Listener` with `Admission`, `Session`, `Manager`, `Handshake`, `DataPhase` with
`Channel`, `Blocks`, `Ratchet`, `RouterData`, and a proof module for each.

Next:

1. A composition of `Session` and `DataPhase` for calls of `Write` during `Stop`.
2. The chain ratchet over several messages, both ends and lost messages, once the code
   moves it for each message.
3. The entries of `Mapping` and `Address` with their size limits.
4. An abstract specification of the life of a session as its callers see it, and the
   refinement of it by `Session`, as `Admission` is of `Listener`.
