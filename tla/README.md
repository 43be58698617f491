# Verification of bedrock-rs

bedrock-rs implements the two transports of Minecraft Bedrock: `raknet`, a
reliable and ordered message protocol over UDP, and `nethernet`, messages over a
WebRTC data channel with LAN discovery. This directory holds TLA+ modules that
model the protocol machinery, TLC configurations that check them on small
instances, and proofs checked by TLAPS. Source paths below are relative to
`src/`; line numbers are in `PROJECT.json` (`map`).

## Inventory

| Part | Source | State | Operations | What makes it correct |
|---|---|---|---|---|
| Sequence numbers | `raknet/src/protocol/types/sequence.rs` | a 24-bit number | next, prev, distance, add, serial order | order and distance agree across the wrap |
| ACK/NAK ranges | `raknet/src/protocol/ack.rs`, `session/ack_queue.rs` | queue of ranges | push (merge, split at the wrap), pop for an MTU | no number invented, none forgotten |
| Reliable tracker | `session/reliable_tracker.rs` | base, window of flags | has_seen, see | every index accepted exactly once |
| Ordering channels | `session/ordering_channels.rs` | read index and heap per channel | handle_ordered, skip_index | in order, once, nothing skipped silently |
| Split assembler | `session/split_assembler.rs` | entry per split id | add, prune | whole messages from their own parts |
| Session, receiving | `session/inbound.rs`, `mod.rs`, `tick.rs` | the four above, datagram_read_index, outgoing_acks, outgoing_naks | handle_data_payload, process_datagram_sequence, on_tick | acknowledges what it handled, reports every gap |
| Sliding window | `session/sliding_window.rs` | cwnd, ssthresh, unacked_bytes | on_send, on_ack, on_nak, on_resend | a queued packet can always leave in the end |
| Send queue | `session/outbound.rs`, `mod.rs` | heap, weights | get_next_weight, push, pop | priorities |
| Session, sending | `session/outbound.rs`, `inbound.rs` | indexes, sent_datagrams and its base | queue_packet, build_data_datagram, ACK, NAK, clean, resend | tracked until acknowledged, window aligned |
| Managed session | `session/manager.rs`, `manager/*.rs` | connection state, timers, ping nonce | handshake, keepalive, disconnect, queue limit | reaches Connected, closes for good |
| Client transport | `transport/stream.rs` | probe, attempts, negotiated MTU; muxer loop, channels | offline handshake, connect, send, recv | both ends agree on the MTU; every caller is answered |
| Listener transport | `transport/listener*`, `mux.rs` | pending table, session table | handle_offline, accept, removal | one session per peer, not replaced by late requests; tables bounded |
| NetherNet messages | `nethernet/src/protocol/message.rs` | accumulator of a message | split_into_segments, add_segment | messages come out whole |
| NetherNet session and stream | `nethernet/src/session/mod.rs`, `transport/stream.rs` | closed flag, packet channel, futures of send and shutdown | send, recv, close, poll_write, poll_flush, poll_shutdown | order, nothing lost to a slow reader, shutdown flushes |
| LAN signalling | `nethernet/src/signaling/lan.rs`, `protocol/signal.rs` | addresses, discovered servers, broadcast channel | signal, signals, handle_packet, discovery tick | signals reach a known peer's subscriber |
| Negotiation | `nethernet/src/transport/stream.rs`, `listener.rs` | pending candidates, maps of dispatchers and notifiers, queue of sessions | connect, handle_offer, candidate tasks, accept | candidates after descriptions, every answered offer queued, connect returns |

How they interact. An application calls a stream; a muxer task per socket owns
the sessions, so a session runs one handler at a time, but datagrams,
application messages and ticks come in any order. A DATA datagram goes through
`ManagedSession::handle_datagram` to `Session::handle_data_payload`, packet by
packet through tracker, splits and channels, and is acknowledged at the end. A
tick processes waiting ACKs and NAKs, prunes splits, resends, and emits one ACK
and one NAK datagram. Two sessions share nothing but the network, which loses,
repeats and reorders. The hard behaviour is therefore reordering and loss
against bounded buffers, wrapping numbers, a datagram failing half way, expiry
racing a late packet, and liveness of retransmission. `PROJECT.json` lists each
such hazard at its line.

In NetherNet the concurrency is among tasks of one process: `connect` and its
candidate task, the listener's signal loop with two tasks per offer, the
handlers WebRTC calls, and whoever polls a stream. They share maps keyed by
connection id, a broadcast channel that drops its oldest signal, and a data
channel; signals travel in UDP packets that may be lost or repeated. Every
`await` is a place where another task may run.

## Modules

| Module | Models |
|---|---|
| `Sequence24` | `Sequence24`, for any even `Modulo` |
| `AckRanges` | `SequenceRange`, `AckQueue` and the payload encoding, as operators |
| `AckQueue` | one queue with push and pop as actions, one number watched |
| `EncapsulatedPackets` | reliabilities, header sizes, packets, datagrams |
| `ReliableTracker`, `OrderingChannels`, `SplitAssembler` | the receiver's parts, as operators on their state |
| `Inbound` | the receiving half of a session |
| `SlidingWindow`, `SendQueue` | the sender's parts, as operators |
| `Outbound` | the sending half of a session |
| `OrderedChannel` | abstract: the peer is given a prefix of what was sent |
| `Link` | `Outbound` and `Inbound` over a lossy network |
| `ManagedSession` | connection states, online handshake, keepalive, timeout, disconnection, as operators on a session |
| `Connection` | the client's muxer task, the listener's session of this peer and the network between them |
| `OfflineHandshake` | several clients in `perform_offline_handshake`, `handle_offline` with its tables, the network between them |
| `MessageSegments` | `MessageSegment` and `Message`, as operators |
| `NethernetSession` | one direction between two NetherNet sessions, with the stream's writer, other callers of `send`, the reader and `close`; implements `OrderedChannel` |
| `LanSignaling` | the LAN signalling of a client and a server |
| `Negotiation` | `LanSignaling` with `connect` and `NethernetListener` on top; WebRTC external |
| `MCInbound`, `MCOutbound`, `MCLink` | small instances |
| `SessionLemmas` | what the proofs about sessions share |
| `AckQueueProofs`, `InboundProofs`, `OutboundProofs`, `LinkProofs`, `ConnectionProofs`, `OfflineHandshakeProofs` | proofs about the module each is named after |
| `NethernetProofs` | proofs about `NethernetSession` and `Negotiation` |

State names are those of the source. `Inbound` handles a datagram one
encapsulated packet per step (`handling`, `current`, `place`, `out` are the
locals of the loop) and no other action of the session is enabled meanwhile;
`received`, `naked`, `seen`, `lost` record the past for the properties. In
`Outbound` a slot of `sent_datagrams` is a sequence of length 0 (`None`) or 1;
`built`, `confirmed`, `given_up` record the past. Timers and expiry are
arbitrary: `SenderTick(timers, expired)` is a tick that finds the datagrams in
`timers` due and those in `expired` too old, and `PruneTick(id)` one that finds
split `id` expired. Payloads are sequences of fragments `<<message, part,
parts>>`, so that assembly is visible. Sizes are those of the wire format.

`Connection` starts where the offline handshake ends: a session at the listener,
the muxer task about to start, and perhaps a late refusal of one of the client's
MTU probes (`refusal`). It reduces the inner sessions to what the life of the
connection depends on: each packet has a datagram of its own, identified by its
reliable index; the tracker and the ordering channel are those of the modules
above, so that a resent packet is taken for new here as it is in the code; ACKs
take effect when they arrive and not at the tick after, before which nothing is
resent. One action is one branch of a `select!` loop with its whole handler:
`ClientReceive`, `ClientSend`, `ClientTick`, `ClientDrop` (the cancellation) of
`run_client_muxer`, `ServerReceive`, `ServerSend`, `ServerTick` of the listener.
`ClientDropUnheard` is the branch in which a message wins against the
cancellation. A session that is dropped is represented by a fresh one at the
listener and by a closed one at the client. `Elapse` is one unit of time, long
against the interval of ticks: it waits until a tick would change nothing.

`OfflineHandshake` ends where `Connection` starts. One action is one reception or
timeout of a client, or one datagram handled by the listener with everything
`handle_offline` does, the removal of expired entries first. Sizes are the real
ones, with the address family the listener sees: a client that probes over IPv6
is taken to use 20 bytes more than it counts. A cookie is its first byte and a
serial number, as what matters of the hash is that it differs and how it starts:
`OpenConnectionRequest2` has no flag for the cookie, and a decoder that meets 4
or 6 takes it for an address. `refused` records who was turned away.

`NethernetSession` names a message by its length and its bytes by message and
position, so that a message put together from parts of two is visible. A send
makes one step per segment. `Disciplined` says whether the application keeps its
sends apart and lets a send that has begun finish; the code asks for neither.
The data channel keeps order and, when an end closes it, delivers a prefix of
what is under way. `sent` and `given` are the variables of `OrderedChannel`.

In `Negotiation` there is one connection id, so the maps have one entry, named
by the offer that made it: a duplicate of the offer makes a second peer
connection under the same id. ICE may connect once one end has a candidate of
the other and both have descriptions, and may fail at any time; timeouts may
fire at any moment they are armed. The task that queues a session waits first for
its notifier (`FirstCandidate`, `CandidateTimeout`), then for the data channels
(`ChannelsReady`, `ChannelsTimeout`). A peer connection that fails removes the
entry of its connection id, whoever owns it. A dropped listener may still take
signals that are ready before its `select!` sees the cancellation. A candidate is signalled as soon as it is
found, before the offer too, and UDP may reorder.

Mutants (definitions with a comment `Mutant:`) are plausible errors of the code;
each property is violated when its mutant replaces the definition it is listed
with in `PROJECT.json`.

## Runs

| Run | Shows | Distinct states |
|---|---|---|
| `ack_queue` | merging, the wrap, capacity and MTU lose and invent nothing | 11 thousand |
| `inbound` | delivery in order, whole, once; ACKs are earned; gaps reported; the only ways to lose a packet | 152 thousand |
| `outbound` | window aligned with datagram numbers, nothing released early, everything queued can leave | 157 thousand |
| `link` | both halves implement `OrderedChannel`; releases are earned; the sender drains | 97 thousand |
| `connection` | no half-open connection is announced, nothing follows the end, a closed session stays closed | 1,005 thousand |
| `connection_liveness` | `connect()` returns when only requests are lost; the listener gives up a client that left, once its own application stops sending to it | 122 thousand |
| `offline_handshake` | both ends agree on the MTU, sessions are not replaced, tables bounded, the handshake ends and fails only for a reason | 1,000 thousand |
| `message_session` | with sends kept apart, an ordered channel of whole messages; shutdown flushes; a slow reader loses nothing | 627 thousand |
| `negotiation` | candidates after descriptions, no session of an answered offer is stranded on its way to `accept()`, `connect` returns when nothing is lost | 1,297 thousand |
| `false_duplicate`, `reply_lost`, `truncated_message` | disagreements between code and comments, see below | violations |

Four further configurations show violations the findings describe:
`MCInboundRedelivery.cfg` and `MCInboundPartialFailure.cfg` (module `MCInbound`,
`ReliableOnce`, `SeenOnSuccess`), `MCOutboundWeights.cfg` (`MCOutbound`,
`DrainResetsWeights`) and `ConnectionSilent.cfg` (`Connection`, `CloseReported`).
With the constants of their modules' configurations the following are violated
too: `MaxConnections` (`OfflineHandshake`, with `max_connections = 1`),
`CloseEndsRecv` (`NethernetSession`), `GoneClientAlwaysDropped` (`Connection`, with
`ConnectionLiveness.cfg`), `ConnectAlwaysEnds`, `CandidatesReachPeer` and
`ChannelsKept` (`Negotiation`).

Bounds. The modulus is 8 or 16 and conversations start just before the wrap, so
that every run crosses it. `inbound`: every datagram may arrive twice in any
order (`MaxArrivals`), with one heap place, one split entry, a tracker window of
4 and a NAK piece of one number, so that each capacity is hit. `outbound`: four
messages (whole, split, for an unknown channel, unreliable of higher priority),
two places in the send window, arbitrary ACK and NAK ranges over the numbers
sent. `WithinLap` bounds the numbers in the window to one lap. `link`: two
messages, two losses, one duplicate (`MaxLosses`, `MaxDuplicates`), one payload
waiting on each side (`MaxFeedback`, `MaxIncoming`), no expiry. `ack_queue`: the
numbers in the queue and the range pushed lie within `Span`, half a lap; beyond
that the serial order of the code is not an order.

`connection`: one incident (`MaxIncidents`) at any point of the conversation: a
datagram or an ACK to an end in `Losable` lost, a datagram resent although it
was not lost, or a message of an application, reliable or not; pings without
bound, and unreliable messages to a client that has gone without bound. A session is
stale after one unit and timed out after two, so that both limits race with
pings, pongs and late datagrams. Losses of datagrams to the client are left to
`reply_lost`. In `connection_liveness` only the server pings (`Pinging`): its
pings are the ones that could keep a session of a departed client alive, and they
do not. Messages of the listener's application do: `queue_app_packet` takes every
enqueue for activity (`manager.rs:189`), so an application that goes on sending
keeps a departed client connected for ever. `GoneClientNotServed` is therefore
claimed of runs in which it stops; `GoneClientAlwaysDropped`, without that
condition, is violated by such a loop. The queue limit of the listener (`overfull`) may be exceeded at any tick after a
message was queued. A connection may be over, so deadlock is not an error there.

`offline_handshake`: two clients, one of them over IPv6, tables of two places
each, so that both limits are met by entries that expire late and requests that
come again; two receptions per probe (`HANDSHAKE_RETRIES`, 3 in the code) and
three incidents (`MaxIncidents`): a loss, a datagram taken twice, a timer that
fires while an answer is under way, an entry that expires during its handshake,
a probe or a second request that cannot be sent, a stranger's datagram that uses
up one of the receptions of a probe. First bytes 4 and 5 stand for hashes that start
like an address and those that do not. `max_mtu` lies between two of the probed
sizes, so that each of the three limits on the MTU decides in some run.

`message_session`: segments of two bytes and a count of four values stand for
10000 bytes and 256: messages of none, one, three (the longest) and four (too
many) segments, each sent once by the stream or another task, one place in the
packet channel, and a close of either end at any step. `truncated_message` has
messages of one, two and three segments. A session may be closed
and read to its end, so deadlock is not an error.

`negotiation`: one candidate at each end, one discovery request (`MaxRequests`),
two places in the broadcast channel (`SignalCapacity`, 100 in the code) so that a
subscriber can lag, at most two offers handled (`MaxOffers`), which one duplicate
needs, and one incident (`MaxIncidents`): a loss, a duplicate, an address that
expires, a WebRTC call of `connect` or of `handle_offer` that fails, a change of
the pong data or the drop of the listener.

Fairness (`OfflineHandshake`). A client goes on as long as it waits or a timer
runs, and the listener handles what arrives: weak fairness of `ClientStep` per
client and of `ListenerStep`. Losses, expiries and what sessions do are not fair.
The wait for the second reply starts its 2 s again at every datagram, a stranger's
too (`stream.rs:617-637`); that its timer fires in the end assumes that such
datagrams stop, and `HandshakeEnds` is claimed under that assumption.

Fairness (`NethernetSession`). The data channel's read loop, its handler and the
reading application go on: weak fairness of `OnMessage`, `HandOver`, `RecvCall`
and `RecvReady`. Nothing is assumed of senders or of who closes.

Fairness (`Negotiation`). `connect` goes on and its timers fire (`ConnectTask`), the
signal loop goes on until the listener is dropped (`SignalLoop`), and an offer or
answer that stays under way arrives. Nothing is assumed of discovery, of the
listener's start, of ICE, of when candidates are found and arrive, or of the task
that queues a session and its timers.

Fairness (`Connection`). Each muxer loop goes on taking some event that is ready,
whichever, a datagram that stays under way arrives, and time passes: weak
fairness of `ClientLoop`, `ServerLoop` and `Elapse`. The application's own
actions (send, drop), spurious resends and losses are not fair.

Fairness (`link`). The muxer loops tick every session for ever, so ticks and
the flush are fair; a datagram that stays under way is delivered, and a timer
that is due fires: weak fairness on the actions, given that losses end. `Drains`
is claimed of the sender only. That every message reaches the application is not
claimed, as the reliable tracker drops fresh packets in longer conversations
(run `false_duplicate`).

What the code does against its own comments:

- `false_duplicate`: `ReliableTracker::see` moves its base without its window, so
  a fresh packet is dropped as a duplicate and acknowledged.
- `reply_lost`: ConnectionRequestAccepted is unreliable, no timeout applies in the
  handshake and `connection_timeout` is never read: `connect()` may never return.
- `truncated_message`: `Session::send` yields between segments that carry no
  message identity; after a send that is dropped half way, or beside another
  one, `recv` returns parts of two messages as one.
- `ReliableOnce`: an index behind the base is not recognised as seen.
- `SeenOnSuccess`: packets before a failing one in a datagram are lost, as their
  resend is a duplicate.
- `DrainResetsWeights`: `get_next_weight` reads the weight before it resets it.
- `CloseReported`: the client's tick closes an inactive session without telling
  the application or ending the task.
- `MaxConnections`: the limit is checked when a request becomes pending, and not
  when it becomes a session.
- `ConnectAlwaysEnds`: NetherNet's `connect` waits for the answer without a limit.
- `CloseEndsRecv`: a `recv` that waits when the session is closed never returns.
- without a property: the client sends OpenConnectionRequest2 once, although the
  listener answers repetitions of it (`offline.rs:190`); sessions that are not
  connected never time out and stay in the listener's table
  (`manager/tick.rs:15`); `on_tick` drops what `skip_index` returns
  (`tick.rs:15`), visible in `Inbound` as `lost`.

## Proofs

The theorems hold for every value of the constants that satisfies the `ASSUME`s
of the modules:

- an even modulus of at least 4, capacities and limits that are natural numbers,
  a heap smaller than a lap (`HeapCapacityAssumption`);
- for the receiver, packets whose ordering indexes lie within half a lap of
  `Start` (`InboundAssumption`), numbered as `queue_packet` numbers them: a
  reliable index belongs to one packet and a split id to the parts of one
  message, so that fewer than 2^24 reliable packets and 2^16 splits are spoken
  of; sequenced messages are not sent, as the code cannot encode them
  (`PeerAssumption`);
- for the sender, an MTU with room for a byte of a split message, where the code
  has at least 576 (`OutboundAssumption`), and messages of fewer parts than there
  are numbers (`PartsAssumption`);
- for both together, that the receiver's packets are the ones the conversation
  makes, and that it ends before a number is used twice
  (`ConversationAssumption`);
- at least one reception after a probe (`RetriesAssumption`), first bytes of
  cookies that are bytes (`BytesAssumption`), and callers that are not the stream
  itself (`CallersAssumption`).

Some theorems have a further hypothesis about the course of the session, where
the code does not keep the promise without it. Each is named below with its
reason and with the instance in which TLC finds it to hold throughout.

`SessionLemmas` has the arithmetic of wrapping numbers (distance and addition are
inverse, addition is injective over a lap, within half a lap the serial order is
the order of the distances from its origin: `OrderByOffset`), least and greatest
members, and lemmas about the operators that several models contain: the queue of
ranges (`MergeAdjacentExact`, `MergeOverlapExact`, `SplitExact`, `PushSound`,
`PushCovers`, `PopExact`), the payload on the wire (`WireSound`, `WireComplete`),
the tracker (`SeeTyped`) and the ordering channel (`ReleaseTyped`,
`HandleOrderedTyped`). Folds along a sequence are written as recursive functions.
That such a function exists is `FoldExists`, and facts about it are shown with
`StepInduction`, an induction over a set of numbers instead of a predicate: both
rest on the least counterexample. The same is done for sums over finite sets
(`MapThenSumSet`, for sizes) and for concatenations (`FlattenSeq`, for what is
numbered and what is handed over).

`AckQueueProofs`, while the numbers in the queue span at most half a lap:
`TypeCorrect`, `NothingInventedHolds`, `NothingForgottenHolds`. Both merges, the
split at the wrap and popping are exact on the set of numbers. The inductive
invariant `QueueInv` is the type and the two invariants; the set of numbers is
what makes them inductive, the ranges alone would not.

`InboundProofs`: `InboundTypeOKHolds`, `OrderedDeliveryHolds`, `NoFalseAckHolds`,
`EveryGapNakedHolds`. The inductive invariant `InboundInv` speaks of offsets, the
steps from `Start`. Every packet that waits, in a heap or as the header of a
split, lies in the stretch; every ordered packet handed over, in `delivered` or
still in `out`, lies behind the read index of its channel (`Behind`), and they
come in growing offsets (`InOrder`). `handle_ordered` releases a run of
consecutive offsets that begins at the read index and moves it to the run's end
(`HandleOrderedRun`), `skip_index` only moves it forward, and a datagram that is
abandoned leaves a first part of the same sequence. `OrderedDelivery` alone is
not inductive, as it does not say where the next packet lies. `NoFalseAckHolds`
has the hypothesis `AcksSpan` that the numbers waiting to be acknowledged lie
within half a lap, which the code needs where it merges ranges; pushing, popping,
sorting, splitting and decoding are then followed as sets. `EveryGapNakedHolds`
has the hypothesis `NaksFit` that the NAK queue has room for the gap at hand, as
the code drops what has none, and the same span; the pieces of a gap have exactly
its numbers (`NakRangesExact`), and sorting and encoding lose none
(`SortedComplete`, `WireComplete`). `EveryGapNaked` is then inductive as it
stands, even when the read index completes a lap. Both hypotheses are invariants
of `MCInbound` with its constants and eight places in the queues.

`WholeMessagesHolds`, `NothingVanishesHolds` and `NoSilentSkipHolds`, in the same
module, follow what packets carry as sets of fragments. `WholeInv` says that
everything on its way to the application is a whole message, wherever it is: in a
heap, in `out` or delivered; and that an entry of the split assembler holds, at
each index, the part of that index of the one message its id belongs to (`Honest`).
That entry is what makes it inductive: the part that completes a message says
nothing of the others. `FateInv` extends `NothingVanishes` to the moments between
two packets of a datagram: what the loop has accepted so far, and what the tracker
has marked as seen, is handed over, kept or recorded in `lost`. Without the
tracker's part a duplicate could be dropped with no record of the original. An
index that a read index passes is then one that a release hands over or one that
expiry records.

`OutboundProofs`: `SlotIdentityHolds` and `NoPrematureReleaseHolds`. The
inductive invariant `WindowInv` adds to them that the window is a sequence of
slots over numbers (`WindowShape`) and that it ends before the next number to be
written (`WindowBehindWrite`), without which a new datagram could fall on an old
slot. `WithinLap` is needed: past a lap the code itself would confuse slots.

`OutboundTypeOKHolds`, `DatagramsFitHolds`, `QueuedCanLeaveHolds`,
`QueuedBytesExactHolds` and `BudgetCoversTrackedHolds` rest on `OutboundInv`,
which adds to `WindowInv` the queue, the wire and the sliding window. Every packet
that `queue_packet` makes fits a datagram of its own (`SizedPacket`), and the
congestion window never closes below an MTU (`Windows`): together a queued packet
can leave. `queued_reliable_bytes` is the sum over the heap, which takes that a
packet that is pushed is not in the heap yet (`Fresh`: a message is queued once and
its parts differ) and that no packet is drawn twice (`Draws`). The unacknowledged bytes are at
least the sum over the tracked datagrams; equality would be false, as expiry and
eviction never give bytes back.

`LinkProofs`: `ReleasedWasReceivedHolds`. `LinkInv` puts the invariants of both
halves together and follows an ACK (`AckTrail`): from the datagram the receiver
has handled, which the sender built (`Handled`), through the queue of ranges, the
payload under way and the ranges that wait for a tick, to the slot that is
released. As no number belongs to two datagrams (`Numbered`), the datagram in that
slot is the one that was handled. The hypotheses are `HalfLap`, fewer than half a
lap of datagrams, on which merging the ranges relies, and `WindowFits`, as an
eviction lets go of a datagram for no ACK at all.

`LinkImplementsInbound`: the receiving half of `Link` is a behaviour of `Inbound`,
so that everything proved of `Inbound` under `PeerAssumption` holds of what
`Outbound` sends. `Numbering` says that the write indexes of the sender are the
lengths of the lists of numbered messages (`ReliableUpTo`, `OrderedUpTo`,
`SplitUpTo`) and that only packets of the conversation are queued, built and
received.

`ImplementsChannelHolds`: channel 0 implements `OrderedChannel`, for every
conversation, interleaving of ticks and flushes, and any number of losses,
duplicates and overtakings. The mapping takes the ordered messages queued as sent
and those delivered as given; `QueuePacket` is a `ChannelSend` or a stutter,
`FinishDatagram` a `ChannelGive` or a stutter, and all else a stutter. The
invariant `ChannelInv` speaks of delivered messages and those at hand in one
sequence: the read index of the channel is their number, they are the first
messages of the conversation on this channel, and only messages already sent wait
beyond. It takes `WholeInv`, so that a message that comes out of the assembler is
the one its header names, and the released run of `HandleOrderedRun`. The theorem
has `Malformed = {}`, at least one channel on both sides, and the hypothesis
`RefusedAlone`: when the assembler refuses a part, no message is at hand in that
datagram. Without it the promise is false, as what precedes a packet that fails is
lost (`SeenOnSuccess` above). `ImplementsChannelWithRoom` has no hypothesis about
the course: an assembler with room for the splits of the conversation
(`RoomForSplits`) refuses none. No split expires in `Link`. `HalfLap`,
`WindowFits` and `RefusedAlone` are invariants of `MCLink` with its constants.

`ConnectionProofs`: `ConnectionTypeOKHolds`, `AnnouncedAfterClientHolds`,
`NothingAfterEndHolds`, `ClosedIsFinalHolds`. The inductive invariant
`ConnectionInv` types queues, networks, kept datagrams and channels by whether
the client has joined: before it has, there is no NewIncomingConnection in any of
them, and the server can be connected by nothing else (`JoinedFirst`). Within a
handler the session's queue is not flushed yet; `Busy` is the type of that
moment. An end is told only when the session is given up, and only as the last
word (`EndOfSession`). `Follows` says what every step but the handshake does to a
session, which gives the action property.

`OfflineHandshakeProofs`: `AdmissionBoundHolds`, `OfflineTypeOKHolds`,
`MtuAgreedHolds`, `SessionStableHolds`, `FailsForAReasonHolds`. A request becomes
pending only when there are fewer than `max_connections` sessions and fewer than
`max_pending_connections` entries, and an entry that becomes a session leaves the
table of entries, so the sum of both stays below the sum of the limits
(`AdmissionInv`). The sessions counted are those a handshake made; `SendAfterEnd`
adds others without any limit. For the MTU, `HandshakeInv` says that a cookie
names one entry: replies, second requests and sessions that carry the same cookie
belong to one peer and agree on its size (`ReplyNames`, `RequestNames`,
`SessionNames`), and that it survives the decoder. `SmoothInv` follows a client
that met no incident and was not turned away through its handshake: exactly one
datagram of it is under way at any time (`OnCourse`).

`NethernetProofs`, the session: `SessionTypeOKHolds`, `ShutdownFlushesHolds`,
`ImplementsMessageChannelHolds`. `FlushInv`: every accepted write has left or is
the one under way, and a shutdown begins with nothing under way. The refinement
is proved for `Disciplined` applications, for which alone it holds. `FlowInv`
places sender and receiver in the stream of segments (so many messages whole, and
so many segments of the next), with the segments on their way leading from the
one to the other (`Path`); when the channel is closed they end earlier. From
that, a message that comes out is the next one that was sent (`ChannelStep`).

`NethernetProofs`, the negotiation: `NegotiationTypeOKHolds`,
`NoCandidateRefusedHolds`, `SessionNotStrandedHolds`. The inductive invariant adds
to the types how far the listener is with each offer (`Stage`: while an offer is
handled the loop dispatches nothing, and once it is answered its description is
set), that the client has added nothing as long as it has no answer
(`ClientWaits`), and that a peer connection with a candidate no longer owns the
notifier (`Awake`), so that a first candidate cannot pass its waiting task by,
whichever offer's tasks ran in between.

Model-checked only: liveness (`Drains`, `ConnectReturns`, `GoneClientNotServed`,
`HandshakeEnds`, `AllGiven`, `ConnectEnds`), as fairness is out of the prover's
reach. Every invariant and action property of the passing runs has a theorem,
under the assumptions above.

## Not modelled

Byte layouts, cryptography, builders, error texts, `ServerData` and the text of
SDP have no behaviour of interest here. WebRTC and UDP are external. Not modelled
either:

- the bounds of the channels between muxers and applications (RakNet), and the
  drop of a RakNet listener;
- the error of an ACK payload with more than `MAX_ACK_SEQUENCES` records
  (`ack.rs:111`), which no datagram of an MTU up to 1400 can hold, and the
  branches for an ACK or a NAK inside an encapsulated packet
  (`inbound.rs:132-139`), which no session of this library sends;
- several control packets in one datagram, and the traffic of the other
  direction in `Link`;
- `Session::wait_for_connection`, NetherNet sessions without a reliable channel,
  the shutdown of LAN signalling, Ping messages, more than two nodes.
