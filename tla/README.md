# A TLA+ verification of `ptransfer`

`ptransfer` (crate `ptransfer-cli`) sends one file from one person to another,
without a server of its own.  This directory models the protocols and the
concurrent machinery behind that, checks them with TLC on small instances, and
proves the most important properties with TLAPS for every instance.

Paths below are those of the repository under `src/` (so the crate's code is
`src/src/...`, its design notes `src/docs/ARCHITECTURE.md`).

Contents: [1 the system](#1-the-system) · [2 components](#2-components) ·
[3 the modules](#3-the-modules) · [4 the runs](#4-the-runs) ·
[5 fairness](#5-fairness) · [6 the proofs](#6-the-proofs) ·
[7 where documentation and code differ](#7-where-documentation-and-code-differ) ·
[8 limits](#8-what-is-only-checked-and-what-is-not-modelled) · [9 the plan](#9-the-plan)

## 1 The system

A transfer happens in one of three modes.

* **PIN Exchange** (`webrtc/nostr_sender.rs`, `webrtc/nostr_receiver.rs`).  The
  sender shows a short PIN; the two sides meet through Nostr relays
  (`signaling/nostr.rs`), run SPAKE2 over the PIN, compare a confirmation code,
  exchange WebRTC descriptions and send the file over a data channel.
* **Code Exchange** (`code/`).  Two long codes are carried by hand.  They give a
  direct WebRTC route and, when that fails, a relayed one: the encrypted file is
  cut in chunks that are stored on Nostr relays and fetched from there
  (`code/nostr_file/`).
* **Tor** (`tor/`).  The sender runs an onion service, the receiver connects.

The direct route, Tor and PIN Exchange share one file protocol
(`transfer.rs`): chunks, `DONE`, `ACK`.

```
      person ---- PIN, codes ---- person
        |                            |
   nostr_sender  <-- relays -->  nostr_receiver        PinExchange => Pairing
        |                            |
   offer, answer, candidates (ephemeral events)        Signaling
        |                            |
   webrtc/common <- data channel -> webrtc/common      DataChannel
        |                            |
    transfer.rs  ---------------- transfer.rs          FileTransfer => Delivery

   code/sender  <- codes by hand -> code/receiver      CodeExchange => Delivery
     |   |   \                       /   |   |
     |   |    direct: the channel above  |   |
     |   relays: upload.rs -> chunks -> download.rs    RelayTransfer => Delivery
     |      on relays found, probed, replaced          RelayCache, RelayPool,
     |                                                 ControlRelays
     anonymous: tor/service, tor/transfer              TorDirectory, OnionService,
                                                       OnionTransfer
```

What makes it hard: no party trusts the relays to store, order or return
anything; a publish that "succeeded" did so on some relay, perhaps not one the
peer reads; a rendezvous hint has about 17 bits, so strangers' claims collide
with a transfer; every PIN attempt must be metered although attempts may
overlap with rotation, refresh and replacement; the relayed transfer
re-sends chunks while reports about earlier copies are still underway; its
relays are looked for, probed and swept behind the transfer, on one pool of
sockets that may be closed at any moment; an onion service must outlive its
circuits, its descriptors and the periods of the network it is part of; and the
two sides of a Code Exchange choose their route without telling each other.

## 2 Components

For each: the state it keeps, its operations, what is hard, and what makes it
correct.  `PROJECT.json` lists the same components with their status.

| component | state | operations | hard behaviour | correct when |
|---|---|---|---|---|
| **PIN Exchange handshake** `webrtc/nostr_sender.rs`, `nostr_receiver.rs`, `crypto/pin.rs` | sender: retained PIN generations (element or none, remaining budget), seen claims, lock, rotation timer; receiver: its PIN and hints, claims made, attempt count, session | mint, rotate, refresh; route, verify, reject, replace; lock, confirm, code gate, offer; search, claim, re-claim, match a confirm | claims race with rotation and refresh, colliding transfers, publishes that fail after state changed, time limits on either side | an element is verified at most once, a PIN is tried at most `CLAIM_VERIFY_LIMIT` times, confirmed pairs agree, a refreshed PIN is dead, the gate opens only for the confirmed receiver |
| **Nostr signalling** `signaling/nostr.rs`, and the exchange of descriptions over it in `webrtc/nostr_*.rs` | connected relays, subscriptions; each side's candidates and what it was told | publish, subscribe, one-shot fetch; offer, answer, candidate, publish again | partial publish, any order, repeated contents, lagging subscriptions, sockets that open late | the channel opens if the two can reach each other; repetition does no harm; the safety of the handshake assumes nothing of it |
| **Cryptographic primitives** `crypto/*` | none | SPAKE2, HKDF, AES-GCM | — | a session's seal opens under that session only (taken as given) |
| **Relayed file transfer** `code/nostr_file/upload.rs`, `download.rs`, `control.rs` | sender: placements, generations, walk offsets, misses, give-ups, demoted relays, retry queue, pending re-sends, workers; receiver: last announcement, chunks held | place, announce, take an acknowledgement, re-send, demote; take an announcement, fetch, acknowledge, finish | out-of-order workers, late reports on replaced placements, overtaking announcements, refused control messages | what is announced is stored, each miss is one re-send, healthy relays are not blamed, success at the sender implies the file at the receiver |
| **Chunk and manifest codecs** `code/nostr_file/{codec,events,manifest,z85}.rs` | none | encode, decode, validate | — | round trip (unit tests) |
| **Control relays** `code/nostr_file/control.rs`, `upload.rs` (`promote_loop`) | relays published to and listened to, slots owed, the reserve | open, publish to all, demote, promote, adopt, close | demotion before the ring is known or while a promotion awaits | what is owed is paid while spares last, the receiver hears of every replacement, signals and chunks never share a relay |
| **Relay discovery and cache** `relay_pool.rs`, `relay_cache.rs`, `pool.rs` | health records on disk, pooled sockets, the search underway, ring and reserve | discover, probe, take a ring, sweep; read-modify-write under a file lock; connect, close, shut down | several processes, a process that stops while writing, a shutdown beneath probes, tasks that want one relay | no update lost, a relay in use keeps its socket, a teardown is not recorded against relays |
| **Direct file protocol** `transfer.rs`, `wire.rs` | chunks sent / received, partial file | send chunks, DONE, ACK; append, seal, rename | stall and ACK timeouts, close against DONE, failing file operations | a file in place is whole; the sender reports success only then |
| **Peer connection** `webrtc/common.rs` | channels, send permission, wake-ups, closed flags | create, send with backpressure, receive, close | wake-up between check and wait, close while waiting | no waiter sleeps forever |
| **Code Exchange sessions** `code/{sender,receiver,control,relay}.rs` | offer, responses, chosen route, what is prepared behind the exchange | show, respond, paste, direct attempt, fallback, let go | several receivers of one code, sides that disagree on the route, a code that expires | only the accepted receiver gets the file, success means it arrived, every session ends and leaves nothing open |
| **Tor service** `tor/service.rs` | introduction points, the round of publishing underway, subcredentials, introductions answered | establish, maintain, publish, upload, forget, answer | circuits that close, uploads that end late, two time periods at once, replays | a client with a descriptor in force is answered; the service stays reachable or says that it is not |
| **Tor transfer** `tor/transfer.rs`, `tor/handshake.rs` | the connection served, failed ones counted | accept, handshake, content, receipt, dial again | strangers at the address, a lost receipt and a second connection | only the holder of the password is served; a file counts as sent when its receipt came |
| **Tor directory** `tor/netdir.rs` | the consensus in memory, the event last announced | download, validate, publish, refresh | caches that serve anything, watchers that subscribe at any time | what is used was signed by a majority; no watcher is ended by it |
| **Tor configuration, anonymous signalling, archive, TUI, CLI** | — | glue, file-system I/O, presentation | — | not modelled |

## 3 The modules

| module | models | extends / uses |
|---|---|---|
| `Pairing` | abstract: what the PIN handshake promises | — |
| `Delivery` | abstract: what any transport promises about one file | — |
| `PinExchange` | the PIN handshake, both sides and the relays between them | `Pairing` (INSTANCE) |
| `PinExchange_proofs`, `PinExchange_refines` | its invariant and safety theorems; that it implements `Pairing` | `PinExchange` |
| `Signaling` | from the confirmed pairing to the open data channel | — |
| `Signaling_proofs` | its invariant and its safety theorems | `Signaling` |
| `DataChannel` | the worker loop of a peer connection, the flags and queues of an open channel, `send` | — |
| `FileTransfer` | the file protocol over a `DataChannel`, and the close after it | `DataChannel`, `Delivery` (INSTANCE) |
| `FileTransfer_proofs` | invariants, safety theorems, refinement of `Delivery` | `FileTransfer` |
| `RelayTransfer` | the relayed transfer, both sides and the relays | `Delivery` (INSTANCE) |
| `RelayTransfer_proofs` | invariants, safety theorems, refinement of `Delivery` | `RelayTransfer` |
| `RelayCache` | the cache file several processes change | — |
| `RelayPool` | sockets, probes, the control relays and the ring, the sweep | `RelayCache` |
| `ControlRelays` | the relays a transfer signals on, over the pool | `RelayPool` |
| `ControlRelays_proofs` | invariants and safety theorems of the three | `ControlRelays` |
| `TorDirectory` | the network directory in memory | — |
| `OnionService` | the onion service above it | `TorDirectory` |
| `OnionService_proofs` | invariant and safety theorems of both | `OnionService` |
| `OnionTransfer` | one file over an onion service | — |
| `CodeExchange` | the sessions of a Code Exchange and `tor send` / `tor receive`, over every route | `OnionTransfer`, `Delivery` (INSTANCE) |
| `CodeExchange_proofs` | invariant, safety theorems, refinement of `Delivery`, for both | `CodeExchange` |
| `MCPinExchange`, `MCRelayTransfer` | instances for TLC (the other modules need none) | |

Operators named `Bug...` are wrong variants of the definition that follows
them; nothing uses them.  Each is a plausible mistake that the property named
beside it in `PROJECT.json` ("mutants") must catch.

### PinExchange

*State and code.*  A sender is a position `spc` in `send_file_nostr` and
`wait_for_verified_claim`, plus the fields of those functions: `gens` is
`generations`, whose members are `PinGeneration` (`run` is the SPAKE2 element
on offer or `None`), `seen` the claim events handled, `handling` the claim
under verification, `locked` the verified one, `draft` the generation whose
publish is awaited.  A receiver is a position `rpc` in `receive_file_nostr`
and `wait_for_confirm` with `claims`, `claim_attempts` and its session.  The
relays are four growing sets: `board` (rendezvous), `posted` (claims),
`confirms`, `offers`.  `retired` and `spent` are history.

*Atomicity.*  An action runs from one `await` to the next.  A publish is two
actions, so that anything may happen while it is underway: the state change and
the event's arrival, then what the caller is told.  It may land and be reported
failed, or be reported accepted without being where the peer reads
(`RelayFaults`).  The exception is a publish whose only later effect is the
caller's position (confirm, offer): one action for each result.

*Abstractions.*  A SPAKE2 session is the claim it was derived by; a seal or a
code matches exactly when the session does.  Time is the 2-minute PIN bucket,
one clock for all; `due` is the rotation timer.  Time limits other than the
bucket are choices (`Timeouts`).  The operator's choices (refresh, typing a PIN,
accepting, comparing the code) are actions.  Delivery is any posted event, in
any order, any number of times, or never: events stay in the sets, which is
also how a relay's backlog and duplicates behave, and `seen` is what stops
them.

The module ends when the receiver has an offer to answer, and is taken up by
`Signaling`.

### Signaling

*State and code.*  `pc` says where `send_file_nostr` and `receive_file_nostr`
stand after the pairing; `queued` is `queued_candidates`, `described` and
`known` what a side's peer connection was given, `own` the candidates it has
gathered.  `air` holds the contents published and not yet read: every
publication is a new event with a fresh nonce, so `seen` (which filters copies
of one event) does not filter contents published again.  The channel's end at
the receiver has the stack's queues (`opening`, `reads`), the worker's map
(`registered`) and the channel's `message_rx` (`inbox`).

*Publishing.*  Each side publishes its description and candidates at once and
again every five seconds, the sender until it has the answer, the receiver
until the channel is there.  Events of this kind are not stored, so they reach
a side only while it listens, over a relay both have a socket to.  A publish
addresses the open sockets, or the whole pool where none is open; sockets open
late.  At most `MaxLost` signals are lost otherwise, or skipped by a
subscription that lags.  The one-shot `fetch` finds nothing of this kind and is
left out.  A publish that no relay accepts ends the session.

*Abstractions.*  A description carries no candidates of its own (the least the
library may do).  Which candidates lead through is the networks' choice
(`reach`).  Signals of strangers do not open under the session's key and are
left out.  The receiver's worker registers a channel before it hands it over,
so taking the channel is one action after it.  A side that ends loses its peer
connection.

### RelayTransfer

*State and code.*  The sender's variables are the fields of `UploadState` in
`upload.rs` (`placed`, `generation`, `next_offset`, `misses`, `give_ups`,
`demoted`, `next_chunk`, `retry_queue`, `pending_retry`), `job` is what each
worker is doing inside `place`, and `outcome` the first value on `outcome_rx`.
The receiver's are those of `download.rs` (`rpc` the step of `run`, `view` the
last announcement taken, `have` the chunks held).  `stored` is what the ring's
relays have accepted.

*Control channel.*  `control.rs` numbers messages and refuses one whose number
is not above the last taken.  Two sequences hold the messages underway; taking
the k-th drops the earlier ones, which the counter would refuse.  Loss is
decided when a message is sent, and a publish refused by every control relay
ends the run, as in the code.  Duplicates are refused by the same counter and
need no action.

*Chunk relays.*  A relay may refuse a chunk, accept it and forget it, or accept
and serve.  A relay in `Reliable` does the last always; the others are
unrestricted.

*Atomicity.*  Workers share their state under one lock; an action is one
critical section (`TakeWork`, `TryRelay`, `ChunkAccepted`, `ChunkRefused`), so
a chunk's publish is two actions and anything may happen between.  A fetch
cycle of the receiver is three (`TakeAvail` or `RetryClock`, `Fetch`,
`SendAck`), because the sender goes on meanwhile.

*Abstractions.*  A chunk is its index, an announcement the function from the
announced prefix to placements (position and generation); sealing and
compression are left out.  Idle timers, the sender's watchdog and the
receiver's window are choices (`Timeouts`).  Which relays carry the control
messages is `ControlRelays`' matter; here "every control relay refuses" is one
event.

### RelayCache, RelayPool and ControlRelays

One specification in three layers: each module extends the one before it, and
`ControlRelays` has the specification the runs check.

*RelayCache.*  `file` is the cache on disk (who is proven, who failed how often
in a row, the candidates of the last transfer), `updates` the
`update_locked` calls underway in this process and another.  A change reads the
file again under the lock, applies itself and renames the result into place;
the other process may stop in between, which leaves the file as it was.  Where
the directory cannot be used a change is made to an empty cache and dropped.

*RelayPool.*  `pool` is `FilePool`: the flag of the shutdown, the book of open
relays and, apart from it, the sockets the Nostr client really has, because a
connect that fails drops the socket whoever else uses it.  `tasks` are those
inside `ensure` or using a socket: probes, uploaders, a promotion.  `job` is
what the preparation is doing: probing the seeds, searching for control relays,
then for the ring, then sweeping what is left, each with its discovery, its
probes and its updates of the cache.  These follow one another in one task, so
there is one `job`; its probes run at once.  The ring is prepared while the
exchange is undecided (`route`); a direct channel or an error discards it.

*ControlRelays.*  `active` and `known` are `ControlRelaySet`, `told` the
demotions in `promote_loop`'s channel, `due` and `owed` its wake-up and what it
owes, `heard` the receiver's relays.  A message goes to all of `active` and is
heard over any relay that took it and the receiver listens to.

*Abstractions.*  Latencies, the ring's cursor, expiry and the caps on
candidates only order or trim relays: the order is open and nothing is trimmed.
Discovery returns any set of the relays there are.  A probe of a relay in
`Reliable` fails only when the pool is taken from under it.  Probes at the
small size (the seeds) and at full size are one action with one verdict.  The
share of refusals that condemns a control relay is a choice.

### TorDirectory and OnionService

*State and code.*  Time counts consensuses, and the device's clock is right.
`dir` is `MemoryNetDirProvider.current`, `event` its watch channel, `task` where
`bootstrap` and `keep_current` stand; a document is how many signers it names
and how many signatures verify, and caches serve any document.  `download` is
two actions, because time passes between them: `FetchConsensus` checks the
consensus, timeliness included, and `Install` has fetched its microdescriptors
and publishes whatever has become of it, also when the directory it replaces is
newer.  `watcher` is Arti's vanguard manager as the comment in
`MemoryNetDirProvider::new` describes it: on `NewConsensus` it asks for a timely
directory and stops for good on `NoInfo`, `DirNotYetValid` or `DirExpired`.
What the circuits lose when it has stopped is Arti's and not modelled.  The service's
variables are `intro_points` with the circuits behind them (`points`, `open`),
the round of `publish` underway (`job`), uploads in the background (`uploads`),
the revision counter, the subcredentials held (`subs`), the queue of
introductions, the one taken off it that waits for a permit (`taken`) and the
replay set.  `floor` and `timely` are history.

*Atomicity.*  A round is one action per period, one per upload that ends and
one for its end.  Uploads of a period start at once; the round goes on with the
first success and the others end later, perhaps after a newer descriptor's.  An
HSDir keeps the highest revision.  A pass of the maintenance loop begins
`INTRO_CHECK_INTERVAL` (30 s) after the last one ended, and an upload ends within
`UPLOAD_TIMEOUT` (60 s), so of two rounds at most are uploads underway: when a
pass begins, only those of the last round.  A consensus comes between two
rounds.

*Abstractions.*  Each consensus starts a time period, so that what the service
does hourly and what it does daily meet in a small instance.  Circuits, cells
and the client's own machinery are `arti`'s and external.  Faults of the network
(fewer introduction points than asked for, uploads that fail, circuits that
close, rendezvous points out of reach, bad documents) are counted by `faults`.
`AllPeriods` is the current period and the coming one; the code's list has the
one that has just come off instead of the coming one for half of each period,
which only adds descriptors nobody looks for.

### OnionTransfer and CodeExchange

*OnionTransfer* is `serve_until_sent` and the two halves of the handshake.  The
conversation takes turns, so a stream holds at most one frame; a stream that is
cut or closed may still deliver it or not.  Streams are served one at a time, a
connection that did not deliver is counted, and `MAX_FAILED_HANDSHAKES` of them
end the wait.  The file's content is one frame, since `FileTransfer` models what
goes on in it.  Only a client with the password produces a claim that opens.

*CodeExchange* has the sender's session, one session per receiver that took a
copy of the code, and strangers who come by the onion address.  `mode` is the
fallback (relays, anonymous, or none), or `"by hand"` for `tor send` and
`tor receive`, where address and password are carried by people and the rest is
the same.  `pool` and `tor` are what is started behind the exchange and must be
given up again on every way out.  A response is what the operator pastes: of
any receiver, whole or edited, to this offer or another.  The direct route and
the relays are one step here (`TakeFile`), which stands for `FileTransfer` and
`RelayTransfer`; either side may fall back, or not, without the other.

### DataChannel and FileTransfer

*State and code.*  Each end has the four things `new_channel_parts` shares
between `run_peer` and the owner of the channel: `inbox` (`message_rx`),
`closed`, `allowed` (`send_allowed`) and `woken`, which says whether
`send_ready` has been notified since the owner's last call of `notified()`.
`call` is where `RtcDataChannel::send` is.  `running` and `up` say whether
`run_peer` has returned and whether the stack still has the channel.  The
positions `pc` are those of `run_sender`, `wait_for_ack` and `run_receiver`;
`part` and `saved` are the `.part` file and the file at its destination.

*Atomicity.*  `send` runs on another thread than the worker, so each of its
reads is an action: `notified()`, `closed`, `send_allowed`, the wait, the
hand-over.  In the worker an action is one event handled or one command taken;
it takes a command only when it has handled every event
(`TakesCommand`), which is what bounds the buffer.  A send that is
dropped by its stall window leaves a command the worker may still carry out
(`Abandon`).  `Persist` is one action up to the hand-over of `ACK`, since
nothing else looks at the file in between; its failure is another.

*External.*  The stack (crate `rtc`) is modelled from its use: it buffers what
it is given, raises an event when its buffer crosses a watermark and when the
channel closes, and moves messages to the peer.  With `Reliable` it does so in
order; without, it may drop and reorder, which `Messenger` says "breaks the
transfer rather than degrading it".  The two ends notice a close
independently.  A message in the buffer of an end that closes is lost.

*Abstractions.*  The buffer is counted in messages, the payload in chunks; a
chunk is its number and its position in the payload, which differ only if
numbers are reused.  Encryption binds them, so contents cannot change.
Compression, lengths and the byte count in `DONE` are abstracted to "is this
the message expected"; a failing write, decoder or check is `FileFaults`.  Time
limits are choices (`Timeouts`).  The 200 ms the receiver waits before it
closes are taken to be enough on a network that works: without that assumption
its `ACK` may be lost, the sender reports a failure for a file that arrived, and
only safety remains.

### Pairing and Delivery

`Pairing` says: a sender has at most one partner, over a PIN it still honours;
the partner learns of it afterwards; the transfer opens last.  Its variables
are what a user sees, the refinement mapping is at the end of `PinExchange`.
`Delivery` says: the receiver holds the file whole or not at all, the receiver
reports success only if it holds it, and so does the sender.  Failure is always
allowed, also with the file in hand; that is a real outcome of the code.

## 4 The runs

State counts are distinct states found by TLC.

| run | states | instance | shows |
|---|---|---|---|
| `pin_faults` | 723 000 | 1 sender, 2 receivers, 2 PINs with one hint, budget 2, 2 attempts, 3 buckets, all faults and time limits | `TypeOK`, `SingleUse`, `GuessBudget`, `Agreement`, `RefreshRetires`, `LocksOnlyActivePins`, `ImplementsPairing` |
| `pin_two_senders` | 879 000 | 2 senders, 2 receivers, 2 PINs with one hint, 2 candidates per search, time limits | `GateOnlyForConfirmed`, `AnswersOwnOffer` |
| `pin_live` | 101 000 | 1 sender, 2 receivers, 2 PINs, no faults, no time limits, fair | `Converges`, `LockIsConfirmed` |
| `signaling` | 203 000 | one relay whose sockets open late, one address beside the loopback, one signal lost, 2 first messages, every error and time limit, fair | `RepeatsAreHarmless`, `FirstMessagesArrive`, `Connects` |
| `relay_faults` | 2 300 000 | 2 chunks, 2 relays, 1 worker, nothing reliable, all faults and time limits | `AnnouncedIsStored`, `ImplementsDelivery` |
| `relay_reliable` | 67 000 | 2 chunks, 3 relays of which one reliable, 2 workers, 2 messages underway each way, fair | `MissesAreResends`, `ReliableNeverBlamed`, `AlwaysDeliverable`, `Completes` |
| `relays_health` | 481 000 | 3 seeds and 3 other relays of which 4 fail at will, 2 control relays, a ring of 1, a reserve of 1, 3 probes at once, 2 uploaders, another process, a shutdown at any time | `TeardownBlamesOnlyOrphans`, `CarriersStayOpen`, `RingApartFromSignals`, `UpdatesCompose`, `EveryDemotionAnswered` |
| `relays_reserve` | — | violation | see section 7 |
| `file_faults` | 86 000 | up to 3 chunks, numbers for 2, watermarks 0 and 1, a transport that loses, reorders and may stop for good, closes, file faults, time limits, fair to the program only | `TypeOK`, `SavedIsWhole`, `ImplementsDelivery`, `NobodyWaitsForever`, `CloseReleasesSender` |
| `file_live` | 5 300 | up to 6 chunks, numbers for 5, watermarks 1 and 2, a transport as `Messenger` demands it, no faults, no time limits, fair | `BackpressureHolds`, `Completes` |
| `onion_service` | 801 000 | 2 authorities, 3 consensuses that are valid for one tick, no tolerance, 2 relays, 2 HSDirs of which one tracks the next period, 1 client, 2 introduction points, queue, permits and replay set of 1, 1 fault, fair | `TrustedDirectory`, `WatchersSurvive`, `NobodyTurnedAway`, `StaysReachable` |
| `code_exchange` | 233 000 | 2 receivers of one code and a stranger, all modes, 2 dials, 2 failures, 1 stream cut, fair | `ImplementsDelivery`, `OnlyTheAccepted`, `ReleasesFallback`, `EveryoneReturns` |

*Why these bounds.*  Three buckets are one more than a PIN lives, so rotation,
expiry and a stale claim all happen; two PINs are a fresh one and an old or a
stranger's; a budget of two has a first failure with a replacement and a last
one without; two attempts are a claim and a re-claim.  Two receivers give every
race about one element, two senders every collision of a hint.  Two chunks are
a prefix that is shorter than the whole; with a ring of three a walk passes a
bad relay, a demoted one and reaches a good one; demotion after two misses
happens within the re-sends allowed.  Two messages underway overtake each
other.  A payload longer than the numbers reach is in `file_faults` and
`file_live`; with watermarks 1 and 2 and six chunks the buffer
crosses both several times and a sender waits for room more than once.

In `signaling` one relay whose sockets open late already gives a publish that
reaches nobody, one that reaches everybody, and (with one loss) one that reaches
the peer in part; a host and a reflexive candidate give a side something that
leads through and something that does not.  In `relays_health` the control
relays are one fewer than the seeds, so that a seed is left over for the cache
to name as a candidate for the ring; three probes at once against a ring of one
leave relays over for the reserve, so that promotions happen (in the source both
numbers are 16, as in `relays_reserve`, see section 7).  Two control relays with
one as the minimum allow one demotion until a replacement comes.  In `onion_service` one
tick is a whole time period.  A consensus is used for two of the three, so that a
directory runs out while its microdescriptors are fetched, while it waits to be
announced, before a manager asks for it and beneath a service that runs, and a
refresh replaces it or comes late; two changes of period are what it takes for a
subcredential to be forgotten.  The one fault is any of those the network may
commit; one client with one repetition fills every queue of size one.  In `code_exchange` two failed connections out of two
end the wait, so that a stranger can use up one of them; two dials are a first
one and a retry after a lost receipt.

Two branches are not reached by `relays_health`: too few control relays found
(`s1` is reliable), and the defence of `promote` against a relay it already
knows or a set that is full (`DemotionsKept` shows that it cannot be).

*Deadlock* is not checked: every protocol here ends, and a person may type
nothing.  What must go on is stated as a liveness property.

*Symmetry* is used over receivers, colliding PINs and workers, in runs without
liveness.

## 5 Fairness

`PinExchange!FairSpec` is fair to what the event loops do unasked: a publish
returns, a delivered event is handled, a subscribed event is delivered.
Nothing a person decides, no time limit, and not the clock.  The instance has
relays that lose nothing, since a claim lost by every relay is lost for good.

`RelayTransfer!FairSpec` is weakly fair to each worker, to the publishing of
announcements (the heartbeat repeats them), to each side's taking of messages
and to the receiver's cycle; publishes and fetches end because each has a
timeout.  Strong fairness is used once, for taking an announcement: the
receiver polls its messages before it sleeps, but the retry clock may start a
cycle in between, which disables the action for a moment.  `Completes` assumes
a reliable relay, working control relays and patience.

`Signaling!FairSpec` is weakly fair to both programs, to the reading of a
subscription, to the worker's loop, to a relay's socket opening at last, and to
ICE once a check can get through; not to losses, errors or time limits.
`Connects` needs no patience: it excepts a side that gives up.

`ControlRelays!Spec` is weakly fair to the process's own tasks and to the
announcements, which a heartbeat repeats; the end of the route, of the transfer
and every demotion come when they come.  `EveryDemotionAnswered` needs one
reliable control relay, because a set that shrinks to relays the receiver does
not hear would otherwise never be heard of.

`OnionService!ServiceSpec` is weakly fair to the service task, to uploads, to
the task that keeps the directory current and to the clock; faults are bounded,
so they stop.  Nothing is
assumed of clients.

`CodeExchange!Spec` is weakly fair to each side's tasks, to the timers behind
them (a route's window, the handshake's time limit, the receiver's linger) and
to the expiry of the code; not to operators, strangers or the network.

`FileTransfer` has two.  `ProgramFairness` is weakly fair to the worker loops,
the steps of `send`, the two tasks and the close after them; a wait that has a
time limit ends when the instance lets time limits pass.  It is not fair to any
failure.  `NetworkFairness` adds that a message buffered on a live connection is
eventually transmitted.  `FairSpec` has both; `StalledSpec` only the first, so
the network may stop for good, which is what stall windows are for.

## 6 The proofs

`PinExchange_proofs` proves, for any sets of senders, receivers and PINs, any
hints and any limits:

| theorem | statement |
|---|---|
| `Invariance` | `Spec => []IInv` |
| `TypeCorrect` | `Spec => []TypeOK` |
| `AgreementHolds` | a confirmed receiver and its sender hold the same session |
| `SingleUseHolds` | no spent element is on offer |
| `RefreshRetiresHolds` | no PIN from before a refresh authenticates |
| `GateHolds` | the gate opens for the confirmed receiver only |
| `AnswersOwnOfferHolds` | only the offer of the receiver's own session is answered |
| `GuessBudgetHolds` | no PIN grants more guesses than its limit, and what is left of it is exact |
| `LocksActive` | a claim locks only under a PIN that is active then |

and `PinExchange_refines` proves `Refinement`: `Spec => ImplementsPairing`.

*Assumptions*: `LimitsAssumption` (limits are naturals, at least one
verification and one candidate) and `NoneAssumption` (`None` is no PIN, claim,
element, ...).

*The inductive invariant* `IInv` is `TypeOK` and seven parts.  The properties
are not inductive by themselves: `Agreement` needs to know that a confirm on a
relay was made by a locked sender and that locks do not change (`SessionInv`,
`PcInv`); `SingleUse` needs that elements are numbered and generations of
different PINs never share one (`RunInv`); `RefreshRetires` needs that the
generations left after a refresh are of PINs displayed later, which needs that
a PIN is never drawn twice (`PinInv`), and that a claim under verification
targets a retained generation (`ClaimInv`).  `ClockInv` (no generation of a
future bucket) is what makes expiry irrevocable, as the refinement needs;
`FiniteInv` lets candidates be counted.  Two theorems add an invariant of their
own to `IInv`: `MeterInv` (what a generation has granted and what it has left
make the limit, whichever of its elements was spent) for the guess budget, and
`DatedInv` (all elements of a PIN are of the bucket it was displayed in, those a
claim in hand has taken included) for the locks.  Each part has one lemma per side
(`SenderPcStep`, `ReceiverPcStep`, ...), with one step per action; `InvStep`
combines them.

*The refinement* maps a sender's honoured PINs to its retained active
generations, the partner to the lock, acceptance to the receiver's session, and
openness to the positions past the gate.  A clock tick maps to `Retire`, a fresh
PIN to `Issue`, a refresh to `Issue` or `Retire`, a lock to `Pair`; the rest
stutter.

`FileTransfer_proofs` proves, for payloads, numbers and watermarks of any size,
reliable transports and those that lose and reorder, with and without faults:

| theorem | statement |
|---|---|
| `Invariance` | `Spec => []IInv` |
| `TypeCorrect` | `Spec => []TypeOK`; no chunk is numbered beyond the index |
| `SavedWhole` | a file in place is the payload |
| `Refinement` | `Spec => ImplementsDelivery` |
| `Backpressure` | the buffer exceeds its high watermark by at most two messages |
| `WakeupsKept` | a sender parked for room has been woken, or will be by what is still underway |

*Assumptions*: `WatermarkAssumption` (the low watermark is below the high one),
`FileAssumption` (sizes are naturals, at least one number) and `NoneAssumption`.

*Its invariant*.  That the saved file is the payload needs to know what is on
the wire: `WireInv` says that whatever is in a buffer, an inbox or a call was
said by that end, chunks whose number is their position, a `DONE` that counts
the payload, an `ACK` only once the file is in place.  `SentInv` keeps the
count within the payload and the index, `FileInv` says the partial file is a
prefix.  Since every step of the channel preserves "all of this sequence is in
S" for any S, the channel's part is proved once (`WorkerWire`, `TaskWire`) and
used for both directions.  `Backpressure` adds `RoomInv`: above the watermark
the flag is down or will be once the pending events are handled, and one
message higher no command can be underway that read it up.

`WakeupsKept` (`NoWakeupLost`, stated in the proof module) is the part of
`Completes` and `CloseReleasesSender` that is not about fairness: whenever a
sender is parked in `wait_for_room`, its wake-up is there, or a worker that runs
has still to handle the event that gives it, or the channel is up with more than
the low watermark in its buffer, so that the event is still to come.  `WakeInv`
says why: between taking its ticket and parking, a sender that missed the flag
or the close has been woken in between; a worker only stops having closed the
channel; and the flag is down, or coming down, only while the buffer has to
shrink for it to go up.  The last part rests on `RoomInv`.

`Signaling_proofs`, for any relays and addresses, any number of losses and of
first messages:

| theorem | statement |
|---|---|
| `Invariance` | `Spec => []IInv` |
| `RepeatsHarmless` | no session is ended by a description that was published again |
| `FirstMessages` | the receiver's owner reads the messages from the first on, without a gap |
| `CandidatesApplied` | a side with the other's description has no candidate waiting in its queue |
| `CandidatesKept` | while a side goes on, it forgets no candidate and uses every one it reads |

`DescribedInv` ties "the stack has a description" to the position of each side,
which is what makes `RepeatsAreHarmless` inductive.  The stream has three
phases, one of which always holds: nothing is underway (`BeforeLink`); the
opening is, or is among the events, and behind it everything sent
(`OpeningUnderway`); the channel is registered, and inbox, stack and flight
together are 1, 2, ..., `sent` (`AfterOpening`).  Losing a message would need a
step from the second phase that reads before it registers.

The last two are what `Connects` rests on besides fairness: a candidate is lost
on the way or skipped by a reader that lags, never by the side that takes it.  A
candidate taken while the stack has no description, or left in the queue once it
has, could be lost for good: the sender's own are not published again once it
has the answer.
`CandidateInv` ties the queue and the position of each side to the description.

`ControlRelays_proofs`, for any relays and processes and any sizes of control
set, ring and reserve:

| theorem | statement |
|---|---|
| `Invariance` | `Spec => []IInv` |
| `UpdatesNeverLost` | every change of the cache file applies one update to what it held |
| `RingApart` | the ring holds neither a seed, nor a relay signalled on, nor one of the reserve |
| `CarriersKept` | what carries the transfer stays open until the shutdown |
| `TeardownBlames` | only an orphaned preparation records a failure of a relay that takes everything |
| `DemotionsKept` | what is published to, told and owed adds up to the offer's set; no debt sleeps beside a spare |

`CacheInv`: one holder of the lock, and what it read is what the file still
holds; no update names a seed as found.  `JobInv` and `TasksInv`: after the
seeds nothing probed is a seed, and nothing probed for the ring is a control
relay.  `RingInv`: whatever the transfer signals on was named by the offer or
came out of the reserve.  Without the first part the cache could bring a seed
back as a candidate, without the others a late probe could.

`CarriersKept` adds `OpenInv`.  `SocketInv`: a relay in the pool's book, or being
connected to, has its socket, and one task connects to it.  `ProbeInv`: no relay
is probed twice in one job, and nothing that carries the transfer is probed.
`CarrierInv`: uploaders and promotions open relays of the ring and the reserve
only.  So whatever closes a relay has it to itself.  `TeardownBlames` adds
`RouteInv` (what goes on after the shutdown is the sweep, which reads the flag
before it keeps a verdict, or an orphan) and `BlameInv` (neither the file, nor a
change underway, nor the job's own record holds a failure against such a relay).

`DemotionsKept` (`DemotionsAccounted`, stated in the proof module) is the safety
core of `EveryDemotionAnswered`.  While the transfer is relayed, the relays
published to, the demotions still in the channel and the replacements owed
together are as many as the offer named, counting the spare that is being opened
twice; `MinControl` relays stay; what the sender listens to is the offer's set
and exactly the spares taken from the reserve; and with a spare left and
something owed the promotion loop has been woken.  It needs `SizeInv`: control
set, reserve and what probing learns are finite and as large as the code caps
them, and the reserve is apart from the control relays.  A consequence is that
the two defences of `promote` (a relay it already knows, a set that is full)
never apply, which is why no run reaches them.  `PayInv` adds that there is at
most one promotion at a time and that nothing is owed outside a relayed
transfer.

`OnionService_proofs`, for any lifetimes and any authorities, relays, HSDirs and
clients:

| theorem | statement |
|---|---|
| `Invariance` | `ServiceSpec => []IInv` |
| `Trusted` | the directory in use was signed by a majority of the authorities |
| `WatchersLive` | `ServiceSpec => WatchersSurvive`: a manager is stopped only by a directory that was timely when its consensus was fetched and has run out since |
| `NotTurnedAway` | no client is refused for a period the service had not to forget |
| `QuietReachable` | a service whose maintain loop has nothing to do, on a directory of the period clients search, is reachable |

`DirectoryInv` says that a consensus underway or installed passed every check
when it was fetched, and that a directory precedes its announcement.  `PeriodInv` says of
every descriptor stored, underway or about to be built that its period is held
or lies below the floor; `ClientInv` carries that to what clients hold and to
what waits in the queue or for a permit.  Keeping it over `RoundEnds`, which forgets, needs that
a round publishes two periods that follow one another.

`QuietReachable` is what `StaysReachable` rests on besides fairness: the loop's
only fixed points are states in which clients find the service, so that it need
only come to rest.  `RoundInv`, which TLC checks on the instance of
`onion_service`, says of every descriptor stored or underway that it is of a
round that was started, and that one of the newest round names the points there
are now, nothing being stored before the first; of the round underway that a
success it counts is a descriptor of the newest revision on the ring of the
current period; and of a service at rest that the last round left such a
descriptor.  An upload of the round before that lands late is why revisions are
compared: with an HSDir that takes whatever comes last the statement is false.

`RelayTransfer_proofs`, for any file, ring and number of workers, whatever relays
and control messages do:

| theorem | statement |
|---|---|
| `Invariance` | `Spec => []IInv` |
| `Announced` | what an announcement says of a chunk is true |
| `Refinement` | `Spec => ImplementsDelivery` |
| `Resends` | the misses charged are the re-sends made and pending |
| `NeverBlamed` | a reliable relay is never charged and never demoted |
| `Deliverable` | with a reliable relay the transfer is not given up for want of one |
| `ChunksKept` | every chunk is ahead, in one worker's hands, queued or settled, and only one of these |
| `ResendsLimited` | no chunk is re-sent more often than the limit |

`PlacedInv`: a chunk recorded as placed is stored there, and the ring is known.
`TalkInv`: every message underway is one its side may say: an announcement that
is true and stays true, since nothing leaves `stored`; "done" only from a
receiver that holds everything.  `HaveInv`: what the receiver fetches was
announced.

*The accounts.*  `Resends`, `ChunksKept` and `ResendsLimited` rest on `WorkInv`:
a chunk is not reached yet, in the hands of one worker, waiting in the queue
(once), or placed, and it is pending exactly while it waits or is being placed
again.  So one acknowledgement is charged with misses of different chunks, none
of which waits already (`Chargeable`).  That the charges then add up is an
induction over the entries of the report and over the relays of the ring.  The
induction rule of the library cannot be instantiated here, but its ground can:
`WFMin` over the naturals gives the least counterexample, and the lemmas about
`SumFunction` and the charging (`ChargedUpTo`) refute it.  `ChunksKept`
(`NoChunkForgotten`) and `ResendsLimited` (`ResendsWithinLimit`) are stated in
the proof module.

*The reliable relay.*  `NeverBlamed` adds `FairInv`: no report underway, nor one
the receiver may yet make, names a placement on a reliable relay, because what
was announced there is stored there.  `Deliverable` adds `WalkInv`, a potential:
the times a chunk has been placed (`Attempts`), with the steps from its next
position to a reliable relay (`Steps`), stay below the size of the ring as long
as it is not placed on a reliable one.  Each failure spends a step, so a walk
reaches the reliable relay before it has tried them all, and before the re-sends
are used up; once placed there, it is not reported.

`CodeExchange_proofs`, for any receivers of the code and any strangers, over
every route, whatever is cut, refused or abandoned:

| theorem | statement |
|---|---|
| `Invariance` | `Spec => []IInv` |
| `OnlyAccepted` | the file and its description reach the accepted receiver only |
| `Refinement` | `Spec => ImplementsDelivery` |
| `Released` | no way the sender ends leaves the relay sockets open |

None of the properties is inductive: that an acknowledgement comes from the
accepted receiver rests on who held the password when the claim was made, three
messages earlier.  `Admitted` carries that from the claim's check through the
confirm to the client that saves; `TrustInv` ties the password and the file to
the response that was accepted; `HeldInv` says every sign that the file has
arrived (a saved client, an "ack" on a stream, an end reported as success) comes
after it; `RouteInv` says where a receiver stands when its client moves, and
that only a response that was shown is accepted.  The lemmas under "One file
over an onion service" say what a client, the network and the service can do to
a stream, and the invariant follows from those alone.  Each step of the exchange
then is `SenderStops`, `ReceiverStops`, `FileTaken` or `Silent`: the two sides
deciding on different routes makes both of them end, never the file count as
delivered.  `Released` needs one more invariant, `LetGo`.

*Assumptions* of these five are the named ones of the modules:
`LoopbackAssumption`; `CacheAssumption` and `PoolAssumption`;
`DirectoryAssumption`; `ServiceAssumption` (a rollover HSDir is one of the
HSDirs, relays are finitely many, `None` is no descriptor and no round);
`SizesAssumption` and `NoneAssumption`;
`OnionTransferAssumption` and `CodeExchangeAssumption`.

## 7 Where documentation and code differ

One run shows a behaviour the code has and its documentation excludes.

* `relays_reserve`: `Ring::reserve` is documented as "the fastest proven relays
  the ring did not need, held back as control replacements"
  (`code/nostr_file/relay_pool.rs:518`, also `mod.rs:180`).  The search for the
  ring stops as soon as as many relays are healthy as the ring takes, and no
  more are probed at once than that, so the reserve is always empty and
  `promote_loop` never has a relay to promote, even when the search for control
  relays has proven more.

Met while modelling, without a run of their own:

* `PinGeneration.run` is documented as `None` until the replacement's publish
  has landed (`webrtc/nostr_sender.rs:80`).  It is set before the publish
  (`:448`) and stays set when that fails, until the next rotation.
* The walk is documented as making "a re-send land somewhere else"
  (`upload.rs:523`).  When every other relay is demoted, the first relay tried
  is the one that failed (`:546`).
* "Clean up the partial file on any failure path." (`transfer.rs:287`).  Flush,
  sync and rename come after the last clean-up (`:316`) and return early, so a
  failure there leaves `<dest>.part` behind.
* `Messenger::recv` is documented as giving `None` once the transport is closed
  (`transfer.rs:49`).  When the stack reports a close, the worker wakes senders
  but keeps the inbox open until it stops itself (`webrtc/common.rs:454`), so a
  receiver waits until its stall window ends.
* "Offer and answer bundles are republished while the P2P connection is pending
  so relay misses do not strand the session" (`docs/ARCHITECTURE.md:192`).  The
  sender stops once it has the answer: a candidate of its that was lost by then
  stays lost.  `Connects` therefore asks that the receiver can be reached, or
  already knows a candidate that leads to the sender.
* A relayed transfer that ends before its ring has resolved does not abort the
  preparation, whose probes fail against the closed pool and are recorded as the
  relays' failures: the exception (`orphan`) of `TeardownBlamesOnlyOrphans`.
* `DONE` is handed over without a stall window (`transfer.rs:128`): a sender
  whose buffer is full on a network that has stopped waits there until the stack
  closes the channel, the exception in `NobodyWaitsForever`.
* The two sides of a Code Exchange decide on the route apart: a receiver that
  was handed a channel which then does not open has no fallback any more, while
  its sender may fall back.  Both end (`EveryoneReturns`), as failures.
* An acknowledgement lost over Tor leaves a receiver that ends well, with a
  warning, and a sender that counts a failed connection; `Delivery` allows it.
* A stream request that cannot be accepted (its client has given up) ends the
  sender's whole wait instead of that connection; errors before the code is
  shown leave the preparation's pool open until the process ends (the exception
  `"unprepared"` of `ReleasesFallback`).
* The Tor client started behind an anonymous exchange "is dropped with the
  transfer, used or not" (`code/sender.rs:64`).  It is aborted when the direct
  route opens (`:210`); an error before that only drops the handle of its task,
  which Tokio detaches, and the bootstrap runs on.  `ReleasesFallback` speaks of
  the relay pool only.
* `MemoryNetDirProvider::new` keeps the vanguard manager from asking for a
  directory too early (`tor/netdir.rs:113`).  Nothing keeps it from asking too
  late: timeliness is checked before the certificates and microdescriptors are
  fetched (`:344`), and `publish` announces what has run out since, after a
  device was suspended, say.  The manager then stops for good: the exception
  `OutlivesDirectory` of `WatchersSurvive`.

None of them affects another safety property.

## 8 What is only checked, and what is not modelled

Only model-checked:

* liveness (`Converges`, `LockIsConfirmed`, `Connects`, both `Completes`,
  `EveryDemotionAnswered`, `NobodyWaitsForever`, `CloseReleasesSender`,
  `StaysReachable`, `EveryoneReturns`): TLAPS does not reason about fairness.
  What some of them rest on that is not fairness is proved: `WakeupsKept` for
  `CloseReleasesSender` and the file protocol's `Completes`, `DemotionsKept` for
  `EveryDemotionAnswered`, `ChunksKept`, `NeverBlamed` and `Deliverable` for the
  relayed transfer's `Completes`, `QuietReachable` for `StaysReachable`,
  `CandidatesApplied` and `CandidatesKept` for `Connects`;
* `SparesAreHeldBack`, which the code does not satisfy (section 7).

Every invariant and every action property of a passing run, and every refinement,
is a theorem.

Limits of what is modelled:

* Between two `await`s a task is one action.  That is what a Tokio task does;
  where a lock or an atomic is read from another thread (`DataChannel`) each
  read is an action.
* Candidates and discovered relays come in any order.  Latency, expiry, the
  ring's cursor and the caps are not there, so nothing is said of which healthy
  relay is preferred.
* What only a sender other than this program could cause is not there: the
  receiver's checks of content type and size (`webrtc/nostr_receiver.rs:142`),
  which repeat the sender's, and the integrity check of a relayed file
  (`code/nostr_file/download.rs:453`), whose chunks are authenticated.
  `Delivery` allows both outcomes.
* `Announce` may run whenever there is something to announce; the permits that
  wake the announcer between heartbeats are not modelled, so that a lost one
  would show only as a delay.
* In `ControlRelays` an `add` that is cancelled while it subscribes leaves a
  subscription until the pool ends; the model has no observable that tells it
  apart.  A poisoned lock or a panic ends a task in none of the modules.
* The route modules are composed by their results: `CodeExchange` takes a file
  over the direct channel or the relays in one step, and `Signaling` assumes the
  pairing `PinExchange` establishes.

Not modelled: the arithmetic of the primitives and the encodings, codecs and
manifests (pure, and tested in the repository against vectors); archives
(sequential file-system I/O over third-party formats); the terminal interface
beyond the prompts the sessions wait on, with it the process-wide refresh permit
of `ui/mod.rs`; command-line parsing; Tor's configuration and its in-memory
state manager (constants, and a map behind a lock); the transport adapter for
anonymous signalling, which keeps no protocol state.  `arti`, `rtc` and
`nostr-sdk` are external and modelled from their use.  Process crashes are not
an event of their own outside the cache, which alone is persisted: elsewhere a
crash is a side that takes no further step, which the safety properties cover.

## 9 The plan

All modules planned are written, checked and proved about.  What would add most
from here is the safety core of `Converges` and `LockIsConfirmed`, and
`CodeExchange` over `RelayTransfer` and `FileTransfer` instead of their results,
were the instances small enough to check.
