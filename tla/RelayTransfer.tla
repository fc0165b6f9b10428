---------------------------- MODULE RelayTransfer ----------------------------
(***************************************************************************)
(* The relayed transfer of Code Exchange: code/nostr_file/upload.rs and    *)
(* code/nostr_file/download.rs, over the control channel of                *)
(* code/nostr_file/control.rs.                                             *)
(*                                                                         *)
(* Upload workers place each chunk on a relay of the ring; the sender      *)
(* announces what is placed where; the receiver fetches it, reports which  *)
(* placements did not serve their chunk, and the sender places those       *)
(* chunks anew.  A relay that keeps failing is demoted.                    *)
(*                                                                         *)
(* Both control directions are sequences of messages in the order their    *)
(* sender numbered them.  A message is delivered from anywhere in the      *)
(* sequence, and taking one drops those numbered before it, which the      *)
(* counter check refuses; a message delivered twice is one the counter     *)
(* check refuses, too.  An engine's first outcome ends it.                 *)
(***************************************************************************)
EXTENDS Integers, SequencesExt

CONSTANTS
  Total,           \* chunks of the payload
  RingSize,        \* relays of the ring
  Workers,         \* upload workers
  Reliable,        \* ring positions that take every chunk and serve it
  MinRetransmits,  \* LIVE_MIN_RETRANSMITS_PER_CHUNK
  DemoteMisses,    \* LIVE_RELAY_DEMOTE_MISSES
  DemoteGiveUps,   \* LIVE_RELAY_DEMOTE_GIVEUPS
  MaxInFlight,     \* bound on the control messages underway in one direction
  ControlFaults,   \* may a control message be lost or refused?
  Timeouts,        \* may a side run out of patience?
  None

Chunk == 0 .. Total - 1
Ring == 0 .. RingSize - 1

ASSUME SizesAssumption ==
  /\ Total \in Nat \ {0}
  /\ RingSize \in Nat /\ RingSize >= 2     \* MIN_UPLOAD_RELAYS
  /\ Reliable \subseteq Ring
  /\ MinRetransmits \in Nat
  /\ DemoteMisses \in Nat \ {0}
  /\ DemoteGiveUps \in Nat \ {0}
  /\ MaxInFlight \in Nat \ {0}
  /\ ControlFaults \in BOOLEAN /\ Timeouts \in BOOLEAN

MaxRetransmits == IF RingSize > MinRetransmits THEN RingSize ELSE MinRetransmits

(* Where one re-send of a chunk was placed. *)
Placement == [at : Ring, gen : 0 .. MaxRetransmits]

(* What one worker is doing for one chunk: the ring positions it has tried,
   and the one it is publishing to, or None. *)
Job == [chunk : Chunk, retry : BOOLEAN, tried : SUBSET Ring, at : Ring \cup {None}]

ASSUME NoneAssumption == None \notin Ring \cup Placement \cup Job

VARIABLES
  ringReady,   \* has the ring resolved?
  placed,      \* `placed`
  generation,  \* `generation`
  nextOffset,  \* `next_offset`
  misses,      \* `misses`
  giveUps,     \* `give_ups`
  demoted,     \* `demoted`
  nextChunk,   \* `next_chunk`
  retryQueue,  \* `retry_queue`
  pending,     \* `pending_retry`
  job,         \* what each worker is doing, or None
  outcome,     \* the first outcome reported ("sent", or why it failed), or "active"
  stored,      \* chunks each relay of the ring has accepted
  toReceiver,  \* the sender's messages underway: "manifest", "avail", "cancel"
  toSender,    \* the receiver's messages underway: "hello", "ack", "done", "cancel"
  \* of the receiver
  rpc,         \* "waiting", "fetching", "acking", "verified", "done" or "failed"
  manifest,    \* has the manifest arrived?
  view,        \* the last announcement taken (`ring`, `map`, `gens`): a prefix of the chunks
  have         \* chunks held

uploadVars == <<ringReady, placed, generation, nextOffset, misses, giveUps, demoted,
                nextChunk, retryQueue, pending, job, stored>>
senderVars == <<uploadVars, outcome, toReceiver>>
receiverVars == <<rpc, manifest, view, have, toSender>>
vars == <<senderVars, receiverVars>>

(* The manifest is out before anything else, and so is the receiver's hello. *)
Init ==
  /\ ringReady = FALSE
  /\ placed = [i \in Chunk |-> None]
  /\ generation = [i \in Chunk |-> 0]
  /\ nextOffset = [i \in Chunk |-> 0]
  /\ misses = [p \in Ring |-> 0]
  /\ giveUps = [p \in Ring |-> 0]
  /\ demoted = {}
  /\ nextChunk = 0
  /\ retryQueue = <<>>
  /\ pending = {}
  /\ job = [w \in Workers |-> None]
  /\ outcome = "active"
  /\ stored = [p \in Ring |-> {}]
  /\ toReceiver \in {q \in {<<[type |-> "manifest"]>>, <<>>} : q = <<>> => ControlFaults}
  /\ toSender \in {q \in {<<[type |-> "hello"]>>, <<>>} : q = <<>> => ControlFaults}
  /\ rpc = "waiting"
  /\ manifest = FALSE
  /\ view = [type |-> "avail", ring |-> FALSE, places |-> [i \in {} |-> None]]
  /\ have = {}

-----------------------------------------------------------------------------
(* `upto`: the chunks before the first that is not placed. *)
Upto == {i \in Chunk : \A j \in 0 .. i : placed[j] # None}

(* `demote`: never all of the ring. *)
Demoting(S, p) == IF Cardinality(S) + 1 < RingSize THEN S \cup {p} ELSE S

(* A message taken drops those numbered before it. *)
After(queue, k) == SubSeq(queue, k + 1, Len(queue))

(* A message published reaches the peer, or only relays that lose it. *)
Lands(lands) == lands \in IF ControlFaults THEN BOOLEAN ELSE {TRUE}
Sending(lands, queue, m) == IF lands THEN Append(queue, m) ELSE queue

(* The sender's run ends; a failing one tells the receiver if it can. *)
End(o, lands) ==
  /\ outcome = "active"
  /\ Lands(lands)
  /\ outcome' = o
  /\ toReceiver' = Sending(lands, toReceiver, [type |-> "cancel"])

-----------------------------------------------------------------------------
(* The sender: the ring and the upload workers. *)

RingResolves ==
  /\ outcome = "active" /\ ~ ringReady
  /\ ringReady' = TRUE
  /\ UNCHANGED <<placed, generation, nextOffset, misses, giveUps, demoted, nextChunk,
                 retryQueue, pending, job, stored, outcome, toReceiver, receiverVars>>

NoRing(lands) ==
  /\ ControlFaults /\ ~ ringReady
  /\ End("unplaced", lands)
  /\ UNCHANGED <<uploadVars, receiverVars>>

NewJob(i, retry) == [chunk |-> i, retry |-> retry, tried |-> {}, at |-> None]

(* A re-send first, then the next chunk. *)
TakeWork(w) ==
  /\ outcome = "active" /\ ringReady /\ job[w] = None
  /\ \/ /\ retryQueue # <<>>
        /\ retryQueue' = Tail(retryQueue)
        /\ job' = [job EXCEPT ![w] = NewJob(Head(retryQueue), TRUE)]
        /\ UNCHANGED nextChunk
     \/ /\ retryQueue = <<>> /\ nextChunk < Total
        /\ nextChunk' = nextChunk + 1
        /\ job' = [job EXCEPT ![w] = NewJob(nextChunk, FALSE)]
        /\ UNCHANGED retryQueue
  /\ UNCHANGED <<ringReady, placed, generation, nextOffset, misses, giveUps, demoted,
                 pending, stored, outcome, toReceiver, receiverVars>>

(* How far position p is along the walk chunk i starts. *)
BugWalkRestarts(i, p) == (p - i) % RingSize
Steps(i, p) == (p - i - nextOffset[i]) % RingSize

(* `candidates`: healthy relays in the order of the walk, then demoted ones. *)
Precedes(i, p, q) ==
  \/ p \notin demoted /\ q \in demoted
  \/ (p \in demoted <=> q \in demoted) /\ Steps(i, p) <= Steps(i, q)

(* `place`: the first candidate not tried, and where the next walk starts. *)
TryRelay(w, p) ==
  LET i == job[w].chunk
      left == Ring \ job[w].tried
  IN /\ outcome = "active" /\ job[w] # None /\ job[w].at = None
     /\ p \in left
     /\ \A q \in left : Precedes(i, p, q)
     /\ nextOffset' = [nextOffset EXCEPT ![i] = (p - i + 1) % RingSize]
     /\ job' = [job EXCEPT ![w] = [chunk |-> i, retry |-> @.retry,
                                   tried |-> @.tried \cup {p}, at |-> p]]
     /\ UNCHANGED <<ringReady, placed, generation, misses, giveUps, demoted, nextChunk,
                    retryQueue, pending, stored, outcome, toReceiver, receiverVars>>

(* The relay took the chunk: the placement is recorded. *)
ChunkAccepted(w) ==
  LET i == job[w].chunk
      p == job[w].at
  IN /\ outcome = "active" /\ job[w] # None /\ p # None
     /\ stored' = [stored EXCEPT ![p] = @ \cup {i}]
     /\ placed' = [placed EXCEPT ![i] = p]
     /\ generation' = [generation EXCEPT ![i] = IF job[w].retry THEN @ + 1 ELSE @]
     /\ pending' = IF job[w].retry THEN pending \ {i} ELSE pending
     /\ job' = [job EXCEPT ![w] = None]
     /\ UNCHANGED <<ringReady, nextOffset, misses, giveUps, demoted, nextChunk, retryQueue,
                    outcome, toReceiver, receiverVars>>

(* Rejected through every retry. *)
ChunkRefused(w) ==
  LET p == job[w].at
  IN /\ outcome = "active" /\ job[w] # None /\ p # None /\ p \notin Reliable
     /\ giveUps' = [giveUps EXCEPT ![p] = @ + 1]
     /\ demoted' = IF giveUps'[p] >= DemoteGiveUps THEN Demoting(demoted, p) ELSE demoted
     /\ job' = [job EXCEPT ![w].at = None]
     /\ UNCHANGED <<ringReady, placed, generation, nextOffset, misses, nextChunk, retryQueue,
                    pending, stored, outcome, toReceiver, receiverVars>>

(* No relay of the ring took the chunk. *)
Unplaceable(w, lands) ==
  /\ job[w] # None /\ job[w].at = None /\ job[w].tried = Ring
  /\ End("unplaced", lands)
  /\ UNCHANGED <<uploadVars, receiverVars>>

-----------------------------------------------------------------------------
(* The sender: announcements and the receiver's half of the channel. *)

BugAnnouncesTaken ==
  [type |-> "avail", ring |-> ringReady,
   places |-> [i \in 0 .. nextChunk - 1 |->
                 [at |-> IF placed[i] = None THEN i % RingSize ELSE placed[i], gen |-> generation[i]]]]
Latest ==
  [type |-> "avail", ring |-> ringReady,
   places |-> [i \in Upto |-> [at |-> placed[i], gen |-> generation[i]]]]

(* When something changed, and on every heartbeat. *)
Announce(lands) ==
  /\ outcome = "active"
  /\ Len(toReceiver) < MaxInFlight
  /\ Lands(lands)
  /\ toReceiver' = Sending(lands, toReceiver, Latest)
  /\ UNCHANGED <<uploadVars, outcome, receiverVars>>

AnnounceRefused(lands) ==
  /\ ControlFaults
  /\ End("unreachable", lands)
  /\ UNCHANGED <<uploadVars, receiverVars>>

(* WATCHDOG: the copies expired, or the receiver has gone quiet. *)
SenderGivesUp(lands) ==
  /\ Timeouts
  /\ End("quiet", lands)
  /\ UNCHANGED <<uploadVars, receiverVars>>

(* The misses of an acknowledgement that speak of the current placement of a
   chunk no re-send of which is underway. *)
BugIgnoresPending(missing) ==
  {m \in missing : m.place = [at |-> placed[m.chunk], gen |-> generation[m.chunk]]}
BugChargesCurrent(missing) ==
  {[chunk |-> m.chunk, place |-> [at |-> placed[m.chunk], gen |-> generation[m.chunk]]] :
     m \in {n \in missing : n.chunk \notin pending}}
Usable(missing) ==
  {m \in missing :
     /\ m.place = [at |-> placed[m.chunk], gen |-> generation[m.chunk]]
     /\ m.chunk \notin pending}

(* One miss: the relay is charged, perhaps demoted, and the chunk queued. *)
BugForgetsResend(acc, m) ==
  [acc EXCEPT !.misses[m.place.at] = @ + 1]
Charged(acc, m) ==
  LET p == m.place.at
      n == acc.misses[p] + 1
  IN [misses |-> [acc.misses EXCEPT ![p] = n],
      demoted |-> IF n >= DemoteMisses THEN Demoting(acc.demoted, p) ELSE acc.demoted,
      queue |-> Append(acc.queue, m.chunk)]

(* All of them, in the order of their chunks. *)
ChargedAll(ms) ==
  LET acc[n \in 0 .. Total] ==
        IF n = 0 THEN [misses |-> misses, demoted |-> demoted, queue |-> retryQueue]
        ELSE IF \E m \in ms : m.chunk = n - 1
             THEN Charged(acc[n - 1], CHOOSE m \in ms : m.chunk = n - 1)
             ELSE acc[n - 1]
  IN acc[Total]

Exhausted(m) == generation[m.chunk] >= MaxRetransmits

TakeAck(k) ==
  LET ms == Usable(toSender[k].missing)
      all == ChargedAll(ms)
  IN /\ outcome = "active"
     /\ toSender[k].type = "ack"
     /\ \A m \in ms : ~ Exhausted(m)
     /\ misses' = all.misses
     /\ demoted' = all.demoted
     /\ retryQueue' = all.queue
     /\ pending' = pending \cup {m.chunk : m \in ms}
     /\ toSender' = After(toSender, k)
     /\ UNCHANGED <<ringReady, placed, generation, nextOffset, giveUps, nextChunk, job,
                    stored, outcome, toReceiver, rpc, manifest, view, have>>

(* A chunk has been re-sent as often as it may be. *)
TakeLastStraw(k, lands) ==
  /\ toSender[k].type = "ack"
  /\ \E m \in Usable(toSender[k].missing) : Exhausted(m)
  /\ End("undeliverable", lands)
  /\ toSender' = After(toSender, k)
  /\ UNCHANGED <<uploadVars, rpc, manifest, view, have>>

TakeHello(k) ==
  /\ outcome = "active"
  /\ toSender[k].type = "hello"
  /\ toSender' = After(toSender, k)
  /\ UNCHANGED <<senderVars, rpc, manifest, view, have>>

TakeDone(k) ==
  /\ outcome = "active"
  /\ toSender[k].type = "done"
  /\ outcome' = "sent"
  /\ toSender' = After(toSender, k)
  /\ UNCHANGED <<uploadVars, toReceiver, rpc, manifest, view, have>>

TakeReceiverCancel(k, lands) ==
  /\ toSender[k].type = "cancel"
  /\ End("cancelled", lands)
  /\ toSender' = After(toSender, k)
  /\ UNCHANGED <<uploadVars, rpc, manifest, view, have>>

-----------------------------------------------------------------------------
(* The receiver's half of the channel: `handle`. *)

TakeManifest(k) ==
  /\ rpc = "waiting" /\ ~ manifest
  /\ toReceiver[k].type = "manifest"
  /\ manifest' = TRUE
  /\ toReceiver' = After(toReceiver, k)
  /\ UNCHANGED <<uploadVars, outcome, rpc, view, have, toSender>>

(* An announcement ahead of the manifest is refused without being counted. *)
RefuseEarly(k) ==
  /\ rpc = "waiting" /\ ~ manifest
  /\ toReceiver[k].type = "avail"
  /\ toReceiver' = RemoveAt(toReceiver, k)
  /\ UNCHANGED <<uploadVars, outcome, receiverVars>>

(* A cycle has something to do: `upto > chunks_done`. *)
MoreIn(m) == m.ring /\ Cardinality(DOMAIN m.places) > Cardinality(have)

TakeAvail(k) ==
  LET m == toReceiver[k]
  IN /\ rpc = "waiting" /\ manifest
     /\ m.type = "avail"
     /\ view' = m
     /\ rpc' = IF MoreIn(m) THEN "fetching" ELSE "waiting"
     /\ toReceiver' = After(toReceiver, k)
     /\ UNCHANGED <<uploadVars, outcome, manifest, have, toSender>>

TakeSenderCancel(k) ==
  /\ rpc = "waiting"
  /\ toReceiver[k].type = "cancel"
  /\ rpc' = "failed"
  /\ toReceiver' = After(toReceiver, k)
  /\ UNCHANGED <<uploadVars, outcome, manifest, view, have, toSender>>

-----------------------------------------------------------------------------
(* The receiver: fetch cycles, and the end of the transfer. *)

(* LIVE_FETCH_RETRY has passed since the last cycle. *)
RetryClock ==
  /\ rpc = "waiting" /\ MoreIn(view)
  /\ rpc' = "fetching"
  /\ UNCHANGED <<senderVars, manifest, view, have, toSender>>

Asked == DOMAIN view.places \ have

(* What the relays serve of the chunks asked for: nothing a relay does not
   store, and all of what a reliable one does.  A chunk whose placement is
   still cooling down is one not served. *)
Serve(served) ==
  /\ served \subseteq {i \in Asked : i \in stored[view.places[i].at]}
  /\ {i \in Asked : view.places[i].at \in Reliable /\ i \in stored[view.places[i].at]} \subseteq served

Fetch(served) ==
  /\ rpc = "fetching"
  /\ Serve(served)
  /\ have' = have \cup served
  /\ rpc' = "acking"
  /\ UNCHANGED <<senderVars, manifest, view, toSender>>

(* The announced chunks it does not hold, each with the placement last tried:
   the one announced, which this cycle asked or which was cooling down. *)
Missing == {[chunk |-> i, place |-> view.places[i]] : i \in Asked}

(* `chunks_done` has reached the total. *)
BugAnnouncedIsAll == have = DOMAIN view.places
Complete == have = Chunk

SendAck(lands) ==
  /\ rpc = "acking"
  /\ Len(toSender) < MaxInFlight
  /\ Lands(lands)
  /\ toSender' = Sending(lands, toSender, [type |-> "ack", missing |-> Missing])
  /\ rpc' = IF Complete THEN "verified" ELSE "waiting"
  /\ UNCHANGED <<senderVars, manifest, view, have>>

(* A failing receiver tells the sender if it can. *)
Fail(lands) ==
  /\ Lands(lands)
  /\ rpc' = "failed"
  /\ toSender' = Sending(lands, toSender, [type |-> "cancel"])
  /\ UNCHANGED <<senderVars, manifest, view, have>>

AckRefused(lands) == ControlFaults /\ rpc = "acking" /\ Fail(lands)

(* Out of patience, or past the window: the clocks `run` reads first. *)
ReceiverGivesUp(lands) == Timeouts /\ rpc \in {"waiting", "fetching"} /\ Fail(lands)

(* The file is handed over, and the sender told, as a courtesy. *)
ReportDone(lands) ==
  /\ rpc = "verified"
  /\ Lands(lands)
  /\ rpc' = "done"
  /\ toSender' = Sending(lands, toSender, [type |-> "done"])
  /\ UNCHANGED <<senderVars, manifest, view, have>>

-----------------------------------------------------------------------------
Next ==
  \/ RingResolves
  \/ \E lands \in BOOLEAN : NoRing(lands)
  \/ \E w \in Workers : TakeWork(w)
  \/ \E w \in Workers, p \in Ring : TryRelay(w, p)
  \/ \E w \in Workers : ChunkAccepted(w)
  \/ \E w \in Workers : ChunkRefused(w)
  \/ \E w \in Workers, lands \in BOOLEAN : Unplaceable(w, lands)
  \/ \E lands \in BOOLEAN : Announce(lands)
  \/ \E lands \in BOOLEAN : AnnounceRefused(lands)
  \/ \E lands \in BOOLEAN : SenderGivesUp(lands)
  \/ \E k \in DOMAIN toSender : TakeAck(k)
  \/ \E k \in DOMAIN toSender, lands \in BOOLEAN : TakeLastStraw(k, lands)
  \/ \E k \in DOMAIN toSender : TakeHello(k)
  \/ \E k \in DOMAIN toSender : TakeDone(k)
  \/ \E k \in DOMAIN toSender, lands \in BOOLEAN : TakeReceiverCancel(k, lands)
  \/ \E k \in DOMAIN toReceiver : TakeManifest(k)
  \/ \E k \in DOMAIN toReceiver : RefuseEarly(k)
  \/ \E k \in DOMAIN toReceiver : TakeAvail(k)
  \/ \E k \in DOMAIN toReceiver : TakeSenderCancel(k)
  \/ RetryClock
  \/ \E served \in SUBSET Chunk : Fetch(served)
  \/ \E lands \in BOOLEAN : SendAck(lands)
  \/ \E lands \in BOOLEAN : AckRefused(lands)
  \/ \E lands \in BOOLEAN : ReceiverGivesUp(lands)
  \/ \E lands \in BOOLEAN : ReportDone(lands)

Spec == Init /\ [][Next]_vars

(* Every task of either side keeps running, and a publish or a fetch ends: both
   have a timeout.  The receiver's loop polls its messages before it sleeps, so
   an announcement that keeps being there is taken however often the retry
   clock runs a cycle instead. *)
Fairness ==
  /\ WF_vars(RingResolves)
  /\ \A w \in Workers :
       /\ WF_vars(TakeWork(w))
       /\ WF_vars(\E p \in Ring : TryRelay(w, p))
       /\ WF_vars(ChunkAccepted(w) \/ ChunkRefused(w))
  /\ WF_vars(\E lands \in BOOLEAN : Announce(lands))
  /\ WF_vars(\E k \in DOMAIN toSender : TakeAck(k) \/ TakeHello(k) \/ TakeDone(k))
  /\ SF_vars(\E k \in DOMAIN toReceiver : TakeManifest(k) \/ TakeAvail(k))
  /\ WF_vars(RetryClock)
  /\ WF_vars(\E served \in SUBSET Chunk : Fetch(served))
  /\ WF_vars(\E lands \in BOOLEAN : SendAck(lands))
  /\ WF_vars(\E lands \in BOOLEAN : ReportDone(lands))

FairSpec == Spec /\ Fairness

-----------------------------------------------------------------------------
(* Every miss charged to a relay is one re-send, made or pending, and no more:
   a placement reported missing over and over, while its chunk waits in the
   queue or is being placed, counts once (`pending_retry`). *)
MissesAreResends ==
  SumFunction(misses) = SumFunction(generation) + Cardinality(pending)

(* What an announcement underway, or the one the receiver last took, says of a
   chunk is true: the relay did accept it, and the ring is known. *)
TrueOf(m) == \A i \in DOMAIN m.places : m.ring /\ i \in stored[m.places[i].at]
AnnouncedIsStored ==
  /\ TrueOf(view)
  /\ \A k \in DOMAIN toReceiver : toReceiver[k].type = "avail" => TrueOf(toReceiver[k])

(* A relay that serves everything it takes is never charged with a miss or a
   give-up, and never demoted. *)
ReliableNeverBlamed == \A p \in Reliable : misses[p] = 0 /\ giveUps[p] = 0 /\ p \notin demoted

(* With one relay that takes and serves every chunk, the transfer is never
   given up for want of a relay, but for a ring that never resolved: each walk
   reaches it, and within the re-sends LIVE_MIN_RETRANSMITS_PER_CHUNK and the
   ring's size allow. *)
AlwaysDeliverable ==
  Reliable # {} =>
    outcome # "undeliverable" /\ (outcome = "unplaced" => ControlFaults /\ ~ ringReady)

(* The transfer delivers the file: the sender reports it sent only once the
   receiver holds it whole and verified. *)
Deliver == INSTANCE Delivery WITH
  held <- have = Chunk,
  sender <- IF outcome = "active" THEN "active" ELSE IF outcome = "sent" THEN "ok" ELSE "failed",
  receiver <- IF rpc = "done" THEN "ok" ELSE IF rpc = "failed" THEN "failed" ELSE "active"
ImplementsDelivery == Deliver!Spec

(* With the control relays working, patience on both sides, and one reliable
   relay in the ring, both sides end well. *)
Completes == <>(rpc = "done" /\ outcome = "sent")
=============================================================================
