------------------------- MODULE RelayTransfer_proofs -------------------------
(***************************************************************************)
(* Theorems about RelayTransfer, for payloads, rings and numbers of        *)
(* workers of any size, and relays and control channels that lose          *)
(* anything.                                                               *)
(***************************************************************************)
EXTENDS RelayTransfer, SequenceTheorems, FiniteSetTheorems, WellFoundedInduction, TLAPS

(* A chunk is recorded as placed where a relay has taken it, once there is a
   ring. *)
PlacedInv ==
  /\ ringReady \in BOOLEAN
  /\ placed \in [Chunk -> Ring \cup {None}]
  /\ generation \in [Chunk -> Nat]
  /\ stored = [p \in Ring |-> stored[p]]
  /\ \A i \in Chunk : placed[i] # None => ringReady /\ i \in stored[placed[i]]

JobInv ==
  /\ job = [w \in Workers |-> job[w]]
  /\ \A w \in Workers : job[w] # None =>
       /\ ringReady
       /\ job[w] = [chunk |-> job[w].chunk, retry |-> job[w].retry,
                    tried |-> job[w].tried, at |-> job[w].at]
       /\ job[w].at \in Ring \cup {None}

(* What the sender may say: its announcements are true. *)
Places == [at : Ring, gen : Nat]
Announcement ==
  UNION {[type : {"avail"}, ring : BOOLEAN, places : [D -> Places]] : D \in SUBSET Chunk}
Truths == {m \in Announcement : TrueOf(m)}
SenderSays == Truths \cup [type : {"manifest", "cancel"}]

(* What the receiver may say: "done" when it holds everything. *)
ReceiverSays ==
  [type : {"hello", "cancel"}]
  \cup [type : {"ack"}, missing : SUBSET [chunk : Chunk, place : Places]]
  \cup {m \in [type : {"done"}] : have = Chunk}

TalkInv ==
  /\ view \in Truths
  /\ toReceiver \in Seq(SenderSays)
  /\ toSender \in Seq(ReceiverSays)

HaveInv ==
  /\ have \subseteq Chunk
  /\ rpc \in {"verified", "done"} => have = Chunk
  /\ rpc \in {"waiting", "fetching", "acking", "verified", "done", "failed"}

IInv == PlacedInv /\ JobInv /\ TalkInv /\ HaveInv

-----------------------------------------------------------------------------
(* Queues. *)

LEMMA SendingSays ==
  ASSUME NEW M, NEW q \in Seq(M), NEW m \in M, NEW lands
  PROVE  Sending(lands, q, m) \in Seq(M)
  BY AppendProperties DEF Sending

LEMMA AfterSays ==
  ASSUME NEW M, NEW q \in Seq(M), NEW k \in DOMAIN q
  PROVE  After(q, k) \in Seq(M)
<1>1. k \in 1 .. Len(q) /\ Len(q) \in Nat
  BY LenProperties
<1>2. \A i \in k + 1 .. Len(q) : q[i] \in M
  BY <1>1, LenProperties
<1> QED
  BY <1>1, <1>2, SubSeqProperties DEF After

LEMMA RemovedSays ==
  ASSUME NEW M, NEW q \in Seq(M), NEW k \in DOMAIN q
  PROVE  RemoveAt(q, k) \in Seq(M)
<1>1. k \in 1 .. Len(q) /\ Len(q) \in Nat
  BY LenProperties
<1>2. SubSeq(q, 1, k - 1) \in Seq(M)
  BY <1>1, LenProperties, SubSeqProperties
<1>3. SubSeq(q, k + 1, Len(q)) \in Seq(M)
  BY <1>1, LenProperties, SubSeqProperties
<1> QED
  BY <1>2, <1>3, ConcatProperties DEF RemoveAt

LEMMA SaysMore ==
  ASSUME NEW M, NEW N, M \subseteq N, NEW q \in Seq(M)
  PROVE  q \in Seq(N)
<1>1. Len(q) \in Nat /\ q \in [1 .. Len(q) -> N]
  BY LenProperties
<1> QED
  BY <1>1, SeqDef, Zenon

-----------------------------------------------------------------------------
(* What is stored stays stored, so what is true stays true. *)

LEMMA TruthsStay ==
  ASSUME PlacedInv, PlacedInv', \A p \in Ring : stored[p] \subseteq stored'[p]
  PROVE  Truths \subseteq Truths' /\ SenderSays \subseteq SenderSays'
<1>1. ASSUME NEW m \in Announcement, TrueOf(m) PROVE TrueOf(m)'
  <2>1. PICK D \in SUBSET Chunk :
          m \in [type : {"avail"}, ring : BOOLEAN, places : [D -> Places]]
    BY <1>1 DEF Announcement
  <2>2. \A i \in DOMAIN m.places : m.places[i].at \in Ring
    BY <2>1 DEF Places
  <2> QED
    BY <1>1, <2>2 DEF TrueOf
<1>2. Announcement' = Announcement
  BY DEF Announcement, Places
<1>3. Truths \subseteq Truths'
  BY <1>1, <1>2 DEF Truths
<1> QED
  BY <1>3 DEF SenderSays

(* What the sender is about to announce is true. *)
LEMMA LatestIsTrue ==
  ASSUME PlacedInv
  PROVE  Latest \in Truths
<1>1. Upto \in SUBSET Chunk
  BY DEF Upto
<1>2. \A i \in Upto : placed[i] # None
  BY SizesAssumption DEF Upto, Chunk
<1>3. \A i \in Upto : placed[i] \in Ring /\ generation[i] \in Nat /\ ringReady
                      /\ i \in stored[placed[i]]
  BY <1>1, <1>2 DEF PlacedInv
<1> DEFINE places == [i \in Upto |-> [at |-> placed[i], gen |-> generation[i]]]
<1>4. places \in [Upto -> Places]
  BY <1>3 DEF Places
<1>5. \A i \in DOMAIN places : i \in stored[places[i].at] /\ ringReady
  BY <1>3
<1>6. Latest = [type |-> "avail", ring |-> ringReady, places |-> places]
  BY DEF Latest
<1> HIDE DEF places
<1>7. Latest \in [type : {"avail"}, ring : BOOLEAN, places : [Upto -> Places]]
  BY <1>4, <1>6 DEF PlacedInv
<1>8. Latest \in Announcement
  BY <1>1, <1>7 DEF Announcement
<1>9. TrueOf(Latest)
  BY <1>5, <1>6 DEF TrueOf
<1> QED
  BY <1>8, <1>9 DEF Truths

LEMMA InitHolds == Init => IInv
<1> SUFFICES ASSUME Init PROVE IInv
  OBVIOUS
<1>1. PlacedInv
  BY DEF Init, PlacedInv
<1>2. JobInv
  BY DEF Init, JobInv
<1>3. view \in Truths
  <2> DEFINE none == [i \in {} |-> None]
  <2>1. none \in [{} -> Places] /\ DOMAIN none = {}
    OBVIOUS
  <2>2. view = [type |-> "avail", ring |-> FALSE, places |-> none]
    BY DEF Init
  <2> HIDE DEF none
  <2>3. view \in [type : {"avail"}, ring : BOOLEAN, places : [{} -> Places]]
    BY <2>1, <2>2
  <2>4. view \in Announcement
    BY <2>3 DEF Announcement
  <2>5. TrueOf(view)
    BY <2>1, <2>2 DEF TrueOf
  <2> QED
    BY <2>4, <2>5 DEF Truths
<1>4. toReceiver \in Seq(SenderSays)
  <2>1. toReceiver = <<>> \/ toReceiver = <<[type |-> "manifest"]>>
    BY DEF Init
  <2>2. PICK m \in SenderSays : m = [type |-> "manifest"]
    BY DEF SenderSays
  <2>3. <<m>> \in Seq(SenderSays) /\ <<>> \in Seq(SenderSays)
    BY EmptySeq
  <2> QED
    BY <2>1, <2>2, <2>3
<1>5. toSender \in Seq(ReceiverSays)
  <2>1. toSender = <<>> \/ toSender = <<[type |-> "hello"]>>
    BY DEF Init
  <2>2. PICK m \in ReceiverSays : m = [type |-> "hello"]
    BY DEF ReceiverSays
  <2>3. <<m>> \in Seq(ReceiverSays) /\ <<>> \in Seq(ReceiverSays)
    BY EmptySeq
  <2> QED
    BY <2>1, <2>2, <2>3
<1>6. HaveInv
  BY DEF Init, HaveInv
<1> QED
  BY <1>1, <1>2, <1>3, <1>4, <1>5, <1>6 DEF IInv, TalkInv

-----------------------------------------------------------------------------
(* The sender's chunks. *)

LEMMA AcceptedPlaces ==
  ASSUME PlacedInv, JobInv, NEW w \in Workers, ChunkAccepted(w)
  PROVE  /\ PlacedInv' /\ JobInv'
         /\ \A p \in Ring : stored[p] \subseteq stored'[p]
<1>0. PICK i : i = job[w].chunk
  OBVIOUS
<1>1. PICK p \in Ring : p = job[w].at /\ i = job[w].chunk
  BY <1>0 DEF ChunkAccepted, JobInv
<1>2. /\ stored' = [stored EXCEPT ![p] = @ \cup {i}]
      /\ placed' = [placed EXCEPT ![i] = p]
      /\ generation' = [generation EXCEPT ![i] = IF job[w].retry THEN @ + 1 ELSE @]
      /\ job' = [job EXCEPT ![w] = None]
      /\ ringReady' = ringReady
      /\ ringReady
  BY <1>1 DEF ChunkAccepted, JobInv
<1>3. \A q \in Ring : stored'[q] = IF q = p THEN stored[q] \cup {i} ELSE stored[q]
  BY <1>2 DEF PlacedInv
<1>4. stored' = [q \in Ring |-> stored'[q]]
  BY <1>2 DEF PlacedInv
<1>5. placed' \in [Chunk -> Ring \cup {None}]
  BY <1>1, <1>2 DEF PlacedInv
<1>6. generation' \in [Chunk -> Nat]
  <2>1. PICK n : generation' = [generation EXCEPT ![i] = n]
                 /\ (n = generation[i] + 1 \/ n = generation[i])
    BY <1>2
  <2>2. i \in Chunk => n \in Nat
    BY <2>1 DEF PlacedInv
  <2>3. \A c \in Chunk : generation'[c] = IF c = i THEN n ELSE generation[c]
    BY <2>1 DEF PlacedInv
  <2>4. generation' = [c \in Chunk |-> generation'[c]]
    BY <2>1 DEF PlacedInv
  <2> QED
    BY <2>2, <2>3, <2>4 DEF PlacedInv
<1>7. ASSUME NEW c \in Chunk, placed'[c] # None PROVE ringReady' /\ c \in stored'[placed'[c]]
  <2>1. CASE c = i
    <3>1. placed'[c] = p
      BY <1>2, <2>1 DEF PlacedInv
    <3> QED
      BY <1>2, <1>3, <2>1, <3>1
  <2>2. CASE c # i
    <3>1. placed'[c] = placed[c]
      BY <1>2, <2>2 DEF PlacedInv
    <3>2. placed[c] \in Ring /\ c \in stored[placed[c]]
      BY <1>7, <3>1 DEF PlacedInv
    <3> QED
      BY <1>2, <1>3, <3>1, <3>2
  <2> QED
    BY <2>1, <2>2
<1>8. PlacedInv'
  BY <1>2, <1>4, <1>5, <1>6, <1>7 DEF PlacedInv
<1>9. JobInv'
  BY <1>2 DEF JobInv
<1> QED
  BY <1>3, <1>8, <1>9

LEMMA JobStep ==
  ASSUME JobInv, ringReady', NEW w \in Workers, NEW chunk, NEW retry, NEW tried,
         NEW at \in Ring \cup {None},
         job' = [job EXCEPT ![w] = [chunk |-> chunk, retry |-> retry, tried |-> tried, at |-> at]]
  PROVE  JobInv'
<1>1. PICK j : j = [chunk |-> chunk, retry |-> retry, tried |-> tried, at |-> at]
  OBVIOUS
<1>2. j = [chunk |-> j.chunk, retry |-> j.retry, tried |-> j.tried, at |-> j.at] /\ j.at = at
  BY <1>1
<1>3. job' = [job EXCEPT ![w] = j]
  BY <1>1
<1> QED
  BY <1>2, <1>3 DEF JobInv

LEMMA SenderJobs ==
  ASSUME PlacedInv, JobInv, NEW w \in Workers,
         TakeWork(w) \/ (\E p \in Ring : TryRelay(w, p)) \/ ChunkRefused(w)
  PROVE  JobInv'
<1>1. CASE TakeWork(w)
  <2>1. PICK i, retry : job' = [job EXCEPT ![w] = NewJob(i, retry)]
    BY <1>1 DEF TakeWork
  <2>2. ringReady'
    BY <1>1 DEF TakeWork
  <2>3. job' = [job EXCEPT ![w] = [chunk |-> i, retry |-> retry, tried |-> {}, at |-> None]]
    BY <2>1 DEF NewJob
  <2> QED
    BY <2>2, <2>3, JobStep
<1>2. ASSUME NEW p \in Ring, TryRelay(w, p) PROVE JobInv'
  <2>1. /\ job[w] # None /\ ringReady' = ringReady
        /\ job' = [job EXCEPT ![w] = [chunk |-> job[w].chunk, retry |-> job[w].retry,
                                     tried |-> job[w].tried \cup {p}, at |-> p]]
    BY <1>2 DEF TryRelay
  <2>2. ringReady /\ ringReady'
    BY <2>1 DEF JobInv
  <2>3. PICK chunk, retry, tried : /\ chunk = job[w].chunk /\ retry = job[w].retry
                                   /\ tried = job[w].tried \cup {p}
    OBVIOUS
  <2>4. job' = [job EXCEPT ![w] = [chunk |-> chunk, retry |-> retry,
                                   tried |-> tried, at |-> p]]
    BY <2>1, <2>3
  <2> QED
    BY <2>2, <2>4, JobStep
<1>3. CASE ChunkRefused(w)
  <2>1. job[w] # None /\ ringReady' = ringReady /\ job' = [job EXCEPT ![w].at = None]
    BY <1>3 DEF ChunkRefused
  <2>2. ringReady /\ ringReady'
    BY <2>1 DEF JobInv
  <2>3. PICK chunk, retry, tried, at :
          job[w] = [chunk |-> chunk, retry |-> retry, tried |-> tried, at |-> at]
    BY <2>1 DEF JobInv
  <2>4. [job[w] EXCEPT !.at = None]
          = [chunk |-> chunk, retry |-> retry, tried |-> tried, at |-> None]
    BY <2>3
  <2>5. job' = [job EXCEPT ![w] = [job[w] EXCEPT !.at = None]]
    BY <2>1 DEF JobInv
  <2>6. job' = [job EXCEPT ![w] = [chunk |-> chunk, retry |-> retry,
                                   tried |-> tried, at |-> None]]
    BY <2>4, <2>5
  <2> QED
    BY <2>2, <2>6, JobStep
<1> QED
  BY <1>1, <1>2, <1>3

(* What changes the upload's state. *)
LEMMA UploadSteps ==
  ASSUME [Next]_vars
  PROVE  \/ UNCHANGED uploadVars
         \/ RingResolves
         \/ \E w \in Workers : TakeWork(w)
         \/ \E w \in Workers, p \in Ring : TryRelay(w, p)
         \/ \E w \in Workers : ChunkAccepted(w)
         \/ \E w \in Workers : ChunkRefused(w)
         \/ \E k \in DOMAIN toSender : TakeAck(k)
<1>1. \A l : NoRing(l) \/ Announce(l) \/ AnnounceRefused(l) \/ SenderGivesUp(l) \/ SendAck(l)
               \/ AckRefused(l) \/ ReceiverGivesUp(l) \/ ReportDone(l) => UNCHANGED uploadVars
  BY DEF NoRing, Announce, AnnounceRefused, SenderGivesUp, SendAck, AckRefused, ReceiverGivesUp,
         ReportDone, Fail, senderVars
<1>2. \A k, l : Unplaceable(k, l) \/ TakeLastStraw(k, l) \/ TakeReceiverCancel(k, l)
                  => UNCHANGED uploadVars
  BY DEF Unplaceable, TakeLastStraw, TakeReceiverCancel
<1>3. \A k : TakeHello(k) \/ TakeDone(k) \/ TakeManifest(k) \/ RefuseEarly(k) \/ TakeAvail(k)
               \/ TakeSenderCancel(k) \/ Fetch(k) => UNCHANGED uploadVars
  BY DEF TakeHello, TakeDone, TakeManifest, RefuseEarly, TakeAvail, TakeSenderCancel, Fetch,
         senderVars
<1>4. RetryClock \/ UNCHANGED vars => UNCHANGED uploadVars
  BY DEF RetryClock, vars, senderVars
<1> QED
  BY <1>1, <1>2, <1>3, <1>4 DEF Next

LEMMA NextPlaced ==
  ASSUME PlacedInv, JobInv, [Next]_vars
  PROVE  /\ PlacedInv' /\ JobInv'
         /\ \A p \in Ring : stored[p] \subseteq stored'[p]
<1> DEFINE Kept == UNCHANGED <<placed, generation, stored>>
<1>1. ASSUME Kept, ringReady' = ringReady \/ ringReady' = TRUE
      PROVE  PlacedInv' /\ \A p \in Ring : stored[p] \subseteq stored'[p]
  BY <1>1 DEF PlacedInv
<1>2. ASSUME UNCHANGED uploadVars
      PROVE  PlacedInv' /\ JobInv' /\ \A p \in Ring : stored[p] \subseteq stored'[p]
  <2>1. Kept /\ ringReady' = ringReady /\ job' = job
    BY <1>2 DEF uploadVars
  <2> QED
    BY <1>1, <2>1 DEF JobInv
<1>3. ASSUME RingResolves \/ \E k \in DOMAIN toSender : TakeAck(k)
      PROVE  PlacedInv' /\ JobInv' /\ \A p \in Ring : stored[p] \subseteq stored'[p]
  <2>1. Kept /\ (ringReady' = ringReady \/ ringReady' = TRUE) /\ job' = job
    BY <1>3 DEF RingResolves, TakeAck
  <2>2. JobInv'
    BY <2>1 DEF JobInv
  <2> QED
    BY <1>1, <2>1, <2>2
<1>4. ASSUME NEW w \in Workers,
             TakeWork(w) \/ (\E p \in Ring : TryRelay(w, p)) \/ ChunkRefused(w)
      PROVE  PlacedInv' /\ JobInv' /\ \A p \in Ring : stored[p] \subseteq stored'[p]
  <2>1. Kept /\ ringReady' = ringReady
    BY <1>4 DEF TakeWork, TryRelay, ChunkRefused
  <2> QED
    BY <1>1, <1>4, <2>1, SenderJobs
<1> HIDE DEF Kept
<1> QED
  BY <1>2, <1>3, <1>4, AcceptedPlaces, UploadSteps

-----------------------------------------------------------------------------
(* What the two sides say. *)

LEMMA WhatMayBeSaid ==
  /\ [type |-> "cancel"] \in SenderSays
  /\ [type |-> "cancel"] \in ReceiverSays
  /\ have = Chunk => [type |-> "done"] \in ReceiverSays
<1>1. PICK m : m = [type |-> "cancel"]
  OBVIOUS
<1>2. PICK d : d = [type |-> "done"]
  OBVIOUS
<1>3. m \in SenderSays /\ m \in ReceiverSays
  BY <1>1 DEF SenderSays, ReceiverSays
<1>4. have = Chunk => d \in ReceiverSays
  BY <1>2 DEF ReceiverSays
<1> QED
  BY <1>1, <1>2, <1>3, <1>4

(* What is missing is reported as it was announced. *)
LEMMA MissingIsAnnounced ==
  ASSUME TalkInv
  PROVE  [type |-> "ack", missing |-> Missing] \in ReceiverSays
<1>1. PICK D \in SUBSET Chunk :
        view \in [type : {"avail"}, ring : BOOLEAN, places : [D -> Places]]
  BY DEF TalkInv, Truths, Announcement
<1>2. \A i \in Asked : i \in Chunk /\ view.places[i] \in Places
  BY <1>1 DEF Asked
<1>3. Missing \subseteq [chunk : Chunk, place : Places]
  BY <1>2 DEF Missing
<1>4. PICK m : m = [type |-> "ack", missing |-> Missing]
  OBVIOUS
<1>5. m \in ReceiverSays
  BY <1>3, <1>4 DEF ReceiverSays
<1> QED
  BY <1>4, <1>5

(* The chunks announced are chunks of the payload, so a cycle never fetches
   more than that. *)
LEMMA NextHave ==
  ASSUME TalkInv, HaveInv, [Next]_vars
  PROVE  HaveInv' /\ (have = Chunk => have' = Chunk)
<1>1. CASE UNCHANGED <<have, rpc>>
  BY <1>1 DEF HaveInv
<1>2. CASE have' = have /\ rpc' \in {"waiting", "fetching", "failed"}
  BY <1>2 DEF HaveInv
<1>3. ASSUME NEW served, Fetch(served) PROVE HaveInv' /\ (have = Chunk => have' = Chunk)
  <2>1. PICK D \in SUBSET Chunk :
          view \in [type : {"avail"}, ring : BOOLEAN, places : [D -> Places]]
    BY DEF TalkInv, Truths, Announcement
  <2>2. Asked \subseteq Chunk
    BY <2>1 DEF Asked
  <2>3. served \subseteq Chunk /\ have' = have \cup served /\ rpc' = "acking"
    BY <1>3, <2>2 DEF Fetch, Serve
  <2> QED
    BY <2>3 DEF HaveInv
<1>4. ASSUME NEW l, SendAck(l) PROVE HaveInv' /\ (have = Chunk => have' = Chunk)
  BY <1>4 DEF SendAck, Complete, HaveInv
<1>5. ASSUME NEW l, ReportDone(l) PROVE HaveInv' /\ (have = Chunk => have' = Chunk)
  BY <1>5 DEF ReportDone, HaveInv
<1>6. \A l : AckRefused(l) \/ ReceiverGivesUp(l) => have' = have /\ rpc' = "failed"
  BY DEF AckRefused, ReceiverGivesUp, Fail
<1>7. \A k : TakeAvail(k) \/ TakeSenderCancel(k) => have' = have /\ rpc' \in {"waiting", "fetching", "failed"}
  BY DEF TakeAvail, TakeSenderCancel
<1>8. RetryClock => have' = have /\ rpc' = "fetching"
  BY DEF RetryClock
<1>9. RingResolves \/ UNCHANGED vars => UNCHANGED <<have, rpc>>
  BY DEF RingResolves, vars, receiverVars
<1>10. \A x : NoRing(x) \/ TakeWork(x) \/ ChunkAccepted(x) \/ ChunkRefused(x) \/ Announce(x)
                \/ AnnounceRefused(x) \/ SenderGivesUp(x) \/ TakeAck(x) \/ TakeHello(x)
                \/ TakeDone(x) \/ TakeManifest(x) \/ RefuseEarly(x) => UNCHANGED <<have, rpc>>
  BY DEF NoRing, TakeWork, ChunkAccepted, ChunkRefused, Announce, AnnounceRefused, SenderGivesUp,
         TakeAck, TakeHello, TakeDone, TakeManifest, RefuseEarly, receiverVars
<1>11. \A x, y : TryRelay(x, y) \/ Unplaceable(x, y) \/ TakeLastStraw(x, y)
                   \/ TakeReceiverCancel(x, y) => UNCHANGED <<have, rpc>>
  BY DEF TryRelay, Unplaceable, TakeLastStraw, TakeReceiverCancel, receiverVars
<1> QED
  BY <1>1, <1>2, <1>3, <1>4, <1>5, <1>6, <1>7, <1>8, <1>9, <1>10, <1>11 DEF Next

(* A side says what it may, and drops what it has heard. *)
LEMMA NextQueues ==
  ASSUME PlacedInv, TalkInv, HaveInv, [Next]_vars
  PROVE  /\ toReceiver' \in Seq(SenderSays)
         /\ toSender' \in Seq(ReceiverSays)
         /\ view' \in Truths
<1> DEFINE Calm == UNCHANGED <<toReceiver, toSender, view>>
<1>1. /\ toReceiver \in Seq(SenderSays)
      /\ toSender \in Seq(ReceiverSays)
      /\ view \in Truths
  BY DEF TalkInv
<1>2. ASSUME NEW l, NoRing(l) \/ AnnounceRefused(l) \/ SenderGivesUp(l)
      PROVE  toReceiver' \in Seq(SenderSays) /\ UNCHANGED <<toSender, view>>
  <2>1. toReceiver' = Sending(l, toReceiver, [type |-> "cancel"]) /\ UNCHANGED <<toSender, view>>
    BY <1>2 DEF NoRing, AnnounceRefused, SenderGivesUp, End, receiverVars
  <2> QED
    BY <1>1, <2>1, SendingSays, WhatMayBeSaid
<1>3. ASSUME NEW w, NEW l, Unplaceable(w, l)
      PROVE  toReceiver' \in Seq(SenderSays) /\ UNCHANGED <<toSender, view>>
  <2>1. toReceiver' = Sending(l, toReceiver, [type |-> "cancel"]) /\ UNCHANGED <<toSender, view>>
    BY <1>3 DEF Unplaceable, End, receiverVars
  <2> QED
    BY <1>1, <2>1, SendingSays, WhatMayBeSaid
<1>4. ASSUME NEW l, Announce(l)
      PROVE  toReceiver' \in Seq(SenderSays) /\ UNCHANGED <<toSender, view>>
  <2>1. toReceiver' = Sending(l, toReceiver, Latest) /\ UNCHANGED <<toSender, view>>
    BY <1>4 DEF Announce, receiverVars
  <2>2. Latest \in SenderSays
    BY LatestIsTrue DEF SenderSays
  <2> QED
    BY <1>1, <2>1, <2>2, SendingSays
<1>5. ASSUME NEW k \in DOMAIN toSender, TakeAck(k) \/ TakeHello(k) \/ TakeDone(k)
      PROVE  toSender' \in Seq(ReceiverSays) /\ UNCHANGED <<toReceiver, view>>
  <2>1. toSender' = After(toSender, k) /\ UNCHANGED <<toReceiver, view>>
    BY <1>5 DEF TakeAck, TakeHello, TakeDone, senderVars
  <2> QED
    BY <1>1, <2>1, AfterSays
<1>6. ASSUME NEW k \in DOMAIN toSender, NEW l, TakeLastStraw(k, l) \/ TakeReceiverCancel(k, l)
      PROVE  /\ toSender' \in Seq(ReceiverSays) /\ toReceiver' \in Seq(SenderSays)
             /\ UNCHANGED view
  <2>1. /\ toSender' = After(toSender, k) /\ UNCHANGED view
        /\ toReceiver' = Sending(l, toReceiver, [type |-> "cancel"])
    BY <1>6 DEF TakeLastStraw, TakeReceiverCancel, End
  <2> QED
    BY <1>1, <2>1, AfterSays, SendingSays, WhatMayBeSaid
<1>7. ASSUME NEW k \in DOMAIN toReceiver, TakeManifest(k) \/ TakeSenderCancel(k)
      PROVE  toReceiver' \in Seq(SenderSays) /\ UNCHANGED <<toSender, view>>
  <2>1. toReceiver' = After(toReceiver, k) /\ UNCHANGED <<toSender, view>>
    BY <1>7 DEF TakeManifest, TakeSenderCancel
  <2> QED
    BY <1>1, <2>1, AfterSays
<1>8. ASSUME NEW k \in DOMAIN toReceiver, RefuseEarly(k)
      PROVE  toReceiver' \in Seq(SenderSays) /\ UNCHANGED <<toSender, view>>
  <2>1. toReceiver' = RemoveAt(toReceiver, k) /\ UNCHANGED <<toSender, view>>
    BY <1>8 DEF RefuseEarly, receiverVars
  <2> QED
    BY <1>1, <2>1, RemovedSays
<1>9. ASSUME NEW k \in DOMAIN toReceiver, TakeAvail(k)
      PROVE  toReceiver' \in Seq(SenderSays) /\ view' \in Truths /\ UNCHANGED toSender
  <2>1. /\ toReceiver' = After(toReceiver, k) /\ UNCHANGED toSender
        /\ view' = toReceiver[k] /\ toReceiver[k].type = "avail"
    BY <1>9 DEF TakeAvail
  <2>2. PICK m \in SenderSays : m = toReceiver[k]
    BY <1>1, LenProperties
  <2>3. m \in Truths
    BY <2>1, <2>2 DEF SenderSays
  <2> QED
    BY <1>1, <2>1, <2>2, <2>3, AfterSays
<1>10. ASSUME NEW l, SendAck(l)
       PROVE  toSender' \in Seq(ReceiverSays) /\ UNCHANGED <<toReceiver, view>>
  <2>1. /\ toSender' = Sending(l, toSender, [type |-> "ack", missing |-> Missing])
        /\ UNCHANGED <<toReceiver, view>>
    BY <1>10 DEF SendAck, senderVars
  <2> QED
    BY <1>1, <2>1, SendingSays, MissingIsAnnounced
<1>11. ASSUME NEW l, AckRefused(l) \/ ReceiverGivesUp(l)
       PROVE  toSender' \in Seq(ReceiverSays) /\ UNCHANGED <<toReceiver, view>>
  <2>1. toSender' = Sending(l, toSender, [type |-> "cancel"]) /\ UNCHANGED <<toReceiver, view>>
    BY <1>11 DEF AckRefused, ReceiverGivesUp, Fail, senderVars
  <2> QED
    BY <1>1, <2>1, SendingSays, WhatMayBeSaid
<1>12. ASSUME NEW l, ReportDone(l)
       PROVE  toSender' \in Seq(ReceiverSays) /\ UNCHANGED <<toReceiver, view>>
  <2>1. toSender' = Sending(l, toSender, [type |-> "done"]) /\ UNCHANGED <<toReceiver, view>>
    BY <1>12 DEF ReportDone, senderVars
  <2>2. have = Chunk
    BY <1>12 DEF ReportDone, HaveInv
  <2> QED
    BY <1>1, <2>1, <2>2, SendingSays, WhatMayBeSaid
<1>13. RingResolves \/ RetryClock \/ UNCHANGED vars => Calm
  BY DEF RingResolves, RetryClock, vars, senderVars, receiverVars
<1>14. \A x : TakeWork(x) \/ ChunkAccepted(x) \/ ChunkRefused(x) \/ Fetch(x) => Calm
  BY DEF TakeWork, ChunkAccepted, ChunkRefused, Fetch, senderVars, receiverVars
<1>15. \A x, y : TryRelay(x, y) => Calm
  BY DEF TryRelay, receiverVars
<1> QED
  BY <1>1, <1>2, <1>3, <1>4, <1>5, <1>6, <1>7, <1>8, <1>9, <1>10, <1>11, <1>12, <1>13, <1>14, <1>15
  DEF Next

LEMMA NextTalk ==
  ASSUME IInv, PlacedInv', \A p \in Ring : stored[p] \subseteq stored'[p],
         have = Chunk => have' = Chunk, [Next]_vars
  PROVE  TalkInv'
<1>1. SenderSays \subseteq SenderSays' /\ Truths \subseteq Truths'
  BY TruthsStay DEF IInv
<1>2. ReceiverSays \subseteq ReceiverSays'
  BY DEF ReceiverSays
<1>3. /\ toReceiver' \in Seq(SenderSays) /\ toSender' \in Seq(ReceiverSays) /\ view' \in Truths
  BY NextQueues DEF IInv
<1>4. toReceiver' \in Seq(SenderSays') /\ toSender' \in Seq(ReceiverSays')
  BY <1>1, <1>2, <1>3, SaysMore
<1> QED
  BY <1>1, <1>3, <1>4 DEF TalkInv

-----------------------------------------------------------------------------
(* The invariant of the whole. It is inductive because a placement is recorded
   where it was accepted, and what is stored stays. *)
THEOREM Invariance == Spec => []IInv
<1>1. IInv /\ [Next]_vars => IInv'
  BY NextPlaced, NextHave, NextTalk DEF IInv
<1> QED
  BY <1>1, InitHolds, PTL DEF Spec

(* What is announced is stored where it is announced (worker, availability). *)
THEOREM Announced == Spec => []AnnouncedIsStored
<1>1. IInv => AnnouncedIsStored
  <2> SUFFICES ASSUME IInv PROVE AnnouncedIsStored
    OBVIOUS
  <2>1. TrueOf(view)
    BY DEF IInv, TalkInv, Truths
  <2>2. ASSUME NEW k \in DOMAIN toReceiver, toReceiver[k].type = "avail"
        PROVE  TrueOf(toReceiver[k])
    <3>1. PICK m \in SenderSays : m = toReceiver[k]
      BY LenProperties DEF IInv, TalkInv
    <3> QED
      BY <2>2, <3>1 DEF SenderSays, Truths
  <2> QED
    BY <2>1, <2>2 DEF AnnouncedIsStored
<1> QED
  BY <1>1, Invariance, PTL

(* The relayed transfer delivers the file as any route has to: "sent" is only
   reported once the receiver has said that it holds the file. *)
THEOREM Refinement == Spec => ImplementsDelivery
<1>1. Init => Deliver!Init
  <2>1. 0 \in Chunk
    BY SizesAssumption DEF Chunk
  <2> QED
    BY <2>1 DEF Init, Deliver!Init
<1>2. IInv /\ IInv' /\ [Next]_vars => [Deliver!Next]_Deliver!vars
  <2> SUFFICES ASSUME IInv, IInv', [Next]_vars PROVE [Deliver!Next]_Deliver!vars
    OBVIOUS
  <2> USE DEF Deliver!Next, Deliver!vars
  <2>1. rpc \in {"waiting", "fetching", "acking", "verified", "done", "failed"}
    BY DEF IInv, HaveInv
  <2>2. UNCHANGED <<outcome, rpc, have>> => UNCHANGED Deliver!vars
    OBVIOUS
  <2>3. \A l : NoRing(l) \/ AnnounceRefused(l) \/ SenderGivesUp(l) => Deliver!SenderEnds
    BY DEF NoRing, AnnounceRefused, SenderGivesUp, End, receiverVars, Deliver!SenderEnds
  <2>4. \A x, l : Unplaceable(x, l) \/ TakeLastStraw(x, l) \/ TakeReceiverCancel(x, l)
                    => Deliver!SenderEnds
    BY DEF Unplaceable, TakeLastStraw, TakeReceiverCancel, End, receiverVars, Deliver!SenderEnds
  <2>5. ASSUME NEW k \in DOMAIN toSender, TakeDone(k) PROVE Deliver!SenderEnds
    <3>1. PICK m \in ReceiverSays : m = toSender[k]
      BY LenProperties DEF IInv, TalkInv
    <3>2. have = Chunk
      BY <2>5, <3>1 DEF TakeDone, ReceiverSays
    <3> QED
      BY <2>5, <3>2 DEF TakeDone, Deliver!SenderEnds
  <2>6. ASSUME NEW served, Fetch(served) PROVE [Deliver!Next]_Deliver!vars
    <3>1. have = Chunk => have' = Chunk
      BY NextHave DEF IInv
    <3> QED
      BY <2>6, <3>1 DEF Fetch, senderVars, Deliver!Take
  <2>7. ASSUME NEW l, SendAck(l) PROVE UNCHANGED Deliver!vars
    BY <2>7 DEF SendAck, senderVars
  <2>8. \A l : AckRefused(l) \/ ReceiverGivesUp(l) => Deliver!ReceiverEnds
    BY DEF AckRefused, ReceiverGivesUp, Fail, senderVars, Deliver!ReceiverEnds
  <2>9. ASSUME NEW l, ReportDone(l) PROVE Deliver!ReceiverEnds
    <3>1. have = Chunk
      BY <2>9 DEF ReportDone, IInv, HaveInv
    <3> QED
      BY <2>9, <3>1 DEF ReportDone, senderVars, Deliver!ReceiverEnds
  <2>10. ASSUME NEW k, TakeSenderCancel(k) PROVE Deliver!ReceiverEnds
    BY <2>10 DEF TakeSenderCancel, Deliver!ReceiverEnds
  <2>11. ASSUME NEW k, TakeAvail(k) PROVE UNCHANGED Deliver!vars
    BY <2>11 DEF TakeAvail
  <2>12. CASE RetryClock
    BY <2>12 DEF RetryClock, senderVars
  <2>13. RingResolves \/ UNCHANGED vars => UNCHANGED <<outcome, rpc, have>>
    BY DEF RingResolves, vars, senderVars, receiverVars
  <2>14. \A x : TakeWork(x) \/ ChunkAccepted(x) \/ ChunkRefused(x) \/ Announce(x) \/ TakeAck(x)
                  \/ TakeHello(x) \/ TakeManifest(x) \/ RefuseEarly(x)
                  => UNCHANGED <<outcome, rpc, have>>
    BY DEF TakeWork, ChunkAccepted, ChunkRefused, Announce, TakeAck, TakeHello, TakeManifest,
           RefuseEarly, senderVars, receiverVars
  <2>15. \A x, y : TryRelay(x, y) => UNCHANGED <<outcome, rpc, have>>
    BY DEF TryRelay, receiverVars
  <2> QED
    BY <2>2, <2>3, <2>4, <2>5, <2>6, <2>7, <2>8, <2>9, <2>10, <2>11, <2>12, <2>13, <2>14, <2>15
    DEF Next
<1> QED
  BY <1>1, <1>2, Invariance, PTL DEF Spec, ImplementsDelivery, Deliver!Spec

-----------------------------------------------------------------------------
(* Sums over a finite set, by its definition: the library proves nothing of
   them. There is an induction in each, on the size of the set, in the form of
   the least counterexample. *)

(* A set of naturals has a least element. *)
LEMMA LeastNatural ==
  ASSUME NEW T \in SUBSET Nat, T # {}
  PROVE  \E n \in T : \A m \in T : n <= m
<1>1. PICK n \in T : \A m \in T : <<m, n>> \notin OpToRel(<, Nat)
  BY NatLessThanWellFounded, WFMin, Zenon
<1>2. \A m \in T : ~ (m < n)
  BY <1>1 DEF OpToRel
<1> QED
  BY <1>2

(* What a sum over a set is made of: the element taken off first, and the sum
   of the rest. *)
First(s) == CHOOSE x \in s : TRUE
SumStep(fun, f, s) == IF s = {} THEN 0 ELSE fun[First(s)] + f[s \ {First(s)}]
SumsOf(fun, f) == f = [s \in SUBSET DOMAIN fun |-> SumStep(fun, f, s)]

LEMMA SumUnfolds ==
  ASSUME NEW fun
  PROVE  SumFunction(fun) = (CHOOSE f : SumsOf(fun, f))[DOMAIN fun]
  BY DEF SumFunction, SumFunctionOnSet, FoldFunctionOnSet, MapThenFoldSet, SumsOf, SumStep, First

LEMMA OneLess ==
  ASSUME NEW D, IsFiniteSet(D), NEW s \in SUBSET D, s # {}
  PROVE  /\ First(s) \in s /\ s \ {First(s)} \in SUBSET D
         /\ Cardinality(s) \in Nat /\ Cardinality(s \ {First(s)}) = Cardinality(s) - 1
         /\ Cardinality(s) - 1 \in Nat
<1>1. First(s) \in s
  BY DEF First
<1>2. IsFiniteSet(s)
  BY FS_Subset
<1>3. Cardinality(s \ {First(s)}) \in Nat /\ Cardinality(s) \in Nat
  BY <1>2, FS_CardinalityType, FS_RemoveElement
<1> QED
  BY <1>1, <1>2, <1>3, FS_RemoveElement

(* The recursion is well founded: there is such a function. By the size of the
   sets it is defined for. *)
LEMMA SumsExist ==
  ASSUME NEW fun, IsFiniteSet(DOMAIN fun)
  PROVE  \E f : SumsOf(fun, f)
<1> DEFINE D == DOMAIN fun
           Right(f, k) == \A s \in SUBSET D : Cardinality(s) <= k => f[s] = SumStep(fun, f, s)
           Wrong == {k \in Nat : \A f : DOMAIN f = SUBSET D => ~ Right(f, k)}
<1>1. 0 \notin Wrong
  <2>1. PICK f : f = [s \in SUBSET D |-> 0]
    OBVIOUS
  <2>2. \A s \in SUBSET D : Cardinality(s) <= 0 => s = {}
    BY FS_Subset, FS_CardinalityType, FS_EmptySet
  <2>3. Right(f, 0)
    BY <2>1, <2>2 DEF SumStep
  <2> QED
    BY <2>1, <2>3
<1>2. ASSUME NEW k \in Nat, k \notin Wrong PROVE k + 1 \notin Wrong
  <2>1. PICK f : DOMAIN f = SUBSET D /\ Right(f, k)
    BY <1>2
  <2>2. PICK g : g = [s \in SUBSET D |-> IF Cardinality(s) <= k THEN f[s] ELSE SumStep(fun, f, s)]
    OBVIOUS
  <2>3. ASSUME NEW s \in SUBSET D, Cardinality(s) <= k + 1 PROVE g[s] = SumStep(fun, g, s)
    <3>1. g[s] = SumStep(fun, f, s)
      BY <2>1, <2>2
    <3>2. CASE s = {}
      BY <3>1, <3>2 DEF SumStep
    <3>3. CASE s # {}
      <4>1. g[s \ {First(s)}] = f[s \ {First(s)}]
        BY <2>2, <2>3, <3>3, OneLess
      <4> QED
        BY <3>1, <4>1 DEF SumStep
    <3> QED
      BY <3>2, <3>3
  <2>4. Right(g, k + 1) /\ DOMAIN g = SUBSET D
    BY <2>2, <2>3
  <2> QED
    BY <2>4
<1>3. Wrong = {}
  <2> SUFFICES ASSUME Wrong # {} PROVE FALSE
    OBVIOUS
  <2>1. Wrong \in SUBSET Nat
    OBVIOUS
  <2> HIDE DEF Wrong
  <2>2. PICK n \in Wrong : \A m \in Wrong : n <= m
    BY <2>1, LeastNatural
  <2>3. n \in Nat /\ n # 0
    BY <1>1, <2>1, <2>2
  <2>4. n - 1 \in Nat /\ n - 1 \notin Wrong /\ (n - 1) + 1 = n
    BY <2>1, <2>2, <2>3
  <2> QED
    BY <1>2, <2>2, <2>4
<1>4. Cardinality(D) \in Nat
  BY FS_CardinalityType
<1>5. PICK f : DOMAIN f = SUBSET D /\ Right(f, Cardinality(D))
  BY <1>3, <1>4
<1>6. \A s \in SUBSET D : Cardinality(s) <= Cardinality(D)
  BY FS_Subset
<1>7. PICK g : g = [s \in SUBSET D |-> SumStep(fun, f, s)]
  OBVIOUS
<1>8. \A s \in SUBSET D : g[s] = f[s]
  BY <1>5, <1>6, <1>7
<1>9. ASSUME NEW s \in SUBSET D PROVE SumStep(fun, f, s) = SumStep(fun, g, s)
  BY <1>8, OneLess DEF SumStep
<1>10. g = [s \in SUBSET D |-> SumStep(fun, g, s)]
  BY <1>7, <1>9
<1> QED
  BY <1>10 DEF SumsOf

LEMMA SumRecursion ==
  ASSUME NEW fun, IsFiniteSet(DOMAIN fun)
  PROVE  \E f : SumsOf(fun, f) /\ SumFunction(fun) = f[DOMAIN fun]
<1>1. PICK f : f = CHOOSE g : SumsOf(fun, g)
  OBVIOUS
<1>2. SumsOf(fun, f)
  BY <1>1, SumsExist, Zenon
<1> QED
  BY <1>1, <1>2, SumUnfolds

(* Nothing adds up to nothing. *)
LEMMA SumOfZeros ==
  ASSUME NEW D, IsFiniteSet(D)
  PROVE  SumFunction([x \in D |-> 0]) = 0
<1>1. PICK z : z = [x \in D |-> 0]
  OBVIOUS
<1>2. DOMAIN z = D
  BY <1>1
<1>3. PICK f : SumsOf(z, f) /\ SumFunction(z) = f[D]
  BY <1>2, SumRecursion
<1> DEFINE Wrong == {k \in Nat : \E s \in SUBSET D : Cardinality(s) = k /\ f[s] # 0}
<1>4. Wrong = {}
  <2> SUFFICES ASSUME Wrong # {} PROVE FALSE
    OBVIOUS
  <2>1. Wrong \in SUBSET Nat
    OBVIOUS
  <2> HIDE DEF Wrong
  <2>2. PICK n \in Wrong : \A m \in Wrong : n <= m
    BY <2>1, LeastNatural
  <2>3. PICK s \in SUBSET D : Cardinality(s) = n /\ f[s] # 0
    BY <2>2 DEF Wrong
  <2>4. s # {} /\ f[s] = z[First(s)] + f[s \ {First(s)}]
    BY <1>2, <1>3, <2>3 DEF SumsOf, SumStep
  <2>5. z[First(s)] = 0
    BY <1>1, <2>4, OneLess
  <2>6. f[s \ {First(s)}] = 0
    <3>0. n \in Nat /\ n - 1 \in Nat
      BY <2>3, <2>4, OneLess
    <3>1. n - 1 \notin Wrong
      BY <3>0, <2>2
    <3> QED
      BY <3>0, <3>1, <2>3, <2>4, OneLess DEF Wrong
  <2> QED
    BY <2>3, <2>4, <2>5, <2>6
<1>5. f[D] = 0
  <2>1. Cardinality(D) \in Nat /\ D \in SUBSET D
    BY FS_CardinalityType
  <2>2. f[D] # 0 => Cardinality(D) \in Wrong
    BY <2>1
  <2> HIDE DEF Wrong
  <2> QED
    BY <1>4, <2>2
<1> QED
  BY <1>1, <1>3, <1>5

(* One more somewhere is one more in all. *)
LEMMA SumGrowsByOne ==
  ASSUME NEW D, IsFiniteSet(D), NEW fun \in [D -> Nat], NEW gun \in [D -> Nat], NEW p \in D,
         \A x \in D : gun[x] = IF x = p THEN fun[x] + 1 ELSE fun[x]
  PROVE  SumFunction(fun) \in Nat /\ SumFunction(gun) = SumFunction(fun) + 1
<1>1. DOMAIN fun = D /\ DOMAIN gun = D
  OBVIOUS
<1>2. PICK f : SumsOf(fun, f) /\ SumFunction(fun) = f[D]
  BY <1>1, SumRecursion
<1>3. PICK g : SumsOf(gun, g) /\ SumFunction(gun) = g[D]
  BY <1>1, SumRecursion
<1> DEFINE Fits(s) == f[s] \in Nat /\ g[s] = IF p \in s THEN f[s] + 1 ELSE f[s]
           Wrong == {k \in Nat : \E s \in SUBSET D : Cardinality(s) = k /\ ~ Fits(s)}
<1>4. Wrong = {}
  <2> SUFFICES ASSUME Wrong # {} PROVE FALSE
    OBVIOUS
  <2>1. Wrong \in SUBSET Nat
    OBVIOUS
  <2> HIDE DEF Wrong
  <2>2. PICK n \in Wrong : \A m \in Wrong : n <= m
    BY <2>1, LeastNatural
  <2>3. PICK s \in SUBSET D : Cardinality(s) = n /\ ~ Fits(s)
    BY <2>2 DEF Wrong
  <2>4. s # {}
    BY <1>1, <1>2, <1>3, <2>3 DEF SumsOf, SumStep
  <2>5. PICK x \in s, r \in SUBSET D : x = First(s) /\ r = s \ {x} /\ Cardinality(r) = n - 1
    BY <2>3, <2>4, OneLess
  <2>6. f[s] = fun[x] + f[r] /\ g[s] = gun[x] + g[r]
    BY <1>1, <1>2, <1>3, <2>4, <2>5 DEF SumsOf, SumStep
  <2>7. Fits(r)
    <3>0. n \in Nat /\ n - 1 \in Nat
      BY <2>3, <2>4, OneLess
    <3>1. n - 1 \notin Wrong
      BY <3>0, <2>2
    <3> QED
      BY <3>0, <3>1, <2>5 DEF Wrong
  <2>8. x \in D /\ fun[x] \in Nat /\ (p \in s <=> p \in r \/ p = x) /\ x \notin r
    BY <2>3, <2>5
  <2>9. Fits(s)
    BY <2>6, <2>7, <2>8
  <2> QED
    BY <2>3, <2>9
<1>5. Fits(D)
  <2>1. Cardinality(D) \in Nat /\ D \in SUBSET D
    BY FS_CardinalityType
  <2> HIDE DEF Fits
  <2>2. ~ Fits(D) => Cardinality(D) \in Wrong
    BY <2>1
  <2> HIDE DEF Wrong
  <2> QED
    BY <1>4, <2>2
<1> QED
  BY <1>2, <1>3, <1>5

-----------------------------------------------------------------------------
(* Accounts: the re-sends waiting, and the relays charged. An acknowledgement is
   charged miss by miss, and the recursion over the chunks is followed by the
   least chunk it would go wrong at. *)

(* Jobs that are re-sends, and re-sends waiting for a worker. *)
Retrying(w, i) == job[w] # None /\ job[w].retry /\ job[w].chunk = i
Queued(i) == i \in ToSet(retryQueue)

(* One more, at the end. *)
LEMMA OneMoreQueued ==
  ASSUME NEW q \in Seq(Chunk), NEW i \in Chunk
  PROVE  /\ Append(q, i) \in Seq(Chunk)
         /\ ToSet(Append(q, i)) = ToSet(q) \cup {i}
         /\ IsInjective(q) /\ i \notin ToSet(q) => IsInjective(Append(q, i))
<1>1. PICK n \in Nat : n = Len(q) /\ DOMAIN q = 1 .. n
  BY LenProperties
<1>2. PICK r : r = Append(q, i)
  OBVIOUS
<1>3. /\ r \in Seq(Chunk) /\ DOMAIN r = 1 .. n + 1
      /\ \A k \in 1 .. n : r[k] = q[k]
      /\ r[n + 1] = i
  BY <1>1, <1>2, AppendProperties, LenProperties
<1>4. ToSet(r) = ToSet(q) \cup {i}
  <2>1. ASSUME NEW x \in ToSet(r) PROVE x \in ToSet(q) \cup {i}
    <3>1. PICK k \in 1 .. n + 1 : x = r[k]
      BY <1>3, <2>1 DEF ToSet
    <3>2. k \in 1 .. n \/ k = n + 1
      BY <1>1
    <3> QED
      BY <1>1, <1>3, <3>1, <3>2 DEF ToSet
  <2>2. ASSUME NEW k \in 1 .. n PROVE q[k] \in ToSet(r)
    <3>1. k \in 1 .. n + 1
      BY <1>1
    <3> QED
      BY <1>3, <3>1 DEF ToSet
  <2>3. i \in ToSet(r)
    <3>1. n + 1 \in 1 .. n + 1
      BY <1>1
    <3> QED
      BY <1>3, <3>1 DEF ToSet
  <2> QED
    BY <1>1, <2>1, <2>2, <2>3 DEF ToSet
<1>5. ASSUME IsInjective(q), i \notin ToSet(q) PROVE IsInjective(r)
  <2> SUFFICES ASSUME NEW j \in 1 .. n + 1, NEW k \in 1 .. n + 1, r[j] = r[k] PROVE j = k
    BY <1>3 DEF IsInjective
  <2>1. j \in 1 .. n => r[j] \in ToSet(q) /\ r[j] = q[j]
    BY <1>1, <1>3 DEF ToSet
  <2>2. k \in 1 .. n => r[k] \in ToSet(q) /\ r[k] = q[k]
    BY <1>1, <1>3 DEF ToSet
  <2>3. j \in 1 .. n \/ j = n + 1
    BY <1>1
  <2>4. k \in 1 .. n \/ k = n + 1
    BY <1>1
  <2> QED
    BY <1>1, <1>3, <1>5, <2>1, <2>2, <2>3, <2>4 DEF IsInjective
<1> QED
  BY <1>2, <1>3, <1>4, <1>5

(* One fewer, at the front. *)
LEMMA OneFewerQueued ==
  ASSUME NEW q \in Seq(Chunk), q # <<>>
  PROVE  /\ Tail(q) \in Seq(Chunk) /\ Head(q) \in Chunk
         /\ ToSet(q) = ToSet(Tail(q)) \cup {Head(q)}
         /\ IsInjective(q) => IsInjective(Tail(q)) /\ Head(q) \notin ToSet(Tail(q))
<1>1. PICK n \in Nat : n + 1 = Len(q) /\ DOMAIN q = 1 .. n + 1
  <2>1. Len(q) \in Nat /\ DOMAIN q = 1 .. Len(q) /\ Len(q) # 0
    BY LenProperties, EmptySeq
  <2>2. Len(q) - 1 \in Nat /\ (Len(q) - 1) + 1 = Len(q)
    BY <2>1
  <2> QED
    BY <2>1, <2>2
<1>2. PICK r : r = Tail(q)
  OBVIOUS
<1>3. /\ r \in Seq(Chunk) /\ DOMAIN r = 1 .. n
      /\ \A k \in 1 .. n : r[k] = q[k + 1]
      /\ Head(q) = q[1]
  BY <1>1, <1>2, HeadTailProperties, LenProperties
<1>4. 1 \in DOMAIN q
  BY <1>1
<1>5. Head(q) \in Chunk
  BY <1>3, <1>4, ElementOfSeq
<1>6. \A k \in 1 .. n : k + 1 \in DOMAIN q
  BY <1>1
<1>7. ASSUME NEW k \in DOMAIN q, k # 1 PROVE k - 1 \in 1 .. n /\ q[k] = r[k - 1]
  <2>1. k - 1 \in 1 .. n /\ (k - 1) + 1 = k
    BY <1>1, <1>7
  <2> QED
    BY <1>3, <2>1
<1>8. ToSet(q) = ToSet(r) \cup {Head(q)}
  BY <1>3, <1>4, <1>6, <1>7 DEF ToSet
<1>9. ASSUME IsInjective(q) PROVE IsInjective(r) /\ Head(q) \notin ToSet(r)
  <2>1. ASSUME NEW j \in 1 .. n, NEW k \in 1 .. n, r[j] = r[k] PROVE j = k
    <3>1. j + 1 = k + 1
      BY <1>3, <1>6, <1>9, <2>1 DEF IsInjective
    <3> QED
      BY <3>1
  <2>2. ASSUME NEW k \in 1 .. n, r[k] = Head(q) PROVE FALSE
    <3>1. k + 1 = 1
      BY <1>3, <1>4, <1>6, <1>9, <2>2 DEF IsInjective
    <3> QED
      BY <3>1
  <2>3. IsInjective(r)
    BY <1>3, <2>1 DEF IsInjective
  <2>4. Head(q) \notin ToSet(r)
    BY <1>3, <2>2 DEF ToSet
  <2> QED
    BY <2>3, <2>4
<1> QED
  BY <1>2, <1>3, <1>5, <1>8, <1>9

(* The accounts after the misses of the chunks before the n-th. *)
ChargedUpTo(ms, f, n) ==
  IF n = 0 THEN [misses |-> misses, demoted |-> demoted, queue |-> retryQueue]
  ELSE IF \E m \in ms : m.chunk = n - 1
       THEN Charged(f[n - 1], CHOOSE m \in ms : m.chunk = n - 1)
       ELSE f[n - 1]
ChargesOf(ms, f) == f = [n \in 0 .. Total |-> ChargedUpTo(ms, f, n)]

LEMMA ChargedAllUnfolds ==
  ASSUME NEW ms
  PROVE  ChargedAll(ms) = (CHOOSE f : ChargesOf(ms, f))[Total]
  BY DEF ChargedAll, ChargesOf, ChargedUpTo

LEMMA ChargesExist ==
  ASSUME NEW ms
  PROVE  \E f : ChargesOf(ms, f)
<1> DEFINE Right(f, k) == \A n \in 0 .. k : f[n] = ChargedUpTo(ms, f, n)
           Wrong == {k \in Nat : \A f : ~ Right(f, k)}
<1>1. 0 \notin Wrong
  <2>1. PICK f : f = [n \in 0 .. 0 |-> [misses |-> misses, demoted |-> demoted, queue |-> retryQueue]]
    OBVIOUS
  <2>2. Right(f, 0)
    BY <2>1 DEF ChargedUpTo
  <2> QED
    BY <2>2
<1>2. ASSUME NEW k \in Nat, k \notin Wrong PROVE k + 1 \notin Wrong
  <2>1. PICK f : Right(f, k)
    BY <1>2
  <2>2. PICK g : g = [n \in 0 .. k + 1 |-> IF n <= k THEN f[n] ELSE ChargedUpTo(ms, f, n)]
    OBVIOUS
  <2>3. \A n \in 0 .. k : n \in 0 .. k + 1 /\ g[n] = f[n]
    BY <2>2
  <2>4. ASSUME NEW n \in 0 .. k + 1 PROVE g[n] = ChargedUpTo(ms, g, n)
    <3>1. g[n] = ChargedUpTo(ms, f, n)
      BY <2>1, <2>2
    <3>2. n # 0 => n - 1 \in 0 .. k
      OBVIOUS
    <3>3. n # 0 => g[n - 1] = f[n - 1]
      BY <2>3, <3>2
    <3> QED
      BY <3>1, <3>3 DEF ChargedUpTo
  <2>5. Right(g, k + 1)
    BY <2>4
  <2> HIDE DEF Right
  <2> QED
    BY <2>5
<1>3. Wrong = {}
  <2> SUFFICES ASSUME Wrong # {} PROVE FALSE
    OBVIOUS
  <2>1. Wrong \in SUBSET Nat
    OBVIOUS
  <2> HIDE DEF Wrong
  <2>2. PICK n \in Wrong : \A m \in Wrong : n <= m
    BY <2>1, LeastNatural
  <2>3. n \in Nat /\ n # 0
    BY <1>1, <2>1, <2>2
  <2>4. n - 1 \in Nat /\ n - 1 \notin Wrong /\ (n - 1) + 1 = n
    BY <2>1, <2>2, <2>3
  <2> QED
    BY <1>2, <2>2, <2>4
<1>4. Total \in Nat
  BY SizesAssumption
<1>5. PICK f : Right(f, Total)
  BY <1>3, <1>4
<1>6. PICK g : g = [n \in 0 .. Total |-> ChargedUpTo(ms, f, n)]
  OBVIOUS
<1>7. \A n \in 0 .. Total : g[n] = f[n]
  BY <1>5, <1>6
<1>8. ASSUME NEW n \in 0 .. Total PROVE ChargedUpTo(ms, f, n) = ChargedUpTo(ms, g, n)
  <2>1. n # 0 => n - 1 \in 0 .. Total
    BY <1>4
  <2>2. n # 0 => f[n - 1] = g[n - 1]
    BY <1>7, <2>1
  <2> QED
    BY <2>2 DEF ChargedUpTo
<1>9. g = [n \in 0 .. Total |-> ChargedUpTo(ms, g, n)]
  BY <1>6, <1>8
<1> QED
  BY <1>9 DEF ChargesOf

(* What the sender keeps about the relays and the re-sends waiting. *)
AccountInv ==
  /\ misses \in [Ring -> Nat] /\ giveUps \in [Ring -> Nat] /\ demoted \subseteq Ring
  /\ retryQueue \in Seq(Chunk) /\ IsInjective(retryQueue)

(* Misses one acknowledgement may be charged for: of different chunks, none of
   which waits for a re-send. *)
Chargeable(ms) ==
  /\ ms \subseteq [chunk : Chunk, place : Places]
  /\ \A m, n \in ms : m.chunk = n.chunk => m = n
  /\ \A m \in ms : ~ Queued(m.chunk)

(* The chunks to be charged for, and those of them before the n-th. *)
ChunksOf(ms) == {m.chunk : m \in ms}
Due(ms, n) == {i \in ChunksOf(ms) : i < n}

(* What the accounts are once those before the n-th chunk are charged. *)
Balanced(ms, n, acc) ==
  /\ acc = [misses |-> acc.misses, demoted |-> acc.demoted, queue |-> acc.queue]
  /\ acc.misses \in [Ring -> Nat] /\ acc.demoted \subseteq Ring
  /\ acc.queue \in Seq(Chunk) /\ IsInjective(acc.queue)
  /\ ToSet(acc.queue) = ToSet(retryQueue) \cup Due(ms, n)
  /\ SumFunction(acc.misses) = SumFunction(misses) + Cardinality(Due(ms, n))
  /\ \A p \in Ring : (\A m \in ms : m.place.at # p) =>
       acc.misses[p] = misses[p] /\ (p \in acc.demoted <=> p \in demoted)

LEMMA SumIsNatural ==
  ASSUME NEW fun \in [Ring -> Nat]
  PROVE  SumFunction(fun) \in Nat
<1>1. 0 \in Ring /\ IsFiniteSet(Ring)
  BY SizesAssumption, FS_Interval DEF Ring
<1>2. PICK gun : gun = [x \in Ring |-> IF x = 0 THEN fun[x] + 1 ELSE fun[x]]
  OBVIOUS
<1>3. gun \in [Ring -> Nat] /\ \A x \in Ring : gun[x] = IF x = 0 THEN fun[x] + 1 ELSE fun[x]
  BY <1>2
<1> QED
  BY <1>1, <1>3, SumGrowsByOne

LEMMA DueIn ==
  ASSUME NEW ms, Chargeable(ms)
  PROVE  /\ ChunksOf(ms) \subseteq Chunk /\ IsFiniteSet(ChunksOf(ms))
         /\ \A n : Due(ms, n) \subseteq Chunk /\ IsFiniteSet(Due(ms, n))
<1>1. ChunksOf(ms) \subseteq Chunk
  BY DEF ChunksOf, Chargeable
<1>2. \A n : Due(ms, n) \subseteq Chunk
  BY <1>1 DEF Due
<1>3. IsFiniteSet(Chunk)
  BY SizesAssumption, FS_Interval DEF Chunk
<1> QED
  BY <1>1, <1>2, <1>3, FS_Subset

LEMMA BalancedAtFirst ==
  ASSUME AccountInv, NEW ms, Chargeable(ms)
  PROVE  Balanced(ms, 0, [misses |-> misses, demoted |-> demoted, queue |-> retryQueue])
<1>1. PICK acc : acc = [misses |-> misses, demoted |-> demoted, queue |-> retryQueue]
  OBVIOUS
<1>2. /\ acc = [misses |-> acc.misses, demoted |-> acc.demoted, queue |-> acc.queue]
      /\ acc.misses = misses /\ acc.demoted = demoted /\ acc.queue = retryQueue
  BY <1>1
<1>3. Due(ms, 0) = {}
  BY DueIn DEF Due, Chunk
<1>4. Cardinality(Due(ms, 0)) = 0
  BY <1>3, FS_EmptySet
<1>5. SumFunction(misses) \in Nat
  BY SumIsNatural DEF AccountInv
<1>6. SumFunction(acc.misses) = SumFunction(misses) + Cardinality(Due(ms, 0))
  BY <1>2, <1>4, <1>5
<1>7. ToSet(acc.queue) = ToSet(retryQueue) \cup Due(ms, 0)
  BY <1>2, <1>3
<1>8. Balanced(ms, 0, acc)
  BY <1>2, <1>6, <1>7 DEF Balanced, AccountInv
<1> QED
  BY <1>1, <1>8

LEMMA BalancedStays ==
  ASSUME AccountInv, NEW ms, Chargeable(ms), NEW n \in Nat, NEW acc, Balanced(ms, n, acc),
         ~ \E m \in ms : m.chunk = n
  PROVE  Balanced(ms, n + 1, acc)
<1>1. n \notin ChunksOf(ms)
  BY DEF ChunksOf
<1>2. \A i \in ChunksOf(ms) : i < n + 1 <=> i < n
  <2> SUFFICES ASSUME NEW i \in ChunksOf(ms) PROVE i < n + 1 <=> i < n
    OBVIOUS
  <2>1. i \in Nat /\ i # n
    BY <1>1, DueIn, SizesAssumption DEF Chunk
  <2> QED
    BY <2>1
<1>3. Due(ms, n + 1) = Due(ms, n)
  BY <1>2 DEF Due
<1> QED
  BY <1>3 DEF Balanced

LEMMA BalancedGrows ==
  ASSUME AccountInv, NEW ms, Chargeable(ms), NEW n \in Nat, NEW acc, Balanced(ms, n, acc),
         NEW m \in ms, m.chunk = n
  PROVE  Balanced(ms, n + 1, Charged(acc, m))
<1>1. PICK p \in Ring : p = m.place.at
  BY DEF Chargeable, Places
<1>2. n \in Chunk
  BY DEF Chargeable
<1>3. PICK mis, dem, q : mis = acc.misses /\ dem = acc.demoted /\ q = acc.queue
  OBVIOUS
<1>4. /\ mis \in [Ring -> Nat] /\ dem \subseteq Ring /\ q \in Seq(Chunk) /\ IsInjective(q)
      /\ ToSet(q) = ToSet(retryQueue) \cup Due(ms, n)
      /\ SumFunction(mis) = SumFunction(misses) + Cardinality(Due(ms, n))
      /\ \A r \in Ring : (\A o \in ms : o.place.at # r) =>
           mis[r] = misses[r] /\ (r \in dem <=> r \in demoted)
  BY <1>3 DEF Balanced
<1>5. PICK new : new = Charged(acc, m)
  OBVIOUS
<1>6. /\ new = [misses |-> new.misses, demoted |-> new.demoted, queue |-> new.queue]
      /\ new.misses = [mis EXCEPT ![p] = mis[p] + 1]
      /\ new.demoted = dem \/ new.demoted = dem \cup {p}
      /\ new.queue = Append(q, n)
  BY <1>1, <1>3, <1>5 DEF Charged, Demoting
<1>7. Due(ms, n + 1) = Due(ms, n) \cup {n} /\ n \notin Due(ms, n)
  <2>1. n \in ChunksOf(ms)
    BY DEF ChunksOf
  <2>2. \A i \in ChunksOf(ms) : i \in Nat
    BY DueIn, SizesAssumption DEF Chunk
  <2>3. \A i \in ChunksOf(ms) : i < n + 1 <=> i < n \/ i = n
    BY <2>2
  <2>4. ~ (n < n)
    OBVIOUS
  <2> QED
    BY <2>1, <2>3, <2>4 DEF Due
<1>8. /\ Cardinality(Due(ms, n)) \in Nat
      /\ Cardinality(Due(ms, n + 1)) = Cardinality(Due(ms, n)) + 1
  BY <1>7, DueIn, FS_AddElement, FS_CardinalityType
<1>9. n \notin ToSet(q)
  <2>1. n \notin ToSet(retryQueue)
    BY DEF Chargeable, Queued
  <2> QED
    BY <1>4, <1>7, <2>1
<1>10. /\ new.queue \in Seq(Chunk) /\ IsInjective(new.queue)
       /\ ToSet(new.queue) = ToSet(q) \cup {n}
  BY <1>2, <1>4, <1>6, <1>9, OneMoreQueued
<1>11. ToSet(new.queue) = ToSet(retryQueue) \cup Due(ms, n + 1)
  BY <1>4, <1>7, <1>10
<1>12. /\ new.misses \in [Ring -> Nat]
       /\ \A r \in Ring : new.misses[r] = IF r = p THEN mis[r] + 1 ELSE mis[r]
  BY <1>4, <1>6
<1>13. SumFunction(mis) \in Nat /\ SumFunction(new.misses) = SumFunction(mis) + 1
  <2>1. IsFiniteSet(Ring)
    BY SizesAssumption, FS_Interval DEF Ring
  <2>2. PICK gun : gun = new.misses
    OBVIOUS
  <2>3. gun \in [Ring -> Nat] /\ \A r \in Ring : gun[r] = IF r = p THEN mis[r] + 1 ELSE mis[r]
    BY <1>12, <2>2
  <2>4. mis \in [Ring -> Nat]
    BY <1>4
  <2>5. SumFunction(mis) \in Nat /\ SumFunction(gun) = SumFunction(mis) + 1
    BY <2>1, <2>3, <2>4, SumGrowsByOne
  <2> QED
    BY <2>2, <2>5
<1>14. SumFunction(new.misses) = SumFunction(misses) + Cardinality(Due(ms, n + 1))
  <2>1. SumFunction(misses) \in Nat
    BY SumIsNatural DEF AccountInv
  <2> QED
    BY <1>4, <1>8, <1>13, <2>1
<1>15. ASSUME NEW r \in Ring, \A o \in ms : o.place.at # r
       PROVE  new.misses[r] = misses[r] /\ (r \in new.demoted <=> r \in demoted)
  <2>1. r # p
    BY <1>1, <1>15
  <2> QED
    BY <1>4, <1>6, <1>12, <1>15, <2>1
<1>16. new.demoted \subseteq Ring
  BY <1>4, <1>6
<1> QED
  BY <1>5, <1>6, <1>8, <1>10, <1>11, <1>12, <1>14, <1>15, <1>16 DEF Balanced

(* All of them charged. *)
LEMMA AllBalanced ==
  ASSUME AccountInv, NEW ms, Chargeable(ms)
  PROVE  Balanced(ms, Total, ChargedAll(ms)) /\ Due(ms, Total) = ChunksOf(ms)
<1>1. PICK f : f = CHOOSE g : ChargesOf(ms, g)
  OBVIOUS
<1>2. ChargesOf(ms, f)
  BY <1>1, ChargesExist, Zenon
<1>3. ChargedAll(ms) = f[Total]
  BY <1>1, ChargedAllUnfolds
<1>4. Total \in Nat
  BY SizesAssumption
<1> DEFINE Wrong == {k \in Nat : k <= Total /\ ~ Balanced(ms, k, f[k])}
<1>5. \A n \in 0 .. Total : f[n] = ChargedUpTo(ms, f, n)
  BY <1>2 DEF ChargesOf
<1>6. Wrong = {}
  <2> SUFFICES ASSUME Wrong # {} PROVE FALSE
    OBVIOUS
  <2>1. Wrong \in SUBSET Nat
    OBVIOUS
  <2>2. \A n \in Nat : n \in Wrong <=> n <= Total /\ ~ Balanced(ms, n, f[n])
    OBVIOUS
  <2> HIDE DEF Wrong
  <2>3. PICK n \in Wrong : \A m \in Wrong : n <= m
    BY <2>1, LeastNatural
  <2>4. n \in 0 .. Total /\ ~ Balanced(ms, n, f[n]) /\ f[n] = ChargedUpTo(ms, f, n)
    BY <1>5, <2>1, <2>2, <2>3
  <2>5. n # 0
    BY <2>4, BalancedAtFirst DEF ChargedUpTo
  <2>6. PICK k \in Nat : k = n - 1 /\ k + 1 = n
    BY <1>4, <2>4, <2>5
  <2>7. k <= Total /\ ~ (n <= k)
    BY <1>4, <2>4, <2>6
  <2>8. Balanced(ms, k, f[k])
    BY <2>2, <2>3, <2>7
  <2>9. CASE \E m \in ms : m.chunk = k
    <3>1. PICK m \in ms : m = (CHOOSE x \in ms : x.chunk = k) /\ m.chunk = k
      BY <2>9
    <3>2. f[n] = Charged(f[k], m)
      BY <2>4, <2>5, <2>6, <2>9, <3>1 DEF ChargedUpTo
    <3>3. Balanced(ms, k + 1, Charged(f[k], m))
      BY <2>8, <3>1, BalancedGrows
    <3> QED
      BY <2>4, <2>6, <3>2, <3>3
  <2>10. CASE ~ \E m \in ms : m.chunk = k
    <3>1. f[n] = f[k]
      BY <2>4, <2>5, <2>6, <2>10 DEF ChargedUpTo
    <3>2. Balanced(ms, k + 1, f[k])
      BY <2>8, <2>10, BalancedStays
    <3> QED
      BY <2>4, <2>6, <3>1, <3>2
  <2> QED
    BY <2>9, <2>10
<1>7. Balanced(ms, Total, f[Total])
  <2>1. ~ Balanced(ms, Total, f[Total]) => Total \in Wrong
    BY <1>4
  <2> HIDE DEF Wrong
  <2> QED
    BY <1>6, <2>1
<1>8. \A i \in ChunksOf(ms) : i < Total
  BY <1>4, DueIn DEF Chunk
<1> QED
  BY <1>3, <1>7, <1>8 DEF Due

-----------------------------------------------------------------------------
(* Work: what the workers have in hand. *)

(* A chunk is in one place at a time: not reached yet, in the hands of one
   worker, waiting for a re-send, or placed. *)
WorkInv ==
  /\ nextChunk \in 0 .. Total /\ pending \subseteq Chunk
  /\ job \in [Workers -> Job \cup {None}]
  /\ \A w \in Workers : job[w] # None =>
       /\ \A v \in Workers : job[v] # None /\ job[v].chunk = job[w].chunk => v = w
       /\ job[w].retry => ~ Queued(job[w].chunk)
       /\ ~ job[w].retry => job[w].chunk < nextChunk /\ placed[job[w].chunk] = None
  /\ \A i \in Chunk : i \in pending <=> Queued(i) \/ \E w \in Workers : Retrying(w, i)
  /\ \A i \in pending : placed[i] # None
  /\ \A i \in Chunk : placed[i] # None => i < nextChunk
  /\ \A i \in Chunk : placed[i] = None => generation[i] = 0

LEMMA JobMade ==
  ASSUME NEW i \in Chunk, NEW b \in BOOLEAN, NEW t \in SUBSET Ring, NEW a \in Ring \cup {None}
  PROVE  \E j \in Job : /\ j = [chunk |-> i, retry |-> b, tried |-> t, at |-> a]
                        /\ j # None /\ j.chunk = i /\ j.retry = b /\ j.tried = t /\ j.at = a
<1>1. PICK j : j = [chunk |-> i, retry |-> b, tried |-> t, at |-> a]
  OBVIOUS
<1>2. j \in Job
  BY <1>1 DEF Job
<1>3. j # None
  BY <1>2, NoneAssumption
<1> QED
  BY <1>1, <1>2, <1>3

LEMMA JobNow ==
  ASSUME WorkInv, NEW w \in Workers, NEW j \in Job \cup {None}, job' = [job EXCEPT ![w] = j]
  PROVE  /\ job' \in [Workers -> Job \cup {None}]
         /\ \A v \in Workers : job'[v] = IF v = w THEN j ELSE job[v]
  BY DEF WorkInv

(* A job moved on to another relay is the same piece of work. *)
LEMMA SameWork ==
  ASSUME WorkInv, UNCHANGED <<nextChunk, pending, retryQueue, placed, generation>>,
         job' \in [Workers -> Job \cup {None}],
         \A v \in Workers : /\ job'[v] = None <=> job[v] = None
                            /\ job[v] # None => job'[v].chunk = job[v].chunk
                                                /\ job'[v].retry = job[v].retry
  PROVE  WorkInv'
<1>1. \A v \in Workers, i \in Chunk : Retrying(v, i)' <=> Retrying(v, i)
  BY DEF Retrying
<1>2. \A i : Queued(i)' <=> Queued(i)
  BY DEF Queued
<1>3. \A i \in Chunk : i \in pending' <=> Queued(i)' \/ \E w \in Workers : Retrying(w, i)'
  BY <1>1, <1>2 DEF WorkInv
<1>4. ASSUME NEW w \in Workers, job'[w] # None
      PROVE  /\ \A v \in Workers : job'[v] # None /\ job'[v].chunk = job'[w].chunk => v = w
             /\ job'[w].retry => job'[w].chunk \notin ToSet(retryQueue')
             /\ ~ job'[w].retry => job'[w].chunk < nextChunk' /\ placed'[job'[w].chunk] = None
  <2>1. PICK i, b : i = job[w].chunk /\ b = job[w].retry /\ i = job'[w].chunk /\ b = job'[w].retry
    BY <1>4
  <2>2. /\ \A v \in Workers : job[v] # None /\ job[v].chunk = i => v = w
        /\ b => ~ Queued(i)
        /\ ~ b => i < nextChunk /\ placed[i] = None
    BY <1>4, <2>1 DEF WorkInv
  <2>3. \A v \in Workers : job'[v] # None /\ job'[v].chunk = i => v = w
    BY <2>2
  <2>4. b => i \notin ToSet(retryQueue')
    BY <2>2 DEF Queued
  <2>5. ~ b => i < nextChunk' /\ placed'[i] = None
    BY <2>2
  <2> QED
    BY <2>1, <2>3, <2>4, <2>5
<1>5. /\ nextChunk' \in 0 .. Total /\ pending' \subseteq Chunk
      /\ \A i \in pending' : placed'[i] # None
      /\ \A i \in Chunk : placed'[i] # None => i < nextChunk'
      /\ \A i \in Chunk : placed'[i] = None => generation'[i] = 0
  BY DEF WorkInv
<1> QED
  BY <1>3, <1>4, <1>5 DEF WorkInv, Queued

(* What a worker's job is. *)
LEMMA JobHas ==
  ASSUME WorkInv, NEW w \in Workers, job[w] # None
  PROVE  /\ job[w] \in Job
         /\ job[w].chunk \in Chunk /\ job[w].retry \in BOOLEAN
         /\ job[w].tried \in SUBSET Ring /\ job[w].at \in Ring \cup {None}
         /\ job[w] = [chunk |-> job[w].chunk, retry |-> job[w].retry,
                      tried |-> job[w].tried, at |-> job[w].at]
<1>1. PICK j \in Job : j = job[w]
  BY DEF WorkInv
<1> QED
  BY <1>1 DEF Job

(* What a walk's step does to the job, whole. *)
LEMMA Tried ==
  ASSUME WorkInv, NEW w \in Workers, NEW p \in Ring, TryRelay(w, p)
  PROVE  /\ job[w] # None /\ job[w].at = None /\ job'[w] # None
         /\ job'[w].chunk = job[w].chunk /\ job'[w].retry = job[w].retry
         /\ job'[w].tried = job[w].tried \cup {p} /\ job'[w].at = p
         /\ \A v \in Workers : v # w => job'[v] = job[v]
         /\ job' \in [Workers -> Job \cup {None}]
<1>1. job[w] # None /\ job[w].at = None
  BY DEF TryRelay
<1>2. PICK j \in Job :
        /\ j = [chunk |-> job[w].chunk, retry |-> job[w].retry,
                tried |-> job[w].tried \cup {p}, at |-> p]
        /\ j # None /\ j.chunk = job[w].chunk /\ j.retry = job[w].retry
        /\ j.tried = job[w].tried \cup {p} /\ j.at = p
  <2>1. PICK i \in Chunk, b \in BOOLEAN, t \in SUBSET Ring :
          i = job[w].chunk /\ b = job[w].retry /\ t = job[w].tried \cup {p}
    BY <1>1, JobHas
  <2>2. \E j \in Job : /\ j = [chunk |-> i, retry |-> b, tried |-> t, at |-> p]
                       /\ j # None /\ j.chunk = i /\ j.retry = b /\ j.tried = t /\ j.at = p
    BY JobMade
  <2> QED
    BY <2>1, <2>2, Zenon
<1>3. job' = [job EXCEPT ![w] = j]
  BY <1>2 DEF TryRelay
<1> QED
  BY <1>1, <1>2, <1>3, JobNow

LEMMA Refused ==
  ASSUME WorkInv, NEW w \in Workers, ChunkRefused(w)
  PROVE  /\ job[w] # None /\ job[w].at \in Ring \ Reliable /\ job'[w] # None
         /\ job'[w].chunk = job[w].chunk /\ job'[w].retry = job[w].retry
         /\ job'[w].tried = job[w].tried /\ job'[w].at = None
         /\ \A v \in Workers : v # w => job'[v] = job[v]
         /\ job' \in [Workers -> Job \cup {None}]
<1>1. job[w] # None /\ job[w].at \in Ring \ Reliable
  BY JobHas DEF ChunkRefused
<1>2. PICK i \in Chunk, b \in BOOLEAN, t \in SUBSET Ring, a \in Ring :
        /\ i = job[w].chunk /\ b = job[w].retry /\ t = job[w].tried
        /\ job[w] = [chunk |-> i, retry |-> b, tried |-> t, at |-> a]
  BY <1>1, JobHas
<1>3. PICK j \in Job :
        /\ j = [chunk |-> i, retry |-> b, tried |-> t, at |-> None]
        /\ j # None /\ j.chunk = i /\ j.retry = b /\ j.tried = t /\ j.at = None
  BY JobMade
<1>4. [job[w] EXCEPT !.at = None] = j
  BY <1>2, <1>3
<1>5. job' = [job EXCEPT ![w] = [job[w] EXCEPT !.at = None]]
  BY DEF ChunkRefused, WorkInv
<1>6. job' = [job EXCEPT ![w] = j]
  BY <1>4, <1>5
<1> QED
  BY <1>1, <1>2, <1>3, <1>6, JobNow

LEMMA TryKeepsWork ==
  ASSUME AccountInv, WorkInv, NEW w \in Workers, NEW p \in Ring, TryRelay(w, p)
  PROVE  AccountInv' /\ WorkInv'
<1>1. UNCHANGED <<nextChunk, pending, retryQueue, placed, generation, misses, giveUps, demoted>>
  BY DEF TryRelay
<1>2. \A v \in Workers : /\ job'[v] = None <=> job[v] = None
                         /\ job[v] # None => job'[v].chunk = job[v].chunk
                                             /\ job'[v].retry = job[v].retry
  BY Tried
<1>3. job' \in [Workers -> Job \cup {None}]
  BY Tried
<1>4. WorkInv'
  BY <1>1, <1>2, <1>3, SameWork
<1> QED
  BY <1>1, <1>4 DEF AccountInv

LEMMA RefusalKeepsWork ==
  ASSUME AccountInv, WorkInv, NEW w \in Workers, ChunkRefused(w)
  PROVE  AccountInv' /\ WorkInv'
<1>1. UNCHANGED <<nextChunk, pending, retryQueue, placed, generation, misses>>
  BY DEF ChunkRefused
<1>2. \A v \in Workers : /\ job'[v] = None <=> job[v] = None
                         /\ job[v] # None => job'[v].chunk = job[v].chunk
                                             /\ job'[v].retry = job[v].retry
  BY Refused
<1>3. job' \in [Workers -> Job \cup {None}]
  BY Refused
<1>4. WorkInv'
  BY <1>1, <1>2, <1>3, SameWork
<1>5. PICK p \in Ring : p = job[w].at
  BY Refused
<1>6. giveUps' = [giveUps EXCEPT ![p] = @ + 1] /\ (demoted' = demoted \/ demoted' = demoted \cup {p})
  BY <1>5 DEF ChunkRefused, Demoting
<1>7. giveUps' \in [Ring -> Nat] /\ demoted' \subseteq Ring
  BY <1>6 DEF AccountInv
<1> QED
  BY <1>1, <1>4, <1>7 DEF AccountInv

(* What taking up work does to the job. *)
LEMMA Taken ==
  ASSUME WorkInv, NEW w \in Workers, NEW i \in Chunk, NEW b \in BOOLEAN, job[w] = None,
         job' = [job EXCEPT ![w] = NewJob(i, b)]
  PROVE  /\ job'[w] # None /\ job'[w].chunk = i /\ job'[w].retry = b
         /\ job'[w].tried = {} /\ job'[w].at = None
         /\ \A v \in Workers : v # w => job'[v] = job[v]
         /\ job' \in [Workers -> Job \cup {None}]
<1>1. PICK t \in SUBSET Ring : t = {}
  OBVIOUS
<1>2. PICK j \in Job : /\ j = [chunk |-> i, retry |-> b, tried |-> t, at |-> None]
                       /\ j # None /\ j.chunk = i /\ j.retry = b /\ j.tried = t /\ j.at = None
  <2>1. PICK a \in Ring \cup {None} : a = None
    OBVIOUS
  <2>2. PICK c \in BOOLEAN : c = b
    OBVIOUS
  <2>3. \E j \in Job : /\ j = [chunk |-> i, retry |-> c, tried |-> t, at |-> a]
                       /\ j # None /\ j.chunk = i /\ j.retry = c /\ j.tried = t /\ j.at = a
    BY JobMade
  <2> QED
    BY <2>1, <2>2, <2>3, Zenon
<1>3. job' = [job EXCEPT ![w] = j]
  BY <1>1, <1>2 DEF NewJob
<1>4. /\ job' \in [Workers -> Job \cup {None}]
      /\ \A v \in Workers : job'[v] = IF v = w THEN j ELSE job[v]
  BY <1>3, JobNow
<1> QED
  BY <1>1, <1>2, <1>4

(* A new job is of a chunk no other worker has. *)
LEMMA TakenKeepsWork ==
  ASSUME WorkInv, NEW w \in Workers, NEW i \in Chunk, NEW b \in BOOLEAN,
         UNCHANGED <<pending, placed, generation>>,
         nextChunk' \in 0 .. Total, nextChunk <= nextChunk',
         job[w] = None, job' = [job EXCEPT ![w] = NewJob(i, b)],
         ToSet(retryQueue') = ToSet(retryQueue) \ {i},
         b <=> Queued(i),
         ~ b => placed[i] = None /\ nextChunk <= i /\ i < nextChunk'
  PROVE  WorkInv'
<1>1. /\ job'[w] # None /\ job'[w].chunk = i /\ job'[w].retry = b
      /\ \A v \in Workers : v # w => job'[v] = job[v]
      /\ job' \in [Workers -> Job \cup {None}]
  BY Taken
<1>2. \A v \in Workers : job[v] # None => job[v].chunk # i
  <2> SUFFICES ASSUME NEW v \in Workers, job[v] # None, job[v].chunk = i PROVE FALSE
    OBVIOUS
  <2>1. CASE job[v].retry
    <3>1. ~ Queued(i)
      BY <2>1 DEF WorkInv
    <3>2. Retrying(v, i)
      BY <2>1 DEF Retrying
    <3>3. placed[i] # None
      BY <3>2 DEF WorkInv
    <3> QED
      BY <3>1, <3>3
  <2>2. CASE ~ job[v].retry
    <3>1. i < nextChunk /\ placed[i] = None
      BY <2>2 DEF WorkInv
    <3>2. ~ Queued(i)
      BY <3>1 DEF WorkInv
    <3>3. i \in Int /\ nextChunk \in Int
      BY SizesAssumption DEF WorkInv, Chunk
    <3> QED
      BY <3>1, <3>2, <3>3
  <2> QED
    BY <2>1, <2>2
<1>3. ASSUME NEW v \in Workers, job'[v] # None
      PROVE  /\ \A u \in Workers : job'[u] # None /\ job'[u].chunk = job'[v].chunk => u = v
             /\ job'[v].retry => job'[v].chunk \notin ToSet(retryQueue')
             /\ ~ job'[v].retry => job'[v].chunk < nextChunk' /\ placed'[job'[v].chunk] = None
  <2>1. CASE v = w
    <3>1. \A u \in Workers : job'[u] # None /\ job'[u].chunk = i => u = v
      BY <1>1, <1>2, <2>1
    <3> QED
      BY <1>1, <2>1, <3>1
  <2>2. CASE v # w
    <3>1. job'[v] = job[v] /\ job[v] # None
      BY <1>1, <1>3, <2>2
    <3>2. PICK c \in Chunk : c = job[v].chunk /\ c # i
      BY <1>2, <3>1, JobHas
    <3>3. /\ \A u \in Workers : job[u] # None /\ job[u].chunk = c => u = v
          /\ job[v].retry => ~ Queued(c)
          /\ ~ job[v].retry => c < nextChunk /\ placed[c] = None
      BY <3>1, <3>2 DEF WorkInv
    <3>4. \A u \in Workers : job'[u] # None /\ job'[u].chunk = c => u = v
      BY <1>1, <3>2, <3>3
    <3>5. job[v].retry => c \notin ToSet(retryQueue')
      BY <3>3 DEF Queued
    <3>6. c < nextChunk => c < nextChunk'
      BY SizesAssumption DEF WorkInv, Chunk
    <3> QED
      BY <3>1, <3>2, <3>3, <3>4, <3>5, <3>6
  <2> QED
    BY <2>1, <2>2
<1>4. ASSUME NEW c \in Chunk
      PROVE  c \in pending' <=> c \in ToSet(retryQueue') \/ \E v \in Workers : Retrying(v, c)'
  <2>1. c \in pending <=> Queued(c) \/ \E v \in Workers : Retrying(v, c)
    BY DEF WorkInv
  <2>2. CASE c = i
    <3>1. ~ \E v \in Workers : Retrying(v, c)
      BY <1>2, <2>2 DEF Retrying
    <3>2. (\E v \in Workers : Retrying(v, c)') <=> b
      BY <1>1, <1>2, <2>2 DEF Retrying
    <3> QED
      BY <2>1, <2>2, <3>1, <3>2
  <2>3. CASE c # i
    <3>1. \A v \in Workers : Retrying(v, c)' <=> Retrying(v, c)
      BY <1>1, <2>3 DEF Retrying
    <3>2. c \in ToSet(retryQueue') <=> Queued(c)
      BY <2>3 DEF Queued
    <3> QED
      BY <2>1, <3>1, <3>2
  <2> QED
    BY <2>2, <2>3
<1>5. /\ pending' \subseteq Chunk
      /\ \A c \in pending' : placed'[c] # None
      /\ \A c \in Chunk : placed'[c] = None => generation'[c] = 0
  BY DEF WorkInv
<1>6. ASSUME NEW c \in Chunk, placed'[c] # None PROVE c < nextChunk'
  <2>1. c < nextChunk
    BY <1>6 DEF WorkInv
  <2> QED
    BY <2>1, SizesAssumption DEF WorkInv, Chunk
<1> QED
  BY <1>1, <1>3, <1>4, <1>5, <1>6 DEF WorkInv, Queued

LEMMA TakeKeepsWork ==
  ASSUME AccountInv, WorkInv, NEW w \in Workers, TakeWork(w)
  PROVE  AccountInv' /\ WorkInv'
<1>1. job[w] = None /\ UNCHANGED <<pending, placed, generation, misses, giveUps, demoted>>
  BY DEF TakeWork
<1>2. CASE retryQueue # <<>>
  <2>1. /\ retryQueue' = Tail(retryQueue) /\ nextChunk' = nextChunk
        /\ job' = [job EXCEPT ![w] = NewJob(Head(retryQueue), TRUE)]
    BY <1>2 DEF TakeWork
  <2>2. /\ retryQueue' \in Seq(Chunk) /\ IsInjective(retryQueue') /\ Head(retryQueue) \in Chunk
        /\ ToSet(retryQueue) = ToSet(retryQueue') \cup {Head(retryQueue)}
        /\ Head(retryQueue) \notin ToSet(retryQueue')
    BY <1>2, <2>1, OneFewerQueued DEF AccountInv
  <2>3. PICK i \in Chunk : i = Head(retryQueue)
    BY <2>2
  <2>4. ToSet(retryQueue') = ToSet(retryQueue) \ {i} /\ Queued(i)
    BY <2>2, <2>3 DEF Queued
  <2>5. nextChunk' \in 0 .. Total /\ nextChunk <= nextChunk'
    BY <2>1 DEF WorkInv
  <2>6. WorkInv'
    BY <1>1, <2>1, <2>3, <2>4, <2>5, TakenKeepsWork
  <2> QED
    BY <1>1, <2>2, <2>6 DEF AccountInv
<1>3. CASE retryQueue = <<>>
  <2>1. /\ retryQueue' = retryQueue /\ nextChunk < Total /\ nextChunk' = nextChunk + 1
        /\ job' = [job EXCEPT ![w] = NewJob(nextChunk, FALSE)]
    BY <1>3 DEF TakeWork
  <2>2. PICK i \in Chunk : i = nextChunk
    BY <2>1, SizesAssumption DEF WorkInv, Chunk
  <2>3. nextChunk' \in 0 .. Total /\ nextChunk <= nextChunk' /\ nextChunk <= i /\ i < nextChunk'
    BY <2>1, <2>2, SizesAssumption DEF WorkInv
  <2>4. ToSet(retryQueue) = {}
    BY <1>3 DEF ToSet
  <2>5. ToSet(retryQueue') = ToSet(retryQueue) \ {i} /\ ~ Queued(i)
    BY <2>1, <2>4 DEF Queued
  <2>6. placed[i] = None
    <3>1. ~ (i < nextChunk)
      BY <2>2, SizesAssumption DEF Chunk
    <3> QED
      BY <3>1 DEF WorkInv
  <2>7. WorkInv'
    BY <1>1, <2>1, <2>2, <2>3, <2>5, <2>6, TakenKeepsWork
  <2> QED
    BY <1>1, <2>1, <2>7 DEF AccountInv
<1> QED
  BY <1>2, <1>3

(* What a placement does to the job. *)
LEMMA Accepted ==
  ASSUME PlacedInv, WorkInv, NEW w \in Workers, ChunkAccepted(w)
  PROVE  \E i \in Chunk, p \in Ring :
           /\ job[w] # None /\ i = job[w].chunk /\ p = job[w].at
           /\ placed' = [placed EXCEPT ![i] = p]
           /\ generation' = [generation EXCEPT ![i] = IF job[w].retry THEN @ + 1 ELSE @]
           /\ pending' = IF job[w].retry THEN pending \ {i} ELSE pending
           /\ job'[w] = None
           /\ \A v \in Workers : v # w => job'[v] = job[v]
           /\ job' \in [Workers -> Job \cup {None}]
<1>1. PICK i \in Chunk, p \in Ring : job[w] # None /\ i = job[w].chunk /\ p = job[w].at
  BY JobHas DEF ChunkAccepted
<1>2. /\ placed' = [placed EXCEPT ![i] = p]
      /\ generation' = [generation EXCEPT ![i] = IF job[w].retry THEN @ + 1 ELSE @]
      /\ pending' = IF job[w].retry THEN pending \ {i} ELSE pending
      /\ job' = [job EXCEPT ![w] = None]
  BY <1>1 DEF ChunkAccepted
<1>3. /\ job'[w] = None
      /\ \A v \in Workers : v # w => job'[v] = job[v]
      /\ job' \in [Workers -> Job \cup {None}]
  BY <1>2 DEF WorkInv
<1> QED
  BY <1>1, <1>2, <1>3

LEMMA PlacementKeepsWork ==
  ASSUME PlacedInv, AccountInv, WorkInv, NEW w \in Workers, ChunkAccepted(w)
  PROVE  AccountInv' /\ WorkInv'
<1>1. UNCHANGED <<nextChunk, retryQueue, misses, giveUps, demoted>>
  BY DEF ChunkAccepted
<1>2. PICK i \in Chunk, p \in Ring :
        /\ job[w] # None /\ i = job[w].chunk /\ p = job[w].at
        /\ placed' = [placed EXCEPT ![i] = p]
        /\ generation' = [generation EXCEPT ![i] = IF job[w].retry THEN @ + 1 ELSE @]
        /\ pending' = IF job[w].retry THEN pending \ {i} ELSE pending
        /\ job'[w] = None
        /\ \A v \in Workers : v # w => job'[v] = job[v]
        /\ job' \in [Workers -> Job \cup {None}]
  BY Accepted
<1>3. p # None
  BY NoneAssumption
<1>4. /\ \A v \in Workers : job[v] # None /\ job[v].chunk = i => v = w
      /\ job[w].retry => ~ Queued(i)
      /\ ~ job[w].retry => i < nextChunk /\ placed[i] = None
      /\ job[w].retry \in BOOLEAN
  BY <1>2, JobHas DEF WorkInv
<1>5. placed'[i] = p /\ \A c \in Chunk : c # i => placed'[c] = placed[c] /\ generation'[c] = generation[c]
  BY <1>2 DEF PlacedInv
<1>6. ASSUME NEW v \in Workers, job'[v] # None
      PROVE  /\ \A u \in Workers : job'[u] # None /\ job'[u].chunk = job'[v].chunk => u = v
             /\ job'[v].retry => job'[v].chunk \notin ToSet(retryQueue')
             /\ ~ job'[v].retry => job'[v].chunk < nextChunk' /\ placed'[job'[v].chunk] = None
  <2>1. v # w /\ job'[v] = job[v] /\ job[v] # None
    BY <1>2, <1>6
  <2>2. PICK c \in Chunk : c = job[v].chunk /\ c # i
    BY <1>4, <2>1, JobHas
  <2>3. /\ \A u \in Workers : job[u] # None /\ job[u].chunk = c => u = v
        /\ job[v].retry => c \notin ToSet(retryQueue)
        /\ ~ job[v].retry => c < nextChunk /\ placed[c] = None
    BY <2>1, <2>2 DEF WorkInv, Queued
  <2>4. \A u \in Workers : job'[u] # None /\ job'[u].chunk = c => u = v
    BY <1>2, <2>3
  <2> QED
    BY <1>1, <1>5, <2>1, <2>2, <2>3, <2>4
<1>7. ASSUME NEW c \in Chunk
      PROVE  c \in pending' <=> c \in ToSet(retryQueue') \/ \E v \in Workers : Retrying(v, c)'
  <2>1. c \in pending <=> c \in ToSet(retryQueue) \/ \E v \in Workers : Retrying(v, c)
    BY DEF WorkInv, Queued
  <2>2. CASE c = i
    <3>1. ~ \E v \in Workers : Retrying(v, c)'
      BY <1>2, <1>4, <2>2 DEF Retrying
    <3>2. c \notin pending'
      <4>1. CASE job[w].retry
        BY <1>2, <2>2, <4>1
      <4>2. CASE ~ job[w].retry
        <5>1. c \notin pending
          BY <1>4, <2>2, <4>2 DEF WorkInv
        <5> QED
          BY <1>2, <4>2, <5>1
      <4> QED
        BY <4>1, <4>2
    <3>3. c \notin ToSet(retryQueue)
      <4>1. ~ job[w].retry => c \notin pending
        BY <1>4, <2>2 DEF WorkInv
      <4> QED
        BY <1>4, <2>1, <2>2, <4>1 DEF Queued
    <3> QED
      BY <1>1, <3>1, <3>2, <3>3
  <2>3. CASE c # i
    <3>1. \A v \in Workers : Retrying(v, c)' <=> Retrying(v, c)
      BY <1>2, <2>3 DEF Retrying
    <3>2. c \in pending' <=> c \in pending
      BY <1>2, <2>3
    <3> QED
      BY <1>1, <2>1, <3>1, <3>2
  <2> QED
    BY <2>2, <2>3
<1>8. pending' \subseteq Chunk /\ \A c \in pending' : placed'[c] # None
  <2>1. pending' \subseteq pending
    BY <1>2
  <2>2. \A c \in pending : c \in Chunk /\ placed[c] # None
    BY DEF WorkInv
  <2> QED
    BY <1>3, <1>5, <2>1, <2>2
<1>9. i < nextChunk
  <2>1. CASE job[w].retry
    <3>1. Retrying(w, i)
      BY <1>2, <2>1 DEF Retrying
    <3>2. placed[i] # None
      BY <3>1 DEF WorkInv
    <3> QED
      BY <3>2 DEF WorkInv
  <2> QED
    BY <1>4, <2>1
<1>10. \A c \in Chunk : placed'[c] # None => c < nextChunk'
  BY <1>1, <1>5, <1>9 DEF WorkInv
<1>11. \A c \in Chunk : placed'[c] = None => generation'[c] = 0
  BY <1>3, <1>5 DEF WorkInv
<1>12. nextChunk' \in 0 .. Total
  BY <1>1 DEF WorkInv
<1>13. WorkInv'
  BY <1>2, <1>6, <1>7, <1>8, <1>10, <1>11, <1>12 DEF WorkInv, Queued
<1> QED
  BY <1>1, <1>13 DEF AccountInv

(* What an acknowledgement may be charged for. *)
LEMMA UsableIsChargeable ==
  ASSUME TalkInv, PlacedInv, WorkInv, NEW k \in DOMAIN toSender, toSender[k].type = "ack"
  PROVE  /\ Chargeable(Usable(toSender[k].missing))
         /\ \A m \in Usable(toSender[k].missing) :
              /\ m \in toSender[k].missing /\ m.chunk \in Chunk /\ m.chunk \notin pending
              /\ placed[m.chunk] \in Ring /\ placed[m.chunk] = m.place.at
<1>1. PICK say \in ReceiverSays : say = toSender[k]
  BY LenProperties DEF TalkInv
<1>2. PICK missing \in SUBSET [chunk : Chunk, place : Places] : missing = toSender[k].missing
  BY <1>1 DEF ReceiverSays
<1>3. PICK ms : ms = Usable(missing)
  OBVIOUS
<1>4. ASSUME NEW m \in ms
      PROVE  /\ m \in missing /\ m.chunk \in Chunk /\ m.chunk \notin pending
             /\ m = [chunk |-> m.chunk, place |-> m.place]
             /\ m.place = [at |-> placed[m.chunk], gen |-> generation[m.chunk]]
             /\ placed[m.chunk] \in Ring /\ placed[m.chunk] = m.place.at
  BY <1>2, <1>3 DEF Usable, Places
<1>5. ms \subseteq [chunk : Chunk, place : Places]
  BY <1>4
<1>6. \A m, n \in ms : m.chunk = n.chunk => m = n
  BY <1>4
<1>7. \A m \in ms : ~ Queued(m.chunk)
  BY <1>4 DEF WorkInv
<1> QED
  BY <1>2, <1>3, <1>4, <1>5, <1>6, <1>7 DEF Chargeable

(* What taking it does. *)
LEMMA AckCharges ==
  ASSUME TalkInv, PlacedInv, AccountInv, WorkInv, NEW k \in DOMAIN toSender, TakeAck(k),
         NEW ms, ms = Usable(toSender[k].missing)
  PROVE  /\ AccountInv'
         /\ ToSet(retryQueue') = ToSet(retryQueue) \cup ChunksOf(ms)
         /\ SumFunction(misses') = SumFunction(misses) + Cardinality(ChunksOf(ms))
         /\ pending' = pending \cup ChunksOf(ms)
         /\ \A p \in Ring : (\A m \in ms : m.place.at # p) =>
              misses'[p] = misses[p] /\ (p \in demoted' <=> p \in demoted)
         /\ UNCHANGED <<nextChunk, placed, generation, job, nextOffset, giveUps, outcome, ringReady>>
<1>1. Chargeable(ms)
  BY UsableIsChargeable DEF TakeAck
<1>2. PICK acc : acc = ChargedAll(ms)
  OBVIOUS
<1>3. /\ misses' = acc.misses /\ demoted' = acc.demoted /\ retryQueue' = acc.queue
      /\ pending' = pending \cup {m.chunk : m \in ms}
      /\ UNCHANGED <<nextChunk, placed, generation, job, nextOffset, giveUps, outcome, ringReady>>
  BY <1>2 DEF TakeAck
<1>4. Balanced(ms, Total, acc) /\ Due(ms, Total) = ChunksOf(ms)
  BY <1>1, <1>2, AllBalanced
<1>5. AccountInv'
  BY <1>3, <1>4 DEF Balanced, AccountInv
<1> QED
  BY <1>3, <1>4, <1>5 DEF Balanced, ChunksOf

LEMMA AckKeepsWork ==
  ASSUME TalkInv, PlacedInv, AccountInv, WorkInv, NEW k \in DOMAIN toSender, TakeAck(k)
  PROVE  AccountInv' /\ WorkInv'
<1>1. PICK ms : ms = Usable(toSender[k].missing)
  OBVIOUS
<1>2. /\ AccountInv'
      /\ ToSet(retryQueue') = ToSet(retryQueue) \cup ChunksOf(ms)
      /\ pending' = pending \cup ChunksOf(ms)
      /\ UNCHANGED <<nextChunk, placed, generation, job>>
  BY <1>1, AckCharges
<1>3. \A i \in ChunksOf(ms) : i \in Chunk /\ i \notin pending /\ placed[i] # None
  BY <1>1, UsableIsChargeable, NoneAssumption DEF ChunksOf, TakeAck
<1>4. ASSUME NEW w \in Workers, job'[w] # None
      PROVE  /\ \A v \in Workers : job'[v] # None /\ job'[v].chunk = job'[w].chunk => v = w
             /\ job'[w].retry => job'[w].chunk \notin ToSet(retryQueue')
             /\ ~ job'[w].retry => job'[w].chunk < nextChunk' /\ placed'[job'[w].chunk] = None
  <2>1. PICK i \in Chunk : i = job[w].chunk
    BY <1>2, <1>4, JobHas
  <2>2. /\ \A v \in Workers : job[v] # None /\ job[v].chunk = i => v = w
        /\ job[w].retry => i \notin ToSet(retryQueue)
        /\ ~ job[w].retry => i < nextChunk /\ placed[i] = None
    BY <1>2, <1>4, <2>1 DEF WorkInv, Queued
  <2>3. ASSUME job[w].retry PROVE i \notin ChunksOf(ms)
    <3>1. Retrying(w, i)
      BY <1>2, <1>4, <2>1, <2>3 DEF Retrying
    <3>2. i \in pending
      BY <3>1 DEF WorkInv
    <3> QED
      BY <1>3, <3>2
  <2> QED
    BY <1>2, <2>1, <2>2, <2>3
<1>5. ASSUME NEW c \in Chunk
      PROVE  c \in pending' <=> c \in ToSet(retryQueue') \/ \E v \in Workers : Retrying(v, c)'
  <2>1. c \in pending <=> c \in ToSet(retryQueue) \/ \E v \in Workers : Retrying(v, c)
    BY DEF WorkInv, Queued
  <2>2. \A v \in Workers : Retrying(v, c)' <=> Retrying(v, c)
    BY <1>2 DEF Retrying
  <2> QED
    BY <1>2, <2>1, <2>2
<1>6. pending' \subseteq Chunk /\ \A c \in pending' : placed'[c] # None
  BY <1>2, <1>3 DEF WorkInv
<1>7. /\ nextChunk' \in 0 .. Total /\ job' \in [Workers -> Job \cup {None}]
      /\ \A c \in Chunk : placed'[c] # None => c < nextChunk'
      /\ \A c \in Chunk : placed'[c] = None => generation'[c] = 0
  BY <1>2 DEF WorkInv
<1>8. WorkInv'
  BY <1>4, <1>5, <1>6, <1>7 DEF WorkInv, Queued
<1> QED
  BY <1>2, <1>8

-----------------------------------------------------------------------------
(* The misses and the re-sends balance. *)

LEMMA PendingIsFinite ==
  ASSUME WorkInv
  PROVE  IsFiniteSet(pending) /\ Cardinality(pending) \in Nat
<1>1. IsFiniteSet(Chunk)
  BY SizesAssumption, FS_Interval DEF Chunk
<1>2. IsFiniteSet(pending)
  BY <1>1, FS_Subset DEF WorkInv
<1> QED
  BY <1>2, FS_CardinalityType

LEMMA GenerationsAdd ==
  ASSUME NEW fun \in [Chunk -> Nat]
  PROVE  /\ SumFunction(fun) \in Nat
         /\ \A i \in Chunk : SumFunction([fun EXCEPT ![i] = @ + 1]) = SumFunction(fun) + 1
<1>1. IsFiniteSet(Chunk) /\ 0 \in Chunk
  BY SizesAssumption, FS_Interval DEF Chunk
<1>2. ASSUME NEW i \in Chunk
      PROVE  SumFunction(fun) \in Nat /\ SumFunction([fun EXCEPT ![i] = @ + 1]) = SumFunction(fun) + 1
  <2>1. PICK gun : gun = [fun EXCEPT ![i] = @ + 1]
    OBVIOUS
  <2>2. gun \in [Chunk -> Nat] /\ \A x \in Chunk : gun[x] = IF x = i THEN fun[x] + 1 ELSE fun[x]
    BY <2>1
  <2>3. SumFunction(fun) \in Nat /\ SumFunction(gun) = SumFunction(fun) + 1
    BY <1>1, <2>2, SumGrowsByOne
  <2> QED
    BY <2>1, <2>3
<1> QED
  BY <1>1, <1>2

LEMMA AckBalances ==
  ASSUME TalkInv, PlacedInv, AccountInv, WorkInv, MissesAreResends,
         NEW k \in DOMAIN toSender, TakeAck(k)
  PROVE  MissesAreResends'
<1>1. PICK ms : ms = Usable(toSender[k].missing)
  OBVIOUS
<1>2. /\ SumFunction(misses') = SumFunction(misses) + Cardinality(ChunksOf(ms))
      /\ pending' = pending \cup ChunksOf(ms)
      /\ generation' = generation
  BY <1>1, AckCharges
<1>3. IsFiniteSet(ChunksOf(ms))
  BY <1>1, UsableIsChargeable, DueIn DEF TakeAck
<1>4. pending \cap ChunksOf(ms) = {}
  BY <1>1, UsableIsChargeable DEF ChunksOf, TakeAck
<1>5. Cardinality(pending') = Cardinality(pending) + Cardinality(ChunksOf(ms))
  <2>1. Cardinality(pending \cup ChunksOf(ms))
          = Cardinality(pending) + Cardinality(ChunksOf(ms)) - Cardinality(pending \cap ChunksOf(ms))
    BY <1>3, PendingIsFinite, FS_Union
  <2>2. Cardinality(pending \cap ChunksOf(ms)) = 0
    BY <1>4, FS_EmptySet
  <2>3. Cardinality(ChunksOf(ms)) \in Nat
    BY <1>3, FS_CardinalityType
  <2> QED
    BY <1>2, <2>1, <2>2, <2>3, PendingIsFinite
<1>6. SumFunction(misses) \in Nat /\ SumFunction(generation) \in Int
  <2>1. SumFunction(misses) \in Nat
    BY SumIsNatural DEF AccountInv
  <2>2. SumFunction(generation) \in Nat
    BY GenerationsAdd DEF PlacedInv
  <2> QED
    BY <2>1, <2>2
<1>7. Cardinality(ChunksOf(ms)) \in Nat
  BY <1>3, FS_CardinalityType
<1> QED
  BY <1>2, <1>5, <1>6, <1>7, PendingIsFinite DEF MissesAreResends

LEMMA PlacementBalances ==
  ASSUME PlacedInv, AccountInv, WorkInv, MissesAreResends, NEW w \in Workers, ChunkAccepted(w)
  PROVE  MissesAreResends'
<1>1. PICK i \in Chunk :
        /\ job[w] # None /\ i = job[w].chunk
        /\ generation' = [generation EXCEPT ![i] = IF job[w].retry THEN @ + 1 ELSE @]
        /\ pending' = IF job[w].retry THEN pending \ {i} ELSE pending
  BY Accepted
<1>2. misses' = misses
  BY DEF ChunkAccepted
<1>3. PICK g \in [Chunk -> Nat] : g = generation
  BY DEF PlacedInv
<1>4. CASE job[w].retry
  <2>1. generation' = [g EXCEPT ![i] = @ + 1] /\ pending' = pending \ {i}
    BY <1>1, <1>3, <1>4
  <2>2. SumFunction(g) \in Nat /\ SumFunction(generation') = SumFunction(g) + 1
    BY <2>1, GenerationsAdd
  <2>3. i \in pending
    <3>1. Retrying(w, i)
      BY <1>1, <1>4 DEF Retrying
    <3> QED
      BY <3>1 DEF WorkInv
  <2>4. Cardinality(pending') = Cardinality(pending) - 1
    BY <2>1, <2>3, PendingIsFinite, FS_RemoveElement
  <2> QED
    BY <1>2, <1>3, <2>2, <2>4, PendingIsFinite DEF MissesAreResends
<1>5. CASE ~ job[w].retry
  <2>1. generation' = [g EXCEPT ![i] = g[i]] /\ pending' = pending
    BY <1>1, <1>3, <1>5
  <2>2. generation' = g
    BY <2>1
  <2> QED
    BY <1>2, <1>3, <2>1, <2>2 DEF MissesAreResends
<1> QED
  BY <1>4, <1>5

ResendInv == AccountInv /\ WorkInv /\ MissesAreResends

LEMMA ResendInit == Init => ResendInv
<1> SUFFICES ASSUME Init PROVE ResendInv
  OBVIOUS
<1>1. /\ misses = [p \in Ring |-> 0] /\ giveUps = [p \in Ring |-> 0] /\ demoted = {}
      /\ retryQueue = <<>> /\ pending = {} /\ nextChunk = 0
      /\ placed = [i \in Chunk |-> None] /\ generation = [i \in Chunk |-> 0]
      /\ job = [w \in Workers |-> None]
  BY DEF Init
<1>2. ToSet(retryQueue) = {} /\ IsInjective(retryQueue) /\ retryQueue \in Seq(Chunk)
  BY <1>1, EmptySeq DEF ToSet, IsInjective
<1>3. AccountInv
  BY <1>1, <1>2 DEF AccountInv
<1>4. WorkInv
  BY <1>1, <1>2, SizesAssumption DEF WorkInv, Queued, Retrying
<1>5. IsFiniteSet(Ring) /\ IsFiniteSet(Chunk)
  BY SizesAssumption, FS_Interval DEF Ring, Chunk
<1>6. SumFunction(misses) = 0 /\ SumFunction(generation) = 0
  BY <1>1, <1>5, SumOfZeros
<1>7. Cardinality(pending) = 0
  BY <1>1, FS_EmptySet
<1>8. MissesAreResends
  BY <1>6, <1>7 DEF MissesAreResends
<1> QED
  BY <1>3, <1>4, <1>8 DEF ResendInv

LEMMA ResendStep ==
  ASSUME IInv, ResendInv, [Next]_vars
  PROVE  ResendInv'
<1> USE DEF ResendInv, IInv
<1>1. CASE UNCHANGED <<nextChunk, pending, retryQueue, placed, generation, misses, giveUps, demoted, job>>
  <2>1. WorkInv'
    BY <1>1, SameWork DEF WorkInv
  <2>2. AccountInv' /\ MissesAreResends'
    BY <1>1 DEF AccountInv, MissesAreResends
  <2> QED
    BY <2>1, <2>2
<1>2. UNCHANGED uploadVars \/ RingResolves
        => UNCHANGED <<nextChunk, pending, retryQueue, placed, generation, misses, giveUps, demoted, job>>
  BY DEF uploadVars, RingResolves
<1>3. ASSUME NEW w \in Workers,
             TakeWork(w) \/ (\E p \in Ring : TryRelay(w, p)) \/ ChunkRefused(w)
      PROVE  ResendInv'
  <2>1. UNCHANGED <<pending, generation, misses>>
    BY <1>3 DEF TakeWork, TryRelay, ChunkRefused
  <2>2. MissesAreResends'
    BY <2>1 DEF MissesAreResends
  <2> QED
    BY <1>3, <2>2, TakeKeepsWork, TryKeepsWork, RefusalKeepsWork
<1>4. ASSUME NEW w \in Workers, ChunkAccepted(w) PROVE ResendInv'
  BY <1>4, PlacementKeepsWork, PlacementBalances
<1>5. ASSUME NEW k \in DOMAIN toSender, TakeAck(k) PROVE ResendInv'
  BY <1>5, AckKeepsWork, AckBalances
<1> QED
  BY <1>1, <1>2, <1>3, <1>4, <1>5, UploadSteps

(* Every miss charged to a relay is one re-send, made or pending (handle_ack,
   worker). *)
THEOREM Resends == Spec => []MissesAreResends
<1>1. IInv /\ IInv' /\ ResendInv /\ [Next]_vars => ResendInv'
  BY ResendStep
<1>2. ResendInv => MissesAreResends
  BY DEF ResendInv
<1> QED
  BY <1>1, <1>2, ResendInit, Invariance, PTL DEF Spec

-----------------------------------------------------------------------------
(* Blame: only unreliable relays are reported. *)

(* What the receiver may say with relays it must not blame: no placement it
   reports missing is on a reliable one. *)
FairSays ==
  [type : {"hello", "cancel", "done"}]
  \cup [type : {"ack"}, missing : SUBSET {m \in [chunk : Chunk, place : Places] : m.place.at \notin Reliable}]

FairInv ==
  /\ rpc = "acking" => \A i \in Asked : view.places[i].at \notin Reliable
  /\ toSender \in Seq(FairSays)

LEMMA FairWords ==
  /\ [type |-> "cancel"] \in FairSays
  /\ [type |-> "done"] \in FairSays
  /\ [type |-> "hello"] \in FairSays
<1>1. PICK m : m = [type |-> "cancel"]
  OBVIOUS
<1>2. PICK d : d = [type |-> "done"]
  OBVIOUS
<1>3. PICK h : h = [type |-> "hello"]
  OBVIOUS
<1>4. m \in FairSays /\ d \in FairSays /\ h \in FairSays
  BY <1>1, <1>2, <1>3 DEF FairSays
<1> QED
  BY <1>1, <1>2, <1>3, <1>4

LEMMA FairMissing ==
  ASSUME TalkInv, FairInv, rpc = "acking"
  PROVE  [type |-> "ack", missing |-> Missing] \in FairSays
<1>1. PICK D \in SUBSET Chunk :
        view \in [type : {"avail"}, ring : BOOLEAN, places : [D -> Places]]
  BY DEF TalkInv, Truths, Announcement
<1>2. \A i \in Asked : i \in Chunk /\ view.places[i] \in Places /\ view.places[i].at \notin Reliable
  BY <1>1 DEF Asked, FairInv
<1>3. Missing \subseteq {m \in [chunk : Chunk, place : Places] : m.place.at \notin Reliable}
  BY <1>2 DEF Missing
<1>4. PICK m : m = [type |-> "ack", missing |-> Missing]
  OBVIOUS
<1>5. m \in FairSays
  BY <1>3, <1>4 DEF FairSays
<1> QED
  BY <1>4, <1>5

LEMMA FairStep ==
  ASSUME TalkInv, FairInv, [Next]_vars
  PROVE  FairInv'
<1> DEFINE Silent == UNCHANGED <<rpc, view, have, toSender>>
<1>1. toSender \in Seq(FairSays) /\ (rpc = "acking" => \A i \in Asked : view.places[i].at \notin Reliable)
  BY DEF FairInv
<1>2. ASSUME UNCHANGED <<rpc, view, have>> \/ rpc' # "acking", toSender' \in Seq(FairSays)
      PROVE  FairInv'
  BY <1>1, <1>2 DEF FairInv, Asked
<1>3. ASSUME NEW k \in DOMAIN toSender,
             TakeAck(k) \/ TakeHello(k) \/ TakeDone(k) \/ \E l \in BOOLEAN : TakeLastStraw(k, l)
             \/ TakeReceiverCancel(k, l)
      PROVE  FairInv'
  <2>1. toSender' = After(toSender, k) /\ UNCHANGED <<rpc, view, have>>
    BY <1>3 DEF TakeAck, TakeHello, TakeDone, TakeLastStraw, TakeReceiverCancel
  <2> QED
    BY <1>1, <1>2, <2>1, AfterSays
<1>4. ASSUME NEW l, SendAck(l) PROVE FairInv'
  <2>1. /\ rpc = "acking" /\ rpc' # "acking"
        /\ toSender' = Sending(l, toSender, [type |-> "ack", missing |-> Missing])
    BY <1>4 DEF SendAck
  <2>2. [type |-> "ack", missing |-> Missing] \in FairSays
    BY <2>1, FairMissing
  <2> QED
    BY <1>1, <1>2, <2>1, <2>2, SendingSays
<1>5. ASSUME NEW l, AckRefused(l) \/ ReceiverGivesUp(l) PROVE FairInv'
  <2>1. rpc' # "acking" /\ toSender' = Sending(l, toSender, [type |-> "cancel"])
    BY <1>5 DEF AckRefused, ReceiverGivesUp, Fail
  <2> QED
    BY <1>1, <1>2, <2>1, FairWords, SendingSays
<1>6. ASSUME NEW l, ReportDone(l) PROVE FairInv'
  <2>1. rpc' # "acking" /\ toSender' = Sending(l, toSender, [type |-> "done"])
    BY <1>6 DEF ReportDone
  <2> QED
    BY <1>1, <1>2, <2>1, FairWords, SendingSays
<1>7. ASSUME NEW served, Fetch(served) PROVE FairInv'
  <2>1. TrueOf(view)
    BY DEF TalkInv, Truths
  <2>2. /\ have' = have \cup served /\ view' = view /\ toSender' = toSender
        /\ {i \in Asked : view.places[i].at \in Reliable /\ i \in stored[view.places[i].at]} \subseteq served
    BY <1>7 DEF Fetch, Serve
  <2>3. ASSUME NEW i \in Asked' PROVE view'.places[i].at \notin Reliable
    <3>1. i \in Asked /\ i \notin served
      BY <2>2 DEF Asked
    <3>2. i \in stored[view.places[i].at]
      BY <2>1, <3>1 DEF TrueOf, Asked
    <3> QED
      BY <2>2, <3>1, <3>2
  <2> QED
    BY <1>1, <2>2, <2>3 DEF FairInv
<1>8. \A k : TakeAvail(k) \/ TakeSenderCancel(k) => rpc' # "acking" /\ toSender' = toSender
  BY DEF TakeAvail, TakeSenderCancel
<1>9. RetryClock => rpc' # "acking" /\ toSender' = toSender
  BY DEF RetryClock
<1>10. RingResolves \/ UNCHANGED vars => Silent
  BY DEF RingResolves, vars, receiverVars
<1>11. \A x : NoRing(x) \/ TakeWork(x) \/ ChunkAccepted(x) \/ ChunkRefused(x) \/ Announce(x)
                \/ AnnounceRefused(x) \/ SenderGivesUp(x) \/ TakeManifest(x) \/ RefuseEarly(x) => Silent
  BY DEF NoRing, TakeWork, ChunkAccepted, ChunkRefused, Announce, AnnounceRefused, SenderGivesUp,
         TakeManifest, RefuseEarly, receiverVars
<1>12. \A x, y : TryRelay(x, y) \/ Unplaceable(x, y) => Silent
  BY DEF TryRelay, Unplaceable, receiverVars
<1> QED
  BY <1>1, <1>2, <1>3, <1>4, <1>5, <1>6, <1>7, <1>8, <1>9, <1>10, <1>11, <1>12 DEF Next

LEMMA BlameStep ==
  ASSUME IInv, AccountInv, WorkInv, FairInv, ReliableNeverBlamed, [Next]_vars
  PROVE  ReliableNeverBlamed'
<1> USE DEF ReliableNeverBlamed
<1>1. CASE UNCHANGED <<misses, giveUps, demoted>>
  BY <1>1
<1>2. UNCHANGED uploadVars \/ RingResolves => UNCHANGED <<misses, giveUps, demoted>>
  BY DEF uploadVars, RingResolves
<1>3. \A w \in Workers : TakeWork(w) \/ (\E p \in Ring : TryRelay(w, p)) \/ ChunkAccepted(w)
                           => UNCHANGED <<misses, giveUps, demoted>>
  BY DEF TakeWork, TryRelay, ChunkAccepted
<1>4. ASSUME NEW w \in Workers, ChunkRefused(w) PROVE ReliableNeverBlamed'
  <2>1. PICK p : p = job[w].at /\ p \notin Reliable
    BY <1>4 DEF ChunkRefused
  <2>2. /\ giveUps' = [giveUps EXCEPT ![p] = @ + 1] /\ misses' = misses
        /\ demoted' = demoted \/ demoted' = demoted \cup {p}
    BY <1>4, <2>1 DEF ChunkRefused, Demoting
  <2>3. \A r \in Reliable : giveUps'[r] = giveUps[r]
    BY <2>1, <2>2, SizesAssumption DEF AccountInv
  <2> QED
    BY <2>1, <2>2, <2>3
<1>5. ASSUME NEW k \in DOMAIN toSender, TakeAck(k) PROVE ReliableNeverBlamed'
  <2>1. PICK ms : ms = Usable(toSender[k].missing)
    OBVIOUS
  <2>2. PICK say \in FairSays : say = toSender[k]
    BY LenProperties DEF FairInv
  <2>3. \A m \in ms : m.place.at \notin Reliable
    BY <1>5, <2>1, <2>2 DEF TakeAck, FairSays, Usable
  <2>4. \A p \in Ring : (\A m \in ms : m.place.at # p) =>
          misses'[p] = misses[p] /\ (p \in demoted' <=> p \in demoted)
    BY <1>5, <2>1, AckCharges DEF IInv
  <2>5. giveUps' = giveUps
    BY <1>5 DEF TakeAck
  <2> QED
    BY <2>3, <2>4, <2>5, SizesAssumption
<1> QED
  BY <1>1, <1>2, <1>3, <1>4, <1>5, UploadSteps

BlameInv == ResendInv /\ FairInv /\ ReliableNeverBlamed

LEMMA NoBlame == Spec => []BlameInv
<1>1. ASSUME Init PROVE BlameInv
  <2>1. ReliableNeverBlamed
    BY <1>1, SizesAssumption DEF Init, ReliableNeverBlamed
  <2>2. rpc # "acking" /\ (toSender = <<>> \/ toSender = <<[type |-> "hello"]>>)
    BY <1>1 DEF Init
  <2>3. PICK m \in FairSays : m = [type |-> "hello"]
    BY FairWords
  <2>4. <<m>> \in Seq(FairSays) /\ <<>> \in Seq(FairSays)
    BY EmptySeq
  <2>5. FairInv
    BY <2>2, <2>3, <2>4 DEF FairInv
  <2> QED
    BY <1>1, <2>1, <2>5, ResendInit DEF BlameInv
<1>2. ASSUME IInv, BlameInv, [Next]_vars PROVE BlameInv'
  <2>1. ResendInv'
    BY <1>2, ResendStep DEF BlameInv
  <2>2. FairInv'
    BY <1>2, FairStep DEF IInv, BlameInv
  <2>3. ReliableNeverBlamed'
    BY <1>2, BlameStep DEF ResendInv, BlameInv
  <2> QED
    BY <2>1, <2>2, <2>3 DEF BlameInv
<1> QED
  BY <1>1, <1>2, Invariance, PTL DEF Spec

(* A relay that serves everything it takes is never charged with a miss or a
   give-up, and never demoted (handle_ack, worker, demote). *)
THEOREM NeverBlamed == Spec => []ReliableNeverBlamed
<1>1. BlameInv => ReliableNeverBlamed
  BY DEF BlameInv
<1> QED
  BY <1>1, NoBlame, PTL

-----------------------------------------------------------------------------
(* Where a chunk is: not reached yet, in a worker's hands, waiting for a re-send,
   or placed, so that a report of its placement counts. *)
Ahead(i) == i >= nextChunk
InHand(i) == \E w \in Workers : job[w] # None /\ job[w].chunk = i
Settled(i) == placed[i] # None /\ i \notin pending

(* Every chunk is in one of these, and in one only. *)
NoChunkForgotten ==
  \A i \in Chunk :
    /\ Ahead(i) \/ InHand(i) \/ Queued(i) \/ Settled(i)
    /\ Ahead(i) => ~ InHand(i) /\ ~ Queued(i) /\ ~ Settled(i)
    /\ InHand(i) => ~ Queued(i) /\ ~ Settled(i)
    /\ Queued(i) => ~ Settled(i)

(* No chunk is re-sent more often than the limit, although it is checked when a
   miss is reported, and the re-send is counted when it has been placed. *)
ResendsWithinLimit == \A i \in Chunk : generation[i] <= MaxRetransmits

(* A chunk started and not placed is in a worker's hands; one that is to be re-sent
   may be. *)
StartedInv == \A i \in Chunk : i < nextChunk /\ placed[i] = None => InHand(i)
LimitInv == \A i \in Chunk : /\ generation[i] <= MaxRetransmits
                             /\ i \in pending => generation[i] < MaxRetransmits

LEMMA StartedStep ==
  ASSUME PlacedInv, AccountInv, TalkInv, WorkInv, StartedInv, [Next]_vars
  PROVE  StartedInv'
<1>1. \A i \in Chunk, w \in Workers : job[w] # None /\ job[w].chunk = i => InHand(i)
  BY DEF InHand
<1>2. ASSUME UNCHANGED <<nextChunk, placed>>,
             \A v \in Workers : job[v] # None => job'[v] # None /\ job'[v].chunk = job[v].chunk
      PROVE  StartedInv'
  BY <1>2 DEF StartedInv, InHand
<1>3. CASE UNCHANGED uploadVars \/ RingResolves \/ \E k \in DOMAIN toSender : TakeAck(k)
  BY <1>2, <1>3 DEF uploadVars, RingResolves, TakeAck
<1>4. ASSUME NEW w \in Workers, NEW p \in Ring, TryRelay(w, p) PROVE StartedInv'
  BY <1>2, <1>4, Tried DEF TryRelay
<1>5. ASSUME NEW w \in Workers, ChunkRefused(w) PROVE StartedInv'
  BY <1>2, <1>5, Refused DEF ChunkRefused
<1>6. ASSUME NEW w \in Workers, ChunkAccepted(w) PROVE StartedInv'
  <2>1. PICK i \in Chunk, p \in Ring :
          /\ i = job[w].chunk /\ placed' = [placed EXCEPT ![i] = p]
          /\ \A v \in Workers : v # w => job'[v] = job[v]
    BY <1>6, Accepted
  <2>2. p # None /\ nextChunk' = nextChunk
    BY <1>6, NoneAssumption DEF ChunkAccepted
  <2>3. placed'[i] # None /\ \A c \in Chunk : c # i => placed'[c] = placed[c]
    BY <2>1, <2>2 DEF PlacedInv
  <2>4. ASSUME NEW c \in Chunk, c < nextChunk', placed'[c] = None PROVE InHand(c)'
    <3>1. c # i /\ placed[c] = None
      BY <2>3, <2>4
    <3>2. PICK v \in Workers : job[v] # None /\ job[v].chunk = c
      BY <2>2, <2>4, <3>1 DEF StartedInv, InHand
    <3>3. v # w /\ job'[v] = job[v]
      BY <2>1, <3>1, <3>2
    <3> QED
      BY <3>2, <3>3 DEF InHand
  <2> QED
    BY <2>4 DEF StartedInv
<1>7. ASSUME NEW w \in Workers, TakeWork(w) PROVE StartedInv'
  <2>1. job[w] = None /\ placed' = placed
    BY <1>7 DEF TakeWork
  <2>2. CASE retryQueue # <<>>
    <3>1. PICK i \in Chunk : i = Head(retryQueue)
      BY <2>2, OneFewerQueued DEF AccountInv
    <3>2. PICK b \in BOOLEAN : b = TRUE
      OBVIOUS
    <3>3. job' = [job EXCEPT ![w] = NewJob(i, b)] /\ nextChunk' = nextChunk
      BY <1>7, <2>2, <3>1, <3>2 DEF TakeWork
    <3>4. \A v \in Workers : job[v] # None => job'[v] = job[v]
      BY <2>1, <3>3, Taken
    <3> QED
      BY <1>2, <2>1, <3>3, <3>4
  <2>3. CASE retryQueue = <<>>
    <3>1. PICK i \in Chunk : i = nextChunk /\ nextChunk' = i + 1
      BY <1>7, <2>3, SizesAssumption DEF TakeWork, WorkInv, Chunk
    <3>2. PICK b \in BOOLEAN : b = FALSE
      OBVIOUS
    <3>3. job' = [job EXCEPT ![w] = NewJob(i, b)]
      BY <1>7, <2>3, <3>1, <3>2 DEF TakeWork
    <3>4. /\ \A v \in Workers : job[v] # None => job'[v] = job[v]
          /\ job'[w] # None /\ job'[w].chunk = i
      BY <2>1, <3>3, Taken
    <3>5. InHand(i)'
      BY <3>4 DEF InHand
    <3>6. ASSUME NEW c \in Chunk, c < nextChunk', placed'[c] = None, c # i PROVE InHand(c)'
      <4>1. c < nextChunk
        BY <3>1, <3>6, SizesAssumption DEF Chunk
      <4>2. InHand(c)
        BY <2>1, <3>6, <4>1 DEF StartedInv
      <4> QED
        BY <3>4, <4>2 DEF InHand
    <3> QED
      BY <3>5, <3>6 DEF StartedInv
  <2> QED
    BY <2>2, <2>3
<1> QED
  BY <1>3, <1>4, <1>5, <1>6, <1>7, UploadSteps

LEMMA LimitStep ==
  ASSUME IInv, AccountInv, WorkInv, LimitInv, [Next]_vars
  PROVE  LimitInv'
<1>1. CASE UNCHANGED <<generation, pending>>
  BY <1>1 DEF LimitInv
<1>2. ASSUME UNCHANGED uploadVars \/ RingResolves \/ \E w \in Workers :
               TakeWork(w) \/ ChunkRefused(w) \/ \E p \in Ring : TryRelay(w, p)
      PROVE  UNCHANGED <<generation, pending>>
  BY <1>2 DEF uploadVars, RingResolves, TakeWork, ChunkRefused, TryRelay
<1>3. ASSUME NEW w \in Workers, ChunkAccepted(w) PROVE LimitInv'
  <2>1. PICK i \in Chunk :
          /\ job[w] # None /\ i = job[w].chunk
          /\ generation' = [generation EXCEPT ![i] = IF job[w].retry THEN @ + 1 ELSE @]
          /\ pending' = IF job[w].retry THEN pending \ {i} ELSE pending
    BY <1>3, Accepted DEF IInv
  <2>2. MaxRetransmits \in Nat /\ generation \in [Chunk -> Nat]
    BY SizesAssumption DEF IInv, PlacedInv, MaxRetransmits
  <2>3. CASE job[w].retry
    <3>1. i \in pending
      BY <2>1, <2>3 DEF WorkInv, Retrying
    <3>2. generation[i] < MaxRetransmits
      BY <3>1 DEF LimitInv
    <3> QED
      BY <2>1, <2>2, <2>3, <3>2 DEF LimitInv
  <2>4. CASE ~ job[w].retry
    BY <2>1, <2>2, <2>4 DEF LimitInv
  <2> QED
    BY <2>3, <2>4
<1>4. ASSUME NEW k \in DOMAIN toSender, TakeAck(k) PROVE LimitInv'
  <2>1. PICK ms : ms = Usable(toSender[k].missing)
    OBVIOUS
  <2>2. generation' = generation /\ pending' = pending \cup ChunksOf(ms)
    BY <1>4, <2>1, AckCharges DEF IInv
  <2>3. MaxRetransmits \in Nat /\ generation \in [Chunk -> Nat]
    BY SizesAssumption DEF IInv, PlacedInv, MaxRetransmits
  <2>4. \A m \in ms : ~ Exhausted(m)
    BY <1>4, <2>1 DEF TakeAck
  <2>5. \A i \in Chunk : i \in ChunksOf(ms) => generation[i] < MaxRetransmits
    BY <2>3, <2>4 DEF ChunksOf, Exhausted
  <2> QED
    BY <2>2, <2>5 DEF LimitInv
<1> QED
  BY <1>1, <1>2, <1>3, <1>4, UploadSteps

(* No chunk is forgotten, and none is handed out twice (worker, handle_ack): its
   first placement, its re-send and what may be reported of it follow one another. *)
THEOREM ChunksKept == Spec => []NoChunkForgotten
<1>1. Init => StartedInv
  BY SizesAssumption DEF Init, StartedInv, Chunk
<1>2. IInv /\ BlameInv /\ StartedInv /\ [Next]_vars => StartedInv'
  BY StartedStep DEF IInv, BlameInv, ResendInv
<1>3. ASSUME BlameInv, StartedInv PROVE NoChunkForgotten
  <2>1. WorkInv
    BY <1>3 DEF BlameInv, ResendInv
  <2> SUFFICES ASSUME NEW i \in Chunk
               PROVE  /\ Ahead(i) \/ InHand(i) \/ Queued(i) \/ Settled(i)
                      /\ Ahead(i) => ~ InHand(i) /\ ~ Queued(i) /\ ~ Settled(i)
                      /\ InHand(i) => ~ Queued(i) /\ ~ Settled(i)
                      /\ Queued(i) => ~ Settled(i)
    BY DEF NoChunkForgotten
  <2>2. /\ i \in pending <=> Queued(i) \/ \E w \in Workers : Retrying(w, i)
        /\ i \in pending => placed[i] # None
        /\ placed[i] # None => i < nextChunk
        /\ nextChunk \in Int /\ i \in Int
    BY <2>1, SizesAssumption DEF WorkInv, Chunk
  <2>3. ASSUME InHand(i) PROVE ~ Ahead(i) /\ ~ Queued(i) /\ ~ Settled(i)
    <3>1. PICK w \in Workers : job[w] # None /\ job[w].chunk = i
      BY <2>3 DEF InHand
    <3>2. CASE job[w].retry
      <4>1. Retrying(w, i) /\ ~ Queued(i)
        BY <2>1, <3>1, <3>2 DEF Retrying, WorkInv
      <4> QED
        BY <2>2, <4>1 DEF Ahead, Settled
    <3>3. CASE ~ job[w].retry
      <4>1. i < nextChunk /\ placed[i] = None
        BY <2>1, <3>1, <3>3 DEF WorkInv
      <4> QED
        BY <2>2, <4>1 DEF Ahead, Settled
    <3> QED
      BY <3>2, <3>3
  <2>4. Queued(i) => ~ Ahead(i) /\ ~ Settled(i)
    BY <2>2 DEF Ahead, Settled
  <2>5. Settled(i) => ~ Ahead(i)
    BY <2>2 DEF Ahead, Settled
  <2>6. Ahead(i) \/ InHand(i) \/ Queued(i) \/ Settled(i)
    <3>1. CASE placed[i] = None
      BY <1>3, <2>2, <3>1 DEF Ahead, StartedInv
    <3>2. CASE placed[i] # None
      BY <2>2, <3>2 DEF Settled, Retrying, InHand
    <3> QED
      BY <3>1, <3>2
  <2> QED
    BY <2>3, <2>4, <2>5, <2>6
<1> QED
  BY <1>1, <1>2, <1>3, Invariance, NoBlame, PTL DEF Spec

(* The limit on re-sends holds (handle_ack), however many acknowledgements report
   the same placement. *)
THEOREM ResendsLimited == Spec => []ResendsWithinLimit
<1>1. Init => LimitInv
  BY SizesAssumption DEF Init, LimitInv, MaxRetransmits
<1>2. IInv /\ BlameInv /\ LimitInv /\ [Next]_vars => LimitInv'
  BY LimitStep DEF BlameInv, ResendInv
<1>3. LimitInv => ResendsWithinLimit
  BY DEF LimitInv, ResendsWithinLimit
<1> QED
  BY <1>1, <1>2, <1>3, Invariance, NoBlame, PTL DEF Spec

-----------------------------------------------------------------------------
(* Walks: how far a reliable relay can be. *)

(* Division by the ring's size. *)
LEMMA Remainders ==
  ASSUME NEW x \in Int
  PROVE  x % RingSize \in Ring /\ \E q \in Int : x % RingSize = x - RingSize * q
<1>1. RingSize \in Nat /\ RingSize >= 1
  BY SizesAssumption
<1>2. x % RingSize \in 0 .. RingSize - 1
  BY <1>1
<1>3. x = RingSize * (x \div RingSize) + (x % RingSize)
  BY <1>1
<1>4. x \div RingSize \in Int
  BY <1>1
<1>5. x % RingSize = x - RingSize * (x \div RingSize)
  BY <1>1, <1>2, <1>3, <1>4
<1> QED
  BY <1>2, <1>4, <1>5 DEF Ring

LEMMA OneRemainder ==
  ASSUME NEW s \in Ring, NEW t \in Ring, NEW q \in Int, s = t + RingSize * q
  PROVE  s = t
<1>1. RingSize \in Nat /\ RingSize >= 1 /\ s \in Int /\ t \in Int
      /\ s - t < RingSize /\ t - s < RingSize
  BY SizesAssumption DEF Ring
<1>2. s - t = RingSize * q
  BY <1>1
<1>3. CASE q >= 1
  <2>1. RingSize * q >= RingSize
    BY <1>1, <1>3
  <2> QED
    BY <1>1, <1>2, <2>1
<1>4. CASE q <= -1
  <2>1. RingSize * q <= -RingSize
    BY <1>1, <1>4
  <2> QED
    BY <1>1, <1>2, <2>1
<1>5. CASE q = 0
  BY <1>1, <1>2, <1>5
<1> QED
  BY <1>3, <1>4, <1>5

(* Where a walk has got to, as a remainder. *)
LEMMA StepsAre ==
  ASSUME NEW i \in Chunk, NEW p \in Ring, nextOffset[i] \in Ring
  PROVE  Steps(i, p) \in Ring
         /\ \E q \in Int : Steps(i, p) = p - i - nextOffset[i] - RingSize * q
<1>1. p - i - nextOffset[i] \in Int
  BY SizesAssumption DEF Ring, Chunk
<1> QED
  BY <1>1, Remainders DEF Steps

(* Two relays are never as far along a walk as each other. *)
LEMMA StepsDiffer ==
  ASSUME NEW i \in Chunk, NEW p \in Ring, NEW r \in Ring, nextOffset[i] \in Ring,
         Steps(i, p) = Steps(i, r)
  PROVE  p = r
<1>1. PICK a \in Int : Steps(i, p) = p - i - nextOffset[i] - RingSize * a
  BY StepsAre
<1>2. PICK b \in Int : Steps(i, r) = r - i - nextOffset[i] - RingSize * b
  BY StepsAre
<1>3. RingSize \in Int /\ i \in Int /\ p \in Int /\ r \in Int /\ nextOffset[i] \in Int
  BY SizesAssumption DEF Ring, Chunk
<1>4. p - r = RingSize * a - RingSize * b
  <2>1. PICK o \in Int, t \in Int, A \in Int, B \in Int :
          o = nextOffset[i] /\ t = Steps(i, p) /\ A = RingSize * a /\ B = RingSize * b
    BY <1>1, <1>3
  <2>2. t = p - i - o - A /\ t = r - i - o - B
    BY <1>1, <1>2, <2>1
  <2> QED
    BY <1>3, <2>1, <2>2
<1>5. p = r + RingSize * (a - b) /\ a - b \in Int
  BY <1>3, <1>4
<1> QED
  BY <1>5, OneRemainder

(* The next walk starts after the relay this one took, so every relay further
   along is nearer by the steps taken and one more. *)
LEMMA StepsShrink ==
  ASSUME NEW i \in Chunk, NEW p \in Ring, NEW r \in Ring, nextOffset[i] \in Ring,
         nextOffset'[i] = (p - i + 1) % RingSize, Steps(i, p) < Steps(i, r)
  PROVE  Steps(i, r)' = Steps(i, r) - Steps(i, p) - 1
<1>1. PICK a \in Int : Steps(i, p) = p - i - nextOffset[i] - RingSize * a
  BY StepsAre
<1>2. PICK b \in Int : Steps(i, r) = r - i - nextOffset[i] - RingSize * b
  BY StepsAre
<1>3. RingSize \in Int /\ i \in Int /\ p \in Int /\ r \in Int /\ nextOffset[i] \in Int
  BY SizesAssumption DEF Ring, Chunk
<1>4. PICK o \in Ring, c \in Int : o = nextOffset'[i] /\ o = p - i + 1 - RingSize * c
  <2>1. PICK x \in Int : x = p - i + 1
    BY <1>3
  <2>2. x % RingSize \in Ring /\ \E q \in Int : x % RingSize = x - RingSize * q
    BY Remainders
  <2>3. x % RingSize = nextOffset'[i]
    BY <2>1
  <2>4. PICK o \in Ring : o = nextOffset'[i]
    BY <2>2, <2>3
  <2>5. PICK c \in Int : o = x - RingSize * c
    BY <2>2, <2>3, <2>4
  <2>6. o = p - i + 1 - RingSize * c
    BY <1>3, <2>1, <2>5
  <2> QED
    BY <2>4, <2>6
<1>5. /\ Steps(i, r)' \in Ring
      /\ \E q \in Int : Steps(i, r)' = r - i - o - RingSize * q
  <2>1. PICK x \in Int : x = r - i - o
    BY <1>3 DEF Ring
  <2>2. x % RingSize \in Ring /\ \E q \in Int : x % RingSize = x - RingSize * q
    BY Remainders
  <2> QED
    BY <1>4, <2>1, <2>2 DEF Steps
<1>6. PICK d \in Int : Steps(i, r)' = r - i - o - RingSize * d
  BY <1>5
<1>7. PICK old \in Ring, taken \in Ring, new \in Ring :
        old = Steps(i, r) /\ taken = Steps(i, p) /\ new = Steps(i, r)'
  BY <1>5, StepsAre
<1>8. old - taken - 1 \in Ring
  BY <1>7, SizesAssumption DEF Ring
<1>9. PICK A \in Int, B \in Int, C \in Int, E \in Int :
        A = RingSize * a /\ B = RingSize * b /\ C = RingSize * c /\ E = RingSize * d
  BY <1>3
<1>10. new = (old - taken - 1) + (C - E - A + B)
  BY <1>1, <1>2, <1>3, <1>4, <1>6, <1>7, <1>9 DEF Ring
<1>11. PICK q \in Int : q = c - d - a + b
  OBVIOUS
<1>12. RingSize * q = C - E - A + B
  BY <1>3, <1>9, <1>11
<1>13. new = (old - taken - 1) + RingSize * q
  BY <1>10, <1>12
<1> QED
  BY <1>7, <1>8, <1>13, OneRemainder

(* How often a chunk has been placed, and whether a worker is publishing it. *)
Attempts(i) == IF placed[i] = None THEN 0 ELSE generation[i] + 1
Idle(i) == \A w \in Workers : job[w] # None /\ job[w].chunk = i => job[w].at = None

(* A walk never gets past a reliable relay: none is among those tried, and the
   placements made so far, with the steps still to go to it, fit in the ring. *)
WalkInv ==
  /\ nextOffset \in [Chunk -> Ring]
  /\ \A i \in pending : placed[i] \notin Reliable
  /\ \A w \in Workers : job[w] # None =>
       /\ job[w].tried \cap Reliable \subseteq {job[w].at}
       /\ job[w].at \in Ring \ Reliable =>
            \A r \in Reliable : Attempts(job[w].chunk) + 1 + Steps(job[w].chunk, r) < RingSize
  /\ \A i \in Chunk, r \in Reliable :
       placed[i] \notin Reliable /\ Idle(i) => Attempts(i) + Steps(i, r) < RingSize

LEMMA AttemptsAre ==
  ASSUME PlacedInv, WalkInv, NEW i \in Chunk
  PROVE  /\ Attempts(i) \in Nat
         /\ \A r \in Reliable : r \in Ring /\ Steps(i, r) \in Ring /\ Steps(i, r) \in Nat
<1>1. Attempts(i) \in Nat
  BY DEF Attempts, PlacedInv
<1>2. ASSUME NEW r \in Reliable PROVE r \in Ring /\ Steps(i, r) \in Ring /\ Steps(i, r) \in Nat
  <2>1. r \in Ring /\ nextOffset[i] \in Ring
    BY SizesAssumption DEF WalkInv
  <2>2. Steps(i, r) \in Ring
    BY <2>1, StepsAre
  <2> QED
    BY <2>1, <2>2, SizesAssumption DEF Ring
<1> QED
  BY <1>1, <1>2

(* The chunk of a job is placed nowhere that serves it. *)
LEMMA WorkIsNeeded ==
  ASSUME WorkInv, WalkInv, NEW w \in Workers, job[w] # None
  PROVE  placed[job[w].chunk] \notin Reliable
<1>1. job[w].chunk \in Chunk /\ job[w].retry \in BOOLEAN
  BY JobHas
<1>2. CASE job[w].retry
  <2>1. Retrying(w, job[w].chunk)
    BY <1>2 DEF Retrying
  <2>2. job[w].chunk \in pending
    BY <1>1, <2>1 DEF WorkInv
  <2> QED
    BY <2>2 DEF WalkInv
<1>3. CASE ~ job[w].retry
  <2>1. placed[job[w].chunk] = None
    BY <1>3 DEF WorkInv
  <2> QED
    BY <2>1, SizesAssumption, NoneAssumption
<1> QED
  BY <1>1, <1>2, <1>3

LEMMA TakeKeepsWalk ==
  ASSUME AccountInv, WorkInv, WalkInv, NEW w \in Workers, TakeWork(w)
  PROVE  WalkInv'
<1>1. job[w] = None /\ UNCHANGED <<nextOffset, placed, generation, pending>>
  BY DEF TakeWork
<1>2. /\ job'[w] # None /\ job'[w].tried = {} /\ job'[w].at = None
      /\ \A v \in Workers : v # w => job'[v] = job[v]
  <2>1. CASE retryQueue # <<>>
    <3>1. PICK i \in Chunk : i = Head(retryQueue)
      BY <2>1, OneFewerQueued DEF AccountInv
    <3>2. PICK b \in BOOLEAN : b = TRUE
      OBVIOUS
    <3>3. job' = [job EXCEPT ![w] = NewJob(i, b)]
      BY <2>1, <3>1, <3>2 DEF TakeWork
    <3> QED
      BY <1>1, <3>3, Taken
  <2>2. CASE retryQueue = <<>>
    <3>1. PICK i \in Chunk : i = nextChunk
      BY <2>2, SizesAssumption DEF TakeWork, WorkInv, Chunk
    <3>2. PICK b \in BOOLEAN : b = FALSE
      OBVIOUS
    <3>3. job' = [job EXCEPT ![w] = NewJob(i, b)]
      BY <2>2, <3>1, <3>2 DEF TakeWork
    <3> QED
      BY <1>1, <3>3, Taken
  <2> QED
    BY <2>1, <2>2
<1>3. \A i, r : Attempts(i)' = Attempts(i) /\ Steps(i, r)' = Steps(i, r)
  BY <1>1 DEF Attempts, Steps
<1>4. \A i : Idle(i)' => Idle(i)
  BY <1>1, <1>2 DEF Idle
<1>5. ASSUME NEW v \in Workers, job'[v] # None
      PROVE  /\ job'[v].tried \cap Reliable \subseteq {job'[v].at}
             /\ job'[v].at \in Ring \ Reliable =>
                  \A r \in Reliable : \A c : c = job'[v].chunk => Attempts(c)' + 1 + Steps(c, r)' < RingSize
  <2>1. CASE v = w
    BY <1>2, <2>1, NoneAssumption
  <2>2. CASE v # w
    BY <1>2, <1>3, <1>5, <2>2 DEF WalkInv
  <2> QED
    BY <2>1, <2>2
<1>6. \A i \in Chunk, r \in Reliable :
        placed'[i] \notin Reliable /\ Idle(i)' => Attempts(i)' + Steps(i, r)' < RingSize
  BY <1>1, <1>3, <1>4 DEF WalkInv
<1> QED
  BY <1>1, <1>5, <1>6 DEF WalkInv

(* A reliable relay is healthy, so a walk takes it before any further along and
   before any demoted one. *)
LEMMA WalkStops ==
  ASSUME PlacedInv, WorkInv, WalkInv, ReliableNeverBlamed,
         NEW w \in Workers, NEW p \in Ring, TryRelay(w, p), NEW r \in Reliable, p \notin Reliable
  PROVE  Steps(job[w].chunk, p) < Steps(job[w].chunk, r)
<1>1. PICK i \in Chunk : i = job[w].chunk
  BY JobHas DEF TryRelay
<1>2. r \in Ring /\ r \notin demoted /\ p # r /\ nextOffset[i] \in Ring
  BY SizesAssumption DEF ReliableNeverBlamed, WalkInv
<1>3. r \in Ring \ job[w].tried
  <2>1. job[w] # None /\ job[w].at = None
    BY DEF TryRelay
  <2>2. job[w].tried \cap Reliable \subseteq {None}
    BY <2>1 DEF WalkInv
  <2> QED
    BY <1>2, <2>2, NoneAssumption
<1>4. Precedes(i, p, r)
  BY <1>1, <1>3 DEF TryRelay
<1>5. Steps(i, p) <= Steps(i, r)
  BY <1>2, <1>4 DEF Precedes
<1>6. Steps(i, p) # Steps(i, r)
  BY <1>2, StepsDiffer
<1>7. PICK s \in Ring, t \in Ring : s = Steps(i, p) /\ t = Steps(i, r)
  BY <1>2, StepsAre
<1>8. s < t
  BY <1>5, <1>6, <1>7, SizesAssumption DEF Ring
<1> QED
  BY <1>1, <1>7, <1>8

LEMMA TryKeepsWalk ==
  ASSUME PlacedInv, WorkInv, WalkInv, ReliableNeverBlamed,
         NEW w \in Workers, NEW p \in Ring, TryRelay(w, p)
  PROVE  WalkInv'
<1>1. PICK i \in Chunk : i = job[w].chunk
  BY JobHas DEF TryRelay
<1>2. /\ job[w] # None /\ job[w].at = None /\ job'[w] # None
      /\ job'[w].chunk = i
      /\ job'[w].tried = job[w].tried \cup {p} /\ job'[w].at = p
      /\ \A v \in Workers : v # w => job'[v] = job[v]
  BY <1>1, Tried
<1>3. /\ nextOffset' = [nextOffset EXCEPT ![i] = (p - i + 1) % RingSize]
      /\ UNCHANGED <<placed, generation, pending>>
  BY <1>1 DEF TryRelay
<1>4. nextOffset' \in [Chunk -> Ring] /\ nextOffset'[i] = (p - i + 1) % RingSize
      /\ \A c \in Chunk : c # i => nextOffset'[c] = nextOffset[c]
  <2>1. p - i + 1 \in Int
    BY SizesAssumption DEF Ring, Chunk
  <2>2. PICK o \in Ring : o = (p - i + 1) % RingSize
    BY <2>1, Remainders
  <2> QED
    BY <1>3, <2>2 DEF WalkInv
<1>5. \A c : Attempts(c)' = Attempts(c)
  BY <1>3 DEF Attempts
<1>6. \A c \in Chunk : c # i => \A r : Steps(c, r)' = Steps(c, r)
  BY <1>4 DEF Steps
<1>7. \A v \in Workers : job[v] # None /\ job[v].chunk = i => v = w
  BY <1>1, <1>2 DEF WorkInv
<1>8. ASSUME p \notin Reliable, NEW r \in Reliable PROVE Attempts(i)' + 1 + Steps(i, r)' < RingSize
  <2>1. placed[i] \notin Reliable
    BY <1>1, <1>2, WorkIsNeeded
  <2>2. Idle(i)
    BY <1>2, <1>7 DEF Idle
  <2>3. Attempts(i) + Steps(i, r) < RingSize
    BY <2>1, <2>2 DEF WalkInv
  <2>4. Steps(i, p) < Steps(i, r)
    BY <1>1, <1>8, WalkStops
  <2>5. r \in Ring /\ nextOffset[i] \in Ring
    BY SizesAssumption DEF WalkInv
  <2>6. Steps(i, r)' = Steps(i, r) - Steps(i, p) - 1
    BY <1>4, <2>4, <2>5, StepsShrink
  <2>7. PICK s \in Ring, t \in Ring, a \in Nat : s = Steps(i, p) /\ t = Steps(i, r) /\ a = Attempts(i)
    BY <2>5, StepsAre, AttemptsAre
  <2>8. a + 1 + (t - s - 1) < RingSize
    BY <2>3, <2>7, SizesAssumption DEF Ring
  <2> QED
    BY <1>5, <2>6, <2>7, <2>8
<1>9. ASSUME NEW v \in Workers, job'[v] # None
      PROVE  /\ job'[v].tried \cap Reliable \subseteq {job'[v].at}
             /\ job'[v].at \in Ring \ Reliable =>
                  \A r \in Reliable : \A c : c = job'[v].chunk => Attempts(c)' + 1 + Steps(c, r)' < RingSize
  <2>1. CASE v = w
    <3>1. job[w].tried \cap Reliable \subseteq {None}
      BY <1>2 DEF WalkInv
    <3>2. job'[v].tried \cap Reliable \subseteq {job'[v].at}
      BY <1>2, <2>1, <3>1, SizesAssumption, NoneAssumption
    <3>3. ASSUME job'[v].at \in Ring \ Reliable, NEW r \in Reliable
          PROVE  \A c : c = job'[v].chunk => Attempts(c)' + 1 + Steps(c, r)' < RingSize
      BY <1>2, <1>8, <2>1, <3>3
    <3> QED
      BY <3>2, <3>3
  <2>2. CASE v # w
    <3>1. job'[v] = job[v] /\ job[v] # None
      BY <1>2, <1>9, <2>2
    <3>2. PICK c \in Chunk : c = job[v].chunk /\ c # i
      BY <1>7, <2>2, <3>1, JobHas
    <3>3. /\ job[v].tried \cap Reliable \subseteq {job[v].at}
          /\ job[v].at \in Ring \ Reliable => \A r \in Reliable : Attempts(c) + 1 + Steps(c, r) < RingSize
      BY <3>1, <3>2 DEF WalkInv
    <3> QED
      BY <1>5, <1>6, <3>1, <3>2, <3>3
  <2> QED
    BY <2>1, <2>2
<1>10. ASSUME NEW c \in Chunk, NEW r \in Reliable, placed'[c] \notin Reliable, Idle(c)'
       PROVE  Attempts(c)' + Steps(c, r)' < RingSize
  <2>1. c # i
    <3>1. p # None
      BY NoneAssumption
    <3> QED
      BY <1>2, <1>10, <3>1 DEF Idle
  <2>2. Idle(c)
    BY <1>2, <1>7, <1>10, <2>1 DEF Idle
  <2>3. Attempts(c) + Steps(c, r) < RingSize
    BY <1>3, <1>10, <2>2 DEF WalkInv
  <2> QED
    BY <1>5, <1>6, <2>1, <2>3
<1> QED
  BY <1>3, <1>4, <1>9, <1>10 DEF WalkInv

LEMMA PlacementKeepsWalk ==
  ASSUME PlacedInv, WorkInv, WalkInv, NEW w \in Workers, ChunkAccepted(w)
  PROVE  WalkInv'
<1>1. PICK i \in Chunk, p \in Ring :
        /\ job[w] # None /\ i = job[w].chunk /\ p = job[w].at
        /\ placed' = [placed EXCEPT ![i] = p]
        /\ generation' = [generation EXCEPT ![i] = IF job[w].retry THEN @ + 1 ELSE @]
        /\ pending' = IF job[w].retry THEN pending \ {i} ELSE pending
        /\ job'[w] = None
        /\ \A v \in Workers : v # w => job'[v] = job[v]
  BY Accepted
<1>2. nextOffset' = nextOffset
  BY DEF ChunkAccepted
<1>3. p # None /\ \A v \in Workers : job[v] # None /\ job[v].chunk = i => v = w
  BY <1>1, NoneAssumption DEF WorkInv
<1>4. placed'[i] = p /\ \A c \in Chunk : c # i => placed'[c] = placed[c] /\ generation'[c] = generation[c]
  BY <1>1 DEF PlacedInv
<1>5. \A c, r : Steps(c, r)' = Steps(c, r)
  BY <1>2 DEF Steps
<1>6. \A c \in Chunk : c # i => Attempts(c)' = Attempts(c)
  BY <1>4 DEF Attempts
<1>7. Attempts(i)' = Attempts(i) + 1
  <2>1. job[w].retry \in BOOLEAN
    BY <1>1, JobHas
  <2>2. Attempts(i)' = generation'[i] + 1
    BY <1>3, <1>4 DEF Attempts
  <2>3. CASE job[w].retry
    <3>1. Retrying(w, i)
      BY <1>1, <2>3 DEF Retrying
    <3>2. placed[i] # None
      BY <3>1 DEF WorkInv
    <3>3. generation'[i] = generation[i] + 1
      BY <1>1, <2>3 DEF PlacedInv
    <3> QED
      BY <2>2, <3>2, <3>3 DEF Attempts
  <2>4. CASE ~ job[w].retry
    <3>1. placed[i] = None /\ generation[i] = 0
      BY <1>1, <2>4 DEF WorkInv
    <3>2. generation'[i] = generation[i]
      BY <1>1, <2>4 DEF PlacedInv
    <3> QED
      BY <2>2, <3>1, <3>2 DEF Attempts
  <2> QED
    BY <2>1, <2>3, <2>4
<1>8. \A c \in pending' : placed'[c] \notin Reliable
  <2>1. ASSUME NEW c \in pending' PROVE c \in pending /\ c # i
    <3>1. CASE job[w].retry
      BY <1>1, <2>1, <3>1
    <3>2. CASE ~ job[w].retry
      <4>1. placed[i] = None
        BY <1>1, <3>2 DEF WorkInv
      <4>2. i \notin pending
        BY <4>1 DEF WorkInv
      <4> QED
        BY <1>1, <2>1, <3>2, <4>2
    <3> QED
      BY <3>1, <3>2
  <2>2. \A c \in pending : c \in Chunk
    BY DEF WorkInv
  <2> QED
    BY <1>4, <2>1, <2>2 DEF WalkInv
<1>9. ASSUME NEW v \in Workers, job'[v] # None
      PROVE  /\ job'[v].tried \cap Reliable \subseteq {job'[v].at}
             /\ job'[v].at \in Ring \ Reliable =>
                  \A r \in Reliable : \A c : c = job'[v].chunk => Attempts(c)' + 1 + Steps(c, r)' < RingSize
  <2>1. v # w /\ job'[v] = job[v] /\ job[v] # None
    BY <1>1, <1>9
  <2>2. PICK c \in Chunk : c = job[v].chunk /\ c # i
    BY <1>3, <2>1, JobHas
  <2>3. /\ job[v].tried \cap Reliable \subseteq {job[v].at}
        /\ job[v].at \in Ring \ Reliable => \A r \in Reliable : Attempts(c) + 1 + Steps(c, r) < RingSize
    BY <2>1, <2>2 DEF WalkInv
  <2> QED
    BY <1>5, <1>6, <2>1, <2>2, <2>3
<1>10. ASSUME NEW c \in Chunk, NEW r \in Reliable, placed'[c] \notin Reliable, Idle(c)'
       PROVE  Attempts(c)' + Steps(c, r)' < RingSize
  <2>1. CASE c = i
    <3>1. p \in Ring \ Reliable
      BY <1>4, <1>10, <2>1
    <3>2. Attempts(i) + 1 + Steps(i, r) < RingSize
      BY <1>1, <3>1 DEF WalkInv
    <3> QED
      BY <1>5, <1>7, <2>1, <3>2
  <2>2. CASE c # i
    <3>1. Idle(c)
      BY <1>1, <1>10, <2>2 DEF Idle
    <3>2. Attempts(c) + Steps(c, r) < RingSize
      BY <1>4, <1>10, <2>2, <3>1 DEF WalkInv
    <3> QED
      BY <1>5, <1>6, <2>2, <3>2
  <2> QED
    BY <2>1, <2>2
<1> QED
  BY <1>2, <1>8, <1>9, <1>10 DEF WalkInv

LEMMA RefusalKeepsWalk ==
  ASSUME PlacedInv, WorkInv, WalkInv, NEW w \in Workers, ChunkRefused(w)
  PROVE  WalkInv'
<1>1. PICK i \in Chunk, p \in Ring \ Reliable : i = job[w].chunk /\ p = job[w].at
  BY JobHas, Refused
<1>2. /\ job[w] # None /\ job'[w] # None /\ job'[w].chunk = i
      /\ job'[w].tried = job[w].tried /\ job'[w].at = None
      /\ \A v \in Workers : v # w => job'[v] = job[v]
  BY <1>1, Refused
<1>3. UNCHANGED <<nextOffset, placed, generation, pending>>
  BY DEF ChunkRefused
<1>4. \A c, r : Attempts(c)' = Attempts(c) /\ Steps(c, r)' = Steps(c, r)
  BY <1>3 DEF Attempts, Steps
<1>5. ASSUME NEW v \in Workers, job'[v] # None
      PROVE  /\ job'[v].tried \cap Reliable \subseteq {job'[v].at}
             /\ job'[v].at \in Ring \ Reliable =>
                  \A r \in Reliable : \A c : c = job'[v].chunk => Attempts(c)' + 1 + Steps(c, r)' < RingSize
  <2>1. CASE v = w
    <3>1. job[w].tried \cap Reliable \subseteq {p}
      BY <1>1, <1>2 DEF WalkInv
    <3> QED
      BY <1>2, <2>1, <3>1, NoneAssumption
  <2>2. CASE v # w
    BY <1>2, <1>4, <1>5, <2>2 DEF WalkInv
  <2> QED
    BY <2>1, <2>2
<1>6. ASSUME NEW c \in Chunk, NEW r \in Reliable, placed'[c] \notin Reliable, Idle(c)'
      PROVE  Attempts(c)' + Steps(c, r)' < RingSize
  <2>1. CASE c = i
    <3>1. Attempts(i) + 1 + Steps(i, r) < RingSize
      BY <1>1, <1>2 DEF WalkInv
    <3> QED
      BY <1>4, <2>1, <3>1, AttemptsAre, SizesAssumption
  <2>2. CASE c # i
    <3>1. Idle(c)
      BY <1>1, <1>2, <1>6, <2>2 DEF Idle
    <3> QED
      BY <1>3, <1>4, <1>6, <3>1 DEF WalkInv
  <2> QED
    BY <2>1, <2>2
<1> QED
  BY <1>3, <1>5, <1>6 DEF WalkInv

(* Only a placement on an unreliable relay is ever reported missing. *)
LEMMA UsableIsFair ==
  ASSUME TalkInv, PlacedInv, WorkInv, FairInv,
         NEW k \in DOMAIN toSender, toSender[k].type = "ack"
  PROVE  \A m \in Usable(toSender[k].missing) : m.chunk \in Chunk /\ placed[m.chunk] \notin Reliable
<1>1. PICK say \in FairSays : say = toSender[k]
  BY LenProperties DEF FairInv
<1>2. \A m \in toSender[k].missing : m.place.at \notin Reliable
  BY <1>1 DEF FairSays
<1> QED
  BY <1>2, UsableIsChargeable

LEMMA AckKeepsWalk ==
  ASSUME IInv, AccountInv, WorkInv, FairInv, WalkInv, NEW k \in DOMAIN toSender, TakeAck(k)
  PROVE  WalkInv'
<1>1. PICK ms : ms = Usable(toSender[k].missing)
  OBVIOUS
<1>2. /\ UNCHANGED <<nextOffset, placed, generation, job>>
      /\ pending' = pending \cup ChunksOf(ms)
  BY <1>1, AckCharges DEF IInv
<1>3. \A m \in ms : placed[m.chunk] \notin Reliable
  BY <1>1, UsableIsFair DEF IInv, TakeAck
<1>4. \A i \in pending' : placed'[i] \notin Reliable
  BY <1>2, <1>3 DEF WalkInv, ChunksOf
<1>5. \A c, r : Attempts(c)' = Attempts(c) /\ Steps(c, r)' = Steps(c, r)
  BY <1>2 DEF Attempts, Steps
<1>6. \A c : Idle(c)' <=> Idle(c)
  BY <1>2 DEF Idle
<1>7. ASSUME NEW v \in Workers, job'[v] # None
      PROVE  /\ job'[v].tried \cap Reliable \subseteq {job'[v].at}
             /\ job'[v].at \in Ring \ Reliable =>
                  \A r \in Reliable : \A c : c = job'[v].chunk => Attempts(c)' + 1 + Steps(c, r)' < RingSize
  BY <1>2, <1>5, <1>7 DEF WalkInv
<1> QED
  BY <1>2, <1>4, <1>5, <1>6, <1>7 DEF WalkInv

LEMMA WalkStays ==
  ASSUME WalkInv, UNCHANGED <<nextOffset, placed, generation, pending, job>>
  PROVE  WalkInv'
BY DEF WalkInv, Attempts, Steps, Idle

LEMMA WalkInit ==
  ASSUME Init
  PROVE  WalkInv
<1>1. /\ nextOffset = [i \in Chunk |-> 0] /\ placed = [i \in Chunk |-> None]
      /\ pending = {} /\ job = [w \in Workers |-> None]
  BY DEF Init
<1>2. nextOffset \in [Chunk -> Ring]
  BY <1>1, SizesAssumption DEF Ring
<1>3. ASSUME NEW i \in Chunk, NEW r \in Reliable PROVE Attempts(i) + Steps(i, r) < RingSize
  <2>1. Attempts(i) = 0
    BY <1>1 DEF Attempts
  <2>2. PICK s \in Ring : s = Steps(i, r)
    BY <1>2, SizesAssumption, StepsAre
  <2> QED
    BY <2>1, <2>2, SizesAssumption DEF Ring
<1> QED
  BY <1>1, <1>2, <1>3 DEF WalkInv

LEMMA WalkStep ==
  ASSUME IInv, AccountInv, WorkInv, FairInv, ReliableNeverBlamed, WalkInv, [Next]_vars
  PROVE  WalkInv'
<1>1. CASE UNCHANGED uploadVars \/ RingResolves
  BY <1>1, WalkStays DEF uploadVars, RingResolves
<1> QED
  BY <1>1, UploadSteps, TakeKeepsWalk, TryKeepsWalk, PlacementKeepsWalk, RefusalKeepsWalk,
     AckKeepsWalk DEF IInv

(* A walk that has tried the whole ring has tried a reliable relay. *)
LEMMA AlwaysPlaceable ==
  ASSUME WalkInv, Reliable # {}, NEW w \in Workers, NEW l, Unplaceable(w, l)
  PROVE  FALSE
<1>1. job[w] # None /\ job[w].at = None /\ job[w].tried = Ring
  BY DEF Unplaceable
<1>2. Ring \cap Reliable \subseteq {None}
  BY <1>1 DEF WalkInv
<1> QED
  BY <1>2, SizesAssumption, NoneAssumption

(* A chunk reported missing is one on an unreliable relay, and in no worker's
   hands: its walk has a reliable relay still to reach. *)
LEMMA NeverTheLastStraw ==
  ASSUME IInv, WorkInv, FairInv, WalkInv, Reliable # {},
         NEW k \in DOMAIN toSender, NEW l, TakeLastStraw(k, l)
  PROVE  FALSE
<1>1. PICK m \in Usable(toSender[k].missing) : Exhausted(m)
  BY DEF TakeLastStraw
<1>2. PICK i \in Chunk : i = m.chunk /\ i \notin pending /\ placed[i] # None /\ placed[i] \notin Reliable
  BY <1>1, UsableIsFair, UsableIsChargeable, NoneAssumption DEF IInv, TakeLastStraw
<1>3. ASSUME NEW w \in Workers, job[w] # None, job[w].chunk = i PROVE FALSE
  <2>1. CASE job[w].retry
    BY <1>2, <1>3, <2>1 DEF WorkInv, Retrying
  <2>2. CASE ~ job[w].retry
    BY <1>2, <1>3, <2>2 DEF WorkInv
  <2> QED
    BY <2>1, <2>2
<1>4. Idle(i)
  BY <1>3 DEF Idle
<1>5. PICK r \in Reliable : TRUE
  OBVIOUS
<1>6. Attempts(i) + Steps(i, r) < RingSize
  BY <1>2, <1>4, <1>5 DEF WalkInv
<1>7. PICK g \in Nat, s \in Nat : g = generation[i] /\ s = Steps(i, r)
  BY <1>5, AttemptsAre DEF IInv, PlacedInv
<1>8. g + 1 + s < RingSize
  BY <1>2, <1>6, <1>7 DEF Attempts
<1>9. g >= RingSize
  BY <1>1, <1>2, <1>7, SizesAssumption DEF Exhausted, MaxRetransmits
<1> QED
  BY <1>7, <1>8, <1>9, SizesAssumption

(* Who ends the sender's run, and how. *)
LEMMA Outcomes ==
  ASSUME [Next]_vars
  PROVE  \/ UNCHANGED <<outcome, ringReady>>
         \/ RingResolves
         \/ \E l \in BOOLEAN : NoRing(l)
         \/ \E w \in Workers, l \in BOOLEAN : Unplaceable(w, l)
         \/ \E k \in DOMAIN toSender, l \in BOOLEAN : TakeLastStraw(k, l)
         \/ outcome' \in {"unreachable", "quiet", "sent", "cancelled"}
<1>1. \A l : AnnounceRefused(l) \/ SenderGivesUp(l) => outcome' \in {"unreachable", "quiet"}
  BY DEF AnnounceRefused, SenderGivesUp, End
<1>2. \A k, l : TakeReceiverCancel(k, l) => outcome' = "cancelled"
  BY DEF TakeReceiverCancel, End
<1>3. \A k : TakeDone(k) => outcome' = "sent"
  BY DEF TakeDone
<1>4. \A l : Announce(l) \/ SendAck(l) \/ AckRefused(l) \/ ReceiverGivesUp(l) \/ ReportDone(l)
               => UNCHANGED <<outcome, ringReady>>
  BY DEF Announce, SendAck, AckRefused, ReceiverGivesUp, ReportDone, Fail, senderVars, uploadVars
<1>5. \A w, p : TakeWork(w) \/ TryRelay(w, p) \/ ChunkAccepted(w) \/ ChunkRefused(w)
                  => UNCHANGED <<outcome, ringReady>>
  BY DEF TakeWork, TryRelay, ChunkAccepted, ChunkRefused
<1>6. \A k : TakeAck(k) \/ TakeHello(k) \/ TakeManifest(k) \/ RefuseEarly(k) \/ TakeAvail(k)
               \/ TakeSenderCancel(k) \/ Fetch(k) => UNCHANGED <<outcome, ringReady>>
  BY DEF TakeAck, TakeHello, TakeManifest, RefuseEarly, TakeAvail, TakeSenderCancel, Fetch,
         senderVars, uploadVars
<1>7. RetryClock \/ UNCHANGED vars => UNCHANGED <<outcome, ringReady>>
  BY DEF RetryClock, vars, senderVars, uploadVars
<1> QED
  BY <1>1, <1>2, <1>3, <1>4, <1>5, <1>6, <1>7 DEF Next

LEMMA DeliverableStep ==
  ASSUME IInv, WorkInv, FairInv, WalkInv, AlwaysDeliverable, [Next]_vars
  PROVE  AlwaysDeliverable'
<1> SUFFICES ASSUME Reliable # {}
             PROVE  /\ outcome' # "undeliverable"
                    /\ outcome' = "unplaced" => ControlFaults /\ ~ ringReady'
  BY DEF AlwaysDeliverable
<1>1. outcome # "undeliverable" /\ (outcome = "unplaced" => ControlFaults /\ ~ ringReady)
  BY DEF AlwaysDeliverable
<1>2. RingResolves => outcome' = "active"
  BY DEF RingResolves
<1>3. \A l : NoRing(l) => outcome' = "unplaced" /\ ControlFaults /\ ~ ringReady'
  BY DEF NoRing, End, uploadVars
<1> QED
  BY <1>1, <1>2, <1>3, AlwaysPlaceable, NeverTheLastStraw, Outcomes

(* With one reliable relay in the ring, the sender never gives up for want of
   a relay that takes a chunk, nor for having re-sent one too often (place,
   handle_ack): only a ring that never resolves is the end of it. *)
THEOREM Deliverable == Spec => []AlwaysDeliverable
<1>1. Init => WalkInv /\ AlwaysDeliverable
  BY WalkInit DEF Init, AlwaysDeliverable
<1>2. IInv /\ BlameInv /\ WalkInv /\ AlwaysDeliverable /\ [Next]_vars
        => WalkInv' /\ AlwaysDeliverable'
  BY WalkStep, DeliverableStep DEF BlameInv, ResendInv
<1> QED
  BY <1>1, <1>2, Invariance, NoBlame, PTL DEF Spec
=============================================================================
