------------------------- MODULE FileTransfer_proofs -------------------------
(***************************************************************************)
(* Theorems about FileTransfer, for payloads, watermarks and index ranges  *)
(* of any size, and for transports that lose and reorder messages.         *)
(***************************************************************************)
EXTENDS FileTransfer, SequenceTheorems, TLAPS

(* What the sender says: chunks that carry the number of what they contain,
   and a DONE that counts the payload. *)
Content ==
  {m \in Message :
     \/ m.type = "chunk" /\ m.index = m.body
     \/ m.type = "done" /\ m.count = total}

(* What the receiver says: ACK, once the file is in place. *)
Acks == {m \in Message : m.type = "ack" /\ saved # None}

InCall == {"ticketed", "unclosed", "blocked", "parked", "handed", "abandoned"}

(* What is on its way from end x is in S, and a call has a message. *)
Wire(x, S) ==
  /\ buffer[x] \in Seq(S)
  /\ inbox[Peer(x)] \in Seq(S)
  /\ message[x] \in S \cup {None}
  /\ call[x] \in InCall => message[x] # None

(* Whatever is on its way was said by the end it comes from. *)
WireInv == Wire("sender", Content) /\ Wire("receiver", Acks)

(* How far the sender is. *)
SentInv ==
  /\ sent <= total
  /\ pc["sender"] = "sending" => sent < total /\ sent < MaxChunks
  /\ pc["sender"] = "ok" => saved # None

(* The partial file is a prefix of the payload, and all of it once it is sealed;
   the file in place is the payload. *)
FileInv ==
  /\ part # None => part = Payload(Len(part))
  /\ saved # None => saved = Payload(total)
  /\ pc["receiver"] = "receiving" => part # None /\ saved = None
  /\ pc["receiver"] = "persisting" => part # None /\ Len(part) = total /\ saved = None
  /\ pc["receiver"] \in {"acking", "ok"} => saved # None

IInv == TypeOK /\ WireInv /\ SentInv /\ FileInv

-----------------------------------------------------------------------------
(* What is left of a sequence without one of its elements. *)
LEMMA RemoveAtType ==
  ASSUME NEW S, NEW q \in Seq(S), NEW k \in DOMAIN q
  PROVE  /\ RemoveAt(q, k) \in Seq(S)
         /\ Len(RemoveAt(q, k)) = Len(q) - 1
         /\ q[k] \in S
<1>1. k \in 1 .. Len(q)
  OBVIOUS
<1>2. SubSeq(q, 1, k - 1) \in Seq(S) /\ SubSeq(q, k + 1, Len(q)) \in Seq(S)
  BY <1>1, SubSeqProperties
<1> QED
  BY <1>1, <1>2, ConcatProperties DEF RemoveAt

(* The payload is a sequence, and grows by its next chunk. *)
LEMMA PayloadGrows ==
  ASSUME NEW n \in Nat
  PROVE  /\ Payload(n) \in Seq(Nat)
         /\ Len(Payload(n)) = n
         /\ Append(Payload(n), n) = Payload(n + 1)
<1>1. Payload(n) \in [1 .. n -> Nat]
  BY DEF Payload
<1>2. Payload(n) \in Seq(Nat) /\ Len(Payload(n)) = n
  BY <1>1, SeqDef, LenProperties
<1>3. /\ Append(Payload(n), n) \in Seq(Nat)
      /\ Len(Append(Payload(n), n)) = n + 1
      /\ \A i \in 1 .. n + 1 : Append(Payload(n), n)[i] = i - 1
  BY <1>2, AppendProperties DEF Payload
<1>4. Payload(n + 1) \in Seq(Nat) /\ Len(Payload(n + 1)) = n + 1
  <2>1. Payload(n + 1) \in [1 .. n + 1 -> Nat]
    BY DEF Payload
  <2> QED
    BY <2>1, SeqDef, LenProperties
<1>5. \A i \in 1 .. n + 1 : Payload(n + 1)[i] = i - 1
  BY DEF Payload
<1> QED
  BY <1>2, <1>3, <1>4, <1>5, SeqEqual

(* The events a change of the buffer raises. *)
LEMMA RaiseType ==
  ASSUME NEW q \in Seq({"high", "low", "close"}), NEW a, NEW b
  PROVE  Raise(q, a, b) \in Seq({"high", "low", "close"})
  BY DEF Raise

-----------------------------------------------------------------------------
(* A step of the worker or the network at end z. *)
WorkerStep(z) == ChannelNext(z) \/ StopWorker(z)

LEMMA WorkerType ==
  ASSUME ChannelTypeOK(Message), NEW z \in Side, WorkerStep(z),
         call[z] \in InCall => message[z] # None
  PROVE  ChannelTypeOK(Message)'
<1> DEFINE Ev == {"high", "low", "close"}
<1> USE DEF ChannelTypeOK
<1>0. Peer(z) \in Side
  BY DEF Side, Peer
<1>1. CASE PollEvent(z)
  <2>1. Tail(events[z]) \in Seq(Ev)
    BY <1>1 DEF PollEvent
  <2> QED
    BY <1>1, <2>1 DEF PollEvent, Handle
<1>2. CASE HandOver(z)
  <2>1. message[z] \in Message
    BY <1>2 DEF HandOver, TakesCommand, Queued, InCall
  <2>2. Append(buffer[z], message[z]) \in Seq(Message)
    BY <2>1, AppendProperties
  <2>3. Raise(events[z], Len(buffer[z]), Len(buffer[z]) + 1) \in Seq(Ev)
    BY RaiseType
  <2>4. buffer' \in [Side -> Seq(Message)] /\ events' \in [Side -> Seq(Ev)]
    BY <1>2, <2>2, <2>3, Zenon DEF HandOver
  <2> QED
    BY <1>2, <2>4 DEF HandOver, Answered, CallState
<1>3. CASE Refuse(z)
  BY <1>3 DEF Refuse, Answered, CallState
<1>4. ASSUME NEW k \in DOMAIN buffer[z], Leaves(z, k)
      PROVE  buffer' \in [Side -> Seq(Message)] /\ events' \in [Side -> Seq(Ev)]
  <2>1. RemoveAt(buffer[z], k) \in Seq(Message)
    BY RemoveAtType
  <2>2. Raise(events[z], Len(buffer[z]), Len(buffer[z]) - 1) \in Seq(Ev)
    BY RaiseType
  <2> QED
    BY <1>4, <2>1, <2>2, Zenon DEF Leaves
<1>5. ASSUME NEW k \in DOMAIN buffer[z], Transmit(z, k) PROVE ChannelTypeOK(Message)'
  <2>1. buffer[z][k] \in Message
    BY RemoveAtType
  <2>2. Append(inbox[Peer(z)], buffer[z][k]) \in Seq(Message)
    BY <1>0, <2>1, AppendProperties
  <2>3. inbox' \in [Side -> Seq(Message)]
    BY <1>0, <1>5, <2>2, Zenon DEF Transmit
  <2> QED
    BY <1>4, <1>5, <2>3 DEF Transmit
<1>6. ASSUME NEW k \in DOMAIN buffer[z], Lose(z, k) PROVE ChannelTypeOK(Message)'
  BY <1>4, <1>6 DEF Lose
<1>7. CASE ChannelCloses(z)
  BY <1>7 DEF ChannelCloses
<1>8. CASE StopWorker(z)
  BY <1>8 DEF StopWorker, Answered, CallState
<1> QED
  BY <1>1, <1>2, <1>3, <1>5, <1>6, <1>7, <1>8 DEF WorkerStep, ChannelNext, WorkerFails

LEMMA WorkerWire ==
  ASSUME ChannelTypeOK(Message), NEW z \in Side, WorkerStep(z),
         NEW x \in Side, NEW S, Wire(x, S)
  PROVE  Wire(x, S)'
<1> USE DEF Wire, ChannelTypeOK
<1>0. Peer(z) \in Side /\ Peer(x) \in Side /\ (Peer(x) = Peer(z) => x = z)
  BY DEF Side, Peer
<1>1. CASE PollEvent(z)
  BY <1>1 DEF PollEvent
<1>2. ASSUME NEW result \in {"ok", "error"}, Answered(z, result)
      PROVE  /\ message'[x] \in S \cup {None}
             /\ call'[x] \in InCall => message'[x] # None
  BY <1>2 DEF Answered, InCall
<1>3. CASE HandOver(z)
  <2>1. CASE x = z
    <3>1. message[x] \in S
      BY <1>3, <2>1 DEF HandOver, TakesCommand, Queued, InCall
    <3>2. Append(buffer[x], message[x]) \in Seq(S)
      BY <3>1, AppendProperties
    <3>3. buffer'[x] \in Seq(S)
      BY <1>3, <2>1, <3>2, Zenon DEF HandOver
    <3> QED
      BY <1>2, <1>3, <3>3 DEF HandOver
  <2>2. CASE x # z
    <3>1. buffer'[x] = buffer[x]
      BY <1>3, <2>2 DEF HandOver
    <3> QED
      BY <1>2, <1>3, <3>1 DEF HandOver
  <2> QED
    BY <2>1, <2>2
<1>4. CASE Refuse(z)
  BY <1>2, <1>4 DEF Refuse
<1>5. ASSUME NEW k \in DOMAIN buffer[z], Leaves(z, k) PROVE buffer'[x] \in Seq(S)
  <2>1. CASE x = z
    <3>1. RemoveAt(buffer[x], k) \in Seq(S)
      BY <2>1, RemoveAtType
    <3> QED
      BY <1>5, <2>1, <3>1, Zenon DEF Leaves
  <2>2. CASE x # z
    BY <1>5, <2>2 DEF Leaves
  <2> QED
    BY <2>1, <2>2
<1>6. ASSUME NEW k \in DOMAIN buffer[z], Transmit(z, k) PROVE Wire(x, S)'
  <2>1. CASE x = z
    <3>1. buffer[x][k] \in S
      BY <2>1, RemoveAtType
    <3>2. Append(inbox[Peer(x)], buffer[x][k]) \in Seq(S)
      BY <3>1, AppendProperties
    <3>3. inbox'[Peer(x)] \in Seq(S)
      BY <1>0, <1>6, <2>1, <3>2, Zenon DEF Transmit
    <3> QED
      BY <1>5, <1>6, <3>3 DEF Transmit
  <2>2. CASE x # z
    <3>1. inbox'[Peer(x)] = inbox[Peer(x)]
      BY <1>0, <1>6, <2>2 DEF Transmit
    <3> QED
      BY <1>5, <1>6, <3>1 DEF Transmit
  <2> QED
    BY <2>1, <2>2
<1>7. ASSUME NEW k \in DOMAIN buffer[z], Lose(z, k) PROVE Wire(x, S)'
  BY <1>5, <1>7 DEF Lose
<1>8. CASE ChannelCloses(z)
  <2>1. buffer'[x] = buffer[x] \/ buffer'[x] = <<>>
    BY <1>8 DEF ChannelCloses
  <2> QED
    BY <1>8, <2>1 DEF ChannelCloses
<1>9. CASE StopWorker(z)
  BY <1>2, <1>9 DEF StopWorker
<1> QED
  BY <1>1, <1>3, <1>4, <1>6, <1>7, <1>8, <1>9 DEF WorkerStep, ChannelNext, WorkerFails

-----------------------------------------------------------------------------
(* A step of the task at end z that touches the channel; it says what is in M. *)
TaskStep(z, M) ==
  \/ \E m \in M : Send(z, m)
  \/ SendNext(z) \/ Abandon(z)
  \/ \E result \in {"ok", "error"} : Returns(z, result)
  \/ Takes(z)

LEMMA TaskType ==
  ASSUME ChannelTypeOK(Message), NEW z \in Side, NEW M \in SUBSET Message, TaskStep(z, M)
  PROVE  ChannelTypeOK(Message)'
<1> USE DEF ChannelTypeOK, CallState
<1>1. ASSUME NEW m \in M, Send(z, m) PROVE ChannelTypeOK(Message)'
  BY <1>1 DEF Send, TakeTicket
<1>2. CASE SendNext(z)
  BY <1>2 DEF SendNext, SeeClosed, SeeOpen, SeeAllowed, SeeBlocked, Await, Wake, CallStep, TakeTicket
<1>3. CASE Abandon(z)
  BY <1>3 DEF Abandon
<1>4. ASSUME NEW result \in {"ok", "error"}, Returns(z, result) PROVE ChannelTypeOK(Message)'
  BY <1>4 DEF Returns
<1>5. CASE Takes(z)
  <2>1. Tail(inbox[z]) \in Seq(Message)
    BY <1>5 DEF Takes
  <2> QED
    BY <1>5, <2>1 DEF Takes
<1> QED
  BY <1>1, <1>2, <1>3, <1>4, <1>5 DEF TaskStep

LEMMA TaskWire ==
  ASSUME ChannelTypeOK(Message), NEW z \in Side, NEW M \in SUBSET Message, TaskStep(z, M),
         NEW x \in Side, NEW S, Wire(x, S), x = z => M \subseteq S
  PROVE  Wire(x, S)'
<1> USE DEF Wire, ChannelTypeOK
<1>0. Peer(x) \in Side
  BY DEF Side, Peer
<1>1. ASSUME NEW m \in M, Send(z, m) PROVE Wire(x, S)'
  BY <1>1, NoneAssumption DEF Send, InCall
<1>2. CASE SendNext(z)
  BY <1>2 DEF SendNext, SeeClosed, SeeOpen, SeeAllowed, SeeBlocked, Await, Wake, CallStep, InCall
<1>3. CASE Abandon(z)
  BY <1>3 DEF Abandon, InCall
<1>4. ASSUME NEW result \in {"ok", "error"}, Returns(z, result) PROVE Wire(x, S)'
  BY <1>4 DEF Returns, InCall
<1>5. CASE Takes(z)
  <2>1. CASE z = Peer(x)
    <3>1. Tail(inbox[Peer(x)]) \in Seq(S)
      BY <1>5, <2>1, HeadTailProperties DEF Takes
    <3> QED
      BY <1>5, <2>1, <3>1 DEF Takes
  <2>2. CASE z # Peer(x)
    BY <1>0, <1>5, <2>2 DEF Takes
  <2> QED
    BY <2>1, <2>2
<1> QED
  BY <1>1, <1>2, <1>3, <1>4, <1>5 DEF TaskStep

(* A side that may say more. *)
LEMMA WireGrows ==
  ASSUME NEW x, NEW S, NEW T, S \subseteq T, Wire(x, S)
  PROVE  Wire(x, T)
<1>1. \A q \in Seq(S) : q \in Seq(T)
  OBVIOUS
<1> QED
  BY <1>1 DEF Wire

-----------------------------------------------------------------------------
(* A step of the channel, by either end, when what a task says is true. *)
LEMMA ChannelStep ==
  ASSUME IInv, NEW z \in Side, NEW M \in SUBSET Message,
         WorkerStep(z) \/ TaskStep(z, M),
         total' = total, saved # None => saved' # None,
         z = "sender" => M \subseteq Content,
         z = "receiver" => M \subseteq Acks'
  PROVE  ChannelTypeOK(Message)' /\ WireInv'
<1> USE DEF IInv
<1>1. "sender" \in Side /\ "receiver" \in Side /\ ChannelTypeOK(Message)
  BY DEF Side, TypeOK
<1>2. PICK C, A : C = Content /\ A = Acks'
  OBVIOUS
<1>3. C = Content' /\ Acks \subseteq A
  BY <1>2 DEF Content, Acks
<1>4. Wire("sender", C) /\ Wire("receiver", A)
  BY <1>2, <1>3, WireGrows DEF WireInv
<1>5. CASE WorkerStep(z)
  <2>1. call[z] \in InCall => message[z] # None
    BY <1>4 DEF Side, Wire
  <2>2. ChannelTypeOK(Message)'
    BY <1>1, <1>5, <2>1, WorkerType
  <2>3. Wire("sender", C)' /\ Wire("receiver", A)'
    BY <1>1, <1>4, <1>5, WorkerWire
  <2> QED
    BY <1>2, <1>3, <2>2, <2>3 DEF WireInv, Wire
<1>6. CASE TaskStep(z, M)
  <2>1. ChannelTypeOK(Message)'
    BY <1>1, <1>6, TaskType
  <2>2. Wire("sender", C)'
    BY <1>1, <1>2, <1>4, <1>6, TaskWire
  <2>3. Wire("receiver", A)'
    BY <1>1, <1>2, <1>4, <1>6, TaskWire
  <2> QED
    BY <1>2, <1>3, <2>1, <2>2, <2>3 DEF WireInv, Wire
<1> QED
  BY <1>5, <1>6

(* A step that leaves the channel alone. *)
LEMMA ChannelRests ==
  ASSUME IInv, UNCHANGED <<channelVars, total, saved>>
  PROVE  ChannelTypeOK(Message)' /\ WireInv'
  BY DEF IInv, TypeOK, ChannelTypeOK, channelVars, WireInv, Wire, Content, Acks

-----------------------------------------------------------------------------
(* The part of IInv that is about the two tasks. *)
TasksInv ==
  /\ total \in 0 .. MaxTotal
  /\ pc \in [Side -> SenderPC \cup ReceiverPC]
  /\ pc["sender"] \in SenderPC /\ pc["receiver"] \in ReceiverPC
  /\ sent \in 0 .. MaxChunks
  /\ part \in Seq(0 .. MaxTotal - 1) \cup {None}
  /\ saved \in Seq(0 .. MaxTotal - 1) \cup {None}
  /\ SentInv /\ FileInv

LEMMA IInvParts ==
  /\ IInv => ChannelTypeOK(Message) /\ WireInv /\ TasksInv
  /\ (ChannelTypeOK(Message) /\ WireInv /\ TasksInv)' => IInv'
  BY DEF IInv, TypeOK, TasksInv

(* What a task reads was said by the other one. *)
LEMMA Heard ==
  ASSUME IInv
  PROVE  /\ inbox["receiver"] # <<>> => Head(inbox["receiver"]) \in Content
         /\ inbox["sender"] # <<>> => Head(inbox["sender"]) \in Acks
<1>1. inbox["receiver"] \in Seq(Content) /\ inbox["sender"] \in Seq(Acks)
  BY DEF IInv, WireInv, Wire, Peer
<1> QED
  BY <1>1, HeadTailProperties

LEMMA SenderSteps ==
  ASSUME IInv,
         ReadChunk \/ ChunkSent \/ ReadEnd \/ DoneSent \/ SourceFails \/ SendStalls \/ TakeAck \/ NoAck
  PROVE  IInv'
<1> USE FileAssumption
<1>0. "sender" \in Side /\ TasksInv /\ ChannelTypeOK(Message) /\ WireInv
  BY IInvParts DEF Side
<1> USE DEF TasksInv, SentInv, FileInv, SenderPC, Ended, Goto
<1>1. CASE ReadChunk
  <2>1. PICK m : m = [type |-> "chunk", index |-> sent % MaxChunks, body |-> sent]
    OBVIOUS
  <2>2. sent % MaxChunks = sent /\ sent \in 0 .. MaxChunks - 1 /\ sent \in 0 .. MaxTotal - 1
    BY <1>0, <1>1 DEF ReadChunk, WithinRange
  <2>3. m \in Content
    BY <2>1, <2>2 DEF Content, Message
  <2>4. {m} \in SUBSET Message /\ {m} \subseteq Content
    BY <2>3 DEF Content
  <2>5. TaskStep("sender", {m})
    BY <1>1, <2>1 DEF ReadChunk, TaskStep
  <2>6. ChannelTypeOK(Message)' /\ WireInv'
    BY <1>0, <1>1, <2>4, <2>5, ChannelStep DEF ReadChunk
  <2>7. TasksInv'
    BY <1>0, <1>1 DEF ReadChunk, WithinRange
  <2> QED
    BY <2>6, <2>7, IInvParts
<1>2. CASE ChunkSent
  <2>1. TaskStep("sender", {})
    BY <1>2 DEF ChunkSent, TaskStep
  <2>2. ChannelTypeOK(Message)' /\ WireInv'
    BY <1>0, <1>2, <2>1, ChannelStep DEF ChunkSent
  <2>3. TasksInv'
    BY <1>0, <1>2 DEF ChunkSent
  <2> QED
    BY <2>2, <2>3, IInvParts
<1>3. CASE ReadEnd
  <2>1. PICK m : m = [type |-> "done", count |-> sent]
    OBVIOUS
  <2>2. m \in Content
    BY <1>0, <1>3, <2>1 DEF ReadEnd, Content, Message
  <2>3. {m} \in SUBSET Message /\ {m} \subseteq Content
    BY <2>2 DEF Content
  <2>4. TaskStep("sender", {m})
    BY <1>3, <2>1 DEF ReadEnd, TaskStep
  <2>5. ChannelTypeOK(Message)' /\ WireInv'
    BY <1>0, <1>3, <2>3, <2>4, ChannelStep DEF ReadEnd
  <2>6. TasksInv'
    BY <1>0, <1>3 DEF ReadEnd
  <2> QED
    BY <2>5, <2>6, IInvParts
<1>4. CASE DoneSent \/ SendStalls
  <2>1. TaskStep("sender", {})
    BY <1>4 DEF DoneSent, SendStalls, TaskStep
  <2>2. ChannelTypeOK(Message)' /\ WireInv'
    BY <1>0, <1>4, <2>1, ChannelStep DEF DoneSent, SendStalls
  <2>3. TasksInv'
    <3>1. CASE DoneSent
      BY <1>0, <3>1 DEF DoneSent
    <3>2. CASE SendStalls
      BY <1>0, <3>2 DEF SendStalls
    <3> QED
      BY <1>4, <3>1, <3>2
  <2> QED
    BY <2>2, <2>3, IInvParts
<1>5. CASE SourceFails \/ NoAck
  <2>1. ChannelTypeOK(Message)' /\ WireInv'
    BY <1>5, ChannelRests DEF SourceFails, NoAck
  <2>2. TasksInv'
    <3>1. CASE SourceFails
      BY <1>0, <3>1 DEF SourceFails
    <3>2. CASE NoAck
      BY <1>0, <3>2 DEF NoAck
    <3> QED
      BY <1>5, <3>1, <3>2
  <2> QED
    BY <2>1, <2>2, IInvParts
<1>6. CASE TakeAck
  <2>1. TaskStep("sender", {})
    BY <1>6 DEF TakeAck, TaskStep
  <2>2. ChannelTypeOK(Message)' /\ WireInv'
    BY <1>0, <1>6, <2>1, ChannelStep DEF TakeAck
  <2>3. saved # None \/ Head(inbox["sender"]).type # "ack"
    BY <1>6, Heard DEF TakeAck, Takes, Acks
  <2>4. TasksInv'
    BY <1>0, <1>6, <2>3 DEF TakeAck
  <2> QED
    BY <2>2, <2>4, IInvParts
<1> QED
  BY <1>1, <1>2, <1>3, <1>4, <1>5, <1>6

LEMMA ReceiverSteps ==
  ASSUME IInv,
         TakeChunk \/ TakeDone \/ RejectMessage \/ NoMessage \/ NoFile \/ Persist \/ PersistFails \/ AckSent
  PROVE  IInv'
<1> USE FileAssumption
<1>0. "receiver" \in Side /\ TasksInv /\ ChannelTypeOK(Message) /\ WireInv
  BY IInvParts DEF Side
<1> USE DEF TasksInv, SentInv, FileInv, ReceiverPC, Ended, Goto
<1>1. CASE TakeChunk
  <2>1. TaskStep("receiver", {})
    BY <1>1 DEF TakeChunk, TaskStep
  <2>2. ChannelTypeOK(Message)' /\ WireInv'
    BY <1>0, <1>1, <2>1, ChannelStep DEF TakeChunk
  <2>3. PICK n, b : n = Len(part) /\ b = Head(inbox["receiver"]).body
    OBVIOUS
  <2>4. /\ part \in Seq(0 .. MaxTotal - 1) /\ part = Payload(n) /\ n \in Nat
        /\ part' = Append(part, b)
    BY <1>0, <1>1, <2>3 DEF TakeChunk
  <2>5. b = n /\ b \in 0 .. MaxTotal - 1
    BY <1>1, <2>3, Heard DEF TakeChunk, Takes, NextChunk, Content, Message
  <2>6. part' = Payload(n + 1) /\ Len(part') = n + 1
    <3>1. n + 1 \in Nat
      BY <2>4
    <3>2. Append(Payload(n), n) = Payload(n + 1)
      BY <2>4, PayloadGrows, Zenon
    <3>3. Len(Payload(n + 1)) = n + 1
      BY <3>1, PayloadGrows, Zenon
    <3> QED
      BY <2>4, <2>5, <3>2, <3>3, Zenon
  <2>7. part' \in Seq(0 .. MaxTotal - 1)
    BY <2>4, <2>5, AppendProperties
  <2>8. part' # None
    BY <2>7, NoneAssumption
  <2>9. TasksInv'
    BY <1>0, <1>1, <2>6, <2>7, <2>8 DEF TakeChunk
  <2> QED
    BY <2>2, <2>9, IInvParts
<1>2. CASE TakeDone
  <2>1. TaskStep("receiver", {})
    BY <1>2 DEF TakeDone, TaskStep
  <2>2. ChannelTypeOK(Message)' /\ WireInv'
    BY <1>0, <1>2, <2>1, ChannelStep DEF TakeDone
  <2>3. Len(part) = total
    BY <1>2, Heard DEF TakeDone, Takes, Seals, Content, Message
  <2>4. TasksInv'
    BY <1>0, <1>2, <2>3 DEF TakeDone
  <2> QED
    BY <2>2, <2>4, IInvParts
<1>3. CASE RejectMessage
  <2>1. TaskStep("receiver", {})
    BY <1>3 DEF RejectMessage, TaskStep
  <2>2. ChannelTypeOK(Message)' /\ WireInv'
    BY <1>0, <1>3, <2>1, ChannelStep DEF RejectMessage, CleanUp
  <2>3. TasksInv'
    BY <1>0, <1>3 DEF RejectMessage, CleanUp
  <2> QED
    BY <2>2, <2>3, IInvParts
<1>4. CASE NoMessage \/ NoFile \/ PersistFails
  <2>1. ChannelTypeOK(Message)' /\ WireInv'
    BY <1>4, ChannelRests DEF NoMessage, NoFile, PersistFails, CleanUp
  <2>2. TasksInv'
    <3>1. CASE NoMessage
      BY <1>0, <3>1 DEF NoMessage, CleanUp
    <3>2. CASE NoFile
      BY <1>0, <3>2 DEF NoFile, CleanUp
    <3>3. CASE PersistFails
      BY <1>0, <3>3 DEF PersistFails
    <3> QED
      BY <1>4, <3>1, <3>2, <3>3
  <2> QED
    BY <2>1, <2>2, IInvParts
<1>5. CASE Persist
  <2>1. PICK m : m = [type |-> "ack"]
    OBVIOUS
  <2>2. part # None /\ saved' = part /\ part = Payload(total)
    BY <1>0, <1>5 DEF Persist
  <2>3. m \in Message /\ m.type = "ack"
    BY <2>1 DEF Message
  <2>4. {m} \in SUBSET Message /\ {m} \subseteq Acks'
    BY <2>2, <2>3 DEF Acks
  <2>5. TaskStep("receiver", {m})
    BY <1>5, <2>1 DEF Persist, TaskStep
  <2>6. ChannelTypeOK(Message)' /\ WireInv'
    BY <1>0, <1>5, <2>2, <2>4, <2>5, ChannelStep DEF Persist
  <2>7. TasksInv'
    BY <1>0, <1>5, <2>2 DEF Persist
  <2> QED
    BY <2>6, <2>7, IInvParts
<1>6. CASE AckSent
  <2>1. TaskStep("receiver", {})
    BY <1>6 DEF AckSent, TaskStep
  <2>2. ChannelTypeOK(Message)' /\ WireInv'
    BY <1>0, <1>6, <2>1, ChannelStep DEF AckSent
  <2>3. TasksInv'
    BY <1>0, <1>6 DEF AckSent
  <2> QED
    BY <2>2, <2>3, IInvParts
<1> QED
  BY <1>1, <1>2, <1>3, <1>4, <1>5, <1>6

LEMMA SharedSteps ==
  ASSUME IInv, NEW x \in Side, Channel(x) \/ Sending(x) \/ SendFails(x) \/ ClosePeer(x)
  PROVE  IInv'
<1>0. TasksInv /\ ChannelTypeOK(Message) /\ WireInv
  BY IInvParts
<1>1. CASE UNCHANGED taskVars
  <2>1. WorkerStep(x) \/ TaskStep(x, {}) \/ SendFails(x)
    BY DEF Channel, Sending, ClosePeer, WorkerStep, TaskStep
  <2>2. WorkerStep(x) \/ TaskStep(x, {})
    BY <2>1 DEF SendFails, TaskStep
  <2>3. ChannelTypeOK(Message)' /\ WireInv'
    BY <1>1, <2>2, ChannelStep DEF taskVars
  <2>4. TasksInv'
    BY <1>0, <1>1 DEF taskVars, TasksInv, SentInv, FileInv
  <2> QED
    BY <2>3, <2>4, IInvParts
<1>2. CASE SendFails(x)
  <2>1. TaskStep(x, {})
    BY <1>2 DEF SendFails, TaskStep
  <2>2. ChannelTypeOK(Message)' /\ WireInv'
    BY <1>2, <2>1, ChannelStep DEF SendFails
  <2>3. TasksInv'
    BY <1>0, <1>2 DEF SendFails, Goto, TasksInv, SentInv, FileInv, SenderPC, ReceiverPC, Ended, Side
  <2> QED
    BY <2>2, <2>3, IInvParts
<1> QED
  BY <1>1, <1>2 DEF Channel, Sending, ClosePeer

LEMMA NextStep ==
  ASSUME IInv, [Next]_vars
  PROVE  IInv'
<1>1. CASE UNCHANGED vars
  <2>1. ChannelTypeOK(Message)' /\ WireInv'
    BY <1>1, ChannelRests DEF vars, taskVars
  <2>2. TasksInv'
    BY <1>1, IInvParts DEF vars, taskVars, TasksInv, SentInv, FileInv
  <2> QED
    BY <2>1, <2>2, IInvParts
<1> QED
  BY <1>1, SharedSteps, SenderSteps, ReceiverSteps DEF Next

LEMMA InitStep == Init => IInv
<1> SUFFICES ASSUME Init PROVE IInv
  OBVIOUS
<1> USE FileAssumption
<1>1. ChannelTypeOK(Message)
  BY DEF Init, ChannelInit, ChannelTypeOK, CallState
<1>2. "sender" \in Side /\ "receiver" \in Side /\ \A x \in Side : Peer(x) \in Side
  BY DEF Side, Peer
<1>3. WireInv
  BY <1>2 DEF Init, ChannelInit, WireInv, Wire, InCall
<1>4. Payload(0) = <<>> /\ Len(<<>>) = 0
  BY PayloadGrows
<1>5. <<>> \in Seq(0 .. MaxTotal - 1) /\ <<>> # None
  <2>1. <<>> \in Seq(0 .. MaxTotal - 1)
    OBVIOUS
  <2> QED
    BY <2>1, NoneAssumption, Zenon
<1>6. TypeOK
  BY <1>1, <1>2, <1>5 DEF Init, TypeOK, SenderPC, ReceiverPC
<1>7. part = Payload(Len(part))
  BY <1>4, Zenon DEF Init
<1>8. SentInv
  BY <1>2, <1>6 DEF Init, TypeOK, SentInv
<1>9. FileInv
  BY <1>2, <1>5, <1>7 DEF Init, FileInv
<1> QED
  BY <1>3, <1>6, <1>8, <1>9 DEF IInv

(* The inductive invariant holds in every reachable state. *)
THEOREM Invariance == Spec => []IInv
<1> QED
  BY InitStep, NextStep, PTL DEF Spec

(* Every variable keeps its type: in particular no chunk is numbered beyond the
   index (`MAX_CHUNKS` in run_sender). *)
THEOREM TypeCorrect == Spec => []TypeOK
<1>1. IInv => TypeOK
  BY DEF IInv
<1> QED
  BY <1>1, Invariance, PTL

(* run_receiver moves a file into place only if it is the payload, whole and in
   order, whatever the transport does to the messages. *)
THEOREM SavedWhole == Spec => []SavedIsWhole
<1>1. IInv => SavedIsWhole
  BY DEF IInv, FileInv, SavedIsWhole
<1> QED
  BY <1>1, Invariance, PTL

(* run_sender reports success only after run_receiver has the file: the two
   implement Delivery. *)
THEOREM Refinement == Spec => ImplementsDelivery
<1>1. Init => Deliver!Init
  <2> SUFFICES ASSUME Init PROVE Deliver!Init
    OBVIOUS
  <2>1. IInv
    BY InitStep
  <2>2. Payload(total) # None
    <3>1. total \in Nat
      BY <2>1, FileAssumption DEF IInv, TypeOK
    <3>2. Payload(total) \in [1 .. total -> 0 .. MaxTotal - 1]
      BY <2>1, <3>1, FileAssumption DEF IInv, TypeOK, Payload
    <3>3. Payload(total) \in Seq(0 .. MaxTotal - 1)
      BY <3>1, <3>2, SeqDef, Zenon
    <3> QED
      BY <3>3, NoneAssumption, Zenon
  <2> QED
    BY <2>2 DEF Init, Deliver!Init, Side, Ended
<1>2. IInv /\ IInv' /\ [Next]_vars => [Deliver!Next]_Deliver!vars
  <2> SUFFICES ASSUME IInv, IInv', [Next]_vars PROVE [Deliver!Next]_Deliver!vars
    OBVIOUS
  <2> USE DEF Deliver!Next, Deliver!vars
  <2>0. pc \in [Side -> SenderPC \cup ReceiverPC] /\ pc["sender"] \in SenderPC
    BY DEF IInv, TypeOK
  <2>1. CASE UNCHANGED vars
    BY <2>1 DEF vars, taskVars
  <2>2. ASSUME NEW x \in Side, Channel(x) \/ Sending(x) \/ ClosePeer(x)
        PROVE  UNCHANGED Deliver!vars
    BY <2>2 DEF Channel, Sending, ClosePeer, taskVars
  <2>3. ReadChunk \/ ChunkSent \/ ReadEnd \/ DoneSent => UNCHANGED Deliver!vars
    BY <2>0 DEF ReadChunk, ChunkSent, ReadEnd, DoneSent, Goto, Ended, Side
  <2>4. TakeChunk \/ TakeDone => UNCHANGED Deliver!vars
    BY <2>0 DEF TakeChunk, TakeDone, Goto, Ended, Side
  <2>5. SourceFails \/ SendStalls \/ NoAck => Deliver!SenderEnds
    BY <2>0 DEF SourceFails, SendStalls, NoAck, Goto, Ended, Side, Deliver!SenderEnds
  <2>6. SendFails("sender") => Deliver!SenderEnds
    BY <2>0 DEF SendFails, Goto, Ended, Side, Deliver!SenderEnds
  <2>7. TakeAck => UNCHANGED Deliver!vars \/ Deliver!SenderEnds
    BY <2>0 DEF IInv, SentInv, FileInv, TakeAck, Ended, Side, Deliver!SenderEnds
  <2>8. RejectMessage \/ NoMessage \/ NoFile \/ PersistFails => Deliver!ReceiverEnds
    BY <2>0 DEF RejectMessage, NoMessage, NoFile, PersistFails, CleanUp, Goto, Ended, Side, Deliver!ReceiverEnds
  <2>9. SendFails("receiver") => Deliver!ReceiverEnds
    BY <2>0 DEF SendFails, Goto, Ended, Side, Deliver!ReceiverEnds
  <2>10. AckSent => Deliver!ReceiverEnds
    BY <2>0 DEF IInv, FileInv, AckSent, Goto, Ended, Side, Deliver!ReceiverEnds
  <2>11. Persist => Deliver!Take
    BY <2>0 DEF IInv, FileInv, Persist, Goto, Ended, Side, Deliver!Take
  <2> QED
    BY <2>1, <2>2, <2>3, <2>4, <2>5, <2>6, <2>7, <2>8, <2>9, <2>10, <2>11 DEF Next, Side
<1> QED
  BY <1>1, <1>2, Invariance, PTL DEF Spec, ImplementsDelivery, Deliver!Spec

-----------------------------------------------------------------------------
(* The flag will be down once the events raised so far are handled. *)
NoLow(x) == \A i \in DOMAIN events[x] : events[x][i] # "low"
Blocked(x) ==
  \/ ~ allowed[x] /\ NoLow(x)
  \/ \E i \in DOMAIN events[x] :
       events[x][i] = "high" /\ \A j \in DOMAIN events[x] : j > i => events[x][j] # "low"

(* Above the high watermark the flag is down or coming down; only the command
   that read it before can still be handed over. *)
RoomInv(x) ==
  /\ Len(buffer[x]) <= HighWater + 2
  /\ Len(buffer[x]) > HighWater => Blocked(x)
  /\ Len(buffer[x]) = HighWater + 2 => ~ allowed[x] /\ NoLow(x) /\ ~ Queued(x)

LEMMA RoomPoll ==
  ASSUME ChannelTypeOK(Message), NEW x \in Side, RoomInv(x), PollEvent(x)
  PROVE  RoomInv(x)'
<1> DEFINE q == events[x]
<1>1. /\ q \in Seq({"high", "low", "close"}) /\ q # <<>>
      /\ allowed \in [Side -> BOOLEAN] /\ events \in [Side -> Seq({"high", "low", "close"})]
  BY DEF ChannelTypeOK, PollEvent
<1>2. /\ events'[x] = Tail(q)
      /\ allowed'[x] = IF Head(q) = "close" THEN allowed[x] ELSE Head(q) = "low"
      /\ UNCHANGED <<buffer, call>>
  BY <1>1 DEF PollEvent, Handle
<1>3. /\ Len(q) \in Nat /\ Len(q) > 0 /\ DOMAIN q = 1 .. Len(q)
      /\ DOMAIN Tail(q) = 1 .. Len(q) - 1
      /\ \A i \in 1 .. Len(q) - 1 : Tail(q)[i] = q[i + 1]
      /\ Head(q) = q[1]
  BY <1>1, HeadTailProperties
<1>4. ASSUME ~ allowed[x], NoLow(x) PROVE ~ allowed'[x] /\ NoLow(x)'
  BY <1>1, <1>2, <1>3, <1>4 DEF NoLow
<1>5. ASSUME Blocked(x) PROVE Blocked(x)'
  <2>1. CASE ~ allowed[x] /\ NoLow(x)
    BY <1>4, <2>1 DEF Blocked
  <2>2. ASSUME NEW i \in DOMAIN q, q[i] = "high", \A j \in DOMAIN q : j > i => q[j] # "low"
        PROVE  Blocked(x)'
    <3>1. CASE i = 1
      <4>1. ~ allowed'[x]
        BY <1>2, <1>3, <2>2, <3>1
      <4>2. NoLow(x)'
        BY <1>2, <1>3, <2>2, <3>1 DEF NoLow
      <4> QED
        BY <4>1, <4>2 DEF Blocked
    <3>2. CASE i # 1
      <4>1. i - 1 \in DOMAIN Tail(q) /\ Tail(q)[i - 1] = "high"
        BY <1>3, <2>2, <3>2
      <4>2. \A j \in DOMAIN Tail(q) : j > i - 1 => Tail(q)[j] # "low"
        BY <1>3, <2>2
      <4> QED
        BY <1>2, <4>1, <4>2 DEF Blocked
    <3> QED
      BY <3>1, <3>2
  <2> QED
    BY <1>5, <2>1, <2>2 DEF Blocked
<1> QED
  BY <1>2, <1>4, <1>5 DEF RoomInv, Queued

LEMMA RoomHandOver ==
  ASSUME ChannelTypeOK(Message), NEW x \in Side, RoomInv(x), HandOver(x)
  PROVE  RoomInv(x)'
<1> USE WatermarkAssumption
<1> DEFINE n == Len(buffer[x])
<1>1. n \in Nat /\ Len(buffer'[x]) = n + 1
  BY DEF ChannelTypeOK, HandOver
<1>2. /\ events[x] = <<>> /\ Queued(x)
      /\ events'[x] = Raise(<<>>, n, n + 1)
      /\ UNCHANGED allowed
  BY DEF ChannelTypeOK, HandOver, TakesCommand
<1>3. ~ Queued(x)'
  BY DEF ChannelTypeOK, HandOver, Answered, Queued
<1>4. n # HighWater + 2 /\ n <= HighWater + 1
  BY <1>1, <1>2 DEF RoomInv
<1>5. CASE n < HighWater
  BY <1>1, <1>5 DEF RoomInv
<1>6. CASE n = HighWater
  <2>1. events'[x] = <<"high">>
    BY <1>1, <1>2, <1>6 DEF Raise
  <2>2. Blocked(x)'
    BY <2>1 DEF Blocked
  <2> QED
    BY <1>1, <1>6, <2>2 DEF RoomInv
<1>7. CASE n = HighWater + 1
  <2>1. events'[x] = <<>>
    BY <1>1, <1>2, <1>7 DEF Raise
  <2>2. Blocked(x)
    BY <1>1, <1>7 DEF RoomInv
  <2>3. ~ allowed[x]
    BY <1>2, <2>2 DEF Blocked
  <2>4. ~ allowed'[x] /\ NoLow(x)'
    BY <1>2, <2>1, <2>3 DEF NoLow
  <2> QED
    BY <1>1, <1>3, <1>7, <2>4 DEF RoomInv, Blocked
<1> QED
  BY <1>1, <1>4, <1>5, <1>6, <1>7

LEMMA RoomLeaves ==
  ASSUME ChannelTypeOK(Message), NEW x \in Side, RoomInv(x),
         NEW k \in DOMAIN buffer[x], Leaves(x, k), UNCHANGED <<allowed, call>>
  PROVE  RoomInv(x)'
<1> USE WatermarkAssumption
<1> DEFINE n == Len(buffer[x])
<1>1. n \in Nat /\ n > 0 /\ Len(buffer'[x]) = n - 1
  <2>1. buffer[x] \in Seq(Message) /\ k \in 1 .. n
    BY DEF ChannelTypeOK
  <2>2. Len(RemoveAt(buffer[x], k)) = n - 1
    BY <2>1, RemoveAtType
  <2> QED
    BY <2>1, <2>2 DEF ChannelTypeOK, Leaves
<1>2. n - 1 <= HighWater + 1
  BY <1>1 DEF RoomInv
<1>3. CASE n - 1 > HighWater
  <2>1. events'[x] = events[x]
    BY <1>1, <1>3 DEF ChannelTypeOK, Leaves, Raise
  <2>2. Blocked(x)
    BY <1>1, <1>3 DEF RoomInv
  <2>3. Blocked(x)'
    BY <2>1, <2>2 DEF Blocked, NoLow
  <2> QED
    BY <1>1, <1>2, <2>3 DEF RoomInv
<1> QED
  BY <1>1, <1>2, <1>3 DEF RoomInv

(* A step that leaves the queue, the events and the flag alone, and hands over a
   command only if the flag is up. *)
LEMMA RoomRests ==
  ASSUME NEW x \in Side, RoomInv(x),
         buffer'[x] = buffer[x], events'[x] = events[x], allowed'[x] = allowed[x],
         Queued(x)' => Queued(x) \/ allowed[x]
  PROVE  RoomInv(x)'
  BY DEF RoomInv, Blocked, NoLow

LEMMA RoomWorker ==
  ASSUME ChannelTypeOK(Message), NEW x \in Side, NEW z \in Side, RoomInv(x), WorkerStep(z)
  PROVE  RoomInv(x)'
<1>1. CASE x = z
  <2>1. CASE PollEvent(z)
    BY <1>1, <2>1, RoomPoll
  <2>2. CASE HandOver(z)
    BY <1>1, <2>2, RoomHandOver
  <2>3. CASE Refuse(z)
    <3>1. ~ Queued(x)'
      BY <1>1, <2>3 DEF ChannelTypeOK, Refuse, Answered, Queued
    <3> QED
      BY <2>3, <3>1, RoomRests DEF Refuse
  <2>4. ASSUME NEW k \in DOMAIN buffer[z], Transmit(z, k) \/ Lose(z, k) PROVE RoomInv(x)'
    BY <1>1, <2>4, RoomLeaves DEF Transmit, Lose
  <2>5. CASE ChannelCloses(z)
    <3>1. Len(buffer'[x]) = 0
      BY <1>1, <2>5 DEF ChannelTypeOK, ChannelCloses
    <3> QED
      BY <3>1, WatermarkAssumption DEF RoomInv
  <2>6. CASE StopWorker(z)
    <3>1. ~ Queued(x)'
      BY <1>1, <2>6 DEF ChannelTypeOK, StopWorker, Answered, Queued
    <3> QED
      BY <2>6, <3>1, RoomRests DEF StopWorker
  <2> QED
    BY <2>1, <2>2, <2>3, <2>4, <2>5, <2>6 DEF WorkerStep, ChannelNext, WorkerFails
<1>2. CASE x # z
  <2>1. /\ buffer'[x] = buffer[x] /\ events'[x] = events[x] /\ allowed'[x] = allowed[x]
        /\ call'[x] = call[x]
    <3>1. CASE PollEvent(z) \/ ChannelCloses(z) \/ StopWorker(z)
      BY <1>2, <3>1 DEF ChannelTypeOK, PollEvent, Handle, ChannelCloses, StopWorker, Answered
    <3>2. CASE HandOver(z) \/ Refuse(z)
      BY <1>2, <3>2 DEF ChannelTypeOK, HandOver, Refuse, Answered
    <3>3. ASSUME NEW k \in DOMAIN buffer[z], Transmit(z, k) \/ Lose(z, k)
          PROVE  /\ buffer'[x] = buffer[x] /\ events'[x] = events[x]
                 /\ UNCHANGED <<allowed, call>>
      BY <1>2, <3>3 DEF ChannelTypeOK, Transmit, Lose, Leaves
    <3> QED
      BY <3>1, <3>2, <3>3 DEF WorkerStep, ChannelNext, WorkerFails
  <2> QED
    BY <2>1, RoomRests DEF Queued
<1> QED
  BY <1>1, <1>2

LEMMA RoomTask ==
  ASSUME ChannelTypeOK(Message), NEW x \in Side, NEW z \in Side, RoomInv(x),
         NEW M, TaskStep(z, M)
  PROVE  RoomInv(x)'
<1> USE DEF ChannelTypeOK, Queued
<1>1. UNCHANGED <<buffer, events, allowed>>
  BY DEF TaskStep, Send, SendNext, SeeClosed, SeeOpen, SeeAllowed, SeeBlocked, Await, Wake, CallStep,
         Abandon, Returns, Takes
<1>2. Queued(x)' => Queued(x) \/ allowed[x]
  <2>1. ASSUME NEW m \in M, Send(z, m) PROVE Queued(x)' => Queued(x)
    BY <2>1 DEF Send
  <2>2. CASE SendNext(z)
    BY <2>2 DEF SendNext, SeeClosed, SeeOpen, SeeAllowed, SeeBlocked, Await, Wake, CallStep
  <2>3. CASE Abandon(z)
    BY <2>3 DEF Abandon
  <2>4. ASSUME NEW result \in {"ok", "error"}, Returns(z, result) PROVE Queued(x)' => Queued(x)
    BY <2>4 DEF Returns
  <2>5. CASE Takes(z)
    BY <2>5 DEF Takes
  <2> QED
    BY <2>1, <2>2, <2>3, <2>4, <2>5 DEF TaskStep
<1> QED
  BY <1>1, <1>2, RoomRests

(* Every step is one of these, at one end of the channel. *)
LEMMA StepKinds ==
  ASSUME [Next]_vars
  PROVE  \/ UNCHANGED channelVars
         \/ \E z \in Side : WorkerStep(z) \/ \E M : TaskStep(z, M)
<1> USE DEF Side
<1>1. ASSUME NEW z \in Side, Channel(z) \/ ClosePeer(z) PROVE WorkerStep(z)
  BY <1>1 DEF Channel, ClosePeer, WorkerStep
<1>2. ASSUME NEW z \in Side, Sending(z) \/ SendFails(z) PROVE TaskStep(z, {})
  BY <1>2 DEF Sending, SendFails, TaskStep
<1>3. ASSUME ChunkSent \/ DoneSent \/ SendStalls \/ TakeAck PROVE TaskStep("sender", {})
  BY <1>3 DEF ChunkSent, DoneSent, SendStalls, TakeAck, TaskStep
<1>4. ASSUME TakeChunk \/ TakeDone \/ RejectMessage \/ AckSent PROVE TaskStep("receiver", {})
  BY <1>4 DEF TakeChunk, TakeDone, RejectMessage, AckSent, TaskStep
<1>5. ASSUME ReadChunk \/ ReadEnd PROVE \E M : TaskStep("sender", M)
  <2>1. PICK m : Send("sender", m)
    BY <1>5 DEF ReadChunk, ReadEnd
  <2>2. TaskStep("sender", {m})
    BY <2>1 DEF TaskStep
  <2> QED
    BY <2>2
<1>6. ASSUME Persist PROVE \E M : TaskStep("receiver", M)
  <2>1. PICK m : Send("receiver", m)
    BY <1>6 DEF Persist
  <2>2. TaskStep("receiver", {m})
    BY <2>1 DEF TaskStep
  <2> QED
    BY <2>2
<1>7. SourceFails \/ NoAck \/ NoMessage \/ NoFile \/ PersistFails => UNCHANGED channelVars
  BY DEF SourceFails, NoAck, NoMessage, NoFile, PersistFails
<1> QED
  BY <1>1, <1>2, <1>3, <1>4, <1>5, <1>6, <1>7 DEF Next, vars

(* The sender runs ahead of the network by the high watermark and two messages
   at most: `send` reads a flag that is as old as the worker's last look at the
   events, and the worker hands a command over only after it has looked again. *)
THEOREM Backpressure == Spec => []BackpressureHolds
<1> DEFINE Inv == \A x \in Side : RoomInv(x)
<1>1. Init => Inv
  <2> SUFFICES ASSUME Init, NEW x \in Side PROVE RoomInv(x)
    OBVIOUS
  <2>1. Len(buffer[x]) = 0
    BY DEF Init, ChannelInit
  <2> QED
    BY <2>1, WatermarkAssumption DEF RoomInv
<1>2. IInv /\ Inv /\ [Next]_vars => Inv'
  <2> SUFFICES ASSUME IInv, Inv, [Next]_vars, NEW x \in Side PROVE RoomInv(x)'
    OBVIOUS
  <2>1. ChannelTypeOK(Message)
    BY IInvParts
  <2>2. UNCHANGED channelVars => RoomInv(x)'
    BY RoomRests DEF Queued, channelVars
  <2> QED
    BY <2>1, <2>2, StepKinds, RoomWorker, RoomTask
<1>3. Inv => BackpressureHolds
  BY DEF RoomInv, BackpressureHolds
<1> HIDE DEF Inv
<1> QED
  BY <1>1, <1>2, <1>3, Invariance, PTL DEF Spec

-----------------------------------------------------------------------------
(* What lies between a task that waits for room and its wake-up: it has been
   woken; or the worker has still to handle the event that will; or the network
   has still to move the messages whose leaving raises it. *)
Awaits(x, kinds) == \E i \in DOMAIN events[x] : events[x][i] \in kinds
WakeUnderway(x) ==
  \/ woken[x]
  \/ /\ running[x]
     /\ Awaits(x, {"low", "close"}) \/ (up[x] /\ Len(buffer[x]) > LowWater)
NoWakeupLost == \A x \in Side : call[x] = "parked" => WakeUnderway(x)

(* A task past its ticket has been woken if what it waits for is already there;
   a channel that is gone says so; and the flag is down, or coming down, only
   while the buffer has to shrink for it to go up again. *)
WakeInv(x) ==
  /\ call[x] \in {"unclosed", "blocked", "parked"} /\ closed[x] => woken[x]
  /\ call[x] \in {"blocked", "parked"} /\ allowed[x] => woken[x]
  /\ ~ running[x] => closed[x]
  /\ ~ up[x] => closed[x] \/ Awaits(x, {"close"})
  /\ up[x] /\ Blocked(x) => Len(buffer[x]) > LowWater

(* What happens at one end of the channel leaves the other alone, but for its
   inbox. *)
LEMMA Elsewhere ==
  ASSUME ChannelTypeOK(Message), NEW x \in Side, NEW z \in Side, x # z,
         NEW M, WorkerStep(z) \/ TaskStep(z, M)
  PROVE  /\ running'[x] = running[x] /\ up'[x] = up[x] /\ events'[x] = events[x]
         /\ buffer'[x] = buffer[x] /\ closed'[x] = closed[x] /\ allowed'[x] = allowed[x]
         /\ woken'[x] = woken[x] /\ call'[x] = call[x]
<1> DEFINE Same == /\ running'[x] = running[x] /\ up'[x] = up[x] /\ events'[x] = events[x]
                   /\ buffer'[x] = buffer[x] /\ closed'[x] = closed[x] /\ allowed'[x] = allowed[x]
                   /\ woken'[x] = woken[x] /\ call'[x] = call[x]
<1> USE DEF ChannelTypeOK
<1>1. CASE PollEvent(z) \/ ChannelCloses(z) \/ StopWorker(z)
  BY <1>1 DEF PollEvent, Handle, ChannelCloses, StopWorker, Answered
<1>2. CASE HandOver(z) \/ Refuse(z)
  BY <1>2 DEF HandOver, Refuse, Answered
<1>3. ASSUME NEW k \in DOMAIN buffer[z], Transmit(z, k) \/ Lose(z, k) PROVE Same
  BY <1>3 DEF Transmit, Lose, Leaves
<1>4. ASSUME NEW m, Send(z, m) PROVE Same
  BY <1>4 DEF Send, TakeTicket
<1>5. CASE SendNext(z)
  BY <1>5 DEF SendNext, SeeClosed, SeeOpen, SeeAllowed, SeeBlocked, Await, Wake, CallStep, TakeTicket
<1>6. ASSUME NEW result, Returns(z, result) PROVE Same
  BY <1>6 DEF Returns
<1>7. CASE Abandon(z) \/ Takes(z)
  BY <1>7 DEF Abandon, Takes
<1> QED
  BY <1>1, <1>2, <1>3, <1>4, <1>5, <1>6, <1>7 DEF WorkerStep, ChannelNext, WorkerFails, TaskStep

(* Where a channel is left alone but for what the call does. *)
LEMMA WakeRests ==
  ASSUME NEW x \in Side, WakeInv(x),
         running'[x] = running[x], up'[x] = up[x], events'[x] = events[x], buffer'[x] = buffer[x],
         closed'[x] = closed[x], allowed'[x] = allowed[x],
         call'[x] \in {"unclosed", "blocked", "parked"} =>
           /\ woken'[x] = woken[x]
           /\ call[x] = call'[x] \/ ~ closed[x] \/ call[x] \in {"unclosed", "blocked", "parked"},
         call'[x] \in {"blocked", "parked"} => ~ allowed[x] \/ call[x] \in {"blocked", "parked"}
  PROVE  WakeInv(x)'
  BY DEF WakeInv, Awaits, Blocked, NoLow

(* A handled event counts no more, but it has done its work. *)
LEMMA WakePoll ==
  ASSUME ChannelTypeOK(Message), NEW x \in Side, WakeInv(x), PollEvent(x)
  PROVE  WakeInv(x)'
<1> DEFINE q == events[x]
<1>1. /\ q \in Seq({"high", "low", "close"}) /\ q # <<>>
      /\ allowed \in [Side -> BOOLEAN] /\ events \in [Side -> Seq({"high", "low", "close"})]
      /\ woken \in [Side -> BOOLEAN] /\ closed \in [Side -> BOOLEAN]
  BY DEF ChannelTypeOK, PollEvent
<1>2. /\ events'[x] = Tail(q)
      /\ closed'[x] = (closed[x] \/ Head(q) = "close")
      /\ allowed'[x] = IF Head(q) = "close" THEN allowed[x] ELSE Head(q) = "low"
      /\ woken'[x] = (woken[x] \/ Head(q) \in {"low", "close"})
      /\ UNCHANGED <<buffer, call, running, up>>
  BY <1>1 DEF PollEvent, Handle
<1>3. /\ Len(q) \in Nat /\ Len(q) > 0 /\ DOMAIN q = 1 .. Len(q)
      /\ DOMAIN Tail(q) = 1 .. Len(q) - 1
      /\ \A i \in 1 .. Len(q) - 1 : Tail(q)[i] = q[i + 1]
      /\ Head(q) = q[1] /\ q[1] \in {"high", "low", "close"}
  BY <1>1, HeadTailProperties
<1>4. ASSUME Awaits(x, {"close"}), ~ closed'[x] PROVE Awaits(x, {"close"})'
  <2>1. PICK i \in 1 .. Len(q) : q[i] = "close"
    BY <1>3, <1>4 DEF Awaits
  <2>2. i # 1
    BY <1>2, <1>3, <1>4, <2>1
  <2>3. i - 1 \in 1 .. Len(q) - 1
    BY <1>3, <2>2
  <2>4. i - 1 \in DOMAIN Tail(q) /\ Tail(q)[i - 1] = "close"
    BY <1>3, <2>1, <2>3
  <2> QED
    BY <1>2, <2>4 DEF Awaits
<1>5. ASSUME Blocked(x)' PROVE Blocked(x)
  <2>1. CASE ~ allowed'[x] /\ NoLow(x)'
    <3>1. \A j \in DOMAIN q : j > 1 => q[j] # "low"
      <4>1. ASSUME NEW j \in DOMAIN q, j > 1 PROVE q[j] # "low"
        <5>1. j - 1 \in DOMAIN Tail(q) /\ Tail(q)[j - 1] = q[j]
          BY <1>3, <4>1
        <5> QED
          BY <1>2, <2>1, <5>1 DEF NoLow
      <4> QED
        BY <4>1
    <3>2. CASE q[1] = "high"
      BY <1>3, <3>1, <3>2 DEF Blocked
    <3>3. CASE q[1] = "close"
      <4>1. ~ allowed[x]
        BY <1>2, <1>3, <2>1, <3>3
      <4>2. NoLow(x)
        BY <1>3, <3>1, <3>3 DEF NoLow
      <4> QED
        BY <4>1, <4>2 DEF Blocked
    <3>4. q[1] # "low"
      BY <1>2, <1>3, <2>1
    <3> QED
      BY <1>3, <3>2, <3>3, <3>4
  <2>2. ASSUME NEW i \in DOMAIN Tail(q), Tail(q)[i] = "high",
               \A j \in DOMAIN Tail(q) : j > i => Tail(q)[j] # "low"
        PROVE  Blocked(x)
    <3>1. i + 1 \in DOMAIN q /\ q[i + 1] = "high"
      BY <1>3, <2>2
    <3>2. ASSUME NEW j \in DOMAIN q, j > i + 1 PROVE q[j] # "low"
      <4>1. j - 1 \in DOMAIN Tail(q) /\ j - 1 > i /\ Tail(q)[j - 1] = q[j]
        BY <1>3, <2>2, <3>2
      <4> QED
        BY <2>2, <4>1
    <3> QED
      BY <3>1, <3>2 DEF Blocked
  <2> QED
    BY <1>2, <1>5, <2>1, <2>2 DEF Blocked
<1>6. ~ up'[x] => closed'[x] \/ Awaits(x, {"close"})'
  BY <1>1, <1>2, <1>4 DEF WakeInv
<1>7. up'[x] /\ Blocked(x)' => Len(buffer'[x]) > LowWater
  BY <1>2, <1>5 DEF WakeInv
<1>8. /\ call'[x] \in {"unclosed", "blocked", "parked"} /\ closed'[x] => woken'[x]
      /\ call'[x] \in {"blocked", "parked"} /\ allowed'[x] => woken'[x]
      /\ ~ running'[x] => closed'[x]
  BY <1>1, <1>2, <1>3 DEF WakeInv
<1> QED
  BY <1>6, <1>7, <1>8 DEF WakeInv

(* The buffer has grown or shrunk by one message: if the flag comes down, the
   buffer is above the low watermark. *)
LEMMA WakeRaises ==
  ASSUME ChannelTypeOK(Message), NEW x \in Side, WakeInv(x), up[x],
         NEW a \in Nat, NEW b \in Nat, a = Len(buffer[x]), b = Len(buffer'[x]), b = a + 1 \/ b = a - 1,
         events'[x] = Raise(events[x], a, b), allowed'[x] = allowed[x], Blocked(x)'
  PROVE  b > LowWater
<1> USE WatermarkAssumption
<1> DEFINE q == events[x]
<1>1. q \in Seq({"high", "low", "close"}) /\ Len(q) \in Nat /\ DOMAIN q = 1 .. Len(q)
  BY LenProperties DEF ChannelTypeOK
<1>2. CASE a > LowWater /\ b <= LowWater
  <2>1. events'[x] = Append(q, "low")
    BY <1>2 DEF Raise
  <2>2. PICK r : r = events'[x]
    OBVIOUS
  <2>3. DOMAIN r = 1 .. Len(q) + 1 /\ r[Len(q) + 1] = "low"
    BY <1>1, <2>1, <2>2
  <2>4. ~ NoLow(x)'
    BY <1>1, <2>2, <2>3 DEF NoLow
  <2>5. PICK i \in DOMAIN r : r[i] = "high" /\ \A j \in DOMAIN r : j > i => r[j] # "low"
    BY <2>2, <2>4 DEF Blocked
  <2>6. PICK n \in Nat : n = Len(q) + 1 /\ DOMAIN r = 1 .. n /\ r[n] = "low"
    BY <1>1, <2>3
  <2>7. i \in 1 .. n /\ i # n
    BY <2>5, <2>6
  <2>8. n \in DOMAIN r /\ n > i
    BY <2>6, <2>7
  <2> QED
    BY <2>5, <2>6, <2>8
<1>3. CASE a <= HighWater /\ b > HighWater
  BY <1>3
<1>4. CASE ~ (a > LowWater /\ b <= LowWater) /\ ~ (a <= HighWater /\ b > HighWater)
  <2>1. events'[x] = events[x]
    BY <1>4 DEF Raise
  <2>2. Blocked(x)
    BY <2>1 DEF Blocked, NoLow
  <2>3. a > LowWater
    BY <2>2 DEF WakeInv
  <2> QED
    BY <1>4, <2>3
<1> QED
  BY <1>2, <1>3, <1>4

LEMMA WakeWorker ==
  ASSUME ChannelTypeOK(Message), NEW x \in Side, WakeInv(x), WorkerStep(x)
  PROVE  WakeInv(x)'
<1> USE DEF ChannelTypeOK
<1>1. CASE PollEvent(x)
  BY <1>1, WakePoll
<1>2. CASE Refuse(x) \/ StopWorker(x)
  <2>1. /\ up'[x] = up[x] /\ events'[x] = events[x] /\ buffer'[x] = buffer[x] /\ allowed'[x] = allowed[x]
        /\ call'[x] = call[x] \/ call'[x] \in {"ok", "error", "idle"}
    BY <1>2 DEF Refuse, StopWorker, Answered
  <2>2. CASE Refuse(x)
    <3>1. running'[x] = running[x] /\ closed'[x] = closed[x] /\ woken'[x] = woken[x]
      BY <2>2 DEF Refuse
    <3> QED
      BY <2>1, <3>1, WakeRests
  <2>3. CASE StopWorker(x)
    <3>1. closed'[x] /\ woken'[x]
      BY <2>3 DEF StopWorker
    <3> QED
      BY <2>1, <3>1 DEF WakeInv, Blocked, NoLow
  <2> QED
    BY <1>2, <2>2, <2>3
<1>3. CASE HandOver(x)
  <2>1. PICK a \in Nat : a = Len(buffer[x]) /\ Len(buffer'[x]) = a + 1
    BY <1>3 DEF HandOver
  <2>2. /\ running'[x] = running[x] /\ up'[x] = up[x] /\ closed'[x] = closed[x]
        /\ allowed'[x] = allowed[x] /\ up[x]
        /\ events'[x] = Raise(events[x], a, a + 1)
        /\ call'[x] \in {"ok", "error", "idle"}
    BY <1>3, <2>1 DEF HandOver, TakesCommand, Queued, Answered
  <2>3. Blocked(x)' => a + 1 > LowWater
    BY <2>1, <2>2, WakeRaises
  <2> QED
    BY <2>1, <2>2, <2>3 DEF WakeInv
<1>4. ASSUME NEW k \in DOMAIN buffer[x], Transmit(x, k) \/ Lose(x, k) PROVE WakeInv(x)'
  <2>1. Leaves(x, k) /\ UNCHANGED <<running, up, closed, allowed, woken, call>>
    BY <1>4 DEF Transmit, Lose
  <2>2. PICK q \in Seq(Message) : q = buffer[x]
    OBVIOUS
  <2>3. PICK a \in Nat : a = Len(q)
    OBVIOUS
  <2>4. Len(RemoveAt(q, k)) = a - 1 /\ a # 0
    <3>1. k \in DOMAIN q
      BY <2>2
    <3>2. Len(RemoveAt(q, k)) = Len(q) - 1
      BY <3>1, RemoveAtType
    <3>3. a # 0
      BY <2>3, <3>1, LenProperties
    <3> QED
      BY <2>3, <3>2, <3>3
  <2>5. PICK b \in Nat : b = a - 1
    BY <2>4
  <2>6. /\ a = Len(buffer[x]) /\ b = Len(buffer'[x]) /\ up[x]
        /\ events'[x] = Raise(events[x], a, b)
    BY <2>1, <2>2, <2>3, <2>4, <2>5 DEF Leaves
  <2>7. Blocked(x)' => b > LowWater
    BY <2>1, <2>5, <2>6, WakeRaises
  <2> QED
    BY <2>1, <2>6, <2>7 DEF WakeInv
<1>5. CASE ChannelCloses(x)
  <2>1. /\ events[x] \in Seq({"high", "low", "close"}) /\ events'[x] = Append(events[x], "close")
        /\ ~ up'[x] /\ UNCHANGED <<running, closed, allowed, woken, call>>
    BY <1>5 DEF ChannelCloses
  <2>2. PICK q \in Seq({"high", "low", "close"}) : q = events[x]
    BY <2>1
  <2>3. PICK r : r = Append(q, "close") /\ r = events'[x]
    BY <2>1, <2>2
  <2>4. Len(q) + 1 \in DOMAIN r /\ r[Len(q) + 1] = "close"
    BY <2>3, AppendProperties, LenProperties
  <2>5. Awaits(x, {"close"})'
    BY <2>3, <2>4 DEF Awaits
  <2> QED
    BY <2>1, <2>5 DEF WakeInv
<1> QED
  BY <1>1, <1>2, <1>3, <1>4, <1>5 DEF WorkerStep, ChannelNext, WorkerFails

LEMMA WakeTask ==
  ASSUME ChannelTypeOK(Message), NEW x \in Side, WakeInv(x), NEW M, TaskStep(x, M)
  PROVE  WakeInv(x)'
<1> USE DEF ChannelTypeOK
<1>1. UNCHANGED <<running, up, events, buffer, closed, allowed>>
  BY DEF TaskStep, Send, SendNext, SeeClosed, SeeOpen, SeeAllowed, SeeBlocked, Await, Wake, CallStep,
         Abandon, Returns, Takes
<1>2. ASSUME call'[x] \notin {"unclosed", "blocked", "parked"} PROVE WakeInv(x)'
  BY <1>1, <1>2, WakeRests
<1>3. CASE SendNext(x)
  <2>1. CASE SeeClosed(x) \/ SeeAllowed(x) \/ Wake(x)
    BY <1>2, <2>1 DEF SeeClosed, SeeAllowed, Wake, CallStep
  <2>2. CASE SeeOpen(x)
    <3>1. ~ closed[x] /\ call'[x] = "unclosed" /\ woken' = woken
      BY <2>2 DEF SeeOpen, CallStep
    <3> QED
      BY <1>1, <3>1, WakeRests
  <2>3. CASE SeeBlocked(x)
    <3>1. ~ allowed[x] /\ call[x] = "unclosed" /\ call'[x] = "blocked" /\ woken' = woken
      BY <2>3 DEF SeeBlocked, CallStep
    <3> QED
      BY <1>1, <3>1, WakeRests
  <2>4. CASE Await(x)
    <3>1. call[x] = "blocked" /\ call'[x] = "parked" /\ woken' = woken
      BY <2>4 DEF Await, CallStep
    <3> QED
      BY <1>1, <3>1, WakeRests
  <2> QED
    BY <1>3, <2>1, <2>2, <2>3, <2>4 DEF SendNext
<1>4. ASSUME (\E m \in M : Send(x, m)) \/ Abandon(x) \/ \E result \in {"ok", "error"} : Returns(x, result)
      PROVE  WakeInv(x)'
  BY <1>2, <1>4 DEF Send, Abandon, Returns
<1>5. CASE Takes(x)
  BY <1>1, <1>5, WakeRests DEF Takes
<1> QED
  BY <1>3, <1>4, <1>5 DEF TaskStep

(* No wake-up is lost (`send`, `notified()`, `poll_event`): a task that waits for
   room in a full or closed channel has been woken, or an event that wakes it is
   still to be handled, or the buffer has still to drain to where one is raised. *)
THEOREM WakeupsKept == Spec => []NoWakeupLost
<1> DEFINE Inv == \A x \in Side : WakeInv(x)
<1>1. ASSUME Init PROVE Inv
  <2> SUFFICES ASSUME NEW x \in Side PROVE WakeInv(x)
    OBVIOUS
  <2>1. /\ running[x] /\ up[x] /\ events[x] = <<>> /\ ~ closed[x] /\ allowed[x] /\ call[x] = "idle"
    BY <1>1 DEF Init, ChannelInit
  <2>2. ~ Blocked(x)
    BY <2>1 DEF Blocked
  <2> QED
    BY <2>1, <2>2 DEF WakeInv
<1>2. ASSUME IInv, Inv, [Next]_vars PROVE Inv'
  <2> SUFFICES ASSUME NEW x \in Side PROVE WakeInv(x)'
    OBVIOUS
  <2>1. ChannelTypeOK(Message) /\ WakeInv(x)
    BY <1>2, IInvParts
  <2>2. CASE UNCHANGED channelVars
    BY <2>1, <2>2, WakeRests DEF channelVars
  <2>3. ASSUME NEW z \in Side, NEW M, WorkerStep(z) \/ TaskStep(z, M) PROVE WakeInv(x)'
    <3>1. CASE z = x
      BY <2>1, <2>3, <3>1, WakeWorker, WakeTask
    <3>2. CASE z # x
      BY <2>1, <2>3, <3>2, Elsewhere, WakeRests
    <3> QED
      BY <3>1, <3>2
  <2> QED
    BY <1>2, <2>2, <2>3, StepKinds
<1>3. ASSUME Inv PROVE NoWakeupLost
  <2> SUFFICES ASSUME NEW x \in Side, call[x] = "parked", ~ woken[x] PROVE WakeUnderway(x)
    BY DEF NoWakeupLost, WakeUnderway
  <2>1. WakeInv(x)
    BY <1>3
  <2>2. running[x] /\ ~ closed[x] /\ ~ allowed[x]
    BY <2>1 DEF WakeInv
  <2>3. CASE NoLow(x) /\ up[x]
    <3>1. Blocked(x)
      BY <2>2, <2>3 DEF Blocked
    <3> QED
      BY <2>1, <2>2, <2>3, <3>1 DEF WakeInv, WakeUnderway
  <2>4. CASE ~ NoLow(x)
    BY <2>2, <2>4 DEF NoLow, WakeUnderway, Awaits
  <2>5. CASE ~ up[x]
    <3>1. Awaits(x, {"close"})
      BY <2>1, <2>2, <2>5 DEF WakeInv
    <3> QED
      BY <2>2, <3>1 DEF WakeUnderway, Awaits
  <2> QED
    BY <2>3, <2>4, <2>5
<1> HIDE DEF Inv
<1> QED
  BY <1>1, <1>2, <1>3, Invariance, PTL DEF Spec
=============================================================================
