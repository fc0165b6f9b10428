----------------------------- MODULE FileTransfer -----------------------------
(***************************************************************************)
(* The file protocol of transfer.rs, `run_sender` and `run_receiver`, over *)
(* a WebRTC data channel, and the closing of the peer connection after it  *)
(* (webrtc/nostr_sender.rs, webrtc/nostr_receiver.rs).                     *)
(*                                                                         *)
(* The sender hands over numbered chunks and then DONE with their count;   *)
(* the receiver appends them to a partial file, moves it into place when   *)
(* DONE agrees with what it has, and answers ACK.                          *)
(*                                                                         *)
(* A chunk is its position in the payload; what its encryption adds is     *)
(* that number and contents cannot be changed.  The byte count in DONE is  *)
(* abstracted to the chunk count.                                          *)
(***************************************************************************)
EXTENDS DataChannel

CONSTANTS
  MaxTotal,    \* bound on the chunks of a payload
  MaxChunks,   \* MAX_CHUNKS, what the 16-bit chunk index can tell apart
  FileFaults,  \* may reading, writing or moving a file fail?
  Timeouts     \* may STALL_TIMEOUT or ACK_TIMEOUT pass?

ASSUME FileAssumption ==
  /\ MaxTotal \in Nat
  /\ MaxChunks \in Nat \ {0}
  /\ FileFaults \in BOOLEAN /\ Timeouts \in BOOLEAN

Message ==
  [type : {"chunk"}, index : 0 .. MaxChunks - 1, body : 0 .. MaxTotal - 1]
    \cup [type : {"done"}, count : 0 .. MaxTotal] \cup [type : {"ack"}]

ASSUME NoneAssumption == None \notin Message \cup Seq(0 .. MaxTotal - 1)

VARIABLES
  total,   \* chunks of the payload
  pc,      \* where the task at each end is
  sent,    \* `chunks_sent`
  part,    \* the chunks in the `.part` file, or None
  saved    \* the chunks in the file moved into place, or None

taskVars == <<total, pc, sent, part, saved>>
vars == <<channelVars, taskVars>>

Ended == {"ok", "failed"}
SenderPC == {"reading", "sending", "sealing", "awaiting"} \cup Ended
ReceiverPC == {"receiving", "persisting", "acking"} \cup Ended

TypeOK ==
  /\ ChannelTypeOK(Message)
  /\ total \in 0 .. MaxTotal
  /\ pc \in [Side -> SenderPC \cup ReceiverPC]
  /\ pc["sender"] \in SenderPC /\ pc["receiver"] \in ReceiverPC
  /\ sent \in 0 .. MaxChunks
  /\ part \in Seq(0 .. MaxTotal - 1) \cup {None}
  /\ saved \in Seq(0 .. MaxTotal - 1) \cup {None}

Init ==
  /\ ChannelInit
  /\ total \in 0 .. MaxTotal
  /\ pc = [x \in Side |-> IF x = "sender" THEN "reading" ELSE "receiving"]
  /\ sent = 0
  /\ part = <<>>
  /\ saved = None

Goto(x, to) == pc' = [pc EXCEPT ![x] = to]

(* `send` has returned this to the task at end x. *)
Returns(x, result) ==
  /\ call[x] = result
  /\ call' = [call EXCEPT ![x] = "idle"]
  /\ message' = [message EXCEPT ![x] = None]
  /\ UNCHANGED <<running, up, events, buffer, inbox, closed, allowed, woken>>

-----------------------------------------------------------------------------
(* run_sender. *)

BugIndexWraps == TRUE
WithinRange == sent < MaxChunks

ReadChunk ==
  /\ pc["sender"] = "reading" /\ sent < total
  /\ WithinRange
  /\ Send("sender", [type |-> "chunk", index |-> sent % MaxChunks, body |-> sent])
  /\ Goto("sender", "sending")
  /\ UNCHANGED <<total, sent, part, saved>>

ChunkSent ==
  /\ pc["sender"] = "sending"
  /\ Returns("sender", "ok")
  /\ sent' = sent + 1
  /\ Goto("sender", "reading")
  /\ UNCHANGED <<total, part, saved>>

(* Past the last chunk: DONE, with no stall window around it. *)
ReadEnd ==
  /\ pc["sender"] = "reading" /\ sent = total
  /\ Send("sender", [type |-> "done", count |-> sent])
  /\ Goto("sender", "sealing")
  /\ UNCHANGED <<total, sent, part, saved>>

DoneSent ==
  /\ pc["sender"] = "sealing"
  /\ Returns("sender", "ok")
  /\ Goto("sender", "awaiting")
  /\ UNCHANGED <<total, sent, part, saved>>

TooLong == sent < total /\ ~ WithinRange

(* The payload is too long, or it cannot be opened or read to its end. *)
SourceFails ==
  /\ pc["sender"] = "reading"
  /\ FileFaults \/ TooLong
  /\ Goto("sender", "failed")
  /\ UNCHANGED <<channelVars, total, sent, part, saved>>

SendFails(x) ==
  /\ pc[x] \in {"sending", "sealing", "acking"}
  /\ Returns(x, "error")
  /\ Goto(x, "failed")
  /\ UNCHANGED <<total, sent, part, saved>>

(* STALL_TIMEOUT around the hand-over of a chunk. *)
SendStalls ==
  /\ Timeouts
  /\ pc["sender"] = "sending"
  /\ Abandon("sender")
  /\ Goto("sender", "failed")
  /\ UNCHANGED <<total, sent, part, saved>>

(* `recv`: the next message, or None when the worker has stopped. *)
Takes(x) ==
  /\ inbox[x] # <<>>
  /\ inbox' = [inbox EXCEPT ![x] = Tail(@)]
  /\ UNCHANGED <<running, up, events, buffer, closed, allowed, woken, call, message>>
BugNoStallWindow(x) == inbox[x] = <<>> /\ ~ running[x]
Nothing(x) == inbox[x] = <<>> /\ (Timeouts \/ ~ running[x])

(* wait_for_ack: anything but ACK is ignored. *)
TakeAck ==
  /\ pc["sender"] = "awaiting"
  /\ Takes("sender")
  /\ pc' = IF Head(inbox["sender"]).type = "ack" THEN [pc EXCEPT !["sender"] = "ok"] ELSE pc
  /\ UNCHANGED <<total, sent, part, saved>>

NoAck ==
  /\ pc["sender"] = "awaiting"
  /\ Nothing("sender")
  /\ Goto("sender", "failed")
  /\ UNCHANGED <<channelVars, total, sent, part, saved>>

-----------------------------------------------------------------------------
(* run_receiver. *)

BugAnyIndex(m) == m.type = "chunk"
NextChunk(m) == m.type = "chunk" /\ m.index = Len(part)
Seals(m) == m.type = "done" /\ m.count = Len(part) /\ m.count <= MaxChunks

(* A failure up to DONE removes the partial file. *)
CleanUp == part' = None /\ UNCHANGED saved

TakeChunk ==
  /\ pc["receiver"] = "receiving"
  /\ Takes("receiver")
  /\ NextChunk(Head(inbox["receiver"]))
  /\ part' = Append(part, Head(inbox["receiver"]).body)
  /\ UNCHANGED <<total, pc, sent, saved>>

TakeDone ==
  /\ pc["receiver"] = "receiving"
  /\ Takes("receiver")
  /\ Seals(Head(inbox["receiver"]))
  /\ Goto("receiver", "persisting")
  /\ UNCHANGED <<total, sent, part, saved>>

(* A chunk out of order, a DONE that disagrees, or a write that fails. *)
RejectMessage ==
  /\ pc["receiver"] = "receiving"
  /\ Takes("receiver")
  /\ LET m == Head(inbox["receiver"]) IN FileFaults \/ ~ (NextChunk(m) \/ Seals(m))
  /\ CleanUp
  /\ Goto("receiver", "failed")
  /\ UNCHANGED <<total, sent>>

NoMessage ==
  /\ pc["receiver"] = "receiving"
  /\ Nothing("receiver")
  /\ CleanUp
  /\ Goto("receiver", "failed")
  /\ UNCHANGED <<channelVars, total, sent>>

(* The partial file cannot be created. *)
NoFile ==
  /\ FileFaults
  /\ pc["receiver"] = "receiving" /\ part = <<>>
  /\ CleanUp
  /\ Goto("receiver", "failed")
  /\ UNCHANGED <<channelVars, total, sent>>

(* Flushed, synced, moved into place; then ACK. *)
BugAckFirst ==
  /\ pc["receiver"] = "persisting"
  /\ Send("receiver", [type |-> "ack"])
  /\ Goto("receiver", "acking")
  /\ UNCHANGED <<total, sent, part, saved>>
Persist ==
  /\ pc["receiver"] = "persisting"
  /\ saved' = part
  /\ part' = None
  /\ Send("receiver", [type |-> "ack"])
  /\ Goto("receiver", "acking")
  /\ UNCHANGED <<total, sent>>

PersistFails ==
  /\ FileFaults
  /\ pc["receiver"] = "persisting"
  /\ Goto("receiver", "failed")
  /\ UNCHANGED <<channelVars, total, sent, part, saved>>

AckSent ==
  /\ pc["receiver"] = "acking"
  /\ Returns("receiver", "ok")
  /\ Goto("receiver", "ok")
  /\ UNCHANGED <<total, sent, part, saved>>

-----------------------------------------------------------------------------
(* `peer.close()` after the protocol, a command behind one the task may have
   given up on.  The receiver waits 200 ms first; a network that works is taken
   to need no longer. *)
ClosePeer(x) ==
  /\ pc[x] \in Ended
  /\ ~ Queued(x) /\ events[x] = <<>>
  /\ x = "receiver" /\ ~ LinkFaults => buffer[x] = <<>>
  /\ StopWorker(x)
  /\ UNCHANGED taskVars

Channel(x) == ChannelNext(x) /\ UNCHANGED taskVars
Sending(x) == SendNext(x) /\ UNCHANGED taskVars

Next ==
  \/ \E x \in Side : Channel(x) \/ Sending(x) \/ SendFails(x) \/ ClosePeer(x)
  \/ ReadChunk \/ ChunkSent \/ ReadEnd \/ DoneSent \/ SourceFails \/ SendStalls
  \/ TakeAck \/ NoAck
  \/ TakeChunk \/ TakeDone \/ RejectMessage \/ NoMessage \/ NoFile
  \/ Persist \/ PersistFails \/ AckSent

Spec == Init /\ [][Next]_vars

(* The worker loops and the two tasks run; a wait that has a time limit and
   passes it ends, if time limits pass at all. *)
ProgramFairness ==
  /\ \A x \in Side :
       /\ WF_vars(PollEvent(x) /\ UNCHANGED taskVars)
       /\ WF_vars((HandOver(x) \/ Refuse(x)) /\ UNCHANGED taskVars)
       /\ WF_vars(Sending(x))
       /\ WF_vars(SendFails(x))
       /\ WF_vars(ClosePeer(x))
  /\ WF_vars(ReadChunk \/ ChunkSent \/ ReadEnd \/ DoneSent \/ (TooLong /\ SourceFails))
  /\ WF_vars(SendStalls)
  /\ WF_vars(TakeAck \/ NoAck)
  /\ WF_vars(TakeChunk \/ TakeDone \/ RejectMessage \/ NoMessage)
  /\ WF_vars(Persist \/ AckSent)

(* A network that works; and one that may stop for good. *)
NetworkFairness == \A x \in Side : WF_vars(\E k \in DOMAIN buffer[x] : Transmit(x, k) /\ UNCHANGED taskVars)
FairSpec == Spec /\ ProgramFairness /\ NetworkFairness
StalledSpec == Spec /\ ProgramFairness

-----------------------------------------------------------------------------
Payload(n) == [i \in 1 .. n |-> i - 1]

(* A file moved into place is the payload, whole and in order, also when the
   transport reorders or drops messages ("breaks the transfer rather than
   degrading it") and whatever else fails. *)
SavedIsWhole == saved # None => saved = Payload(total)

(* The sender runs ahead of the network by the high watermark, the message that
   crosses it, and one more: the flag it reads may be as old as the worker's
   last look at the stack's events, but not older. *)
BackpressureHolds == \A x \in Side : Len(buffer[x]) <= HighWater + 2

(* The protocol delivers the file. *)
Deliver == INSTANCE Delivery WITH
  held <- saved = Payload(total),
  sender <- IF pc["sender"] \in Ended THEN pc["sender"] ELSE "active",
  receiver <- IF pc["receiver"] \in Ended THEN pc["receiver"] ELSE "active"
ImplementsDelivery == Deliver!Spec

(* With a network that works and nothing else failing, every payload the chunk
   index can number arrives, and both ends know: no wake-up of a sender that
   waits for room is lost. *)
Completes == <>(total <= MaxChunks => saved = Payload(total) /\ pc = [x \in Side |-> "ok"])

(* Whatever the network does, and although a channel that closes is not always
   noticed, the stall windows end both sides, except a sender whose DONE waits
   for room on a network that has stopped. *)
WaitsForRoom == pc["sender"] = "sealing" /\ call["sender"] = "parked" /\ ~ closed["sender"]
NobodyWaitsForever ==
  /\ <>(pc["receiver"] \in Ended)
  /\ <>[](pc["sender"] \in Ended \/ WaitsForRoom)

(* A channel that closes releases the sender that waits for room in it. *)
CloseReleasesSender ==
  \A x \in Side : closed[x] /\ call[x] = "parked" ~> call[x] # "parked"
=============================================================================
