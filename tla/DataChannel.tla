----------------------------- MODULE DataChannel -----------------------------
(***************************************************************************)
(* One WebRTC data channel of `ptransfer`, both ends: the worker loop      *)
(* `run_peer` of webrtc/common.rs, the flags and queues it shares with the *)
(* task that owns the channel, and the steps of `RtcDataChannel::send`.    *)
(*                                                                         *)
(* The protocol stack below the worker is external: it buffers what it is  *)
(* given, moves it to the peer, and raises events when its buffer crosses  *)
(* a watermark and when the channel closes.  The worker handles all events *)
(* raised before it looks at its commands.                                 *)
(*                                                                         *)
(* The module has no specification of its own: FileTransfer adds the tasks *)
(* at the two ends.                                                        *)
(***************************************************************************)
EXTENDS Integers, SequencesExt

CONSTANTS
  HighWater,   \* BUFFERED_AMOUNT_HIGH, in messages
  LowWater,    \* BUFFERED_AMOUNT_LOW
  Reliable,    \* is the transport reliable and ordered, as Messenger demands?
  LinkFaults,  \* may a channel close or a worker stop by itself?
  None

ASSUME WatermarkAssumption ==
  /\ LowWater \in Nat /\ HighWater \in Nat
  /\ LowWater < HighWater
  /\ Reliable \in BOOLEAN /\ LinkFaults \in BOOLEAN

Side == {"sender", "receiver"}
Peer(x) == IF x = "sender" THEN "receiver" ELSE "sender"

VARIABLES
  running,   \* has run_peer not returned?
  up,        \* does the stack still have the channel?
  events,    \* events raised by the stack and not yet polled
  buffer,    \* the stack's send buffer
  inbox,     \* `message_rx`
  closed,    \* `closed`
  allowed,   \* `send_allowed`
  woken,     \* has `send_ready` been notified since the last `notified()`?
  call,      \* where the task's `send` is, or its result
  message    \* the message it sends, or None

channelVars == <<running, up, events, buffer, inbox, closed, allowed, woken, call, message>>

(* "handed": the worker has the command.  "abandoned": so, and the task has
   given up on it. *)
CallState == {"idle", "ticketed", "unclosed", "blocked", "parked", "handed", "abandoned", "ok", "error"}

ChannelTypeOK(Message) ==
  /\ running \in [Side -> BOOLEAN]
  /\ up \in [Side -> BOOLEAN]
  /\ events \in [Side -> Seq({"high", "low", "close"})]
  /\ buffer \in [Side -> Seq(Message)]
  /\ inbox \in [Side -> Seq(Message)]
  /\ closed \in [Side -> BOOLEAN]
  /\ allowed \in [Side -> BOOLEAN]
  /\ woken \in [Side -> BOOLEAN]
  /\ call \in [Side -> CallState]
  /\ message \in [Side -> Message \cup {None}]

(* new_channel_parts, of a channel that has opened at both ends. *)
ChannelInit ==
  /\ running = [x \in Side |-> TRUE]
  /\ up = [x \in Side |-> TRUE]
  /\ events = [x \in Side |-> <<>>]
  /\ buffer = [x \in Side |-> <<>>]
  /\ inbox = [x \in Side |-> <<>>]
  /\ closed = [x \in Side |-> FALSE]
  /\ allowed = [x \in Side |-> TRUE]
  /\ woken = [x \in Side |-> FALSE]
  /\ call = [x \in Side |-> "idle"]
  /\ message = [x \in Side |-> None]

-----------------------------------------------------------------------------
(* The worker. *)

BugCloseWakesNobody(x, event) ==
  /\ closed' = [closed EXCEPT ![x] = @ \/ event = "close"]
  /\ allowed' = [allowed EXCEPT ![x] = IF event = "close" THEN @ ELSE event = "low"]
  /\ woken' = [woken EXCEPT ![x] = @ \/ event = "low"]
Handle(x, event) ==
  /\ closed' = [closed EXCEPT ![x] = @ \/ event = "close"]
  /\ allowed' = [allowed EXCEPT ![x] = IF event = "close" THEN @ ELSE event = "low"]
  /\ woken' = [woken EXCEPT ![x] = @ \/ event \in {"low", "close"}]

(* poll_event.  A closed channel keeps its `message_tx`. *)
PollEvent(x) ==
  /\ running[x] /\ events[x] # <<>>
  /\ Handle(x, Head(events[x]))
  /\ events' = [events EXCEPT ![x] = Tail(@)]
  /\ UNCHANGED <<running, up, buffer, inbox, call, message>>

(* What a change of the buffer's length raises. *)
Raise(queue, before, after) ==
  CASE before <= HighWater /\ after > HighWater -> Append(queue, "high")
    [] before > LowWater /\ after <= LowWater -> Append(queue, "low")
    [] OTHER -> queue

(* The loop takes a command only once it has polled all events. *)
Queued(x) == call[x] \in {"handed", "abandoned"}
BugCommandsFirst(x) == running[x] /\ Queued(x)
TakesCommand(x) == running[x] /\ Queued(x) /\ events[x] = <<>>

(* The answer to a command, if anybody still waits for it. *)
Answered(x, result) ==
  /\ call' = [call EXCEPT ![x] = IF @ = "handed" THEN result ELSE "idle"]
  /\ message' = [message EXCEPT ![x] = None]

(* PeerCommand::Send. *)
HandOver(x) ==
  /\ TakesCommand(x)
  /\ up[x]
  /\ buffer' = [buffer EXCEPT ![x] = Append(@, message[x])]
  /\ events' = [events EXCEPT ![x] = Raise(@, Len(buffer[x]), Len(buffer[x]) + 1)]
  /\ Answered(x, "ok")
  /\ UNCHANGED <<running, up, inbox, closed, allowed, woken>>

Refuse(x) ==
  /\ TakesCommand(x)
  /\ ~ up[x]
  /\ Answered(x, "error")
  /\ UNCHANGED <<running, up, events, buffer, inbox, closed, allowed, woken>>

(* run_peer returns: senders are woken, the inbox gets nothing more, and a
   command it has not taken is answered by dropping it. *)
StopWorker(x) ==
  /\ running[x]
  /\ running' = [running EXCEPT ![x] = FALSE]
  /\ closed' = [closed EXCEPT ![x] = TRUE]
  /\ woken' = [woken EXCEPT ![x] = TRUE]
  /\ IF Queued(x) THEN Answered(x, "error") ELSE UNCHANGED <<call, message>>
  /\ UNCHANGED <<up, events, buffer, inbox, allowed>>

-----------------------------------------------------------------------------
(* The stack and the network. *)

(* A message leaves the buffer for the peer's inbox: the oldest, or, over a
   transport that is not what Messenger demands, any. *)
Leaves(x, k) ==
  /\ running[x] /\ up[x]
  /\ k \in DOMAIN buffer[x]
  /\ Reliable => k = 1
  /\ buffer' = [buffer EXCEPT ![x] = RemoveAt(@, k)]
  /\ events' = [events EXCEPT ![x] = Raise(@, Len(buffer[x]), Len(buffer[x]) - 1)]

Transmit(x, k) ==
  /\ Leaves(x, k)
  /\ running[Peer(x)] /\ up[Peer(x)]
  /\ inbox' = [inbox EXCEPT ![Peer(x)] = Append(@, buffer[x][k])]
  /\ UNCHANGED <<running, up, closed, allowed, woken, call, message>>

Lose(x, k) ==
  /\ ~ Reliable
  /\ Leaves(x, k)
  /\ UNCHANGED <<running, up, inbox, closed, allowed, woken, call, message>>

(* OnClose, OnError: the stack gives the channel up; the other end may never
   hear of it. *)
ChannelCloses(x) ==
  /\ LinkFaults
  /\ running[x] /\ up[x]
  /\ up' = [up EXCEPT ![x] = FALSE]
  /\ buffer' = [buffer EXCEPT ![x] = <<>>]
  /\ events' = [events EXCEPT ![x] = Append(@, "close")]
  /\ UNCHANGED <<running, inbox, closed, allowed, woken, call, message>>

(* A timer error, or no UDP reader left. *)
WorkerFails(x) == LinkFaults /\ StopWorker(x)

-----------------------------------------------------------------------------
(* `RtcDataChannel::send`, in the task that owns the channel. *)

(* A step of the call that changes nothing else. *)
CallStep(x, from, to) ==
  /\ call[x] = from
  /\ call' = [call EXCEPT ![x] = to]
  /\ UNCHANGED <<running, up, events, buffer, inbox, closed, allowed, message>>

(* `notified()` comes before the flags are read. *)
TakeTicket(x) == woken' = [woken EXCEPT ![x] = FALSE]

Send(x, m) ==
  /\ call[x] = "idle"
  /\ TakeTicket(x)
  /\ call' = [call EXCEPT ![x] = "ticketed"]
  /\ message' = [message EXCEPT ![x] = m]
  /\ UNCHANGED <<running, up, events, buffer, inbox, closed, allowed>>

SeeClosed(x) == closed[x] /\ CallStep(x, "ticketed", "error") /\ UNCHANGED woken
SeeOpen(x) == ~ closed[x] /\ CallStep(x, "ticketed", "unclosed") /\ UNCHANGED woken
SeeAllowed(x) ==
  /\ allowed[x]
  /\ CallStep(x, "unclosed", IF running[x] THEN "handed" ELSE "error")
  /\ UNCHANGED woken

SeeBlocked(x) == ~ allowed[x] /\ CallStep(x, "unclosed", "blocked") /\ UNCHANGED woken

BugTicketTakenLate(x) == CallStep(x, "blocked", "parked") /\ TakeTicket(x)
Await(x) == CallStep(x, "blocked", "parked") /\ UNCHANGED woken

Wake(x) == woken[x] /\ CallStep(x, "parked", "ticketed") /\ TakeTicket(x)

(* The call is dropped where it waits: for room, or for the worker's answer to
   a command, which the worker then still carries out. *)
Abandon(x) ==
  /\ \/ call[x] = "parked" /\ ~ woken[x]
     \/ call[x] = "handed"
  /\ call' = [call EXCEPT ![x] = IF @ = "handed" THEN "abandoned" ELSE "idle"]
  /\ message' = [message EXCEPT ![x] = IF call[x] = "handed" THEN @ ELSE None]
  /\ UNCHANGED <<running, up, events, buffer, inbox, closed, allowed, woken>>

SendNext(x) == SeeClosed(x) \/ SeeOpen(x) \/ SeeAllowed(x) \/ SeeBlocked(x) \/ Await(x) \/ Wake(x)

ChannelNext(x) ==
  \/ PollEvent(x)
  \/ HandOver(x) \/ Refuse(x)
  \/ \E k \in DOMAIN buffer[x] : Transmit(x, k)
  \/ \E k \in DOMAIN buffer[x] : Lose(x, k)
  \/ ChannelCloses(x)
  \/ WorkerFails(x)
=============================================================================
