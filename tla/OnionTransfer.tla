---------------------------- MODULE OnionTransfer ----------------------------
(***************************************************************************)
(* One file over an onion service (tor/transfer.rs, tor/handshake.rs,      *)
(* tor/wire.rs): the accept loop that serves one stream at a time, the     *)
(* handshake hello - offer - claim - confirm - ready, the content and its  *)
(* acknowledgement, and the clients that dial.                             *)
(*                                                                         *)
(* The conversation takes turns, so a stream carries at most one frame.  A *)
(* closed stream may still hold the frame sent last: its reader gets that  *)
(* frame, or only the end.  The content stands for run_sender and          *)
(* run_receiver, which FileTransfer models.                                *)
(***************************************************************************)
EXTENDS Naturals, Sequences, FiniteSets

CONSTANTS
  Clients,      \* all who come to know the address
  MaxFailed,    \* MAX_FAILED_HANDSHAKES
  MaxDials,     \* bound on the times one client dials
  MaxCuts,      \* bound on the streams the network cuts
  None

ASSUME OnionTransferAssumption ==
  /\ MaxFailed \in Nat \ {0} /\ {MaxDials, MaxCuts} \subseteq Nat
  /\ None \notin Clients \cup {"hello", "offer", "claim", "confirm", "cancel",
                             "ready", "content", "ack"}

VARIABLES
  server,     \* "off", "accepting", "serving", "sending", "sent", "failed"
  holders,    \* who holds the password
  conn,       \* the client served
  requests,   \* stream requests not accepted yet
  failures,   \* failed connections
  client,     \* each client: where it stands, its dials
  stream,     \* each client's stream: "none", "up" or "closed", and the frame on it
  cuts

onionVars == <<server, holders, conn, requests, failures, client, stream, cuts>>

NoStream == [st |-> "none", frame |-> None]

OnionInit ==
  /\ server = "off" /\ holders = {} /\ conn = None
  /\ requests = <<>> /\ failures = 0
  /\ client = [c \in Clients |-> [st |-> "idle", dials |-> 0]]
  /\ stream = [c \in Clients |-> NoStream]
  /\ cuts = 0

Done == {"ok", "cancelled", "failed"}
Closed(c) == [stream EXCEPT ![c].st = "closed"]
\* A frame written into a stream that is closed is lost.
Carrying(c, f) ==
  [stream EXCEPT ![c].frame = IF stream[c].st = "up" THEN f ELSE None]
At(c, st) == [client EXCEPT ![c].st = st]

\* A frame can be read from an open stream, and from one closed since.
Readable(c, f) == stream[c].st # "none" /\ stream[c].frame = f
\* The end of the stream is seen: nothing comes any more.
Ended(c) == stream[c].st = "closed"

(***************************************************************************)
(* The accept loop, serve_until_sent.                                      *)
(***************************************************************************)

\* The service is published and its listener handed to the loop.
Launch(hs) ==
  /\ server = "off"
  /\ server' = "accepting" /\ holders' = hs
  /\ UNCHANGED <<conn, requests, failures, client, stream, cuts>>

\* The next request is taken.  A client that has given up meanwhile is found
\* out when the stream is accepted, which ends the whole wait, or afterwards.
\* A request that is there is taken even at the deadline.
Accept ==
  /\ server = "accepting" /\ requests # <<>>
  /\ requests' = Tail(requests)
  /\ LET c == Head(requests)
     IN  \/ /\ client[c].st = "dialling"
            /\ server' = "serving" /\ conn' = c
            /\ client' = At(c, "helloed")
            /\ stream' = [stream EXCEPT ![c] = [st |-> "up", frame |-> "hello"]]
         \/ /\ client[c].st # "dialling"
            /\ server' = "failed" /\ UNCHANGED <<conn, client, stream>>
         \/ /\ client[c].st # "dialling"
            /\ server' = "serving" /\ conn' = c
            /\ stream' = Closed(c) /\ UNCHANGED client
  /\ UNCHANGED <<holders, failures, cuts>>

\* WAIT_TIMEOUT: the deadline bounds the wait for a connection and nothing
\* else.
WaitTimesOut ==
  /\ server = "accepting" /\ requests = <<>>
  /\ server' = "failed"
  /\ UNCHANGED <<holders, conn, requests, failures, client, stream, cuts>>

\* A connection that did not deliver: counted, and too many end the wait.
Failed ==
  /\ failures' = failures + 1
  /\ server' = IF failures' >= MaxFailed THEN "failed" ELSE "accepting"
  /\ stream' = Closed(conn)
  /\ conn' = None
  /\ UNCHANGED <<holders, requests, client, cuts>>

(***************************************************************************)
(* The sender's side of a connection, serve_connection and                 *)
(* run_service_handshake.                                                  *)
(***************************************************************************)

ServeHello ==
  /\ server = "serving" /\ Readable(conn, "hello")
  /\ stream' = Carrying(conn, "offer")
  /\ UNCHANGED <<holders, server, conn, requests, failures, client, cuts>>

\* As it would be if a claim that does not open were taken for one.
BugTakesAnyClaim(c) == c \in Clients

\* Only the password opens the claim.
Authenticates(c) == c \in holders

ServeClaim ==
  /\ server = "serving" /\ Readable(conn, "claim")
  /\ IF Authenticates(conn)
       THEN /\ stream' = Carrying(conn, "confirm")
            /\ UNCHANGED <<holders, server, conn, requests, failures, client, cuts>>
       ELSE Failed

ServeReady ==
  /\ server = "serving" /\ Readable(conn, "ready")
  /\ server' = "sending"
  /\ stream' = Carrying(conn, "content")
  /\ UNCHANGED <<holders, conn, requests, failures, client, cuts>>

\* A receiver that declines is not a failed connection.
ServeCancel ==
  /\ server = "serving" /\ Readable(conn, "cancel")
  /\ server' = "accepting"
  /\ stream' = Closed(conn) /\ conn' = None
  /\ UNCHANGED <<holders, requests, failures, client, cuts>>

\* As it would be if the content's end were taken for its receipt.
BugContentIsEnough == Readable(conn, "ack") \/ Readable(conn, "content")

\* run_sender returns with the acknowledgement.
Acknowledged == Readable(conn, "ack")

ServeAck ==
  /\ server = "sending" /\ Acknowledged
  /\ server' = "sent"
  /\ stream' = Closed(conn) /\ conn' = None
  /\ UNCHANGED <<holders, requests, failures, client, cuts>>

\* HANDSHAKE_TIMEOUT, or the end of the stream, before the answer to the
\* handshake; with it done, run_sender's own stall window or the end.
BugNoHandshakeTimeout ==
  server = "sending" \/ (server = "serving" /\ Ended(conn))
GivesUp == server \in {"serving", "sending"}

ConnectionFails == GivesUp /\ Failed

(***************************************************************************)
(* The clients: `tor receive`, and whoever found the address.              *)
(***************************************************************************)

\* TorClient::connect: the request waits for the service to come round.
Dial(c) ==
  /\ client[c].st \in {"idle", "failed", "ok", "cancelled"} /\ client[c].dials < MaxDials
  /\ \A i \in DOMAIN requests : requests[i] # c
  /\ conn # c
  /\ server \notin {"off", "sent", "failed"}
  /\ requests' = Append(requests, c)
  /\ client' = [client EXCEPT ![c] = [st |-> "dialling", dials |-> @.dials + 1]]
  /\ stream' = [stream EXCEPT ![c] = NoStream]
  /\ UNCHANGED <<holders, server, conn, failures, cuts>>

\* CONNECT_TIMEOUT, or a service that is gone.
ConnectFails(c) ==
  /\ client[c].st = "dialling"
  /\ client' = At(c, "failed")
  /\ UNCHANGED <<holders, server, conn, requests, failures, stream, cuts>>

\* run_client_handshake: the offer is answered with the claim, and the
\* confirm shows what is on offer.
TakeOffer(c) ==
  /\ client[c].st = "helloed" /\ Readable(c, "offer")
  /\ client' = At(c, "claimed")
  /\ stream' = Carrying(c, "claim")
  /\ UNCHANGED <<holders, server, conn, requests, failures, cuts>>

TakeConfirm(c) ==
  /\ client[c].st = "claimed" /\ Readable(c, "confirm")
  /\ client' = At(c, "prompt")
  /\ stream' = Carrying(c, None)
  /\ UNCHANGED <<holders, server, conn, requests, failures, cuts>>

\* The destination prompt: taken, or declined.
Decide(c, ready) ==
  /\ client[c].st = "prompt"
  /\ client' = At(c, IF ready THEN "receiving" ELSE "declined")
  /\ stream' = Carrying(c, IF ready THEN "ready" ELSE "cancel")
  /\ UNCHANGED <<holders, server, conn, requests, failures, cuts>>

\* run_receiver: the whole file is saved before it is acknowledged.
SaveContent(c) ==
  /\ client[c].st = "receiving" /\ Readable(c, "content")
  /\ client' = At(c, "saved")
  /\ stream' = Carrying(c, "ack")
  /\ UNCHANGED <<holders, server, conn, requests, failures, cuts>>

\* wait_for_close: the sender's close is the receipt for the last frame, and
\* its absence after LINGER_TIMEOUT is reported, not propagated.
WaitForClose(c) ==
  /\ client[c].st \in {"saved", "declined"}
  /\ client' = At(c, IF client[c].st = "saved" THEN "ok" ELSE "cancelled")
  /\ \E f \in {stream[c].frame, None} :
       stream' = [stream EXCEPT ![c] = [st |-> "closed", frame |-> f]]
  /\ UNCHANGED <<holders, server, conn, requests, failures, cuts>>

\* The end of the stream, a stall, or a file that cannot be written.
ClientFails(c) ==
  /\ client[c].st \in {"helloed", "claimed", "prompt", "receiving"}
  /\ client[c].st \in {"helloed", "claimed"} => Ended(c)
  /\ client' = At(c, "failed")
  /\ stream' = Closed(c)
  /\ UNCHANGED <<holders, server, conn, requests, failures, cuts>>

\* External: the network cuts a stream, and the frame on it may be lost.
Cut(c) ==
  /\ stream[c].st = "up" /\ cuts < MaxCuts
  /\ cuts' = cuts + 1
  /\ \E f \in {stream[c].frame, None} :
       stream' = [stream EXCEPT ![c] = [st |-> "closed", frame |-> f]]
  /\ UNCHANGED <<holders, server, conn, requests, failures, client>>

\* A stranger walks away, or writes anything but its part: either way the
\* service sees the end of it.
StrangerLeaves(c) ==
  /\ c \notin holders
  /\ client[c].st \in {"helloed", "claimed"} /\ stream[c].st = "up"
  /\ client' = At(c, "failed")
  /\ stream' = Closed(c)
  /\ UNCHANGED <<holders, server, conn, requests, failures, cuts>>

(***************************************************************************)
(* Who is scheduled.                                                       *)
(***************************************************************************)

ServerStep ==
  \/ Accept \/ WaitTimesOut
  \/ ServeHello \/ ServeClaim \/ ServeReady \/ ServeCancel \/ ServeAck
  \/ ConnectionFails

\* What a receiver does once it dialled.
ClientStep(c) ==
  \/ ConnectFails(c) \/ TakeOffer(c) \/ TakeConfirm(c)
  \/ SaveContent(c) \/ WaitForClose(c) \/ ClientFails(c)
=============================================================================
