------------------------- MODULE CodeExchange_proofs -------------------------
(***************************************************************************)
(* Theorems about CodeExchange and OnionTransfer beneath it, for any       *)
(* receivers of the code and any strangers, whatever is cut, refused or    *)
(* abandoned.                                                              *)
(***************************************************************************)
EXTENDS CodeExchange, SequenceTheorems, TLAPS

Frames == {"hello", "offer", "claim", "confirm", "cancel", "ready", "content", "ack"}

Stands == {"idle", "dialling", "helloed", "claimed", "prompt", "receiving",
           "declined", "saved"} \cup Done

OnionType ==
  /\ client \in [Clients -> [st : Stands, dials : Nat]]
  /\ stream \in [Clients -> [st : {"none", "up", "closed"}, frame : Frames \cup {None}]]
  /\ requests \in Seq(Clients) /\ conn \in Clients \cup {None}
  /\ server \in {"serving", "sending"} => conn \in Clients

(* Only who holds the password gets as far as the confirm, and on from there. *)
Admitted ==
  /\ \A c \in Clients : client[c].st \in {"prompt", "receiving", "saved", "ok"} => c \in holders
  /\ \A c \in Clients : stream[c].frame = "confirm" => c \in holders

SessionType ==
  /\ receiver = [r \in Receivers |-> receiver[r]]
  /\ accepted \in Receivers \cup {None}
  /\ responses \subseteq Receivers

(* Whoever the password was meant for is the one accepted. *)
TrustInv ==
  /\ holders \subseteq {accepted} /\ held \subseteq {accepted}
  /\ sender \in {"preparing", "offered"} => holders = {} /\ held = {}

(* Nothing that says the file has arrived is there before the file is. *)
HeldInv ==
  /\ \A c \in Clients :
       client[c].st \in {"saved", "ok"} \/ stream[c].frame = "ack" => c \in held
  /\ server = "sent" \/ sender = "sent" => accepted \in held
  /\ \A r \in Receivers : receiver[r] = "ok" => r \in held
  /\ None \notin held

(* Where a receiver and its client stand, and that only a response that was
   shown is accepted. *)
RouteInv ==
  /\ \A r \in Receivers : client[r].st # "idle" => receiver[r] = "onion"
  /\ mode = "by hand" => sender \notin {"preparing", "offered"}
  /\ sender \in {"preparing", "offered"} => accepted = None
  /\ mode # "by hand" =>
       /\ accepted = None \/ accepted \in responses
       /\ \A r \in responses : receiver[r] \notin {"idle", "deciding", "cancelled"}
       /\ \A r \in Receivers : client[r].st \notin {"declined", "cancelled"}

IInv == OnionType /\ Admitted /\ SessionType /\ TrustInv /\ HeldInv /\ RouteInv

-----------------------------------------------------------------------------
(* One file over an onion service. *)

(* What a client and the network may do; only who is free to may decline, and
   may dial unasked. *)
ClientActs(c, free) ==
  \/ ClientStep(c) \/ Decide(c, TRUE) \/ Cut(c) \/ StrangerLeaves(c)
  \/ free /\ (Dial(c) \/ Decide(c, FALSE))

StreamType == stream \in [Clients -> [st : {"none", "up", "closed"}, frame : Frames \cup {None}]]

(* c's stream holds one of F, and the others' what they held. *)
Framed(c, F) ==
  /\ StreamType'
  /\ \A d \in Clients : stream'[d].frame \in IF d = c THEN F ELSE {stream[d].frame}

(* c has come to st, and the others stand where they stood. *)
Stood(c, st) ==
  /\ client' \in [Clients -> [st : Stands, dials : Nat]]
  /\ \A d \in Clients : client'[d].st = IF d = c THEN st ELSE client[d].st

LEMMA CarryingFrames ==
  ASSUME OnionType, NEW c \in Clients, NEW f \in Frames \cup {None}, stream' = Carrying(c, f)
  PROVE  Framed(c, {f, None})
<1>1. PICK g \in Frames \cup {None} :
        g \in {f, None} /\ stream' = [stream EXCEPT ![c].frame = g]
  BY DEF Carrying
<1>2. StreamType'
  BY <1>1 DEF OnionType, StreamType
<1>3. \A d \in Clients : stream'[d].frame = IF d = c THEN g ELSE stream[d].frame
  BY <1>1 DEF OnionType
<1> QED
  BY <1>1, <1>2, <1>3 DEF Framed

LEMMA ClosedFrames ==
  ASSUME OnionType, NEW c \in Clients, stream' = Closed(c)
  PROVE  Framed(c, {stream[c].frame})
BY DEF OnionType, StreamType, Framed, Closed

LEMMA NewFrames ==
  ASSUME OnionType, NEW c \in Clients, NEW st \in {"none", "up", "closed"},
         NEW f \in Frames \cup {None},
         stream' = [stream EXCEPT ![c] = [st |-> st, frame |-> f]]
  PROVE  Framed(c, {f})
BY DEF OnionType, StreamType, Framed

LEMMA SameFrames ==
  ASSUME OnionType, NEW c \in Clients, stream' = stream
  PROVE  Framed(c, {stream[c].frame})
BY DEF OnionType, StreamType, Framed

LEMMA AtStands ==
  ASSUME OnionType, NEW c \in Clients, NEW st \in Stands, client' = At(c, st)
  PROVE  Stood(c, st)
BY DEF OnionType, Stood, At

(* A stream's end leaves the frame in it, or not. *)
LEMMA CutFrames ==
  ASSUME OnionType, NEW c \in Clients,
         \E f \in {stream[c].frame, None} :
           stream' = [stream EXCEPT ![c] = [st |-> "closed", frame |-> f]]
  PROVE  Framed(c, {stream[c].frame, None})
<1>1. PICK f \in {stream[c].frame, None} :
        stream' = [stream EXCEPT ![c] = [st |-> "closed", frame |-> f]]
  OBVIOUS
<1>2. f \in Frames \cup {None}
  BY DEF OnionType
<1>3. Framed(c, {f})
  BY <1>1, <1>2, NewFrames
<1> QED
  BY <1>3 DEF Framed

(* What a client does: where it comes to, what its stream may hold then, and
   what has to be so before. *)
LEMMA ClientMoves ==
  ASSUME OnionType, NEW c \in Clients, NEW free \in BOOLEAN, ClientActs(c, free)
  PROVE  /\ UNCHANGED <<holders, server, conn>> /\ requests' \in Seq(Clients)
         /\ \E st \in Stands, F \in SUBSET (Frames \cup {None}) :
              /\ Stood(c, st) /\ Framed(c, F)
              /\ st \in {"prompt"} => client[c].st \in {"prompt"} \/ stream[c].frame = "confirm"
              /\ st = "receiving" => client[c].st \in {"receiving", "prompt"}
              /\ st = "saved" => client[c].st \in {"saved", "receiving"}
              /\ st = "ok" => client[c].st \in {"ok", "saved"}
              /\ st = "declined" => client[c].st = "declined" \/ free
              /\ st = "cancelled" => client[c].st \in {"cancelled", "declined"}
              /\ "confirm" \in F => stream[c].frame = "confirm"
              /\ "ack" \in F => stream[c].frame = "ack" \/ st = "saved"
              /\ client[c].st \in Done \cup {"idle"} /\ st # client[c].st => free
<1> USE OnionTransferAssumption
<1>1. CASE ConnectFails(c)
  <2>1. Stood(c, "failed") /\ Framed(c, {stream[c].frame})
    BY <1>1, AtStands, SameFrames DEF ConnectFails, Stands, Done
  <2> QED
    BY <1>1, <2>1 DEF ConnectFails, OnionType, Done, Stands
<1>2. CASE TakeOffer(c)
  <2>1. Stood(c, "claimed") /\ Framed(c, {"claim", None})
    BY <1>2, AtStands, CarryingFrames DEF TakeOffer, Stands, Frames
  <2> QED
    BY <1>2, <2>1 DEF TakeOffer, OnionType, Done, Stands, Frames
<1>3. CASE TakeConfirm(c)
  <2>1. Stood(c, "prompt") /\ Framed(c, {None, None})
    BY <1>3, AtStands, CarryingFrames DEF TakeConfirm, Stands, Frames
  <2> QED
    BY <1>3, <2>1 DEF TakeConfirm, Readable, OnionType, Done, Stands, Frames
<1>4. CASE Decide(c, TRUE)
  <2>1. Stood(c, "receiving") /\ Framed(c, {"ready", None})
    BY <1>4, AtStands, CarryingFrames DEF Decide, Stands, Frames
  <2> QED
    BY <1>4, <2>1 DEF Decide, OnionType, Done, Stands, Frames
<1>5. CASE free /\ Decide(c, FALSE)
  <2>1. Stood(c, "declined") /\ Framed(c, {"cancel", None})
    BY <1>5, AtStands, CarryingFrames DEF Decide, Stands, Frames
  <2> QED
    BY <1>5, <2>1 DEF Decide, OnionType, Done, Stands, Frames
<1>6. CASE SaveContent(c)
  <2>1. Stood(c, "saved") /\ Framed(c, {"ack", None})
    BY <1>6, AtStands, CarryingFrames DEF SaveContent, Stands, Frames
  <2> QED
    BY <1>6, <2>1 DEF SaveContent, OnionType, Done, Stands, Frames
<1>7. CASE WaitForClose(c)
  <2>1. PICK st \in {"ok", "cancelled"} :
          /\ st = IF client[c].st = "saved" THEN "ok" ELSE "cancelled"
          /\ client' = At(c, st)
    BY <1>7 DEF WaitForClose
  <2>2. Stood(c, st) /\ Framed(c, {stream[c].frame, None})
    BY <1>7, <2>1, AtStands, CutFrames DEF WaitForClose, Stands, Done
  <2> QED
    BY <1>7, <2>1, <2>2 DEF WaitForClose, OnionType, Done, Stands, Frames
<1>8. CASE ClientFails(c) \/ StrangerLeaves(c)
  <2>1. Stood(c, "failed") /\ Framed(c, {stream[c].frame})
    BY <1>8, AtStands, ClosedFrames DEF ClientFails, StrangerLeaves, Stands, Done
  <2> QED
    BY <1>8, <2>1 DEF ClientFails, StrangerLeaves, OnionType, Done, Stands
<1>9. CASE free /\ Dial(c)
  <2>1. Framed(c, {None})
    BY <1>9, NewFrames DEF Dial, NoStream
  <2>2. Stood(c, "dialling")
    BY <1>9 DEF Dial, Stood, OnionType, Stands
  <2>3. requests' \in Seq(Clients)
    BY <1>9 DEF Dial, OnionType
  <2> QED
    BY <1>9, <2>1, <2>2, <2>3 DEF Dial, Done, Stands, Frames
<1>10. CASE Cut(c)
  <2>1. Framed(c, {stream[c].frame, None})
    BY <1>10, CutFrames DEF Cut
  <2>2. Stood(c, client[c].st)
    BY <1>10 DEF Cut, Stood, OnionType
  <2> QED
    BY <1>10, <2>1, <2>2 DEF Cut, OnionType, Stands
<1> QED
  BY <1>1, <1>2, <1>3, <1>4, <1>5, <1>6, <1>7, <1>8, <1>9, <1>10 DEF ClientActs, ClientStep

(* Of the streams only c's changes, and no confirm or acknowledgement comes into
   it but the confirm of one who holds the password. *)
Harmless(c) ==
  \E F \in SUBSET (Frames \cup {None}) :
    /\ Framed(c, F)
    /\ "confirm" \in F => stream[c].frame = "confirm" \/ c \in holders
    /\ "ack" \in F => stream[c].frame = "ack"

LEMMA KeepsFrame ==
  ASSUME OnionType, NEW c \in Clients, Framed(c, {stream[c].frame})
  PROVE  Harmless(c)
BY DEF OnionType, Harmless

LEMMA PutsFrame ==
  ASSUME NEW c \in Clients, NEW f \in Frames, f # "ack", f = "confirm" => c \in holders,
         Framed(c, {f, None})
  PROVE  Harmless(c)
BY OnionTransferAssumption DEF Harmless, Frames

(* What the service does: at most one stream changes, and a client's standing
   only from waiting to be served. *)
LEMMA ServerMoves ==
  ASSUME OnionType, ServerStep
  PROVE  /\ holders' = holders /\ requests' \in Seq(Clients) /\ conn' \in Clients \cup {None}
         /\ server' \in {"serving", "sending"} => conn' \in Clients
         /\ client' \in [Clients -> [st : Stands, dials : Nat]]
         /\ \A c \in Clients :
              client'[c].st = client[c].st
                \/ (client[c].st = "dialling" /\ client'[c].st = "helloed")
         /\ \E c \in Clients : Harmless(c)
         /\ server' = "sent" => server = "sent" \/ \E c \in Clients : stream[c].frame = "ack"
         /\ server \notin {"sent", "failed"}
<1> USE OnionTransferAssumption
<1>1. CASE Accept
  <2>1. PICK c \in Clients : c = Head(requests)
    BY <1>1 DEF Accept, OnionType
  <2>2. requests' \in Seq(Clients)
    BY <1>1 DEF Accept, OnionType
  <2>3. CASE client' = At(c, "helloed") /\ client[c].st = "dialling"
             /\ stream' = [stream EXCEPT ![c] = [st |-> "up", frame |-> "hello"]]
    <3>1. Stood(c, "helloed") /\ Framed(c, {"hello"})
      BY <2>3, AtStands, NewFrames DEF Stands, Frames
    <3>2. Harmless(c)
      BY <3>1 DEF Harmless, Frames
    <3>3. /\ client' \in [Clients -> [st : Stands, dials : Nat]]
          /\ \A d \in Clients : client'[d].st = client[d].st
                               \/ (client[d].st = "dialling" /\ client'[d].st = "helloed")
      BY <2>3, <3>1 DEF Stood
    <3>4. /\ holders' = holders /\ server = "accepting"
          /\ (server' = "serving" /\ conn' = c) \/ (server' = "failed" /\ conn' = conn)
      BY <1>1, <2>1 DEF Accept
    <3> QED
      BY <2>2, <3>2, <3>3, <3>4 DEF OnionType
  <2>4. CASE client' = client /\ (stream' = stream \/ stream' = Closed(c))
    <3>1. Framed(c, {stream[c].frame})
      BY <2>4, SameFrames, ClosedFrames
    <3>2. Harmless(c)
      BY <3>1, KeepsFrame
    <3>4. /\ holders' = holders /\ server = "accepting"
          /\ (server' = "serving" /\ conn' = c) \/ (server' = "failed" /\ conn' = conn)
      BY <1>1, <2>1 DEF Accept
    <3> QED
      BY <2>2, <2>4, <3>2, <3>4 DEF OnionType
  <2> QED
    BY <1>1, <2>1, <2>3, <2>4 DEF Accept
<1>2. CASE WaitTimesOut
  <2>1. PICK c \in Clients : TRUE
    BY CodeExchangeAssumption
  <2>2. Harmless(c)
    BY <1>2, SameFrames, KeepsFrame DEF WaitTimesOut
  <2> QED
    BY <1>2, <2>2 DEF WaitTimesOut, OnionType
<1>3. CASE ServeHello
  <2>1. conn \in Clients /\ Framed(conn, {"offer", None})
    BY <1>3, CarryingFrames DEF ServeHello, OnionType, Frames
  <2>2. Harmless(conn)
    BY <2>1, PutsFrame DEF Frames
  <2> QED
    BY <1>3, <2>1, <2>2 DEF ServeHello, OnionType
<1>4. CASE ServeReady
  <2>1. conn \in Clients /\ Framed(conn, {"content", None})
    BY <1>4, CarryingFrames DEF ServeReady, OnionType, Frames
  <2>2. Harmless(conn)
    BY <2>1, PutsFrame DEF Frames
  <2> QED
    BY <1>4, <2>1, <2>2 DEF ServeReady, OnionType
<1>5. CASE Failed /\ server \in {"serving", "sending"}
  <2>1. conn \in Clients /\ Framed(conn, {stream[conn].frame})
    BY <1>5, ClosedFrames DEF Failed, OnionType
  <2>2. Harmless(conn)
    BY <2>1, KeepsFrame
  <2> QED
    BY <1>5, <2>1, <2>2 DEF Failed, OnionType
<1>6. CASE ServeClaim /\ Authenticates(conn)
  <2>1. conn \in Clients /\ Framed(conn, {"confirm", None})
    BY <1>6, CarryingFrames DEF ServeClaim, OnionType, Frames
  <2>2. Harmless(conn)
    BY <1>6, <2>1, PutsFrame DEF Authenticates, Frames
  <2> QED
    BY <1>6, <2>1, <2>2 DEF ServeClaim, OnionType
<1>7. CASE ServeCancel \/ ServeAck
  <2>1. conn \in Clients /\ Framed(conn, {stream[conn].frame})
    BY <1>7, ClosedFrames DEF ServeCancel, ServeAck, OnionType
  <2>2. Harmless(conn)
    BY <2>1, KeepsFrame
  <2> QED
    BY <1>7, <2>1, <2>2 DEF ServeCancel, ServeAck, Acknowledged, Readable, OnionType
<1> QED
  BY <1>1, <1>2, <1>3, <1>4, <1>5, <1>6, <1>7 DEF ServerStep, ConnectionFails, GivesUp, ServeClaim

-----------------------------------------------------------------------------
(* The sessions. *)

Open == {"preparing", "offered", "connecting", "direct", "relays", "starting", "publishing"}

SenderStep ==
  \/ Offer \/ OfferFails \/ PromptFails \/ Expire
  \/ \E m \in Pastes : Paste(m)
  \/ ChannelArrives \/ SenderOpens \/ SenderFallsBack \/ SenderReady \/ AnnounceFails
  \/ \E o \in {"sent", "failed"} : SenderEnds(o)

BootstrapStep ==
  \E x \in Receivers \cup {Self}, o \in {"ready", "failed"} : Bootstrapped(x, o)

ReceiverStep(r) ==
  \/ TakeCode(r) \/ (\E o \in {"cancelled", "failed", "waiting"} : Respond(r, o))
  \/ ReceiverFallsBack(r) \/ (\E o \in {"direct", "failed"} : ReceiverOpens(r, o))
  \/ Hello(r) \/ NeverAnnounced(r) \/ TakeFile(r)
  \/ \E o \in {"ok", "failed"} : ReceiverEnds(r, o)

(* A client of the onion service acts: a receiver, whose file is then the
   session's, or a stranger. *)
OnionStep(c) ==
  /\ \E free \in BOOLEAN :
       /\ ClientActs(c, free)
       /\ c \in Receivers /\ free =>
            mode = "by hand" /\ (client[c].st = "idle" => receiver[c] = "onion")
  /\ UNCHANGED <<mode, sender, receiver, responses, accepted>>
  /\ held' = held \/ (held' = held \cup {c} /\ client'[c].st = "saved")
  /\ c \in Receivers /\ client'[c].st = "saved" => c \in held' \/ client[c].st = "saved"

LEMMA SenderMoves ==
  ASSUME SessionType, SenderStep
  PROVE  /\ UNCHANGED <<onionVars, held, mode, responses>>
         /\ receiver' = receiver
              \/ \E r \in Receivers : receiver[r] = "waiting" /\ receiver' = Move(r, "opening")
         /\ accepted' = accepted
              \/ (sender = "offered" /\ sender' = "connecting" /\ accepted' \in responses)
         /\ sender' = sender \/ sender \in Open
         /\ sender' \in {"preparing", "offered"} => sender \in {"preparing", "offered"}
         /\ sender' = "sent" => sender = "sent" \/ accepted \in held
         /\ sender' = "onion" => sender = "onion"
<1>1. CASE Offer \/ OfferFails \/ PromptFails \/ Expire
  BY <1>1 DEF Offer, OfferFails, PromptFails, Expire, SenderFails, Open
<1>2. ASSUME NEW m \in Pastes, Paste(m)
      PROVE  /\ UNCHANGED <<onionVars, held, mode, responses, receiver>>
             /\ accepted' = accepted
                  \/ (sender = "offered" /\ sender' = "connecting" /\ accepted' \in responses)
             /\ sender = "offered" /\ sender' \in {"offered", "connecting", "failed"}
  BY <1>2 DEF Paste, SenderFails, Answers
<1>3. CASE ChannelArrives
  <2>1. CASE accepted \in Receivers
    BY <1>3, <2>1 DEF ChannelArrives
  <2>2. CASE accepted \notin Receivers
    <3>1. receiver' = receiver
      BY <1>3, <2>2 DEF ChannelArrives, Move, SessionType
    <3> QED
      BY <1>3, <3>1 DEF ChannelArrives
  <2> QED
    BY <2>1, <2>2
<1>4. CASE SenderOpens \/ SenderFallsBack \/ SenderReady \/ AnnounceFails
  BY <1>4 DEF SenderOpens, SenderFallsBack, SenderReady, AnnounceFails, SenderFails, Open
<1>5. ASSUME NEW o \in {"sent", "failed"}, SenderEnds(o)
      PROVE  /\ UNCHANGED <<onionVars, held, mode, responses, receiver, accepted>>
             /\ sender \in {"direct", "relays"} /\ sender' = o
             /\ o = "sent" => accepted \in held
  BY <1>5 DEF SenderEnds
<1> QED
  BY <1>1, <1>2, <1>3, <1>4, <1>5 DEF SenderStep, Open

LEMMA ReceiverMoves ==
  ASSUME SessionType, NEW r \in Receivers, ReceiverStep(r)
  PROVE  /\ UNCHANGED <<onionVars, mode, sender, accepted>>
         /\ \/ receiver' = receiver
            \/ \E st : /\ receiver' = Move(r, st)
                       /\ receiver[r] \notin Done \cup {"onion"}
                       /\ st \notin {"onion", "idle"}
                       /\ st = "ok" => r \in held
                       /\ st = "cancelled" => receiver[r] = "deciding"
                       /\ st = "deciding" => receiver[r] = "idle"
         /\ responses' = responses
              \/ (responses' = responses \cup {r} /\ receiver' = Move(r, "waiting"))
         /\ held' = held
              \/ (/\ held' = held \cup {r} /\ accepted = r /\ receiver' = receiver
                  /\ sender \in {"direct", "relays"} /\ receiver[r] = sender)
<1>1. ASSUME TakeCode(r) \/ NeverAnnounced(r)
      PROVE  /\ UNCHANGED <<onionVars, mode, sender, accepted, held, responses>>
             /\ \/ receiver' = Move(r, "deciding") /\ receiver[r] = "idle"
                \/ receiver' = Move(r, "failed") /\ receiver[r] = "awaiting"
  BY <1>1 DEF TakeCode, NeverAnnounced
<1>2. ASSUME NEW o \in {"cancelled", "failed", "waiting"}, Respond(r, o)
      PROVE  /\ UNCHANGED <<onionVars, mode, sender, accepted, held>>
             /\ receiver' = Move(r, o) /\ receiver[r] = "deciding"
             /\ responses' = IF o = "waiting" THEN responses \cup {r} ELSE responses
  BY <1>2 DEF Respond
<1>3. CASE ReceiverFallsBack(r)
  <2>1. PICK st \in {"starting", "relays", "failed"} : receiver' = Move(r, st)
    BY <1>3 DEF ReceiverFallsBack
  <2> QED
    BY <1>3, <2>1 DEF ReceiverFallsBack, Done
<1>4. ASSUME NEW o \in {"direct", "failed"}, ReceiverOpens(r, o)
      PROVE  /\ UNCHANGED <<onionVars, mode, sender, accepted, held, responses>>
             /\ receiver' = Move(r, o) /\ receiver[r] = "opening"
  BY <1>4 DEF ReceiverOpens
<1>5. CASE Hello(r)
  <2>1. PICK st \in {"failed", "awaiting"} : receiver' = Move(r, st)
    BY <1>5 DEF Hello
  <2> QED
    BY <1>5, <2>1 DEF Hello, Done
<1>6. CASE TakeFile(r)
  BY <1>6 DEF TakeFile, ForReceiver
<1>7. ASSUME NEW o \in {"ok", "failed"}, ReceiverEnds(r, o)
      PROVE  /\ UNCHANGED <<onionVars, mode, sender, accepted, held, responses>>
             /\ receiver' = Move(r, o) /\ receiver[r] \in {"direct", "relays"}
             /\ o = "ok" => r \in held
  BY <1>7 DEF ReceiverEnds
<1> QED
  BY <1>1, <1>2, <1>3, <1>4, <1>5, <1>6, <1>7 DEF ReceiverStep, Done

(* Every step is one of these. *)
LEMMA Steps ==
  ASSUME OnionType, SessionType, Next
  PROVE  \/ SenderStep \/ BootstrapStep \/ Announce \/ OnionServes \/ ShutDown
         \/ \E r \in Receivers : ReceiverStep(r) \/ Hear(r)
         \/ \E c \in Clients : OnionStep(c)
<1>1. ASSUME NEW r \in Receivers, OnionReceives(r) PROVE OnionStep(r)
  <2>1. \E free \in BOOLEAN : /\ ClientActs(r, free)
                              /\ free => mode = "by hand" /\ client[r].st # "idle"
    <3>1. CASE ClientStep(r) \/ Decide(r, TRUE)
      BY <3>1 DEF ClientActs
    <3>2. CASE mode = "by hand" /\ Decide(r, FALSE)
      BY <3>2 DEF ClientActs, Decide
    <3> QED
      BY <1>1, <3>1, <3>2 DEF OnionReceives
  <2> QED
    BY <1>1, <2>1 DEF OnionReceives, OnionStep
<1>2. ASSUME NEW r \in Receivers, DialAgain(r) PROVE OnionStep(r)
  <2>1. ClientActs(r, TRUE)
    BY <1>2 DEF DialAgain, ClientActs
  <2>2. client'[r].st # "saved"
    BY <1>2, CodeExchangeAssumption DEF DialAgain, Dial, OnionType
  <2> QED
    BY <1>2, <2>1, <2>2 DEF DialAgain, OnionStep, exchangeVars
<1>3. ASSUME NEW c \in Strangers, Dial(c) \/ ClientStep(c) \/ StrangerLeaves(c), UNCHANGED exchangeVars
      PROVE  OnionStep(c)
  <2>1. ClientActs(c, TRUE)
    BY <1>3 DEF ClientActs
  <2> QED
    BY <1>3, <2>1 DEF OnionStep, exchangeVars, Strangers
<1>4. ASSUME NEW c \in Clients, Cut(c), UNCHANGED exchangeVars PROVE OnionStep(c)
  <2>1. ClientActs(c, FALSE) /\ client' = client
    BY <1>4 DEF ClientActs, Cut
  <2> QED
    BY <1>4, <2>1 DEF OnionStep, exchangeVars
<1>5. Receivers \subseteq Clients /\ Strangers \subseteq Clients
  BY CodeExchangeAssumption DEF Strangers
<1> QED
  BY <1>1, <1>2, <1>3, <1>4, <1>5
     DEF Next, SenderSteps, ReceiverSteps, Elsewhere, SenderStep, ReceiverStep, BootstrapStep

-----------------------------------------------------------------------------
(* The invariant. *)

LEMMA InitHolds == Init => IInv
<1> SUFFICES ASSUME Init PROVE IInv
  OBVIOUS
<1> USE OnionTransferAssumption, CodeExchangeAssumption
<1>1. OnionType /\ Admitted
  <2>1. client \in [Clients -> [st : Stands, dials : Nat]]
    BY DEF Init, OnionInit, Stands
  <2>2. stream \in [Clients -> [st : {"none", "up", "closed"}, frame : Frames \cup {None}]]
    BY DEF Init, OnionInit, NoStream
  <2>3. requests \in Seq(Clients)
    <3>1. requests = <<>>
      BY DEF Init, OnionInit
    <3>2. <<>> \in Seq(Clients)
      OBVIOUS
    <3> QED
      BY <3>1, <3>2
  <2>5. conn = None /\ server = "off"
    BY DEF Init, OnionInit
  <2>4. Admitted
    BY DEF Init, OnionInit, Admitted, NoStream
  <2> QED
    BY <2>1, <2>2, <2>3, <2>4, <2>5 DEF OnionType
<1>2. SessionType
  <2>1. (CHOOSE r \in Receivers : TRUE) \in Receivers
    OBVIOUS
  <2> QED
    BY <2>1 DEF Init, SessionType
<1>3. TrustInv
  BY DEF Init, OnionInit, TrustInv
<1>4. HeldInv
  BY DEF Init, OnionInit, HeldInv, NoStream
<1>5. RouteInv
  BY DEF Init, OnionInit, RouteInv
<1> QED
  BY <1>1, <1>2, <1>3, <1>4, <1>5 DEF IInv

(* A receiver of the code dials: it was idle until then. *)
LEMMA HearMoves ==
  ASSUME OnionType, RouteInv, NEW r \in Receivers, Hear(r)
  PROVE  /\ UNCHANGED <<holders, server, conn, mode, named, sender, pool, tor, responses,
                        accepted, channel, expired, announced, held>>
         /\ requests' \in Seq(Clients)
         /\ receiver[r] = "awaiting" /\ receiver' = Move(r, "onion")
         /\ accepted = r /\ client[r].st = "idle"
         /\ \E st \in {"failed", "dialling"}, F \in SUBSET {stream[r].frame, None} :
              Stood(r, st) /\ Framed(r, F)
<1> USE OnionTransferAssumption, CodeExchangeAssumption
<1>1. client[r].st = "idle"
  BY DEF Hear, RouteInv
<1>2. CASE Dial(r)
  <2>1. Framed(r, {None})
    BY <1>2, NewFrames DEF Dial, NoStream
  <2>2. Stood(r, "dialling")
    BY <1>2 DEF Dial, Stood, OnionType, Stands
  <2>3. requests' \in Seq(Clients)
    BY <1>2 DEF Dial, OnionType
  <2> QED
    BY <1>1, <1>2, <2>1, <2>2, <2>3 DEF Hear, Hears, Dial
<1>3. CASE /\ client' = [client EXCEPT ![r] = [st |-> "failed", dials |-> 1]]
           /\ UNCHANGED <<server, holders, conn, requests, failures, stream, cuts>>
  <2>1. Framed(r, {stream[r].frame})
    BY <1>3, SameFrames
  <2>2. Stood(r, "failed")
    BY <1>3 DEF Stood, OnionType, Stands, Done
  <2> QED
    BY <1>1, <1>3, <2>1, <2>2 DEF Hear, Hears, OnionType
<1> QED
  BY <1>2, <1>3 DEF Hear

LEMMA NextOnion ==
  ASSUME IInv, [Next]_vars
  PROVE  OnionType' /\ Admitted' /\ (holders' = holders \/ holders' = {accepted})
<1> USE OnionTransferAssumption DEF IInv
<1>1. CASE UNCHANGED onionVars
  BY <1>1 DEF OnionType, Admitted, onionVars
<1>2. ASSUME NEW r \in Receivers, Hear(r)
      PROVE  OnionType' /\ Admitted' /\ holders' = holders
  <2>1. r \in Clients
    BY CodeExchangeAssumption
  <2>2. PICK st \in {"failed", "dialling"}, F \in SUBSET {stream[r].frame, None} :
          Stood(r, st) /\ Framed(r, F)
    BY <1>2, HearMoves
  <2>3. UNCHANGED <<holders, server, conn>> /\ requests' \in Seq(Clients)
    BY <1>2, HearMoves
  <2>4. OnionType'
    BY <2>2, <2>3 DEF OnionType, Stood, Framed, StreamType
  <2>5. Admitted'
    BY <2>1, <2>2, <2>3 DEF Admitted, Stood, Framed
  <2> QED
    BY <2>3, <2>4, <2>5
<1>3. CASE OnionServes
  <2>1. PICK c \in Clients : Harmless(c)
    BY <1>3, ServerMoves DEF OnionServes
  <2>2. PICK F \in SUBSET (Frames \cup {None}) :
          Framed(c, F) /\ ("confirm" \in F => stream[c].frame = "confirm" \/ c \in holders)
    BY <2>1 DEF Harmless
  <2>3. OnionType'
    BY <1>3, <2>2, ServerMoves DEF OnionServes, OnionType, Framed, StreamType
  <2>4. Admitted' /\ holders' = holders
    BY <1>3, <2>1, <2>2, ServerMoves DEF OnionServes, Admitted, Framed
  <2> QED
    BY <2>3, <2>4
<1>4. ASSUME NEW c \in Clients, OnionStep(c)
      PROVE  OnionType' /\ Admitted' /\ holders' = holders
  <2>1. PICK free \in BOOLEAN : ClientActs(c, free)
    BY <1>4 DEF OnionStep
  <2>2. PICK st \in Stands, F \in SUBSET (Frames \cup {None}) :
              /\ Stood(c, st) /\ Framed(c, F)
              /\ st = "prompt" => client[c].st = "prompt" \/ stream[c].frame = "confirm"
              /\ st = "receiving" => client[c].st \in {"receiving", "prompt"}
              /\ st = "saved" => client[c].st \in {"saved", "receiving"}
              /\ st = "ok" => client[c].st \in {"ok", "saved"}
              /\ "confirm" \in F => stream[c].frame = "confirm"
    BY <2>1, ClientMoves
  <2>3. UNCHANGED <<holders, server, conn>> /\ requests' \in Seq(Clients)
    BY <2>1, ClientMoves
  <2>4. OnionType'
    BY <2>2, <2>3 DEF OnionType, Stood, Framed, StreamType
  <2>5. Admitted'
    BY <2>2, <2>3 DEF Admitted, Stood, Framed
  <2> QED
    BY <2>3, <2>4, <2>5
<1>5. CASE Announce
  BY <1>5 DEF Announce, Launch, OnionType, Admitted, TrustInv
<1>6. CASE ShutDown
  <2>1. StreamType'
    BY <1>6 DEF ShutDown, OnionType, StreamType
  <2>2. \A c \in Clients : stream'[c].frame = stream[c].frame
    BY <1>6 DEF ShutDown, OnionType
  <2> QED
    BY <1>6, <2>1, <2>2 DEF ShutDown, OnionType, Admitted, StreamType
<1>7. CASE SenderStep
  BY <1>1, <1>7, SenderMoves
<1>8. CASE BootstrapStep
  BY <1>1, <1>8 DEF BootstrapStep, Bootstrapped
<1>9. ASSUME NEW r \in Receivers, ReceiverStep(r) PROVE UNCHANGED onionVars
  BY <1>9, ReceiverMoves
<1>10. CASE UNCHANGED vars
  BY <1>1, <1>10 DEF vars
<1> QED
  BY <1>1, <1>2, <1>3, <1>4, <1>5, <1>6, <1>7, <1>8, <1>9, <1>10, Steps

LEMMA NextSession ==
  ASSUME IInv, [Next]_vars
  PROVE  SessionType' /\ TrustInv'
<1> USE OnionTransferAssumption, CodeExchangeAssumption DEF IInv
<1>1. SessionType'
  <2>1. CASE SenderStep
    BY <2>1, SenderMoves DEF SessionType, Move
  <2>2. ASSUME NEW r \in Receivers, ReceiverStep(r) PROVE SessionType'
    BY <2>2, ReceiverMoves DEF SessionType, Move
  <2>3. ASSUME NEW r \in Receivers, Hear(r) PROVE SessionType'
    BY <2>3, HearMoves DEF SessionType, Move
  <2>4. ASSUME UNCHANGED <<receiver, accepted, responses>> PROVE SessionType'
    BY <2>4 DEF SessionType
  <2> QED
    BY <2>1, <2>2, <2>3, <2>4, Steps
       DEF BootstrapStep, Bootstrapped, Announce, OnionServes, exchangeVars, ShutDown, OnionStep, vars
<1>2. TrustInv'
  <2>1. CASE SenderStep
    BY <2>1, SenderMoves DEF TrustInv, onionVars
  <2>2. ASSUME NEW r \in Receivers, ReceiverStep(r) PROVE TrustInv'
    BY <2>2, ReceiverMoves DEF TrustInv, onionVars
  <2>3. ASSUME NEW r \in Receivers, Hear(r) PROVE TrustInv'
    BY <2>3, HearMoves DEF TrustInv
  <2>4. CASE OnionServes
    BY <2>4, ServerMoves DEF OnionServes, exchangeVars, TrustInv
  <2>5. ASSUME NEW c \in Clients, OnionStep(c) PROVE TrustInv'
    <3>1. UNCHANGED <<holders, sender, accepted>>
      BY <2>5, ClientMoves DEF OnionStep
    <3>2. held' = held \/ (held' = held \cup {c} /\ c \in holders)
      BY <2>5, <3>1, NextOnion DEF OnionStep, Admitted
    <3> QED
      BY <3>1, <3>2 DEF TrustInv
  <2>6. CASE Announce
    BY <2>6 DEF Announce, Launch, TrustInv
  <2>7. CASE ShutDown
    BY <2>7 DEF ShutDown, TrustInv
  <2>8. ASSUME UNCHANGED <<holders, held, accepted, sender>> PROVE TrustInv'
    BY <2>8 DEF TrustInv
  <2> QED
    BY <2>1, <2>2, <2>3, <2>4, <2>5, <2>6, <2>7, <2>8, Steps
       DEF BootstrapStep, Bootstrapped, vars, onionVars, exchangeVars
<1> QED
  BY <1>1, <1>2

LEMMA NextHeld ==
  ASSUME IInv, [Next]_vars
  PROVE  HeldInv'
<1> USE OnionTransferAssumption, CodeExchangeAssumption DEF IInv
<1>1. CASE SenderStep
  <2>1. /\ UNCHANGED <<server, client, stream, held>>
        /\ accepted' = accepted \/ (sender = "offered" /\ sender' = "connecting")
        /\ sender' = "sent" => sender = "sent" \/ accepted \in held
    BY <1>1, SenderMoves DEF onionVars
  <2>2. server' = "sent" \/ sender' = "sent" => accepted' \in held'
    BY <2>1 DEF HeldInv, TrustInv
  <2>3. \A r \in Receivers : receiver'[r] = "ok" => r \in held'
    BY <1>1, <2>1, SenderMoves DEF HeldInv, SessionType, Move
  <2> QED
    BY <2>1, <2>2, <2>3 DEF HeldInv
<1>2. ASSUME NEW r \in Receivers, ReceiverStep(r) PROVE HeldInv'
  <2>1. /\ UNCHANGED <<server, client, stream, sender, accepted>>
        /\ held' = held \/ held' = held \cup {r}
    BY <1>2, ReceiverMoves DEF onionVars
  <2>2. \A d \in Receivers : receiver'[d] = "ok" => d \in held'
    BY <1>2, <2>1, ReceiverMoves DEF HeldInv, SessionType, Move
  <2> QED
    BY <2>1, <2>2 DEF HeldInv
<1>3. ASSUME NEW r \in Receivers, Hear(r) PROVE HeldInv'
  <2>1. PICK st \in {"failed", "dialling"}, F \in SUBSET {stream[r].frame, None} :
          Stood(r, st) /\ Framed(r, F)
    BY <1>3, HearMoves
  <2>2. UNCHANGED <<server, sender, accepted, held>> /\ receiver' = Move(r, "onion")
    BY <1>3, HearMoves
  <2>3. \A c \in Clients : client'[c].st \in {"saved", "ok"} \/ stream'[c].frame = "ack" => c \in held'
    BY <2>1, <2>2 DEF HeldInv, Stood, Framed
  <2>4. \A d \in Receivers : receiver'[d] = "ok" => d \in held'
    BY <2>2 DEF HeldInv, SessionType, Move
  <2> QED
    BY <2>2, <2>3, <2>4 DEF HeldInv
<1>4. CASE OnionServes
  <2>1. PICK c \in Clients : Harmless(c)
    BY <1>4, ServerMoves DEF OnionServes
  <2>2. PICK F \in SUBSET (Frames \cup {None}) :
          Framed(c, F) /\ ("ack" \in F => stream[c].frame = "ack")
    BY <2>1 DEF Harmless
  <2>3. UNCHANGED <<sender, accepted, held, receiver>>
    BY <1>4 DEF OnionServes, exchangeVars
  <2>4. \A d \in Clients : client'[d].st \in {"saved", "ok"} \/ stream'[d].frame = "ack" => d \in held'
    BY <1>4, <2>2, <2>3, ServerMoves DEF OnionServes, HeldInv, Framed
  <2>5. server' = "sent" => accepted \in held
    BY <1>4, ServerMoves DEF OnionServes, HeldInv, TrustInv
  <2> QED
    BY <2>3, <2>4, <2>5 DEF HeldInv
<1>5. ASSUME NEW c \in Clients, OnionStep(c) PROVE HeldInv'
  <2>1. PICK free \in BOOLEAN : ClientActs(c, free)
    BY <1>5 DEF OnionStep
  <2>2. PICK st \in Stands, F \in SUBSET (Frames \cup {None}) :
              /\ Stood(c, st) /\ Framed(c, F)
              /\ st = "saved" => client[c].st \in {"saved", "receiving"}
              /\ st = "ok" => client[c].st \in {"ok", "saved"}
              /\ "ack" \in F => stream[c].frame = "ack" \/ st = "saved"
    BY <2>1, ClientMoves
  <2>3. /\ UNCHANGED <<server, sender, accepted, receiver>>
        /\ held' = held \/ held' = held \cup {c}
    BY <1>5, <2>1, ClientMoves DEF OnionStep
  <2>4. client'[c].st = st
    BY <2>2 DEF Stood
  <2>5. st = "saved" => c \in held'
    BY <1>5, <2>2, <2>3, <2>4 DEF OnionStep, Admitted, TrustInv, SessionType, HeldInv
  <2>6. \A d \in Clients : client'[d].st \in {"saved", "ok"} \/ stream'[d].frame = "ack" => d \in held'
    BY <2>2, <2>3, <2>5 DEF HeldInv, Stood, Framed
  <2> QED
    BY <2>3, <2>6 DEF HeldInv
<1>6. CASE Announce
  BY <1>6 DEF Announce, Launch, HeldInv
<1>7. CASE ShutDown
  <2>1. \A c \in Clients : stream'[c].frame = stream[c].frame
    BY <1>7 DEF ShutDown, OnionType
  <2> QED
    BY <1>7, <2>1 DEF ShutDown, HeldInv
<1>8. ASSUME UNCHANGED <<server, client, stream, sender, receiver, accepted, held>> PROVE HeldInv'
  BY <1>8 DEF HeldInv
<1> QED
  BY <1>1, <1>2, <1>3, <1>4, <1>5, <1>6, <1>7, <1>8, Steps
     DEF BootstrapStep, Bootstrapped, vars, onionVars, exchangeVars

LEMMA NextRoute ==
  ASSUME IInv, [Next]_vars
  PROVE  RouteInv'
<1> USE CodeExchangeAssumption DEF IInv
<1>1. CASE SenderStep
  <2>1. /\ UNCHANGED <<client, mode, responses>>
        /\ accepted' = accepted
             \/ (sender = "offered" /\ sender' = "connecting" /\ accepted' \in responses)
        /\ sender' \in {"preparing", "offered"} => sender \in {"preparing", "offered"}
    BY <1>1, SenderMoves DEF onionVars
  <2>2. \A r \in Receivers : receiver'[r] = receiver[r]
          \/ (receiver[r] = "waiting" /\ receiver'[r] = "opening")
    BY <1>1, SenderMoves DEF SessionType, Move
  <2>3. responses \subseteq Receivers
    BY DEF SessionType
  <2> QED
    BY <2>1, <2>2, <2>3 DEF RouteInv
<1>2. ASSUME NEW r \in Receivers, ReceiverStep(r) PROVE RouteInv'
  <2>1. UNCHANGED <<client, mode, sender, accepted>>
    BY <1>2, ReceiverMoves DEF onionVars
  <2>2. \A d \in Receivers : receiver'[d] = receiver[d]
          \/ (/\ d = r /\ receiver[d] \notin Done \cup {"onion"}
              /\ receiver'[d] \notin {"onion", "idle"}
              /\ receiver'[d] = "cancelled" => receiver[d] = "deciding"
              /\ receiver'[d] = "deciding" => receiver[d] = "idle")
    BY <1>2, ReceiverMoves DEF SessionType, Move
  <2>3. responses' = responses
          \/ (responses' = responses \cup {r} /\ receiver'[r] = "waiting")
    BY <1>2, ReceiverMoves DEF SessionType, Move
  <2>4. responses \subseteq Receivers
    BY DEF SessionType
  <2>5. \A d \in Receivers : client'[d].st # "idle" => receiver'[d] = "onion"
    BY <2>1, <2>2 DEF RouteInv
  <2>6. ASSUME mode # "by hand", NEW d \in responses'
        PROVE  receiver'[d] \notin {"idle", "deciding", "cancelled"}
    <3>1. d \in responses \/ receiver'[d] = "waiting"
      BY <2>3
    <3>2. d \in responses => receiver[d] \notin {"idle", "deciding", "cancelled"} /\ d \in Receivers
      BY <2>4, <2>6 DEF RouteInv
    <3> QED
      BY <2>2, <3>1, <3>2
  <2> QED
    BY <2>1, <2>3, <2>5, <2>6 DEF RouteInv
<1>3. ASSUME NEW r \in Receivers, Hear(r) PROVE RouteInv'
  <2>1. PICK st \in {"failed", "dialling"} : Stood(r, st)
    BY <1>3, HearMoves
  <2>2. UNCHANGED <<sender, accepted, mode, responses>> /\ receiver' = Move(r, "onion")
    BY <1>3, HearMoves
  <2>3. \A d \in Receivers : receiver'[d] = IF d = r THEN "onion" ELSE receiver[d]
    BY <2>2 DEF SessionType, Move
  <2>4. responses \subseteq Receivers
    BY DEF SessionType
  <2>5. \A d \in Receivers : client'[d].st = IF d = r THEN st ELSE client[d].st
    BY <2>1 DEF Stood
  <2> QED
    BY <2>2, <2>3, <2>4, <2>5 DEF RouteInv
<1>4. CASE OnionServes
  <2>1. UNCHANGED <<sender, accepted, mode, responses, receiver>>
    BY <1>4 DEF OnionServes, exchangeVars
  <2>2. \A d \in Receivers : client'[d].st = client[d].st
          \/ (client[d].st = "dialling" /\ client'[d].st = "helloed")
    BY <1>4, ServerMoves DEF OnionServes
  <2> QED
    BY <2>1, <2>2 DEF RouteInv
<1>5. ASSUME NEW c \in Clients, OnionStep(c) PROVE RouteInv'
  <2>1. PICK free \in BOOLEAN :
          /\ ClientActs(c, free)
          /\ c \in Receivers /\ free =>
               mode = "by hand" /\ (client[c].st = "idle" => receiver[c] = "onion")
    BY <1>5 DEF OnionStep
  <2>2. PICK st \in Stands :
              /\ Stood(c, st)
              /\ st = "declined" => client[c].st = "declined" \/ free
              /\ st = "cancelled" => client[c].st \in {"cancelled", "declined"}
              /\ client[c].st \in Done \cup {"idle"} /\ st # client[c].st => free
    BY <2>1, ClientMoves
  <2>3. UNCHANGED <<mode, sender, receiver, responses, accepted>>
    BY <1>5 DEF OnionStep
  <2>4. \A d \in Receivers : client'[d].st = IF d = c THEN st ELSE client[d].st
    BY <2>2 DEF Stood
  <2>5. \A d \in Receivers : client'[d].st # "idle" => receiver'[d] = "onion"
    BY <2>1, <2>2, <2>3, <2>4 DEF RouteInv
  <2>6. mode # "by hand" => \A d \in Receivers : client'[d].st \notin {"declined", "cancelled"}
    BY <2>1, <2>2, <2>3, <2>4 DEF RouteInv
  <2> QED
    BY <2>3, <2>5, <2>6 DEF RouteInv
<1>6. CASE Announce
  BY <1>6 DEF Announce, Launch, RouteInv
<1>7. CASE ShutDown
  BY <1>7 DEF ShutDown, RouteInv
<1>8. ASSUME UNCHANGED <<client, mode, sender, receiver, responses, accepted>> PROVE RouteInv'
  BY <1>8 DEF RouteInv
<1> QED
  BY <1>1, <1>2, <1>3, <1>4, <1>5, <1>6, <1>7, <1>8, Steps
     DEF BootstrapStep, Bootstrapped, vars, onionVars, exchangeVars

(* Through every exchange, accepted or given up, over whichever route and for
   whoever finds the address, the invariant holds. *)
THEOREM Invariance == Spec => []IInv
<1>1. IInv /\ [Next]_vars => IInv'
  <2> SUFFICES ASSUME IInv, [Next]_vars PROVE IInv'
    OBVIOUS
  <2> QED
    BY NextOnion, NextSession, NextHeld, NextRoute DEF IInv
<1> QED
  BY InitHolds, <1>1, PTL DEF Spec

(* Neither the file nor, over the onion service, its description gets to anyone
   but the receiver whose response the operator pasted: the confirm answers a
   proof of the password, and the password goes to that receiver alone. *)
THEOREM OnlyAccepted == Spec => []OnlyTheAccepted
<1>1. IInv => OnlyTheAccepted
  BY DEF IInv, Admitted, TrustInv, HeldInv, OnlyTheAccepted, Has
<1> QED
  BY Invariance, <1>1, PTL

-----------------------------------------------------------------------------
(* The exchange and its routes implement Delivery. *)

ReceiverEnd ==
  IF accepted = None \/ mode = "by hand" THEN "active" ELSE ReceiverOutcome(accepted)

(* The file has been handed over exactly when the accepted receiver holds it. *)
LEMMA HandedOver ==
  ASSUME IInv
  PROVE  (accepted # None /\ Has(accepted)) <=> accepted \in held
BY CodeExchangeAssumption DEF IInv, HeldInv, SessionType, Has

(* Nothing of what Delivery sees changes. *)
Silent == (accepted' \in held' <=> accepted \in held)
          /\ SenderOutcome' = SenderOutcome /\ ReceiverEnd' = ReceiverEnd

SenderStops ==
  /\ (accepted' \in held' <=> accepted \in held) /\ ReceiverEnd' = ReceiverEnd
  /\ SenderOutcome = "active" /\ SenderOutcome' \in {"ok", "failed"}
  /\ SenderOutcome' = "ok" => accepted \in held

ReceiverStops ==
  /\ (accepted' \in held' <=> accepted \in held) /\ SenderOutcome' = SenderOutcome
  /\ ReceiverEnd = "active" /\ ReceiverEnd' \in {"ok", "failed"}
  /\ ReceiverEnd' = "ok" => accepted \in held

FileTaken ==
  /\ SenderOutcome' = SenderOutcome /\ ReceiverEnd' = ReceiverEnd
  /\ ReceiverEnd = "active" /\ accepted \notin held /\ accepted' \in held'

LEMMA SenderDelivers ==
  ASSUME IInv, SenderStep
  PROVE  Silent \/ SenderStops \/ ReceiverStops
<1> USE CodeExchangeAssumption DEF IInv
<1>1. /\ UNCHANGED <<server, client, stream, holders, held, mode, responses>>
      /\ accepted' = accepted
           \/ (sender = "offered" /\ sender' = "connecting" /\ accepted' \in responses)
      /\ sender' = sender \/ sender \in Open
      /\ sender' = "sent" => sender = "sent" \/ accepted \in held
      /\ sender' = "onion" => sender = "onion"
  BY SenderMoves DEF onionVars
<1>2. \A r \in Receivers : receiver'[r] = receiver[r]
        \/ (receiver[r] = "waiting" /\ receiver'[r] = "opening")
  BY SenderMoves DEF SessionType, Move
<1>3. CASE accepted' = accepted
  <2>1. accepted \in Receivers \cup {None}
    BY DEF SessionType
  <2>2. ReceiverEnd' = ReceiverEnd
    BY <1>1, <1>2, <1>3, <2>1 DEF ReceiverEnd, ReceiverOutcome, Done
  <2>3. \/ SenderOutcome' = SenderOutcome
        \/ /\ SenderOutcome = "active" /\ SenderOutcome' \in {"ok", "failed"}
           /\ SenderOutcome' = "ok" => accepted \in held
    BY <1>1 DEF SenderOutcome, Open
  <2> QED
    BY <1>1, <1>3, <2>2, <2>3 DEF Silent, SenderStops
<1>4. CASE accepted' # accepted
  <2>1. PICK a \in responses : accepted' = a
    BY <1>1, <1>4
  <2>2. sender = "offered" /\ sender' = "connecting" /\ a \in Receivers /\ mode # "by hand"
    BY <1>1, <1>4, <2>1 DEF SessionType, RouteInv
  <2>3. accepted = None /\ held = {} /\ holders = {}
    BY <2>2 DEF RouteInv, TrustInv
  <2>4. client[a].st \notin {"ok", "cancelled"} /\ receiver[a] \notin {"ok", "cancelled"}
    BY <2>1, <2>2, <2>3 DEF RouteInv, HeldInv
  <2>5. ReceiverOutcome(a)' \in {"active", "failed"}
    BY <1>1, <1>2, <2>2, <2>4 DEF ReceiverOutcome, Done
  <2>6. ReceiverEnd = "active" /\ ReceiverEnd' \in {"active", "failed"}
    BY <1>1, <2>1, <2>2, <2>3, <2>5 DEF ReceiverEnd
  <2>7. SenderOutcome' = SenderOutcome
    BY <2>2 DEF SenderOutcome
  <2> QED
    BY <1>1, <2>3, <2>6, <2>7 DEF Silent, ReceiverStops
<1> QED
  BY <1>3, <1>4

LEMMA ReceiverDelivers ==
  ASSUME IInv, NEW r \in Receivers, ReceiverStep(r)
  PROVE  Silent \/ ReceiverStops \/ FileTaken
<1> USE CodeExchangeAssumption DEF IInv
<1>1. UNCHANGED <<server, client, mode, sender, accepted>> /\ SenderOutcome' = SenderOutcome
  BY ReceiverMoves DEF onionVars, SenderOutcome
<1>2. accepted \in Receivers \cup {None}
  BY DEF SessionType
<1>3. CASE held' # held
  <2>1. /\ held' = held \cup {r} /\ accepted = r /\ receiver' = receiver
        /\ receiver[r] \in {"direct", "relays"}
    BY <1>3, ReceiverMoves
  <2>2. ReceiverEnd = "active" /\ ReceiverEnd' = "active"
    BY <1>1, <2>1 DEF ReceiverEnd, ReceiverOutcome, Done
  <2> QED
    BY <1>1, <1>3, <2>1, <2>2 DEF FileTaken
<1>4. CASE held' = held /\ receiver' = receiver
  <2>1. ReceiverEnd' = ReceiverEnd
    BY <1>1, <1>4 DEF ReceiverEnd, ReceiverOutcome
  <2> QED
    BY <1>1, <1>4, <2>1 DEF Silent
<1>5. CASE held' = held /\ receiver' # receiver
  <2>1. PICK st : /\ receiver' = Move(r, st)
                  /\ receiver[r] \notin Done \cup {"onion"}
                  /\ st \notin {"onion", "idle"}
                  /\ st = "ok" => r \in held
                  /\ st = "cancelled" => receiver[r] = "deciding"
    BY <1>5, ReceiverMoves
  <2>2. \A d \in Receivers : receiver'[d] = IF d = r THEN st ELSE receiver[d]
    BY <2>1 DEF SessionType, Move
  <2>3. CASE accepted # r \/ mode = "by hand"
    <3>1. ReceiverEnd' = ReceiverEnd
      BY <1>1, <1>2, <2>2, <2>3 DEF ReceiverEnd, ReceiverOutcome
    <3> QED
      BY <1>1, <1>5, <3>1 DEF Silent
  <2>4. CASE accepted = r /\ mode # "by hand"
    <3>1. st # "cancelled" /\ accepted # None
      BY <2>1, <2>4, OnionTransferAssumption DEF RouteInv
    <3>2. ReceiverEnd = "active"
      BY <2>1, <2>4 DEF ReceiverEnd, ReceiverOutcome
    <3>3. ReceiverEnd' = IF st \in Done THEN st ELSE "active"
      BY <1>1, <2>1, <2>2, <2>4, <3>1 DEF ReceiverEnd, ReceiverOutcome
    <3> QED
      BY <1>1, <1>5, <2>1, <2>4, <3>1, <3>2, <3>3 DEF Silent, ReceiverStops, Done
  <2> QED
    BY <2>3, <2>4
<1> QED
  BY <1>3, <1>4, <1>5

LEMMA HearDelivers ==
  ASSUME IInv, NEW r \in Receivers, Hear(r)
  PROVE  Silent \/ ReceiverStops
<1> USE CodeExchangeAssumption DEF IInv
<1>1. /\ UNCHANGED <<server, sender, accepted, mode, held>> /\ accepted = r
      /\ receiver[r] = "awaiting" /\ receiver' = Move(r, "onion")
  BY HearMoves
<1>2. PICK st \in {"failed", "dialling"} : Stood(r, st)
  BY HearMoves
<1>3. receiver'[r] = "onion" /\ client'[r].st = st
  BY <1>1, <1>2 DEF SessionType, Move, Stood
<1>4. ReceiverEnd = "active" /\ ReceiverEnd' \in {"active", "failed"}
  BY <1>1, <1>3 DEF ReceiverEnd, ReceiverOutcome, Done
<1>5. SenderOutcome' = SenderOutcome
  BY <1>1 DEF SenderOutcome
<1> QED
  BY <1>1, <1>4, <1>5 DEF Silent, ReceiverStops

LEMMA ServiceDelivers ==
  ASSUME IInv, OnionServes
  PROVE  Silent \/ SenderStops
<1> USE CodeExchangeAssumption DEF IInv
<1>1. UNCHANGED <<sender, accepted, mode, held, receiver>>
  BY DEF OnionServes, exchangeVars
<1>2. accepted \in Receivers \cup {None}
  BY DEF SessionType
<1>3. \A d \in Receivers : client'[d].st = client[d].st
        \/ (client[d].st = "dialling" /\ client'[d].st = "helloed")
  BY ServerMoves DEF OnionServes
<1>4. ReceiverEnd' = ReceiverEnd
  BY <1>1, <1>2, <1>3 DEF ReceiverEnd, ReceiverOutcome, Done
<1>5. server' = "sent" => accepted \in held
  BY ServerMoves DEF OnionServes, HeldInv, TrustInv
<1>6. server \notin {"sent", "failed"}
  BY ServerMoves DEF OnionServes
<1> QED
  BY <1>1, <1>4, <1>5, <1>6 DEF Silent, SenderStops, SenderOutcome

LEMMA OnionDelivers ==
  ASSUME IInv, NEW c \in Clients, OnionStep(c)
  PROVE  Silent \/ ReceiverStops \/ FileTaken
<1> USE CodeExchangeAssumption DEF IInv
<1>1. PICK free \in BOOLEAN :
        /\ ClientActs(c, free)
        /\ c \in Receivers /\ free => mode = "by hand"
  BY DEF OnionStep
<1>2. PICK st \in Stands :
            /\ Stood(c, st)
            /\ st = "saved" => client[c].st \in {"saved", "receiving"}
            /\ st = "ok" => client[c].st \in {"ok", "saved"}
            /\ st = "cancelled" => client[c].st \in {"cancelled", "declined"}
            /\ client[c].st \in Done \cup {"idle"} /\ st # client[c].st => free
  BY <1>1, ClientMoves
<1>3. UNCHANGED <<mode, sender, receiver, responses, accepted, server>>
  BY <1>1, ClientMoves DEF OnionStep
<1>4. SenderOutcome' = SenderOutcome
  BY <1>3 DEF SenderOutcome
<1>5. accepted \in Receivers \cup {None} /\ None \notin Clients
  BY OnionTransferAssumption DEF SessionType
<1>6. held' = held \/ (held' = held \cup {c} /\ st = "saved")
  BY <1>2 DEF OnionStep, Stood
<1>7. \A d \in Clients : client'[d].st = IF d = c THEN st ELSE client[d].st
  BY <1>2 DEF Stood
<1>8. CASE accepted # c
  <2>1. ReceiverEnd' = ReceiverEnd
    BY <1>3, <1>5, <1>7, <1>8 DEF ReceiverEnd, ReceiverOutcome
  <2> QED
    BY <1>3, <1>4, <1>6, <1>8, <2>1 DEF Silent
<1>9. CASE accepted = c /\ held' # held
  <2>1. c \in Receivers /\ st = "saved" /\ client[c].st \in {"saved", "receiving"}
    BY <1>2, <1>5, <1>6, <1>9
  <2>2. receiver[c] = "onion"
    BY <2>1 DEF RouteInv
  <2>3. ReceiverEnd = "active" /\ ReceiverEnd' = "active"
    BY <1>3, <1>7, <1>9, <2>1, <2>2 DEF ReceiverEnd, ReceiverOutcome, Done
  <2> QED
    BY <1>3, <1>4, <1>6, <1>9, <2>3 DEF FileTaken
<1>10. CASE accepted = c /\ held' = held
  <2>1. c \in Receivers /\ client'[c].st = st
    BY <1>5, <1>7, <1>10
  <2>2. CASE mode = "by hand" \/ st = client[c].st
    <3>1. ReceiverEnd' = ReceiverEnd
      BY <1>3, <1>10, <2>1, <2>2 DEF ReceiverEnd, ReceiverOutcome
    <3> QED
      BY <1>3, <1>4, <1>10, <3>1 DEF Silent
  <2>3. CASE mode # "by hand" /\ st # client[c].st
    <3>1. client[c].st \notin Done \cup {"idle"}
      BY <1>1, <1>2, <2>1, <2>3
    <3>2. receiver[c] = "onion" /\ client[c].st \notin {"declined", "cancelled"}
      BY <2>1, <2>3, <3>1 DEF RouteInv
    <3>3. ReceiverEnd = "active" /\ ReceiverEnd' = IF st \in Done THEN st ELSE "active"
      BY <1>3, <1>5, <1>10, <2>1, <2>3, <3>1, <3>2 DEF ReceiverEnd, ReceiverOutcome, Done
    <3>4. st # "cancelled" /\ (st = "ok" => c \in held)
      BY <1>2, <3>2 DEF HeldInv
    <3> QED
      BY <1>3, <1>4, <1>10, <3>3, <3>4 DEF Silent, ReceiverStops, Done
  <2> QED
    BY <2>2, <2>3
<1> QED
  BY <1>8, <1>9, <1>10

(* Every step of the exchange is one of Delivery's, or none. *)
LEMMA StepDelivers ==
  ASSUME IInv, [Next]_vars
  PROVE  Silent \/ SenderStops \/ ReceiverStops \/ FileTaken
<1> USE DEF IInv
<1>1. CASE BootstrapStep \/ UNCHANGED vars
  <2>1. UNCHANGED <<server, client, mode, sender, receiver, accepted, held>>
    BY <1>1 DEF BootstrapStep, Bootstrapped, onionVars, exchangeVars, vars
  <2> QED
    BY <2>1 DEF Silent, SenderOutcome, ReceiverEnd, ReceiverOutcome
<1>2. CASE Announce
  <2>1. /\ UNCHANGED <<client, mode, receiver, accepted, held>>
        /\ sender = "publishing" /\ sender' = "onion" /\ server' = "accepting"
    BY <1>2 DEF Announce, Launch
  <2> QED
    BY <2>1 DEF Silent, SenderOutcome, ReceiverEnd, ReceiverOutcome
<1>3. CASE ShutDown
  <2>1. /\ UNCHANGED <<client, mode, receiver, accepted, held>>
        /\ sender = "onion" /\ server \notin {"sent", "failed"} /\ sender' = "failed"
    BY <1>3 DEF ShutDown
  <2>2. SenderOutcome = "active" /\ SenderOutcome' = "failed" /\ ReceiverEnd' = ReceiverEnd
    BY <2>1 DEF SenderOutcome, ReceiverEnd, ReceiverOutcome
  <2> QED
    BY <2>1, <2>2 DEF SenderStops
<1> QED
  BY <1>1, <1>2, <1>3, Steps, SenderDelivers, ReceiverDelivers, HearDelivers, ServiceDelivers,
     OnionDelivers

(* Whatever route the two sides take, also when they disagree on it, the file is
   handed over as Delivery promises: success is reported only for a file that
   the receiver of the pasted response has whole. *)
THEOREM Refinement == Spec => ImplementsDelivery
<1>1. Init => TheDelivery!Init
  <2> SUFFICES ASSUME Init PROVE TheDelivery!Init
    OBVIOUS
  <2>1. IInv /\ held = {}
    BY InitHolds DEF Init
  <2>2. (accepted # None /\ Has(accepted)) = FALSE
    BY <2>1, HandedOver
  <2>3. SenderOutcome = "active" /\ ReceiverEnd = "active"
    BY DEF Init, OnionInit, SenderOutcome, ReceiverEnd
  <2> QED
    BY <2>2, <2>3 DEF TheDelivery!Init, ReceiverEnd
<1>2. IInv /\ IInv' /\ [Next]_vars => [TheDelivery!Next]_TheDelivery!vars
  <2> SUFFICES ASSUME IInv, IInv', [Next]_vars
               PROVE  TheDelivery!Next \/ UNCHANGED TheDelivery!vars
    OBVIOUS
  <2>1. (accepted # None /\ Has(accepted)) <=> accepted \in held
    BY HandedOver
  <2>2. (accepted # None /\ Has(accepted))' <=> accepted' \in held'
    BY CodeExchangeAssumption DEF IInv, HeldInv, SessionType, Has
  <2>3. CASE Silent
    <3>1. UNCHANGED TheDelivery!vars
      BY <2>1, <2>2, <2>3 DEF Silent, TheDelivery!vars, ReceiverEnd
    <3> QED
      BY <3>1
  <2>4. CASE SenderStops
    <3>1. TheDelivery!SenderEnds
      BY <2>1, <2>2, <2>4 DEF SenderStops, TheDelivery!SenderEnds, ReceiverEnd
    <3> QED
      BY <3>1 DEF TheDelivery!Next
  <2>5. CASE ReceiverStops
    <3>1. TheDelivery!ReceiverEnds
      BY <2>1, <2>2, <2>5 DEF ReceiverStops, TheDelivery!ReceiverEnds, ReceiverEnd
    <3> QED
      BY <3>1 DEF TheDelivery!Next
  <2>6. CASE FileTaken
    <3>1. TheDelivery!Take
      BY <2>1, <2>2, <2>6 DEF FileTaken, TheDelivery!Take, ReceiverEnd
    <3> QED
      BY <3>1 DEF TheDelivery!Next
  <2> QED
    BY <2>3, <2>4, <2>5, <2>6, StepDelivers
<1> QED
  BY Invariance, <1>1, <1>2, PTL DEF Spec, ImplementsDelivery, TheDelivery!Spec

-----------------------------------------------------------------------------
(* What stands behind the exchange is let go. *)

LetGo == sender \in {"starting", "publishing", "onion", "sent", "failed"} => pool # "open"

(* Once the code was shown, no way the sender's command ends leaves the relay
   sockets behind the exchange open, and the anonymous route starts without
   them. *)
THEOREM Released == Spec => []ReleasesFallback
<1>1. Init => LetGo
  BY DEF Init, LetGo
<1>2. LetGo /\ [Next]_vars => LetGo'
  <2> SUFFICES ASSUME LetGo, [Next]_vars PROVE LetGo'
    OBVIOUS
  <2>1. CASE Offer \/ OfferFails \/ PromptFails \/ Expire \/ ChannelArrives
    BY <2>1 DEF Offer, OfferFails, PromptFails, Expire, ChannelArrives, SenderFails, Discard, LetGo
  <2>2. ASSUME NEW m \in Pastes, Paste(m) PROVE LetGo'
    BY <2>2 DEF Paste, SenderFails, Discard, LetGo
  <2>3. CASE SenderOpens \/ SenderFallsBack \/ SenderReady \/ AnnounceFails
    BY <2>3 DEF SenderOpens, SenderFallsBack, SenderReady, AnnounceFails, SenderFails, Discard, LetGo
  <2>4. ASSUME NEW o \in {"sent", "failed"}, SenderEnds(o) PROVE LetGo'
    BY <2>4 DEF SenderEnds, Discard, LetGo
  <2>5. CASE Announce \/ ShutDown
    BY <2>5 DEF Announce, ShutDown, LetGo
  <2>6. ASSUME UNCHANGED <<sender, pool>> PROVE LetGo'
    BY <2>6 DEF LetGo
  <2>7. ASSUME NEW x, NEW o, Bootstrapped(x, o) PROVE UNCHANGED <<sender, pool>>
    BY <2>7 DEF Bootstrapped
  <2>8. ASSUME NEW r \in Receivers, ReceiverSteps(r) PROVE UNCHANGED <<sender, pool>>
    BY <2>8 DEF ReceiverSteps, ReceiverFallsBack, ReceiverOpens, Hello, Hear, NeverAnnounced, Bootstrapped
  <2>9. ASSUME NEW r \in Receivers,
               \/ TakeCode(r) \/ (\E o \in {"cancelled", "failed", "waiting"} : Respond(r, o))
               \/ TakeFile(r) \/ (\E o \in {"ok", "failed"} : ReceiverEnds(r, o))
               \/ OnionReceives(r) \/ DialAgain(r)
        PROVE  UNCHANGED <<sender, pool>>
    BY <2>9 DEF TakeCode, Respond, TakeFile, ReceiverEnds, OnionReceives, DialAgain, exchangeVars
  <2>10. CASE OnionServes \/ Elsewhere \/ UNCHANGED vars
    BY <2>6, <2>10 DEF OnionServes, Elsewhere, exchangeVars, vars
  <2> QED
    BY <2>1, <2>2, <2>3, <2>4, <2>5, <2>6, <2>7, <2>8, <2>9, <2>10 DEF Next, SenderSteps
<1>3. LetGo => ReleasesFallback
  BY DEF LetGo, ReleasesFallback, SenderOutcome
<1> QED
  BY <1>1, <1>2, <1>3, PTL DEF Spec
=============================================================================
