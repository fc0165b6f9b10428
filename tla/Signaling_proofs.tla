-------------------------- MODULE Signaling_proofs ---------------------------
(***************************************************************************)
(* Theorems about Signaling, for any relays and addresses, and however     *)
(* many signals are lost and messages sent.                                *)
(***************************************************************************)
EXTENDS Signaling, SequenceTheorems, TLAPS

SenderPC == {"gathering", "offering", "awaiting", "connecting", "open", "failed"}
ReceiverPC == {"joining", "waiting", "answering", "publishing", "connecting", "open", "failed"}

TypeInv ==
  /\ pc \in [Side -> SenderPC \cup ReceiverPC]
  /\ described \in [Side -> BOOLEAN]
  /\ sent \in Nat
  /\ flight \in Seq(Nat) /\ reads \in Seq(Nat) /\ inbox \in Seq(Nat)
  /\ opening \in BOOLEAN /\ registered \in BOOLEAN

(* A side that can still take a description has none. *)
DescribedInv ==
  /\ pc["sender"] \in SenderPC /\ pc["receiver"] \in ReceiverPC
  /\ described["sender"] => pc["sender"] \in {"connecting", "open", "failed"}
  /\ described["receiver"] => pc["receiver"] \in {"publishing", "connecting", "open", "failed"}

(* The messages of s follow the message `from`. *)
Numbered(s, from) == \A i \in 1 .. Len(s) : s[i] = from + i

Silent == inbox = <<>> /\ reads = <<>> /\ ~ opening /\ ~ registered

(* Nothing is underway; or the channel's opening is, and behind it all that was
   sent; or it has come, and what was sent is with the receiver, in its stack
   or underway, without a gap. *)
BeforeLink ==
  /\ link = "down" /\ sent = 0 /\ pc["sender"] # "open" /\ flight = <<>> /\ Silent
OpeningUnderway ==
  /\ link = "up" /\ Silent
  /\ Len(flight) = sent + 1 /\ Numbered(flight, 0 - 1)
AfterOpening ==
  /\ link = "up" /\ (opening \/ registered)
  /\ Len(inbox) + Len(reads) + Len(flight) = sent
  /\ Numbered(inbox, 0)
  /\ Numbered(reads, Len(inbox))
  /\ Numbered(flight, Len(inbox) + Len(reads))

StreamInv == BeforeLink \/ OpeningUnderway \/ AfterOpening

IInv == TypeInv /\ DescribedInv /\ StreamInv

-----------------------------------------------------------------------------
LEMMA InitIInv == Init => IInv
<1> SUFFICES ASSUME Init PROVE IInv
  OBVIOUS
<1>1. TypeInv
  <2>1. pc \in [Side -> SenderPC \cup ReceiverPC]
    BY DEF Init, Side, SenderPC, ReceiverPC
  <2>2. flight = <<>> /\ reads = <<>> /\ inbox = <<>>
    BY DEF Init
  <2>3. described \in [Side -> BOOLEAN] /\ sent \in Nat /\ opening = FALSE /\ registered = FALSE
    BY DEF Init
  <2> QED
    BY <2>1, <2>2, <2>3, EmptySeq DEF TypeInv
<1>2. DescribedInv
  BY DEF Init, DescribedInv, Side, SenderPC, ReceiverPC
<1>3. BeforeLink
  BY DEF Init, BeforeLink, Silent, Side
<1> QED
  BY <1>1, <1>2, <1>3 DEF IInv, StreamInv

(* What a side does about a signal it has read. *)
LEMMA HandledSignal ==
  ASSUME TypeInv, DescribedInv, NEW s, HandleSenderSignal(s) \/ HandleReceiverSignal(s)
  PROVE  /\ pc' \in [Side -> SenderPC \cup ReceiverPC]
         /\ described' \in [Side -> BOOLEAN]
         /\ DescribedInv'
         /\ pc'["sender"] = "open" => pc["sender"] = "open"
<1> USE DEF TypeInv, DescribedInv, Side, SenderPC, ReceiverPC
<1>1. CASE HandleSenderSignal(s)
  <2>1. CASE s.type = "answer" /\ IsFirstAnswer
    BY <1>1, <2>1 DEF HandleSenderSignal, IsFirstAnswer, Describe, Goto
  <2>2. CASE UNCHANGED <<pc, described>>
    BY <2>2
  <2> QED
    BY <1>1, <2>1, <2>2 DEF HandleSenderSignal, QueueCandidate, AddCandidate
<1>2. CASE HandleReceiverSignal(s)
  <2>1. CASE s.type = "offer" /\ pc["receiver"] = "waiting"
    BY <1>2, <2>1 DEF HandleReceiverSignal, Goto
  <2>2. CASE UNCHANGED <<pc, described>>
    BY <2>2
  <2> QED
    BY <1>2, <2>1, <2>2 DEF HandleReceiverSignal, QueueCandidate, AddCandidate
<1> QED
  BY <1>1, <1>2

(* The handshake of the two sides, in every step. *)
LEMMA DescribedStep ==
  ASSUME TypeInv, DescribedInv, [Next]_vars
  PROVE  /\ pc' \in [Side -> SenderPC \cup ReceiverPC]
         /\ described' \in [Side -> BOOLEAN]
         /\ DescribedInv'
         /\ pc'["sender"] = "open" => pc["sender"] = "open" \/ link = "up"
<1> USE DEF TypeInv, DescribedInv, Side, SenderPC, ReceiverPC
<1>1. CASE GatherFirst
  BY <1>1 DEF GatherFirst, Goto
<1>2. CASE PublishOffer
  BY <1>2 DEF PublishOffer, Goto
<1>3. CASE SenderOpens
  BY <1>3 DEF SenderOpens, Opens, Goto
<1>4. CASE Subscribe
  BY <1>4 DEF Subscribe, Goto, signalVars
<1>5. CASE Answer
  BY <1>5 DEF Answer, Describe, Goto
<1>6. CASE PublishAnswer
  BY <1>6 DEF PublishAnswer, Goto
<1>7. CASE ChannelArrives
  BY <1>7 DEF ChannelArrives, Opens, Goto
<1>8. ASSUME NEW x \in Side, PublishFails(x) \/ Fail(x)
      PROVE  /\ pc' = [pc EXCEPT ![x] = "failed"]
             /\ described' = [described EXCEPT ![x] = FALSE]
  BY <1>8 DEF PublishFails, Fail, Leave, Goto
<1>9. ASSUME NEW x \in Side, NEW s \in air[x], TakeSignal(x, s)
      PROVE  HandleSenderSignal(s) \/ HandleReceiverSignal(s)
  BY <1>9 DEF TakeSignal
<1>10. CASE UNCHANGED <<pc, described>>
  BY <1>10
<1>11. ASSUME NEW x \in Side, SideStep(x), ~ UNCHANGED <<pc, described>>
       PROVE  \/ PublishFails(x) \/ Fail(x)
              \/ \E s \in air[x] : TakeSignal(x, s)
  BY <1>11 DEF SideStep, SocketOpens, Skip, signalVars
<1>12. SendFirst \/ Connect \/ Datagram \/ PollEvent \/ PollRead \/ UNCHANGED vars
         => UNCHANGED <<pc, described>>
  BY DEF SendFirst, Connect, Datagram, PollEvent, PollRead, signalVars, vars
<1> QED
  BY <1>1, <1>2, <1>3, <1>4, <1>5, <1>6, <1>7, <1>8, <1>9, <1>10, <1>11, <1>12, HandledSignal DEF Next

-----------------------------------------------------------------------------
(* Only these actions touch the channel. *)
LEMMA ChannelSteps ==
  ASSUME [Next]_vars
  PROVE  \/ Connect \/ SendFirst \/ Datagram \/ PollEvent \/ PollRead
         \/ UNCHANGED <<link, channelVars>>
<1>1. \A x \in Side : SideStep(x) => UNCHANGED <<link, channelVars>>
  BY DEF SideStep, PublishFails, Fail, Leave, SocketOpens, TakeSignal, Skip
<1>2. GatherFirst \/ PublishOffer \/ SenderOpens => UNCHANGED <<link, channelVars>>
  BY DEF GatherFirst, PublishOffer, SenderOpens, Opens
<1>3. Subscribe \/ Answer \/ PublishAnswer \/ ChannelArrives => UNCHANGED <<link, channelVars>>
  BY DEF Subscribe, Answer, PublishAnswer, ChannelArrives, Opens
<1>4. UNCHANGED vars => UNCHANGED <<link, channelVars>>
  BY DEF vars
<1> QED
  BY <1>1, <1>2, <1>3, <1>4 DEF Next

(* A sequence without its first n elements, and those alone. *)
LEMMA Split ==
  ASSUME NEW s \in Seq(Nat), NEW n \in 1 .. Len(s)
  PROVE  /\ SubSeq(s, 1, n) \in Seq(Nat) /\ Len(SubSeq(s, 1, n)) = n
         /\ \A i \in 1 .. n : SubSeq(s, 1, n)[i] = s[i]
         /\ SubSeq(s, n + 1, Len(s)) \in Seq(Nat)
         /\ Len(SubSeq(s, n + 1, Len(s))) = Len(s) - n
         /\ \A i \in 1 .. Len(s) - n : SubSeq(s, n + 1, Len(s))[i] = s[n + i]
  BY SubSeqProperties

(* The first datagram opens the channel, whatever comes with it; the others
   bring the messages that follow those the stack has handed on. *)
LEMMA DatagramStream ==
  ASSUME TypeInv, StreamInv, Datagram
  PROVE  /\ flight' \in Seq(Nat) /\ reads' \in Seq(Nat) /\ opening' \in BOOLEAN
         /\ StreamInv'
<1>1. PICK n \in 1 .. Len(flight) :
         /\ flight' = SubSeq(flight, n + 1, Len(flight))
         /\ opening' = (Head(SubSeq(flight, 1, n)) = 0)
         /\ reads' = IF Head(SubSeq(flight, 1, n)) = 0
                       THEN Tail(SubSeq(flight, 1, n)) ELSE SubSeq(flight, 1, n)
  BY DEF Datagram
<1> DEFINE new == SubSeq(flight, 1, n)
<1>2. /\ flight \in Seq(Nat) /\ reads = <<>> /\ ~ opening
      /\ link' = link /\ sent' = sent /\ registered' = registered /\ inbox' = inbox
      /\ inbox \in Seq(Nat) /\ sent \in Nat
  BY DEF Datagram, IsDrained, TypeInv
<1>3. /\ new \in Seq(Nat) /\ Len(new) = n /\ \A i \in 1 .. n : new[i] = flight[i]
      /\ flight' \in Seq(Nat) /\ Len(flight') = Len(flight) - n
      /\ \A i \in 1 .. Len(flight) - n : flight'[i] = flight[n + i]
  BY <1>1, <1>2, Split
<1>10. reads' = IF Head(new) = 0 THEN Tail(new) ELSE new
  BY <1>1
<1>11. opening' = (Head(new) = 0)
  BY <1>1
<1> HIDE DEF new
<1>5. n \in 1 .. Len(flight) /\ Len(flight) \in Nat /\ Len(inbox) \in Nat
  BY <1>2, LenProperties
<1>12. new # <<>>
  BY <1>3, <1>5
<1>13. /\ Head(new) = new[1]
      /\ Tail(new) \in Seq(Nat) /\ Len(Tail(new)) = Len(new) - 1
      /\ \A i \in 1 .. Len(Tail(new)) : Tail(new)[i] = new[i + 1]
  BY <1>3, <1>12, HeadTailProperties
<1>4. /\ Head(new) = flight[1]
      /\ Tail(new) \in Seq(Nat) /\ Len(Tail(new)) = n - 1
      /\ \A i \in 1 .. n - 1 : Tail(new)[i] = flight[i + 1]
  BY <1>3, <1>5, <1>13
<1>6. ~ BeforeLink
  BY <1>5 DEF BeforeLink
<1>7. CASE OpeningUnderway
  <2>1. flight[1] = 0
    BY <1>5, <1>7 DEF OpeningUnderway, Numbered
  <2>2. opening' /\ reads' = Tail(new)
    BY <1>10, <1>11, <1>4, <2>1
  <2>3. Len(inbox) = 0
    BY <1>7 DEF OpeningUnderway, Silent
  <2>4. Numbered(reads', 0)
    BY <1>4, <1>5, <1>7, <2>2 DEF OpeningUnderway, Numbered
  <2>5. Numbered(flight', n - 1)
    <3> SUFFICES ASSUME NEW i \in 1 .. Len(flight') PROVE flight'[i] = (n - 1) + i
      BY DEF Numbered
    <3>1. n + i \in 1 .. Len(flight) /\ flight'[i] = flight[n + i]
      BY <1>3, <1>5
    <3>2. flight[n + i] = (0 - 1) + (n + i)
      BY <1>7, <3>1 DEF OpeningUnderway, Numbered
    <3> QED
      BY <1>5, <3>1, <3>2
  <2>6. Numbered(inbox', 0)
    BY <1>2, <2>3 DEF Numbered
  <2>7. Len(inbox') = 0 /\ Len(reads') = n - 1 /\ Len(flight') = sent' + 1 - n
    BY <1>2, <1>3, <1>4, <1>7, <2>2, <2>3 DEF OpeningUnderway
  <2>8. AfterOpening'
    <3>1. Numbered(inbox, 0)'
      BY <2>6 DEF Numbered
    <3>2. Numbered(reads, Len(inbox))'
      BY <2>4, <2>7 DEF Numbered
    <3>3. Numbered(flight, Len(inbox) + Len(reads))'
      BY <1>5, <2>5, <2>7 DEF Numbered
    <3>4. Len(inbox') + Len(reads') + Len(flight') = sent'
      BY <1>2, <1>5, <2>7
    <3>5. link' = "up" /\ opening'
      BY <1>2, <1>7, <2>2 DEF OpeningUnderway
    <3> QED
      BY <3>1, <3>2, <3>3, <3>4, <3>5 DEF AfterOpening
  <2> QED
    BY <1>3, <1>4, <2>2, <2>8 DEF StreamInv
<1>8. CASE AfterOpening
  <2>1. Len(reads) = 0 /\ registered
    BY <1>2, <1>8 DEF AfterOpening
  <2>2. flight[1] = Len(inbox) + 1
    BY <1>5, <1>8, <2>1 DEF AfterOpening, Numbered
  <2>3. ~ opening' /\ opening' \in BOOLEAN /\ reads' = new
    <3>1. Head(new) # 0
      BY <1>4, <1>5, <2>2
    <3>2. reads' = new
      BY <1>10, <3>1
    <3>3. ~ opening' /\ opening' \in BOOLEAN
      BY <1>11, <3>1, Zenon
    <3> QED
      BY <3>2, <3>3
  <2>4. Numbered(reads', Len(inbox))
    BY <1>3, <1>5, <1>8, <2>1, <2>3 DEF AfterOpening, Numbered
  <2>5. Numbered(flight', Len(inbox) + n)
    <3> SUFFICES ASSUME NEW i \in 1 .. Len(flight') PROVE flight'[i] = (Len(inbox) + n) + i
      BY DEF Numbered
    <3>1. n + i \in 1 .. Len(flight) /\ flight'[i] = flight[n + i]
      BY <1>3, <1>5
    <3>2. flight[n + i] = (Len(inbox) + 0) + (n + i)
      BY <1>8, <2>1, <3>1 DEF AfterOpening, Numbered
    <3> QED
      BY <1>5, <3>1, <3>2
  <2>6. Len(reads') = n /\ Len(inbox') + n + Len(flight') = sent'
    <3>1. Len(inbox) + 0 + Len(flight) = sent
      BY <1>8, <2>1 DEF AfterOpening
    <3>2. Len(inbox') = Len(inbox) /\ Len(flight') = Len(flight) - n /\ Len(reads') = n
      BY <1>2, <1>3, <2>3
    <3> QED
      BY <1>2, <1>5, <3>1, <3>2
  <2>7. AfterOpening'
    BY <1>2, <1>8, <2>1, <2>4, <2>5, <2>6 DEF AfterOpening, Numbered
  <2> QED
    BY <1>3, <2>3, <2>7 DEF StreamInv
<1> QED
  BY <1>6, <1>7, <1>8 DEF StreamInv

(* A message read is the next one of the channel that is registered. *)
LEMMA ReadStream ==
  ASSUME TypeInv, StreamInv, PollRead
  PROVE  reads' \in Seq(Nat) /\ inbox' \in Seq(Nat) /\ StreamInv'
<1>1. /\ reads \in Seq(Nat) /\ reads # <<>> /\ ~ opening
      /\ inbox \in Seq(Nat) /\ flight \in Seq(Nat) /\ sent \in Nat
      /\ UNCHANGED <<link, sent, flight, opening, registered>>
      /\ reads' = Tail(reads)
  BY DEF PollRead, MayRead, TypeInv
<1>2. AfterOpening
  BY <1>1 DEF StreamInv, BeforeLink, OpeningUnderway, Silent
<1>3. registered /\ inbox' = Append(inbox, Head(reads))
  BY <1>1, <1>2 DEF AfterOpening, PollRead
<1>4. /\ Len(reads) \in Nat \ {0} /\ Head(reads) = reads[1] /\ Head(reads) \in Nat
      /\ reads' \in Seq(Nat) /\ Len(reads') = Len(reads) - 1
      /\ \A i \in 1 .. Len(reads) - 1 : reads'[i] = reads[i + 1]
  BY <1>1, HeadTailProperties, LenProperties, EmptySeq
<1>5. /\ inbox' \in Seq(Nat) /\ Len(inbox') = Len(inbox) + 1 /\ Len(inbox) \in Nat
      /\ \A i \in 1 .. Len(inbox) : inbox'[i] = inbox[i]
      /\ inbox'[Len(inbox) + 1] = reads[1]
  BY <1>1, <1>3, <1>4, AppendProperties, LenProperties
<1>6. Numbered(inbox', 0)
  <2> SUFFICES ASSUME NEW i \in 1 .. Len(inbox') PROVE inbox'[i] = 0 + i
    BY DEF Numbered
  <2>1. CASE i = Len(inbox) + 1
    <3>1. reads[1] = Len(inbox) + 1
      BY <1>2, <1>4 DEF AfterOpening, Numbered
    <3> QED
      BY <1>5, <2>1, <3>1
  <2>2. CASE i \in 1 .. Len(inbox)
    BY <1>2, <1>5, <2>2 DEF AfterOpening, Numbered
  <2> QED
    BY <1>5, <2>1, <2>2
<1>7. Numbered(reads', Len(inbox'))
  BY <1>2, <1>4, <1>5 DEF AfterOpening, Numbered
<1>8. Len(inbox') + Len(reads') = Len(inbox) + Len(reads)
  BY <1>4, <1>5
<1>9. AfterOpening'
  BY <1>1, <1>2, <1>3, <1>6, <1>7, <1>8 DEF AfterOpening, Numbered
<1> QED
  BY <1>4, <1>5, <1>9 DEF StreamInv

(* A message sent is the last one underway. *)
LEMMA SendStream ==
  ASSUME TypeInv, StreamInv, SendFirst
  PROVE  sent' \in Nat /\ flight' \in Seq(Nat) /\ StreamInv'
<1>1. /\ sent \in Nat /\ sent' = sent + 1 /\ flight \in Seq(Nat)
      /\ flight' = Append(flight, sent')
      /\ inbox \in Seq(Nat) /\ reads \in Seq(Nat)
      /\ UNCHANGED <<link, opening, reads, registered, inbox>>
      /\ pc["sender"] = "open"
  BY DEF SendFirst, TypeInv
<1>2. /\ flight' \in Seq(Nat) /\ Len(flight') = Len(flight) + 1
      /\ \A i \in 1 .. Len(flight) : flight'[i] = flight[i]
      /\ flight'[Len(flight) + 1] = sent + 1
  BY <1>1, AppendProperties
<1>3. Len(flight) \in Nat /\ Len(inbox) \in Nat /\ Len(reads) \in Nat
  BY <1>1, LenProperties
<1>4. CASE OpeningUnderway
  BY <1>1, <1>2, <1>3, <1>4 DEF OpeningUnderway, Silent, Numbered, StreamInv
<1>5. CASE AfterOpening
  <2>1. Numbered(flight', Len(inbox) + Len(reads))
    <3> SUFFICES ASSUME NEW i \in 1 .. Len(flight')
                 PROVE  flight'[i] = (Len(inbox) + Len(reads)) + i
      BY DEF Numbered
    <3>1. CASE i = Len(flight) + 1
      <4>1. Len(inbox) + Len(reads) + Len(flight) = sent
        BY <1>5 DEF AfterOpening
      <4>2. flight'[i] = sent + 1
        BY <1>2, <3>1
      <4> DEFINE a == Len(inbox)
                 b == Len(reads)
                 c == Len(flight)
      <4>3. a \in Nat /\ b \in Nat /\ c \in Nat /\ a + b + c = sent /\ i = c + 1 /\ flight'[i] = sent + 1
        BY <1>3, <3>1, <4>1, <4>2
      <4> HIDE DEF a, b, c
      <4>4. flight'[i] = (a + b) + i
        BY <4>3
      <4> QED
        BY <4>4 DEF a, b
    <3>2. CASE i \in 1 .. Len(flight)
      BY <1>2, <1>5, <3>2 DEF AfterOpening, Numbered
    <3> QED
      BY <1>2, <1>3, <3>1, <3>2
  <2>2. AfterOpening'
    BY <1>1, <1>2, <1>3, <1>5, <2>1 DEF AfterOpening, Numbered
  <2> QED
    BY <1>1, <1>2, <2>2 DEF StreamInv
<1> QED
  BY <1>1, <1>4, <1>5 DEF StreamInv, BeforeLink

LEMMA NextIInv == IInv /\ [Next]_vars => IInv'
<1> SUFFICES ASSUME IInv, [Next]_vars PROVE IInv'
  OBVIOUS
<1>1. TypeInv /\ DescribedInv /\ StreamInv
  BY DEF IInv
<1>2. /\ pc' \in [Side -> SenderPC \cup ReceiverPC] /\ described' \in [Side -> BOOLEAN]
      /\ DescribedInv'
      /\ pc'["sender"] = "open" => pc["sender"] = "open" \/ link = "up"
  BY <1>1, DescribedStep
<1>3. CASE Connect
  <2>1. BeforeLink
    BY <1>1, <1>3 DEF Connect, StreamInv, OpeningUnderway, AfterOpening
  <2>2. /\ flight' = <<0>> /\ sent' = 0 /\ link' = "up"
        /\ UNCHANGED <<opening, reads, registered, inbox>>
    BY <1>3, <2>1 DEF Connect, BeforeLink
  <2>3. OpeningUnderway'
    BY <2>1, <2>2 DEF OpeningUnderway, BeforeLink, Silent, Numbered
  <2> QED
    BY <1>1, <1>2, <2>2, <2>3 DEF IInv, TypeInv, StreamInv
<1>4. CASE SendFirst
  BY <1>1, <1>2, <1>4, SendStream DEF IInv, TypeInv, SendFirst
<1>5. CASE Datagram
  BY <1>1, <1>2, <1>5, DatagramStream DEF IInv, TypeInv, Datagram
<1>6. CASE PollEvent
  <2>1. AfterOpening
    BY <1>1, <1>6 DEF PollEvent, StreamInv, BeforeLink, OpeningUnderway, Silent
  <2>2. AfterOpening'
    BY <1>6, <2>1 DEF PollEvent, AfterOpening
  <2> QED
    BY <1>1, <1>2, <1>6, <2>2 DEF IInv, TypeInv, StreamInv, PollEvent
<1>7. CASE PollRead
  BY <1>1, <1>2, <1>7, ReadStream DEF IInv, TypeInv, PollRead
<1>8. CASE UNCHANGED <<link, channelVars>>
  <2>1. BeforeLink => BeforeLink'
    BY <1>2, <1>8 DEF BeforeLink, Silent, channelVars
  <2>2. OpeningUnderway => OpeningUnderway'
    BY <1>8 DEF OpeningUnderway, Silent, channelVars
  <2>3. AfterOpening => AfterOpening'
    BY <1>8 DEF AfterOpening, channelVars
  <2>4. TypeInv'
    BY <1>1, <1>2, <1>8 DEF TypeInv, channelVars
  <2> QED
    BY <1>1, <1>2, <2>1, <2>2, <2>3, <2>4 DEF IInv, StreamInv
<1> QED
  BY <1>3, <1>4, <1>5, <1>6, <1>7, <1>8, ChannelSteps

THEOREM Invariance == Spec => []IInv
  BY InitIInv, NextIInv, PTL DEF Spec

(* A signal that is published again never ends a session: a side that still
   takes descriptions has none, whatever arrives in whatever order
   (handle_sender_signal, and the receiver's two ways to read signals). *)
THEOREM RepeatsHarmless == Spec => []RepeatsAreHarmless
<1>1. IInv => RepeatsAreHarmless
  BY DEF IInv, DescribedInv, RepeatsAreHarmless, Side, SenderPC, ReceiverPC
<1> QED
  BY <1>1, Invariance, PTL

(* The receiver reads the sender's messages from the first on and without a
   gap, also when they come with the datagram that opens the channel: the
   worker drains the stack's events before its messages (run_peer). *)
THEOREM FirstMessages == Spec => []FirstMessagesArrive
<1>1. IInv => FirstMessagesArrive
  <2> SUFFICES ASSUME IInv PROVE FirstMessagesArrive
    OBVIOUS
  <2>1. inbox \in Seq(Nat) /\ reads \in Seq(Nat) /\ flight \in Seq(Nat) /\ sent \in Nat
    BY DEF IInv, TypeInv
  <2>2. Len(inbox) \in Nat /\ Len(reads) \in Nat /\ Len(flight) \in Nat
    BY <2>1, LenProperties
  <2> QED
    BY <2>1, <2>2 DEF IInv, StreamInv, BeforeLink, OpeningUnderway, AfterOpening, Silent,
         Numbered, FirstMessagesArrive
<1> QED
  BY <1>1, Invariance, PTL

-----------------------------------------------------------------------------
(* Candidates: what Connects rests on besides fairness. *)

(* No candidate waits in the queue of a side that has the description: it would
   never be told to the stack (set_remote_description). *)
NoneStranded == \A x \in Side : described[x] => queued[x] = {}

ReadyInv ==
  /\ pc["sender"] = "connecting" => described["sender"]
  /\ pc["receiver"] \in {"publishing", "connecting"} => described["receiver"]

CandidateInv ==
  /\ queued = [x \in Side |-> queued[x]] /\ known = [x \in Side |-> known[x]]
  /\ air = [x \in Side |-> air[x]]
  /\ NoneStranded /\ ReadyInv

(* While the session of side x goes on, what it was told of the other side's
   candidates is kept, and a candidate that comes is kept too, unless the
   subscription's reader skipped it (handle_sender_signal, and the receiver's
   waits for the offer and for the channel). *)
Used(x) ==
  /\ queued[x] \cup known[x] \subseteq queued'[x] \cup known'[x]
  /\ \A s \in air[x] : \/ s \in air'[x] \/ s.type # "candidate"
                       \/ s.candidate \in queued'[x] \cup known'[x] \/ Skip(x, s)

CandidatesUsed == \A x \in Side : pc'[x] \in Ended \/ Used(x)

LEMMA InitCandidates == Init => CandidateInv
<1> SUFFICES ASSUME Init PROVE CandidateInv
  OBVIOUS
<1>1. /\ queued = [x \in Side |-> {}] /\ known = [x \in Side |-> {}] /\ air = [x \in Side |-> {}]
      /\ pc["sender"] = "gathering" /\ pc["receiver"] = "joining"
  BY DEF Init, Side
<1> QED
  BY <1>1 DEF CandidateInv, NoneStranded, ReadyInv

(* What the sender makes of a signal. *)
LEMMA SenderTakes ==
  ASSUME IInv, CandidateInv, NEW s \in air["sender"], TakeSignal("sender", s)
  PROVE  CandidateInv' /\ CandidatesUsed
<1> USE DEF Side
<1>1. air' = [air EXCEPT !["sender"] = @ \ {s}] /\ HandleSenderSignal(s)
      /\ pc["sender"] \in {"awaiting", "waiting", "connecting"}
  BY DEF TakeSignal
<1>2. /\ air' = [x \in Side |-> air'[x]]
      /\ air'["receiver"] = air["receiver"] /\ air'["sender"] = air["sender"] \ {s}
  BY <1>1 DEF CandidateInv
<1>3. CASE s.type = "answer" /\ IsFirstAnswer
  <2>1. Describe("sender", "connecting") /\ pc["sender"] = "awaiting"
    BY <1>1, <1>3 DEF HandleSenderSignal, IsFirstAnswer
  <2>2. ~ described["sender"]
    BY <2>1 DEF IInv, DescribedInv
  <2>3. /\ described' = [described EXCEPT !["sender"] = TRUE]
        /\ queued' = [queued EXCEPT !["sender"] = {}]
        /\ known' = [known EXCEPT !["sender"] = @ \cup queued["sender"]]
        /\ pc' = [pc EXCEPT !["sender"] = "connecting"]
    BY <2>1, <2>2 DEF Describe, Goto
  <2> QED
    BY <1>2, <1>3, <2>3 DEF IInv, TypeInv, CandidateInv, NoneStranded, ReadyInv, CandidatesUsed, Used
<1>4. CASE s.type = "candidate" /\ pc["sender"] = "awaiting"
  <2>1. /\ queued' = [queued EXCEPT !["sender"] = @ \cup {s.candidate}]
        /\ UNCHANGED <<pc, described, known>>
    BY <1>1, <1>4 DEF HandleSenderSignal, IsFirstAnswer, QueueCandidate
  <2>2. ~ described["sender"]
    BY <1>4 DEF IInv, DescribedInv
  <2> QED
    BY <1>2, <1>4, <2>1, <2>2 DEF CandidateInv, NoneStranded, ReadyInv, CandidatesUsed, Used
<1>5. CASE s.type = "candidate" /\ pc["sender"] = "connecting"
  <2>1. described["sender"]
    BY <1>5 DEF CandidateInv, ReadyInv
  <2>2. /\ known' = [known EXCEPT !["sender"] = @ \cup {s.candidate}]
        /\ UNCHANGED <<pc, described, queued>>
    BY <1>1, <1>5, <2>1 DEF HandleSenderSignal, IsFirstAnswer, AddCandidate
  <2> QED
    BY <1>2, <1>5, <2>2 DEF CandidateInv, NoneStranded, ReadyInv, CandidatesUsed, Used
<1>6. CASE UNCHANGED <<pc, described, known, queued>> /\ s.type # "candidate"
  BY <1>2, <1>6 DEF CandidateInv, NoneStranded, ReadyInv, CandidatesUsed, Used
<1>7. pc["sender"] # "waiting"
  BY DEF IInv, DescribedInv, SenderPC
<1> QED
  BY <1>1, <1>3, <1>4, <1>5, <1>6, <1>7 DEF HandleSenderSignal

(* What the receiver makes of one. *)
LEMMA ReceiverTakes ==
  ASSUME IInv, CandidateInv, NEW s \in air["receiver"], TakeSignal("receiver", s)
  PROVE  CandidateInv' /\ CandidatesUsed
<1> USE DEF Side
<1>1. air' = [air EXCEPT !["receiver"] = @ \ {s}] /\ HandleReceiverSignal(s)
      /\ pc["receiver"] \in {"awaiting", "waiting", "connecting"}
  BY DEF TakeSignal
<1>2. /\ air' = [x \in Side |-> air'[x]]
      /\ air'["sender"] = air["sender"] /\ air'["receiver"] = air["receiver"] \ {s}
  BY <1>1 DEF CandidateInv
<1>3. CASE s.type = "offer" /\ pc["receiver"] = "waiting"
  <2>1. pc' = [pc EXCEPT !["receiver"] = "answering"] /\ UNCHANGED <<described, known, queued>>
    BY <1>1, <1>3 DEF HandleReceiverSignal, Goto
  <2> QED
    BY <1>2, <1>3, <2>1 DEF IInv, TypeInv, CandidateInv, NoneStranded, ReadyInv, CandidatesUsed, Used
<1>4. CASE s.type = "candidate" /\ pc["receiver"] = "waiting"
  <2>1. /\ queued' = [queued EXCEPT !["receiver"] = @ \cup {s.candidate}]
        /\ UNCHANGED <<pc, described, known>>
    BY <1>1, <1>4 DEF HandleReceiverSignal, QueueCandidate
  <2>2. ~ described["receiver"]
    BY <1>4 DEF IInv, DescribedInv
  <2> QED
    BY <1>2, <1>4, <2>1, <2>2 DEF CandidateInv, NoneStranded, ReadyInv, CandidatesUsed, Used
<1>5. CASE s.type = "candidate" /\ pc["receiver"] = "connecting"
  <2>1. described["receiver"]
    BY <1>5 DEF CandidateInv, ReadyInv
  <2>2. /\ known' = [known EXCEPT !["receiver"] = @ \cup {s.candidate}]
        /\ UNCHANGED <<pc, described, queued>>
    BY <1>1, <1>5, <2>1 DEF HandleReceiverSignal, AddCandidate
  <2> QED
    BY <1>2, <1>5, <2>2 DEF CandidateInv, NoneStranded, ReadyInv, CandidatesUsed, Used
<1>6. CASE UNCHANGED <<pc, described, known, queued>> /\ s.type # "candidate"
  BY <1>2, <1>6 DEF CandidateInv, NoneStranded, ReadyInv, CandidatesUsed, Used
<1>7. pc["receiver"] # "awaiting"
  BY DEF IInv, DescribedInv, ReceiverPC
<1> QED
  BY <1>1, <1>3, <1>4, <1>5, <1>6, <1>7 DEF HandleReceiverSignal

(* A side that goes forgets everything. *)
LEMMA LeaveCandidates ==
  ASSUME IInv, CandidateInv, NEW x \in Side, Leave(x),
         air' = [y \in Side |-> air'[y]], \A y \in Side : y # x => air[y] \subseteq air'[y]
  PROVE  CandidateInv' /\ CandidatesUsed
<1>1. /\ pc' = [pc EXCEPT ![x] = "failed"]
      /\ described' = [described EXCEPT ![x] = FALSE]
      /\ queued' = [queued EXCEPT ![x] = {}] /\ known' = [known EXCEPT ![x] = {}]
  BY DEF Leave, Goto
<1>2. pc'[x] = "failed" /\ \A y \in Side : y # x => pc'[y] = pc[y]
  BY <1>1 DEF IInv, TypeInv
<1>3. NoneStranded' /\ ReadyInv'
  BY <1>1, <1>2 DEF IInv, TypeInv, CandidateInv, NoneStranded, ReadyInv, Side
<1>4. \A y \in Side : y # x => queued'[y] = queued[y] /\ known'[y] = known[y]
  BY <1>1 DEF CandidateInv
<1>5. CandidatesUsed
  BY <1>2, <1>4 DEF CandidatesUsed, Used, Ended
<1>6. queued' = [y \in Side |-> queued'[y]] /\ known' = [y \in Side |-> known'[y]]
  BY <1>1 DEF CandidateInv
<1> QED
  BY <1>3, <1>5, <1>6 DEF CandidateInv

(* Publishing adds to what the other side has still to read. *)
LEMMA PublishCandidates ==
  ASSUME CandidateInv, NEW x \in Side, Publish(x)
  PROVE  /\ air' = [y \in Side |-> air'[y]]
         /\ \A y \in Side : air[y] \subseteq air'[y]
<1>1. PICK missed \in SUBSET Bundle(x) :
        air' = [air EXCEPT ![Other(x)] = @ \cup (Bundle(x) \ missed)]
  BY DEF Publish
<1> QED
  BY <1>1 DEF CandidateInv

LEMMA NextCandidates ==
  ASSUME IInv, CandidateInv, [Next]_vars
  PROVE  CandidateInv' /\ CandidatesUsed
<1>1. CASE UNCHANGED <<described, queued, known>> /\ air' = [y \in Side |-> air'[y]]
           /\ (\A y \in Side : air[y] \subseteq air'[y])
           /\ ReadyInv'
  BY <1>1 DEF CandidateInv, NoneStranded, CandidatesUsed, Used
<1>2. CASE GatherFirst \/ Subscribe
  <2>1. UNCHANGED <<described, queued, known, air>>
    BY <1>2 DEF GatherFirst, Subscribe, signalVars
  <2>2. ReadyInv'
    BY <1>2, <2>1 DEF GatherFirst, Subscribe, Goto, CandidateInv, ReadyInv, IInv, TypeInv, Side
  <2> QED
    BY <1>1, <2>1, <2>2 DEF CandidateInv
<1>3. CASE PublishOffer
  <2>1. ReadyInv'
    BY <1>3 DEF PublishOffer, Goto, CandidateInv, ReadyInv, IInv, TypeInv, Side
  <2> QED
    BY <1>1, <1>3, <2>1, PublishCandidates DEF PublishOffer, Side
<1>4. CASE PublishAnswer
  <2>1. ReadyInv'
    BY <1>4 DEF PublishAnswer, Goto, CandidateInv, ReadyInv, IInv, TypeInv, Side
  <2> QED
    BY <1>1, <1>4, <2>1, PublishCandidates DEF PublishAnswer, Side
<1>5. CASE Answer
  <2>1. ~ described["receiver"]
    BY <1>5 DEF Answer, IInv, DescribedInv
  <2>2. /\ described' = [described EXCEPT !["receiver"] = TRUE]
        /\ queued' = [queued EXCEPT !["receiver"] = {}]
        /\ known' = [known EXCEPT !["receiver"] = @ \cup queued["receiver"]]
        /\ pc' = [pc EXCEPT !["receiver"] = "publishing"]
        /\ air' = air
    BY <1>5, <2>1 DEF Answer, Describe, Goto
  <2> QED
    BY <2>2 DEF IInv, TypeInv, CandidateInv, NoneStranded, ReadyInv, CandidatesUsed, Used, Side
<1>6. ASSUME NEW x \in Side, Opens(x), x = "receiver" => described["receiver"]
      PROVE  CandidateInv' /\ CandidatesUsed
  <2>1. /\ pc' = [pc EXCEPT ![x] = "open"] /\ air' = [air EXCEPT ![x] = {}]
        /\ UNCHANGED <<described, queued, known>>
    BY <1>6 DEF Opens, Goto
  <2>2. ReadyInv'
    BY <2>1 DEF CandidateInv, ReadyInv, IInv, TypeInv, Side
  <2>3. pc'[x] = "open" /\ \A y \in Side : y # x => air'[y] = air[y]
    BY <2>1 DEF IInv, TypeInv, CandidateInv
  <2>4. CandidatesUsed
    BY <2>1, <2>3 DEF CandidatesUsed, Used, Ended
  <2>5. air' = [y \in Side |-> air'[y]]
    BY <2>1 DEF CandidateInv
  <2> QED
    BY <2>1, <2>2, <2>4, <2>5 DEF CandidateInv, NoneStranded
<1>7. CASE SenderOpens \/ ChannelArrives
  BY <1>6, <1>7 DEF SenderOpens, ChannelArrives, CandidateInv, ReadyInv, Side
<1>8. ASSUME NEW x \in Side, PublishFails(x) \/ Fail(x)
      PROVE  CandidateInv' /\ CandidatesUsed
  <2>1. CASE PublishFails(x)
    BY <2>1, PublishCandidates, LeaveCandidates DEF PublishFails
  <2>2. CASE Fail(x)
    <3>1. Leave(x) /\ air' = [air EXCEPT ![x] = {}]
      BY <2>2 DEF Fail
    <3>2. air' = [y \in Side |-> air'[y]] /\ \A y \in Side : y # x => air[y] \subseteq air'[y]
      BY <3>1 DEF CandidateInv
    <3> QED
      BY <3>1, <3>2, LeaveCandidates
  <2> QED
    BY <1>8, <2>1, <2>2
<1>9. ASSUME NEW x \in Side, NEW s \in air[x], TakeSignal(x, s)
      PROVE  CandidateInv' /\ CandidatesUsed
  BY <1>9, SenderTakes, ReceiverTakes DEF Side
<1>10. ASSUME NEW x \in Side, NEW s \in air[x], Skip(x, s)
       PROVE  CandidateInv' /\ CandidatesUsed
  <2>1. air' = [air EXCEPT ![x] = @ \ {s}] /\ UNCHANGED <<pc, described, queued, known>>
    BY <1>10 DEF Skip
  <2>2. \A y \in Side : \A t \in air[y] : t \in air'[y] \/ (y = x /\ t = s)
    BY <2>1 DEF CandidateInv
  <2>3. CandidatesUsed
    BY <1>10, <2>1, <2>2 DEF CandidatesUsed, Used
  <2>4. air' = [y \in Side |-> air'[y]]
    BY <2>1 DEF CandidateInv
  <2> QED
    BY <2>1, <2>3, <2>4 DEF CandidateInv, NoneStranded, ReadyInv
<1>11. ASSUME UNCHANGED <<pc, signalVars>> PROVE CandidateInv' /\ CandidatesUsed
  BY <1>1, <1>11 DEF signalVars, CandidateInv, ReadyInv
<1>12. SendFirst \/ Connect \/ Datagram \/ PollEvent \/ PollRead \/ UNCHANGED vars
         => UNCHANGED <<pc, signalVars>>
  BY DEF SendFirst, Connect, Datagram, PollEvent, PollRead, vars
<1>13. \A x \in Side, r \in Relays : SocketOpens(x, r) => UNCHANGED <<pc, signalVars>>
  BY DEF SocketOpens
<1> QED
  BY <1>2, <1>3, <1>4, <1>5, <1>7, <1>8, <1>9, <1>10, <1>11, <1>12, <1>13 DEF Next, SideStep

(* What a side's stack is not told while it has no description it is told with
   it (set_remote_description, the queue of candidates before it). *)
THEOREM CandidatesApplied == Spec => []NoneStranded
<1>1. IInv /\ CandidateInv /\ [Next]_vars => CandidateInv'
  BY NextCandidates
<1>2. CandidateInv => NoneStranded
  BY DEF CandidateInv
<1> QED
  BY <1>1, <1>2, InitCandidates, Invariance, PTL DEF Spec

(* No candidate that comes is dropped between the two ways a side has to take
   one (handle_sender_signal, the receiver's wait for the offer and for the
   channel). *)
THEOREM CandidatesKept == Spec => [][CandidatesUsed]_vars
<1>1. IInv /\ CandidateInv /\ [Next]_vars => CandidateInv' /\ CandidatesUsed
  BY NextCandidates
<1>2. IInv /\ CandidateInv /\ [Next]_vars => CandidateInv'
  BY <1>1
<1>3. IInv /\ CandidateInv /\ [Next]_vars => [CandidatesUsed]_vars
  BY <1>1
<1> QED
  BY <1>2, <1>3, InitCandidates, Invariance, PTL DEF Spec
=============================================================================
