------------------------- MODULE OnionService_proofs -------------------------
(***************************************************************************)
(* Theorems about OnionService and the directory beneath it, for any       *)
(* lifetimes and numbers of authorities, relays, HSDirs and clients, and   *)
(* whatever goes wrong.                                                    *)
(***************************************************************************)
EXTENDS OnionService, SequenceTheorems, FiniteSetTheorems, FunctionTheorems, TLAPS

(* A consensus that passed every check when it was fetched. *)
Checked(d) ==
  /\ d \in [from : Nat, signed : Nat, timely : BOOLEAN]
  /\ Majority(d.signed) /\ d.timely /\ d.from <= now

(* What is fetched or in place was checked, and a directory is there before
   anything is announced. *)
DirectoryInv ==
  /\ now \in Nat
  /\ dir # NoDirectory => Checked(dir)
  /\ consensus # NoDirectory => Checked(consensus)
  /\ task = "microdescs" => consensus # NoDirectory
  /\ event = "consensus" \/ task = "announce" => dir # NoDirectory

(* The service can decrypt what is introduced for period p, or has had to
   forget it. *)
Held(p) == p \in Nat /\ (p \in subs \/ p < floor)

(* Descriptors stored or underway are of periods the service remembered first. *)
PeriodInv ==
  /\ subs \subseteq Nat /\ floor \in Nat
  /\ job # None => "all" \in DOMAIN job /\ \E n \in Nat : job.all = {n, n + 1}
  /\ hsdir = [h \in HsDirs |-> [p \in Periods |-> hsdir[h][p]]]
  /\ \A h \in HsDirs, p \in Periods : hsdir[h][p] # None => Held(p)
  /\ \A u \in uploads : Held(u.period)

Standing == {"idle", "introduced", "connected", "unanswered", "turned away"}
Message == [from : Clients, try : Nat, period : Nat]

(* What a message says of an attempt of its client's that is over, or of the
   one underway. *)
Recent(m) ==
  /\ Held(m.period)
  /\ m.try <= client[m.from].try
  /\ m.try = client[m.from].try
       => client[m.from].st # "idle" /\ client[m.from].period = m.period

ClientInv ==
  /\ client \in [Clients -> [st : Standing, period : Nat, try : Nat]]
  /\ \A c \in Clients : client[c].st \in {"introduced", "connected"} => Held(client[c].period)
  /\ NobodyTurnedAway
  /\ introq \in Seq(Message)
  /\ \A i \in 1 .. Len(introq) : Recent(introq[i])
  /\ taken # None => taken \in Message /\ Recent(taken)

IInv == DirectoryInv /\ PeriodInv /\ ClientInv

-----------------------------------------------------------------------------
(* The directory. *)

LEMMA InitDirectory == ServiceInitial => DirectoryInv
  BY DEF ServiceInitial, Init, DirectoryInv, InitialEvent

LEMMA ValidatedIsTrusted ==
  ASSUME NEW d \in Documents, Validated(d)
  PROVE  Majority(d.signed)
<1>1. PICK certs \in Certificates(d) : CheckSignature(d, certs)
  BY DEF Validated
<1>2. certs \in Int /\ d.signed \in Int
  BY DirectoryAssumption DEF Certificates, Documents
<1> QED
  BY <1>1, <1>2, DirectoryAssumption DEF CheckSignature, Majority

LEMMA NextDirectory ==
  ASSUME DirectoryInv, Next \/ UNCHANGED dirVars
  PROVE  DirectoryInv'
<1> USE DEF DirectoryInv, Checked
<1>1. CASE FetchConsensus
  <2>1. PICK d \in Documents :
          /\ Validated(d)
          /\ consensus' = [from |-> d.from, signed |-> d.signed, timely |-> ~ Expired(d)]
    BY <1>1 DEF FetchConsensus
  <2>2. Majority(d.signed) /\ IsTimely(d)
    BY <2>1, ValidatedIsTrusted DEF Validated
  <2>3. d.from \in Nat /\ d.signed \in Nat
    BY DirectoryAssumption DEF Documents
  <2>4. /\ consensus' \in [from : Nat, signed : Nat, timely : BOOLEAN]
        /\ consensus'.signed = d.signed /\ consensus'.from = d.from /\ consensus'.timely
    BY <2>1, <2>2, <2>3 DEF IsTimely
  <2>5. consensus' # NoDirectory
    BY <2>4, DirectoryAssumption
  <2>6. UNCHANGED <<now, dir, event>> /\ task' = "microdescs"
    BY <1>1 DEF FetchConsensus
  <2>7. Majority(consensus'.signed) /\ consensus'.from <= now
    BY <2>2, <2>4 DEF IsTimely
  <2> QED
    BY <2>4, <2>5, <2>6, <2>7 DEF Majority
<1>2. CASE Install
  BY <1>2 DEF Install, Majority
<1>3. CASE WakeToRefresh
  BY <1>3 DEF WakeToRefresh, Majority
<1>4. CASE DownloadFails
  BY <1>4 DEF DownloadFails, Majority
<1>5. CASE Announce
  BY <1>5 DEF Announce, Majority
<1>6. CASE WatcherReads
  BY <1>6 DEF WatcherReads, Majority
<1>7. CASE Tick
  BY <1>7 DEF Tick, Majority
<1>8. CASE UNCHANGED dirVars
  BY <1>8 DEF dirVars, Majority
<1> QED
  BY <1>1, <1>2, <1>3, <1>4, <1>5, <1>6, <1>7, <1>8 DEF Next

-----------------------------------------------------------------------------
(* Periods. *)

LEMMA InitPeriod == ServiceInitial => PeriodInv /\ ClientInv
<1> SUFFICES ASSUME ServiceInitial PROVE PeriodInv /\ ClientInv
  OBVIOUS
<1>1. ServiceInit
  BY DEF ServiceInitial
<1>2. PeriodInv
  <2>1. \A h \in HsDirs, p \in Periods : hsdir[h][p] = None
    BY <1>1 DEF ServiceInit
  <2>2. hsdir = [h \in HsDirs |-> [p \in Periods |-> hsdir[h][p]]]
    BY <1>1 DEF ServiceInit
  <2>3. subs = {} /\ floor = 0 /\ job = None /\ uploads = {}
    BY <1>1 DEF ServiceInit
  <2> QED
    BY <2>1, <2>2, <2>3 DEF PeriodInv
<1>3. client = [c \in Clients |-> Idle] /\ introq = <<>> /\ taken = None
  BY <1>1 DEF ServiceInit
<1>4. \A c \in Clients : client[c].st = "idle" /\ client[c] \in [st : Standing, period : Nat, try : Nat]
  BY <1>3 DEF Idle, Standing
<1>5. client \in [Clients -> [st : Standing, period : Nat, try : Nat]]
  BY <1>3, <1>4
<1>6. introq = <<>> /\ introq \in Seq(Message) /\ Len(introq) = 0
  BY <1>3, EmptySeq
<1>7. ClientInv
  <2>1. \A i \in 1 .. Len(introq) : Recent(introq[i])
    BY <1>6
  <2>2. NobodyTurnedAway
    BY <1>4 DEF NobodyTurnedAway
  <2> QED
    BY <1>3, <1>4, <1>5, <1>6, <2>1, <2>2 DEF ClientInv
<1> QED
  BY <1>2, <1>7

(* What a service remembers grows until a round ends. *)
LEMMA HeldStays ==
  ASSUME subs \subseteq subs', floor' = floor, NEW p, Held(p)
  PROVE  Held(p)'
  BY DEF Held

(* After a round only what lies below the floor is forgotten. *)
LEMMA RoundKeepsHeld ==
  ASSUME PeriodInv, RoundEnds
  PROVE  /\ subs' \subseteq Nat /\ floor' \in Nat /\ floor <= floor'
         /\ \A p : Held(p) => Held(p)'
<1>1. PICK n \in Nat : job.all = {n, n + 1}
  BY DEF PeriodInv, RoundEnds
<1>2. Min(job.all) = n
  <2>1. n \in job.all /\ \A y \in job.all : n =< y
    BY <1>1
  <2>2. \A x \in job.all : (\A y \in job.all : x =< y) => x = n
    BY <1>1
  <2> QED
    BY <2>1, <2>2 DEF Min
<1> DEFINE old == Oldest(job.all)
<1>3. old \in Nat
  BY <1>2 DEF Oldest
<1> HIDE DEF old
<1>4. subs' = {p \in subs : p >= old}
  BY DEF RoundEnds, Forget, old
<1>5. floor' = IF old > floor THEN old ELSE floor
  BY DEF RoundEnds, old
<1>6. subs \subseteq Nat /\ floor \in Nat
  BY DEF PeriodInv
<1>7. floor' \in Nat /\ floor <= floor' /\ old <= floor'
  BY <1>3, <1>5, <1>6
<1>8. subs' \subseteq Nat
  BY <1>4, <1>6
<1>9. ASSUME NEW p, Held(p) PROVE Held(p)'
  <2>1. p \in Nat /\ (p \in subs \/ p < floor)
    BY <1>9 DEF Held
  <2>2. CASE p < old
    BY <1>3, <1>7, <2>1, <2>2 DEF Held
  <2>3. CASE p >= old /\ p \in subs
    BY <1>4, <2>1, <2>3 DEF Held
  <2>4. CASE p < floor
    BY <1>6, <1>7, <2>1, <2>4 DEF Held
  <2> QED
    BY <1>3, <2>1, <2>2, <2>3, <2>4
<1> QED
  BY <1>7, <1>8, <1>9

(* A round starts with the two periods of its directory, or not at all. *)
LEMMA RoundStarts ==
  ASSUME DirectoryInv, NEW pts, StartRound(pts)
  PROVE  job' # None => "all" \in DOMAIN job' /\ \E n \in Nat : job'.all = {n, n + 1}
<1>1. CASE Timely
  <2>1. dir.from \in Nat
    BY <1>1 DEF Timely, DirectoryInv, Checked
  <2>2. job' = [left |-> AllPeriods(dir.from), all |-> AllPeriods(dir.from),
                current |-> Period(dir.from), at |-> None,
                names |-> Keys(pts), ok |-> FALSE]
    BY <1>1 DEF StartRound
  <2>3. "all" \in DOMAIN job' /\ job'.all = {dir.from, dir.from + 1}
    BY <2>2 DEF AllPeriods, Period
  <2> QED
    BY <2>1, <2>3
<1>2. CASE ~ Timely
  BY <1>2 DEF StartRound
<1> QED
  BY <1>1, <1>2

(* An upload changes what one HSDir holds for a period the service holds. *)
LEMMA UploadPeriods ==
  ASSUME PeriodInv, NEW u \in uploads, NEW stored, NEW answered, UploadEnds(u, stored, answered)
  PROVE  PeriodInv'
<1>1. subs' = subs /\ floor' = floor
  BY DEF UploadEnds
<1>2. job' # None => "all" \in DOMAIN job' /\ \E n \in Nat : job'.all = {n, n + 1}
  <2>1. CASE job' = job
    BY <2>1 DEF PeriodInv
  <2>2. CASE Awaited(u) /\ job' # job
    <3>1. job # None
      BY <2>2 DEF Awaited
    <3>2. \/ job' = [job EXCEPT !.at = None, !.ok = @ \/ u.period = job.current]
          \/ job' = [job EXCEPT !.at = None]
      BY <2>2 DEF UploadEnds
    <3> QED
      BY <3>1, <3>2 DEF PeriodInv
  <2> QED
    BY <2>1, <2>2 DEF UploadEnds
<1>3. CASE hsdir' = hsdir
  BY <1>1, <1>2, <1>3 DEF UploadEnds, PeriodInv, Held
<1>4. CASE hsdir' # hsdir
  <2>1. hsdir' = [hsdir EXCEPT ![u.to][u.period] = u.desc]
    BY <1>4 DEF UploadEnds, Stored
  <2>2. hsdir' = [h \in HsDirs |-> [p \in Periods |-> hsdir'[h][p]]]
    BY <2>1 DEF PeriodInv
  <2>3. \A h \in HsDirs, p \in Periods :
          hsdir'[h][p] = hsdir[h][p] \/ (h = u.to /\ p = u.period)
    BY <2>1 DEF PeriodInv
  <2>4. \A h \in HsDirs, p \in Periods : hsdir'[h][p] # None => Held(p)
    BY <2>3 DEF PeriodInv
  <2> QED
    BY <1>1, <1>2, <2>2, <2>4 DEF UploadEnds, PeriodInv, Held
<1> QED
  BY <1>3, <1>4

LEMMA NextPeriods ==
  ASSUME DirectoryInv, PeriodInv, [ServiceNext]_vars
  PROVE  PeriodInv'
<1>1. CASE UNCHANGED netVars /\ job' = job
  BY <1>1 DEF netVars, PeriodInv, Held
<1>2. ASSUME NEW pts, StartRound(pts), UNCHANGED netVars
      PROVE  PeriodInv'
  <2>1. job' # None => "all" \in DOMAIN job' /\ \E n \in Nat : job'.all = {n, n + 1}
    BY <1>2, RoundStarts
  <2> QED
    BY <1>2, <2>1 DEF netVars, PeriodInv, Held
<1>3. CASE PublishFirst
  BY <1>2, <1>3 DEF PublishFirst
<1>4. ASSUME NEW rs \in SUBSET Relays, Maintain(rs) PROVE PeriodInv'
  <2>1. UNCHANGED netVars
    BY <1>4 DEF Maintain
  <2>2. StartRound(points') \/ job' = job
    BY <1>4 DEF Maintain
  <2> QED
    BY <1>1, <1>2, <2>1, <2>2
<1>5. ASSUME NEW p \in Periods, PublishPeriod(p) \/ BuildFails(p) PROVE PeriodInv'
  <2>1. subs' = subs \cup {p} /\ floor' = floor /\ hsdir' = hsdir
    BY <1>5 DEF PublishPeriod, BuildFails, Remember
  <2>2. p \in Nat
    BY DirectoryAssumption DEF Periods, Period
  <2>3. \A q : Held(q) => Held(q)'
    BY <2>1 DEF Held
  <2>4. Held(p)'
    BY <2>1, <2>2 DEF Held
  <2>5. \A u \in uploads' : u \in uploads \/ u.period = p
    BY <1>5 DEF PublishPeriod, BuildFails
  <2>6. job # None /\ (\/ job' = [job EXCEPT !.at = p, !.left = @ \ {p}]
                       \/ job' = [job EXCEPT !.left = @ \ {p}])
    BY <1>5 DEF PublishPeriod, BuildFails
  <2>7. job' # None => "all" \in DOMAIN job' /\ \E n \in Nat : job'.all = {n, n + 1}
    BY <2>6 DEF PeriodInv
  <2> QED
    BY <2>1, <2>2, <2>3, <2>4, <2>5, <2>7 DEF PeriodInv
<1>6. CASE RoundEnds
  <2>1. UNCHANGED <<hsdir, uploads>> /\ job' = None
    BY <1>6 DEF RoundEnds
  <2> QED
    BY <1>6, <2>1, RoundKeepsHeld DEF PeriodInv
<1>7. ASSUME NEW u \in uploads, NEW s, NEW a, UploadEnds(u, s, a) PROVE PeriodInv'
  BY <1>7, UploadPeriods
<1>8. DirectoryStep \/ EstablishFirst \/ EstablishTimesOut \/ TakeIntroduction \/ Answer
        => UNCHANGED netVars /\ job' = job
  BY DEF DirectoryStep, EstablishFirst, EstablishTimesOut, TakeIntroduction, Answer, svcVars
<1>9. \A k : CircuitCloses(k) => UNCHANGED netVars /\ job' = job
  BY DEF CircuitCloses
<1>10. \A c, h, p : Introduce(c, h, p) \/ Repeat(c) \/ ClientLeaves(c)
                      => UNCHANGED netVars /\ job' = job
  BY DEF Introduce, Repeat, ClientLeaves, svcVars
<1>11. UNCHANGED vars => UNCHANGED netVars /\ job' = job
  BY DEF vars, svcVars
<1>12. CASE BlindingFails
  BY <1>12 DEF BlindingFails, netVars, PeriodInv, Held
<1> QED
  <2>1. CASE DirectoryStep \/ UNCHANGED vars
    BY <1>1, <1>3, <1>4, <1>5, <1>6, <1>7, <1>8, <1>9, <1>10, <1>11, <1>12, <2>1
  <2>2. CASE PointsStep
    BY <1>1, <1>3, <1>4, <1>5, <1>6, <1>7, <1>8, <1>9, <1>10, <1>11, <1>12, <2>2 DEF PointsStep, MaintainSome
  <2>3. CASE PublishStep
    BY <1>1, <1>3, <1>4, <1>5, <1>6, <1>7, <1>8, <1>9, <1>10, <1>11, <1>12, <2>3 DEF PublishStep, PublishSome, UploadLands
  <2>4. CASE IntroductionStep
    BY <1>1, <1>3, <1>4, <1>5, <1>6, <1>7, <1>8, <1>9, <1>10, <1>11, <1>12, <2>4 DEF IntroductionStep
  <2> QED
    BY <2>1, <2>2, <2>3, <2>4 DEF ServiceNext

-----------------------------------------------------------------------------
(* Clients. *)

(* Whatever a step makes of the periods, it keeps what is held and what lies
   below the floor. *)
LEMMA PeriodsGrow ==
  ASSUME PeriodInv, [ServiceNext]_vars
  PROVE  /\ floor \in Nat /\ floor' \in Nat /\ floor <= floor'
         /\ \A p : Held(p) => Held(p)'
<1>1. CASE RoundEnds
  BY <1>1, RoundKeepsHeld DEF PeriodInv
<1>2. CASE subs \subseteq subs' /\ floor' = floor
  BY <1>2, HeldStays DEF PeriodInv
<1>3. UNCHANGED netVars => subs \subseteq subs' /\ floor' = floor
  BY DEF netVars
<1>4. \A p : PublishPeriod(p) \/ BuildFails(p) => subs \subseteq subs' /\ floor' = floor
  BY DEF PublishPeriod, BuildFails, Remember
<1>5. \A u, s, a : UploadEnds(u, s, a) => subs \subseteq subs' /\ floor' = floor
  BY DEF UploadEnds
<1>6. DirectoryStep \/ EstablishFirst \/ EstablishTimesOut \/ PublishFirst
        \/ BlindingFails \/ TakeIntroduction \/ Answer => UNCHANGED netVars
  BY DEF DirectoryStep, EstablishFirst, EstablishTimesOut, PublishFirst, BlindingFails,
         TakeIntroduction, Answer
<1>7. \A k : CircuitCloses(k) \/ Maintain(k) => UNCHANGED netVars
  BY DEF CircuitCloses, Maintain
<1>8. \A c, h, p : Introduce(c, h, p) \/ Repeat(c) \/ ClientLeaves(c) => UNCHANGED netVars
  BY DEF Introduce, Repeat, ClientLeaves
<1>9. UNCHANGED vars => UNCHANGED netVars
  BY DEF vars
<1> QED
  <2>1. CASE DirectoryStep \/ UNCHANGED vars
    BY <1>1, <1>2, <1>3, <1>4, <1>5, <1>6, <1>7, <1>8, <1>9, <2>1
  <2>2. CASE PointsStep
    BY <1>1, <1>2, <1>3, <1>4, <1>5, <1>6, <1>7, <1>8, <1>9, <2>2 DEF PointsStep, MaintainSome
  <2>3. CASE PublishStep
    BY <1>1, <1>2, <1>3, <1>4, <1>5, <1>6, <1>7, <1>8, <1>9, <2>3 DEF PublishStep, PublishSome, UploadLands
  <2>4. CASE IntroductionStep
    BY <1>1, <1>2, <1>3, <1>4, <1>5, <1>6, <1>7, <1>8, <1>9, <2>4 DEF IntroductionStep
  <2> QED
    BY <2>1, <2>2, <2>3, <2>4 DEF ServiceNext

(* A message queued is the last of the queue, or dropped. *)
LEMMA QueuedMessage ==
  ASSUME introq \in Seq(Message), NEW m \in Message
  PROVE  /\ Queued(m) \in Seq(Message)
         /\ \A i \in 1 .. Len(Queued(m)) :
              Queued(m)[i] = m \/ (i \in 1 .. Len(introq) /\ Queued(m)[i] = introq[i])
<1>1. CASE Queued(m) = introq
  BY <1>1
<1>2. CASE Queued(m) = Append(introq, m)
  BY <1>2, AppendProperties, LenProperties
<1> QED
  BY <1>1, <1>2 DEF Queued

LEMMA IntroduceClients ==
  ASSUME PeriodInv, ClientInv, NEW c \in Clients, NEW h \in HsDirs, NEW p \in Periods,
         Introduce(c, h, p)
  PROVE  ClientInv'
<1>1. Held(p) /\ p \in Nat
  BY DEF Introduce, PeriodInv, Held
<1>2. PICK m \in Message : m = [from |-> c, try |-> client[c].try, period |-> p]
  BY <1>1 DEF Message, ClientInv
<1>3. /\ introq' = Queued(m)
      /\ client' = [client EXCEPT ![c].st = "introduced", ![c].period = p]
      /\ client[c].st = "idle"
      /\ subs' = subs /\ floor' = floor
  BY <1>2 DEF Introduce, netVars
<1>4. /\ client' \in [Clients -> [st : Standing, period : Nat, try : Nat]]
      /\ client'[c].st = "introduced" /\ client'[c].period = p /\ client'[c].try = client[c].try
      /\ \A d \in Clients : d # c => client'[d] = client[d]
  BY <1>1, <1>3 DEF ClientInv, Standing
<1>5. \A i \in 1 .. Len(introq) : Recent(introq[i]) /\ introq[i] \in Message
  BY LenProperties DEF ClientInv
<1>6. \A n \in Message : Recent(n) => Recent(n)'
  BY <1>3, <1>4 DEF Recent, Held, Message, ClientInv
<1>7. Recent(m)'
  BY <1>1, <1>2, <1>3, <1>4 DEF Recent, Held, ClientInv
<1>8. introq' \in Seq(Message)
  BY <1>2, <1>3, QueuedMessage DEF ClientInv
<1>8a. \A n \in Message : Recent(n) \/ n = m => Recent(n)'
  BY <1>6, <1>7
<1>8b. \A i \in 1 .. Len(introq') : introq'[i] \in Message /\ (Recent(introq'[i]) \/ introq'[i] = m)
  <2>1. \A i \in 1 .. Len(Queued(m)) :
          Queued(m)[i] = m \/ (i \in 1 .. Len(introq) /\ Queued(m)[i] = introq[i])
    BY <1>2, QueuedMessage DEF ClientInv
  <2>2. \A i \in 1 .. Len(Queued(m)) : Queued(m)[i] \in Message /\ (Recent(Queued(m)[i]) \/ Queued(m)[i] = m)
    BY <1>2, <1>5, <2>1
  <2> QED
    BY <1>3, <2>2
<1>8c. (\A i \in 1 .. Len(introq) : Recent(introq[i]))'
  BY <1>8a, <1>8b DEF Recent, Held
<1>9. \A d \in Clients : client'[d].st \in {"introduced", "connected"} => Held(client'[d].period)
  BY <1>1, <1>4 DEF ClientInv
<1>9a. (\A d \in Clients : client[d].st \in {"introduced", "connected"} => Held(client[d].period))'
  BY <1>3, <1>9 DEF Held
<1>10. NobodyTurnedAway'
  BY <1>3, <1>4 DEF ClientInv, NobodyTurnedAway
<1>11. (taken # None => taken \in Message /\ Recent(taken))'
  <2>1. taken' = taken /\ (taken # None => taken \in Message /\ Recent(taken))
    BY DEF Introduce, ClientInv
  <2> QED
    BY <1>6, <2>1 DEF Recent, Held
<1> QED
  BY <1>4, <1>8, <1>8c, <1>9a, <1>10, <1>11 DEF ClientInv

LEMMA RepeatClients ==
  ASSUME PeriodInv, ClientInv, NEW c \in Clients, Repeat(c)
  PROVE  ClientInv'
<1>1. PICK m \in Message :
        m = [from |-> c, try |-> client[c].try, period |-> client[c].period]
  BY DEF Message, ClientInv
<1>2. introq' = Queued(m) /\ client' = client /\ subs' = subs /\ floor' = floor
      /\ taken' = taken /\ client[c].st \in {"introduced", "connected"}
  BY <1>1 DEF Repeat, netVars
<1>3. Recent(m)
  BY <1>1, <1>2 DEF Recent, ClientInv
<1>4. introq' \in Seq(Message) /\ \A i \in 1 .. Len(introq') : Recent(introq'[i])
  BY <1>1, <1>2, <1>3, QueuedMessage DEF ClientInv
<1> QED
  BY <1>2, <1>4 DEF ClientInv, Recent, Held, NobodyTurnedAway

(* What the service takes off the queue was a message of it. *)
LEMMA TakeClients ==
  ASSUME PeriodInv, ClientInv, TakeIntroduction
  PROVE  ClientInv'
<1>1. /\ introq \in Seq(Message) /\ introq # <<>>
      /\ taken' = Head(introq) /\ introq' = Tail(introq)
      /\ client' = client /\ subs' = subs /\ floor' = floor
  BY DEF TakeIntroduction, ClientInv, netVars
<1>2. Len(introq) \in Nat \ {0} /\ taken' = introq[1]
  BY <1>1, EmptySeq
<1>3. /\ taken' \in Message /\ introq' \in Seq(Message) /\ Len(introq') = Len(introq) - 1
      /\ \A i \in 1 .. Len(introq') : introq'[i] = introq[i + 1]
  BY <1>1, HeadTailProperties
<1>4. Recent(introq[1]) /\ \A i \in 1 .. Len(introq') : Recent(introq'[i])
  BY <1>2, <1>3 DEF ClientInv
<1>5. Recent(taken)' /\ (\A i \in 1 .. Len(introq) : Recent(introq[i]))'
  BY <1>1, <1>2, <1>4 DEF Recent, Held
<1> QED
  BY <1>1, <1>3, <1>5 DEF ClientInv, Held, NobodyTurnedAway

(* The client a message is answered for is the one it speaks of, and it is
   turned away only if its period has been forgotten. *)
LEMMA AnswerClients ==
  ASSUME PeriodInv, ClientInv, Answer
  PROVE  ClientInv'
<1>1. PICK m : m = taken
  OBVIOUS
<1>2. /\ m \in Message /\ Recent(m)
      /\ taken' = None /\ introq' = introq /\ subs' = subs /\ floor' = floor
  BY <1>1 DEF Answer, ClientInv, netVars
<1>3. \/ client' = client
      \/ /\ \E to \in {Served(m), "unanswered"} : client' = [client EXCEPT ![m.from].st = to]
         /\ client[m.from].st = "introduced" /\ client[m.from].try = m.try
  BY <1>1 DEF Answer
<1>4. CASE client' = client
  BY <1>2, <1>4 DEF ClientInv, Recent, Held, NobodyTurnedAway
<1>5. ASSUME NEW to \in {Served(m), "unanswered"},
             client' = [client EXCEPT ![m.from].st = to],
             client[m.from].st = "introduced", client[m.from].try = m.try
      PROVE  ClientInv'
  <2> DEFINE c == m.from
  <2>1. c \in Clients /\ client[c].period = m.period /\ Held(m.period)
    BY <1>2, <1>5 DEF Recent, Message
  <2>2. to \in {"turned away", "connected", "unanswered"}
    BY DEF Served
  <2>3. /\ client' \in [Clients -> [st : Standing, period : Nat, try : Nat]]
        /\ client'[c].st = to /\ client'[c].period = m.period
        /\ client'[c].try = client[c].try
        /\ \A d \in Clients : d # c => client'[d] = client[d]
    BY <1>5, <2>1, <2>2 DEF ClientInv, Standing
  <2>4. to = "turned away" => m.period < floor
    BY <2>1 DEF Served, Held
  <2> HIDE DEF c
  <2>5. NobodyTurnedAway'
    BY <1>2, <2>1, <2>3, <2>4 DEF ClientInv, NobodyTurnedAway
  <2>6. \A d \in Clients : client'[d].st \in {"introduced", "connected"} => Held(client'[d].period)
    BY <2>1, <2>3 DEF ClientInv
  <2>7. \A n \in Message : Recent(n) => Recent(n)'
    BY <1>2, <1>5, <2>1, <2>2, <2>3 DEF Recent, Held, Message, c
  <2>8. (\A d \in Clients : client[d].st \in {"introduced", "connected"} => Held(client[d].period))'
    BY <1>2, <2>6 DEF Held
  <2>9. (\A i \in 1 .. Len(introq) : Recent(introq[i]))'
    <3>1. \A i \in 1 .. Len(introq) : introq[i] \in Message /\ Recent(introq[i])
      BY LenProperties DEF ClientInv
    <3> QED
      BY <1>2, <2>7, <3>1 DEF Recent, Held
  <2> QED
    BY <1>2, <2>3, <2>5, <2>8, <2>9 DEF ClientInv
<1> QED
  BY <1>3, <1>4, <1>5

LEMMA LeaveClients ==
  ASSUME PeriodInv, ClientInv, NEW c \in Clients, ClientLeaves(c)
  PROVE  ClientInv'
<1>1. /\ client' = [client EXCEPT ![c] = [Idle EXCEPT !.try = client[c].try + 1]]
      /\ UNCHANGED <<introq, taken, subs, floor>>
  BY DEF ClientLeaves, netVars
<1>2. /\ client' \in [Clients -> [st : Standing, period : Nat, try : Nat]]
      /\ client'[c].st = "idle" /\ client'[c].try = client[c].try + 1
      /\ \A d \in Clients : d # c => client'[d] = client[d]
  <2>1. client[c].try + 1 \in Nat
    BY DEF ClientInv
  <2>2. [Idle EXCEPT !.try = client[c].try + 1]
          = [st |-> "idle", period |-> 0, try |-> client[c].try + 1]
    BY DEF Idle
  <2>3. client' = [client EXCEPT ![c] = [st |-> "idle", period |-> 0, try |-> client[c].try + 1]]
    BY <1>1, <2>2
  <2> QED
    BY <2>1, <2>3 DEF ClientInv, Standing
<1>3. \A n \in Message : Recent(n) => Recent(n)'
  BY <1>1, <1>2 DEF Recent, Held, Message, ClientInv
<1>4. \A i \in 1 .. Len(introq) : introq[i] \in Message
  BY LenProperties DEF ClientInv
<1>5. (\A i \in 1 .. Len(introq) : Recent(introq[i]))'
  <2>1. \A i \in 1 .. Len(introq) : introq[i] \in Message /\ Recent(introq[i])
    BY <1>4 DEF ClientInv
  <2> QED
    BY <1>1, <1>3, <2>1 DEF Recent, Held
<1>6. NobodyTurnedAway'
  BY <1>1, <1>2 DEF ClientInv, NobodyTurnedAway
<1>7. \A d \in Clients : client'[d].st \in {"introduced", "connected"} => Held(client'[d].period)
  BY <1>2 DEF ClientInv
<1>8. (\A d \in Clients : client[d].st \in {"introduced", "connected"} => Held(client[d].period))'
  BY <1>1, <1>7 DEF Held
<1>9. introq' \in Seq(Message)
  BY <1>1 DEF ClientInv
<1>10. (taken # None => taken \in Message /\ Recent(taken))'
  BY <1>1, <1>3 DEF ClientInv, Recent, Held
<1> QED
  BY <1>2, <1>5, <1>6, <1>8, <1>9, <1>10 DEF ClientInv

LEMMA NextClients ==
  ASSUME PeriodInv, ClientInv, [ServiceNext]_vars
  PROVE  ClientInv'
<1>1. CASE UNCHANGED <<client, introq, taken>>
  <2>1. /\ floor \in Nat /\ floor' \in Nat /\ floor <= floor'
        /\ \A p : Held(p) => Held(p)'
    BY PeriodsGrow
  <2>2. \A c \in Clients : client[c].period \in Nat
    BY DEF ClientInv
  <2>3. NobodyTurnedAway'
    <3>1. floor \in Nat /\ floor' \in Nat /\ floor <= floor'
      BY <2>1
    <3>2. \A c \in Clients : client[c].st = "turned away" => client[c].period < floor
      BY DEF ClientInv, NobodyTurnedAway
    <3>3. ASSUME NEW c \in Clients, client[c].st = "turned away"
          PROVE  client[c].period < floor'
      <4>1. client[c].period < floor /\ client[c].period \in Nat
        BY <2>2, <3>2, <3>3
      <4> QED
        BY <3>1, <4>1
    <3> QED
      BY <1>1, <3>3 DEF NobodyTurnedAway
  <2>4. \A m : Recent(m) => Recent(m)'
    BY <1>1, <2>1 DEF Recent
  <2> QED
    BY <1>1, <2>1, <2>3, <2>4 DEF ClientInv
<1>2. ASSUME NEW c \in Clients, NEW h \in HsDirs, NEW p \in Periods, Introduce(c, h, p)
      PROVE  ClientInv'
  BY <1>2, IntroduceClients
<1>3. ASSUME NEW c \in Clients, Repeat(c) \/ ClientLeaves(c) PROVE ClientInv'
  BY <1>3, RepeatClients, LeaveClients
<1>4. CASE TakeIntroduction \/ Answer
  BY <1>4, TakeClients, AnswerClients
<1>5. DirectoryStep \/ EstablishFirst \/ EstablishTimesOut \/ PublishFirst
        \/ BlindingFails \/ RoundEnds \/ UNCHANGED vars => UNCHANGED <<client, introq, taken>>
  BY DEF DirectoryStep, EstablishFirst, EstablishTimesOut, PublishFirst, BlindingFails,
         RoundEnds, vars, introVars
<1>6. \A k : CircuitCloses(k) \/ Maintain(k) \/ PublishPeriod(k) \/ BuildFails(k)
               => UNCHANGED <<client, introq, taken>>
  BY DEF CircuitCloses, Maintain, PublishPeriod, BuildFails, introVars
<1>7. \A u, s, a : UploadEnds(u, s, a) => UNCHANGED <<client, introq, taken>>
  BY DEF UploadEnds, introVars
<1> QED
  <2>1. CASE DirectoryStep \/ UNCHANGED vars
    BY <1>1, <1>2, <1>3, <1>4, <1>5, <1>6, <1>7, <2>1
  <2>2. CASE PointsStep
    BY <1>1, <1>2, <1>3, <1>4, <1>5, <1>6, <1>7, <2>2 DEF PointsStep, MaintainSome
  <2>3. CASE PublishStep
    BY <1>1, <1>2, <1>3, <1>4, <1>5, <1>6, <1>7, <2>3 DEF PublishStep, PublishSome, UploadLands
  <2>4. CASE IntroductionStep
    BY <1>1, <1>2, <1>3, <1>4, <1>5, <1>6, <1>7, <2>4 DEF IntroductionStep
  <2> QED
    BY <2>1, <2>2, <2>3, <2>4 DEF ServiceNext

-----------------------------------------------------------------------------
(* Every step of the service that is none of the directory's leaves it alone. *)
LEMMA DirectorySteps == [ServiceNext]_vars => Next \/ UNCHANGED dirVars
<1> SUFFICES ASSUME [ServiceNext]_vars PROVE Next \/ UNCHANGED dirVars
  OBVIOUS
<1>1. EstablishFirst \/ EstablishTimesOut \/ PublishFirst \/ BlindingFails \/ RoundEnds
        \/ TakeIntroduction \/ Answer \/ UNCHANGED vars => UNCHANGED dirVars
  BY DEF EstablishFirst, EstablishTimesOut, PublishFirst, BlindingFails, RoundEnds,
         TakeIntroduction, Answer, vars
<1>2. \A k : CircuitCloses(k) \/ Maintain(k) \/ PublishPeriod(k) \/ BuildFails(k)
               => UNCHANGED dirVars
  BY DEF CircuitCloses, Maintain, PublishPeriod, BuildFails
<1>3. \A u, s, a : UploadEnds(u, s, a) => UNCHANGED dirVars
  BY DEF UploadEnds
<1>4. \A c, h, p : Introduce(c, h, p) \/ Repeat(c) \/ ClientLeaves(c) => UNCHANGED dirVars
  BY DEF Introduce, Repeat, ClientLeaves
<1> QED
  <2>1. CASE DirectoryStep \/ UNCHANGED vars
    BY <1>1, <1>2, <1>3, <1>4, <2>1 DEF DirectoryStep
  <2>2. CASE PointsStep
    BY <1>1, <1>2, <1>3, <1>4, <2>2 DEF PointsStep, MaintainSome
  <2>3. CASE PublishStep
    BY <1>1, <1>2, <1>3, <1>4, <2>3 DEF PublishStep, PublishSome, UploadLands
  <2>4. CASE IntroductionStep
    BY <1>1, <1>2, <1>3, <1>4, <2>4 DEF IntroductionStep
  <2> QED
    BY <2>1, <2>2, <2>3, <2>4 DEF ServiceNext

(* The invariant of the whole, inductive in this form: a client is turned away
   only for a period below the floor because descriptors, uploads, clients and
   queued messages name periods the service holds or has forgotten. *)
THEOREM Invariance == ServiceSpec => []IInv
<1>1. ServiceInitial => IInv
  BY InitDirectory, InitPeriod DEF IInv
<1>2. IInv /\ [ServiceNext]_vars => IInv'
  BY DirectorySteps, NextDirectory, NextPeriods, NextClients DEF IInv
<1> QED
  BY <1>1, <1>2, PTL DEF ServiceSpec

(* Whatever the caches serve, the directory in use was signed by a majority of
   the authorities (fetch_consensus). *)
THEOREM Trusted == ServiceSpec => []TrustedDirectory
<1>1. IInv => TrustedDirectory
  BY DEF IInv, DirectoryInv, Checked, TrustedDirectory
<1> QED
  BY <1>1, Invariance, PTL

(* What stops a manager is a directory that was timely when its consensus was
   fetched and had run out when the manager asked for it: there is always one
   to find, and never one that came too late (MemoryNetDirProvider::new,
   publish, fetch_consensus). *)
THEOREM WatchersLive == ServiceSpec => WatchersSurvive
<1> DEFINE Lives == watcher' \in Stopped /\ watcher \notin Stopped => OutlivesDirectory
<1>1. ASSUME DirectoryInv, Next PROVE Lives
  <2>1. CASE WatcherReads
    <3>1. SUFFICES ASSUME event = "consensus", ~ Timely PROVE OutlivesDirectory
      BY <2>1 DEF WatcherReads, Stopped
    <3>2. dir # NoDirectory /\ Checked(dir)
      BY <1>1, <3>1 DEF DirectoryInv
    <3> QED
      BY <3>1, <3>2 DEF Timely, Checked, OutlivesDirectory
  <2>2. CASE Announce
    BY <2>2 DEF Announce, Stopped
  <2>3. CASE WakeToRefresh \/ FetchConsensus \/ Install \/ DownloadFails \/ Tick
    BY <2>3 DEF WakeToRefresh, FetchConsensus, Install, DownloadFails, Tick
  <2> QED
    BY <1>1, <2>1, <2>2, <2>3 DEF Next
<1>2. IInv /\ [ServiceNext]_vars => [Lives]_dirVars
  BY <1>1, DirectorySteps DEF IInv
<1> QED
  BY <1>2, Invariance, PTL DEF ServiceSpec, WatchersSurvive

(* No client is turned away for a period the service should still know
   (remember_subcredential, forget_stale_subcredentials). *)
THEOREM NotTurnedAway == ServiceSpec => []NobodyTurnedAway
<1>1. IInv => NobodyTurnedAway
  BY DEF IInv, ClientInv
<1> QED
  BY <1>1, Invariance, PTL

-----------------------------------------------------------------------------
(* What the maintain loop leaves alone is reachable. *)

(* The list of introduction points is the one the newest revision names, unless
   the service has stopped or the last round failed. *)
Current == svc # "stopped" /\ (job # None \/ ~ failed)

(* A descriptor stored or underway is of a round that was started, and one of
   the newest round names the points there are. *)
Sane(d) ==
  /\ d \in Descriptors
  /\ 0 < d.rev /\ d.rev <= rev
  /\ Current /\ d.rev = rev => d.names = Keys(points)

(* An HSDir has the newest descriptor for period p. *)
Announced(p) ==
  \E h \in HsDirs : p \in Periods /\ hsdir[h][p] # None /\ hsdir[h][p].rev = rev

JobInv ==
  job # None =>
    /\ job \in Rounds
    /\ job.names = Keys(points)
    /\ job.all = {job.current, job.current + 1}
    /\ job.ok => Announced(job.current)
    /\ points # {} /\ 0 < rev

SettledInv ==
  svc = "running" =>
    /\ points # {}
    /\ job = None /\ ~ failed =>
         \E n \in round : n \in Nat /\ round = {n, n + 1} /\ Announced(n)

RoundInv ==
  /\ rev \in Nat /\ nextKey \in Nat /\ Keys(points) \subseteq Nat
  /\ \A h \in HsDirs, p \in Periods : hsdir[h][p] # None => Sane(hsdir[h][p])
  /\ \A u \in uploads : u.to \in HsDirs /\ u.period \in Periods /\ Sane(u.desc)
  /\ svc = "establishing" /\ job = None => rev = 0
  /\ JobInv
  /\ SettledInv

(* When the maintain loop finds nothing to do while its directory's period is
   the one clients search, an HSDir of that period names an open point (run,
   publish, upload). *)
QuietIsReachable ==
  /\ svc = "running" /\ job = None
  /\ Timely /\ Period(dir.from) = Period(now)
  /\ ~ RepublishDue /\ Retained(points) = points
  => Reachable

(* The newest descriptor is on the ring clients search, and names what is open. *)
LEMMA QuietReached ==
  ASSUME DirectoryInv, RoundInv
  PROVE  QuietIsReachable
<1> SUFFICES ASSUME svc = "running", job = None,
                    Timely, Period(dir.from) = Period(now),
                    ~ RepublishDue, Retained(points) = points
             PROVE  Reachable
  BY DEF QuietIsReachable
<1>1. ~ failed /\ round = {dir.from, dir.from + 1} /\ dir.from = now
  BY DEF RepublishDue, AllPeriods, Period
<1>2. dir.from \in Nat
  BY DEF Timely, DirectoryInv, Checked
<1>3. PICK n \in round : n \in Nat /\ round = {n, n + 1} /\ Announced(n)
  BY <1>1 DEF RoundInv, SettledInv
<1>4. n = now
  BY <1>1, <1>2, <1>3
<1>5. PICK h \in HsDirs : now \in Periods /\ hsdir[h][now] # None /\ hsdir[h][now].rev = rev
  BY <1>3, <1>4 DEF Announced
<1>6. hsdir[h][now].names = Keys(points)
  BY <1>1, <1>5 DEF RoundInv, Sane, Current
<1>7. PICK pt \in points : pt.key \in open
  <2>1. points # {}
    BY DEF RoundInv, SettledInv
  <2> QED
    BY <2>1 DEF Retained
<1>8. Keys(points) \cap open # {}
  BY <1>7 DEF Keys
<1> QED
  BY <1>5, <1>6, <1>8 DEF Reachable, Period

LEMMA InitRound == ServiceInitial => RoundInv
<1> SUFFICES ASSUME ServiceInit PROVE RoundInv
  BY DEF ServiceInitial
<1>1. \A h \in HsDirs, p \in Periods : hsdir[h][p] = None
  BY DEF ServiceInit
<1>2. Keys(points) = {}
  BY DEF ServiceInit, Keys
<1> QED
  BY <1>1, <1>2 DEF ServiceInit, RoundInv, JobInv, SettledInv

(* Fresh points have natural numbers for keys, and there is one per relay. *)
LEMMA FreshKeys ==
  ASSUME nextKey \in Nat, NEW rs \in SUBSET Relays
  PROVE  /\ Cardinality(rs) \in Nat
         /\ Keys(FreshPoints(rs)) \subseteq Nat
         /\ rs # {} => FreshPoints(rs) # {}
<1> DEFINE n == Cardinality(rs)
           Numbering(f) == \A a, b \in rs : a # b => f[a] # f[b]
           number == CHOOSE f \in [rs -> 1 .. n] : Numbering(f)
<1>1. n \in Nat /\ ExistsBijection(1 .. n, rs)
  BY ServiceAssumption, FS_Subset, FS_CardinalityType
<1>2. \E f \in [rs -> 1 .. n] : Numbering(f)
  <2>1. ExistsBijection(rs, 1 .. n)
    BY <1>1, Fun_ExistsBijSymmetric
  <2>2. PICK f : f \in Bijection(rs, 1 .. n)
    BY <2>1 DEF ExistsBijection
  <2>3. f \in [rs -> 1 .. n] /\ \A a, b \in rs : a # b => f[a] # f[b]
    BY <2>2 DEF Bijection, Injection, IsInjective, Surjection
  <2> QED
    BY <2>3
<1>3. number \in [rs -> 1 .. n]
  BY <1>2
<1>4. FreshPoints(rs) = {[relay |-> r, key |-> nextKey + number[r]] : r \in rs}
  BY DEF FreshPoints
<1> HIDE DEF number, n
<1>5. \A r \in rs : nextKey + number[r] \in Nat
  BY <1>1, <1>3
<1>6. Keys(FreshPoints(rs)) \subseteq Nat
  BY <1>4, <1>5 DEF Keys
<1> QED
  BY <1>1, <1>4, <1>6 DEF n

(* A round starts under a revision of its own, so that nothing stored or
   underway is of it yet; without a directory it has failed. *)
LEMMA RoundBegins ==
  ASSUME DirectoryInv, RoundInv, NEW pts, pts # {}, Keys(pts) \subseteq Nat,
         points' = pts, nextKey' \in Nat, StartRound(pts),
         UNCHANGED <<hsdir, uploads, svc>>, job = None
  PROVE  RoundInv'
<1>1. CASE Timely
  <2>1. dir.from \in Nat
    BY <1>1 DEF Timely, DirectoryInv, Checked
  <2>2. /\ job' = [left |-> AllPeriods(dir.from), all |-> AllPeriods(dir.from),
                   current |-> Period(dir.from), at |-> None,
                   names |-> Keys(pts), ok |-> FALSE]
        /\ rev' = rev + 1
    BY <1>1 DEF StartRound
  <2>3. \A d : Sane(d) => Sane(d)'
    BY <2>2 DEF Sane, RoundInv, Descriptors
  <2>3a. job' \in Rounds
    BY <2>1, <2>2 DEF Rounds, AllPeriods, Period
  <2>3b. job' # None
    BY <2>3a, ServiceAssumption
  <2>4. JobInv'
    BY <2>2, <2>3a DEF RoundInv, JobInv, AllPeriods, Period, Keys
  <2>5. SettledInv'
    BY <2>3a, ServiceAssumption DEF SettledInv
  <2> QED
    BY <2>2, <2>3, <2>3b, <2>4, <2>5 DEF RoundInv, Keys
<1>2. CASE ~ Timely
  <2>1. job' = None /\ failed' = TRUE /\ rev' = rev
    BY <1>2 DEF StartRound
  <2>2. \A d : Sane(d) => Sane(d)'
    BY <2>1 DEF Sane, Current
  <2> QED
    BY <2>1, <2>2 DEF RoundInv, JobInv, SettledInv, Keys
<1> QED
  BY <1>1, <1>2

(* Before the first round nothing names any points. *)
LEMMA EstablishRound ==
  ASSUME RoundInv, EstablishFirst
  PROVE  RoundInv'
<1>1. PICK rs \in Established(IntroPoints, {}) :
        points' = FreshPoints(rs) /\ nextKey' = nextKey + Cardinality(rs)
  BY DEF EstablishFirst
<1>2. rs \in SUBSET Relays
  BY <1>1 DEF Established
<1>3. Cardinality(rs) \in Nat /\ Keys(FreshPoints(rs)) \subseteq Nat
  BY <1>2, FreshKeys DEF RoundInv
<1>4. /\ svc = "establishing" /\ points = {}
      /\ UNCHANGED <<svc, job, rev, round, failed, hsdir, uploads>>
  BY DEF EstablishFirst, netVars
<1>5. job = None /\ rev = 0
  BY <1>4 DEF RoundInv, JobInv
<1>6. \A d : ~ Sane(d)
  BY <1>5 DEF Sane, Descriptors
<1>7. (\A h \in HsDirs, p \in Periods : hsdir[h][p] # None => Sane(hsdir[h][p]))'
  BY <1>4, <1>6 DEF RoundInv
<1>8. (\A u \in uploads : u.to \in HsDirs /\ u.period \in Periods /\ Sane(u.desc))'
  BY <1>4, <1>6 DEF RoundInv
<1>9. JobInv' /\ SettledInv'
  BY <1>4, <1>5 DEF JobInv, SettledInv
<1>10. nextKey' \in Nat /\ Keys(points)' \subseteq Nat
  BY <1>1, <1>3 DEF RoundInv, Keys
<1> QED
  BY <1>4, <1>5, <1>7, <1>8, <1>9, <1>10 DEF RoundInv

LEMMA PublishFirstRound ==
  ASSUME DirectoryInv, RoundInv, PublishFirst
  PROVE  RoundInv'
<1>1. /\ svc = "establishing" /\ job = None /\ points # {} /\ StartRound(points)
      /\ UNCHANGED <<points, nextKey, round, hsdir, uploads>>
  BY DEF PublishFirst, netVars
<1>2. CASE Timely
  <2>1. svc' = svc
    BY <1>2 DEF PublishFirst
  <2> QED
    BY <1>1, <2>1, RoundBegins DEF RoundInv
<1>3. CASE ~ Timely
  <2>1. svc' = "stopped" /\ job' = None /\ rev' = rev
    BY <1>1, <1>3 DEF PublishFirst, FirstFails, StartRound
  <2>2. \A d : Sane(d) => Sane(d)'
    BY <2>1 DEF Sane, Current
  <2> QED
    BY <1>1, <2>1, <2>2 DEF RoundInv, JobInv, SettledInv, Keys
<1> QED
  BY <1>2, <1>3

(* A round that is given up has failed. *)
LEMMA BlindingRound ==
  ASSUME RoundInv, BlindingFails
  PROVE  RoundInv'
<1>1. /\ job' = None /\ failed'
      /\ svc' = "stopped" \/ (svc' = svc /\ svc # "establishing")
      /\ UNCHANGED <<points, nextKey, rev, round, hsdir, uploads>>
  BY DEF BlindingFails, FirstFails, netVars
<1>2. \A d : Sane(d) => Sane(d)'
  BY <1>1 DEF Sane, Current
<1> QED
  BY <1>1, <1>2 DEF RoundInv, JobInv, SettledInv, Keys

LEMMA MaintainRound ==
  ASSUME DirectoryInv, RoundInv, NEW rs \in SUBSET Relays, Maintain(rs)
  PROVE  RoundInv'
<1>1. /\ points' = Retained(points) \cup FreshPoints(rs)
      /\ nextKey' = nextKey + Cardinality(rs)
      /\ svc = "running" /\ job = None
      /\ UNCHANGED <<hsdir, uploads, round>>
  BY DEF Maintain, netVars
<1>2. /\ Cardinality(rs) \in Nat
      /\ Keys(FreshPoints(rs)) \subseteq Nat
  BY FreshKeys DEF RoundInv
<1>3. Keys(points') \subseteq Nat /\ nextKey' \in Nat
  BY <1>1, <1>2 DEF RoundInv, Keys, Retained
<1>4. CASE points' = {}
  <2>1. svc' = "stopped" /\ UNCHANGED <<job, rev, failed>>
    BY <1>4 DEF Maintain
  <2>2. \A d : Sane(d) => Sane(d)'
    BY <2>1 DEF Sane, Current
  <2>3. Keys(points)' \subseteq Nat
    BY <1>3 DEF Keys
  <2> QED
    BY <1>1, <1>3, <2>1, <2>2, <2>3 DEF RoundInv, JobInv, SettledInv
<1>5. CASE points' # {}
  <2>1. StartRound(points') /\ svc' = svc
    BY <1>5 DEF Maintain
  <2> QED
    BY <1>1, <1>3, <1>5, <2>1, RoundBegins
<1> QED
  BY <1>4, <1>5

(* What is sent for a period is the round's own descriptor. *)
LEMMA PublishRound ==
  ASSUME RoundInv, NEW p \in Periods, PublishPeriod(p)
  PROVE  RoundInv'
<1>1. /\ job # None
      /\ job' = [job EXCEPT !.at = p, !.left = @ \ {p}]
      /\ UNCHANGED <<svc, points, nextKey, rev, round, failed, hsdir>>
  BY DEF PublishPeriod
<1>2. Descriptor(job) = [names |-> Keys(points), rev |-> rev]
  BY <1>1 DEF Descriptor, RoundInv, JobInv
<1>3. Sane(Descriptor(job))
  BY <1>1, <1>2 DEF Sane, RoundInv, JobInv, Descriptors
<1>4. \A u \in uploads' : u \in uploads \/ (u.to \in HsDirs /\ u.period = p /\ u.desc = Descriptor(job))
  BY ServiceAssumption DEF PublishPeriod
<1>5. \A d : Sane(d) => Sane(d)'
  BY <1>1 DEF Sane, Current, Keys
<1>6. \A u \in uploads' : u.to \in HsDirs /\ u.period \in Periods /\ Sane(u.desc)
  BY <1>3, <1>4 DEF RoundInv
<1>7. \A u \in uploads' : u.to \in HsDirs /\ u.period \in Periods /\ Sane(u.desc)'
  BY <1>5, <1>6
<1>8a. job' \in Rounds
  <2>1. p \in Nat
    BY DirectoryAssumption DEF Periods, Period
  <2> QED
    BY <1>1, <2>1 DEF RoundInv, JobInv, Rounds
<1>9. JobInv'
  BY <1>1, <1>8a DEF RoundInv, JobInv, Announced, Keys, Rounds
<1>10. SettledInv'
  BY <1>1, <1>8a, ServiceAssumption DEF RoundInv, SettledInv
<1> QED
  BY <1>1, <1>5, <1>7, <1>8a, <1>9, <1>10, ServiceAssumption DEF RoundInv, Keys

LEMMA BuildFailsRound ==
  ASSUME RoundInv, NEW p \in Periods, BuildFails(p)
  PROVE  RoundInv'
<1>1. /\ job # None
      /\ job' = [job EXCEPT !.left = @ \ {p}]
      /\ UNCHANGED <<svc, points, nextKey, rev, round, failed, hsdir, uploads>>
  BY DEF BuildFails
<1>2. \A d : Sane(d) => Sane(d)'
  BY <1>1 DEF Sane, Current, Keys
<1>2a. job' \in Rounds
  BY <1>1 DEF RoundInv, JobInv, Rounds
<1>3. JobInv'
  BY <1>1, <1>2a DEF RoundInv, JobInv, Announced, Keys, Rounds
<1>4. SettledInv'
  BY <1>1, <1>2a, ServiceAssumption DEF RoundInv, SettledInv
<1> QED
  BY <1>1, <1>2, <1>2a, <1>3, <1>4, ServiceAssumption DEF RoundInv, Keys

(* An HSDir keeps the higher of two revisions, so that an upload of an earlier
   round that lands late displaces nothing of the newest. *)
LEMMA UploadRound ==
  ASSUME PeriodInv, RoundInv, NEW u \in uploads, NEW stored \in BOOLEAN,
         NEW answered \in BOOLEAN, UploadEnds(u, stored, answered)
  PROVE  RoundInv'
<1>1. /\ UNCHANGED <<svc, points, nextKey, rev, round, failed>>
      /\ uploads' \subseteq uploads
  BY DEF UploadEnds
<1>2. /\ u.to \in HsDirs /\ u.period \in Periods /\ Sane(u.desc)
      /\ u.desc # None /\ u.desc.rev \in Nat /\ u.desc.rev <= rev /\ rev \in Nat
  BY ServiceAssumption DEF RoundInv, Sane, Descriptors
<1>3. \A h \in HsDirs, p \in Periods : hsdir[h][p] # None =>
        Sane(hsdir[h][p]) /\ hsdir[h][p].rev \in Nat /\ hsdir[h][p].rev <= rev
  BY DEF RoundInv, Sane, Descriptors
<1>4. /\ \A h \in HsDirs, p \in Periods :
           \/ hsdir'[h][p] = hsdir[h][p]
           \/ /\ h = u.to /\ p = u.period /\ hsdir'[h][p] = u.desc
              /\ hsdir[h][p] = None \/ hsdir[h][p].rev < u.desc.rev
      /\ stored => \/ hsdir'[u.to][u.period] = u.desc
                   \/ /\ hsdir' = hsdir /\ hsdir[u.to][u.period] # None
                      /\ ~ (hsdir[u.to][u.period].rev < u.desc.rev)
  BY <1>2 DEF UploadEnds, Stored, PeriodInv
<1>5. \A h \in HsDirs, p \in Periods : hsdir'[h][p] # None => Sane(hsdir'[h][p])
  BY <1>2, <1>3, <1>4
<1>6. \A p : Announced(p) => Announced(p)'
  <2> SUFFICES ASSUME NEW p, NEW h \in HsDirs, p \in Periods,
                      hsdir[h][p] # None, hsdir[h][p].rev = rev
               PROVE  hsdir'[h][p] # None /\ hsdir'[h][p].rev = rev
    BY <1>1 DEF Announced
  <2> QED
    BY <1>2, <1>3, <1>4
<1>7. \A n : n = u.period /\ stored /\ u.desc.rev = rev => Announced(n)'
  <2> SUFFICES ASSUME stored, u.desc.rev = rev
               PROVE  hsdir'[u.to][u.period] # None /\ hsdir'[u.to][u.period].rev = rev
    BY <1>1, <1>2 DEF Announced
  <2> QED
    BY <1>2, <1>3, <1>4
<1>8. \/ job' = job
      \/ /\ answered /\ stored /\ job # None /\ u.desc.rev = rev
         /\ job' = [job EXCEPT !.at = None, !.ok = @ \/ u.period = job.current]
      \/ job # None /\ job' = [job EXCEPT !.at = None]
  BY DEF UploadEnds, Awaited
<1>9. JobInv'
  <2>1. CASE job' = job
    BY <1>1, <1>6, <2>1 DEF RoundInv, JobInv, Keys
  <2>2. CASE job # None
    <3>1. job \in Rounds /\ job.names = Keys(points) /\ points # {}
          /\ job.all = {job.current, job.current + 1}
          /\ (job.ok => Announced(job.current)) /\ 0 < rev
      BY <2>2 DEF RoundInv, JobInv
    <3>1a. PICK n \in Nat : n = job.current
      BY <3>1 DEF Rounds
    <3>2. job' \in Rounds /\ job'.names = job.names /\ job'.all = job.all /\ job'.current = job.current
      BY <1>8, <3>1 DEF Rounds
    <3>3. job'.ok => job.ok \/ (u.period = n /\ stored /\ u.desc.rev = rev)
      BY <1>8, <3>1, <3>1a DEF Rounds
    <3>4. job'.ok => Announced(n)'
      BY <1>6, <1>7, <3>1, <3>1a, <3>3
    <3> QED
      BY <1>1, <3>1, <3>1a, <3>2, <3>4 DEF JobInv, Keys, Announced
  <2> QED
    BY <1>8, <2>1, <2>2
<1>10. SettledInv'
  <2>1. CASE job' = job
    BY <1>1, <1>6, <2>1 DEF RoundInv, SettledInv
  <2>2. CASE job # None
    <3>1. job' \in Rounds
      BY <1>8, <2>2 DEF RoundInv, JobInv, Rounds
    <3> QED
      BY <1>1, <3>1, ServiceAssumption DEF RoundInv, SettledInv
  <2> QED
    BY <1>8, <2>1, <2>2
<1>11a. job # None <=> job' # None
  <2>1. job # None => job' \in Rounds
    BY <1>8 DEF RoundInv, JobInv, Rounds
  <2> QED
    BY <1>8, <2>1, ServiceAssumption
<1>11. \A d : Sane(d) => Sane(d)'
  BY <1>1, <1>11a DEF Sane, Current, Keys
<1>12. Keys(points)' \subseteq Nat
  BY <1>1 DEF RoundInv, Keys
<1> QED
  BY <1>1, <1>5, <1>9, <1>10, <1>11, <1>11a, <1>12 DEF RoundInv

(* A round that reached the ring of its own period leaves the service settled
   there. *)
LEMMA EndRound ==
  ASSUME RoundInv, RoundEnds
  PROVE  RoundInv'
<1>1. /\ job # None /\ job' = None /\ round' = job.all /\ failed' = ~ job.ok
      /\ UNCHANGED <<points, nextKey, rev, hsdir, uploads>>
      /\ svc' # "establishing"
      /\ svc = "stopped" => svc' = "stopped"
  BY DEF RoundEnds
<1>2. /\ job \in Rounds /\ job.all = {job.current, job.current + 1} /\ points # {}
      /\ job.ok => Announced(job.current)
  BY <1>1 DEF RoundInv, JobInv
<1>2a. PICK p \in Nat : p = job.current
  BY <1>2 DEF Rounds
<1>4. \A d : Sane(d) => Sane(d)'
  BY <1>1 DEF Sane, Current, Keys
<1>5. SettledInv'
  <2> SUFFICES ASSUME ~ failed'
               PROVE  \E n \in round' : n \in Nat /\ round' = {n, n + 1} /\ Announced(n)'
    BY <1>1, <1>2 DEF SettledInv, Announced
  <2>1. Announced(p)' /\ round' = {p, p + 1}
    BY <1>1, <1>2, <1>2a DEF Announced, Rounds
  <2> QED
    BY <2>1
<1> QED
  BY <1>1, <1>4, <1>5 DEF RoundInv, JobInv, Keys

LEMMA NextRound ==
  ASSUME DirectoryInv, PeriodInv, RoundInv, [ServiceNext]_vars
  PROVE  RoundInv'
<1>1. CASE UNCHANGED <<svc, points, nextKey, job, rev, round, failed, hsdir, uploads>>
  BY <1>1 DEF RoundInv, JobInv, SettledInv, Sane, Current, Announced, Keys
<1>2. CASE EstablishTimesOut
  <2>1. svc' = "stopped" /\ UNCHANGED <<points, nextKey, job, rev, round, failed, hsdir, uploads>>
    BY <1>2 DEF EstablishTimesOut, FirstFails, netVars
  <2> QED
    BY <2>1 DEF RoundInv, JobInv, SettledInv, Sane, Current, Announced, Keys
<1>3. CASE EstablishFirst \/ PublishFirst \/ BlindingFails
  BY <1>3, EstablishRound, PublishFirstRound, BlindingRound
<1>4. ASSUME NEW rs \in SUBSET Relays, Maintain(rs) PROVE RoundInv'
  BY <1>4, MaintainRound
<1>5. ASSUME NEW p \in Periods, PublishPeriod(p) \/ BuildFails(p) PROVE RoundInv'
  BY <1>5, PublishRound, BuildFailsRound
<1>6. ASSUME NEW u \in uploads, NEW s \in BOOLEAN, NEW a \in BOOLEAN, UploadEnds(u, s, a)
      PROVE  RoundInv'
  BY <1>6, UploadRound
<1>7. CASE RoundEnds
  BY <1>7, EndRound
<1> DEFINE Same == UNCHANGED <<svc, points, nextKey, job, rev, round, failed, hsdir, uploads>>
<1>8. DirectoryStep \/ TakeIntroduction \/ Answer \/ UNCHANGED vars => Same
  BY DEF DirectoryStep, TakeIntroduction, Answer, vars, svcVars, netVars
<1>9. \A k : CircuitCloses(k) => Same
  BY DEF CircuitCloses, netVars
<1>10. \A c, h, p : Introduce(c, h, p) \/ Repeat(c) \/ ClientLeaves(c) => Same
  BY DEF Introduce, Repeat, ClientLeaves, svcVars, netVars
<1> QED
  <2>1. CASE DirectoryStep \/ UNCHANGED vars
    BY <1>1, <1>2, <1>3, <1>4, <1>5, <1>6, <1>7, <1>8, <1>9, <1>10, <2>1
  <2>2. CASE PointsStep
    BY <1>1, <1>2, <1>3, <1>4, <1>5, <1>6, <1>7, <1>8, <1>9, <1>10, <2>2 DEF PointsStep, MaintainSome
  <2>3. CASE PublishStep
    BY <1>1, <1>2, <1>3, <1>4, <1>5, <1>6, <1>7, <1>8, <1>9, <1>10, <2>3 DEF PublishStep, PublishSome, UploadLands
  <2>4. CASE IntroductionStep
    BY <1>1, <1>2, <1>3, <1>4, <1>5, <1>6, <1>7, <1>8, <1>9, <1>10, <2>4 DEF IntroductionStep
  <2> QED
    BY <2>1, <2>2, <2>3, <2>4 DEF ServiceNext

(* A service whose maintain loop is content is found by its clients, however
   its uploads ended and whenever the late ones landed: what StaysReachable
   asks of the loop's fixed points (run, publish, upload_to). *)
THEOREM QuietReachable == ServiceSpec => []QuietIsReachable
<1>1. ServiceInitial => RoundInv
  BY InitRound
<1>2. IInv /\ RoundInv /\ [ServiceNext]_vars => RoundInv'
  BY NextRound DEF IInv
<1>3. IInv /\ RoundInv => QuietIsReachable
  BY QuietReached DEF IInv
<1> QED
  BY <1>1, <1>2, <1>3, Invariance, PTL DEF ServiceSpec
=============================================================================
