----------------------------- MODULE OnionService -----------------------------
(***************************************************************************)
(* The onion service `ptransfer` runs itself (tor/service.rs), above the   *)
(* directory of TorDirectory: introduction points established and          *)
(* replaced, descriptors published to every live time period and uploaded  *)
(* in the background, subcredentials remembered and forgotten, and clients *)
(* introduced, answered at their rendezvous, turned away or replayed.      *)
(*                                                                         *)
(* An introduction point is its relay and its session key, a descriptor is *)
(* the keys it names and the round that signed it, its revision.  Relays,  *)
(* HSDirs and clients are external: an HSDir keeps the highest revision    *)
(* it was given, a client works from a descriptor it fetched earlier.      *)
(***************************************************************************)
EXTENDS TorDirectory, FiniteSets, Sequences, FiniteSetsExt

CONSTANTS
  Relays,        \* relays that may act as introduction points
  HsDirs,        \* HSDirs responsible for the descriptor of the current period
  RolloverDirs,  \* those of them tracked while the period is still to come
  Clients,       \* clients that know the address
  IntroPoints,   \* INTRO_POINTS
  Permits,       \* MAX_CONCURRENT_INTRODUCTIONS
  QueueDepth,    \* CHANNEL_DEPTH
  SeenCapacity,  \* REPLAY_CAPACITY
  MaxTries,      \* bound on the introductions of one client
  None

\* A descriptor, and a round of `publish` underway.
Descriptors == [names : SUBSET Nat, rev : Nat]
Rounds == [left : SUBSET Nat, all : SUBSET Nat, current : Nat,
           at : Nat \cup {None}, names : SUBSET Nat, ok : BOOLEAN]

ASSUME ServiceAssumption ==
  /\ RolloverDirs \subseteq HsDirs
  /\ IsFiniteSet(Relays)
  /\ None \notin Descriptors \cup Rounds

VARIABLES
  svc,        \* "establishing", "running" or "stopped"
  waiter,     \* what wait_until_published gave, or "waiting"
  points,     \* intro_points: [relay, key]
  open,       \* the keys whose introduction circuit is open
  nextKey,    \* fresh session keys
  job,        \* the round of `publish` underway
  rev,        \* the revision counter: rounds started
  round,      \* the periods the last finished round published for
  failed,     \* did it miss the current ring?
  hsdir,      \* what each HSDir holds for each period
  uploads,    \* uploads underway, awaited or in the background
  subs,       \* the periods whose subcredentials are held
  floor,      \* history: the oldest period not forgotten so far
  client,     \* each client: where it stands and the descriptor it holds
  introq,     \* introductions waiting for the service task
  taken,      \* the one it took, which waits for a permit, or None
  seen        \* introductions already answered

svcVars == <<svc, waiter, points, open, nextKey, job, rev, round, failed>>
netVars == <<hsdir, uploads, subs, floor>>
introVars == <<client, introq, taken, seen>>
vars == <<dirVars, faults, svcVars, netVars, introVars>>

\* Each consensus starts a time period of its own, and next to the current
\* period a service publishes for the coming one.
Period(time) == time
Periods == 0..(Period(MaxTime) + 1)
AllPeriods(time) == {Period(time), Period(time) + 1}

Keys(pts) == {pt.key : pt \in pts}

\* remember_subcredential.
Remember(p) == subs \cup {p}
Oldest(published) == IF Min(published) = 0 THEN 0 ELSE Min(published) - 1
\* As it would be if only what was just published for were kept.
BugForgetsPrevious(held, published) == {p \in held : p >= Min(published)}

\* forget_stale_subcredentials.
Forget(held, published) == {p \in held : p >= Oldest(published)}

Idle == [st |-> "idle", period |-> 0, try |-> 0]

ServiceInit ==
  /\ svc = "establishing"
  /\ waiter = "waiting"
  /\ points = {} /\ open = {} /\ nextKey = 0
  /\ job = None
  /\ rev = 0 /\ round = {} /\ failed = FALSE
  /\ hsdir = [h \in HsDirs |-> [p \in Periods |-> None]]
  /\ uploads = {}
  /\ subs = {} /\ floor = 0
  /\ client = [c \in Clients |-> Idle]
  /\ introq = <<>> /\ taken = None /\ seen = {}

(***************************************************************************)
(* Introduction points.                                                    *)
(***************************************************************************)

\* establish_intro_points: at most `wanted` relays, one after the other, none
\* of them in `avoid` and none asked twice; at least one agrees.
Established(wanted, avoid) ==
  LET candidates == {r \in Relays : r \notin avoid}
  IN  {rs \in SUBSET candidates : rs # {} /\ Cardinality(rs) <= wanted}

\* Each relay that agreed gets a session key of its own.
FreshPoints(rs) ==
  LET number == CHOOSE f \in [rs -> 1..Cardinality(rs)] :
                  \A a, b \in rs : a # b => f[a] # f[b]
  IN  {[relay |-> r, key |-> nextKey + number[r]] : r \in rs}

\* The round starts: publish asks for a timely directory and lists its
\* periods.
StartRound(pts) ==
  IF Timely
    THEN /\ job' = [left |-> AllPeriods(dir.from), all |-> AllPeriods(dir.from),
                    current |-> Period(dir.from), at |-> None,
                    names |-> Keys(pts), ok |-> FALSE]
         /\ rev' = rev + 1
         /\ UNCHANGED failed
    ELSE /\ job' = None
         /\ failed' = TRUE
         /\ UNCHANGED rev

\* establish_intro_points_with_retry.  Fewer relays than wanted is a fault of
\* the network.
EstablishFirst ==
  /\ svc = "establishing" /\ points = {} /\ Timely
  /\ \E rs \in Established(IntroPoints, {}) :
       /\ IF Cardinality(rs) = IntroPoints THEN UNCHANGED faults ELSE Fault
       /\ points' = FreshPoints(rs)
       /\ open' = Keys(FreshPoints(rs))
       /\ nextKey' = nextKey + Cardinality(rs)
  /\ UNCHANGED <<dirVars, svc, waiter, job, rev, round, failed, netVars, introVars>>

\* A first publish that fails is what the waiter is told, and the end.
FirstFails == svc' = "stopped" /\ waiter' = "failed"

\* The first publish begins.
PublishFirst ==
  /\ svc = "establishing" /\ job = None /\ points # {}
  /\ StartRound(points)
  /\ IF Timely THEN UNCHANGED <<svc, waiter>> ELSE FirstFails
  /\ UNCHANGED <<dirVars, faults, points, open, nextKey, round, netVars, introVars>>

\* The deadline passes with no introduction point: run returns, and dropping
\* `published` tells the waiter.
EstablishTimesOut ==
  /\ svc = "establishing" /\ points = {}
  /\ Fault
  /\ FirstFails
  /\ UNCHANGED <<dirVars, points, open, nextKey, job, rev, round, failed,
                 netVars, introVars>>

\* A relay closes an introduction circuit.
CircuitCloses(k) ==
  /\ k \in open
  /\ Fault
  /\ open' = open \ {k}
  /\ UNCHANGED <<dirVars, svc, waiter, points, nextKey, job, rev, round, failed,
                 netVars, introVars>>

\* As it would be if a round that failed were not repeated sooner.
BugWaitsInterval == Timely /\ AllPeriods(dir.from) # round

\* next_republish may have passed: the interval after a round that reached the
\* current ring, the shorter one after a round that did not.  A round that
\* would publish the same list for the same periods again is left out.
RepublishDue == failed \/ (Timely /\ AllPeriods(dir.from) # round)

\* An introduction point whose circuit has closed is not one any more.
Retained(pts) == {pt \in pts : pt.key \in open}

\* A pass of the maintain loop: closed points go, missing ones are replaced on
\* other relays, and the descriptor is published again when the list changed
\* or the interval is over.  Uploads end within UPLOAD_TIMEOUT, two passes
\* (INTRO_CHECK_INTERVAL): of two rounds at most are any still underway.
Maintain(rs) ==
  LET kept == Retained(points)
      fresh == FreshPoints(rs)
      changed == kept # points \/ rs # {}
  IN  /\ svc = "running" /\ job = None
      /\ \A u \in uploads : u.desc.rev = rev
      /\ IF Cardinality(kept) < IntroPoints /\ Timely
           THEN \/ /\ rs \in Established(IntroPoints - Cardinality(kept),
                                         {pt.relay : pt \in kept})
                   /\ IF Cardinality(rs) + Cardinality(kept) = IntroPoints
                        THEN UNCHANGED faults ELSE Fault
                \/ rs = {} /\ Fault
           ELSE rs = {} /\ UNCHANGED faults
      /\ changed \/ RepublishDue
      /\ points' = kept \cup fresh
      /\ open' = open \cup Keys(fresh)
      /\ nextKey' = nextKey + Cardinality(rs)
      /\ IF points' = {}
           THEN svc' = "stopped" /\ UNCHANGED <<job, rev, failed>>
           ELSE StartRound(points') /\ UNCHANGED svc
      /\ UNCHANGED <<dirVars, waiter, round, netVars, introVars>>

(***************************************************************************)
(* Publishing.                                                             *)
(***************************************************************************)

Descriptor(j) == [names |-> j.names, rev |-> rev]

\* hs_all_time_periods lists the current period before the rollover ones.
NextPeriod(p) == p \in job.left /\ (job.current \in job.left => p = job.current)

\* The next period of the round: its subcredential is remembered, then the
\* descriptor goes to all its HSDirs at once.
PublishPeriod(p) ==
  /\ job # None /\ job.at = None /\ NextPeriod(p)
  /\ subs' = Remember(p)
  /\ uploads' = uploads \cup
       {[to |-> h, period |-> p, desc |-> Descriptor(job)] :
            h \in IF p = job.current THEN HsDirs ELSE RolloverDirs}
  /\ job' = [job EXCEPT !.at = p, !.left = @ \ {p}]
  /\ UNCHANGED <<dirVars, faults, svc, waiter, points, open, nextKey, rev, round,
                 failed, hsdir, floor, introVars>>

\* A descriptor that cannot be built costs the round only its own period.
BuildFails(p) ==
  /\ job # None /\ job.at = None /\ NextPeriod(p)
  /\ Fault
  /\ subs' = Remember(p)
  /\ job' = [job EXCEPT !.left = @ \ {p}]
  /\ UNCHANGED <<dirVars, svc, waiter, points, open, nextKey, rev, round, failed,
                 hsdir, uploads, floor, introVars>>

\* The period's key cannot be blinded: publish gives up the whole round.
BlindingFails ==
  /\ job # None /\ job.at = None /\ job.left # {}
  /\ Fault
  /\ job' = None /\ failed' = TRUE
  /\ IF svc = "establishing" THEN FirstFails ELSE UNCHANGED <<svc, waiter>>
  /\ UNCHANGED <<dirVars, points, open, nextKey, rev, round, netVars, introVars>>

Awaited(u) == job # None /\ job.at = u.period /\ u.desc.rev = rev

\* An HSDir keeps what it holds unless the revision is higher.
Stored(h, p, d) ==
  IF hsdir[h][p] = None \/ hsdir[h][p].rev < d.rev
    THEN [hsdir EXCEPT ![h][p] = d] ELSE hsdir

\* An upload ends: stored and answered, stored with the answer lost, or not
\* stored.  The round goes on with the first success; the others carry on.
UploadEnds(u, stored, answered) ==
  /\ u \in uploads
  /\ answered => stored
  /\ IF stored /\ answered THEN UNCHANGED faults ELSE Fault
  /\ hsdir' = IF stored THEN Stored(u.to, u.period, u.desc) ELSE hsdir
  /\ uploads' = uploads \ {u}
  /\ IF ~ Awaited(u) THEN UNCHANGED job
     ELSE IF answered
       THEN job' = [job EXCEPT !.at = None, !.ok = @ \/ u.period = job.current]
     ELSE IF \E v \in uploads \ {u} : Awaited(v)
       THEN UNCHANGED job
     ELSE job' = [job EXCEPT !.at = None]
  /\ UNCHANGED <<dirVars, svc, waiter, points, open, nextKey, rev, round, failed,
                 subs, floor, introVars>>

\* The round is over: subcredentials too old to be used go, and the first
\* round's result is what the waiter gets, the service ending with a failure.
RoundEnds ==
  /\ job # None /\ job.at = None /\ job.left = {}
  /\ subs' = Forget(subs, job.all)
  /\ floor' = IF Oldest(job.all) > floor THEN Oldest(job.all) ELSE floor
  /\ round' = job.all
  /\ failed' = ~ job.ok
  /\ job' = None
  /\ IF svc = "establishing"
       THEN /\ waiter' = IF job.ok THEN "published" ELSE "failed"
            /\ svc' = IF job.ok THEN "running" ELSE "stopped"
       ELSE UNCHANGED <<waiter, svc>>
  /\ UNCHANGED <<dirVars, faults, points, open, nextKey, rev, hsdir, uploads,
                 introVars>>

(***************************************************************************)
(* Introductions.                                                          *)
(***************************************************************************)

\* IntroPointHandler::handle_msg: an INTRODUCE2 is queued for the service
\* task, or dropped when the queue is full.
Queued(message) ==
  IF Len(introq) < QueueDepth THEN Append(introq, message) ELSE introq

\* External: a client with the descriptor an HSDir has for its own period, or
\* had when it asked long ago, introduces itself at a point named there.
Introduce(c, h, p) ==
  /\ client[c].st = "idle" /\ client[c].try < MaxTries
  /\ hsdir[h][p] # None /\ p <= Period(now)
  /\ hsdir[h][p].names \cap open # {}
  /\ svc # "stopped"
  /\ introq' = Queued([from |-> c, try |-> client[c].try, period |-> p])
  /\ client' = [client EXCEPT ![c].st = "introduced", ![c].period = p]
  /\ UNCHANGED <<dirVars, faults, svcVars, netVars, taken, seen>>

\* External: the introduction is said again, by its client or by whoever
\* recorded it.
Repeat(c) ==
  /\ client[c].st \in {"introduced", "connected"} /\ open # {}
  /\ svc # "stopped"
  /\ Fault
  /\ introq' = Queued([from |-> c, try |-> client[c].try, period |-> client[c].period])
  /\ UNCHANGED <<dirVars, svcVars, netVars, client, taken, seen>>

\* first_time_seen: a full set is cleared before it takes the next one.
Remembering == IF Cardinality(seen) >= SeenCapacity THEN {} ELSE seen
Digest(m) == <<m.from, m.try>>
FirstTimeSeen(m) == Digest(m) \notin Remembering

\* The introductions that hold a permit.
Serving == {c \in Clients : client[c].st = "connected"}

\* The service task takes the next introduction off the queue, and only then
\* waits for a permit.
TakeIntroduction ==
  /\ svc # "stopped" /\ taken = None /\ introq # <<>>
  /\ taken' = Head(introq) /\ introq' = Tail(introq)
  /\ UNCHANGED <<dirVars, faults, svcVars, netVars, client, seen>>

\* serve_introduction as far as the handshake: a period whose subcredential is
\* gone cannot be decrypted, and without a timely directory no circuit is built.
Served(m) ==
  IF m.period \notin subs THEN "turned away"
  ELSE IF Timely THEN "connected" ELSE "unanswered"

\* A replay is refused; the rest holds its permit, answered at the rendezvous
\* point unless that cannot be reached in RENDEZVOUS_TIMEOUT.
Answer ==
  /\ svc # "stopped" /\ taken # None /\ Cardinality(Serving) < Permits
  /\ taken' = None
  /\ seen' = Remembering \cup {Digest(taken)}
  /\ LET heard == /\ FirstTimeSeen(taken) /\ client[taken.from].st = "introduced"
                  /\ client[taken.from].try = taken.try
     IN  \/ /\ client' = IF heard THEN [client EXCEPT ![taken.from].st = Served(taken)]
                                    ELSE client
            /\ UNCHANGED faults
         \/ /\ heard /\ Served(taken) = "connected" /\ Fault
            /\ client' = [client EXCEPT ![taken.from].st = "unanswered"]
  /\ UNCHANGED <<dirVars, svcVars, netVars, introq>>

\* The client's circuit ends and its permit is free; a client that connects
\* again, or one that was not answered, starts afresh.
ClientLeaves(c) ==
  /\ client[c].st \in {"connected", "unanswered"}
  /\ client' = [client EXCEPT ![c] = [Idle EXCEPT !.try = client[c].try + 1]]
  /\ UNCHANGED <<dirVars, faults, svcVars, netVars, introq, taken, seen>>

(***************************************************************************)
(* The service over its directory.                                         *)
(***************************************************************************)

ServiceInitial == Init /\ ServiceInit

\* The next consensus comes between two rounds: it is hourly, and a round and
\* its uploads are over in minutes.
DirectoryStep ==
  /\ Next
  /\ now' # now => job = None /\ uploads = {}
  /\ UNCHANGED <<svcVars, netVars, introVars>>

MaintainSome == \E rs \in SUBSET Relays : Maintain(rs)
PublishSome == \E p \in Periods : PublishPeriod(p)
UploadLands == \E u \in uploads : UploadEnds(u, TRUE, TRUE)

PointsStep ==
  \/ EstablishFirst \/ EstablishTimesOut \/ PublishFirst \/ MaintainSome
  \/ \E k \in open : CircuitCloses(k)

PublishStep ==
  \/ PublishSome \/ UploadLands \/ BlindingFails \/ RoundEnds
  \/ \E p \in Periods : BuildFails(p)
  \/ \E u \in uploads, s \in BOOLEAN : UploadEnds(u, s, FALSE)

IntroductionStep ==
  \/ TakeIntroduction \/ Answer
  \/ \E c \in Clients : Repeat(c) \/ ClientLeaves(c)
  \/ \E c \in Clients, h \in HsDirs, p \in Periods : Introduce(c, h, p)

ServiceNext == DirectoryStep \/ PointsStep \/ PublishStep \/ IntroductionStep

\* The service task, up to its next wait.
ServiceTask ==
  EstablishFirst \/ PublishFirst \/ MaintainSome \/ PublishSome \/ RoundEnds

\* The service task and its uploads are scheduled and their timers fire;
\* nothing is assumed of the clients.
ServiceSpec ==
  /\ ServiceInitial /\ [][ServiceNext]_vars
  /\ Fairness
  /\ WF_vars(ServiceTask) /\ WF_vars(UploadLands)

(***************************************************************************)
(* Properties.                                                             *)
(***************************************************************************)

\* A client that introduces itself with a descriptor of a period this service
\* has not had to forget is never turned away for want of the subcredential:
\* it is remembered before the descriptor is stored, and kept for one period
\* after the rounds have moved on (publish, forget_stale_subcredentials).
NobodyTurnedAway ==
  \A c \in Clients : client[c].st = "turned away" => client[c].period < floor

\* Whatever circuits close and uploads fail or arrive late, a service that
\* runs comes back to where the ring clients search now names a point that is
\* open, or says that it is no longer reachable.
Reachable ==
  \E h \in HsDirs :
    /\ hsdir[h][Period(now)] # None
    /\ hsdir[h][Period(now)].names \cap open # {}

StaysReachable == (svc = "running") ~> (Reachable \/ svc = "stopped")
=============================================================================
