------------------------- MODULE ControlRelays_proofs -------------------------
(***************************************************************************)
(* Theorems about the relays of a transfer and the cache they are learned  *)
(* in, for any sets of relays and processes and any sizes of the control   *)
(* set, the ring and the reserve.                                          *)
(***************************************************************************)
EXTENDS ControlRelays, FiniteSetTheorems, TLAPS

(* Only one process holds the lock, and what it read under it is what the file
   still holds.  No change names a seed as found. *)
CacheInv ==
  /\ \A u \in updates :
       /\ u = [by |-> u.by, change |-> u.change, locked |-> u.locked, cache |-> u.cache]
       /\ u.locked => u.cache = file
       /\ u.change.found \cap Seeds = {}
  /\ \A u, v \in updates : u.locked /\ v.locked => u = v

JobShape(j) ==
  j = [for |-> j.for, stage |-> j.stage, left |-> j.left, target |-> j.target,
       checked |-> j.checked, passed |-> j.passed, healthy |-> j.healthy]

(* What is probed after the seeds is no seed; what is probed for the ring is
   no control relay either. *)
Probable(url) ==
  /\ job.for # "seeds" => url \notin Seeds
  /\ job.for = "ring" => url \notin control

JobInv ==
  /\ JobShape(job)
  /\ job.stage \in {"take", "ring"} => job.for = "ring"
  /\ job.stage \in {"discover", "merge", "list"} => job.for # "seeds"
  /\ \A url \in job.left \cup job.passed \cup job.healthy : Probable(url)
  /\ job.for = "ring" => spare \cap (Seeds \cup control) = {}
  /\ job.for = "seeds" => control = {}

TasksInv ==
  \A t \in tasks :
    /\ t = [who |-> t.who, url |-> t.url, at |-> t.at]
    /\ t.who = "probe" => job.stage = "probe" /\ Probable(t.url)

(* Everything the transfer signals on was named by the offer or held in
   reserve, and the ring was cut apart from both. *)
RingInv ==
  /\ job.for \in {"seeds", "control", "ring"} => prepared.ring = {} /\ prepared.reserve = {}
  /\ prepared.ring \cap (Seeds \cup control \cup prepared.reserve) = {}
  /\ active \cup known \cup heard \cup reserve \subseteq control \cup prepared.reserve

IInv == CacheInv /\ JobInv /\ TasksInv /\ RingInv

-----------------------------------------------------------------------------
(* The cache. *)

LEMMA InitHolds == Init => IInv
<1> SUFFICES ASSUME Init PROVE IInv
  OBVIOUS
<1>1. updates = {} /\ tasks = {} /\ control = {} /\ spare = {}
      /\ job = Job("seeds", "probe", Seeds, ControlCount)
      /\ prepared.ring = {} /\ prepared.reserve = {}
      /\ active = {} /\ known = {} /\ heard = {} /\ reserve = {}
  BY DEF Init, PoolInit, CacheInit, NoRing
<1>2. CacheInv /\ TasksInv /\ RingInv
  BY <1>1 DEF CacheInv, TasksInv, RingInv
<1>3. JobInv
  BY <1>1 DEF JobInv, JobShape, Job, Probable
<1> QED
  BY <1>2, <1>3 DEF IInv

(* A change asked for finds the cache as it is, and finds no seed. *)
LEMMA AskKeepsCache ==
  ASSUME CacheInv, file' = file, NEW op, NEW found, NEW failed, found \cap Seeds = {},
         Ask(Change(op, found, failed))
  PROVE  CacheInv'
<1> DEFINE w == Update(job.for, Change(op, found, failed))
<1>1. PICK n : n = w
  OBVIOUS
<1>2. /\ n = [by |-> n.by, change |-> n.change, locked |-> n.locked, cache |-> n.cache]
      /\ n.locked = FALSE /\ n.change.found = found
  BY <1>1 DEF Update, Change
<1>3. updates' = updates \cup {n}
  BY <1>1 DEF Ask
<1> HIDE DEF w
<1> QED
  BY <1>2, <1>3 DEF CacheInv

LEMMA LockKeepsCache ==
  ASSUME CacheInv, NEW u \in updates, ReadLocked(u)
  PROVE  CacheInv'
<1>1. PICK n : n = [u EXCEPT !.locked = TRUE, !.cache = file]
  OBVIOUS
<1>2. /\ n = [by |-> n.by, change |-> n.change, locked |-> n.locked, cache |-> n.cache]
      /\ n.cache = file /\ n.change = u.change
  <2>1. u = [by |-> u.by, change |-> u.change, locked |-> u.locked, cache |-> u.cache]
    BY DEF CacheInv
  <2> QED
    BY <1>1, <2>1
<1>3. updates' = (updates \ {u}) \cup {n} /\ file' = file
  BY <1>1 DEF ReadLocked
<1>4. \A v \in updates : ~ v.locked
  BY DEF ReadLocked, Exclusive
<1> QED
  BY <1>2, <1>3, <1>4 DEF CacheInv

(* The file changes only as one update makes of what it holds, and that update
   was the only one to have read it. *)
LEMMA WriteComposes ==
  ASSUME CacheInv, NEW u \in updates, WriteBack(u) \/ NotLocked(u)
  PROVE  /\ file' = file \/ file' = Applied(u.change, file)
         /\ file' # file => \A v \in updates \ {u} : ~ v.locked
<1>1. CASE NotLocked(u)
  BY <1>1 DEF NotLocked
<1>2. CASE WriteBack(u)
  <2>1. u.locked /\ u.cache = file
    BY <1>2 DEF WriteBack, CacheInv
  <2>2. \A v \in updates : v.locked => v = u
    BY <2>1 DEF CacheInv
  <2>3. file' = file \/ file' = Applied(u.change, file)
    BY <1>2, <2>1 DEF WriteBack
  <2> QED
    BY <2>2, <2>3
<1> QED
  BY <1>1, <1>2

LEMMA EndKeepsCache ==
  ASSUME CacheInv, NEW u \in updates, UpdateEnds(u)
  PROVE  CacheInv'
<1>1. updates' = updates \ {u} /\ (WriteBack(u) \/ NotLocked(u))
  BY DEF UpdateEnds
<1>2. file' # file => \A v \in updates \ {u} : ~ v.locked
  BY <1>1, WriteComposes
<1> QED
  BY <1>1, <1>2 DEF CacheInv

LEMMA ForeignKeepsCache ==
  ASSUME CacheInv, ForeignChange
  PROVE  CacheInv'
<1>1. PICK r \in Elsewhere : \E failed \in SUBSET ({r} \ Reliable) :
        updates' = updates \cup {Update("foreign", Change("probes", {r} \ failed, failed))}
  BY DEF ForeignChange
<1>1a. PICK failed \in SUBSET ({r} \ Reliable) :
        updates' = updates \cup {Update("foreign", Change("probes", {r} \ failed, failed))}
  BY <1>1
<1>2. PICK n : n = Update("foreign", Change("probes", {r} \ failed, failed))
  OBVIOUS
<1>3. /\ n = [by |-> n.by, change |-> n.change, locked |-> n.locked, cache |-> n.cache]
      /\ n.locked = FALSE /\ n.change.found = {r} \ failed
  BY <1>2 DEF Update, Change
<1>4. n.change.found \cap Seeds = {}
  BY <1>3, CacheAssumption
<1>5. file' = file
  BY DEF ForeignChange
<1> QED
  BY <1>1a, <1>2, <1>3, <1>4, <1>5 DEF CacheInv

(* What a pass over relays that are no seeds found are no seeds. *)
LEMMA SweepKeepsCache ==
  ASSUME CacheInv, JobInv, TasksInv, NEW t \in tasks, SweepProbed(t)
  PROVE  CacheInv'
<1>1. file' = file /\ job.for = "sweep" /\ t.who = "probe"
  BY DEF SweepProbed, Sweeping, Probing
<1>2. job.passed \cap Seeds = {} /\ t.url \notin Seeds
  BY <1>1 DEF JobInv, TasksInv, Probable
<1>3. CASE updates' = updates
  BY <1>1, <1>3 DEF CacheInv
<1>4. CASE updates' # updates
  <2>1. PICK passes \in Verdicts(t) :
          LET passed == IF passes THEN job.passed \cup {t.url} ELSE job.passed
              checked == job.checked \cup {t.url}
          IN  Ask(Change("probes", passed, checked \ passed))
    BY <1>4 DEF SweepProbed
  <2> DEFINE passed == IF passes THEN job.passed \cup {t.url} ELSE job.passed
             failed == (job.checked \cup {t.url}) \ passed
  <2>2. Ask(Change("probes", passed, failed))
    BY <2>1
  <2>3. passed \cap Seeds = {}
    BY <1>2
  <2> HIDE DEF passed, failed
  <2> QED
    BY <1>1, <2>2, <2>3, AskKeepsCache
<1> QED
  BY <1>3, <1>4

LEMMA NextCache ==
  ASSUME CacheInv, JobInv, TasksInv, [Next]_vars
  PROVE  CacheInv'
<1>1. CASE UNCHANGED <<file, updates>>
  BY <1>1 DEF CacheInv
<1>2. CASE Discover
  <2>1. PICK found \in SUBSET Others : Ask(Change("merge", found, {}))
    BY <1>2 DEF Discover
  <2>2. found \cap Seeds = {} /\ file' = file
    BY <1>2, CacheAssumption DEF Discover
  <2> QED
    BY <2>1, <2>2, AskKeepsCache
<1>3. CASE FullSizeProbed
  <2>1. job.passed \cap Seeds = {}
    BY <1>3 DEF FullSizeProbed, JobInv, Probable
  <2> QED
    BY <1>3, <2>1, AskKeepsCache DEF FullSizeProbed
<1>4. CASE TakeRing
  BY <1>4, AskKeepsCache DEF TakeRing
<1>5. CASE Enumerate
  <2>1. PICK found \in SUBSET Others :
          LET urls == (job.left \cup found) \ (Seeds \cup CarryingOf(control)) IN
          UNCHANGED updates \/ Ask(Change("list", urls, {}))
    BY <1>5 DEF Enumerate
  <2> DEFINE urls == (job.left \cup found) \ (Seeds \cup CarryingOf(control))
  <2>2. UNCHANGED updates \/ Ask(Change("list", urls, {}))
    BY <2>1
  <2>3. urls \cap Seeds = {} /\ file' = file
    BY <1>5 DEF Enumerate
  <2> HIDE DEF urls
  <2> QED
    BY <1>1, <2>2, <2>3, AskKeepsCache
<1>6. ASSUME NEW t \in tasks, SweepProbed(t) PROVE CacheInv'
  BY <1>6, SweepKeepsCache
<1>7. CASE SweepEnds
  <2>1. job.passed \cap Seeds = {} /\ file' = file
    BY <1>7 DEF SweepEnds, Sweeping, JobInv, Probable
  <2>2. UNCHANGED updates \/ Ask(Change("probes", job.passed, job.checked \ job.passed))
    BY <1>7 DEF SweepEnds
  <2> QED
    BY <1>1, <2>1, <2>2, AskKeepsCache
<1>8. ASSUME NEW u \in updates, ReadsCache(u) \/ UpdateEnds(u) PROVE CacheInv'
  BY <1>8, LockKeepsCache, EndKeepsCache DEF ReadsCache
<1>9. CASE OtherProcess
  BY <1>9, ForeignKeepsCache DEF OtherProcess
<1>10. ProbeNext \/ SeedsProbed \/ SweepNext \/ ClientDown \/ TransferStep \/ FallBack
         \/ TransferEnds \/ DirectRouteOpens => UNCHANGED <<file, updates>>
  BY DEF ProbeNext, SeedsProbed, SweepNext, ClientDown, TransferStep, FallBack, TransferEnds,
         DirectRouteOpens, AdoptRing, NoRingFound, Upload, Uploads, Promoted, HearDemotion,
         Promote, Wait, Announce, cacheVars
<1>11. \A t : Open(t) \/ ProbeEnds(t) \/ Demote(t) => UNCHANGED <<file, updates>>
  BY DEF Open, ProbeEnds, Demote, cacheVars
<1>12. UNCHANGED vars => UNCHANGED <<file, updates>>
  BY DEF vars, cacheVars
<1> QED
  BY <1>1, <1>2, <1>3, <1>4, <1>5, <1>6, <1>7, <1>8, <1>9, <1>10, <1>11, <1>12
  DEF Next, PoolStep

-----------------------------------------------------------------------------
(* The job underway and its probes. *)

(* Only probes of the job underway have to be of relays it may probe; nothing
   but a probe ends or begins for another reason. *)
LEMMA TasksFollow ==
  ASSUME TasksInv, job'.stage = job.stage, job'.for = job.for, control' = control,
         \A t \in tasks' :
           /\ t = [who |-> t.who, url |-> t.url, at |-> t.at]
           /\ t.who = "probe" => \/ \E s \in tasks : s.who = "probe" /\ s.url = t.url
                                 \/ job.stage = "probe" /\ Probable(t.url)
  PROVE  TasksInv'
  BY DEF TasksInv, Probable

LEMMA EnsuredTasks ==
  ASSUME NEW others, NEW who, NEW url, NEW at, Ensured(others, who, url, at)
  PROVE  \A t \in tasks' :
           \/ t \in others
           \/ t = [who |-> t.who, url |-> t.url, at |-> t.at] /\ t.who = who /\ t.url = url
<1>1. PICK n : n = [who |-> who, url |-> url, at |-> at]
  OBVIOUS
<1>2. tasks' = others \cup {n}
  BY <1>1 DEF Ensured
<1> QED
  BY <1>1, <1>2

LEMMA EnsureTasks ==
  ASSUME NEW who, NEW url, Ensure(who, url)
  PROVE  \A t \in tasks' :
           \/ t \in tasks
           \/ t = [who |-> t.who, url |-> t.url, at |-> t.at] /\ t.who = who /\ t.url = url
  BY EnsuredTasks DEF Ensure

LEMMA OpenTasks ==
  ASSUME TasksInv, NEW t \in tasks, Open(t)
  PROVE  \A n \in tasks' :
           /\ n = [who |-> n.who, url |-> n.url, at |-> n.at]
           /\ n \in tasks \/ (n.who = t.who /\ n.url = t.url)
<1>1. CASE PassGate(t)
  <2>1. Ensured(tasks \ {t}, t.who, t.url, At(t.url))
    BY <1>1 DEF PassGate
  <2> QED
    BY <2>1, EnsuredTasks DEF TasksInv
<1>2. ASSUME NEW at, tasks' = Replaced(t, at)
      PROVE  \A n \in tasks' :
               /\ n = [who |-> n.who, url |-> n.url, at |-> n.at]
               /\ n \in tasks \/ (n.who = t.who /\ n.url = t.url)
  <2>1. PICK m : m = [t EXCEPT !.at = at]
    OBVIOUS
  <2>2. m = [who |-> m.who, url |-> m.url, at |-> m.at] /\ m.who = t.who /\ m.url = t.url
    BY <2>1 DEF TasksInv
  <2>3. tasks' = (tasks \ {t}) \cup {m}
    BY <1>2, <2>1 DEF Replaced
  <2> QED
    BY <2>2, <2>3 DEF TasksInv
<1>3. CASE Connect(t)
  BY <1>2, <1>3 DEF Connect
<1> QED
  BY <1>1, <1>3 DEF Open

(* The job stays as it is. *)
LEMMA JobStays ==
  ASSUME JobInv, UNCHANGED <<job, control, spare>>
  PROVE  JobInv'
  BY DEF JobInv, JobShape, Probable

(* The job goes on within its stage, with no relay it did not have. *)
LEMMA JobGoesOn ==
  ASSUME JobInv, JobShape(job'), job'.for = job.for, job'.stage = job.stage,
         UNCHANGED <<control, spare>>,
         \A url \in job'.left \cup job'.passed \cup job'.healthy :
           url \in job.left \cup job.passed \cup job.healthy \/ Probable(url)
  PROVE  JobInv'
  BY DEF JobInv, JobShape, Probable

(* The job's stage ends, or the next one begins with what it learned. *)
LEMMA JobStage ==
  ASSUME JobInv, JobShape(job'), job'.for = job.for,
         job'.stage \in {"take", "ring"} => job.for = "ring",
         job'.stage \in {"discover", "merge", "list"} => job.for # "seeds",
         UNCHANGED <<control, spare>>,
         \A url \in job'.left \cup job'.passed \cup job'.healthy :
           url \in job.left \cup job.passed \cup job.healthy \/ Probable(url)
  PROVE  JobInv'
  BY DEF JobInv, JobShape, Probable

(* Only the stage changes. *)
LEMMA OnlyStage ==
  ASSUME JobInv, NEW stage, job' = [job EXCEPT !.stage = stage],
         stage \in {"take", "ring"} => job.for = "ring",
         stage \in {"discover", "merge", "list"} => job.for # "seeds",
         UNCHANGED <<control, spare>>
  PROVE  JobInv'
<1>1. /\ JobShape(job') /\ job'.for = job.for /\ job'.stage = stage
      /\ job'.left = job.left /\ job'.passed = job.passed /\ job'.healthy = job.healthy
  BY DEF JobInv, JobShape
<1> QED
  BY <1>1, JobStage

(* Where nothing is being probed, the job and the control relays may change. *)
LEMMA NoProbes ==
  ASSUME TasksInv, tasks' \subseteq tasks, \A t \in tasks' : t.who # "probe"
  PROVE  TasksInv'
  BY DEF TasksInv

LEMMA ProbeNextJob ==
  ASSUME JobInv, TasksInv, ProbeNext \/ SweepNext
  PROVE  JobInv' /\ TasksInv'
<1>1. PICK url \in job.left :
        job' = [job EXCEPT !.left = @ \ {url}] /\ Ensure("probe", url)
  BY DEF ProbeNext, SweepNext
<1>2. job.stage = "probe" /\ UNCHANGED <<control, spare>>
  BY DEF ProbeNext, SweepNext, Foreground, Sweeping
<1>3. Probable(url)
  BY DEF JobInv
<1>4. /\ JobShape(job') /\ job'.for = job.for /\ job'.stage = job.stage
      /\ job'.left \subseteq job.left /\ job'.passed = job.passed /\ job'.healthy = job.healthy
  BY <1>1 DEF JobInv, JobShape
<1>5. JobInv'
  BY <1>2, <1>4, JobGoesOn
<1>6. \A t \in tasks' :
        \/ t \in tasks
        \/ t = [who |-> t.who, url |-> t.url, at |-> t.at] /\ t.url = url
  BY <1>1, EnsureTasks
<1>7. TasksInv'
  BY <1>2, <1>3, <1>4, <1>6, TasksFollow DEF TasksInv
<1> QED
  BY <1>5, <1>7

LEMMA ProbeEndsJob ==
  ASSUME JobInv, TasksInv, NEW t \in tasks, ProbeEnds(t) \/ SweepProbed(t)
  PROVE  JobInv' /\ TasksInv'
<1>1. tasks' = tasks \ {t} /\ UNCHANGED <<control, spare>> /\ Probable(t.url)
  BY DEF ProbeEnds, SweepProbed, Probing, TasksInv
<1>2. JobShape(job)
  BY DEF JobInv
<1>3. /\ JobShape(job') /\ job'.for = job.for /\ job'.stage = job.stage
      /\ job'.left = job.left /\ job'.passed \subseteq job.passed \cup {t.url}
      /\ job'.healthy \subseteq job.healthy \cup {t.url}
  <2>1. CASE job' = job
    BY <1>2, <2>1
  <2>2. CASE ProbeEnds(t)
    BY <1>2, <2>2 DEF ProbeEnds, JobShape
  <2>3. CASE SweepProbed(t) /\ job' # job
    <3>1. PICK passed, checked : /\ job' = [job EXCEPT !.passed = passed, !.checked = checked]
                                 /\ passed \subseteq job.passed \cup {t.url}
      <4>1. PICK passes \in Verdicts(t) :
              LET passed == IF passes THEN job.passed \cup {t.url} ELSE job.passed
                  checked == job.checked \cup {t.url}
              IN  \/ job' = [job EXCEPT !.passed = {}, !.checked = {}]
                  \/ job' = [job EXCEPT !.passed = passed, !.checked = checked]
        BY <2>3 DEF SweepProbed
      <4>2. CASE job' = [job EXCEPT !.passed = {}, !.checked = {}]
        BY <4>2
      <4> DEFINE passed == IF passes THEN job.passed \cup {t.url} ELSE job.passed
                 checked == job.checked \cup {t.url}
      <4>3. CASE job' = [job EXCEPT !.passed = passed, !.checked = checked]
        <5>1. passed \subseteq job.passed \cup {t.url}
          OBVIOUS
        <5> HIDE DEF passed, checked
        <5> QED
          BY <4>3, <5>1
      <4> QED
        BY <4>1, <4>2, <4>3
    <3> QED
      BY <1>2, <3>1 DEF JobShape
  <2> QED
    BY <2>1, <2>2, <2>3
<1>4. JobInv'
  BY <1>1, <1>3, JobGoesOn
<1>5. TasksInv'
  BY <1>1, <1>3, TasksFollow DEF TasksInv
<1> QED
  BY <1>4, <1>5

LEMMA StageJob ==
  ASSUME JobInv, TasksInv, Discover \/ FullSizeProbed \/ TakeRing \/ Enumerate \/ SweepEnds
  PROVE  JobInv' /\ TasksInv'
<1>1. UNCHANGED <<tasks, control, spare>> /\ JobShape(job)
  BY DEF Discover, FullSizeProbed, TakeRing, Enumerate, SweepEnds, JobInv
<1>2. \A t \in tasks : t.who # "probe"
  BY DEF Discover, FullSizeProbed, TakeRing, Enumerate, SweepEnds, PassOver, Sweeping, Probing, TasksInv
<1>3. TasksInv'
  BY <1>1, <1>2, NoProbes
<1>4. CASE Discover
  <2>1. job' = [job EXCEPT !.stage = "merge"] /\ job.for # "seeds"
    BY <1>4 DEF Discover, JobInv
  <2> QED
    BY <1>1, <1>3, <2>1, OnlyStage
<1>5. CASE FullSizeProbed
  <2>1. job' = [job EXCEPT !.stage = "record"]
    BY <1>5 DEF FullSizeProbed
  <2> QED
    BY <1>1, <1>3, <2>1, OnlyStage
<1>6. CASE TakeRing
  <2>1. job' = [job EXCEPT !.stage = "ring"] /\ job.for = "ring"
    BY <1>6 DEF TakeRing, JobInv
  <2> QED
    BY <1>1, <1>3, <2>1, OnlyStage
<1>7. CASE Enumerate
  <2>1. PICK found \in SUBSET Others :
          LET urls == (job.left \cup found) \ (Seeds \cup CarryingOf(control)) IN
          \/ job' = [job EXCEPT !.stage = "ended"]
          \/ job' = [job EXCEPT !.stage = "list", !.left = urls]
    BY <1>7 DEF Enumerate
  <2>2. job.for = "sweep"
    BY <1>7 DEF Enumerate
  <2> DEFINE urls == (job.left \cup found) \ (Seeds \cup CarryingOf(control))
  <2>3. \/ job' = [job EXCEPT !.stage = "ended"]
        \/ job' = [job EXCEPT !.stage = "list", !.left = urls]
    BY <2>1
  <2>4. \A url \in urls : Probable(url)
    BY <2>2 DEF Probable
  <2> HIDE DEF urls
  <2>5. CASE job' = [job EXCEPT !.stage = "ended"]
    BY <1>1, <1>3, <2>5, OnlyStage
  <2>6. CASE job' = [job EXCEPT !.stage = "list", !.left = urls]
    <3>1. /\ JobShape(job') /\ job'.for = job.for /\ job'.stage = "list"
          /\ job'.left = urls /\ job'.passed = job.passed /\ job'.healthy = job.healthy
      BY <1>1, <2>6 DEF JobShape
    <3> QED
      BY <1>1, <1>3, <2>2, <2>4, <3>1, JobStage
  <2> QED
    BY <2>3, <2>5, <2>6
<1>8. CASE SweepEnds
  <2>1. job' = [job EXCEPT !.stage = "ended"]
    BY <1>8 DEF SweepEnds
  <2> QED
    BY <1>1, <1>3, <2>1, OnlyStage
<1> QED
  BY <1>3, <1>4, <1>5, <1>6, <1>7, <1>8

(* A job of its own has what it is given to probe and has learned nothing. *)
LEMMA NewJob ==
  ASSUME NEW for, NEW stage, NEW left, NEW target
  PROVE  LET j == Job(for, stage, left, target) IN
         /\ JobShape(j) /\ j.for = for /\ j.stage = stage /\ j.left = left
         /\ j.passed = {} /\ j.healthy = {}
  BY DEF Job, JobShape

(* The preparation of the ring begins apart from the seeds and from what the
   offer names. *)
LEMMA RingBegins ==
  ASSUME JobInv, job.for # "seeds" \/ job.stage = "probe",
         (\E leftover, unprobed : PrepareRing(leftover, unprobed)) \/ DiscoverRing
  PROVE  JobInv' /\ job'.for = "ring"
<1>1. CASE DiscoverRing
  <2>1. job' = Job("ring", "discover", {}, RingCount) /\ spare' = {}
    BY <1>1 DEF DiscoverRing
  <2>2. /\ JobShape(job') /\ job'.for = "ring" /\ job'.stage = "discover" /\ job'.left = {}
        /\ job'.passed = {} /\ job'.healthy = {}
    BY <2>1, NewJob
  <2> QED
    BY <2>1, <2>2 DEF JobInv
<1>2. ASSUME NEW leftover, NEW unprobed, PrepareRing(leftover, unprobed)
      PROVE  JobInv' /\ job'.for = "ring"
  <2>1. PICK target : job' = Job("ring", "probe", unprobed \ Excluded, target)
    BY <1>2 DEF PrepareRing
  <2>2. spare' = leftover \ Excluded
    BY <1>2 DEF PrepareRing
  <2>3. /\ JobShape(job') /\ job'.for = "ring" /\ job'.stage = "probe"
        /\ job'.left = unprobed \ Excluded /\ job'.passed = {} /\ job'.healthy = {}
    BY <2>1, NewJob
  <2>4. \A url \in job'.left : url \notin Seeds /\ url \notin control'
    BY <2>3 DEF Excluded
  <2>5. spare' \cap (Seeds \cup control') = {}
    BY <2>2 DEF Excluded
  <2> QED
    BY <2>3, <2>4, <2>5 DEF JobInv, Probable
<1> QED
  BY <1>1, <1>2

LEMMA SeedsProbedJob ==
  ASSUME JobInv, TasksInv, SeedsProbed
  PROVE  JobInv' /\ TasksInv'
<1>1. tasks' = tasks /\ \A t \in tasks : t.who # "probe"
  BY DEF SeedsProbed, PassOver, Probing
<1>2. TasksInv'
  BY <1>1, NoProbes
<1>3. job.stage = "probe"
  BY DEF SeedsProbed, PassOver, Foreground
<1>4. CASE DiscoverRing
  BY <1>2, <1>3, <1>4, RingBegins
<1>5. CASE \E target : job' = Job("control", "discover", {}, target)
  <2>1. /\ JobShape(job') /\ job'.for = "control" /\ job'.stage = "discover" /\ job'.left = {}
        /\ job'.passed = {} /\ job'.healthy = {}
    BY <1>5, NewJob
  <2> QED
    BY <1>2, <2>1 DEF JobInv
<1> QED
  BY <1>4, <1>5 DEF SeedsProbed

(* What a finished change lets the job go on to. *)
LEMMA GoesOnJob ==
  ASSUME CacheInv, JobInv, TasksInv, NEW u \in updates, UpdateEnds(u)
  PROVE  JobInv' /\ TasksInv'
<1>1. tasks' = tasks /\ JobShape(job)
  BY DEF UpdateEnds, JobInv
<1>2. CASE ~ Awaited(u)
  <2>1. UNCHANGED <<job, control, spare>>
    BY <1>2 DEF UpdateEnds
  <2> QED
    BY <1>1, <2>1, JobStays, TasksFollow DEF TasksInv
<1>3. CASE Awaited(u)
  <2>1. \A t \in tasks : t.who # "probe"
    BY <1>3 DEF Awaited, TasksInv
  <2>2. TasksInv'
    BY <1>1, <2>1, NoProbes
  <2>3. CASE Merged(u)
    <3>1. UNCHANGED <<control, spare>> /\ job.for # "seeds"
          /\ job' = [job EXCEPT !.stage = "probe",
                                !.left = Candidates(u.cache, u.change.found) \ control]
      BY <2>3 DEF Merged, JobInv
    <3>2. u.change.found \cap Seeds = {}
      BY DEF CacheInv
    <3>3. Candidates(u.cache, u.change.found) \cap Seeds = {}
      BY <3>2, CacheAssumption DEF Candidates, KnownWorking, Cached
    <3>4. JobShape(job') /\ job'.for = job.for /\ job'.stage = "probe"
          /\ job'.left = Candidates(u.cache, u.change.found) \ control
          /\ job'.passed = job.passed /\ job'.healthy = job.healthy
      BY <1>1, <3>1 DEF JobShape
    <3>5. \A url \in job'.left : Probable(url)
      BY <3>3, <3>4 DEF Probable
    <3> QED
      BY <2>2, <3>1, <3>4, <3>5, JobStage
  <2>4. CASE ControlResolved(u)
    <3>1. CASE job' = Job("none", "ended", {}, 0)
      <4>1. /\ JobShape(job') /\ job'.for = "none" /\ job'.stage = "ended" /\ job'.left = {}
            /\ job'.passed = {} /\ job'.healthy = {}
        BY <3>1, NewJob
      <4> QED
        BY <2>2, <4>1 DEF JobInv
    <3>2. CASE \E leftover, unprobed : PrepareRing(leftover, unprobed)
      BY <2>2, <2>4, <3>2, RingBegins DEF ControlResolved
    <3> QED
      BY <2>4, <3>1, <3>2 DEF ControlResolved
  <2>5. CASE RingProbed(u)
    <3>1. UNCHANGED <<control, spare>> /\ job.for = "ring"
      BY <2>5 DEF RingProbed
    <3>2. PICK stage \in {"ended", "take"} : job' = [job EXCEPT !.stage = stage]
      BY <2>5 DEF RingProbed
    <3> QED
      BY <1>1, <2>2, <3>1, <3>2, OnlyStage
  <2>6. CASE RingTaken(u)
    <3>1. control' = control /\ job' = Job("sweep", "discover", job.left, 0) /\ job.for = "ring"
      BY <2>6 DEF RingTaken, JobInv
    <3>2. /\ JobShape(job') /\ job'.for = "sweep" /\ job'.stage = "discover"
          /\ job'.left = job.left /\ job'.passed = {} /\ job'.healthy = {}
      BY <3>1, NewJob
    <3> QED
      BY <2>2, <3>1, <3>2 DEF JobInv, Probable
  <2>7. CASE SweepListed(u)
    <3>1. UNCHANGED <<control, spare>> /\ job.for = "sweep"
      BY <2>7 DEF SweepListed
    <3>2. PICK stage \in {"ended", "probe"} : job' = [job EXCEPT !.stage = stage]
      BY <2>7 DEF SweepListed
    <3> QED
      BY <1>1, <2>2, <3>1, <3>2, OnlyStage
  <2> QED
    BY <1>3, <2>3, <2>4, <2>5, <2>6, <2>7 DEF UpdateEnds, GoesOn
<1> QED
  BY <1>2, <1>3

LEMMA DiscardJob ==
  ASSUME JobInv, TasksInv, NEW to, Discard(to)
  PROVE  JobInv' /\ TasksInv'
<1>1. CASE job.for = "ring"
  <2>1. /\ job' = Job("none", "ended", {}, 0) /\ tasks' = tasks \ Probing
    BY <1>1 DEF Discard
  <2>2. /\ JobShape(job') /\ job'.for = "none" /\ job'.stage = "ended" /\ job'.left = {}
        /\ job'.passed = {} /\ job'.healthy = {}
    BY <2>1, NewJob
  <2>3. TasksInv'
    BY <2>1, NoProbes DEF Probing
  <2> QED
    BY <2>2, <2>3 DEF JobInv
<1>2. CASE job.for # "ring"
  <2>1. UNCHANGED <<job, tasks, control, spare>>
    BY <1>2 DEF Discard
  <2> QED
    BY <2>1, JobStays, TasksFollow DEF TasksInv
<1> QED
  BY <1>1, <1>2

LEMMA NextJob ==
  ASSUME CacheInv, JobInv, TasksInv, [Next]_vars
  PROVE  JobInv' /\ TasksInv'
<1>1. CASE UNCHANGED <<job, control, spare>> /\ tasks' \subseteq tasks
  BY <1>1, JobStays, TasksFollow DEF TasksInv
<1>2. ASSUME UNCHANGED <<job, control, spare>>, NEW who, who # "probe", NEW url, Ensure(who, url)
      PROVE  JobInv' /\ TasksInv'
  BY <1>2, JobStays, TasksFollow, EnsureTasks DEF TasksInv
<1>3. ASSUME NEW t \in tasks, Open(t) PROVE JobInv' /\ TasksInv'
  <2>1. UNCHANGED <<job, control, spare>>
    BY <1>3 DEF Open
  <2>2. \A n \in tasks' :
           /\ n = [who |-> n.who, url |-> n.url, at |-> n.at]
           /\ n \in tasks \/ (n.who = t.who /\ n.url = t.url)
    BY <1>3, OpenTasks
  <2> QED
    BY <2>1, <2>2, JobStays, TasksFollow
<1>4. ASSUME NEW w \in Uploaders, Upload(w) PROVE JobInv' /\ TasksInv'
  <2>1. UNCHANGED <<job, control, spare>> /\ w # "probe"
    BY <1>4, PoolAssumption DEF Upload
  <2>2. UNCHANGED tasks \/ \E url : Ensure(w, url)
    BY <1>4 DEF Upload
  <2> QED
    BY <1>1, <1>2, <2>1, <2>2
<1>5. CASE Promote
  <2>1. UNCHANGED <<job, control, spare>> /\ (UNCHANGED tasks \/ \E url : Ensure("promote", url))
    BY <1>5 DEF Promote
  <2> QED
    BY <1>1, <1>2, <2>1
<1>6. ASSUME NEW to, Discard(to) PROVE JobInv' /\ TasksInv'
  BY <1>6, DiscardJob
<1>7. FallBack => UNCHANGED <<job, control, spare, tasks>> \/ Discard("none")
  BY DEF FallBack
<1>8. TransferEnds => UNCHANGED <<job, control, spare>> /\ tasks' \subseteq tasks
  BY DEF TransferEnds, Probing
<1>9. \A t : Uploads(t) \/ Promoted(t) => UNCHANGED <<job, control, spare>> /\ tasks' \subseteq tasks
  BY DEF Uploads, Promoted
<1>10. ClientDown \/ AdoptRing \/ HearDemotion \/ Wait \/ Announce \/ OtherProcess \/ UNCHANGED vars
         => UNCHANGED <<job, control, spare, tasks>>
  BY DEF ClientDown, AdoptRing, HearDemotion, Wait, Announce, OtherProcess, vars, poolVars
<1>11. \A x : Demote(x) \/ ReadsCache(x) => UNCHANGED <<job, control, spare, tasks>>
  BY DEF Demote, ReadsCache, poolVars
<1>12. DirectRouteOpens => Discard("direct")
  BY DEF DirectRouteOpens
<1>13. NoRingFound => TransferEnds
  BY DEF NoRingFound
<1>14. PoolStep => JobInv' /\ TasksInv'
  BY <1>1, <1>3, <1>10, <1>11, ProbeNextJob, ProbeEndsJob, StageJob, SeedsProbedJob, GoesOnJob
  DEF PoolStep
<1>15. TransferStep => JobInv' /\ TasksInv'
  BY <1>1, <1>4, <1>5, <1>8, <1>9, <1>10, <1>13 DEF TransferStep
<1> QED
  BY <1>1, <1>6, <1>7, <1>8, <1>10, <1>11, <1>12, <1>14, <1>15 DEF Next

-----------------------------------------------------------------------------
(* The ring and the relays signalled on. *)

(* The control relays are only ever added to, and not any more once there is a
   ring. *)
LEMMA RingFollows ==
  ASSUME RingInv, control \subseteq control', prepared' = prepared,
         job.for # "seeds" /\ job.for # "control" => control' = control,
         job'.for = job.for \/ job'.for = "none" \/ job.for \in {"seeds", "control"},
         UNCHANGED <<active, known, heard, reserve>>
  PROVE  RingInv'
  BY DEF RingInv

LEMMA RingTakenRing ==
  ASSUME RingInv, JobInv, NEW u, RingTaken(u), UNCHANGED <<active, known, heard, reserve>>
  PROVE  RingInv'
<1>1. job.for = "ring" /\ control' = control
  BY DEF RingTaken, JobInv
<1>2. Healthy \cap (Seeds \cup control) = {}
  BY <1>1 DEF Healthy, JobInv, Probable
<1>3. PICK ring \in Sized(Healthy, RingCount) :
        \E rest \in Sized(Healthy \ ring, ReserveCount) :
          prepared' = [ready |-> TRUE, ring |-> ring, reserve |-> rest]
  BY DEF RingTaken
<1>4. PICK rest \in Sized(Healthy \ ring, ReserveCount) :
        prepared' = [ready |-> TRUE, ring |-> ring, reserve |-> rest]
  BY <1>3
<1>5. ring \subseteq Healthy /\ rest \subseteq Healthy \ ring
  BY DEF Sized
<1>6. prepared'.ring = ring /\ prepared'.reserve = rest
  BY <1>4
<1>7. job'.for = "sweep"
  BY NewJob DEF RingTaken
<1>8. prepared.reserve = {}
  BY <1>1 DEF RingInv
<1> QED
  BY <1>1, <1>2, <1>5, <1>6, <1>7, <1>8 DEF RingInv

LEMMA NextRing ==
  ASSUME JobInv, RingInv, JobInv', [Next]_vars
  PROVE  RingInv'
<1> DEFINE Sets == UNCHANGED <<active, known, heard, reserve>>
           Calm == UNCHANGED <<control, prepared>> /\ (job'.for = job.for \/ job'.for = "none")
<1>1. Sets /\ Calm => RingInv'
  BY RingFollows
<1>2. CASE SeedsProbed /\ Sets
  <2>1. job.for = "seeds" /\ control = {} /\ prepared' = prepared
    BY <1>2 DEF SeedsProbed, JobInv
  <2> QED
    BY <1>2, <2>1, RingFollows
<1>3. ASSUME NEW u \in updates, UpdateEnds(u), Sets PROVE RingInv'
  <2>1. CASE ~ Awaited(u)
    BY <1>1, <1>3, <2>1 DEF UpdateEnds
  <2>2. CASE Merged(u)
    <3>1. job' = [job EXCEPT !.stage = "probe", !.left = Candidates(u.cache, u.change.found) \ control]
          /\ UNCHANGED <<control, prepared>>
      BY <2>2 DEF Merged
    <3>2. job'.for = job.for
      BY <3>1 DEF JobInv, JobShape
    <3> QED
      BY <1>1, <1>3, <3>1, <3>2
  <2>3. CASE ControlResolved(u)
    <3>1. job.for = "control" /\ prepared' = prepared /\ control \subseteq control'
      BY <2>3 DEF ControlResolved
    <3> QED
      BY <1>3, <3>1, RingFollows
  <2>4. CASE RingProbed(u) \/ SweepListed(u)
    <3>1. PICK stage : job' = [job EXCEPT !.stage = stage]
      BY <2>4 DEF RingProbed, SweepListed
    <3>2. job'.for = job.for /\ UNCHANGED <<control, prepared>>
      BY <2>4, <3>1 DEF RingProbed, SweepListed, JobInv, JobShape
    <3> QED
      BY <1>1, <1>3, <3>2
  <2>5. CASE RingTaken(u)
    BY <1>3, <2>5, RingTakenRing
  <2> QED
    BY <1>3, <2>1, <2>2, <2>3, <2>4, <2>5 DEF UpdateEnds, GoesOn
<1>4. ASSUME Discover \/ FullSizeProbed \/ TakeRing \/ SweepEnds PROVE Calm
  <2>1. PICK stage : job' = [job EXCEPT !.stage = stage]
    BY <1>4 DEF Discover, FullSizeProbed, TakeRing, SweepEnds
  <2> QED
    BY <1>4, <2>1 DEF Discover, FullSizeProbed, TakeRing, SweepEnds, JobInv, JobShape
<1>5. ASSUME Enumerate PROVE Calm
  <2>1. \/ \E stage : job' = [job EXCEPT !.stage = stage]
        \/ \E urls : job' = [job EXCEPT !.stage = "list", !.left = urls]
    BY <1>5 DEF Enumerate
  <2> QED
    BY <1>5, <2>1 DEF Enumerate, JobInv, JobShape
<1>6. ASSUME ProbeNext \/ SweepNext PROVE Calm
  BY <1>6 DEF ProbeNext, SweepNext, JobInv, JobShape
<1>7. ASSUME NEW t, ProbeEnds(t) PROVE Calm
  BY <1>7 DEF ProbeEnds, JobInv, JobShape
<1>8. ASSUME NEW t, SweepProbed(t) PROVE Calm
  <2>1. \/ job' = job
        \/ \E p, c : job' = [job EXCEPT !.passed = p, !.checked = c]
    BY <1>8 DEF SweepProbed
  <2> QED
    BY <1>8, <2>1 DEF SweepProbed, JobInv, JobShape
<1>9. \A t : Open(t) \/ ReadsCache(t) => Calm
  BY DEF Open, ReadsCache, poolVars
<1>10. ClientDown => Calm
  BY DEF ClientDown
<1>11. CASE PoolStep
  <2>1. Sets
    BY <1>11 DEF PoolStep, controlVars
  <2> HIDE DEF Sets, Calm
  <2> QED
    BY <1>1, <1>2, <1>3, <1>4, <1>5, <1>6, <1>7, <1>8, <1>9, <1>10, <1>11, <2>1 DEF PoolStep
<1>12. ASSUME NEW to, Discard(to) PROVE Calm
  <2>1. job' = job \/ job' = Job("none", "ended", {}, 0)
    BY <1>12 DEF Discard
  <2>2. job'.for = job.for \/ job'.for = "none"
    BY <2>1, NewJob
  <2> QED
    BY <1>12, <2>2 DEF Discard
<1>13. TransferEnds => Calm
  BY DEF TransferEnds
<1>14. ASSUME Gone, Calm PROVE RingInv'
  BY <1>14 DEF Gone, RingInv
<1>15. CASE FallBack
  <2>1. CASE active' = control /\ known' = control /\ heard' = control /\ UNCHANGED <<job, control, prepared>>
    BY <1>15, <2>1 DEF FallBack, RingInv
  <2>2. CASE Discard("none") /\ UNCHANGED <<active, known, heard>>
    <3>1. Calm /\ Sets
      BY <1>12, <1>15, <2>2 DEF FallBack
    <3> QED
      BY <1>1, <3>1
  <2> QED
    BY <1>15, <2>1, <2>2 DEF FallBack
<1>16. ASSUME UNCHANGED <<job, control, prepared>>,
              active' \cup known' \cup heard' \cup reserve'
                \subseteq active \cup known \cup heard \cup reserve \cup prepared.reserve
       PROVE  RingInv'
  BY <1>16 DEF RingInv
<1>17. CASE AdoptRing \/ HearDemotion \/ Wait \/ Announce \/ Promote
  <2>1. UNCHANGED <<job, control, prepared>>
    BY <1>17 DEF AdoptRing, HearDemotion, Wait, Announce, Promote, poolVars
  <2>2. active' \cup known' \cup heard' \cup reserve'
          \subseteq active \cup known \cup heard \cup reserve \cup prepared.reserve
    BY <1>17 DEF AdoptRing, HearDemotion, Wait, Announce, Announced, Promote
  <2> QED
    BY <1>16, <2>1, <2>2
<1>18. \A x : Upload(x) \/ Uploads(x) \/ Promoted(x) \/ OtherProcess => Calm
  BY DEF Upload, Uploads, Promoted, OtherProcess, poolVars
<1>19. \A x : Upload(x) \/ Uploads(x) \/ Promoted(x) => Sets
  BY DEF Upload, Uploads, Promoted, controlVars
<1>20. CASE TransferStep
  BY <1>1, <1>13, <1>14, <1>17, <1>18, <1>19, <1>20 DEF TransferStep, NoRingFound
<1>21. ASSUME NEW url, Demote(url) PROVE RingInv'
  BY <1>16, <1>21 DEF Demote, poolVars
<1>22. CASE (DirectRouteOpens \/ OtherProcess) /\ UNCHANGED controlVars
  BY <1>1, <1>12, <1>18, <1>22 DEF DirectRouteOpens, controlVars
<1>23. CASE UNCHANGED vars
  BY <1>1, <1>23 DEF vars, poolVars, controlVars
<1> HIDE DEF Sets, Calm
<1> QED
  BY <1>11, <1>13, <1>14, <1>15, <1>20, <1>21, <1>22, <1>23 DEF Next

-----------------------------------------------------------------------------
(* The invariant of the whole. It is inductive because no relay that is a seed
   or named by the offer is ever probed for the ring, which rests on what the
   cache's changes may have found. *)
THEOREM Invariance == Spec => []IInv
<1>1. IInv /\ [Next]_vars => IInv'
  BY NextCache, NextJob, NextRing DEF IInv
<1> QED
  BY <1>1, InitHolds, PTL DEF Spec

(* No process overwrites what another has learned: a change is applied to what
   the file holds when it is written back (update_locked). *)
THEOREM UpdatesNeverLost == Spec => UpdatesCompose
<1>1. IInv /\ [Next]_vars => [\E u \in updates : file' = Applied(u.change, file)]_file
  <2> SUFFICES ASSUME CacheInv, [Next]_vars, file' # file
               PROVE  \E u \in updates : file' = Applied(u.change, file)
    BY DEF IInv
  <2>1. \E u \in updates : UpdateEnds(u)
    <3>1. ProbeNext \/ SeedsProbed \/ Discover \/ FullSizeProbed \/ TakeRing \/ Enumerate
            \/ SweepNext \/ SweepEnds \/ ClientDown => file' = file
      BY DEF ProbeNext, SeedsProbed, Discover, FullSizeProbed, TakeRing, Enumerate, SweepNext,
             SweepEnds, ClientDown, cacheVars
    <3>2. \A t : Open(t) \/ ProbeEnds(t) \/ SweepProbed(t) \/ Demote(t) \/ ReadsCache(t)
                   => file' = file
      BY DEF Open, ProbeEnds, SweepProbed, Demote, ReadsCache, ReadLocked, cacheVars
    <3>3. TransferStep \/ FallBack \/ TransferEnds \/ DirectRouteOpens \/ OtherProcess
            \/ UNCHANGED vars => file' = file
      BY DEF TransferStep, FallBack, TransferEnds, DirectRouteOpens, OtherProcess, ForeignChange,
             AdoptRing, NoRingFound, Upload, Uploads, Promoted, HearDemotion, Promote, Wait,
             Announce, vars, cacheVars
    <3> QED
      BY <3>1, <3>2, <3>3 DEF Next, PoolStep
  <2> QED
    BY <2>1, WriteComposes DEF UpdateEnds
<1> QED
  BY <1>1, Invariance, PTL DEF Spec, UpdatesCompose

(* Pieces and signals never share a relay (Ring::prepare_alongside,
   discover_candidates). *)
THEOREM RingApart == Spec => []RingApartFromSignals
<1>1. IInv => RingApartFromSignals
  BY DEF IInv, RingInv, RingApartFromSignals
<1> QED
  BY <1>1, Invariance, PTL

-----------------------------------------------------------------------------
(* The sockets. *)

(* Every relay in the book has its socket, and so has every relay that is
   being connected to, by one task at a time. *)
SocketInv ==
  /\ pool = [shut |-> pool.shut, down |-> pool.down,
             opened |-> pool.opened, sockets |-> pool.sockets]
  /\ pool.down => pool.shut
  /\ ~pool.down =>
       /\ pool.opened \subseteq pool.sockets
       /\ \A t \in tasks :
            /\ t.at = "connecting" => t.url \in pool.sockets \ pool.opened
            /\ t.at = "open" => t.url \in pool.opened
  /\ \A t, v \in tasks :
       t.at = "connecting" /\ v.at = "connecting" /\ t.url = v.url => t = v
  /\ ~pool.shut => \A t \in tasks : t.at = "failed" => t.url \notin Reliable

(* No relay is probed twice in one job, and the sweep probes nothing that
   carries the transfer. *)
ProbeInv ==
  /\ \A t, v \in Probing : t.url = v.url => t = v
  /\ \A t \in Probing : t.url \notin job.left \cup job.checked
  /\ job.left \cap job.checked = {}
  /\ job.healthy \subseteq job.checked
  /\ job.for = "sweep" => job.healthy = {}
  /\ job.for \in {"seeds", "control", "ring", "sweep", "none"}
  /\ job.for = "none" => job.stage = "ended"
  /\ job.stage \in {"merge", "record"} => job.for \in {"control", "ring"}
  /\ job.stage \in {"discover", "merge", "list"} => job.checked = {}
  /\ job.for = "sweep" /\ job.stage \in {"probe", "list"} =>
       /\ \A t \in Probing : t.url \notin CarryingOf(control)
       /\ job.left \cap CarryingOf(control) = {}
  /\ job.for = "seeds" => job.left \cup job.healthy \cup {t.url : t \in Probing} \subseteq Seeds
  /\ job.for \in {"seeds", "control"} => control \subseteq Seeds

(* Only the ring and the reserve are opened for the transfer. *)
CarrierInv ==
  /\ \A t \in tasks \ Probing : t.url \in prepared.ring \cup prepared.reserve
  /\ prepared.reserve \cap Seeds = {}
  /\ reserve \subseteq prepared.reserve
  /\ carrying \subseteq CarryingOf(control)
  /\ ~pool.shut => control \cup carrying \cup job.healthy \subseteq pool.opened

OpenInv == SocketInv /\ ProbeInv /\ CarrierInv

LEMMA EnsuredSockets ==
  ASSUME TasksInv, SocketInv, NEW others \in SUBSET tasks, NEW who, NEW url, NEW at,
         Ensured(others, who, url, at),
         at = "open" => url \in pool.opened,
         at = "failed" => pool.shut,
         at = "connecting" => /\ ~pool.down /\ url \notin pool.opened
                              /\ \A t \in others : t.url = url => t.at # "connecting"
  PROVE  SocketInv' /\ pool'.opened = pool.opened /\ pool'.shut = pool.shut
<1>1. PICK n : n = [who |-> who, url |-> url, at |-> at]
  OBVIOUS
<1>2. tasks' = others \cup {n} /\ n.url = url /\ n.at = at
  BY <1>1 DEF Ensured
<1>3. /\ pool' = [shut |-> pool'.shut, down |-> pool'.down,
                  opened |-> pool'.opened, sockets |-> pool'.sockets]
      /\ pool'.opened = pool.opened /\ pool'.shut = pool.shut /\ pool'.down = pool.down
      /\ pool'.sockets = IF at = "connecting" THEN pool.sockets \cup {url} ELSE pool.sockets
  BY DEF Ensured, SocketInv
<1> QED
  BY <1>2, <1>3 DEF SocketInv

LEMMA EnsureSockets ==
  ASSUME TasksInv, SocketInv, NEW who, NEW url, Ensure(who, url)
  PROVE  SocketInv' /\ pool'.opened = pool.opened /\ pool'.shut = pool.shut
<1>1. PICK at : at = IF pool.shut THEN "failed"
                     ELSE IF url \in pool.opened \/ GateIsFree(url) THEN At(url) ELSE "gate"
  OBVIOUS
<1>2. Ensured(tasks, who, url, at)
  BY <1>1 DEF Ensure
<1>3. /\ at = "open" => url \in pool.opened
      /\ at = "failed" => pool.shut
      /\ at = "connecting" => ~pool.down /\ url \notin pool.opened /\ GateIsFree(url)
  BY <1>1 DEF At, SocketInv
<1> QED
  BY <1>2, <1>3, EnsuredSockets DEF GateIsFree

LEMMA OpenSockets ==
  ASSUME TasksInv, SocketInv, NEW t \in tasks, Open(t)
  PROVE  SocketInv' /\ pool.opened \subseteq pool'.opened /\ pool'.shut = pool.shut
<1>1. CASE PassGate(t)
  <2>1. PICK at : at = At(t.url)
    OBVIOUS
  <2>2. Ensured(tasks \ {t}, t.who, t.url, at)
    BY <1>1, <2>1 DEF PassGate
  <2>3. /\ at = "open" => t.url \in pool.opened
        /\ at = "failed" => pool.shut
        /\ at = "connecting" => ~pool.down /\ t.url \notin pool.opened
    BY <2>1 DEF At, SocketInv
  <2> QED
    BY <1>1, <2>2, <2>3, EnsuredSockets DEF PassGate, GateIsFree
<1>2. CASE Connect(t)
  <2>1. PICK at \in {"open", "failed"} :
          /\ tasks' = Replaced(t, at)
          /\ IF at = "open" THEN ~pool.down /\ pool' = [pool EXCEPT !.opened = @ \cup {t.url}]
             ELSE /\ pool.down \/ t.url \notin Reliable
                  /\ pool' = [pool EXCEPT !.sockets = @ \ {t.url}]
    BY <1>2 DEF Connect
  <2>2. PICK n : n = [t EXCEPT !.at = at]
    OBVIOUS
  <2>3. tasks' = (tasks \ {t}) \cup {n} /\ n.url = t.url /\ n.at = at /\ t.at = "connecting"
    BY <1>2, <2>1, <2>2 DEF Connect, Replaced, TasksInv
  <2>4. /\ pool' = [shut |-> pool'.shut, down |-> pool'.down,
                    opened |-> pool'.opened, sockets |-> pool'.sockets]
        /\ pool'.shut = pool.shut /\ pool'.down = pool.down
        /\ pool'.opened = IF at = "open" THEN pool.opened \cup {t.url} ELSE pool.opened
        /\ pool'.sockets = IF at = "open" THEN pool.sockets ELSE pool.sockets \ {t.url}
    BY <2>1 DEF SocketInv
  <2>5. \A v \in tasks \ {t} : v.at = "connecting" => v.url # t.url
    BY <2>3 DEF SocketInv
  <2> QED
    BY <2>1, <2>3, <2>4, <2>5 DEF SocketInv
<1> QED
  BY <1>1, <1>2 DEF Open

LEMMA CloseSockets ==
  ASSUME SocketInv, NEW urls, pool' = Close(urls), tasks' \subseteq tasks,
         \A t \in tasks' : t.at \in {"open", "connecting"} /\ ~pool.down => t.url \notin urls
  PROVE  SocketInv' /\ pool'.opened = pool.opened \ urls /\ pool'.shut = pool.shut
<1>1. /\ pool' = [shut |-> pool'.shut, down |-> pool'.down,
                  opened |-> pool'.opened, sockets |-> pool'.sockets]
      /\ pool'.shut = pool.shut /\ pool'.down = pool.down
      /\ pool'.opened = pool.opened \ urls /\ pool'.sockets = pool.sockets \ urls
  BY DEF Close, SocketInv
<1> QED
  BY <1>1 DEF SocketInv

LEMMA ShutSockets ==
  ASSUME SocketInv, pool' = Shut, tasks' \subseteq tasks
  PROVE  SocketInv' /\ pool'.shut
<1>1. /\ pool' = [shut |-> pool'.shut, down |-> pool'.down,
                  opened |-> pool'.opened, sockets |-> pool'.sockets]
      /\ pool'.shut /\ pool'.down = pool.down
      /\ pool'.opened = pool.opened /\ pool'.sockets = pool.sockets
  BY DEF Shut, SocketInv
<1> QED
  BY <1>1 DEF SocketInv

LEMMA SameSockets ==
  ASSUME SocketInv, pool' = pool, tasks' \subseteq tasks
  PROVE  SocketInv'
  BY DEF SocketInv

LEMMA DownSockets ==
  ASSUME SocketInv, ClientDown
  PROVE  SocketInv' /\ pool'.shut
<1>1. /\ pool' = [shut |-> pool'.shut, down |-> pool'.down,
                  opened |-> pool'.opened, sockets |-> pool'.sockets]
      /\ pool'.shut /\ pool'.down
  BY DEF ClientDown, SocketInv
<1> QED
  BY <1>1 DEF ClientDown, SocketInv
-----------------------------------------------------------------------------
(* Who is probed, and what stays open. *)

(* The job stays as it is, and so do its probes. *)
LEMMA ProbesFollow ==
  ASSUME ProbeInv, UNCHANGED <<job, control, prepared>>,
         \A n \in Probing' : \E t \in Probing : t.url = n.url,
         \A n, m \in Probing' : n.url = m.url => n = m
  PROVE  ProbeInv'
  BY DEF ProbeInv, CarryingOf

LEMMA FewerProbes ==
  ASSUME ProbeInv, UNCHANGED <<job, control, prepared>>, Probing' \subseteq Probing
  PROVE  ProbeInv'
  BY ProbesFollow DEF ProbeInv

LEMMA OpenOpen ==
  ASSUME TasksInv, OpenInv, NEW t \in tasks, Open(t), UNCHANGED reserve
  PROVE  OpenInv'
<1>1. SocketInv' /\ pool.opened \subseteq pool'.opened /\ pool'.shut = pool.shut
  BY OpenSockets DEF OpenInv
<1>2. UNCHANGED <<job, control, prepared, carrying>>
  BY DEF Open
<1>3. PICK n : tasks' = (tasks \ {t}) \cup {n} /\ n.who = t.who /\ n.url = t.url
  <2>1. CASE PassGate(t)
    <3>1. PICK n : n = [who |-> t.who, url |-> t.url, at |-> At(t.url)]
      OBVIOUS
    <3>2. n.who = t.who /\ n.url = t.url
      BY <3>1
    <3> QED
      BY <2>1, <3>1, <3>2 DEF PassGate, Ensured
  <2>2. CASE Connect(t)
    <3>1. PICK at : tasks' = Replaced(t, at)
      BY <2>2 DEF Connect
    <3>2. PICK n : n = [t EXCEPT !.at = at]
      OBVIOUS
    <3>3. n.who = t.who /\ n.url = t.url
      BY <3>2 DEF TasksInv
    <3> QED
      BY <3>1, <3>2, <3>3 DEF Replaced
  <2> QED
    BY <2>1, <2>2 DEF Open
<1>4. ProbeInv'
  BY <1>2, <1>3, ProbesFollow DEF OpenInv, ProbeInv, Probing
<1>5. CarrierInv'
  BY <1>1, <1>2, <1>3 DEF OpenInv, CarrierInv, Probing, CarryingOf
<1> QED
  BY <1>1, <1>4, <1>5 DEF OpenInv

LEMMA ProbeNextOpen ==
  ASSUME JobInv, TasksInv, OpenInv, ProbeNext \/ SweepNext, UNCHANGED reserve
  PROVE  OpenInv'
<1>1. PICK url \in job.left : job' = [job EXCEPT !.left = @ \ {url}] /\ Ensure("probe", url)
  BY DEF ProbeNext, SweepNext
<1>2. job.stage = "probe" /\ UNCHANGED <<control, prepared, carrying>>
  BY DEF ProbeNext, SweepNext, Foreground, Sweeping
<1>3. SocketInv' /\ pool'.opened = pool.opened /\ pool'.shut = pool.shut
  BY <1>1, EnsureSockets DEF OpenInv
<1>4. PICK n : tasks' = tasks \cup {n} /\ n.who = "probe" /\ n.url = url
  <2>1. PICK at : Ensured(tasks, "probe", url, at)
    BY <1>1 DEF Ensure
  <2>2. PICK n : n = [who |-> "probe", url |-> url, at |-> at]
    OBVIOUS
  <2> QED
    BY <2>1, <2>2 DEF Ensured
<1>5. /\ job'.left = job.left \ {url} /\ job'.for = job.for /\ job'.stage = job.stage
      /\ job'.checked = job.checked /\ job'.healthy = job.healthy
  BY <1>1 DEF JobInv, JobShape
<1>6. Probing' = Probing \cup {n}
  BY <1>4 DEF Probing
<1>7. ProbeInv'
  BY <1>2, <1>4, <1>5, <1>6 DEF OpenInv, ProbeInv, CarryingOf
<1>8. CarrierInv'
  BY <1>2, <1>3, <1>4, <1>5, <1>6 DEF OpenInv, CarrierInv, CarryingOf
<1> QED
  BY <1>3, <1>7, <1>8 DEF OpenInv

(* Nothing that carries the transfer is probed. *)
LEMMA ProbesApart ==
  ASSUME JobInv, TasksInv, RingInv, ProbeInv, NEW t \in Probing, job.stage = "probe"
  PROVE  t.url \notin CarryingOf(control)
<1>1. Probable(t.url)
  BY DEF TasksInv, Probing
<1> QED
  BY <1>1 DEF JobInv, RingInv, ProbeInv, CarryingOf, Probable

(* A relay whose probe is over may be closed: nobody else is using it. *)
LEMMA ProbeCloses ==
  ASSUME JobInv, TasksInv, RingInv, OpenInv, NEW t \in Probing, job.stage = "probe",
         tasks' = tasks \ {t}, pool' = Close({t.url})
  PROVE  SocketInv' /\ pool'.opened = pool.opened \ {t.url} /\ pool'.shut = pool.shut
<1>1. t.url \notin CarryingOf(control)
  BY ProbesApart DEF OpenInv
<1>2. \A v \in tasks' : v.url # t.url
  BY <1>1 DEF OpenInv, ProbeInv, CarrierInv, CarryingOf
<1> QED
  BY <1>2, CloseSockets DEF OpenInv

LEMMA ProbeEndsOpen ==
  ASSUME JobInv, TasksInv, RingInv, OpenInv, NEW t \in tasks, ProbeEnds(t) \/ SweepProbed(t),
         UNCHANGED reserve
  PROVE  OpenInv'
<1>1. /\ t \in Probing /\ job.stage = "probe" /\ tasks' = tasks \ {t}
      /\ t.at \in {"open", "failed"} /\ UNCHANGED <<control, prepared, carrying>>
  BY DEF ProbeEnds, SweepProbed, Foreground, Sweeping
<1>2. PICK keep \in BOOLEAN :
        /\ keep => t.at = "open"
        /\ pool' = Close({t.url}) \/ ((keep \/ pool.shut) /\ pool' = pool)
        /\ job'.left = job.left /\ job'.for = job.for /\ job'.stage = job.stage
        /\ job'.checked \subseteq job.checked \cup {t.url}
        /\ job'.healthy \subseteq job'.checked
        /\ job.for = "sweep" => ~keep
        /\ job'.healthy \subseteq job.healthy \cup (IF keep THEN {t.url} ELSE {})
        /\ keep => pool' = pool
  <2>1. CASE ProbeEnds(t)
    <3>1. PICK passes \in Verdicts(t) :
            LET keep == passes /\ ~TargetMet IN
            /\ job' = [job EXCEPT !.checked = @ \cup {t.url},
                                  !.passed = IF passes THEN @ \cup {t.url} ELSE @,
                                  !.healthy = IF keep THEN @ \cup {t.url} ELSE @]
            /\ pool' = IF keep THEN pool ELSE Close({t.url})
      BY <2>1 DEF ProbeEnds
    <3>2. PICK keep \in BOOLEAN : keep <=> passes /\ ~TargetMet
      OBVIOUS
    <3>3. (keep => t.at = "open") /\ job.for # "sweep"
      BY <2>1, <3>1, <3>2 DEF Verdicts, ProbeEnds, Foreground
    <3>4. pool' = IF keep THEN pool ELSE Close({t.url})
      BY <3>1, <3>2
    <3>5. /\ job'.left = job.left /\ job'.for = job.for /\ job'.stage = job.stage
          /\ job'.checked = job.checked \cup {t.url}
          /\ job'.healthy = IF keep THEN job.healthy \cup {t.url} ELSE job.healthy
      BY <3>1, <3>2 DEF JobInv, JobShape
    <3> QED
      BY <3>3, <3>4, <3>5 DEF OpenInv, ProbeInv
  <2>2. CASE SweepProbed(t)
    <3>1. CASE pool.shut
      BY <2>2, <3>1 DEF SweepProbed, Counts, OpenInv, ProbeInv
    <3>2. CASE ~pool.shut
      <4>1. job.for = "sweep" /\ pool' = Close({t.url})
        BY <2>2, <3>2 DEF SweepProbed, Counts, Sweeping
      <4>2. PICK p, c : job' = [job EXCEPT !.passed = p, !.checked = c]
                        /\ c \subseteq job.checked \cup {t.url}
        BY <2>2, <3>2 DEF SweepProbed, Counts
      <4>3. /\ job'.left = job.left /\ job'.for = job.for /\ job'.stage = job.stage
            /\ job'.checked = c /\ job'.healthy = job.healthy
        BY <4>2 DEF JobInv, JobShape
      <4> QED
        BY <4>1, <4>2, <4>3 DEF OpenInv, ProbeInv
    <3> QED
      BY <3>1, <3>2
  <2> QED
    BY <2>1, <2>2
<1>3. Probing' = Probing \ {t}
  BY <1>1 DEF Probing
<1>4. ProbeInv'
  BY <1>1, <1>2, <1>3 DEF OpenInv, ProbeInv, CarryingOf
<1>5. t.url \notin CarryingOf(control) \cup job.healthy
  BY <1>1, ProbesApart DEF OpenInv, ProbeInv
<1>6. SocketInv' /\ pool'.shut = pool.shut
      /\ pool'.opened = IF pool' = pool THEN pool.opened ELSE pool.opened \ {t.url}
  BY <1>1, <1>2, ProbeCloses, SameSockets DEF OpenInv
<1>7. CarrierInv'
  <2>1. ~pool.shut /\ t.at = "open" => t.url \in pool.opened
    BY <1>1 DEF OpenInv, SocketInv
  <2> QED
    BY <1>1, <1>2, <1>3, <1>5, <1>6, <2>1 DEF OpenInv, CarrierInv, CarryingOf
<1> QED
  BY <1>4, <1>6, <1>7 DEF OpenInv

(* Where no probe is underway the job may go on to another stage. *)
LEMMA StageOpen ==
  ASSUME JobInv, OpenInv, NEW stage, job' = [job EXCEPT !.stage = stage], Probing = {},
         job.for # "none",
         stage \in {"merge", "record"} => job.for \in {"control", "ring"},
         stage \in {"discover", "merge", "list"} => job.stage \in {"discover", "merge", "list"},
         stage \in {"probe", "list"} /\ job.for = "sweep" => job.stage = "list",
         UNCHANGED <<pool, tasks, control, prepared, carrying, reserve>>
  PROVE  OpenInv'
<1>1. /\ job'.left = job.left /\ job'.for = job.for /\ job'.stage = stage
      /\ job'.checked = job.checked /\ job'.healthy = job.healthy
  BY DEF JobInv, JobShape
<1>2. Probing' = {}
  BY DEF Probing
<1>3. SocketInv'
  BY SameSockets DEF OpenInv
<1>4. ProbeInv'
  BY <1>1, <1>2 DEF OpenInv, ProbeInv, CarryingOf
<1>5. CarrierInv'
  BY <1>1, <1>2 DEF OpenInv, CarrierInv, CarryingOf
<1> QED
  BY <1>3, <1>4, <1>5 DEF OpenInv

LEMMA NoneProbed ==
  ASSUME TasksInv, job.stage # "probe"
  PROVE  Probing = {}
  BY DEF TasksInv, Probing

LEMMA StagesOpen ==
  ASSUME JobInv, TasksInv, OpenInv, FullSizeProbed \/ TakeRing \/ SweepEnds, UNCHANGED reserve
  PROVE  OpenInv'
<1>1. Probing = {}
  BY NoneProbed DEF FullSizeProbed, PassOver, TakeRing, SweepEnds
<1>2. PICK stage \in {"record", "ring", "ended"} :
        /\ job' = [job EXCEPT !.stage = stage]
        /\ stage = "record" => job.for \in {"control", "ring"}
        /\ job.stage # "ended"
  BY DEF FullSizeProbed, PassOver, Foreground, TakeRing, SweepEnds, Sweeping
<1>3. UNCHANGED <<pool, tasks, control, prepared, carrying>>
  BY DEF FullSizeProbed, TakeRing, SweepEnds
<1>4. job.for # "none"
  BY <1>2 DEF OpenInv, ProbeInv
<1> QED
  BY <1>1, <1>2, <1>3, <1>4, StageOpen

(* The seeds that carry nothing are closed. *)
LEMMA DiscoverOpen ==
  ASSUME JobInv, TasksInv, RingInv, OpenInv, Discover \/ Enumerate, UNCHANGED reserve
  PROVE  OpenInv'
<1>1. /\ job.stage = "discover" /\ Probing = {}
      /\ UNCHANGED <<tasks, control, prepared, carrying>> /\ pool' = Close(Seeds \ control)
  BY NoneProbed DEF Discover, Enumerate
<1>2. \A t \in tasks : t.url \notin Seeds
  BY <1>1 DEF OpenInv, CarrierInv, RingInv
<1>3. SocketInv' /\ pool'.opened = pool.opened \ (Seeds \ control) /\ pool'.shut = pool.shut
  BY <1>1, <1>2, CloseSockets DEF OpenInv
<1>4. /\ job.checked = {} /\ job.healthy = {} /\ job.for \in {"control", "ring", "sweep"}
  BY <1>1 DEF OpenInv, ProbeInv, JobInv
<1>5. /\ job'.for = job.for /\ job'.checked = {} /\ job'.healthy = {}
      /\ job'.stage \in {"merge", "list", "ended"}
      /\ job'.stage = "merge" => job.for # "sweep"
      /\ job'.stage = "list" => job'.left \cap CarryingOf(control) = {}
  <2>1. CASE Discover
    <3>1. job' = [job EXCEPT !.stage = "merge"] /\ job.for # "sweep"
      BY <2>1 DEF Discover
    <3> QED
      BY <1>4, <3>1 DEF JobInv, JobShape
  <2>2. CASE Enumerate
    <3>1. PICK urls : /\ urls \cap CarryingOf(control) = {}
                      /\ \/ job' = [job EXCEPT !.stage = "ended"]
                         \/ job' = [job EXCEPT !.stage = "list", !.left = urls]
      BY <2>2 DEF Enumerate
    <3> QED
      BY <1>4, <3>1 DEF JobInv, JobShape
  <2> QED
    BY <2>1, <2>2
<1>6. Probing' = {}
  BY <1>1 DEF Probing
<1>7. ProbeInv'
  BY <1>1, <1>4, <1>5, <1>6 DEF OpenInv, ProbeInv, CarryingOf
<1>8. CarrierInv'
  BY <1>1, <1>3, <1>4, <1>5, <1>6 DEF OpenInv, CarrierInv, CarryingOf, RingInv
<1> QED
  BY <1>3, <1>7, <1>8 DEF OpenInv

LEMMA SeedsProbedOpen ==
  ASSUME JobInv, RingInv, OpenInv, SeedsProbed, UNCHANGED reserve
  PROVE  OpenInv'
<1>1. /\ Probing = {} /\ job.for = "seeds" /\ control' = job.healthy /\ control = {}
      /\ UNCHANGED <<pool, tasks, prepared, carrying>>
  BY DEF SeedsProbed, PassOver, JobInv
<1>2. PICK for, target : for \in {"ring", "control"} /\ job' = Job(for, "discover", {}, target)
  BY DEF SeedsProbed, DiscoverRing
<1>3. /\ job'.for \in {"ring", "control"} /\ job'.stage = "discover" /\ job'.left = {}
      /\ job'.checked = {} /\ job'.healthy = {}
  BY <1>2 DEF Job
<1>4. Probing' = {}
  BY <1>1 DEF Probing
<1>5. SocketInv'
  BY <1>1, SameSockets DEF OpenInv
<1>6. ProbeInv'
  BY <1>1, <1>3, <1>4 DEF OpenInv, ProbeInv
<1>7. CarrierInv'
  BY <1>1, <1>3, <1>4 DEF OpenInv, CarrierInv, CarryingOf
<1> QED
  BY <1>5, <1>6, <1>7 DEF OpenInv

(* The ring is cut from what nothing has been opened for yet. *)
LEMMA RingTakenOpen ==
  ASSUME JobInv, TasksInv, RingInv, OpenInv, NEW u, RingTaken(u),
         UNCHANGED <<tasks, carrying, reserve>>
  PROVE  OpenInv'
<1>1. job.for = "ring" /\ job.stage = "ring" /\ control' = control /\ Probing = {}
  BY NoneProbed DEF RingTaken, JobInv
<1>2. PICK ring \in Sized(Healthy, RingCount) :
        \E rest \in Sized(Healthy \ ring, ReserveCount) :
          prepared' = [ready |-> TRUE, ring |-> ring, reserve |-> rest]
  BY DEF RingTaken
<1>3. PICK rest \in Sized(Healthy \ ring, ReserveCount) :
        prepared' = [ready |-> TRUE, ring |-> ring, reserve |-> rest]
  BY <1>2
<1>4. prepared'.ring = ring /\ prepared'.reserve = rest /\ rest \subseteq Healthy
      /\ pool' = Close(Healthy \ ring)
  BY <1>3 DEF Sized, RingTaken
<1>5. Healthy \cap (Seeds \cup control) = {}
  BY <1>1 DEF Healthy, JobInv, Probable
<1>6. tasks = {} /\ carrying \subseteq control /\ reserve = {}
  BY <1>1 DEF OpenInv, CarrierInv, RingInv, CarryingOf
<1>7. SocketInv' /\ pool'.opened = pool.opened \ (Healthy \ ring) /\ pool'.shut = pool.shut
  BY <1>4, <1>6, CloseSockets DEF OpenInv
<1>8. job' = Job("sweep", "discover", job.left, 0)
  BY DEF RingTaken
<1>9. /\ job'.for = "sweep" /\ job'.stage = "discover"
      /\ job'.checked = {} /\ job'.healthy = {}
  BY <1>8 DEF Job
<1>10. ProbeInv'
  BY <1>6, <1>9 DEF ProbeInv, Probing
<1>11. CarrierInv'
  BY <1>1, <1>4, <1>5, <1>6, <1>7, <1>9 DEF OpenInv, CarrierInv, Probing, CarryingOf
<1> QED
  BY <1>7, <1>10, <1>11 DEF OpenInv

LEMMA ControlResolvedOpen ==
  ASSUME JobInv, TasksInv, RingInv, OpenInv, NEW u, ControlResolved(u),
         UNCHANGED <<tasks, carrying, reserve>>
  PROVE  OpenInv'
<1>1. /\ job.for = "control" /\ control' = control \cup job.healthy /\ prepared' = prepared
      /\ Probing = {}
  BY NoneProbed DEF ControlResolved
<1>2. Probing' = {}
  BY <1>1 DEF Probing
<1>3. PICK for, stage, left, target :
        /\ for \in {"none", "ring"}
        /\ job' = Job(for, stage, left, target)
        /\ for = "none" => stage = "ended" /\ pool' = Shut
        /\ for = "ring" => stage = "probe" /\ pool' = pool
  BY DEF ControlResolved, PrepareRing
<1>4. /\ job'.for = for /\ job'.stage = stage /\ job'.left = left
      /\ job'.checked = {} /\ job'.healthy = {}
  BY <1>3 DEF Job
<1>5. SocketInv' /\ (for = "none" => pool'.shut)
  BY <1>3, ShutSockets, SameSockets DEF OpenInv
<1>6. ProbeInv'
  <2>1. job'.for \in {"none", "ring"} /\ (job'.for = "none" => job'.stage = "ended")
        /\ job'.stage \in {"ended", "probe"}
    BY <1>3, <1>4
  <2> QED
    BY <1>2, <1>4, <2>1 DEF ProbeInv
<1>7. CarrierInv'
  BY <1>1, <1>2, <1>3, <1>4, <1>5 DEF OpenInv, CarrierInv, CarryingOf
<1> QED
  BY <1>5, <1>6, <1>7 DEF OpenInv

LEMMA GoesOnOpen ==
  ASSUME JobInv, TasksInv, RingInv, OpenInv, NEW u \in updates, UpdateEnds(u), UNCHANGED reserve
  PROVE  OpenInv'
<1>1. UNCHANGED <<tasks, carrying>> /\ UNCHANGED Probing
  BY DEF UpdateEnds, Probing
<1>2. CASE ~Awaited(u)
  <2>1. UNCHANGED <<pool, job, control, prepared>>
    BY <1>2 DEF UpdateEnds
  <2>2. SocketInv' /\ ProbeInv'
    BY <1>1, <2>1, SameSockets, FewerProbes DEF OpenInv
  <2> QED
    BY <1>1, <2>1, <2>2 DEF OpenInv, CarrierInv, CarryingOf
<1>3. CASE Awaited(u)
  <2>1. Probing = {}
    BY <1>3, NoneProbed DEF Awaited
  <2>2. CASE Merged(u)
    <3>1. /\ UNCHANGED <<pool, control, prepared>> /\ job.stage = "merge"
          /\ job' = [job EXCEPT !.stage = "probe",
                                !.left = Candidates(u.cache, u.change.found) \ control]
      BY <2>2 DEF Merged
    <3>2. /\ job'.for = job.for /\ job'.stage = "probe" /\ job'.checked = job.checked
          /\ job'.healthy = job.healthy /\ job.checked = {} /\ job.for \in {"control", "ring"}
      BY <3>1 DEF JobInv, JobShape, OpenInv, ProbeInv
    <3>3. SocketInv'
      BY <1>1, <3>1, SameSockets DEF OpenInv
    <3>4. ProbeInv'
      BY <1>1, <2>1, <3>1, <3>2 DEF OpenInv, ProbeInv
    <3>5. CarrierInv'
      BY <1>1, <3>1, <3>2 DEF OpenInv, CarrierInv, CarryingOf
    <3> QED
      BY <3>3, <3>4, <3>5 DEF OpenInv
  <2>3. CASE RingProbed(u) \/ SweepListed(u)
    <3>1. PICK stage \in {"ended", "take", "probe"} :
            /\ job' = [job EXCEPT !.stage = stage]
            /\ stage = "probe" => job.stage = "list"
      BY <2>3 DEF RingProbed, SweepListed
    <3>2. job.for # "none" /\ UNCHANGED <<pool, control, prepared>>
      BY <2>3 DEF RingProbed, SweepListed
    <3> QED
      BY <1>1, <2>1, <3>1, <3>2, StageOpen
  <2> QED
    BY <1>1, <1>3, <2>2, <2>3, RingTakenOpen, ControlResolvedOpen DEF UpdateEnds, GoesOn
<1> QED
  BY <1>2, <1>3

LEMMA DiscardOpen ==
  ASSUME TasksInv, OpenInv, NEW to, Discard(to), UNCHANGED reserve
  PROVE  OpenInv'
<1>1. pool' = Shut /\ UNCHANGED <<control, prepared, carrying>> /\ tasks' \subseteq tasks
  BY DEF Discard
<1>2. SocketInv' /\ pool'.shut
  BY <1>1, ShutSockets DEF OpenInv
<1>3. ProbeInv'
  <2>1. CASE job.for = "ring"
    <3>1. job' = Job("none", "ended", {}, 0) /\ Probing' = {}
      BY <2>1 DEF Discard, Probing
    <3>2. /\ job'.for = "none" /\ job'.stage = "ended" /\ job'.left = {}
          /\ job'.checked = {} /\ job'.healthy = {}
      BY <3>1 DEF Job
    <3> QED
      BY <3>1, <3>2 DEF ProbeInv
  <2>2. CASE job.for # "ring"
    <3>1. UNCHANGED <<job, tasks>>
      BY <2>2 DEF Discard
    <3> QED
      BY <1>1, <3>1, FewerProbes DEF OpenInv, Probing
  <2> QED
    BY <2>1, <2>2
<1>4. CarrierInv'
  BY <1>1, <1>2 DEF OpenInv, CarrierInv, CarryingOf, Probing
<1> QED
  BY <1>2, <1>3, <1>4 DEF OpenInv

(* Uploaders and promotions open a relay of the ring or a spare one. *)
LEMMA EnsureOpen ==
  ASSUME TasksInv, OpenInv, NEW who, NEW url, who # "probe", Ensure(who, url),
         url \in prepared.ring \cup prepared.reserve, reserve' \subseteq reserve,
         UNCHANGED <<job, control, prepared, carrying>>
  PROVE  OpenInv'
<1>1. SocketInv' /\ pool'.opened = pool.opened /\ pool'.shut = pool.shut
  BY EnsureSockets DEF OpenInv
<1>2. PICK n : tasks' = tasks \cup {n} /\ n.who = who /\ n.url = url
  <2>1. PICK at : Ensured(tasks, who, url, at)
    BY DEF Ensure
  <2>2. PICK n : n = [who |-> who, url |-> url, at |-> at]
    OBVIOUS
  <2> QED
    BY <2>1, <2>2 DEF Ensured
<1>3. Probing' = Probing
  BY <1>2 DEF Probing
<1>4. ProbeInv'
  BY <1>3, FewerProbes DEF OpenInv
<1>5. CarrierInv'
  BY <1>1, <1>2, <1>3 DEF OpenInv, CarrierInv, CarryingOf
<1> QED
  BY <1>1, <1>4, <1>5 DEF OpenInv

(* A task ends, and what it has opened is the transfer's. *)
LEMMA CarriedOpen ==
  ASSUME TasksInv, OpenInv, tasks' \subseteq tasks, Probing' = Probing,
         UNCHANGED <<pool, job, control, prepared>>, reserve' \subseteq prepared.reserve,
         carrying' \subseteq carrying \cup prepared.ring \cup prepared.reserve,
         ~pool.shut => carrying' \subseteq carrying \cup pool.opened
  PROVE  OpenInv'
<1>1. SocketInv'
  BY SameSockets DEF OpenInv
<1>2. ProbeInv'
  BY FewerProbes DEF OpenInv
<1>3. CarrierInv'
  BY DEF OpenInv, CarrierInv, CarryingOf
<1> QED
  BY <1>1, <1>2, <1>3 DEF OpenInv

LEMMA UploadOpen ==
  ASSUME TasksInv, OpenInv, NEW w \in Uploaders, Upload(w)
  PROVE  OpenInv'
<1>1. UNCHANGED <<job, control, prepared, reserve>> /\ w # "probe"
  BY PoolAssumption DEF Upload, controlVars
<1>2. PICK url \in prepared.ring \ carrying :
        \/ /\ url \in pool.opened /\ carrying' = carrying \cup {url} /\ UNCHANGED <<tasks, pool>>
        \/ Ensure(w, url) /\ UNCHANGED carrying
  BY DEF Upload
<1>3. CASE Ensure(w, url) /\ UNCHANGED carrying
  BY <1>1, <1>2, <1>3, EnsureOpen
<1>4. CASE url \in pool.opened /\ carrying' = carrying \cup {url} /\ UNCHANGED <<tasks, pool>>
  <2>1. reserve' \subseteq prepared.reserve /\ Probing' = Probing
    BY <1>1, <1>4 DEF OpenInv, CarrierInv, Probing
  <2> QED
    BY <1>1, <1>2, <1>4, <2>1, CarriedOpen
<1> QED
  BY <1>2, <1>3, <1>4

LEMMA PromoteOpen ==
  ASSUME TasksInv, OpenInv, Promote
  PROVE  OpenInv'
<1>1. PICK url \in reserve :
        /\ reserve' = reserve \ {url}
        /\ UNCHANGED <<tasks, pool>> \/ Ensure("promote", url)
  BY DEF Promote
<1>2. UNCHANGED <<job, control, prepared, carrying>> /\ reserve \subseteq prepared.reserve
  BY DEF Promote, OpenInv, CarrierInv
<1>3. CASE Ensure("promote", url)
  BY <1>1, <1>2, <1>3, EnsureOpen
<1>4. CASE UNCHANGED <<tasks, pool>>
  BY <1>1, <1>2, <1>4, CarriedOpen DEF Probing
<1> QED
  BY <1>1, <1>3, <1>4

LEMMA TakesOpen ==
  ASSUME TasksInv, OpenInv, NEW t \in tasks, Uploads(t) \/ Promoted(t)
  PROVE  OpenInv'
<1>1. /\ tasks' = tasks \ {t} /\ t.who # "probe"
      /\ carrying' = IF t.at = "open" THEN carrying \cup {t.url} ELSE carrying
      /\ UNCHANGED <<pool, job, control, prepared, reserve>>
  BY PoolAssumption DEF Uploads, Promoted, controlVars
<1>2. t.url \in prepared.ring \cup prepared.reserve /\ reserve \subseteq prepared.reserve
  BY <1>1 DEF OpenInv, CarrierInv, Probing
<1>3. ~pool.shut /\ t.at = "open" => t.url \in pool.opened
  BY DEF OpenInv, SocketInv
<1>4. Probing' = Probing
  BY <1>1 DEF Probing
<1> QED
  BY <1>1, <1>2, <1>3, <1>4, CarriedOpen

LEMMA TransferEndsOpen ==
  ASSUME TasksInv, OpenInv, TransferEnds, Gone
  PROVE  OpenInv'
<1>1. /\ pool' = Shut /\ tasks' = Probing /\ carrying' = {} /\ reserve' = {}
      /\ UNCHANGED <<job, control, prepared>>
  BY DEF TransferEnds, Gone
<1>2. tasks' \subseteq tasks /\ Probing' = Probing
  BY <1>1 DEF Probing
<1>3. SocketInv' /\ pool'.shut
  BY <1>1, <1>2, ShutSockets DEF OpenInv
<1>4. ProbeInv'
  BY <1>1, <1>2, FewerProbes DEF OpenInv
<1>5. CarrierInv'
  BY <1>1, <1>2, <1>3 DEF OpenInv, CarrierInv
<1> QED
  BY <1>3, <1>4, <1>5 DEF OpenInv

LEMMA NextOpen ==
  ASSUME IInv, OpenInv, [Next]_vars
  PROVE  OpenInv'
<1> USE DEF IInv
<1>1. CASE /\ UNCHANGED <<pool, tasks, job, control, prepared, carrying>>
           /\ reserve' \subseteq prepared.reserve
  BY <1>1, CarriedOpen DEF Probing
<1>2. reserve \subseteq prepared.reserve
  BY DEF OpenInv, CarrierInv
<1>3. CASE PoolStep
  <2>1. UNCHANGED reserve
    BY <1>3 DEF PoolStep, controlVars
  <2>2. CASE ClientDown
    <3>1. UNCHANGED <<tasks, job, control, prepared, carrying>> /\ Probing' = Probing
      BY <2>2 DEF ClientDown, Probing
    <3>2. SocketInv' /\ pool'.shut
      BY <2>2, DownSockets DEF OpenInv
    <3>3. ProbeInv'
      BY <3>1, FewerProbes DEF OpenInv
    <3> QED
      BY <2>1, <3>1, <3>2, <3>3 DEF OpenInv, CarrierInv, CarryingOf
  <2>3. ASSUME NEW u \in updates, ReadsCache(u) PROVE OpenInv'
    BY <1>1, <1>2, <2>1, <2>3 DEF ReadsCache, poolVars
  <2> QED
    BY <1>3, <2>1, <2>2, <2>3, OpenOpen, ProbeNextOpen, ProbeEndsOpen, StagesOpen, DiscoverOpen,
       SeedsProbedOpen, GoesOnOpen DEF PoolStep
<1>4. CASE TransferStep
  <2>1. CASE AdoptRing \/ HearDemotion \/ Wait \/ Announce
    BY <1>1, <1>2, <2>1 DEF AdoptRing, HearDemotion, Wait, Announce, poolVars
  <2> QED
    BY <1>4, <2>1, UploadOpen, PromoteOpen, TakesOpen, TransferEndsOpen
    DEF TransferStep, NoRingFound
<1>5. CASE FallBack
  <2>1. UNCHANGED reserve
    BY <1>5 DEF FallBack
  <2>2. CASE carrying' = control /\ UNCHANGED <<pool, job, tasks, control, prepared>>
    <3>1. SocketInv' /\ ProbeInv'
      BY <2>2, SameSockets, FewerProbes DEF OpenInv, Probing
    <3>2. CarrierInv'
      BY <2>1, <2>2 DEF OpenInv, CarrierInv, CarryingOf, Probing
    <3> QED
      BY <3>1, <3>2 DEF OpenInv
  <2> QED
    BY <1>5, <2>1, <2>2, DiscardOpen DEF FallBack
<1>6. ASSUME NEW url, Demote(url) PROVE OpenInv'
  BY <1>1, <1>2, <1>6 DEF Demote, poolVars
<1>7. CASE (DirectRouteOpens \/ OtherProcess) /\ UNCHANGED controlVars
  BY <1>1, <1>2, <1>7, DiscardOpen DEF DirectRouteOpens, OtherProcess, poolVars, controlVars
<1>8. CASE UNCHANGED vars
  BY <1>1, <1>2, <1>8 DEF vars, poolVars, controlVars
<1> QED
  BY <1>3, <1>4, <1>5, <1>6, <1>7, <1>8, TransferEndsOpen DEF Next

LEMMA OpenHolds == Spec => []OpenInv
<1>1. Init => OpenInv
  <2> SUFFICES ASSUME Init PROVE OpenInv
    OBVIOUS
  <2>1. /\ pool = [shut |-> FALSE, down |-> FALSE, opened |-> {}, sockets |-> {}]
        /\ tasks = {} /\ control = {} /\ carrying = {} /\ reserve = {}
        /\ prepared.reserve = {} /\ job = Job("seeds", "probe", Seeds, ControlCount)
    BY DEF Init, PoolInit, NoRing
  <2>2. /\ job.for = "seeds" /\ job.stage = "probe" /\ job.left = Seeds
        /\ job.checked = {} /\ job.healthy = {} /\ Probing = {}
    BY <2>1 DEF Job, Probing
  <2>3. SocketInv
    BY <2>1 DEF SocketInv
  <2>4. ProbeInv
    BY <2>1, <2>2 DEF ProbeInv
  <2>5. CarrierInv
    BY <2>1, <2>2 DEF CarrierInv
  <2> QED
    BY <2>3, <2>4, <2>5 DEF OpenInv
<1>2. IInv /\ OpenInv /\ [Next]_vars => OpenInv'
  BY NextOpen
<1> QED
  BY <1>1, <1>2, Invariance, PTL DEF Spec

(* Until the shutdown every relay the offer names, and every relay the transfer
   has opened to store or signal on, keeps its socket (FilePool::ensure and
   close, sweep). *)
THEOREM CarriersKept == Spec => []CarriersStayOpen
<1>1. OpenInv => CarriersStayOpen
  BY DEF OpenInv, SocketInv, CarrierInv, CarriersStayOpen
<1> QED
  BY <1>1, OpenHolds, PTL

-----------------------------------------------------------------------------
(* What the shutdown interrupts. *)

(* The pool is shut down once the route is decided or given up, and what has
   not come to its end by then is the sweep, or an orphan. *)
RouteInv ==
  /\ pool.shut => route \in {"direct", "none"}
  /\ orphan => pool.shut
  /\ route # "undecided" => job.for \notin {"seeds", "control"}
  /\ pool.shut /\ job.for # "sweep" /\ job.stage # "ended" => orphan

(* Nothing holds a failure against a relay that takes everything. *)
Blameless ==
  /\ \A r \in Reliable : file.relays[r].fails = 0
  /\ \A u \in updates : u.change.failed \cap Reliable = {}
  /\ (job.checked \ job.passed) \cap Reliable = {}

Shaped(cache) ==
  /\ cache = [relays |-> cache.relays, listed |-> cache.listed]
  /\ cache.relays = [r \in Relays |-> cache.relays[r]]
  /\ \A r \in Relays :
       cache.relays[r] = [known |-> cache.relays[r].known, fails |-> cache.relays[r].fails,
                          proven |-> cache.relays[r].proven]

BlameInv ==
  /\ Shaped(file)
  /\ \A u \in updates : u.change.op \in {"merge", "probes", "list", "ring"}
  /\ ~orphan => Blameless

LEMMA DiscoveredBlames ==
  ASSUME NEW cache, Shaped(cache), NEW urls
  PROVE  LET c == RecordDiscovered(cache, urls) IN
         Shaped(c) /\ \A r \in Relays : c.relays[r].fails = cache.relays[r].fails
<1>1. PICK c : c = RecordDiscovered(cache, urls)
  OBVIOUS
<1>2. PICK m : m = [r \in Relays |-> IF r \in urls THEN [cache.relays[r] EXCEPT !.known = TRUE]
                                     ELSE cache.relays[r]]
  OBVIOUS
<1>3. c = [relays |-> m, listed |-> cache.listed]
  BY <1>1, <1>2 DEF RecordDiscovered, Shaped
<1>4. \A r \in Relays :
        /\ m[r] = [known |-> m[r].known, fails |-> m[r].fails, proven |-> m[r].proven]
        /\ m[r].fails = cache.relays[r].fails
  <2> TAKE r \in Relays
  <2>1. PICK e : e = cache.relays[r]
    OBVIOUS
  <2>2. e = [known |-> e.known, fails |-> e.fails, proven |-> e.proven]
    BY <2>1 DEF Shaped
  <2>3. m[r] = IF r \in urls THEN [e EXCEPT !.known = TRUE] ELSE e
    BY <1>2, <2>1
  <2> QED
    BY <2>1, <2>2, <2>3
<1>5. c.relays = m /\ c.listed = cache.listed /\ m = [r \in Relays |-> m[r]]
  BY <1>2, <1>3
<1>6. Shaped(c) /\ \A r \in Relays : c.relays[r].fails = cache.relays[r].fails
  BY <1>3, <1>4, <1>5 DEF Shaped
<1> QED
  BY <1>1, <1>6

LEMMA ProbesBlame ==
  ASSUME NEW cache, Shaped(cache), NEW passed, NEW failed
  PROVE  LET c == RecordProbes(cache, passed, failed) IN
         /\ Shaped(c)
         /\ \A r \in Relays \ failed : c.relays[r].fails \in {0, cache.relays[r].fails}
<1>1. PICK c : c = RecordProbes(cache, passed, failed)
  OBVIOUS
<1>2. PICK m : m = [r \in Relays |-> IF r \in passed THEN Proven
                                     ELSE IF r \in failed THEN Failed(cache.relays[r])
                                     ELSE cache.relays[r]]
  OBVIOUS
<1>3. c = [relays |-> m, listed |-> cache.listed]
  BY <1>1, <1>2 DEF RecordProbes, Shaped
<1>4. \A r \in Relays :
        /\ m[r] = [known |-> m[r].known, fails |-> m[r].fails, proven |-> m[r].proven]
        /\ r \notin failed => m[r].fails \in {0, cache.relays[r].fails}
  BY <1>2 DEF Shaped, Proven, Failed
<1>5. c.relays = m /\ c.listed = cache.listed /\ m = [r \in Relays |-> m[r]]
  BY <1>2, <1>3
<1>6. Shaped(c) /\ \A r \in Relays \ failed : c.relays[r].fails \in {0, cache.relays[r].fails}
  BY <1>3, <1>4, <1>5 DEF Shaped
<1> QED
  BY <1>1, <1>6

(* A change leaves the relays alone that it does not name as failed. *)
LEMMA AppliedBlames ==
  ASSUME NEW cache, Shaped(cache), NEW change, change.op \in {"merge", "probes", "list", "ring"}
  PROVE  /\ Shaped(Applied(change, cache))
         /\ \A r \in Relays \ change.failed :
              Applied(change, cache).relays[r].fails \in {0, cache.relays[r].fails}
<1>1. CASE change.op = "merge"
  <2>1. PICK c : c = RecordDiscovered(cache, change.found \cup Cached(cache))
    OBVIOUS
  <2>2. PICK d : d = MergeCandidates(cache, change.found)
    OBVIOUS
  <2>3. Shaped(c) /\ \A r \in Relays : c.relays[r].fails = cache.relays[r].fails
    BY <2>1, DiscoveredBlames
  <2>4. PICK l : l = Candidates(cache, change.found)
    OBVIOUS
  <2>5. d = [c EXCEPT !.listed = l]
    BY <2>1, <2>2, <2>4 DEF MergeCandidates
  <2>6. d = [relays |-> c.relays, listed |-> l]
    BY <2>3, <2>5 DEF Shaped
  <2>7. Shaped(d) /\ \A r \in Relays : d.relays[r].fails = cache.relays[r].fails
    BY <2>3, <2>6 DEF Shaped
  <2>8. Applied(change, cache) = d
    BY <1>1, <2>2 DEF Applied
  <2> QED
    BY <2>7, <2>8
<1>2. CASE change.op = "probes"
  <2>1. Applied(change, cache) = RecordProbes(cache, change.found, change.failed)
    BY <1>2 DEF Applied
  <2> QED
    BY <2>1, ProbesBlame
<1>3. CASE change.op = "list"
  <2>1. Applied(change, cache) = RecordDiscovered(cache, change.found)
    BY <1>3 DEF Applied
  <2> QED
    BY <2>1, DiscoveredBlames
<1>4. CASE change.op = "ring"
  <2>1. Applied(change, cache) = cache
    BY <1>4 DEF Applied
  <2> QED
    BY <2>1
<1> QED
  BY <1>1, <1>2, <1>3, <1>4

(* The job goes on, or rests, with the pool and the route as they are. *)
LEMMA RouteFollows ==
  ASSUME RouteInv, pool'.shut = pool.shut, UNCHANGED <<route, orphan>>,
         \/ job' = job
         \/ /\ job.stage # "ended"
            /\ job.for = "sweep" => job'.for = "sweep"
            /\ job.for \notin {"seeds", "control"} => job'.for \notin {"seeds", "control"}
  PROVE  RouteInv'
  BY DEF RouteInv

LEMMA CloseKeepsShut ==
  ASSUME SocketInv, NEW urls, pool' = Close(urls) PROVE pool'.shut = pool.shut
  BY DEF Close, SocketInv

LEMMA ShutShuts ==
  ASSUME SocketInv, pool' = Shut PROVE pool'.shut
  BY DEF Shut, SocketInv

LEMMA GoesOnRoute ==
  ASSUME JobInv, SocketInv, ProbeInv, RouteInv, NEW u \in updates, UpdateEnds(u)
  PROVE  RouteInv'
<1>1. UNCHANGED orphan /\ JobShape(job)
  BY DEF UpdateEnds, JobInv
<1>2. CASE ~Awaited(u)
  BY <1>1, <1>2, RouteFollows DEF UpdateEnds
<1>3. CASE Merged(u)
  <2>1. PICK left : job' = [job EXCEPT !.stage = "probe", !.left = left]
    BY <1>3 DEF Merged
  <2>2. job'.for = job.for
    BY <1>1, <2>1 DEF JobShape
  <2> QED
    BY <1>1, <1>3, <2>2, RouteFollows DEF Merged
<1>4. CASE RingProbed(u) \/ SweepListed(u)
  <2>1. PICK stage : job' = [job EXCEPT !.stage = stage]
    BY <1>4 DEF RingProbed, SweepListed
  <2>2. job'.for = job.for
    BY <1>1, <2>1 DEF JobShape
  <2> QED
    BY <1>1, <1>4, <2>2, RouteFollows DEF RingProbed, SweepListed
<1>5. CASE RingTaken(u)
  <2>1. job' = Job("sweep", "discover", job.left, 0) /\ pool' = Close(Healthy \ prepared'.ring)
        /\ route' = route /\ job.stage = "ring"
    BY <1>5 DEF RingTaken
  <2>2. job'.for = "sweep"
    BY <2>1 DEF Job
  <2>3. pool'.shut = pool.shut
    BY <2>1, CloseKeepsShut
  <2> QED
    BY <1>1, <2>1, <2>2, <2>3, RouteFollows
<1>6. CASE ControlResolved(u)
  <2>1. CASE pool' = Shut /\ route' = "none" /\ job' = Job("none", "ended", {}, 0)
    <3>1. job'.for = "none" /\ job'.stage = "ended" /\ pool'.shut
      BY <2>1, ShutShuts DEF Job
    <3> QED
      BY <1>1, <2>1, <3>1 DEF RouteInv
  <2>2. CASE UNCHANGED <<pool, route>> /\ \E left, target : job' = Job("ring", "probe", left, target)
    <3>1. job'.for = "ring" /\ job.stage = "record" /\ job.for = "control"
      BY <1>6, <2>2 DEF Job, ControlResolved
    <3> QED
      BY <1>1, <2>2, <3>1, RouteFollows
  <2>3. ASSUME NEW leftover, NEW unprobed, PrepareRing(leftover, unprobed)
        PROVE  \E left, target : job' = Job("ring", "probe", left, target)
    BY <2>3 DEF PrepareRing
  <2> QED
    BY <1>6, <2>1, <2>2, <2>3 DEF ControlResolved
<1> QED
  BY <1>2, <1>3, <1>4, <1>5, <1>6 DEF UpdateEnds, GoesOn

LEMMA PoolStepRoute ==
  ASSUME JobInv, TasksInv, OpenInv, RouteInv, PoolStep
  PROVE  RouteInv'
<1> USE DEF OpenInv
<1>1. JobShape(job)
  BY DEF JobInv
<1>2. ASSUME NEW t \in tasks, Open(t) PROVE RouteInv'
  <2>1. pool'.shut = pool.shut /\ UNCHANGED <<route, orphan, job>>
    BY <1>2, OpenSockets DEF Open
  <2> QED
    BY <2>1, RouteFollows
<1>3. CASE ProbeNext \/ SweepNext
  <2>1. PICK url \in job.left : job' = [job EXCEPT !.left = @ \ {url}] /\ Ensure("probe", url)
    BY <1>3 DEF ProbeNext, SweepNext
  <2>2. pool'.shut = pool.shut
    BY <2>1, EnsureSockets
  <2>3. job'.for = job.for
    BY <1>1, <2>1 DEF JobShape
  <2>4. job.stage = "probe" /\ UNCHANGED <<route, orphan>>
    BY <1>3 DEF ProbeNext, SweepNext, Foreground, Sweeping
  <2> QED
    BY <2>2, <2>3, <2>4, RouteFollows
<1>4. ASSUME NEW t \in tasks, ProbeEnds(t) \/ SweepProbed(t) PROVE RouteInv'
  <2>1. job.stage = "probe" /\ UNCHANGED <<route, orphan>>
    BY <1>4 DEF ProbeEnds, SweepProbed, Foreground, Sweeping
  <2>2. pool' = pool \/ pool' = Close({t.url})
    BY <1>4 DEF ProbeEnds, SweepProbed
  <2>3. pool'.shut = pool.shut
    BY <2>2, CloseKeepsShut
  <2>4. CASE SweepProbed(t)
    <3>1. job' = job \/ \E p, c : job' = [job EXCEPT !.passed = p, !.checked = c]
      BY <2>4 DEF SweepProbed
    <3>2. job'.for = job.for
      BY <1>1, <3>1 DEF JobShape
    <3> QED
      BY <2>1, <2>3, <3>2, RouteFollows
  <2>5. CASE ProbeEnds(t)
    <3>1. job'.for = job.for
      BY <1>1, <2>5 DEF ProbeEnds, JobShape
    <3> QED
      BY <2>1, <2>3, <3>1, RouteFollows
  <2> QED
    BY <1>4, <2>4, <2>5
<1>5. CASE SeedsProbed
  <2>1. PICK for, target : for \in {"ring", "control"} /\ job' = Job(for, "discover", {}, target)
    BY <1>5 DEF SeedsProbed, DiscoverRing
  <2>2. job.for = "seeds" /\ job.stage = "probe" /\ UNCHANGED <<pool, route, orphan>>
    BY <1>5 DEF SeedsProbed, PassOver, Foreground
  <2> QED
    BY <2>2, RouteFollows
<1>6. CASE Discover \/ Enumerate
  <2>1. pool'.shut = pool.shut
    BY <1>6, CloseKeepsShut DEF Discover, Enumerate
  <2>2. PICK stage, left : \/ job' = [job EXCEPT !.stage = stage]
                           \/ job' = [job EXCEPT !.stage = stage, !.left = left]
    BY <1>6 DEF Discover, Enumerate
  <2>3. job'.for = job.for
    BY <1>1, <2>2 DEF JobShape
  <2> QED
    BY <1>6, <2>1, <2>3, RouteFollows DEF Discover, Enumerate
<1>7. CASE FullSizeProbed \/ TakeRing \/ SweepEnds
  <2>1. PICK stage : job' = [job EXCEPT !.stage = stage]
    BY <1>7 DEF FullSizeProbed, TakeRing, SweepEnds
  <2>2. job'.for = job.for
    BY <1>1, <2>1 DEF JobShape
  <2>3. UNCHANGED <<pool, route, orphan>> /\ job.stage # "ended"
    BY <1>7 DEF FullSizeProbed, PassOver, Foreground, TakeRing, SweepEnds, Sweeping
  <2> QED
    BY <2>2, <2>3, RouteFollows
<1>8. CASE ClientDown
  <2>1. pool'.shut /\ pool.shut /\ UNCHANGED <<route, orphan, job>>
    BY <1>8, DownSockets DEF ClientDown
  <2> QED
    BY <2>1 DEF RouteInv
<1>9. ASSUME NEW u \in updates, ReadsCache(u) \/ UpdateEnds(u) PROVE RouteInv'
  BY <1>9, GoesOnRoute, RouteFollows DEF ReadsCache, poolVars
<1> QED
  BY <1>2, <1>3, <1>4, <1>5, <1>6, <1>7, <1>8, <1>9 DEF PoolStep

LEMMA NextRoute ==
  ASSUME IInv, OpenInv, RouteInv, [Next]_vars
  PROVE  RouteInv' /\ (orphan => orphan')
<1> USE DEF IInv, OpenInv
<1>1. CASE pool'.shut = pool.shut /\ UNCHANGED <<route, orphan, job>>
  BY <1>1, RouteFollows
<1>2. CASE PoolStep
  <2>1. UNCHANGED orphan
    BY <1>2 DEF PoolStep, Open, ProbeEnds, SweepProbed, ProbeNext, SeedsProbed, Discover,
                FullSizeProbed, TakeRing, Enumerate, SweepNext, SweepEnds, ClientDown, ReadsCache,
                UpdateEnds, poolVars
  <2> QED
    BY <1>2, <2>1, PoolStepRoute
<1>3. ASSUME NEW to \in {"direct", "none"}, Discard(to), job.for \in {"ring", "sweep"}
      PROVE  RouteInv' /\ UNCHANGED orphan
  <2>1. pool'.shut /\ route' = to /\ UNCHANGED orphan
    BY <1>3, ShutShuts DEF Discard
  <2>2. CASE job.for = "ring"
    <3>1. job' = Job("none", "ended", {}, 0)
      BY <1>3, <2>2 DEF Discard
    <3>2. job'.for = "none" /\ job'.stage = "ended"
      BY <3>1 DEF Job
    <3> QED
      BY <2>1, <3>2 DEF RouteInv
  <2>3. CASE job.for = "sweep"
    BY <1>3, <2>1, <2>3 DEF Discard, RouteInv
  <2> QED
    BY <1>3, <2>1, <2>2, <2>3
<1>4. CASE TransferEnds
  <2>1. pool'.shut /\ route = "relays" /\ route' = "none" /\ job' = job
        /\ orphan' = StillPreparing
    BY <1>4, ShutShuts DEF TransferEnds
  <2>2. ~pool.shut /\ ~orphan /\ job.for \notin {"seeds", "control"}
    BY <2>1 DEF RouteInv
  <2>3. job.for \in {"ring", "sweep"} \/ job.stage = "ended"
    BY <2>2 DEF ProbeInv
  <2>4. orphan' <=> job.for = "ring" /\ job.stage # "ended"
    BY <2>1 DEF StillPreparing
  <2>5. RouteInv'
    BY <2>1, <2>2, <2>3, <2>4 DEF RouteInv
  <2> QED
    BY <2>2, <2>5
<1>5. CASE FallBack
  <2>1. CASE route' = "relays" /\ UNCHANGED <<pool, job, orphan>>
    BY <1>5, <2>1 DEF FallBack, RouteInv
  <2> QED
    BY <1>3, <1>5, <2>1 DEF FallBack
<1>6. ASSUME NEW who, NEW url, Ensure(who, url) PROVE pool'.shut = pool.shut
  BY <1>6, EnsureSockets
<1>7. ASSUME NEW w \in Uploaders, Upload(w) PROVE pool'.shut = pool.shut /\ UNCHANGED <<route, orphan, job>>
  BY <1>6, <1>7 DEF Upload
<1>8. CASE Promote
  <2>1. UNCHANGED pool \/ \E url : Ensure("promote", url)
    BY <1>8 DEF Promote
  <2> QED
    BY <1>1, <1>6, <1>8, <2>1 DEF Promote
<1>9. \A x : Uploads(x) \/ Promoted(x) \/ Demote(x) => UNCHANGED <<pool, route, orphan, job>>
  BY DEF Uploads, Promoted, Demote, poolVars
<1>10. AdoptRing \/ HearDemotion \/ Wait \/ Announce \/ OtherProcess \/ UNCHANGED vars
         => UNCHANGED <<pool, route, orphan, job>>
  BY DEF AdoptRing, HearDemotion, Wait, Announce, OtherProcess, vars, poolVars
<1>11. CASE TransferStep
  BY <1>1, <1>4, <1>7, <1>8, <1>9, <1>10, <1>11 DEF TransferStep, NoRingFound
<1>12. CASE DirectRouteOpens
  BY <1>3, <1>12 DEF DirectRouteOpens
<1> QED
  BY <1>1, <1>2, <1>4, <1>5, <1>9, <1>10, <1>11, <1>12 DEF Next

(* The cache stays as it is, and nothing new is held against a relay that takes
   everything. *)
LEMMA BlameFollows ==
  ASSUME BlameInv, file' = file, orphan => orphan',
         \A n \in updates' :
           /\ n.change.op \in {"merge", "probes", "list", "ring"}
           /\ ~orphan' => n.change.failed \cap Reliable = {},
         ~orphan' => (job'.checked \ job'.passed) \cap Reliable = {}
  PROVE  BlameInv'
  BY DEF BlameInv, Blameless

LEMMA AskBlames ==
  ASSUME BlameInv, file' = file, orphan => orphan',
         NEW op \in {"merge", "probes", "list", "ring"}, NEW found, NEW failed,
         Ask(Change(op, found, failed)),
         ~orphan' => (failed \cup (job'.checked \ job'.passed)) \cap Reliable = {}
  PROVE  BlameInv'
<1>1. PICK n : n = Update(job.for, Change(op, found, failed))
  OBVIOUS
<1>2. updates' = updates \cup {n} /\ n.change.op = op /\ n.change.failed = failed
  BY <1>1 DEF Ask, Update, Change
<1> QED
  BY <1>2, BlameFollows DEF BlameInv, Blameless

LEMMA SameBlames ==
  ASSUME BlameInv, UNCHANGED <<file, updates>>, orphan => orphan',
         ~orphan' => (job'.checked \ job'.passed) \cap Reliable = {}
  PROVE  BlameInv'
  BY BlameFollows DEF BlameInv, Blameless

(* While the pool is up only relays that refuse fail a probe; once it is not,
   only the sweep and an orphan go on, and the sweep drops what it finds. *)
LEMMA VerdictBlames ==
  ASSUME SocketInv, NEW t \in tasks, t.at \in {"open", "failed"}, ~pool.shut,
         NEW passes \in Verdicts(t), ~passes
  PROVE  t.url \notin Reliable
<1>1. t.at = "open" => t.url \in pool.sockets
  BY DEF SocketInv
<1>2. t.at = "failed" \/ t.url \notin pool.sockets \/ t.url \notin Reliable
  BY DEF Verdicts
<1> QED
  BY <1>1, <1>2 DEF SocketInv

LEMMA ProbeEndsBlame ==
  ASSUME JobInv, OpenInv, RouteInv, BlameInv, NEW t \in tasks, ProbeEnds(t)
  PROVE  BlameInv'
<1>1. PICK passes \in Verdicts(t) : \E h :
        job' = [job EXCEPT !.checked = @ \cup {t.url},
                           !.passed = IF passes THEN @ \cup {t.url} ELSE @,
                           !.healthy = h]
  BY DEF ProbeEnds
<1>2. PICK h : job' = [job EXCEPT !.checked = @ \cup {t.url},
                                  !.passed = IF passes THEN @ \cup {t.url} ELSE @,
                                  !.healthy = h]
  BY <1>1
<1>3. /\ job'.checked = job.checked \cup {t.url}
      /\ job'.passed = IF passes THEN job.passed \cup {t.url} ELSE job.passed
  BY <1>2 DEF JobInv, JobShape
<1>4. /\ t.at \in {"open", "failed"} /\ job.stage = "probe" /\ job.for # "sweep"
      /\ UNCHANGED <<file, updates, orphan>>
  BY DEF ProbeEnds, Foreground, cacheVars
<1>5. ~orphan => ~pool.shut
  BY <1>4 DEF RouteInv
<1>6. ~orphan /\ ~passes => t.url \notin Reliable
  BY <1>4, <1>5, VerdictBlames DEF OpenInv
<1>7. ~orphan => (job'.checked \ job'.passed) \cap Reliable = {}
  BY <1>3, <1>6 DEF BlameInv, Blameless
<1> QED
  BY <1>4, <1>7, SameBlames

LEMMA SweepProbedBlame ==
  ASSUME JobInv, OpenInv, BlameInv, NEW t \in tasks, SweepProbed(t)
  PROVE  BlameInv'
<1>1. UNCHANGED <<file, orphan>> /\ t.at \in {"open", "failed"}
  BY DEF SweepProbed
<1>2. CASE pool.shut
  BY <1>1, <1>2, SameBlames DEF SweepProbed, Counts, BlameInv, Blameless
<1>3. CASE ~pool.shut
  <2>1. PICK passes \in Verdicts(t) :
          LET passed == IF passes THEN job.passed \cup {t.url} ELSE job.passed
              checked == job.checked \cup {t.url}
          IN  \/ /\ Ask(Change("probes", passed, checked \ passed))
                 /\ job' = [job EXCEPT !.passed = {}, !.checked = {}]
              \/ job' = [job EXCEPT !.passed = passed, !.checked = checked] /\ UNCHANGED updates
    BY <1>3 DEF SweepProbed, Counts
  <2>2. PICK passed : passed = IF passes THEN job.passed \cup {t.url} ELSE job.passed
    OBVIOUS
  <2>3. PICK checked : checked = job.checked \cup {t.url}
    OBVIOUS
  <2>4. \/ /\ Ask(Change("probes", passed, checked \ passed))
           /\ job' = [job EXCEPT !.passed = {}, !.checked = {}]
        \/ job' = [job EXCEPT !.passed = passed, !.checked = checked] /\ UNCHANGED updates
    BY <2>1, <2>2, <2>3
  <2>5. ~passes => t.url \notin Reliable
    BY <1>1, <1>3, VerdictBlames DEF OpenInv
  <2>6. ~orphan => (checked \ passed) \cap Reliable = {}
    BY <2>2, <2>3, <2>5 DEF BlameInv, Blameless
  <2>7. CASE /\ Ask(Change("probes", passed, checked \ passed))
             /\ job' = [job EXCEPT !.passed = {}, !.checked = {}]
    <3>1. job'.checked = {} /\ job'.passed = {}
      BY <2>7 DEF JobInv, JobShape
    <3>2. ~orphan' => ((checked \ passed) \cup (job'.checked \ job'.passed)) \cap Reliable = {}
      BY <1>1, <2>6, <3>1
    <3> QED
      BY <1>1, <2>7, <3>2, AskBlames
  <2>8. CASE job' = [job EXCEPT !.passed = passed, !.checked = checked] /\ UNCHANGED updates
    <3>1. job'.checked = checked /\ job'.passed = passed
      BY <2>8 DEF JobInv, JobShape
    <3> QED
      BY <1>1, <2>6, <2>8, <3>1, SameBlames
  <2> QED
    BY <2>4, <2>7, <2>8
<1> QED
  BY <1>2, <1>3

(* A change is asked for, and the job waits. *)
LEMMA StagesBlame ==
  ASSUME JobInv, BlameInv, Discover \/ FullSizeProbed \/ TakeRing \/ Enumerate \/ SweepEnds
  PROVE  BlameInv'
<1>1. UNCHANGED <<file, orphan>>
  BY DEF Discover, FullSizeProbed, TakeRing, Enumerate, SweepEnds
<1>2. PICK op, found, failed :
        /\ op \in {"merge", "probes", "list", "ring"} /\ failed \subseteq job.checked \ job.passed
        /\ UNCHANGED updates \/ Ask(Change(op, found, failed))
  <2>1. CASE Discover
    <3>1. PICK found : Ask(Change("merge", found, {}))
      BY <2>1 DEF Discover
    <3> QED
      BY <3>1
  <2>2. CASE FullSizeProbed
    <3>1. Ask(Change("probes", job.passed, job.checked \ job.passed))
      BY <2>2 DEF FullSizeProbed
    <3> QED
      BY <3>1
  <2>3. CASE TakeRing
    <3>1. Ask(Change("ring", {}, {}))
      BY <2>3 DEF TakeRing
    <3> QED
      BY <3>1
  <2>4. CASE Enumerate
    <3>1. PICK urls : UNCHANGED updates \/ Ask(Change("list", urls, {}))
      BY <2>4 DEF Enumerate
    <3> QED
      BY <3>1
  <2>5. CASE SweepEnds
    <3>1. UNCHANGED updates \/ Ask(Change("probes", job.passed, job.checked \ job.passed))
      BY <2>5 DEF SweepEnds
    <3> QED
      BY <3>1
  <2> QED
    BY <2>1, <2>2, <2>3, <2>4, <2>5
<1>3. PICK stage, left : \/ job' = [job EXCEPT !.stage = stage]
                         \/ job' = [job EXCEPT !.stage = stage, !.left = left]
  BY DEF Discover, FullSizeProbed, TakeRing, Enumerate, SweepEnds
<1>4. job'.checked = job.checked /\ job'.passed = job.passed
  BY <1>3 DEF JobInv, JobShape
<1>5. ~orphan' => (failed \cup (job'.checked \ job'.passed)) \cap Reliable = {}
  BY <1>1, <1>2, <1>4 DEF BlameInv, Blameless
<1> QED
  BY <1>1, <1>2, <1>5, AskBlames, SameBlames

LEMMA EndBlames ==
  ASSUME CacheInv, JobInv, BlameInv, NEW u \in updates, UpdateEnds(u)
  PROVE  BlameInv'
<1>1. updates' = updates \ {u} /\ UNCHANGED orphan /\ (file' = file \/ file' = Applied(u.change, file))
  BY WriteComposes DEF UpdateEnds
<1>2. Shaped(file') /\ (~orphan => \A r \in Reliable : file'.relays[r].fails = 0)
  <2>1. CASE file' = file
    BY <2>1 DEF BlameInv, Blameless
  <2>2. CASE file' = Applied(u.change, file)
    <3>1. PICK f : f = Applied(u.change, file)
      OBVIOUS
    <3>2. Shaped(f) /\ \A r \in Relays \ u.change.failed : f.relays[r].fails \in {0, file.relays[r].fails}
      BY <3>1, AppliedBlames DEF BlameInv
    <3>3. Reliable \subseteq Relays
      BY CacheAssumption DEF Relays
    <3>4. ~orphan => \A r \in Reliable : f.relays[r].fails = 0
      BY <3>2, <3>3 DEF BlameInv, Blameless
    <3> QED
      BY <2>2, <3>1, <3>2, <3>4
  <2> QED
    BY <1>1, <2>1, <2>2
<1>3. job'.checked = {} \/ (job'.checked = job.checked /\ job'.passed = job.passed)
  <2>1. CASE job' = job
    BY <2>1
  <2>2. CASE \E stage, left : \/ job' = [job EXCEPT !.stage = stage]
                             \/ job' = [job EXCEPT !.stage = stage, !.left = left]
    BY <2>2 DEF JobInv, JobShape
  <2>3. CASE \E for, stage, left, target : job' = Job(for, stage, left, target)
    BY <2>3 DEF Job
  <2>4. ASSUME NEW leftover, NEW unprobed, PrepareRing(leftover, unprobed)
        PROVE  \E for, stage, left, target : job' = Job(for, stage, left, target)
    BY <2>4 DEF PrepareRing
  <2>5. CASE Merged(u) \/ RingProbed(u) \/ SweepListed(u)
    BY <2>2, <2>5 DEF Merged, RingProbed, SweepListed
  <2>6. CASE ControlResolved(u) \/ RingTaken(u)
    <3>1. \E for, stage, left, target : job' = Job(for, stage, left, target)
      <4>1. CASE RingTaken(u)
        BY <4>1 DEF RingTaken
      <4>2. CASE ControlResolved(u)
        <5>1. CASE job' = Job("none", "ended", {}, 0)
          BY <5>1
        <5> QED
          BY <2>4, <4>2, <5>1 DEF ControlResolved
      <4> QED
        BY <2>6, <4>1, <4>2
    <3> QED
      BY <2>3, <3>1
  <2> QED
    BY <2>1, <2>5, <2>6 DEF UpdateEnds, GoesOn
<1> QED
  BY <1>1, <1>2, <1>3 DEF BlameInv, Blameless

LEMMA ForeignBlames ==
  ASSUME BlameInv, OtherProcess
  PROVE  BlameInv'
<1>1. PICK r \in Elsewhere : \E failed \in SUBSET ({r} \ Reliable) :
        updates' = updates \cup {Update("foreign", Change("probes", {r} \ failed, failed))}
  BY DEF OtherProcess, ForeignChange
<1>2. PICK failed \in SUBSET ({r} \ Reliable) :
        updates' = updates \cup {Update("foreign", Change("probes", {r} \ failed, failed))}
  BY <1>1
<1>3. PICK n : n = Update("foreign", Change("probes", {r} \ failed, failed))
  OBVIOUS
<1>4. n.change.op = "probes" /\ n.change.failed = failed /\ updates' = updates \cup {n}
  BY <1>2, <1>3 DEF Update, Change
<1>5. UNCHANGED <<file, orphan, job>>
  BY DEF OtherProcess, ForeignChange, poolVars
<1> QED
  BY <1>2, <1>4, <1>5, BlameFollows DEF BlameInv, Blameless

LEMMA LockBlames ==
  ASSUME CacheInv, BlameInv, NEW u \in updates, ReadsCache(u)
  PROVE  BlameInv'
<1>1. PICK n : n = [u EXCEPT !.locked = TRUE, !.cache = file]
  OBVIOUS
<1>2. n.change = u.change
  <2>1. u = [by |-> u.by, change |-> u.change, locked |-> u.locked, cache |-> u.cache]
    BY DEF CacheInv
  <2> QED
    BY <1>1, <2>1
<1>3. updates' = (updates \ {u}) \cup {n} /\ UNCHANGED <<file, orphan, job>>
  BY <1>1 DEF ReadsCache, ReadLocked, poolVars
<1> QED
  BY <1>2, <1>3, BlameFollows DEF BlameInv, Blameless

LEMMA NextBlame ==
  ASSUME IInv, OpenInv, RouteInv, BlameInv, [Next]_vars
  PROVE  BlameInv'
<1> USE DEF IInv
<1>1. orphan => orphan'
  BY NextRoute
<1>2. CASE UNCHANGED <<file, updates, job>>
  BY <1>1, <1>2, SameBlames DEF BlameInv, Blameless
<1>3. CASE ProbeNext \/ SweepNext
  <2>1. PICK left : job' = [job EXCEPT !.left = left]
    BY <1>3 DEF ProbeNext, SweepNext
  <2>2. job'.checked = job.checked /\ job'.passed = job.passed
    BY <2>1 DEF JobInv, JobShape
  <2>3. UNCHANGED <<file, updates, orphan>>
    BY <1>3 DEF ProbeNext, SweepNext, cacheVars
  <2> QED
    BY <2>2, <2>3, SameBlames DEF BlameInv, Blameless
<1>4. CASE SeedsProbed
  <2>1. PICK for, stage, left, target : job' = Job(for, stage, left, target)
    BY <1>4 DEF SeedsProbed, DiscoverRing
  <2>2. job'.checked = {} /\ UNCHANGED <<file, updates, orphan>>
    BY <1>4, <2>1 DEF Job, SeedsProbed, cacheVars
  <2> QED
    BY <2>2, SameBlames
<1>5. \A t : Open(t) => UNCHANGED <<file, updates, job>>
  BY DEF Open, cacheVars
<1>6. ClientDown => UNCHANGED <<file, updates, job>>
  BY DEF ClientDown, cacheVars
<1>7. CASE PoolStep
  BY <1>2, <1>3, <1>4, <1>5, <1>6, <1>7, ProbeEndsBlame, SweepProbedBlame, StagesBlame, EndBlames,
     LockBlames DEF PoolStep
<1>8. ASSUME NEW to, Discard(to), UNCHANGED cacheVars PROVE BlameInv'
  <2>1. job' = job \/ job' = Job("none", "ended", {}, 0)
    BY <1>8 DEF Discard
  <2>2. job' = job \/ job'.checked = {}
    BY <2>1 DEF Job
  <2> QED
    BY <1>1, <1>8, <2>2, SameBlames DEF cacheVars, BlameInv, Blameless
<1>9. CASE FallBack
  <2>1. UNCHANGED cacheVars /\ (job' = job \/ Discard("none"))
    BY <1>9 DEF FallBack
  <2> QED
    BY <1>2, <1>8, <2>1 DEF cacheVars
<1>10. DirectRouteOpens => Discard("direct") /\ UNCHANGED cacheVars
  BY DEF DirectRouteOpens
<1>11. TransferStep \/ TransferEnds \/ UNCHANGED vars => UNCHANGED <<file, updates, job>>
  BY DEF TransferStep, TransferEnds, AdoptRing, NoRingFound, Upload, Uploads, Promoted,
         HearDemotion, Promote, Wait, Announce, vars, poolVars, cacheVars
<1>12. \A url : Demote(url) => UNCHANGED <<file, updates, job>>
  BY DEF Demote, poolVars, cacheVars
<1> QED
  BY <1>2, <1>7, <1>8, <1>9, <1>10, <1>11, <1>12, ForeignBlames DEF Next

(* A relay that takes and serves everything is not recorded as failing when the
   pool is shut down beneath its probe, but by a preparation that its transfer
   has left behind (FilePool::shutdown, sweep, Fallback::discard). *)
THEOREM TeardownBlames == Spec => []TeardownBlamesOnlyOrphans
<1>1. Init => RouteInv /\ BlameInv
  <2> SUFFICES ASSUME Init PROVE RouteInv /\ BlameInv
    OBVIOUS
  <2>1. /\ ~pool.shut /\ ~orphan /\ route = "undecided" /\ updates = {}
        /\ job = Job("seeds", "probe", Seeds, ControlCount)
        /\ file = [relays |-> [r \in Relays |-> Proven], listed |-> Relays]
    BY DEF Init, PoolInit, CacheInit
  <2>2. job.checked = {}
    BY <2>1 DEF Job
  <2>3. Reliable \subseteq Relays
    BY CacheAssumption DEF Relays
  <2>4. Shaped(file) /\ \A r \in Relays : file.relays[r].fails = 0
    BY <2>1 DEF Shaped, Proven
  <2> QED
    BY <2>1, <2>2, <2>3, <2>4 DEF RouteInv, BlameInv, Blameless
<1>2. /\ IInv /\ OpenInv /\ RouteInv /\ BlameInv /\ [Next]_vars
      => RouteInv' /\ BlameInv'
  BY NextRoute, NextBlame
<1>3. BlameInv => TeardownBlamesOnlyOrphans
  <2> SUFFICES ASSUME BlameInv, ~orphan, NEW r \in Reliable, file.relays[r].fails > 0 PROVE FALSE
    BY DEF TeardownBlamesOnlyOrphans
  <2> QED
    BY DEF BlameInv, Blameless
<1> QED
  BY <1>1, <1>2, <1>3, Invariance, OpenHolds, PTL DEF Spec

-----------------------------------------------------------------------------
(* What a demotion is owed. *)

(* The control set is as large as the offer needs and no larger than it aims
   for, and the reserve is apart from it: taking on all of the reserve comes to
   no more than ControlMax relays. *)
SizeInv ==
  /\ IsFiniteSet(job.passed) /\ IsFiniteSet(job.healthy) /\ IsFiniteSet(spare)
  /\ IsFiniteSet(control) /\ Cardinality(control) <= ControlCount
  /\ job.target \in Nat
  /\ job.for \in {"seeds", "control"} =>
       /\ job.target = ControlCount - Cardinality(control)
       /\ Cardinality(job.healthy) <= job.target
  /\ job.for \in {"ring", "sweep"} => Cardinality(control) >= MinControl
  /\ IsFiniteSet(prepared.reserve) /\ Cardinality(prepared.reserve) <= ReserveCount
  /\ prepared.reserve \cap control = {}

Promotions == IF Promoting THEN 1 ELSE 0

(* The spares promote_loop has taken from the reserve. *)
Taken == IF adopted THEN prepared.reserve \ reserve ELSE {}

(***************************************************************************)
(* No demotion is lost between gave_up, the channel and promote_loop: the  *)
(* relays published to, the demotions not yet heard of and what is owed    *)
(* for the others come to the size of the offer's set, but for the spare   *)
(* being opened, which counts twice.  The set keeps MinControl relays,     *)
(* every spare taken is taken on, and promote_loop does not sleep on a     *)
(* debt while there is a spare.                                            *)
(***************************************************************************)
DemotionsAccounted ==
  Relaying =>
    /\ Cardinality(active) + told + owed = Cardinality(control) + Promotions
    /\ Cardinality(active) >= MinControl
    /\ known = control \cup Taken
    /\ adopted /\ owed > 0 /\ reserve # {} => due

OnePromotion == \A s, t \in tasks : s.who = "promote" /\ t.who = "promote" => s = t

PayInv ==
  /\ told \in Nat /\ owed \in Nat
  /\ ~Relaying => told = 0 /\ owed = 0 /\ ~adopted /\ ~Promoting
  /\ Promoting => owed > 0
  /\ OnePromotion
  /\ Relaying => job.for \in {"ring", "sweep"} /\ active \subseteq known
  /\ prepared.ready => job.for \notin {"seeds", "control", "ring"}
  /\ adopted => prepared.ready
  /\ reserve \subseteq prepared.reserve
  /\ ~adopted => reserve = {}
  /\ DemotionsAccounted

(* The sizes stay as they are, whatever else the job learns. *)
LEMMA SizeFollows ==
  ASSUME SizeInv, UNCHANGED <<control, spare, prepared>>, job'.for = job.for,
         job'.target = job.target, job'.healthy = job.healthy, IsFiniteSet(job'.passed)
  PROVE  SizeInv'
  BY DEF SizeInv

LEMMA FreshJob ==
  ASSUME NEW for, NEW stage, NEW left, NEW target, job' = Job(for, stage, left, target)
  PROVE  /\ job'.for = for /\ job'.target = target
         /\ job'.passed = {} /\ job'.healthy = {}
         /\ IsFiniteSet(job'.passed) /\ IsFiniteSet(job'.healthy) /\ Cardinality(job'.healthy) = 0
<1>1. job'.for = for /\ job'.target = target /\ job'.passed = {} /\ job'.healthy = {}
  BY DEF Job
<1>2. IsFiniteSet({}) /\ Cardinality({}) = 0
  BY FS_EmptySet
<1> QED
  BY <1>1, <1>2

LEMMA OneMore ==
  ASSUME NEW S, NEW x, IsFiniteSet(S)
  PROVE  /\ IsFiniteSet(S \cup {x})
         /\ Cardinality(S \cup {x}) \in Nat
         /\ Cardinality(S \cup {x}) <= Cardinality(S) + 1
<1>1. Cardinality(S) \in Nat
  BY FS_CardinalityType
<1>2. IsFiniteSet(S \cup {x})
  BY FS_AddElement
<1>3. Cardinality(S \cup {x}) = IF x \in S THEN Cardinality(S) ELSE Cardinality(S) + 1
  BY FS_AddElement
<1> QED
  BY <1>1, <1>2, <1>3

LEMMA ProbeEndsSize ==
  ASSUME JobInv, SizeInv, NEW t, ProbeEnds(t)
  PROVE  SizeInv' /\ job'.for = job.for
<1>1. PICK passes \in Verdicts(t) :
        LET keep == passes /\ ~TargetMet IN
        job' = [job EXCEPT !.checked = @ \cup {t.url},
                           !.passed = IF passes THEN @ \cup {t.url} ELSE @,
                           !.healthy = IF keep THEN @ \cup {t.url} ELSE @]
  BY DEF ProbeEnds
<1>2. /\ job'.for = job.for /\ job'.target = job.target
      /\ job'.passed = IF passes THEN job.passed \cup {t.url} ELSE job.passed
      /\ job'.healthy = IF passes /\ ~TargetMet THEN job.healthy \cup {t.url} ELSE job.healthy
  BY <1>1 DEF JobInv, JobShape
<1>3. IsFiniteSet(job'.passed)
  <2>1. IsFiniteSet(job.passed)
    BY DEF SizeInv
  <2>2. IsFiniteSet(job.passed \cup {t.url})
    BY <2>1, FS_AddElement
  <2> QED
    BY <1>2, <2>1, <2>2
<1>4. UNCHANGED <<control, spare, prepared>>
  BY DEF ProbeEnds
<1>5. CASE job'.healthy = job.healthy
  BY <1>2, <1>3, <1>4, <1>5, SizeFollows
<1>6. CASE ~TargetMet /\ job'.healthy = job.healthy \cup {t.url}
  <2>1. IsFiniteSet(job.healthy) /\ Cardinality(job.healthy) \in Nat
    BY FS_CardinalityType DEF SizeInv
  <2>2. /\ IsFiniteSet(job.healthy \cup {t.url})
        /\ Cardinality(job.healthy \cup {t.url}) \in Nat
        /\ Cardinality(job.healthy \cup {t.url}) <= Cardinality(job.healthy) + 1
    BY <2>1, OneMore
  <2>3. /\ IsFiniteSet(job'.healthy) /\ Cardinality(job'.healthy) \in Nat
        /\ Cardinality(job'.healthy) <= Cardinality(job.healthy) + 1
    BY <1>6, <2>2
  <2>4. job.target \in Nat /\ ~(Cardinality(job.healthy) >= job.target)
    BY <1>6 DEF TargetMet, SizeInv
  <2>5. Cardinality(job'.healthy) <= job.target
    BY <2>1, <2>3, <2>4
  <2> QED
    BY <1>2, <1>3, <1>4, <2>3, <2>5 DEF SizeInv
<1> QED
  BY <1>2, <1>5, <1>6

LEMMA SweepProbedSize ==
  ASSUME JobInv, SizeInv, NEW t, SweepProbed(t)
  PROVE  SizeInv' /\ job'.for = job.for
<1>1. UNCHANGED <<control, spare, prepared>> /\ JobShape(job)
  BY DEF SweepProbed, JobInv
<1>2. CASE job' = job
  BY <1>1, <1>2, SizeFollows DEF SizeInv
<1>3. CASE job' # job
  <2>1. PICK passes \in Verdicts(t) :
          LET passed == IF passes THEN job.passed \cup {t.url} ELSE job.passed
              checked == job.checked \cup {t.url}
          IN  \/ job' = [job EXCEPT !.passed = {}, !.checked = {}]
              \/ job' = [job EXCEPT !.passed = passed, !.checked = checked]
    BY <1>3 DEF SweepProbed
  <2>2. PICK p, c : /\ job' = [job EXCEPT !.passed = p, !.checked = c]
                    /\ p \in {{}, job.passed, job.passed \cup {t.url}}
    <3>1. CASE job' = [job EXCEPT !.passed = {}, !.checked = {}]
      BY <3>1
    <3> DEFINE passed == IF passes THEN job.passed \cup {t.url} ELSE job.passed
               checked == job.checked \cup {t.url}
    <3>2. CASE job' = [job EXCEPT !.passed = passed, !.checked = checked]
      <4>1. passed \in {{}, job.passed, job.passed \cup {t.url}}
        OBVIOUS
      <4> HIDE DEF passed, checked
      <4> QED
        BY <3>2, <4>1
    <3> QED
      BY <2>1, <3>1, <3>2
  <2>3. /\ job'.for = job.for /\ job'.target = job.target /\ job'.healthy = job.healthy
        /\ job'.passed = p
    BY <1>1, <2>2 DEF JobShape
  <2>4. IsFiniteSet(p)
    <3>1. IsFiniteSet({}) /\ IsFiniteSet(job.passed)
      BY FS_EmptySet DEF SizeInv
    <3>2. IsFiniteSet(job.passed \cup {t.url})
      BY <3>1, FS_AddElement
    <3> QED
      BY <2>2, <3>1, <3>2
  <2> QED
    BY <1>1, <2>3, <2>4, SizeFollows
<1> QED
  BY <1>2, <1>3

(* What is still to probe changes, or the stage. *)
LEMMA StageSize ==
  ASSUME JobInv, SizeInv, UNCHANGED <<control, spare, prepared>>,
         \E stage, left : \/ job' = [job EXCEPT !.stage = stage]
                          \/ job' = [job EXCEPT !.left = left]
                          \/ job' = [job EXCEPT !.stage = stage, !.left = left]
  PROVE  SizeInv' /\ job'.for = job.for
<1>1. /\ job'.for = job.for /\ job'.target = job.target
      /\ job'.healthy = job.healthy /\ job'.passed = job.passed
  BY DEF JobInv, JobShape
<1> QED
  BY <1>1, SizeFollows DEF SizeInv

LEMMA SeedsProbedSize ==
  ASSUME JobInv, RingInv, SizeInv, SeedsProbed
  PROVE  /\ SizeInv' /\ prepared' = prepared
         /\ job.for = "seeds" /\ job'.for \in {"control", "ring"}
<1>1. /\ job.for = "seeds" /\ control = {} /\ control' = job.healthy
      /\ prepared' = prepared /\ prepared.reserve = {}
  BY DEF SeedsProbed, JobInv, RingInv
<1>2. ControlCount \in Nat /\ MinControl \in Nat /\ MinControl <= ControlCount /\ RingCount \in Nat
  BY PoolAssumption
<1>3. IsFiniteSet(control') /\ Cardinality(control') \in Nat /\ Cardinality(control') <= ControlCount
  <2>1. IsFiniteSet(job.healthy) /\ Cardinality(job.healthy) <= job.target
        /\ job.target = ControlCount - Cardinality(control)
    BY <1>1 DEF SizeInv
  <2>2. Cardinality(control) = 0
    BY <1>1, FS_EmptySet
  <2>3. Cardinality(job.healthy) \in Nat
    BY <2>1, FS_CardinalityType
  <2>4. job.target = ControlCount
    BY <1>2, <2>1, <2>2
  <2> QED
    BY <1>1, <2>1, <2>3, <2>4
<1>4. /\ IsFiniteSet(prepared'.reserve) /\ Cardinality(prepared'.reserve) <= ReserveCount
      /\ prepared'.reserve \cap control' = {}
  BY <1>1 DEF SizeInv
<1>5. CASE DiscoverRing /\ Cardinality(control') = ControlCount
  <2>1. job' = Job("ring", "discover", {}, RingCount) /\ spare' = {}
    BY <1>5 DEF DiscoverRing
  <2>2. job'.for = "ring" /\ job'.target = RingCount /\ IsFiniteSet(job'.passed) /\ IsFiniteSet(job'.healthy)
    BY <2>1, FreshJob
  <2>3. IsFiniteSet(spare')
    BY <2>1, FS_EmptySet
  <2>4. SizeInv'
    BY <1>2, <1>3, <1>4, <1>5, <2>2, <2>3 DEF SizeInv
  <2> QED
    BY <1>1, <2>2, <2>4
<1>6. CASE spare' = spare /\ \E stage, left, target : /\ target = ControlCount - Cardinality(control')
                                                   /\ job' = Job("control", stage, left, target)
  <2>1. PICK target : /\ target = ControlCount - Cardinality(control')
                      /\ job'.for = "control" /\ job'.target = target
                      /\ IsFiniteSet(job'.passed) /\ IsFiniteSet(job'.healthy)
                      /\ Cardinality(job'.healthy) = 0
    BY <1>6, FreshJob
  <2>2. target \in Nat
    BY <1>2, <1>3, <2>1
  <2>3. SizeInv'
    BY <1>3, <1>4, <1>6, <2>1, <2>2 DEF SizeInv
  <2> QED
    BY <1>1, <2>1, <2>3
<1> QED
  BY <1>1, <1>5, <1>6 DEF SeedsProbed

(* What the search for control relays leaves over is finite, and so is the gap
   it leaves in the ring. *)
LEMMA PreparesSize ==
  ASSUME SizeInv, RingInv, NEW u, ControlResolved(u)
  PROVE  /\ SizeInv' /\ prepared' = prepared
         /\ job.for = "control" /\ job'.for \in {"none", "ring"}
<1>1. /\ job.for = "control" /\ control' = control \cup job.healthy
      /\ prepared' = prepared /\ prepared.reserve = {}
  BY DEF ControlResolved, RingInv
<1>2. ControlCount \in Nat /\ MinControl \in Nat /\ RingCount \in Nat
  BY PoolAssumption
<1>3. IsFiniteSet(control') /\ Cardinality(control') \in Nat /\ Cardinality(control') <= ControlCount
  <2>1. /\ IsFiniteSet(job.healthy) /\ IsFiniteSet(control)
        /\ job.target = ControlCount - Cardinality(control)
        /\ Cardinality(job.healthy) <= job.target
    BY <1>1 DEF SizeInv
  <2>2. Cardinality(job.healthy) \in Nat /\ Cardinality(control) \in Nat
    BY <2>1, FS_CardinalityType
  <2>3. IsFiniteSet(control \cap job.healthy) /\ Cardinality(control \cap job.healthy) \in Nat
    BY <2>1, FS_Subset, FS_CardinalityType
  <2>4. /\ IsFiniteSet(control \cup job.healthy)
        /\ Cardinality(control \cup job.healthy)
             = Cardinality(control) + Cardinality(job.healthy) - Cardinality(control \cap job.healthy)
    BY <2>1, FS_Union
  <2>5. Cardinality(control \cup job.healthy) \in Nat
    BY <2>4, FS_CardinalityType
  <2>6. Cardinality(control \cup job.healthy) <= ControlCount
    BY <1>2, <2>1, <2>2, <2>3, <2>4
  <2> QED
    BY <1>1, <2>4, <2>5, <2>6
<1>4. /\ IsFiniteSet(prepared'.reserve) /\ Cardinality(prepared'.reserve) <= ReserveCount
      /\ prepared'.reserve \cap control' = {}
  BY <1>1 DEF SizeInv
<1>5. CASE spare' = spare /\ job' = Job("none", "ended", {}, 0)
  <2>1. /\ job'.for = "none" /\ job'.target = 0
        /\ IsFiniteSet(job'.passed) /\ IsFiniteSet(job'.healthy)
    BY <1>5, FreshJob
  <2>2. SizeInv'
    BY <1>3, <1>4, <1>5, <2>1 DEF SizeInv
  <2> QED
    BY <1>1, <2>1, <2>2
<1>6. CASE ~(Cardinality(control') < MinControl) /\ PrepareRing(job.passed \ job.healthy, job.left)
  <2>1. PICK target, left : /\ target = IF Cardinality(spare') < RingCount
                                         THEN RingCount - Cardinality(spare') ELSE 0
                            /\ job' = Job("ring", "probe", left, target)
    BY <1>6 DEF PrepareRing
  <2>2. IsFiniteSet(spare') /\ Cardinality(spare') \in Nat
    <3>1. IsFiniteSet(job.passed) /\ spare' \in SUBSET job.passed
      BY <1>6 DEF PrepareRing, SizeInv
    <3>2. IsFiniteSet(spare')
      BY <3>1, FS_Subset
    <3> QED
      BY <3>2, FS_CardinalityType
  <2>3. target \in Nat
    BY <1>2, <2>1, <2>2
  <2>4. /\ job'.for = "ring" /\ job'.target = target
        /\ IsFiniteSet(job'.passed) /\ IsFiniteSet(job'.healthy)
    BY <2>1, FreshJob
  <2>5. Cardinality(control') >= MinControl
    BY <1>2, <1>3, <1>6
  <2>6. SizeInv'
    BY <1>3, <1>4, <2>2, <2>3, <2>4, <2>5 DEF SizeInv
  <2> QED
    BY <1>1, <2>4, <2>6
<1> QED
  BY <1>1, <1>5, <1>6 DEF ControlResolved

LEMMA RingTakenSize ==
  ASSUME JobInv, SizeInv, NEW u, RingTaken(u)
  PROVE  SizeInv' /\ job.for = "ring" /\ job'.for = "sweep"
<1>1. job.for = "ring" /\ control' = control /\ spare' = {}
      /\ job' = Job("sweep", "discover", job.left, 0)
  BY DEF RingTaken, JobInv
<1>2. job'.for = "sweep" /\ job'.target = 0 /\ IsFiniteSet(job'.passed) /\ IsFiniteSet(job'.healthy)
  BY <1>1, FreshJob
<1>3. PICK ring \in Sized(Healthy, RingCount) :
        \E rest \in Sized(Healthy \ ring, ReserveCount) :
          prepared' = [ready |-> TRUE, ring |-> ring, reserve |-> rest]
  BY DEF RingTaken
<1>4. PICK rest \in Sized(Healthy \ ring, ReserveCount) :
        prepared' = [ready |-> TRUE, ring |-> ring, reserve |-> rest]
  BY <1>3
<1>5. prepared'.reserve = rest
  BY <1>4
<1>6. rest \in SUBSET Healthy /\ Cardinality(rest) = Least(ReserveCount, Cardinality(Healthy \ ring))
  BY DEF Sized
<1>7. IsFiniteSet(Healthy)
  <2>1. IsFiniteSet(spare) /\ IsFiniteSet(job.healthy)
    BY DEF SizeInv
  <2> QED
    BY <2>1, FS_Union DEF Healthy
<1>8. IsFiniteSet(rest) /\ Cardinality(rest) <= ReserveCount
  <2>1. Healthy \ ring \in SUBSET Healthy
    OBVIOUS
  <2>2. IsFiniteSet(rest) /\ IsFiniteSet(Healthy \ ring)
    BY <1>6, <1>7, <2>1, FS_Subset
  <2>3. Cardinality(rest) \in Nat /\ Cardinality(Healthy \ ring) \in Nat
    BY <2>2, FS_CardinalityType
  <2>4. ReserveCount \in Nat
    BY PoolAssumption
  <2> QED
    BY <1>6, <2>2, <2>3, <2>4 DEF Least
<1>9. rest \cap control = {}
  <2>1. Healthy \cap control = {}
    BY <1>1 DEF Healthy, JobInv, Probable
  <2> QED
    BY <1>6, <2>1
<1>10. IsFiniteSet(spare')
  BY <1>1, FS_EmptySet
<1> QED
  BY <1>1, <1>2, <1>5, <1>8, <1>9, <1>10 DEF SizeInv

(* What a finished change leaves of the job, the ring and the route. *)
LEMMA EndSize ==
  ASSUME IInv, OpenInv, SizeInv, NEW u \in updates, UpdateEnds(u)
  PROVE  /\ SizeInv'
         /\ \/ UNCHANGED <<control, prepared, route>> /\ job'.for = job.for
            \/ /\ job.for = "control" /\ job'.for \in {"none", "ring"}
               /\ UNCHANGED prepared /\ route' \in {route, "none"}
            \/ job.for = "ring" /\ job'.for = "sweep" /\ UNCHANGED <<control, route>>
<1> USE DEF IInv
<1>1. CASE ~Awaited(u)
  BY <1>1, SizeFollows DEF UpdateEnds, SizeInv
<1>2. CASE Merged(u)
  <2>1. /\ UNCHANGED <<control, spare, prepared, route>>
        /\ \E left : job' = [job EXCEPT !.stage = "probe", !.left = left]
    BY <1>2 DEF Merged
  <2> QED
    BY <2>1, StageSize
<1>3. CASE RingProbed(u) \/ SweepListed(u)
  <2>1. /\ UNCHANGED <<control, spare, prepared, route>>
        /\ \E stage : job' = [job EXCEPT !.stage = stage]
    BY <1>3 DEF RingProbed, SweepListed
  <2> QED
    BY <2>1, StageSize
<1>4. CASE ControlResolved(u)
  <2>1. route' \in {route, "none"}
    BY <1>4 DEF ControlResolved
  <2> QED
    BY <1>4, <2>1, PreparesSize
<1>5. CASE RingTaken(u)
  <2>1. UNCHANGED <<control, route>>
    BY <1>5 DEF RingTaken
  <2> QED
    BY <1>5, <2>1, RingTakenSize
<1> QED
  BY <1>1, <1>2, <1>3, <1>4, <1>5 DEF UpdateEnds, GoesOn

(* What a step of the tasks of the pool leaves of the job, the ring, the route
   and the promotion underway. *)
SamePromotions ==
  /\ Promoting' <=> Promoting
  /\ \A n \in tasks' : n.who = "promote" =>
       \A m \in tasks' : m.who = "promote" => n = m

Unpromoted ==
  /\ SizeInv'
  /\ SamePromotions
  /\ \/ UNCHANGED <<control, prepared, route>> /\ job'.for = job.for
     \/ /\ job.for \in {"seeds", "control"} /\ job'.for \in {"control", "none", "ring"}
        /\ UNCHANGED prepared /\ route' \in {route, "none"}
     \/ job.for = "ring" /\ job'.for = "sweep" /\ UNCHANGED <<control, route>>

LEMMA TasksPromote ==
  ASSUME OnePromotion,
         \/ UNCHANGED tasks
         \/ \E t \in tasks : t.who # "promote" /\ tasks' = tasks \ {t}
         \/ \E who, url : who # "promote" /\ Ensure(who, url)
  PROVE  SamePromotions
<1>1. CASE UNCHANGED tasks
  BY <1>1 DEF SamePromotions, OnePromotion, Promoting
<1>2. ASSUME NEW t \in tasks, t.who # "promote", tasks' = tasks \ {t} PROVE SamePromotions
  BY <1>2 DEF SamePromotions, OnePromotion, Promoting
<1>3. ASSUME NEW who, who # "promote", NEW url, Ensure(who, url) PROVE SamePromotions
  <2>1. PICK at : Ensured(tasks, who, url, at)
    BY <1>3 DEF Ensure
  <2>2. PICK n : n = [who |-> who, url |-> url, at |-> at]
    OBVIOUS
  <2>3. tasks' = tasks \cup {n} /\ n.who # "promote"
    BY <1>3, <2>1, <2>2 DEF Ensured
  <2> QED
    BY <2>3 DEF SamePromotions, OnePromotion, Promoting
<1> QED
  BY <1>1, <1>2, <1>3

LEMMA OpenPromotes ==
  ASSUME TasksInv, OnePromotion, NEW t \in tasks, Open(t)
  PROVE  SamePromotions
<1>1. PICK n : tasks' = (tasks \ {t}) \cup {n} /\ n.who = t.who
  <2>1. CASE PassGate(t)
    <3>1. PICK n : n = [who |-> t.who, url |-> t.url, at |-> At(t.url)]
      OBVIOUS
    <3> QED
      BY <2>1, <3>1 DEF PassGate, Ensured
  <2>2. ASSUME NEW at, tasks' = Replaced(t, at)
        PROVE  \E n : tasks' = (tasks \ {t}) \cup {n} /\ n.who = t.who
    <3>1. PICK n : n = [t EXCEPT !.at = at]
      OBVIOUS
    <3> QED
      BY <2>2, <3>1 DEF Replaced, TasksInv
  <2> QED
    BY <2>1, <2>2 DEF Open, Connect
<1> QED
  BY <1>1 DEF SamePromotions, OnePromotion, Promoting

LEMMA PoolStepSize ==
  ASSUME IInv, OpenInv, SizeInv, OnePromotion, PoolStep
  PROVE  Unpromoted
<1> USE DEF IInv
<1>1. JobShape(job)
  BY DEF JobInv
<1>2. ASSUME UNCHANGED <<control, spare, prepared, route, job>>, SamePromotions
      PROVE  Unpromoted
  BY <1>2, SizeFollows DEF Unpromoted, SizeInv
<1>3. ASSUME UNCHANGED <<control, spare, prepared, route>>, SamePromotions,
             \E stage, left : \/ job' = [job EXCEPT !.stage = stage]
                              \/ job' = [job EXCEPT !.left = left]
                              \/ job' = [job EXCEPT !.stage = stage, !.left = left]
      PROVE  Unpromoted
  BY <1>3, StageSize DEF Unpromoted
<1>4. ASSUME NEW t \in tasks, Open(t) PROVE Unpromoted
  <2>1. UNCHANGED <<control, spare, prepared, route, job>>
    BY <1>4 DEF Open
  <2> QED
    BY <1>2, <1>4, <2>1, OpenPromotes
<1>5. CASE ProbeNext \/ SweepNext
  <2>1. UNCHANGED <<control, spare, prepared, route>>
    BY <1>5 DEF ProbeNext, SweepNext
  <2>2. PICK url : job' = [job EXCEPT !.left = @ \ {url}] /\ Ensure("probe", url)
    BY <1>5 DEF ProbeNext, SweepNext
  <2>3. SamePromotions
    BY <2>2, TasksPromote
  <2> QED
    BY <1>3, <2>1, <2>2, <2>3
<1>6. ASSUME NEW t \in tasks, ProbeEnds(t) \/ SweepProbed(t) PROVE Unpromoted
  <2>1. UNCHANGED <<control, prepared, route>> /\ t.who = "probe" /\ tasks' = tasks \ {t}
    BY <1>6 DEF ProbeEnds, SweepProbed, Probing
  <2>2. SamePromotions
    BY <2>1, TasksPromote
  <2> QED
    BY <1>6, <2>1, <2>2, ProbeEndsSize, SweepProbedSize DEF Unpromoted
<1>7. CASE SeedsProbed
  <2>1. UNCHANGED <<tasks, route>>
    BY <1>7 DEF SeedsProbed
  <2> QED
    BY <1>7, <2>1, TasksPromote, SeedsProbedSize DEF Unpromoted
<1>8. CASE Discover \/ FullSizeProbed \/ TakeRing \/ SweepEnds \/ Enumerate
  <2>1. UNCHANGED <<control, spare, prepared, route, tasks>>
    BY <1>8 DEF Discover, FullSizeProbed, TakeRing, SweepEnds, Enumerate
  <2>2. \E stage, left : \/ job' = [job EXCEPT !.stage = stage]
                         \/ job' = [job EXCEPT !.stage = stage, !.left = left]
    BY <1>8 DEF Discover, FullSizeProbed, TakeRing, SweepEnds, Enumerate
  <2> QED
    BY <1>3, <2>1, <2>2, TasksPromote
<1>9. CASE ClientDown
  BY <1>2, <1>9, TasksPromote DEF ClientDown
<1>10. ASSUME NEW u \in updates, ReadsCache(u) PROVE Unpromoted
  BY <1>2, <1>10, TasksPromote DEF ReadsCache, poolVars
<1>11. ASSUME NEW u \in updates, UpdateEnds(u) PROVE Unpromoted
  <2>1. SamePromotions
    BY <1>11, TasksPromote DEF UpdateEnds
  <2> QED
    BY <1>11, <2>1, EndSize DEF Unpromoted
<1> QED
  BY <1>4, <1>5, <1>6, <1>7, <1>8, <1>9, <1>10, <1>11 DEF PoolStep

LEMMA DiscardSize ==
  ASSUME SizeInv, NEW to, Discard(to)
  PROVE  SizeInv'
<1>1. UNCHANGED <<control, prepared>>
  BY DEF Discard
<1>2. CASE job' = Job("none", "ended", {}, 0) /\ spare' = {}
  <2>1. /\ job'.for = "none" /\ job'.target = 0
        /\ IsFiniteSet(job'.passed) /\ IsFiniteSet(job'.healthy)
    BY <1>2, FreshJob
  <2>2. IsFiniteSet(spare')
    BY <1>2, FS_EmptySet
  <2> QED
    BY <1>1, <2>1, <2>2 DEF SizeInv
<1>3. CASE UNCHANGED <<job, spare>>
  BY <1>1, <1>3 DEF SizeInv
<1> QED
  BY <1>2, <1>3 DEF Discard

LEMMA NextSize ==
  ASSUME IInv, OpenInv, SizeInv, OnePromotion, [Next]_vars
  PROVE  SizeInv'
<1>1. CASE UNCHANGED <<control, spare, prepared, job>>
  BY <1>1 DEF SizeInv
<1>2. CASE PoolStep
  BY <1>2, PoolStepSize DEF Unpromoted
<1>3. TransferStep \/ TransferEnds \/ UNCHANGED vars => UNCHANGED <<control, spare, prepared, job>>
  BY DEF TransferStep, TransferEnds, AdoptRing, NoRingFound, Upload, Uploads, Promoted,
         HearDemotion, Promote, Wait, Announce, vars, poolVars
<1>4. \A url : Demote(url) => UNCHANGED <<control, spare, prepared, job>>
  BY DEF Demote, poolVars
<1>5. FallBack => UNCHANGED <<control, spare, prepared, job>> \/ Discard("none")
  BY DEF FallBack
<1>6. DirectRouteOpens \/ OtherProcess
        => UNCHANGED <<control, spare, prepared, job>> \/ Discard("direct")
  BY DEF DirectRouteOpens, OtherProcess, poolVars
<1> QED
  BY <1>1, <1>2, <1>3, <1>4, <1>5, <1>6, DiscardSize DEF Next

-----------------------------------------------------------------------------
LEMMA SignalsFinite ==
  ASSUME RingInv, SizeInv
  PROVE  /\ IsFiniteSet(active) /\ Cardinality(active) \in Nat
         /\ IsFiniteSet(known) /\ Cardinality(known) \in Nat
         /\ Cardinality(control) \in Nat
<1>1. IsFiniteSet(control) /\ IsFiniteSet(prepared.reserve)
  BY DEF SizeInv
<1>2. IsFiniteSet(control \cup prepared.reserve)
  BY <1>1, FS_Union
<1>3. active \in SUBSET (control \cup prepared.reserve) /\ known \in SUBSET (control \cup prepared.reserve)
  BY DEF RingInv
<1>4. IsFiniteSet(active) /\ IsFiniteSet(known)
  BY <1>2, <1>3, FS_Subset
<1> QED
  BY <1>1, <1>4, FS_CardinalityType

(* Nothing of the account changes. *)
LEMMA PayFollows ==
  ASSUME PayInv, SamePromotions, UNCHANGED <<controlVars, control, prepared, route>>, job'.for = job.for
  PROVE  PayInv'
<1>1. UNCHANGED <<active, known, owed, told, due, adopted, reserve>>
  BY DEF controlVars
<1>2. Promotions' = Promotions /\ Taken' = Taken /\ OnePromotion'
  BY <1>1 DEF SamePromotions, Promotions, Taken, OnePromotion
<1>3. Relaying' <=> Relaying
  BY DEF Relaying
<1>4. DemotionsAccounted'
  BY <1>1, <1>2, <1>3 DEF DemotionsAccounted, PayInv
<1> QED
  BY <1>1, <1>2, <1>3, <1>4 DEF PayInv, SamePromotions

LEMMA PoolStepPay ==
  ASSUME RingInv, PayInv, Unpromoted, UNCHANGED controlVars
  PROVE  PayInv'
<1>1. UNCHANGED <<active, known, owed, told, due, adopted, reserve>>
  BY DEF controlVars
<1>2. CASE UNCHANGED <<control, prepared, route>> /\ job'.for = job.for
  BY <1>2, PayFollows DEF Unpromoted
<1>3. OnePromotion' /\ (Promoting' <=> Promoting) /\ Promotions' = Promotions
  BY DEF Unpromoted, SamePromotions, OnePromotion, Promotions
<1>4. CASE job.for \in {"seeds", "control"} /\ UNCHANGED prepared /\ route' \in {route, "none"}
  <2>1. ~Relaying /\ ~Relaying' /\ ~prepared.ready
    BY <1>4 DEF PayInv, Relaying
  <2> QED
    BY <1>1, <1>3, <1>4, <2>1 DEF PayInv, DemotionsAccounted
<1>5. CASE job.for = "ring" /\ job'.for = "sweep" /\ UNCHANGED <<control, route>>
  <2>1. ~adopted /\ reserve = {} /\ (Relaying' <=> Relaying)
    BY <1>5 DEF PayInv, RingInv, Relaying
  <2>2. Taken' = Taken
    BY <1>1, <2>1 DEF Taken
  <2>3. DemotionsAccounted'
    BY <1>1, <1>3, <1>5, <2>1, <2>2 DEF PayInv, DemotionsAccounted
  <2> QED
    BY <1>1, <1>3, <1>5, <2>1, <2>3 DEF PayInv
<1> QED
  BY <1>2, <1>4, <1>5 DEF Unpromoted

(* The account is opened when the transfer falls back, and closed with it. *)
LEMMA FallBackPay ==
  ASSUME SizeInv, PayInv, FallBack
  PROVE  PayInv'
<1>1. /\ ~Relaying /\ job.for \in {"ring", "sweep"}
      /\ told = 0 /\ owed = 0 /\ ~adopted /\ ~Promoting
      /\ UNCHANGED <<control, prepared, owed, told, due, adopted, reserve>>
  BY DEF FallBack, Relaying, PayInv, Discard
<1>2. CASE /\ route' = "relays" /\ active' = control /\ known' = control
           /\ UNCHANGED <<job, tasks>>
  <2>1. ~Promoting' /\ Promotions' = 0 /\ Taken' = {} /\ OnePromotion'
    BY <1>1, <1>2 DEF Promoting, Promotions, Taken, OnePromotion, PayInv
  <2>2. Cardinality(control) \in Nat /\ Cardinality(control) >= MinControl
    BY <1>1, FS_CardinalityType DEF SizeInv
  <2>3. Cardinality(active') = Cardinality(control') /\ Cardinality(active') \in Nat
    BY <1>1, <1>2, <2>2
  <2>4. told' = 0 /\ owed' = 0 /\ ~adopted'
    BY <1>1
  <2>5. Cardinality(active') + told' + owed' = Cardinality(control') + Promotions'
    BY <2>1, <2>3, <2>4
  <2>6. known' = control' \cup Taken'
    BY <1>1, <1>2, <2>1
  <2>7. DemotionsAccounted'
    BY <1>1, <1>2, <2>2, <2>4, <2>5, <2>6 DEF DemotionsAccounted
  <2> QED
    BY <1>1, <1>2, <2>1, <2>4, <2>7 DEF PayInv, Relaying
<1>3. CASE Discard("none")
  <2>1. ~Relaying' /\ tasks' \subseteq tasks
    BY <1>3 DEF Discard, Relaying
  <2>2. ~Promoting' /\ OnePromotion'
    BY <1>1, <2>1 DEF Promoting, OnePromotion, PayInv
  <2>3. job'.for = job.for \/ job'.for = "none"
    BY <1>3, FreshJob DEF Discard
  <2> QED
    BY <1>1, <2>1, <2>2, <2>3 DEF PayInv, DemotionsAccounted
<1> QED
  BY <1>2, <1>3 DEF FallBack

LEMMA DirectPay ==
  ASSUME PayInv, DirectRouteOpens, UNCHANGED controlVars
  PROVE  PayInv'
<1>1. /\ ~Relaying /\ ~Relaying' /\ tasks' \subseteq tasks /\ UNCHANGED <<prepared>>
      /\ UNCHANGED <<owed, told, adopted, reserve>>
  BY DEF DirectRouteOpens, Discard, Relaying, controlVars
<1>2. ~Promoting' /\ OnePromotion'
  BY <1>1 DEF Promoting, OnePromotion, PayInv
<1>3. job'.for = job.for \/ job'.for = "none"
  BY FreshJob DEF DirectRouteOpens, Discard
<1> QED
  BY <1>1, <1>2, <1>3 DEF PayInv, DemotionsAccounted

LEMMA TransferEndsPay ==
  ASSUME PayInv, TransferEnds, Gone
  PROVE  PayInv'
<1>1. /\ ~Relaying' /\ tasks' = Probing /\ UNCHANGED <<job, prepared>>
      /\ owed' = 0 /\ told' = 0 /\ ~adopted' /\ reserve' = {}
  BY DEF TransferEnds, Gone, Relaying
<1>2. ~Promoting' /\ OnePromotion'
  BY <1>1 DEF Promoting, OnePromotion, Probing
<1> QED
  BY <1>1, <1>2 DEF PayInv, DemotionsAccounted

LEMMA SomePay ==
  ASSUME RingInv, SizeInv, PayInv, AdoptRing \/ HearDemotion \/ Wait \/ Announce
  PROVE  PayInv'
<1>1. UNCHANGED <<active, known, control, prepared, route, job, tasks>>
  BY DEF AdoptRing, HearDemotion, Wait, Announce, poolVars
<1>2. /\ (Relaying' <=> Relaying) /\ (Promoting' <=> Promoting) /\ Promotions' = Promotions
      /\ OnePromotion'
  BY <1>1 DEF AdoptRing, HearDemotion, Wait, Announce, Relaying, Promoting, Promotions, OnePromotion, PayInv
<1>3. told \in Nat /\ owed \in Nat
  BY DEF PayInv
<1>4. CASE AdoptRing
  <2>1. /\ adopted' /\ reserve' = prepared.reserve /\ due' /\ prepared.ready /\ ~adopted /\ Relaying
        /\ UNCHANGED <<owed, told>>
    BY <1>4 DEF AdoptRing, WokenByRing
  <2>2. Taken' = {} /\ Taken = {}
    BY <1>1, <2>1 DEF Taken
  <2>3. DemotionsAccounted'
    BY <1>1, <1>2, <2>1, <2>2 DEF PayInv, DemotionsAccounted
  <2> QED
    BY <1>1, <1>2, <2>1, <2>3 DEF PayInv
<1>5. CASE HearDemotion
  <2>1. /\ told > 0 /\ told' = told - 1 /\ owed' = owed + 1 /\ due' /\ Relaying
        /\ UNCHANGED <<adopted, reserve>>
    BY <1>5 DEF HearDemotion
  <2>2. Taken' = Taken
    BY <1>1, <2>1 DEF Taken
  <2>3. told' \in Nat /\ owed' \in Nat /\ owed' > 0
    BY <1>3, <2>1
  <2>4. Cardinality(active) + told + owed = Cardinality(control) + Promotions
    BY <2>1 DEF PayInv, DemotionsAccounted
  <2>5. DemotionsAccounted'
    <3>1. Cardinality(active) \in Nat /\ Cardinality(control) \in Nat /\ Promotions \in Nat
      BY SignalsFinite DEF Promotions
    <3> QED
      BY <1>1, <1>2, <1>3, <2>1, <2>2, <2>4, <3>1 DEF PayInv, DemotionsAccounted
  <2> QED
    BY <1>1, <1>2, <2>1, <2>3, <2>5 DEF PayInv
<1>6. CASE Wait
  <2>1. /\ owed = 0 \/ reserve = {}
        /\ UNCHANGED <<owed, told, adopted, reserve>>
    BY <1>6 DEF Wait
  <2>2. Taken' = Taken
    BY <1>1, <2>1 DEF Taken
  <2>3. DemotionsAccounted'
    BY <1>1, <1>2, <1>3, <2>1, <2>2 DEF PayInv, DemotionsAccounted
  <2> QED
    BY <1>1, <1>2, <2>1, <2>3 DEF PayInv
<1>7. CASE Announce
  <2>1. UNCHANGED <<owed, told, due, adopted, reserve>>
    BY <1>7 DEF Announce
  <2>2. Taken' = Taken
    BY <1>1, <2>1 DEF Taken
  <2>3. DemotionsAccounted'
    BY <1>1, <1>2, <2>1, <2>2 DEF PayInv, DemotionsAccounted
  <2> QED
    BY <1>1, <1>2, <2>1, <2>3 DEF PayInv
<1> QED
  BY <1>4, <1>5, <1>6, <1>7

LEMMA DemotePay ==
  ASSUME RingInv, SizeInv, PayInv, NEW url, Demote(url)
  PROVE  PayInv'
<1>1. /\ Relaying /\ Relaying' /\ url \in active /\ Cardinality(active) > MinControl
      /\ active' = active \ {url} /\ told' = told + 1
      /\ UNCHANGED <<known, owed, due, adopted, reserve, control, prepared, job, tasks>>
  BY DEF Demote, Relaying, poolVars
<1>2. (Promoting' <=> Promoting) /\ Promotions' = Promotions /\ Taken' = Taken /\ OnePromotion'
  BY <1>1 DEF Promoting, Promotions, Taken, OnePromotion, PayInv
<1>3. /\ IsFiniteSet(active) /\ Cardinality(active) \in Nat /\ Cardinality(control) \in Nat
      /\ told \in Nat /\ owed \in Nat /\ Promotions \in Nat /\ MinControl \in Nat
  BY SignalsFinite, PoolAssumption DEF PayInv, Promotions
<1>4. Cardinality(active \ {url}) = Cardinality(active) - 1
  BY <1>1, <1>3, FS_RemoveElement
<1>5. Cardinality(active) + told + owed = Cardinality(control) + Promotions
  BY <1>1 DEF PayInv, DemotionsAccounted
<1>6. Cardinality(active') = Cardinality(active) - 1
  BY <1>1, <1>4
<1>7. /\ Cardinality(active') + told' + owed' = Cardinality(control) + Promotions
      /\ Cardinality(active') >= MinControl
  BY <1>1, <1>3, <1>5, <1>6
<1>8. DemotionsAccounted'
  BY <1>1, <1>2, <1>7 DEF PayInv, DemotionsAccounted
<1>9. told' \in Nat /\ owed' \in Nat
  BY <1>1, <1>3
<1> QED
  BY <1>1, <1>2, <1>8, <1>9 DEF PayInv

LEMMA UploadPay ==
  ASSUME PayInv, (\E w \in Uploaders : Upload(w)) \/ (\E t \in tasks : Uploads(t))
  PROVE  PayInv'
<1>1. UNCHANGED <<controlVars, control, prepared, route, job>>
  BY DEF Upload, Uploads
<1>2. ASSUME NEW w \in Uploaders, Upload(w) PROVE SamePromotions
  <2>1. w # "promote"
    BY PoolAssumption
  <2>2. UNCHANGED tasks \/ \E url : Ensure(w, url)
    BY <1>2 DEF Upload
  <2> QED
    BY <2>1, <2>2, TasksPromote DEF PayInv
<1>3. ASSUME NEW t \in tasks, Uploads(t) PROVE SamePromotions
  <2>1. t.who # "promote" /\ tasks' = tasks \ {t}
    BY <1>3, PoolAssumption DEF Uploads
  <2> QED
    BY <2>1, TasksPromote DEF PayInv
<1>4. SamePromotions
  BY <1>2, <1>3
<1>5. job'.for = job.for
  BY <1>1
<1> QED
  BY <1>1, <1>4, <1>5, PayFollows

(* The spare taken is one the transfer does not signal on yet, and there is
   room for it. *)
LEMMA PromotePay ==
  ASSUME RingInv, SizeInv, PayInv, Promote
  PROVE  PayInv'
<1>1. /\ Relaying /\ Relaying' /\ due /\ ~Promoting /\ owed > 0
      /\ UNCHANGED <<control, prepared, job, owed, told, due, adopted>>
  BY DEF Promote, Relaying
<1>2. PICK url \in reserve :
        /\ reserve' = reserve \ {url}
        /\ IF url \in known \/ Cardinality(known) >= ControlMax
           THEN UNCHANGED <<active, known, tasks, pool>>
           ELSE /\ active' = active \cup {url}
                /\ known' = known \cup {url}
                /\ Ensure("promote", url)
  BY DEF Promote
<1>3. /\ adopted /\ url \in prepared.reserve \ control
      /\ known = control \cup (prepared.reserve \ reserve)
  BY <1>1, <1>2 DEF PayInv, DemotionsAccounted, SizeInv, Taken
<1>4. url \notin known /\ url \notin active
  BY <1>1, <1>2, <1>3 DEF PayInv
<1>5. Cardinality(known) < ControlMax
  <2>1. IsFiniteSet(control) /\ IsFiniteSet(prepared.reserve)
    BY DEF SizeInv
  <2>2. /\ IsFiniteSet(prepared.reserve \ {url})
        /\ Cardinality(prepared.reserve \ {url}) = Cardinality(prepared.reserve) - 1
    BY <1>3, <2>1, FS_RemoveElement
  <2>3. control \cap (prepared.reserve \ {url}) = {}
    BY DEF SizeInv
  <2>4. /\ IsFiniteSet(control \cup (prepared.reserve \ {url}))
        /\ Cardinality(control \cup (prepared.reserve \ {url}))
             = Cardinality(control) + Cardinality(prepared.reserve \ {url})
                 - Cardinality(control \cap (prepared.reserve \ {url}))
    BY <2>1, <2>2, FS_Union
  <2>5. Cardinality(control \cap (prepared.reserve \ {url})) = 0
    BY <2>3, FS_EmptySet
  <2>6. known \in SUBSET (control \cup (prepared.reserve \ {url}))
    BY <1>2, <1>3
  <2>7. Cardinality(known) <= Cardinality(control \cup (prepared.reserve \ {url}))
    BY <2>4, <2>6, FS_Subset
  <2>8. Cardinality(control) \in Nat /\ Cardinality(prepared.reserve) \in Nat /\ Cardinality(known) \in Nat
        /\ ControlCount \in Nat /\ ReserveCount \in Nat
    BY <2>1, FS_CardinalityType, SignalsFinite, PoolAssumption
  <2>9. Cardinality(control) <= ControlCount /\ Cardinality(prepared.reserve) <= ReserveCount
    BY DEF SizeInv
  <2> QED
    BY <2>2, <2>4, <2>5, <2>7, <2>8, <2>9 DEF ControlMax
<1>6. /\ active' = active \cup {url} /\ known' = known \cup {url} /\ Ensure("promote", url)
  <2>1. Cardinality(known) \in Nat /\ ControlMax \in Nat
    BY SignalsFinite, PoolAssumption DEF ControlMax
  <2>2. ~(url \in known \/ Cardinality(known) >= ControlMax)
    BY <1>4, <1>5, <2>1
  <2> QED
    BY <1>2, <2>2
<1>7. Promoting' /\ OnePromotion'
  <2>1. PICK at : Ensured(tasks, "promote", url, at)
    BY <1>6 DEF Ensure
  <2>2. PICK n : n = [who |-> "promote", url |-> url, at |-> at]
    OBVIOUS
  <2>3. tasks' = tasks \cup {n} /\ n.who = "promote"
    BY <2>1, <2>2 DEF Ensured
  <2> QED
    BY <1>1, <2>3 DEF Promoting, OnePromotion
<1>8. Promotions = 0 /\ Promotions' = 1
  BY <1>1, <1>7 DEF Promotions
<1>9. Taken' = Taken \cup {url}
  BY <1>1, <1>2, <1>3 DEF Taken
<1>10. /\ IsFiniteSet(active) /\ Cardinality(active) \in Nat /\ Cardinality(control) \in Nat
       /\ told \in Nat /\ owed \in Nat /\ MinControl \in Nat
  BY SignalsFinite, PoolAssumption DEF PayInv
<1>11. Cardinality(active \cup {url}) = Cardinality(active) + 1
  BY <1>4, <1>10, FS_AddElement
<1>12. Cardinality(active') = Cardinality(active) + 1
  BY <1>6, <1>11
<1>13. /\ Cardinality(active) + told + owed = Cardinality(control) + Promotions
       /\ Cardinality(active) >= MinControl /\ known = control \cup Taken
  BY <1>1 DEF PayInv, DemotionsAccounted
<1>14. /\ Cardinality(active') + told' + owed' = Cardinality(control') + Promotions'
       /\ Cardinality(active') >= MinControl
  BY <1>1, <1>8, <1>10, <1>12, <1>13
<1>15. DemotionsAccounted'
  BY <1>1, <1>6, <1>9, <1>13, <1>14 DEF DemotionsAccounted
<1> QED
  BY <1>1, <1>2, <1>3, <1>6, <1>7, <1>15 DEF PayInv

LEMMA PromotedPay ==
  ASSUME RingInv, SizeInv, PayInv, NEW t \in tasks, Promoted(t)
  PROVE  PayInv'
<1>1. /\ t.who = "promote" /\ tasks' = tasks \ {t} /\ owed' = owed - 1
      /\ UNCHANGED <<job, control, prepared, route, active, known, told, due, adopted, reserve>>
  BY DEF Promoted
<1>2. Promoting /\ Relaying /\ Relaying'
  BY <1>1 DEF Promoting, PayInv, Relaying
<1>3. ~Promoting' /\ OnePromotion'
  BY <1>1 DEF Promoting, OnePromotion, PayInv
<1>4. Promotions = 1 /\ Promotions' = 0 /\ Taken' = Taken
  BY <1>1, <1>2, <1>3 DEF Promotions, Taken
<1>5. told \in Nat /\ owed \in Nat /\ owed > 0 /\ Cardinality(active) \in Nat /\ Cardinality(control) \in Nat
  BY <1>2, SignalsFinite DEF PayInv
<1>6. Cardinality(active) + told + owed = Cardinality(control) + Promotions
  BY <1>2 DEF PayInv, DemotionsAccounted
<1>7. /\ Cardinality(active) + told + owed' = Cardinality(control) + Promotions'
      /\ owed' \in Nat /\ (owed' > 0 => owed > 0)
  BY <1>1, <1>4, <1>5, <1>6
<1>8. DemotionsAccounted'
  BY <1>1, <1>2, <1>4, <1>7 DEF PayInv, DemotionsAccounted
<1> QED
  BY <1>1, <1>2, <1>3, <1>7, <1>8 DEF PayInv

LEMMA NextPay ==
  ASSUME IInv, OpenInv, SizeInv, PayInv, [Next]_vars
  PROVE  PayInv'
<1> USE DEF IInv
<1>1. CASE PoolStep
  <2>1. UNCHANGED controlVars /\ OnePromotion
    BY <1>1 DEF PoolStep, PayInv
  <2>2. Unpromoted
    BY <1>1, <2>1, PoolStepSize
  <2> QED
    BY <2>1, <2>2, PoolStepPay
<1>2. CASE TransferStep
  BY <1>2, SomePay, TransferEndsPay, UploadPay, PromotePay, PromotedPay
  DEF TransferStep, NoRingFound
<1>3. ASSUME NEW url, Demote(url) PROVE PayInv'
  BY <1>3, DemotePay
<1>4. CASE (DirectRouteOpens \/ OtherProcess) /\ UNCHANGED controlVars
  <2>1. CASE OtherProcess
    <3>1. UNCHANGED <<control, prepared, route, job, tasks>>
      BY <2>1 DEF OtherProcess, poolVars
    <3>2. SamePromotions
      BY <3>1, TasksPromote DEF PayInv
    <3> QED
      BY <1>4, <3>1, <3>2, PayFollows
  <2> QED
    BY <1>4, <2>1, DirectPay
<1>5. CASE UNCHANGED vars
  <2>1. UNCHANGED <<controlVars, control, prepared, route, job, tasks>>
    BY <1>5 DEF vars, poolVars
  <2>2. SamePromotions
    BY <2>1, TasksPromote DEF PayInv
  <2> QED
    BY <2>1, <2>2, PayFollows
<1> QED
  BY <1>1, <1>2, <1>3, <1>4, <1>5, FallBackPay, TransferEndsPay DEF Next

(* No demotion is lost on its way to promote_loop, the set of control relays
   never falls below MinControl, every spare taken is taken on, and promote_loop
   does not sleep on a debt it could pay (ControlRelaySet::gave_up, promote_loop
   and start_workers): what EveryDemotionAnswered rests on. *)
THEOREM DemotionsKept == Spec => []DemotionsAccounted
<1>1. Init => SizeInv /\ PayInv
  <2> SUFFICES ASSUME Init PROVE SizeInv /\ PayInv
    OBVIOUS
  <2>1. /\ route = "undecided" /\ tasks = {} /\ control = {} /\ spare = {}
        /\ job = Job("seeds", "probe", Seeds, ControlCount) /\ prepared = NoRing
        /\ told = 0 /\ owed = 0 /\ adopted = FALSE /\ reserve = {}
    BY DEF Init, PoolInit
  <2>2. /\ job.for = "seeds" /\ job.target = ControlCount /\ job.passed = {} /\ job.healthy = {}
        /\ prepared.ready = FALSE /\ prepared.reserve = {}
    BY <2>1 DEF Job, NoRing
  <2>3. IsFiniteSet({}) /\ Cardinality({}) = 0 /\ ControlCount \in Nat /\ ReserveCount \in Nat
    BY FS_EmptySet, PoolAssumption
  <2>4. SizeInv
    <3>1. /\ IsFiniteSet(job.passed) /\ IsFiniteSet(job.healthy) /\ IsFiniteSet(spare)
          /\ IsFiniteSet(control) /\ IsFiniteSet(prepared.reserve)
      BY <2>1, <2>2, <2>3
    <3>2. Cardinality(control) = 0 /\ Cardinality(job.healthy) = 0 /\ Cardinality(prepared.reserve) = 0
      BY <2>1, <2>2, <2>3
    <3>3. prepared.reserve \cap control = {}
      BY <2>1
    <3> HIDE DEF Init
    <3> QED
      BY <2>2, <2>3, <3>1, <3>2, <3>3 DEF SizeInv
  <2>5. PayInv
    BY <2>1, <2>2 DEF PayInv, OnePromotion, Promoting, Relaying, DemotionsAccounted
  <2> QED
    BY <2>4, <2>5
<1>2. IInv /\ OpenInv /\ SizeInv /\ PayInv /\ [Next]_vars => SizeInv' /\ PayInv'
  BY NextSize, NextPay DEF PayInv
<1>3. PayInv => DemotionsAccounted
  BY DEF PayInv
<1> QED
  BY <1>1, <1>2, <1>3, Invariance, OpenHolds, PTL DEF Spec
=============================================================================
