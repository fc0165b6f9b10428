------------------------------ MODULE RelayPool -------------------------------
(***************************************************************************)
(* Finding relays that carry a transfer (code/nostr_file/relay_pool.rs) on *)
(* one pool of sockets (pool.rs): the control relays the offer names, the  *)
(* ring that stores the pieces, prepared behind the exchange, and behind   *)
(* the transfer a sweep of all other relays.  A probe is a write and a     *)
(* read at the size the job needs; every full-size verdict goes into the   *)
(* cache.                                                                  *)
(*                                                                         *)
(* One task works through these jobs one after the other, so `job` is a    *)
(* single record; its probes, the uploaders and the promotion of a spare   *)
(* open sockets concurrently.  An action is what a task does between two   *)
(* awaits.                                                                 *)
(***************************************************************************)
EXTENDS RelayCache

CONSTANTS
  ControlCount, MinControl,   \* relays an offer aims to name, and must name
  RingCount, MinRing,         \* relays a ring aims for, and must have
  ReserveCount,               \* spare relays to keep
  ProbeWorkers, SweepWorkers, \* probes at once
  SaveBatch,                  \* verdicts the sweep saves at a time
  Uploaders                   \* the tasks that publish chunks

ASSUME PoolAssumption ==
  /\ {ControlCount, MinControl, RingCount, MinRing, ReserveCount,
      ProbeWorkers, SweepWorkers, SaveBatch} \subseteq Nat
  /\ 0 < MinControl /\ MinControl <= ControlCount
  /\ 0 < MinRing /\ MinRing <= RingCount
  /\ ProbeWorkers > 0 /\ SweepWorkers > 0 /\ SaveBatch > 0
  /\ Uploaders \cap {"probe", "promote"} = {}

VARIABLES
  pool,      \* shut: the flag; down: the client has ended; opened: the book;
             \* sockets: what the client really has
  tasks,     \* who is opening or using which relay
  job,       \* the probing or discovery underway
  control,   \* the control relays
  spare,     \* what finding them left over
  prepared,  \* the ring and the reserve, once there is a ring
  route,     \* "undecided", "direct", "relays", or "none"
  carrying,  \* the relays this transfer has opened for its own use
  orphan     \* the pool was shut down beneath a preparation still running

poolVars == <<pool, tasks, job, control, spare, prepared, route, carrying, orphan>>

Least(m, n) == IF m < n THEN m ELSE n
Sized(S, n) == {T \in SUBSET S : Cardinality(T) = Least(n, Cardinality(S))}

Job(for, stage, left, target) ==
  [for |-> for, stage |-> stage, left |-> left, target |-> target,
   checked |-> {}, passed |-> {}, healthy |-> {}]

NoRing == [ready |-> FALSE, ring |-> {}, reserve |-> {}]

PoolInit ==
  /\ CacheInit
  /\ pool = [shut |-> FALSE, down |-> FALSE, opened |-> {}, sockets |-> {}]
  /\ tasks = {}
  /\ job = Job("seeds", "probe", Seeds, ControlCount)
  /\ control = {}
  /\ spare = {}
  /\ prepared = NoRing
  /\ route = "undecided"
  /\ carrying = {}
  /\ orphan = FALSE

-----------------------------------------------------------------------------
(* The pool. *)

(* ensure: refused after the shutdown, done when the relay is open, and    *)
(* else one caller at a time connects. Whoever has to wait for its turn    *)
(* reads the book again then, and the shutdown not.                        *)
BugNoGate(url) == TRUE
GateIsFree(url) == \A t \in tasks : t.url = url => t.at # "connecting"

At(url) ==
  CASE url \in pool.opened -> "open"
    [] url \notin pool.opened /\ pool.down -> "failed"
    [] OTHER -> "connecting"

Ensured(others, who, url, at) ==
  /\ tasks' = others \cup {[who |-> who, url |-> url, at |-> at]}
  /\ pool' = [pool EXCEPT !.sockets = IF at = "connecting" THEN @ \cup {url} ELSE @]

Ensure(who, url) ==
  Ensured(tasks, who, url,
          IF pool.shut THEN "failed"
          ELSE IF url \in pool.opened \/ GateIsFree(url) THEN At(url) ELSE "gate")

PassGate(t) ==
  /\ t \in tasks /\ t.at = "gate" /\ GateIsFree(t.url)
  /\ Ensured(tasks \ {t}, t.who, t.url, At(t.url))

Replaced(t, at) == (tasks \ {t}) \cup {[t EXCEPT !.at = at]}

Connect(t) ==
  /\ t \in tasks /\ t.at = "connecting"
  /\ \/ /\ ~pool.down
        /\ pool' = [pool EXCEPT !.opened = @ \cup {t.url}]
        /\ tasks' = Replaced(t, "open")
     \/ /\ pool.down \/ t.url \notin Reliable
        /\ pool' = [pool EXCEPT !.sockets = @ \ {t.url}]
        /\ tasks' = Replaced(t, "failed")

Open(t) ==
  /\ PassGate(t) \/ Connect(t)
  /\ UNCHANGED <<cacheVars, job, control, spare, prepared, route, carrying, orphan>>

Close(urls) == [pool EXCEPT !.opened = @ \ urls, !.sockets = @ \ urls]

(* shutdown sets the flag first, so that work still running can tell what  *)
(* the teardown does from what a relay does; then the client ends and the  *)
(* book is cleared.                                                        *)
Shut == [pool EXCEPT !.shut = TRUE]

ClientDown ==
  /\ pool.shut /\ ~pool.down
  /\ pool' = [pool EXCEPT !.down = TRUE, !.opened = {}, !.sockets = {}]
  /\ UNCHANGED <<cacheVars, tasks, job, control, spare, prepared, route, carrying, orphan>>

-----------------------------------------------------------------------------
(* Probing. *)

Probing == {t \in tasks : t.who = "probe"}

(* A relay that takes everything passes unless the pool fails beneath it.  *)
Verdicts(t) ==
  {passes \in BOOLEAN :
     /\ passes => t.at = "open" /\ t.url \in pool.sockets
     /\ ~passes => t.at = "failed" \/ t.url \notin pool.sockets \/ t.url \notin Reliable}

(* health_check: its workers stop claiming once the target has passed, and *)
(* a relay with no further job keeps no socket.                            *)
Foreground == job.stage = "probe" /\ job.for # "sweep"
TargetMet == Cardinality(job.healthy) >= job.target

ProbeNext ==
  /\ Foreground /\ ~TargetMet /\ Cardinality(Probing) < ProbeWorkers
  /\ \E url \in job.left :
       /\ job' = [job EXCEPT !.left = @ \ {url}]
       /\ Ensure("probe", url)
  /\ UNCHANGED <<cacheVars, control, spare, prepared, route, carrying, orphan>>

ProbeEnds(t) ==
  /\ Foreground /\ t \in Probing /\ t.at \in {"open", "failed"}
  /\ \E passes \in Verdicts(t) :
       LET keep == passes /\ ~TargetMet IN
       /\ job' = [job EXCEPT !.checked = @ \cup {t.url},
                             !.passed = IF passes THEN @ \cup {t.url} ELSE @,
                             !.healthy = IF keep THEN @ \cup {t.url} ELSE @]
       /\ pool' = IF keep THEN pool ELSE Close({t.url})
  /\ tasks' = tasks \ {t}
  /\ UNCHANGED <<cacheVars, control, spare, prepared, route, carrying, orphan>>

PassOver == Foreground /\ Probing = {} /\ (TargetMet \/ job.left = {})

(* The job that asks the cache for a change waits for it. *)
Ask(change) == updates' = updates \cup {Update(job.for, change)}

-----------------------------------------------------------------------------
(* The control relays. *)

(* Once the offer's relays are known the ring is prepared, from what their *)
(* search left over, or from a search of its own.                          *)
Excluded == Seeds \cup control'

PrepareRing(leftover, unprobed) ==
  /\ spare' = leftover \ Excluded
  /\ job' = Job("ring", "probe", unprobed \ Excluded,
                IF Cardinality(spare') < RingCount THEN RingCount - Cardinality(spare') ELSE 0)

DiscoverRing ==
  /\ spare' = {}
  /\ job' = Job("ring", "discover", {}, RingCount)

(* The seeds fill the set, or a search fills the gap. *)
SeedsProbed ==
  /\ PassOver /\ job.for = "seeds"
  /\ control' = job.healthy
  /\ IF Cardinality(job.healthy) = ControlCount
     THEN DiscoverRing
     ELSE /\ job' = Job("control", "discover", {}, ControlCount - Cardinality(job.healthy))
          /\ UNCHANGED spare
  /\ UNCHANGED <<cacheVars, pool, tasks, prepared, route, carrying, orphan>>

(* discover_candidates: the seeds are asked, and those that carry nothing  *)
(* are closed again; then what they name is merged with the cache.         *)
Discover ==
  /\ job.stage = "discover" /\ job.for # "sweep"
  /\ \E found \in SUBSET Others :
       /\ pool.shut => found = {}
       /\ Ask(Change("merge", found, {}))
  /\ pool' = Close(Seeds \ control)
  /\ job' = [job EXCEPT !.stage = "merge"]
  /\ UNCHANGED <<file, foreign, usable, tasks, control, spare, prepared, route, carrying, orphan>>

(* probe_storage_candidates records what its pass has learned. *)
FullSizeProbed ==
  /\ PassOver /\ job.for \in {"control", "ring"}
  /\ Ask(Change("probes", job.passed, job.checked \ job.passed))
  /\ job' = [job EXCEPT !.stage = "record"]
  /\ UNCHANGED <<file, foreign, usable, pool, tasks, control, spare, prepared, route, carrying, orphan>>

Merged(u) ==
  /\ job.stage = "merge"
  /\ job' = [job EXCEPT !.stage = "probe",
                        !.left = Candidates(u.cache, u.change.found) \ control]
  /\ UNCHANGED <<pool, control, spare, prepared, route>>

(* What the search for control relays proved and did not need is the      *)
(* ring's.  With too few relays there is no fallback.                     *)
ControlResolved(u) ==
  /\ job.stage = "record" /\ job.for = "control"
  /\ control' = control \cup job.healthy
  /\ IF Cardinality(control') < MinControl
     THEN /\ pool' = Shut
          /\ route' = "none"
          /\ job' = Job("none", "ended", {}, 0)
          /\ UNCHANGED spare
     ELSE PrepareRing(job.passed \ job.healthy, job.left) /\ UNCHANGED <<pool, route>>
  /\ UNCHANGED prepared

-----------------------------------------------------------------------------
(* The ring. *)

Healthy == spare \cup job.healthy

RingProbed(u) ==
  /\ job.stage = "record" /\ job.for = "ring"
  /\ job' = [job EXCEPT !.stage = IF Cardinality(Healthy) < MinRing THEN "ended" ELSE "take"]
  /\ UNCHANGED <<pool, control, spare, prepared, route>>

TakeRing ==
  /\ job.stage = "take"
  /\ Ask(Change("ring", {}, {}))
  /\ job' = [job EXCEPT !.stage = "ring"]
  /\ UNCHANGED <<file, foreign, usable, pool, tasks, control, spare, prepared, route, carrying, orphan>>

(* The ring is cut from what is healthy wherever the cursor stands, and    *)
(* the fastest of the rest are the reserve; what is not in the ring is     *)
(* closed, the reserve too.                                                *)
RingTaken(u) ==
  /\ job.stage = "ring"
  /\ \E ring \in Sized(Healthy, RingCount) :
       \E reserve \in Sized(Healthy \ ring, ReserveCount) :
         prepared' = [ready |-> TRUE, ring |-> ring, reserve |-> reserve]
  /\ pool' = Close(Healthy \ prepared'.ring)
  /\ job' = Job("sweep", "discover", job.left, 0)
  /\ spare' = {}
  /\ UNCHANGED <<control, route>>

-----------------------------------------------------------------------------
(* The sweep. *)

(* Never probed and never closed: what carries this transfer. *)
CarryingOf(ctl) == ctl \cup prepared.ring \cup prepared.reserve

(* The set of control relays is the one the ring was prepared beside; what *)
(* has been promoted since was in the reserve.                             *)
Enumerate ==
  /\ job.for = "sweep" /\ job.stage = "discover"
  /\ \E found \in SUBSET Others :
       LET urls == (job.left \cup found) \ (Seeds \cup CarryingOf(control)) IN
       /\ IF urls = {}
          THEN job' = [job EXCEPT !.stage = "ended"] /\ UNCHANGED updates
          ELSE /\ job' = [job EXCEPT !.stage = "list", !.left = urls]
               /\ Ask(Change("list", urls, {}))
  /\ pool' = Close(Seeds \ control)
  /\ UNCHANGED <<file, foreign, usable, tasks, control, spare, prepared, route, carrying, orphan>>

SweepListed(u) ==
  /\ job.for = "sweep" /\ job.stage = "list"
  /\ job' = [job EXCEPT !.stage = IF pool.shut THEN "ended" ELSE "probe"]
  /\ UNCHANGED <<pool, control, spare, prepared, route>>

Sweeping == job.for = "sweep" /\ job.stage = "probe"
Saving == {u \in updates : u.by = "sweep"}

SweepNext ==
  /\ Sweeping /\ ~pool.shut /\ Cardinality(Probing) + Cardinality(Saving) < SweepWorkers
  /\ \E url \in job.left :
       /\ job' = [job EXCEPT !.left = @ \ {url}]
       /\ Ensure("probe", url)
  /\ UNCHANGED <<cacheVars, control, spare, prepared, route, carrying, orphan>>

(* A verdict that outlived the stop says nothing about the relay. *)
BugKeepsLateVerdicts(t) == TRUE
Counts(t) == ~pool.shut

SweepProbed(t) ==
  /\ Sweeping /\ t \in Probing /\ t.at \in {"open", "failed"}
  /\ tasks' = tasks \ {t}
  /\ IF Counts(t)
     THEN \E passes \in Verdicts(t) :
            LET passed == IF passes THEN job.passed \cup {t.url} ELSE job.passed
                checked == job.checked \cup {t.url} IN
            /\ IF Cardinality(checked) >= SaveBatch
               THEN /\ Ask(Change("probes", passed, checked \ passed))
                    /\ job' = [job EXCEPT !.passed = {}, !.checked = {}]
               ELSE /\ job' = [job EXCEPT !.passed = passed, !.checked = checked]
                    /\ UNCHANGED updates
            /\ pool' = Close({t.url})
     ELSE UNCHANGED <<job, updates, pool>>
  /\ UNCHANGED <<file, foreign, usable, control, spare, prepared, route, carrying, orphan>>

SweepEnds ==
  /\ Sweeping /\ Probing = {} /\ Saving = {} /\ (job.left = {} \/ pool.shut)
  /\ job' = [job EXCEPT !.stage = "ended"]
  /\ IF job.checked = {} THEN UNCHANGED updates
     ELSE Ask(Change("probes", job.passed, job.checked \ job.passed))
  /\ UNCHANGED <<file, foreign, usable, pool, tasks, control, spare, prepared, route, carrying, orphan>>

-----------------------------------------------------------------------------
(* A change is over, and the job that asked for it goes on. *)

GoesOn(u) == Merged(u) \/ ControlResolved(u) \/ RingProbed(u) \/ RingTaken(u) \/ SweepListed(u)

Awaited(u) == u.by = job.for /\ job.stage \in {"merge", "record", "ring", "list"}

UpdateEnds(u) ==
  /\ WriteBack(u) \/ NotLocked(u)
  /\ updates' = updates \ {u}
  /\ IF Awaited(u) THEN GoesOn(u) ELSE UNCHANGED <<pool, job, control, spare, prepared, route>>
  /\ UNCHANGED <<foreign, usable, tasks, carrying, orphan>>

ReadsCache(u) == ReadLocked(u) /\ UNCHANGED poolVars

OtherProcess == ForeignChange /\ UNCHANGED poolVars

-----------------------------------------------------------------------------
(* The end of the transfer. *)

(* Fallback::discard: the preparation is aborted where it waits, and the   *)
(* pool is shut down; a change already handed to the cache is still made,  *)
(* and a sweep is not the preparation's to abort.                          *)
Discard(to) ==
  /\ route' = to
  /\ pool' = Shut
  /\ IF job.for = "ring"
     THEN job' = Job("none", "ended", {}, 0) /\ tasks' = tasks \ Probing /\ spare' = {}
     ELSE UNCHANGED <<job, tasks, spare>>
  /\ UNCHANGED <<control, prepared, carrying, orphan>>

DirectRouteOpens ==
  /\ route = "undecided" /\ job.for \in {"ring", "sweep"}
  /\ Discard("direct")
  /\ UNCHANGED cacheVars

(* The relayed transfer is over, whatever came of it. Its tasks are ended, *)
(* but nobody aborts the preparation of a ring that has not resolved.      *)
StillPreparing == job.for = "ring" /\ job.stage # "ended"

TransferEnds ==
  /\ route = "relays"
  /\ route' = "none"
  /\ pool' = Shut
  /\ tasks' = Probing
  /\ carrying' = {}
  /\ orphan' = StillPreparing
  /\ UNCHANGED <<cacheVars, job, control, spare, prepared>>
=============================================================================
