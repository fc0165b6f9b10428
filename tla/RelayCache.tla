------------------------------ MODULE RelayCache ------------------------------
(***************************************************************************)
(* What transfers learn about relays, kept in one file that several        *)
(* processes of one machine change at once                                 *)
(* (code/nostr_file/relay_cache.rs).  A change is a locked                 *)
(* read-modify-write: the file is read again under an exclusive lock,      *)
(* changed, and renamed into place.  A process that stops in between       *)
(* leaves the file as it was.  Where the file cannot be locked at all each *)
(* change is made in memory, to an empty cache.                            *)
(*                                                                         *)
(* The file keeps one entry per relay and the list of candidates of the    *)
(* last transfer.  Latencies, times and the ring's cursor only order the   *)
(* relays; the model leaves their order open.  Probes recorded here are    *)
(* always of full size, so one flag stands for both capabilities.          *)
(***************************************************************************)
EXTENDS Naturals, FiniteSets

CONSTANTS
  Seeds,        \* the relays everybody knows: SEED_RELAYS
  Others,       \* the relays discovery may name
  Reliable,     \* relays that take and serve everything
  Elsewhere,    \* the relays another process probes
  MaxFailures,  \* the failures in a row the model counts to
  MaxForeign    \* how many changes another process makes

ASSUME CacheAssumption ==
  /\ Seeds \cap Others = {} /\ Reliable \subseteq Seeds \cup Others /\ Elsewhere \subseteq Others
  /\ MaxForeign \in Nat /\ MaxFailures \in Nat \ {0}

VARIABLES
  file,      \* the cache file
  updates,   \* the changes underway, of this process and of the other
  foreign,   \* how many changes the other process has begun
  usable     \* whether the cache's directory can be used

cacheVars == <<file, updates, foreign, usable>>

Relays == Seeds \cup Others
Unknown == [known |-> FALSE, fails |-> 0, proven |-> FALSE]
Proven == [known |-> TRUE, fails |-> 0, proven |-> TRUE]
Empty == [relays |-> [r \in Relays |-> Unknown], listed |-> {}]

(***************************************************************************)
(* The file of an earlier run lists and trusts anything, a relay that has  *)
(* become a seed since included. A first run starts like one without file. *)
(***************************************************************************)
CacheInit ==
  /\ file = [relays |-> [r \in Relays |-> Proven], listed |-> Relays]
  /\ updates = {}
  /\ foreign = 0
  /\ usable \in BOOLEAN

-----------------------------------------------------------------------------
(* The changes. *)

Change(op, found, failed) == [op |-> op, found |-> found, failed |-> failed]

Failed(entry) ==
  [known |-> TRUE, proven |-> FALSE,
   fails |-> IF entry.fails < MaxFailures THEN entry.fails + 1 ELSE MaxFailures]

RecordProbes(cache, passed, failed) ==
  [cache EXCEPT !.relays = [r \in Relays |->
     IF r \in passed THEN Proven ELSE IF r \in failed THEN Failed(@[r]) ELSE @[r]]]

RecordDiscovered(cache, urls) ==
  [cache EXCEPT !.relays = [r \in Relays |->
     IF r \in urls THEN [@[r] EXCEPT !.known = TRUE] ELSE @[r]]]

(* The list of the last transfer, without what has become a seed since. *)
BugListsSeeds(cache) == cache.listed
Cached(cache) == cache.listed \ Seeds

KnownWorking(cache) == {r \in Others : cache.relays[r].proven}

Candidates(cache, discovered) == KnownWorking(cache) \cup discovered \cup Cached(cache)

MergeCandidates(cache, discovered) ==
  [RecordDiscovered(cache, discovered \cup Cached(cache))
     EXCEPT !.listed = Candidates(cache, discovered)]

Applied(change, cache) ==
  CASE change.op = "merge" -> MergeCandidates(cache, change.found)
    [] change.op = "probes" -> RecordProbes(cache, change.found, change.failed)
    [] change.op = "list" -> RecordDiscovered(cache, change.found)
    [] change.op = "ring" -> cache   \* moves the cursor

-----------------------------------------------------------------------------
(* The locked read-modify-write. *)

(* `cache` is what the change will be applied to. *)
Update(by, change) == [by |-> by, change |-> change, locked |-> FALSE, cache |-> Empty]

BugLocksShared(u) == TRUE
Exclusive(u) == \A v \in updates : ~v.locked

(* The lock is taken and the file read again under it. *)
ReadLocked(u) ==
  /\ usable /\ u \in updates /\ ~u.locked /\ Exclusive(u)
  /\ updates' = (updates \ {u}) \cup {[u EXCEPT !.locked = TRUE, !.cache = file]}
  /\ UNCHANGED <<file, foreign, usable>>

(* The result is renamed over the file, unless the other process stops.    *)
WriteBack(u) ==
  /\ u \in updates /\ u.locked
  /\ \/ file' = Applied(u.change, u.cache)
     \/ u.by = "foreign" /\ UNCHANGED file

(* Without a lock nothing is kept. *)
NotLocked(u) == ~usable /\ u \in updates /\ UNCHANGED file

(* Another process has probed a relay. *)
ForeignChange ==
  /\ usable /\ foreign < MaxForeign
  /\ foreign' = foreign + 1
  /\ \E r \in Elsewhere : \E failed \in SUBSET ({r} \ Reliable) :
       updates' = updates \cup {Update("foreign", Change("probes", {r} \ failed, failed))}
  /\ UNCHANGED <<file, usable>>

-----------------------------------------------------------------------------
(***************************************************************************)
(* No process overwrites what another has learned: whenever the file       *)
(* changes, one process's change has been applied to what the file held at *)
(* that moment (update_locked reads again under the lock it writes under). *)
(***************************************************************************)
UpdatesCompose == [][\E u \in updates : file' = Applied(u.change, file)]_file
=============================================================================
