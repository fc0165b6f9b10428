---------------------------- MODULE ControlRelays -----------------------------
(***************************************************************************)
(* The relays a relayed transfer signals on, over the pool that RelayPool  *)
(* fills: ControlRelaySet and ControlChannel of                            *)
(* code/nostr_file/control.rs, and start_workers and promote_loop of       *)
(* upload.rs.  The sender stops publishing to a relay that gives up most   *)
(* of what it is handed, takes a spare one in its place and names its set  *)
(* in every announcement; the receiver takes on what an announcement       *)
(* names.                                                                  *)
(*                                                                         *)
(* A message is published to every relay of the sender's set, and heard if *)
(* one of those that took it serves it to the receiver.  The share of      *)
(* refusals that condemns a relay is left open.                            *)
(***************************************************************************)
EXTENDS RelayPool

VARIABLES
  active,    \* what the sender publishes to
  known,     \* what the sender has ever taken on, and listens to
  owed,      \* replacements owed for demoted relays
  told,      \* demotions promote_loop has not taken from its channel
  due,       \* promote_loop has been woken
  adopted,   \* start_workers has taken the ring and the reserve
  reserve,   \* the spare relays left
  heard      \* what the receiver has ever taken on, and listens to

controlVars == <<active, known, owed, told, due, adopted, reserve, heard>>
vars == <<cacheVars, poolVars, controlVars>>

ControlMax == ControlCount + ReserveCount

Init ==
  /\ PoolInit
  /\ active = {} /\ known = {} /\ heard = {}
  /\ owed = 0 /\ told = 0 /\ due = FALSE
  /\ adopted = FALSE /\ reserve = {}

Relaying == route = "relays"

(* The fallback: both sides open the channel on the relays the offer       *)
(* named, which the probes have left open.                                 *)
FallBack ==
  /\ route = "undecided" /\ job.for \in {"ring", "sweep"}
  /\ \/ /\ route' = "relays"
        /\ active' = control /\ known' = control /\ heard' = control
        /\ carrying' = control
        /\ UNCHANGED <<pool, job, tasks, control, spare, prepared, orphan>>
     \/ /\ Discard("none")   \* the file cannot be read
        /\ UNCHANGED <<active, known, heard>>
  /\ UNCHANGED <<cacheVars, owed, told, due, adopted, reserve>>

(* The ring has resolved: the reserve is the transfer's, and what is owed  *)
(* is paid from it.                                                        *)
BugWakesNobody == due
WokenByRing == TRUE

AdoptRing ==
  /\ Relaying /\ prepared.ready /\ ~adopted
  /\ adopted' = TRUE
  /\ reserve' = prepared.reserve
  /\ due' = WokenByRing
  /\ UNCHANGED <<cacheVars, poolVars, active, known, owed, told, heard>>

(* The transfer's own state goes with it. *)
Gone ==
  /\ active' = {} /\ known' = {} /\ heard' = {} /\ reserve' = {}
  /\ owed' = 0 /\ told' = 0 /\ due' = FALSE /\ adopted' = FALSE

(* No ring: the transfer cannot go on. *)
NoRingFound ==
  /\ Relaying /\ job.for = "ring" /\ job.stage = "ended"
  /\ TransferEnds /\ Gone

(* An uploader publishes to a relay of the ring, opening it if need be. *)
Upload(w) ==
  /\ Relaying /\ adopted
  /\ \A t \in tasks : t.who # w
  /\ \E url \in prepared.ring \ carrying :
       IF url \in pool.opened
       THEN carrying' = carrying \cup {url} /\ UNCHANGED <<tasks, pool>>
       ELSE Ensure(w, url) /\ UNCHANGED carrying
  /\ UNCHANGED <<cacheVars, job, control, spare, prepared, route, orphan, controlVars>>

Uploads(t) ==
  /\ t \in tasks /\ t.who \in Uploaders /\ t.at \in {"open", "failed"}
  /\ tasks' = tasks \ {t}
  /\ carrying' = IF t.at = "open" THEN carrying \cup {t.url} ELSE carrying
  /\ UNCHANGED <<cacheVars, pool, job, control, spare, prepared, route, orphan, controlVars>>

-----------------------------------------------------------------------------
(* Demotion and promotion. *)

(* gave_up: every retry rejected. A set of MinControl relays is kept.      *)
Demote(url) ==
  /\ Relaying /\ url \in active \ Reliable
  /\ Cardinality(active) > MinControl
  /\ active' = active \ {url}
  /\ told' = told + 1
  /\ UNCHANGED <<cacheVars, poolVars, known, owed, due, adopted, reserve, heard>>

HearDemotion ==
  /\ Relaying /\ told > 0 /\ ~due
  /\ told' = told - 1
  /\ owed' = owed + 1
  /\ due' = TRUE
  /\ UNCHANGED <<cacheVars, poolVars, active, known, adopted, reserve, heard>>

Promoting == \E t \in tasks : t.who = "promote"

(* The next spare is taken on: published to and subscribed to at once,     *)
(* whether or not it answers.                                              *)
Promote ==
  /\ Relaying /\ due /\ ~Promoting /\ owed > 0
  /\ \E url \in reserve :
       /\ reserve' = reserve \ {url}
       /\ IF url \in known \/ Cardinality(known) >= ControlMax
          THEN UNCHANGED <<active, known, tasks, pool>>
          ELSE /\ active' = active \cup {url}
               /\ known' = known \cup {url}
               /\ Ensure("promote", url)
  /\ UNCHANGED <<cacheVars, job, control, spare, prepared, route, carrying, orphan,
                 owed, told, due, adopted, heard>>

Promoted(t) ==
  /\ t \in tasks /\ t.who = "promote" /\ t.at \in {"open", "failed"}
  /\ tasks' = tasks \ {t}
  /\ carrying' = IF t.at = "open" THEN carrying \cup {t.url} ELSE carrying
  /\ owed' = owed - 1
  /\ UNCHANGED <<cacheVars, pool, job, control, spare, prepared, route, orphan,
                 active, known, told, due, adopted, reserve, heard>>

(* Nothing is owed or there is no spare: the loop waits again. *)
Wait ==
  /\ due /\ ~Promoting /\ (owed = 0 \/ reserve = {})
  /\ due' = FALSE
  /\ UNCHANGED <<cacheVars, poolVars, active, known, owed, told, adopted, reserve, heard>>

(* An announcement, repeated for as long as the transfer lasts: some       *)
(* relays take it, and the receiver hears it from one it listens to. Taken *)
(* by none, it ends the transfer.                                          *)
Announced == active

Announce ==
  /\ Relaying
  /\ \E took \in SUBSET active :
       /\ active \cap Reliable \subseteq took /\ took # {}
       /\ \/ took \cap heard # {} /\ heard' = heard \cup Announced
          \/ took \cap heard \cap Reliable = {} /\ UNCHANGED heard
  /\ UNCHANGED <<cacheVars, poolVars, active, known, owed, told, due, adopted, reserve>>

-----------------------------------------------------------------------------
PoolStep ==
  /\ \/ \E t \in tasks : Open(t) \/ ProbeEnds(t) \/ SweepProbed(t)
     \/ ProbeNext \/ SeedsProbed \/ Discover \/ FullSizeProbed \/ TakeRing
     \/ Enumerate \/ SweepNext \/ SweepEnds \/ ClientDown
     \/ \E u \in updates : ReadsCache(u) \/ UpdateEnds(u)
  /\ UNCHANGED controlVars

TransferStep ==
  \/ AdoptRing \/ NoRingFound
  \/ \E w \in Uploaders : Upload(w)
  \/ \E t \in tasks : Uploads(t) \/ Promoted(t)
  \/ HearDemotion \/ Promote \/ Wait \/ Announce

Next ==
  \/ PoolStep
  \/ TransferStep
  \/ FallBack
  \/ \E url \in Relays : Demote(url)
  \/ TransferEnds /\ Gone
  \/ (DirectRouteOpens \/ OtherProcess) /\ UNCHANGED controlVars

(* The tasks of a process run on; whoever decides about the route and the  *)
(* end of the transfer may take any time. Announcements are repeated, so   *)
(* one is heard if hearing stays possible.                                 *)
Fairness ==
  /\ WF_vars(PoolStep)
  /\ WF_vars(AdoptRing \/ NoRingFound \/ HearDemotion \/ Promote \/ Wait \/ \E t \in tasks : Promoted(t))
  /\ WF_vars(Announce)

Spec == Init /\ [][Next]_vars /\ Fairness

-----------------------------------------------------------------------------
(***************************************************************************)
(* A relay that takes and serves everything is not recorded as failing,    *)
(* whenever the pool is shut down beneath the probes: the flag is set      *)
(* before the sockets go, the sweep reads it after every probe, and a      *)
(* preparation that is not needed is aborted.  The exception is a relayed  *)
(* transfer that ends before its ring has resolved: nobody aborts that     *)
(* preparation, and its probes go on against the ended pool.               *)
(***************************************************************************)
TeardownBlamesOnlyOrphans ==
  (\E r \in Reliable : file.relays[r].fails > 0) => orphan

(***************************************************************************)
(* Until the shutdown every relay the offer names, and every relay the     *)
(* transfer has opened to store or signal on, keeps its socket, however    *)
(* uploaders, promotions, late probes and the sweep open and close theirs: *)
(* connects to one relay take turns (FilePool::ensure), and the sweep      *)
(* leaves the reserve alone.                                               *)
(***************************************************************************)
CarriersStayOpen ==
  (~pool.shut /\ job.for \in {"ring", "sweep"})
     => control \cup carrying \subseteq pool.opened \cap pool.sockets

(***************************************************************************)
(* Pieces and signals never share a relay: from the seeds, the cache's     *)
(* lists, the search for control relays and its leftovers, the ring's own  *)
(* search and the promotions, no relay comes into the ring that the        *)
(* transfer signals on or that is a seed.                                  *)
(***************************************************************************)
RingApartFromSignals ==
  prepared.ring \cap (Seeds \cup control \cup known \cup heard \cup prepared.reserve) = {}

(***************************************************************************)
(* A demoted relay is replaced: while spare relays last, what is owed is   *)
(* paid, also when the demotion came before there was a ring, and the      *)
(* receiver comes to listen to all the sender publishes to.                *)
(***************************************************************************)
EveryDemotionAnswered ==
  (told + owed > 0 /\ Relaying)
     ~> (~Relaying \/ (adopted /\ (reserve = {} \/ told + owed = 0) /\ active \subseteq heard))

(***************************************************************************)
(* When the ring is taken, what the search proved at full size and neither *)
(* the ring nor the offer needs is held back as a replacement, up to the   *)
(* size of the reserve (Ring::reserve: "The fastest proven relays the ring *)
(* did not need, held back as control replacements.").                     *)
(***************************************************************************)
SparesAreHeldBack ==
  [][prepared'.ready =>
       LET unneeded == (spare \cup job.passed) \ (prepared'.ring \cup control) IN
       Cardinality(prepared'.reserve) = Least(ReserveCount, Cardinality(unneeded))]_prepared
=============================================================================
