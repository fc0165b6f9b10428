----------------------------- MODULE TorDirectory -----------------------------
(***************************************************************************)
(* The Tor network directory `ptransfer` keeps in memory (tor/netdir.rs):  *)
(* one validated consensus, downloaded when the client starts and again    *)
(* shortly before it expires, handed out while its lifetime and the        *)
(* tolerance allow, and announced to the managers that watch it.           *)
(*                                                                         *)
(* Time is the number of consensuses the authorities have published: the   *)
(* consensus of time t is valid from t to t + Life, and the device's clock *)
(* is right.  A document is who it names as its signers and whose          *)
(* signatures verify, both as counts; the caches that serve it are         *)
(* external and may serve anything, and take any time.                     *)
(***************************************************************************)
EXTENDS Integers

CONSTANTS
  Authorities,   \* how many directory authorities the build recognises
  Life,          \* a consensus's own lifetime
  Margin,        \* REFRESH_MARGIN
  Tolerance,     \* how long past its lifetime a directory is still used
  MaxTime,       \* bound on the clock
  MaxFaults,     \* bound on everything that goes wrong
  NoDirectory

ASSUME DirectoryAssumption ==
  /\ {Authorities, Life, Margin, MaxTime} \subseteq Nat \ {0}
  /\ {Tolerance, MaxFaults} \subseteq Nat
  /\ Margin <= Life
  /\ NoDirectory \notin [from : Nat, signed : Nat, timely : BOOLEAN]

VARIABLES
  now,       \* the clock
  dir,       \* MemoryNetDirProvider.current; `timely` is history
  consensus, \* the consensus `download` fetches the microdescriptors of
  event,     \* the value of the watch channel
  watcher,   \* has a manager taken it, or what it stopped of
  task,      \* where TorClient::bootstrap, then keep_current, stands
  faults     \* faults so far

dirVars == <<now, dir, consensus, event, watcher, task>>

Documents == [from : 0..now, named : 0..Authorities, signed : 0..Authorities]

\* What the network serves when nothing is wrong with it.
Newest == [from |-> now, named |-> Authorities, signed |-> Authorities]

ValidUntil(d) == d.from + Life

Expired(d) == now > ValidUntil(d) + Tolerance

\* NetDirProvider::netdir, for callers that ask for a timely directory.
Timely == dir # NoDirectory /\ dir.from <= now /\ ~ Expired(dir)
NetdirError ==
  IF dir = NoDirectory THEN "NoInfo"
  ELSE IF now < dir.from THEN "DirNotYetValid" ELSE "DirExpired"

Stopped == {"NoInfo", "DirNotYetValid", "DirExpired"}

Majority(n) == 2 * n > Authorities

\* Download step 1: the consensus is within its lifetime, give or take the
\* tolerance.
IsTimely(d) == d.from <= now /\ ~ Expired(d)

\* Download step 2: enough of the signers it names are authorities we know.
AuthoritiesAreCorrect(d) == Majority(d.named)

\* fetch_certs: of the certificates asked for, those that came, are the ones
\* wanted, verify and are timely.
Certificates(d) == 0..d.named

\* As it would be if a certificate alone counted as a signature.
BugCertificatesCount(d, certs) == Majority(certs)

\* Download step 4: enough signatures verify under those certificates.
CheckSignature(d, certs) ==
  Majority(IF certs < d.signed THEN certs ELSE d.signed)

Validated(d) ==
  \E certs \in Certificates(d) :
    IsTimely(d) /\ AuthoritiesAreCorrect(d) /\ CheckSignature(d, certs)

\* As it would be with the event that only a directory justifies.
BugInitialEvent == "consensus"

\* The value a new subscriber of the watch channel is handed.
InitialEvent == "descriptors"

Init ==
  /\ now = 0
  /\ dir = NoDirectory /\ consensus = NoDirectory
  /\ event = InitialEvent
  /\ watcher = "unseen"
  /\ task = "bootstrap"
  /\ faults = 0

Fault == faults < MaxFaults /\ faults' = faults + 1

\* `renew_at` of keep_current.
RenewAt == ValidUntil(dir) - Margin

\* keep_current wakes up in time to replace the directory it has.
WakeToRefresh ==
  /\ task = "asleep" /\ now >= RenewAt
  /\ task' = "refresh"
  /\ UNCHANGED <<now, dir, consensus, event, watcher, faults>>

\* fetch_consensus: a cache served a consensus that passed every check, and it
\* asks for no protocols this build lacks.
FetchConsensus ==
  /\ task \in {"bootstrap", "refresh"}
  /\ \E d \in Documents :
       /\ Validated(d)
       /\ IF d = Newest THEN UNCHANGED faults ELSE Fault
       /\ consensus' = [from |-> d.from, signed |-> d.signed, timely |-> ~ Expired(d)]
  /\ task' = "microdescs"
  /\ UNCHANGED <<now, dir, event, watcher>>

\* fetch_microdescs has enough of them to build paths: `publish` installs the
\* directory, however long that took and whatever is installed already.
Install ==
  /\ task = "microdescs"
  /\ dir' = consensus /\ consensus' = NoDirectory
  /\ task' = "announce"
  /\ UNCHANGED <<now, event, watcher, faults>>

\* Four caches failed, a check failed, or a whole pass over the missing
\* microdescriptors added nothing: the bootstrap fails, a refresh is tried
\* again after REFRESH_RETRY_DELAY.
DownloadFails ==
  /\ task \in {"bootstrap", "refresh", "microdescs"}
  /\ Fault
  /\ task' = IF dir = NoDirectory THEN "failed" ELSE "asleep"
  /\ consensus' = NoDirectory
  /\ UNCHANGED <<now, dir, event, watcher>>

\* The end of `publish`: NewConsensus replaces the value of the channel, for
\* the managers that still watch it.
Announce ==
  /\ task = "announce"
  /\ event' = "consensus"
  /\ task' = "asleep"
  /\ watcher' = IF watcher \in Stopped THEN watcher ELSE "unseen"
  /\ UNCHANGED <<now, dir, consensus, faults>>

\* A manager takes the current event; Arti's vanguard manager asks for a timely
\* directory on NewConsensus and stops for good on any error.
WatcherReads ==
  /\ watcher = "unseen"
  /\ watcher' = IF event = "consensus" /\ ~ Timely THEN NetdirError ELSE "seen"
  /\ UNCHANGED <<now, dir, consensus, event, task, faults>>

\* The authorities publish the next consensus.
Tick ==
  /\ now < MaxTime /\ task # "failed"
  /\ now' = now + 1
  /\ UNCHANGED <<dir, consensus, event, watcher, task, faults>>

Next ==
  \/ WakeToRefresh \/ FetchConsensus \/ Install \/ DownloadFails \/ Announce
  \/ WatcherReads \/ Tick

\* bootstrap and keep_current: one task, which stands at one place at a time.
KeepCurrent == WakeToRefresh \/ FetchConsensus \/ Install \/ Announce

\* The runtime polls the task again and time passes; a download that nothing
\* disturbs ends.
Fairness == WF_dirVars(KeepCurrent) /\ WF_dirVars(Tick)

(***************************************************************************)
(* Properties.                                                             *)
(***************************************************************************)

\* The directory handed out was signed by a majority of the authorities this
\* build recognises, whatever a cache served (fetch_consensus, steps 2 to 4).
TrustedDirectory == dir # NoDirectory => Majority(dir.signed)

\* A manager is stopped by nothing but a directory that ran out on the way to
\* it: what it finds was timely when its consensus was fetched, and it never
\* finds none, since the watch channel starts with an event it ignores and
\* `publish` installs before it announces (MemoryNetDirProvider::new, publish,
\* fetch_consensus).
OutlivesDirectory ==
  dir # NoDirectory /\ dir.timely /\ Expired(dir)
WatchersSurvive ==
  [][watcher' \in Stopped /\ watcher \notin Stopped => OutlivesDirectory]_dirVars
=============================================================================
