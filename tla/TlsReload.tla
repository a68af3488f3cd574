----------------------------- MODULE TlsReload -----------------------------
(***************************************************************************)
(* services/tls_watch.py and the TLS part of docker-entrypoint.sh: how a   *)
(* renewed certificate reaches the clients.                                *)
(*                                                                         *)
(* The appliance rewrites the mounted certificate and then the key, in     *)
(* place, once a day and whether they are renewed or not.  The watcher     *)
(* compares the mounted certificate with the copy that is served and, once *)
(* a change has settled, ends the process; the entrypoint of the restarted *)
(* container copies the two files and checks that they are a pair.         *)
(*                                                                         *)
(* The files are versions; a certificate file can also be cut between two  *)
(* blocks of its chain, which parses and has the leaf of the whole one.    *)
(* A process that dies and the appliance's writes are the environment;     *)
(* Lifecycle says what happens between the signal and the exit.            *)
(***************************************************************************)
EXTENDS Integers, FiniteSets

CONSTANTS
  Versions,     \* of the certificate and its key
  Torn,         \* the content of a file that does not parse
  NoPending,    \* _pending is None
  MaxAttempts,  \* copies the entrypoint tries (10)
  MaxRewrites,  \* bound: rewrites by the appliance
  MaxDeaths     \* bound: deaths of the process

ASSUME TlsAssumption ==
  /\ Torn \notin Versions
  /\ MaxAttempts \in Nat \ {0} /\ MaxRewrites \in Nat /\ MaxDeaths \in Nat

Chains == [version: Versions, whole: BOOLEAN]
Contents == Chains \cup {Torn}

ASSUME ContentAssumption == Torn \notin Chains /\ NoPending \notin Contents

VARIABLES
  cert, key,     \* the mounted files
  writing,       \* the file the appliance writes: "none", "cert", "key", or "between"
  target,        \* the version it writes
  readable,      \* the mounted files can be read
  servedCert,    \* cert.pem and key.pem on the tmpfs
  servedKey,
  phase,         \* of the container
  tries,         \* attempt of the entrypoint
  pending,       \* _pending: the content that waits for the settle period
  settled,       \* that period has elapsed
  restarted,     \* _restarted
  rewrites, restarts, deaths  \* counters, for the properties and the bounds

mountVars == <<cert, key, writing, target, readable, rewrites>>
copyVars == <<servedCert, servedKey, tries>>
watchVars == <<pending, settled, restarted, restarts>>
tlsVars == <<mountVars, copyVars, watchVars, phase, deaths>>

Phases == {"down", "copy cert", "copy key", "check", "serving", "signalled", "stopping"}
Running == phase \in {"serving", "signalled", "stopping"}

TlsTypeOK ==
  /\ cert \in Contents /\ key \in Versions \cup {Torn}
  /\ writing \in {"none", "cert", "between", "key"}
  /\ target \in Versions /\ readable \in BOOLEAN
  /\ servedCert \in Contents /\ servedKey \in Versions \cup {Torn}
  /\ phase \in Phases /\ tries \in 1..MaxAttempts
  /\ pending \in Chains \cup {NoPending} /\ settled \in BOOLEAN /\ restarted \in BOOLEAN
  /\ rewrites \in 0..MaxRewrites /\ restarts \in Nat /\ deaths \in 0..MaxDeaths

\* A container that serves what is mounted.
TlsInit ==
  /\ target \in Versions
  /\ cert = [version |-> target, whole |-> TRUE] /\ key = target
  /\ writing = "none" /\ readable = TRUE
  /\ servedCert = cert /\ servedKey = key
  /\ phase = "serving" /\ tries = 1
  /\ pending = NoPending /\ settled = FALSE /\ restarted = FALSE
  /\ rewrites = 0 /\ restarts = 0 /\ deaths = 0

-----------------------------------------------------------------------------
(***************************************************************************)
(* Fault variants, for the mutants.                                        *)
(***************************************************************************)

\* A pair that is not checked.
AnyPair == TRUE

\* A one-shot flag that is set without the signal that it stands for.
SignalLost ==
  /\ restarted' = TRUE
  /\ \/ restarts' = restarts + 1 /\ phase' = "signalled"
     \/ UNCHANGED <<restarts, phase>>

\* A served copy that differs from the mounted file whatever it holds.
AlwaysDiffers == TRUE

-----------------------------------------------------------------------------
(***************************************************************************)
(* The appliance: its periodic renew_certs always ends in etc.generate ssl.*)
(***************************************************************************)

\* Rewrites are a day apart: the watcher has seen the outcome of the last one.
LastIsSeen == pending \in {NoPending, cert}

RewriteBegins ==
  /\ writing = "none" /\ rewrites < MaxRewrites /\ LastIsSeen
  /\ \E v \in Versions : target' = v
  /\ cert' = Torn /\ writing' = "cert" /\ rewrites' = rewrites + 1
  /\ UNCHANGED <<key, readable, copyVars, watchVars, phase, deaths>>

ChainIsCut ==
  /\ writing = "cert" /\ cert = Torn
  /\ cert' = [version |-> target, whole |-> FALSE]
  /\ UNCHANGED <<key, writing, target, readable, rewrites, copyVars, watchVars, phase, deaths>>

CertWritten ==
  /\ writing = "cert"
  /\ cert' = [version |-> target, whole |-> TRUE] /\ writing' = "between"
  /\ UNCHANGED <<key, target, readable, rewrites, copyVars, watchVars, phase, deaths>>

KeyBegins ==
  /\ writing = "between"
  /\ key' = Torn /\ writing' = "key"
  /\ UNCHANGED <<cert, target, readable, rewrites, copyVars, watchVars, phase, deaths>>

KeyWritten ==
  /\ writing = "key"
  /\ key' = target /\ writing' = "none"
  /\ UNCHANGED <<cert, target, readable, rewrites, copyVars, watchVars, phase, deaths>>

ReadableFlips ==
  /\ readable' = ~readable
  /\ UNCHANGED <<cert, key, writing, target, rewrites, copyVars, watchVars, phase, deaths>>

Appliance ==
  RewriteBegins \/ ChainIsCut \/ CertWritten \/ KeyBegins \/ KeyWritten \/ ReadableFlips

-----------------------------------------------------------------------------
(***************************************************************************)
(* TlsWatcher.                                                             *)
(***************************************************************************)

Watching == phase \in {"serving", "signalled"}

Differs == cert # servedCert

\* What waits is dropped: the file cannot be read, is what is served, or does
\* not parse.
NothingToInstall == ~readable \/ ~Differs \/ cert = Torn

Settled == pending = cert /\ settled

\* The flag, and SIGTERM to the process itself.
SendsSignal ==
  /\ restarted' = TRUE
  /\ restarts' = restarts + 1 /\ phase' = "signalled"

\* check(): one pass, without an await.
Check ==
  /\ Watching
  /\ \/ /\ NothingToInstall
        /\ pending' = NoPending /\ settled' = FALSE
        /\ UNCHANGED <<restarted, restarts, phase>>
     \/ /\ ~NothingToInstall /\ pending # cert /\ ~Settled
        /\ pending' = cert /\ settled' = FALSE
        /\ UNCHANGED <<restarted, restarts, phase>>
     \/ /\ ~NothingToInstall /\ Settled /\ ~restarted
        /\ SendsSignal
        /\ UNCHANGED <<pending, settled>>
  /\ UNCHANGED <<mountVars, copyVars, deaths>>

\* The settle period outlasts one write of the certificate, not that of the pair.
SettleElapses ==
  /\ Watching /\ pending # NoPending /\ ~settled /\ writing # "cert"
  /\ settled' = TRUE
  /\ UNCHANGED <<mountVars, copyVars, pending, restarted, restarts, phase, deaths>>

-----------------------------------------------------------------------------
(***************************************************************************)
(* The end of the process, and the entrypoint of the next one.             *)
(***************************************************************************)

\* uvicorn has drained its connections; the lifespan stops the watcher.
WatcherStops ==
  /\ phase = "signalled" /\ phase' = "stopping"
  /\ UNCHANGED <<mountVars, copyVars, watchVars, deaths>>

\* The tmpfs, with the copies, goes with the container's process; so does what
\* the watcher knew.
ProcessGone ==
  /\ phase' = "down"
  /\ servedCert' = Torn /\ servedKey' = Torn /\ tries' = 1
  /\ pending' = NoPending /\ settled' = FALSE /\ restarted' = FALSE
  /\ UNCHANGED <<mountVars, restarts>>

\* The restart policy of the container.
ContainerStarts ==
  /\ phase = "down" /\ phase' = "copy cert"
  /\ UNCHANGED <<mountVars, copyVars, watchVars, deaths>>

\* An attempt fails: the next one, or exit 1.
AttemptFails ==
  IF tries < MaxAttempts
  THEN /\ tries' = tries + 1 /\ phase' = "copy cert"
       /\ UNCHANGED <<mountVars, servedCert, servedKey, watchVars, deaths>>
  ELSE ProcessGone /\ UNCHANGED deaths

CopyCert ==
  /\ phase = "copy cert"
  /\ IF readable
     THEN /\ servedCert' = cert /\ phase' = "copy key"
          /\ UNCHANGED <<mountVars, servedKey, tries, watchVars, deaths>>
     ELSE AttemptFails

CopyKey ==
  /\ phase = "copy key"
  /\ IF readable
     THEN /\ servedKey' = key /\ phase' = "check"
          /\ UNCHANGED <<mountVars, servedCert, tries, watchVars, deaths>>
     ELSE AttemptFails

\* docker-tlscheck.py: both parse, and the key is that of the leaf.
PairMatches == servedCert \in Chains /\ servedKey = servedCert.version

CheckPair ==
  /\ phase = "check"
  /\ IF PairMatches
     THEN /\ phase' = "serving"
          /\ UNCHANGED <<mountVars, copyVars, watchVars, deaths>>
     ELSE AttemptFails

Entrypoint == CopyCert \/ CopyKey \/ CheckPair
=============================================================================
