----------------------------- MODULE Lifecycle -----------------------------
(***************************************************************************)
(* main.py's lifespan with the restart policy around it: the TLS watcher   *)
(* ends the process to install a renewed certificate, and the process ends *)
(* only when StateService.stop() has closed the TrueNAS connection, behind *)
(* whatever call the poll loop has under way.                              *)
(***************************************************************************)
EXTENDS TrueNasClient, TlsReload

vars == <<clientVars, tlsVars>>

TypeOK == ClientTypeOK /\ TlsTypeOK

Init == ClientInit /\ TlsInit

-----------------------------------------------------------------------------

Mount == Appliance /\ UNCHANGED clientVars

Watch == (Check \/ SettleElapses) /\ UNCHANGED clientVars

Polls == Running /\ ClientStep /\ UNCHANGED tlsVars

\* The lifespan's finally: the watcher is stopped, then the service.
LifespanEnds == WatcherStops /\ StopBegins

StopStep == (StopCloses \/ StopEnds) /\ UNCHANGED tlsVars

ProcessExits ==
  /\ phase = "stopping" /\ closing = "done"
  /\ ProcessGone /\ ClientGone /\ UNCHANGED deaths

\* At any time, without any of that.
ProcessDies ==
  /\ Running /\ deaths < MaxDeaths
  /\ ProcessGone /\ ClientGone /\ deaths' = deaths + 1

Starts == (ContainerStarts \/ Entrypoint) /\ UNCHANGED clientVars

Next ==
  \/ Mount \/ Watch \/ Polls
  \/ LifespanEnds \/ StopStep \/ ProcessExits \/ ProcessDies \/ Starts

Spec == Init /\ [][Next]_vars

\* Every await of a call and the closing handshake are bounded by a timeout, the
\* watcher never dies, and the container is always restarted.  The appliance
\* owes nothing: neither to end a rewrite nor to make the files readable.
Fairness ==
  /\ WF_vars(Running /\ InCall /\ UNCHANGED tlsVars)
  /\ WF_vars(Check /\ UNCHANGED clientVars)
  /\ WF_vars(SettleElapses /\ UNCHANGED clientVars)
  /\ WF_vars(LifespanEnds) /\ WF_vars(StopStep) /\ WF_vars(ProcessExits)
  /\ WF_vars(Starts)

FairSpec == Spec /\ Fairness

-----------------------------------------------------------------------------
(***************************************************************************)
(* Properties.                                                             *)
(***************************************************************************)

\* However calls fail, are retried and overlap with the shutdown, the client
\* forgets no connection: what is open is pooled or being authenticated, so the
\* appliance never sees more than one (truenas/client.py _call_ws, _connect).
NoConnectionForgotten == open \subseteq {socket, fresh} /\ Cardinality(open) <= 1

\* A shutdown leaves no connection open on the appliance, whatever the poll loop
\* was doing when it began (services/state.py stop()).
StopLeavesNothingOpen == closing = "done" => open = {}

\* A poll's call comes to an end: it returns, fails or is cancelled, so that no
\* half-open socket stalls the polls (truenas/client.py _ws_request).
CallsEnd == pc \notin {"idle", "cancelled"} ~> pc \in {"idle", "cancelled"}

\* What is served is a pair, although the two files are copied one after the
\* other while the appliance may be rewriting them (docker-entrypoint.sh).
ServedPairMatches == Running => servedCert \in Chains /\ servedKey = servedCert.version

\* The watcher ends the process only for a whole certificate that is not the one
\* served: never on a file that is being written, nor on the daily rewrite of
\* the same bytes (services/tls_watch.py check()).
RestartsForAWholeRenewal ==
  [][restarts' # restarts => cert \in Chains /\ cert.whole /\ cert # servedCert]_vars

\* No restart loop: each restart answers to a rewrite of its own.
RestartsAreEarned == restarts <= rewrites

\* A renewal reaches the clients: if the appliance's writes come to an end and
\* the files can be read, then in the end what is mounted is what is served.
RenewalIsServed ==
  <>[](writing = "none" /\ readable) => <>[](phase = "serving" /\ servedCert = cert)
=============================================================================
