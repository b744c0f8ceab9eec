-------------------------- MODULE MCServerManager --------------------------
(* Instances of ServerManager for TLC. *)
EXTENDS ServerManager

CONSTANTS h1, h2, c1, c2

\* sm with one thread, or a server with two threads that defers nothing.
MCInit ==
  \/ InitWith({h1}, TRUE)
  \/ InitWith({h1, h2}, FALSE)

\* The clients of sm ask for services, and one may be terminated before the
\* server stops.  Of the clients of the other server one sends asynchronous
\* requests, the other asks the server to close the session.
MCRequests ==
  IF defers THEN Clients \X {"sync"} \X {"getService"}
  ELSE {<<c1, "async", "call">>, <<c2, "sync", "close">>}

MCNext ==
  /\ Next
  /\ \A r \in Requests : references'[r] > 0 => r \in MCRequests
  /\ terminating' # {} => defers /\ ~stop'

SafetySpec == MCInit /\ [][MCNext]_vars
Spec == SafetySpec /\ Fairness
=============================================================================
