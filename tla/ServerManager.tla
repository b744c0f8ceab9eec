--------------------------- MODULE ServerManager ---------------------------
(***************************************************************************)
(* The server of the services the emulator implements itself               *)
(* (core/hle/service/server_manager.cpp): host threads that take turns in   *)
(* waiting for its port, its sessions and its events, and handle what they  *)
(* find at the same time.  A session that is handled is in no wait list; it *)
(* is linked to the deferred list afterwards, and the wakeup event brings   *)
(* the thread that waits to look at that list.                             *)
(*                                                                         *)
(* sm, the service manager, has one thread and defers a request for a       *)
(* service that is not registered yet (core/hle/service/sm/sm.cpp); bsd     *)
(* has several threads and defers none.                                    *)
(***************************************************************************)
EXTENDS KServerSession

CONSTANTS
  Wakeup,    \* m_wakeup_holder
  Deferral   \* m_deferral_holder

VARIABLES
  running,           \* threads that have not left LoopProcessImpl
  defers,            \* ManageDeferral was called
  selection,         \* m_selection_mutex
  signaled,          \* the signalled ones of m_wakeup_event and m_deferral_event
  sessions,          \* m_sessions
  deferredSessions,  \* m_deferred_sessions
  stop,              \* m_stop_source
  registered         \* the service that "getService" requests name is registered

managerVars == <<running, defers, selection, signaled, sessions, deferredSessions, stop, registered>>
vars == <<waitVars, sessionVars, requestVars, clientVars, portVars, serverVars, managerVars>>

\* The server, once it is set up, with these threads.
InitWith(threads, mayDefer) ==
  /\ SessionInit
  /\ deferredList = <<Wakeup>> \o (IF mayDefer THEN <<Deferral>> ELSE <<>>) \o <<Port>>
  /\ running = threads /\ defers = mayDefer
  /\ selection = NoActor
  /\ signaled = {Wakeup}
  /\ sessions = {} /\ deferredSessions = <<>>
  /\ stop = FALSE /\ registered = FALSE

IsSignaled(o) ==
  IF o \in Sessions THEN SessionIsSignaled(o) ELSE IF o = Port THEN PortIsSignaled ELSE o \in signaled

\* KEvent::Signal of an event the server waits for.
Signal(o) ==
  /\ signaled' = signaled \cup {o}
  /\ NotifyIf(o \notin signaled, o)

----------------------------------------------------------------------------
(* The loop of a thread. *)

\* LoopProcessImpl: the thread leaves the loop, or enters WaitSignaled.
LoopProcess(a) ==
  /\ a \in running /\ work[a] = <<>>
  /\ IF stop
     THEN running' = running \ {a} /\ UNCHANGED <<selection, work>>
     ELSE /\ selection = NoActor /\ selection' = a
          /\ work' = [work EXCEPT ![a] = <<Job("linkDeferred", NoHolder)>>]
          /\ UNCHANGED running
  /\ UNCHANGED <<hand, waitVars, sessionVars, requestVars, clientVars, portVars, defers, signaled,
                 sessions, deferredSessions, stop, registered>>

\* LinkDeferred, and the look at m_stop_source, in WaitSignaled.
LinkDeferred(a) ==
  /\ Does(a, "linkDeferred")
  /\ MoveAll
  /\ IF stop THEN selection' = NoActor /\ Then(a, <<>>)
             ELSE Then(a, <<Job("wait", NoHolder)>>) /\ UNCHANGED selection
  /\ UNCHANGED <<selected, hand, sessionVars, requestVars, clientVars, portVars, running, defers,
                 signaled, sessions, deferredSessions, stop, registered>>

\* The wait in WaitSignaled begins.
BeginWait(a) ==
  /\ Does(a, "wait") /\ selected = NoHolder
  /\ WaitAny({o \in ToSet(multiWait) : IsSignaled(o)})
  /\ UNCHANGED <<serverVars, sessionVars, requestVars, clientVars, portVars, managerVars>>

\* Process of the object that the wait returned.
Process(o) ==
  IF o \in Sessions THEN <<Job("receive", o)>>
  ELSE IF o = Port THEN <<Job("accept", o)>>
  ELSE <<Job("clearDeferral", o)>>

\* The wait has returned an object: the thread clears the wakeup event and
\* starts again, or unlinks the object and lets others wait.
WaitReturns(a) ==
  /\ Does(a, "wait") /\ selected \notin {NoHolder, Blocked}
  /\ selected' = NoHolder
  /\ IF selected = Wakeup
     THEN /\ signaled' = signaled \ {Wakeup} /\ Then(a, <<Job("linkDeferred", NoHolder)>>)
          /\ UNCHANGED <<multiWait, selection>>
     ELSE /\ multiWait' = Remove(multiWait, selected)
          /\ selection' = NoActor /\ Then(a, Process(selected))
          /\ UNCHANGED signaled
  /\ UNCHANGED <<deferredList, hand, sessionVars, requestVars, clientVars, portVars, running, defers,
                 sessions, deferredSessions, stop, registered>>

----------------------------------------------------------------------------
(* What a thread does with an object. *)

\* The jobs of LinkToDeferredList.
LinkToDeferredList(o) == <<Job("link", o), Job("signal", NoHolder)>>

\* LinkToDeferredList: the list.
Link(a) ==
  /\ Does(a, "link")
  /\ deferredList' = Append(deferredList, Object(a))
  /\ Then(a, <<>>)
  /\ UNCHANGED <<multiWait, selected, hand, sessionVars, requestVars, clientVars, portVars, managerVars>>

\* LinkToDeferredList: the event; and the one of ~ServerManager.
SignalWakeup(a) ==
  /\ Does(a, "signal")
  /\ Signal(Wakeup)
  /\ Then(a, <<>>)
  /\ UNCHANGED <<hand, sessionVars, requestVars, clientVars, portVars, running, defers, selection,
                 sessions, deferredSessions, stop, registered>>

\* OnPortEvent, with KServerPort::AcceptSession and RegisterSession.
OnPortEvent(a) ==
  /\ Does(a, "accept") /\ portList # <<>>
  /\ portList' = Tail(portList)
  /\ sessions' = sessions \cup {Head(portList)}
  /\ Then(a, LinkToDeferredList(Head(portList)) \o LinkToDeferredList(Port))
  /\ UNCHANGED <<hand, waitVars, sessionVars, requestVars, clientVars, portOpen, numSessions, running,
                 defers, selection, signaled, deferredSessions, stop, registered>>

\* GetServiceImpl: the service is not registered.
IsDeferred(r) == Kind(r) = "getService" /\ ~registered

\* CompleteSyncRequest, up to the handler's return.
CompleteSyncRequest(a) ==
  LET s == Object(a) IN
  /\ Does(a, "complete")
  /\ Then(a, <<Job(IF IsDeferred(current[s]) THEN "defer" ELSE "reply", s)>>)
  /\ UNCHANGED <<hand, waitVars, sessionVars, requestVars, clientVars, portVars, managerVars>>

\* Mutant: the session is waited for although its request is deferred.
Defer_Links(a) ==
  /\ Does(a, "defer")
  /\ deferredSessions' = Append(deferredSessions, Object(a))
  /\ Then(a, LinkToDeferredList(Object(a)))
  /\ UNCHANGED <<hand, waitVars, sessionVars, requestVars, clientVars, portVars, running, defers,
                 selection, signaled, sessions, stop, registered>>

\* CompleteSyncRequest: the request was deferred.
Defer(a) ==
  /\ Does(a, "defer")
  /\ deferredSessions' = Append(deferredSessions, Object(a))
  /\ Then(a, <<>>)
  /\ UNCHANGED <<hand, waitVars, sessionVars, requestVars, clientVars, portVars, running, defers,
                 selection, signaled, sessions, stop, registered>>

\* The end of CompleteSyncRequest for a session that is not closed.
AfterReply(s, r) == IF Kind(r) = "close" THEN <<Job("destroy", s)>> ELSE LinkToDeferredList(s)

\* SendReplyHLE, and the end of CompleteSyncRequest.
Reply(a) ==
  /\ Does(a, "replied")
  /\ RepliedRequest(a, <<Job("destroy", Object(a))>>, AfterReply(Object(a), hand[a]))
  /\ UNCHANGED managerVars

\* DestroySession
DestroySession(a) ==
  LET s == Object(a) IN
  /\ Does(a, "destroy")
  /\ sessions' = sessions \ {s}
  /\ Then(a, <<Job("close", s)>>)
  /\ UNCHANGED <<hand, waitVars, sessionVars, requestVars, clientVars, portVars, running, defers,
                 selection, signaled, deferredSessions, stop, registered>>

\* OnDeferralEvent clears the event.
ClearDeferral(a) ==
  /\ Does(a, "clearDeferral")
  /\ signaled' = signaled \ {Deferral}
  /\ Then(a, <<Job("grab", Deferral)>>)
  /\ UNCHANGED <<hand, waitVars, sessionVars, requestVars, clientVars, portVars, running, defers,
                 selection, sessions, deferredSessions, stop, registered>>

\* The rest of OnDeferralEvent: the deferred sessions are completed in turn,
\* after the event was linked again.
GrabDeferred(a) ==
  /\ Does(a, "grab")
  /\ deferredSessions' = <<>>
  /\ Then(a, LinkToDeferredList(Deferral)
             \o [i \in DOMAIN deferredSessions |-> Job("complete", deferredSessions[i])])
  /\ UNCHANGED <<hand, waitVars, sessionVars, requestVars, clientVars, portVars, running, defers,
                 selection, signaled, sessions, stop, registered>>

----------------------------------------------------------------------------
(* Registration of the service, and the shutdown. *)

\* Mutant: the deferral event is not signalled.
RegisterService_NoSignal ==
  /\ defers /\ ~registered /\ ~stop
  /\ registered' = TRUE
  /\ UNCHANGED <<waitVars, serverVars, sessionVars, requestVars, clientVars, portVars, running,
                 defers, selection, signaled, sessions, deferredSessions, stop>>

\* ServiceManager::RegisterService, called by the thread of another server.
RegisterService ==
  /\ defers /\ ~registered /\ ~stop
  /\ registered' = TRUE
  /\ Signal(Deferral)
  /\ UNCHANGED <<serverVars, sessionVars, requestVars, clientVars, portVars, running, defers,
                 selection, sessions, deferredSessions, stop>>

\* ServiceManager::UnregisterService
UnregisterService ==
  /\ registered /\ registered' = FALSE
  /\ UNCHANGED <<waitVars, serverVars, sessionVars, requestVars, clientVars, portVars, running, defers,
                 selection, signaled, sessions, deferredSessions, stop>>

\* ~ServerManager requests the stop.
RequestStop ==
  /\ ~stop /\ stop' = TRUE
  /\ work' = [work EXCEPT ![Main] = <<Job("signal", NoHolder), Job("closePort", Port),
                                      Job("cleanupPort", Port), Job("cleanupSessions", NoHolder)>>]
  /\ UNCHANGED <<hand, waitVars, sessionVars, requestVars, clientVars, portVars, running, defers,
                 selection, signaled, sessions, deferredSessions, registered>>

\* ~ServerManager, once the threads have stopped: KServerPort::Destroy.
ClosePort ==
  /\ Does(Main, "closePort") /\ running = {}
  /\ portOpen' = FALSE
  /\ Then(Main, <<>>)
  /\ UNCHANGED <<hand, waitVars, sessionVars, requestVars, clientVars, portList, numSessions,
                 managerVars>>

\* KServerPort::CleanupSessions
CleanupPort ==
  /\ Does(Main, "cleanupPort")
  /\ IF portList = <<>> THEN Then(Main, <<>>) /\ UNCHANGED portList
     ELSE /\ portList' = Tail(portList)
          /\ Then(Main, <<Job("close", Head(portList)), Job("cleanupPort", Port)>>)
  /\ UNCHANGED <<hand, waitVars, sessionVars, requestVars, clientVars, portOpen, numSessions,
                 managerVars>>

\* ~ServerManager deletes the sessions.
CleanupSessions ==
  /\ Does(Main, "cleanupSessions")
  /\ IF sessions = {} THEN Then(Main, <<>>)
     ELSE \E s \in sessions : Then(Main, <<Job("destroy", s), Job("cleanupSessions", NoHolder)>>)
  /\ UNCHANGED <<hand, waitVars, sessionVars, requestVars, clientVars, portVars, managerVars>>

\* What server thread a does next.
ServerStep(a) ==
  \/ LoopProcess(a) \/ LinkDeferred(a) \/ BeginWait(a) \/ WaitReturns(a)
  \/ Link(a) \/ SignalWakeup(a) \/ OnPortEvent(a) \/ CompleteSyncRequest(a) \/ Defer(a) \/ Reply(a)
  \/ DestroySession(a) \/ ClearDeferral(a) \/ GrabDeferred(a)
  \/ SessionStep(a) /\ UNCHANGED managerVars

MainStep ==
  \/ ClosePort \/ CleanupPort \/ CleanupSessions
  \/ SignalWakeup(Main) \/ DestroySession(Main) \/ (SessionStep(Main) /\ UNCHANGED managerVars)

Next ==
  \/ RegisterService \/ UnregisterService \/ RequestStop \/ MainStep
  \/ \E a \in Servers : ServerStep(a)
  \/ \E c \in Clients : (ClientStep(c) \/ ClientCall(c)) /\ UNCHANGED managerVars

\* Host threads keep running, and so does a guest thread in a system call, which
\* gets m_lock in the end.
Fairness ==
  /\ \A a \in Servers : WF_vars(ServerStep(a))
  /\ \A c \in Clients : WF_vars(ClientStep(c) /\ UNCHANGED managerVars)
  /\ WF_vars(MainStep)

----------------------------------------------------------------------------
(* Properties. *)

TypeOK ==
  /\ state \in [Sessions -> {"free", "Normal", "ClientClosed", "ServerClosed"}]
  /\ ends \in [Sessions -> SUBSET {"client", "server"}]
  /\ handle \cup sessions \subseteq Sessions
  /\ list \in [Sessions -> Seq(Requests)] /\ current \in [Sessions -> Requests \cup {NoRequest}]
  /\ lock \in [Sessions -> Actors \cup Clients \cup {NoActor}]
  /\ references \in [Requests -> 0..3] /\ answers \in [Requests -> 0..1] /\ cleared \subseteq Requests
  /\ numSessions \in 0..MaxSessions
  /\ hand \in [Actors -> Requests \cup {NoRequest}]
  /\ selection \in Servers \cup {NoActor} /\ running \subseteq Servers
  /\ signaled \subseteq {Wakeup, Deferral}

\* The positions of x in sequence seq.
At(x, seq) == {i \in DOMAIN seq : seq[i] = x}

\* The places an object of the server is in: a wait list, the deferred sessions,
\* or the work of a thread.
Places(o) ==
  ({"multiWait"} \X At(o, multiWait)) \cup ({"deferredList"} \X At(o, deferredList))
  \cup ({"deferredSessions"} \X At(o, deferredSessions))
  \cup UNION {{a} \X {i \in DOMAIN work[a] : work[a][i].of = o} : a \in Servers}

\* Session s is being destroyed by a thread.
Closing(s) ==
  \E a \in Servers : work[a] # <<>> /\ Object(a) = s /\ Head(work[a]).do \in
                        {"close", "set", "cleanup", "cleaned", "release"}

\* Each object of the server is in one place: two threads never handle the same
\* session, the port or the deferral event is never forgotten, and no list and
\* no thread has a session that is freed ("We have exclusive access to this
\* session.", CompleteSyncRequest).
OnePlace ==
  running # {} =>
    /\ \A o \in sessions \cup {Port, Wakeup} : Cardinality(Places(o)) = 1
    /\ \A s \in Sessions \ sessions : Places(s) # {} => Cardinality(Places(s)) = 1 /\ Closing(s)
    /\ \A s \in Sessions : Places(s) # {} => "server" \in ends[s]

\* What R_ASSERT and ASSERT in OnSessionEvent, CompleteSyncRequest and OnPortEvent
\* say: a thread that receives finds a request or a closed session, one that
\* replies has the request to reply to, one that accepts finds a session.
AssertsHold ==
  \A a \in Servers : work[a] # <<>> =>
    CASE Head(work[a]).do = "receive" ->
             LET s == Object(a) IN IsClosed(s) \/ (list[s] # <<>> /\ current[s] = NoRequest)
      [] Head(work[a]).do \in {"complete", "defer", "reply"} -> current[Object(a)] # NoRequest
      [] Head(work[a]).do = "accept" -> portList # <<>>
      [] OTHER -> TRUE

\* The references to request r, other than the one of the thread that sent it.
Holders(r) ==
  {<<"list", s>> : s \in {s \in Sessions : r \in ToSet(list[s])}}
  \cup {<<"current", s>> : s \in {s \in Sessions : current[s] = r}}
  \cup {<<"hand", a>> : a \in {a \in Actors : hand[a] = r}}
  \cup {<<"client", c>> : c \in {c \in Clients : call[c].at = "answer" /\ call[c].request = r}}

\* The thread that sent r is in SendSyncRequest.
Sending(r) == call[Thread(r)].at \in {"wait", "return"} /\ call[Thread(r)].request = r

\* However the two ends are closed, and whenever the thread that sent it is
\* terminated, a request is answered at most once, a thread that waits is not
\* forgotten, and a request that is freed was answered unless its thread is
\* terminating.
AnsweredOnce ==
  \A r \in Requests :
    /\ answers[r] <= 1
    /\ Sending(r) /\ call[Thread(r)].at = "wait" => answers[r] = 0 /\ Holders(r) # {}
    /\ references[r] = 0 => answers[r] = 1 \/ Thread(r) \in terminating

\* The variables have their types, the reference count of a request is the number
\* of its holders, so that it is freed when the last one is done with it and not
\* before, and the sessions the port counts are those that are not freed.
NothingLeaks ==
  /\ TypeOK
  /\ \A r \in Requests : references[r] = Cardinality(Holders(r)) + (IF Sending(r) THEN 1 ELSE 0)
  /\ numSessions = Cardinality({s \in Sessions : state[s] # "free"})
  /\ \A s \in Sessions : state[s] = "free" => list[s] = <<>> /\ current[s] = NoRequest

\* Client c is in KServerSession::OnClientClosed, which ends with a notification.
ClosesSession(c, s) == call[c].session = s /\ call[c].at \in {"take", "answer"}

\* No notification is missed: a thread that sleeps in WaitAny has no signalled
\* object whose notification is not still to come, and no object waits in the
\* deferred list without the wakeup event being about to be signalled.
NoMissedRequest ==
  selected = Blocked =>
    /\ \A o \in ToSet(multiWait) : IsSignaled(o) => \E c \in Clients : ClosesSession(c, o)
    /\ deferredList # <<>> =>
         \E a \in Servers : \E i \in DOMAIN work[a] : work[a][i].do = "signal"

\* Client c waits for something that the service can answer.
Answerable(c) == call[c].at = "wait" /\ (Kind(call[c].request) = "getService" => registered)

\* A client that waits for an answer gets one, from the service or because the
\* server goes away; a request for a service is answered if the service stays
\* registered.
RequestIsAnswered == \A c \in Clients : Answerable(c) ~> ~Answerable(c)
=============================================================================
