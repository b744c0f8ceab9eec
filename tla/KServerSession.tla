--------------------------- MODULE KServerSession ---------------------------
(***************************************************************************)
(* IPC sessions: KSession, its two ends KClientSession and KServerSession,  *)
(* and the port they are created with (core/hle/kernel/k_server_session.cpp *)
(* and the files beside it).                                               *)
(*                                                                         *)
(* The guest threads of the clients send requests and close handles, and    *)
(* may be terminated at any time.  The servers call ReceiveRequest,         *)
(* SendReply and Destroy.  Both close their end of a session: the last      *)
(* reference runs the destructor, while the other end is in use.            *)
(*                                                                         *)
(* A step that takes the scheduler lock is one step.  m_lock, a KLightLock, *)
(* is held over several; its acquisition is one with the step after it.     *)
(* Messages are copied by nobody here: a request has a kind, which decides  *)
(* what the service does with it.                                          *)
(***************************************************************************)
EXTENDS MultiWait

CONSTANTS
  Clients,       \* guest threads
  Servers,       \* threads that run the server's loop
  Main,          \* the thread that shuts the server down
  Sessions,      \* KSession objects, used again once they are freed
  Port,          \* the server's port
  MaxSessions,   \* m_max_sessions of the port
  NoSession, NoRequest, NoActor,
  Kinds,         \* the kinds of requests sent
  MaySendAsync,  \* clients that send asynchronous requests
  MayTerminate   \* clients that may be terminated

ASSUME SessionAssumption ==
  /\ MaySendAsync \cup MayTerminate \subseteq Clients
  /\ Kinds \subseteq {"call", "getService", "close"}
  /\ MaxSessions \in Nat

\* The requests of a client, each with what it asks for.
Requests == Clients \X {"sync", "async"} \X Kinds
Thread(r) == r[1]
IsAsync(r) == r[2] = "async"
Kind(r) == r[3]

Actors == Servers \cup {Main}

VARIABLES
  state,        \* m_atomic_state, or "free" without a KSession
  ends,         \* the ends of a session that still hold a reference to it
  handle,       \* sessions whose client end is in a handle table
  list,         \* m_request_list
  current,      \* m_current_request
  lock,         \* m_lock
  cleared,      \* requests whose m_thread and m_event were cleared
  references,   \* reference count of a request
  answers,      \* answers a request has got since it was last sent
  call,         \* where a client is
  terminating,  \* clients whose termination is requested
  portOpen,     \* m_state of the port is Normal
  portList,     \* m_session_list of the port
  numSessions,  \* m_num_sessions of the port
  work,         \* what a server thread has still to do
  hand          \* the request a server thread has taken

sessionVars == <<state, ends, handle, list, current, lock>>
requestVars == <<cleared, references, answers>>
clientVars == <<call, terminating>>
portVars == <<portOpen, portList, numSessions>>
serverVars == <<work, hand>>

Idle == [at |-> "idle", session |-> NoSession, request |-> NoRequest, prev |-> NoRequest]
Job(do, of) == [do |-> do, of |-> of]

SessionInit ==
  /\ multiWait = <<>> /\ selected = NoHolder
  /\ state = [s \in Sessions |-> "free"]
  /\ ends = [s \in Sessions |-> {}]
  /\ handle = {}
  /\ list = [s \in Sessions |-> <<>>]
  /\ current = [s \in Sessions |-> NoRequest]
  /\ lock = [s \in Sessions |-> NoActor]
  /\ cleared = {}
  /\ references = [r \in Requests |-> 0]
  /\ answers = [r \in Requests |-> 1]
  /\ call = [c \in Clients |-> Idle]
  /\ terminating = {}
  /\ portOpen = TRUE /\ portList = <<>> /\ numSessions = 0
  /\ work = [a \in Actors |-> <<>>]
  /\ hand = [a \in Actors |-> NoRequest]

\* KSession::IsServerClosed and KSession::IsClientClosed
IsClosed(s) == state[s] # "Normal"

\* Mutant: a session that handles no request is signalled.
SessionIsSignaled_Empty(s) == IsClosed(s) \/ current[s] = NoRequest

\* KServerSession::IsSignaled
SessionIsSignaled(s) == IsClosed(s) \/ (list[s] # <<>> /\ current[s] = NoRequest)

\* KServerPort::IsSignaled
PortIsSignaled == portList # <<>>

----------------------------------------------------------------------------
(* The client. *)

Runs(c) == call[c] = Idle /\ c \notin terminating

\* KClientPort::CreateSession, up to the registration of the session.
CreateSession(c, s) ==
  /\ Runs(c) /\ state[s] = "free" /\ numSessions < MaxSessions
  /\ numSessions' = numSessions + 1
  /\ state' = [state EXCEPT ![s] = "Normal"]
  /\ ends' = [ends EXCEPT ![s] = {"client", "server"}]
  /\ call' = [call EXCEPT ![c] = [Idle EXCEPT !.at = "enqueue", !.session = s]]
  /\ UNCHANGED <<handle, list, current, lock, requestVars, terminating, portOpen, portList,
                 serverVars, waitVars>>

\* KPort::EnqueueSession, at the end of CreateSession.  If the port is closed
\* both ends of the session, which nobody else knows, are closed again.
EnqueueSession(c) ==
  LET s == call[c].session IN
  /\ call[c].at = "enqueue"
  /\ call' = [call EXCEPT ![c] = Idle]
  /\ IF portOpen
     THEN /\ portList' = Append(portList, s)
          /\ handle' = handle \cup {s}
          /\ NotifyIf(portList = <<>>, Port)
          /\ UNCHANGED <<state, ends, numSessions>>
     ELSE /\ state' = [state EXCEPT ![s] = "free"]
          /\ ends' = [ends EXCEPT ![s] = {}]
          /\ numSessions' = numSessions - 1
          /\ UNCHANGED <<portList, handle, waitVars>>
  /\ UNCHANGED <<list, current, lock, requestVars, terminating, portOpen, serverVars>>

\* KClientSession::SendSyncRequest and SendAsyncRequest with
\* KServerSession::OnRequest.  The reference of the caller is closed when it
\* returns.  Bound: a client has one asynchronous request at a time.
SendRequest(c, s, r) ==
  /\ Runs(c) /\ s \in handle /\ ~IsClosed(s)
  /\ Thread(r) = c /\ (IsAsync(r) => c \in MaySendAsync)
  /\ \A q \in Requests : references[q] > 0 => Thread(q) # c \/ IsAsync(q) # IsAsync(r)
  /\ list' = [list EXCEPT ![s] = Append(@, r)]
  /\ NotifyIf(list[s] = <<>>, s)
  /\ cleared' = cleared \ {r}
  /\ answers' = [answers EXCEPT ![r] = 0]
  /\ references' = [references EXCEPT ![r] = IF IsAsync(r) THEN 1 ELSE 2]
  /\ call' = IF IsAsync(r) THEN call
             ELSE [call EXCEPT ![c] = [Idle EXCEPT !.at = "wait", !.session = s, !.request = r]]
  /\ UNCHANGED <<state, ends, handle, current, lock, terminating, portVars, serverVars>>

\* Another thread is in a call with the client end of session s.
InUse(c, s) ==
  \E d \in Clients \ {c} : call[d].session = s /\ call[d].at \in {"wait", "return"}

\* A client drops a reference to the client end of its session: the last one
\* runs KClientSession::Destroy.
DropClient(c, s, handles) ==
  call' = [call EXCEPT ![c] = IF InUse(c, s) \/ s \in handles THEN Idle
                              ELSE [Idle EXCEPT !.at = "read", !.session = s]]

\* SendSyncRequest returns.
Return(c) ==
  /\ call[c].at = "return"
  /\ references' = [references EXCEPT ![call[c].request] = @ - 1]
  /\ DropClient(c, call[c].session, handle)
  /\ UNCHANGED <<sessionVars, cleared, answers, terminating, portVars, serverVars, waitVars>>

\* CloseHandle
CloseHandle(c, s) ==
  /\ Runs(c) /\ s \in handle
  /\ handle' = handle \ {s}
  /\ DropClient(c, s, handle')
  /\ UNCHANGED <<state, ends, list, current, lock, requestVars, terminating, portVars, serverVars,
                 waitVars>>

\* KThread::RequestTerminate: the wait for an answer ends.
RequestTerminate(c) ==
  /\ c \in MayTerminate \ terminating
  /\ terminating' = terminating \cup {c}
  /\ call' = [call EXCEPT ![c].at = IF @ = "wait" THEN "return" ELSE @]
  /\ UNCHANGED <<sessionVars, requestVars, portVars, serverVars, waitVars>>

\* KSession::OnClientClosed reads m_atomic_state.
OnClientClosedRead(c) ==
  /\ call[c].at = "read"
  /\ call' = [call EXCEPT ![c].at = IF IsClosed(call[c].session) THEN "release" ELSE "set"]
  /\ UNCHANGED <<sessionVars, requestVars, terminating, portVars, serverVars, waitVars>>

\* KSession::OnClientClosed sets m_atomic_state.
OnClientClosedSet(c) ==
  /\ call[c].at = "set"
  /\ state' = [state EXCEPT ![call[c].session] = "ClientClosed"]
  /\ call' = [call EXCEPT ![c].at = "take"]
  /\ UNCHANGED <<ends, handle, list, current, lock, requestVars, terminating, portVars, serverVars,
                 waitVars>>

\* Mutant: no reference to the current request is opened.
TakeCurrent_NoOpen(c, s, r) ==
  /\ current[s] = r /\ r \notin {NoRequest, call[c].prev}
  /\ cleared' = IF Thread(r) \in terminating THEN cleared \cup {r} ELSE cleared
  /\ call' = [call EXCEPT ![c].at = "answer", ![c].request = r, ![c].prev = r]
  /\ UNCHANGED <<list, references>>

\* The first step of KServerSession::OnClientClosed: a reference to the current
\* request, which stays with the server.
TakeCurrent(c, s, r) ==
  /\ current[s] = r /\ r \notin {NoRequest, call[c].prev}
  /\ references' = [references EXCEPT ![r] = @ + 1]
  /\ cleared' = IF Thread(r) \in terminating THEN cleared \cup {r} ELSE cleared
  /\ call' = [call EXCEPT ![c].at = "answer", ![c].request = r, ![c].prev = r]
  /\ UNCHANGED list

\* The next request of the list.
TakeFirst(c, s) ==
  /\ current[s] \in {NoRequest, call[c].prev} /\ list[s] # <<>>
  /\ list' = [list EXCEPT ![s] = Tail(@)]
  /\ call' = [call EXCEPT ![c].at = "answer", ![c].request = Head(list[s])]
  /\ UNCHANGED <<references, cleared>>

\* Mutant: the server is not told.
OnClientClosedNotifies_Missing == FALSE

\* KServerSession::OnClientClosed calls NotifyAvailable(ResultSessionClosed).
OnClientClosedNotifies == TRUE

\* The lock section of KServerSession::OnClientClosed, and its end.
OnClientClosedTake(c) ==
  LET s == call[c].session IN
  /\ call[c].at = "take" /\ lock[s] \in {NoActor, c}
  /\ \/ /\ TakeCurrent(c, s, current[s]) \/ TakeFirst(c, s)
        /\ lock' = [lock EXCEPT ![s] = c]
        /\ UNCHANGED waitVars
     \/ /\ current[s] \in {NoRequest, call[c].prev} /\ list[s] = <<>>
        /\ lock' = [lock EXCEPT ![s] = NoActor]
        /\ call' = [call EXCEPT ![c] = [Idle EXCEPT !.at = "release", !.session = s]]
        /\ NotifyIf(OnClientClosedNotifies, s)
        /\ UNCHANGED <<list, references, cleared>>
  /\ UNCHANGED <<state, ends, handle, current, answers, terminating, portVars, serverVars>>

\* Mutant: the asynchronous request that the server handles is answered too.
OnClientClosedReplies_Current(c, r) == IsAsync(r)

\* event != nullptr && !cur_request
OnClientClosedReplies(c, r) == IsAsync(r) /\ r # call[c].prev

\* The rest of the loop of KServerSession::OnClientClosed.
OnClientClosedAnswer(c) ==
  LET r == call[c].request IN
  /\ call[c].at = "answer"
  /\ answers' = IF OnClientClosedReplies(c, r) THEN [answers EXCEPT ![r] = @ + 1] ELSE answers
  /\ references' = [references EXCEPT ![r] = @ - 1]
  /\ call' = [call EXCEPT ![c].at = "take"]
  /\ UNCHANGED <<sessionVars, cleared, terminating, portVars, serverVars, waitVars>>

\* An end of session s closes its reference to the KSession: the last one frees
\* it (KSession::Finalize, KClientPort::OnSessionFinalized).
ReleaseEnd(s, end) ==
  /\ ends' = [ends EXCEPT ![s] = @ \ {end}]
  /\ IF ends[s] = {end}
     THEN state' = [state EXCEPT ![s] = "free"] /\ numSessions' = numSessions - 1
     ELSE UNCHANGED <<state, numSessions>>

\* The end of KClientSession::Destroy.
ReleaseClient(c) ==
  /\ call[c].at = "release"
  /\ ReleaseEnd(call[c].session, "client")
  /\ call' = [call EXCEPT ![c] = Idle]
  /\ UNCHANGED <<handle, list, current, lock, requestVars, terminating, portOpen, portList,
                 serverVars, waitVars>>

ClientStep(c) ==
  \/ EnqueueSession(c) \/ Return(c) \/ ReleaseClient(c)
  \/ OnClientClosedRead(c) \/ OnClientClosedSet(c) \/ OnClientClosedTake(c) \/ OnClientClosedAnswer(c)

ClientCall(c) ==
  \/ RequestTerminate(c)
  \/ \E s \in Sessions :
       \/ CreateSession(c, s) \/ CloseHandle(c, s)
       \/ \E r \in Requests : SendRequest(c, s, r)

----------------------------------------------------------------------------
(* The server.  An actor's work is the sequence of what it has still to do;  *)
(* each step below does the first of it.                                    *)

Does(a, do) == work[a] # <<>> /\ Head(work[a]).do = do
Object(a) == Head(work[a]).of

\* The first job of actor a is replaced by these.
Then(a, jobs) == work' = [work EXCEPT ![a] = jobs \o Tail(@)]

\* KServerSession::ReceiveRequest, its lock section, for a request that it
\* finds.
ReceiveRequest(a) ==
  LET s == Object(a) IN
  /\ Does(a, "receive") /\ lock[s] = NoActor
  /\ ~IsClosed(s) /\ current[s] = NoRequest /\ list[s] # <<>>
  /\ list' = [list EXCEPT ![s] = Tail(@)]
  /\ lock' = [lock EXCEPT ![s] = a]
  /\ hand' = [hand EXCEPT ![a] = Head(list[s])]
  /\ Then(a, <<Job("received", s)>>)
  /\ UNCHANGED <<state, ends, handle, current, requestVars, clientVars, portVars, waitVars>>

\* The rest of ReceiveRequest: the request is the current one.
ReceivedRequest(a) ==
  LET s == Object(a) IN
  /\ Does(a, "received")
  /\ current' = [current EXCEPT ![s] = hand[a]]
  /\ hand' = [hand EXCEPT ![a] = NoRequest]
  /\ lock' = [lock EXCEPT ![s] = NoActor]
  /\ Then(a, <<Job("complete", s)>>)
  /\ UNCHANGED <<state, ends, handle, list, requestVars, clientVars, portVars, waitVars>>

\* ReceiveRequest fails with ResultSessionClosed.
ReceiveFails(a) ==
  LET s == Object(a) IN
  /\ Does(a, "receive") /\ lock[s] = NoActor /\ IsClosed(s)
  /\ Then(a, <<Job("destroy", s)>>)
  /\ UNCHANGED <<hand, sessionVars, requestVars, clientVars, portVars, waitVars>>

\* KServerSession::SendReply, its lock section.
SendReply(a) ==
  LET s == Object(a) IN
  /\ Does(a, "reply") /\ lock[s] = NoActor /\ current[s] # NoRequest
  /\ current' = [current EXCEPT ![s] = NoRequest]
  /\ lock' = [lock EXCEPT ![s] = a]
  /\ hand' = [hand EXCEPT ![a] = current[s]]
  /\ NotifyIf(list[s] # <<>>, s)
  /\ Then(a, <<Job("replied", s)>>)
  /\ UNCHANGED <<state, ends, handle, list, requestVars, clientVars, portVars>>

\* The client thread of request r is told of the answer.
Answers(r) == r \notin cleared /\ (IsAsync(r) \/ Thread(r) \notin terminating)

\* A request in hand is answered, and the reference to it closed: by a signal
\* of its event, or by EndWait.
AnswerRequest(a) ==
  LET r == hand[a] IN
  /\ answers' = IF Answers(r) THEN [answers EXCEPT ![r] = @ + 1] ELSE answers
  /\ call' = IF Answers(r) /\ ~IsAsync(r) THEN [call EXCEPT ![Thread(r)].at = "return"] ELSE call
  /\ references' = [references EXCEPT ![r] = @ - 1]
  /\ hand' = [hand EXCEPT ![a] = NoRequest]

\* The rest of SendReply: its result says whether the session is closed.
RepliedRequest(a, closedJobs, jobs) ==
  LET s == Object(a) IN
  /\ Does(a, "replied")
  /\ AnswerRequest(a)
  /\ lock' = [lock EXCEPT ![s] = NoActor]
  /\ Then(a, IF hand[a] \in cleared \/ IsClosed(s) THEN closedJobs ELSE jobs)
  /\ UNCHANGED <<state, ends, handle, list, current, cleared, terminating, portVars, waitVars>>

\* KSession::OnServerClosed reads m_atomic_state, at the start of
\* KServerSession::Destroy.
OnServerClosedRead(a) ==
  LET s == Object(a) IN
  /\ Does(a, "close")
  /\ Then(a, IF IsClosed(s) THEN <<Job("cleanup", s)>> ELSE <<Job("set", s)>>)
  /\ UNCHANGED <<hand, sessionVars, requestVars, clientVars, portVars, waitVars>>

\* KSession::OnServerClosed sets m_atomic_state.
OnServerClosedSet(a) ==
  LET s == Object(a) IN
  /\ Does(a, "set")
  /\ state' = [state EXCEPT ![s] = "ServerClosed"]
  /\ Then(a, <<Job("cleanup", s)>>)
  /\ UNCHANGED <<hand, ends, handle, list, current, lock, requestVars, clientVars, portVars, waitVars>>

\* The requests CleanupRequests finds, in its order.
Pending(s) == IF current[s] # NoRequest THEN <<current[s]>> \o list[s] ELSE list[s]

\* The lock section of KServerSession::CleanupRequests, and its end.
CleanupRequests(a) ==
  LET s == Object(a) IN
  /\ Does(a, "cleanup") /\ lock[s] \in {NoActor, a}
  /\ IF Pending(s) # <<>>
     THEN /\ hand' = [hand EXCEPT ![a] = Head(Pending(s))]
          /\ current' = [current EXCEPT ![s] = NoRequest]
          /\ list' = [list EXCEPT ![s] = Tail(Pending(s))]
          /\ lock' = [lock EXCEPT ![s] = a]
          /\ Then(a, <<Job("cleaned", s)>>)
     ELSE /\ lock' = [lock EXCEPT ![s] = NoActor]
          /\ Then(a, <<Job("release", s)>>)
          /\ UNCHANGED <<hand, current, list>>
  /\ UNCHANGED <<state, ends, handle, requestVars, clientVars, portVars, waitVars>>

\* The rest of the loop of CleanupRequests.
CleanedRequest(a) ==
  /\ Does(a, "cleaned")
  /\ AnswerRequest(a)
  /\ Then(a, <<Job("cleanup", Object(a))>>)
  /\ UNCHANGED <<sessionVars, cleared, terminating, portVars, waitVars>>

\* The end of KServerSession::Destroy.
ReleaseServer(a) ==
  /\ Does(a, "release")
  /\ ReleaseEnd(Object(a), "server")
  /\ Then(a, <<>>)
  /\ UNCHANGED <<hand, handle, list, current, lock, requestVars, clientVars, portOpen, portList,
                 waitVars>>

\* The steps of a server in a session.
SessionStep(a) ==
  \/ ReceiveRequest(a) \/ ReceivedRequest(a) \/ ReceiveFails(a) \/ SendReply(a)
  \/ OnServerClosedRead(a) \/ OnServerClosedSet(a) \/ CleanupRequests(a) \/ CleanedRequest(a)
  \/ ReleaseServer(a)
=============================================================================
