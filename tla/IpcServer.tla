----------------------------- MODULE IpcServer -----------------------------
(***************************************************************************)
(* The two named-pipe servers of ipc.rs and the UI thread's side of them:  *)
(* the control worker (run_server_loop), the status worker                 *)
(* (run_status_server_loop), IpcServer::start with its startup handshake,  *)
(* the message loop that answers queued requests, and the orderly shutdown *)
(* of main.rs that rejects them, stops both workers and joins them.        *)
(*                                                                         *)
(* A pipe has one instance (CreateNamedPipe is called with a maximum of    *)
(* one), so pipe[w] is "none", "free" or the caller connected to it.  Each *)
(* client issues one request, so a request and its private response        *)
(* channel are identified by the client.                                   *)
(*                                                                         *)
(* Timing: a caller retries 20 times, 100 ms apart, while the pipe is      *)
(* missing or busy.  That window is taken to outlast the gap between two   *)
(* instances, so a caller gives up with "Unavailable" only once the worker *)
(* is gone, and with "Transport" only while another caller is connected.   *)
(***************************************************************************)
EXTENDS Naturals, Sequences

CONSTANTS
  ControlClients,  \* callers of send_request on the control pipe
  StatusClients,   \* callers of read_status on the status pipe
  FailingClaims    \* endpoints whose initial pipe instance may be unclaimable

Endpoints == {"control", "status"}
Clients   == ControlClients \cup StatusClients

ASSUME ClientsAssumption ==
  /\ ControlClients \cap StatusClients = {}
  /\ Clients \cap {"none", "free", "ui", "waker"} = {}
  /\ FailingClaims \subseteq Endpoints

VARIABLES
  pc,         \* pc[w]: where worker w is in its loop
  pipe,       \* pipe[w]: the endpoint's instance and who holds it
  queue,      \* ipc_requests: PendingRequests not yet received by the UI thread
  resp,       \* resp[c]: what c's response channel holds
  requested,  \* StatusShutdown::requested
  startup,    \* startup_rx: handshake results not yet received
  ready,      \* control_ready
  ui,         \* where the UI thread is
  closing,    \* why the UI thread stops the server: "none", "startup" or "orderly"
  posted,     \* an IPC_WAKE_MESSAGE waits in the UI thread's message queue
  cl,         \* cl[c]: the caller's view of its request
  handled     \* history: handled[c] = times the UI thread carried out c's request

vars == <<pc, pipe, queue, resp, requested, startup, ready, ui, closing, posted, cl, handled>>

Settled == {"Ok", "Error", "Transport", "Unavailable"}

Endpoint(c) == IF c \in StatusClients THEN "status" ELSE "control"

\* The receiver of PendingRequests lives until the UI thread drops the Application.
ReceiverAlive == ui # "done"

Init ==
  /\ pc        = [w \in Endpoints |-> "claim"]
  /\ pipe      = [w \in Endpoints |-> "none"]
  /\ queue     = <<>>
  /\ resp      = [c \in Clients |-> "none"]
  /\ requested = FALSE
  /\ startup   = <<>>
  /\ ready     = FALSE
  /\ ui        = "start1"
  /\ closing   = "none"
  /\ posted    = FALSE
  /\ cl        = [c \in Clients \cup {"ui"} |-> "idle"]
  /\ handled   = [c \in Clients |-> 0]

-----------------------------------------------------------------------------
(***************************************************************************)
(* Worker threads.  Leave(w, next, r) ends the service of the connected    *)
(* caller with answer r and drops the pipe handle.                         *)
(***************************************************************************)
Goto(w, next) == pc' = [pc EXCEPT ![w] = next]

Leave(w, next, r) ==
  /\ Goto(w, next)
  /\ pipe' = [pipe EXCEPT ![w] = "none"]
  /\ cl' = [c \in DOMAIN cl |->
              IF c = pipe[w] /\ cl[c] \notin Settled THEN r ELSE cl[c]]

\* claim_initial_pipe_instance, then the startup result.
ClaimInitialPipe(w) ==
  /\ pc[w] = "claim"
  /\ Goto(w, IF w = "control" THEN "listen" ELSE "open")
  /\ pipe' = [pipe EXCEPT ![w] = "free"]
  /\ startup' = Append(startup, [kind |-> w, result |-> "Ok"])
  /\ UNCHANGED <<queue, resp, requested, ready, ui, closing, posted, cl, handled>>

ClaimFails(w) ==
  /\ pc[w] = "claim" /\ w \in FailingClaims
  /\ Goto(w, "gone")
  /\ startup' = Append(startup, [kind |-> w, result |-> "Err"])
  /\ UNCHANGED <<pipe, queue, resp, requested, ready, ui, closing, posted, cl, handled>>

\* accept_control_client creates the next instance.
OpenControl ==
  /\ pc["control"] = "open"
  /\ Goto("control", "listen")
  /\ pipe' = [pipe EXCEPT !["control"] = "free"]
  /\ UNCHANGED <<queue, resp, requested, startup, ready, ui, closing, posted, cl, handled>>

\* Mutant: the next instance is published without looking at `requested`.
OpenStatusUnchecked ==
  /\ pc["status"] = "open"
  /\ Goto("status", "listen")
  /\ pipe' = [pipe EXCEPT !["status"] = IF @ = "none" THEN "free" ELSE @]
  /\ UNCHANGED <<queue, resp, requested, startup, ready, ui, closing, posted, cl, handled>>

\* Under accept_gate: leave when shutdown was requested, else publish the next instance.
OpenStatus ==
  /\ pc["status"] = "open"
  /\ IF requested
     THEN Leave("status", "gone", "Transport")
     ELSE /\ Goto("status", "listen")
          /\ pipe' = [pipe EXCEPT !["status"] = IF @ = "none" THEN "free" ELSE @]
          /\ UNCHANGED cl
  /\ UNCHANGED <<queue, resp, requested, startup, ready, ui, closing, posted, handled>>

\* connect_pipe_client returns: a caller is connected.
Accept(w) ==
  /\ pc[w] = "listen" /\ pipe[w] # "free"
  /\ Goto(w, IF w = "control" THEN "read" ELSE "check")
  /\ UNCHANGED <<pipe, queue, resp, requested, startup, ready, ui, closing, posted, cl, handled>>

\* Creating the next instance or waiting for its client fails: the worker stops.
AcceptFails(w) ==
  /\ \/ pc[w] = "listen"
     \/ pc[w] = "open" /\ pipe[w] = "none"
  /\ Leave(w, "gone", "Transport")
  /\ UNCHANGED <<queue, resp, requested, startup, ready, ui, closing, posted, handled>>

\* read_request: the UI thread's ShutdownServer ends the loop, any other request goes on.
ReadRequest ==
  /\ pc["control"] = "read" /\ cl[pipe["control"]] = "sent"
  /\ IF pipe["control"] = "ui"
     THEN Leave("control", "gone", "Ok")
     ELSE Goto("control", "send") /\ UNCHANGED <<pipe, cl>>
  /\ UNCHANGED <<queue, resp, requested, startup, ready, ui, closing, posted, handled>>

\* A malformed, oversized or incomplete request, or the one-second deadline.
ReadFails ==
  /\ pc["control"] = "read"
  /\ Leave("control", "open", "Error")
  /\ UNCHANGED <<queue, resp, requested, startup, ready, ui, closing, posted, handled>>

\* The status worker tests the shutdown request once more after a connection.
CheckRequested ==
  /\ pc["status"] = "check"
  /\ IF requested
     THEN Leave("status", "gone", "Transport")
     ELSE Goto("status", "send") /\ UNCHANGED <<pipe, cl>>
  /\ UNCHANGED <<queue, resp, requested, startup, ready, ui, closing, posted, handled>>

\* request_tx.send: fails, and ends the loop, once the receiver is dropped.
SendRequest(w) ==
  /\ pc[w] = "send"
  /\ IF ReceiverAlive
     THEN /\ queue' = Append(queue, pipe[w])
          /\ Goto(w, "wake")
          /\ UNCHANGED <<pipe, cl>>
     ELSE /\ Leave(w, "gone", IF w = "control" THEN "Error" ELSE "Transport")
          /\ UNCHANGED queue
  /\ UNCHANGED <<resp, requested, startup, ready, ui, closing, posted, handled>>

\* Mutant: the request is queued but the UI thread is not woken.
WakeNobody(w) ==
  /\ pc[w] = "wake"
  /\ Goto(w, "wait")
  /\ UNCHANGED <<pipe, queue, resp, requested, startup, ready, ui, closing, posted, cl, handled>>

\* wake_ui_thread
WakeUiThread(w) ==
  /\ pc[w] = "wake"
  /\ posted' = TRUE
  /\ Goto(w, "wait")
  /\ UNCHANGED <<pipe, queue, resp, requested, startup, ready, ui, closing, cl, handled>>

\* Mutant: a failed wake-up is retried by sending the request again.
WakeFailsSendsAgain(w) ==
  /\ pc[w] = "wake"
  /\ Goto(w, "send")
  /\ UNCHANGED <<pipe, queue, resp, requested, startup, ready, ui, closing, posted, cl, handled>>

\* The wake-up could not be posted: the caller is turned away, the request stays queued.
WakeFails(w) ==
  /\ pc[w] = "wake"
  /\ Leave(w, "open", IF w = "control" THEN "Error" ELSE "Transport")
  /\ UNCHANGED <<queue, resp, requested, startup, ready, ui, closing, posted, handled>>

\* response_rx.recv: an answer is passed on; a dropped request ends the loop.
ReceiveResponse(w) ==
  LET r == resp[pipe[w]]
      answer == IF r = "Ok" THEN "Ok"
                ELSE IF w = "control" THEN "Error" ELSE "Transport"
  IN
  /\ pc[w] = "wait" /\ r # "none"
  /\ Leave(w, IF r = "Dropped" THEN "gone" ELSE "open", answer)
  /\ UNCHANGED <<queue, resp, requested, startup, ready, ui, closing, posted, handled>>

-----------------------------------------------------------------------------
(***************************************************************************)
(* Clients: the Wardoff command line in other processes.                   *)
(***************************************************************************)
\* A status client only reads; a control client writes its request next.
ClientConnects(c) ==
  LET w == Endpoint(c) IN
  /\ cl[c] = "idle" /\ pipe[w] = "free"
  /\ pipe' = [pipe EXCEPT ![w] = c]
  /\ cl' = [cl EXCEPT ![c] = IF w = "status" THEN "sent" ELSE "connected"]
  /\ UNCHANGED <<pc, queue, resp, requested, startup, ready, ui, closing, posted, handled>>

ClientWrites(c) ==
  /\ cl[c] = "connected"
  /\ cl' = [cl EXCEPT ![c] = "sent"]
  /\ UNCHANGED <<pc, pipe, queue, resp, requested, startup, ready, ui, closing, posted, handled>>

\* How a caller's retries can end without a connection.
RetriesExhausted(w) ==
  IF pc[w] = "gone" THEN {"Unavailable"}
  ELSE IF pipe[w] \notin {"none", "free"} THEN {"Transport"}
  ELSE {}

ClientGivesUp(c) ==
  /\ cl[c] = "idle"
  /\ \E r \in RetriesExhausted(Endpoint(c)) : cl' = [cl EXCEPT ![c] = r]
  /\ UNCHANGED <<pc, pipe, queue, resp, requested, startup, ready, ui, closing, posted, handled>>

-----------------------------------------------------------------------------
(***************************************************************************)
(* The UI thread.                                                          *)
(***************************************************************************)
\* IpcServer::start could not spawn the status thread, or neither thread: it returns at
\* once, and a control worker that was spawned goes on without anybody to join it.
SpawnFails ==
  /\ ui = "start1" /\ pc["status"] = "claim"
  /\ \/ Goto("status", "gone")
     \/ pc["control"] = "claim" /\ pc' = [w \in Endpoints |-> "gone"]
  /\ ui' = "drop" /\ closing' = "startup"
  /\ UNCHANGED <<pipe, queue, resp, requested, startup, ready, posted, cl, handled>>

\* wait_for_server_startup: two results, the first failure starts the cleanup.
StartupResult ==
  /\ ui \in {"start1", "start2"} /\ startup # <<>>
  /\ startup' = Tail(startup)
  /\ ready' = (ready \/ Head(startup) = [kind |-> "control", result |-> "Ok"])
  /\ IF Head(startup).result = "Ok"
     THEN /\ ui' = IF ui = "start1" THEN "start2" ELSE "loop"
          /\ UNCHANGED closing
     ELSE ui' = "request" /\ closing' = "startup"
  /\ UNCHANGED <<pc, pipe, queue, resp, requested, posted, cl, handled>>

\* process_ipc_requests, one request: carry it out and answer.
HandleRequest ==
  /\ ui = "loop" /\ queue # <<>>
  /\ LET c == Head(queue) IN
     /\ queue' = Tail(queue)
     /\ handled' = [handled EXCEPT ![c] = @ + 1]
     /\ \E r \in IF c \in StatusClients THEN {"Ok"} ELSE {"Ok", "Error"} :
          resp' = [resp EXCEPT ![c] = r]
  /\ UNCHANGED <<pc, pipe, requested, startup, ready, ui, closing, posted, cl>>

\* The wake message has been consumed and the queue drained.
WakeConsumed ==
  /\ ui = "loop" /\ posted /\ queue = <<>>
  /\ posted' = FALSE
  /\ UNCHANGED <<pc, pipe, queue, resp, requested, startup, ready, ui, closing, cl, handled>>

\* The message loop ends (Exit, WM_QUIT, or an error) and Application::shutdown begins.
LeaveLoop ==
  /\ ui = "loop"
  /\ ui' = "request" /\ closing' = "orderly"
  /\ UNCHANGED <<pc, pipe, queue, resp, requested, startup, ready, posted, cl, handled>>

\* StatusShutdown::request, from begin_shutdown (twice) or the startup cleanup.
RequestStatusShutdown ==
  /\ ui \in {"request", "request2"}
  /\ requested' = TRUE
  /\ ui' = IF ui = "request" THEN "wake" ELSE "wake2"
  /\ UNCHANGED <<pc, pipe, queue, resp, startup, ready, closing, posted, cl, handled>>

\* wake_status_server: one attempt to open the pipe, its failure ignored.
WakeStatusServer ==
  /\ ui \in {"wake", "wake2"}
  /\ pipe' = IF pipe["status"] = "free" THEN [pipe EXCEPT !["status"] = "waker"] ELSE pipe
  /\ ui' = IF ui = "wake2" THEN "send"
           ELSE IF closing = "orderly" THEN "reject"
           ELSE IF ready THEN "send" ELSE "joinControl"
  /\ UNCHANGED <<pc, queue, resp, requested, startup, ready, closing, posted, cl, handled>>

\* Mutant: pending requests are acknowledged instead of rejected.
RejectAcknowledges ==
  /\ ui = "reject"
  /\ IF queue = <<>>
     THEN ui' = "request2" /\ UNCHANGED <<queue, resp>>
     ELSE /\ queue' = Tail(queue)
          /\ resp' = [resp EXCEPT ![Head(queue)] = "Ok"]
          /\ UNCHANGED ui
  /\ UNCHANGED <<pc, pipe, requested, startup, ready, closing, posted, cl, handled>>

\* reject_pending_ipc_requests: until try_recv finds the queue empty.
RejectPending ==
  /\ ui = "reject"
  /\ IF queue = <<>>
     THEN ui' = "request2" /\ UNCHANGED <<queue, resp>>
     ELSE /\ queue' = Tail(queue)
          /\ resp' = [resp EXCEPT ![Head(queue)] = "Error"]
          /\ UNCHANGED ui
  /\ UNCHANGED <<pc, pipe, requested, startup, ready, closing, posted, cl, handled>>

\* send_request(ShutdownServer): connect and write, or exhaust the retries.
SendShutdownServer ==
  /\ ui = "send"
  /\ ui' = "reply"
  /\ \/ /\ pipe["control"] = "free"
        /\ pipe' = [pipe EXCEPT !["control"] = "ui"]
        /\ cl' = [cl EXCEPT !["ui"] = "sent"]
     \/ /\ \E r \in RetriesExhausted("control") : cl' = [cl EXCEPT !["ui"] = r]
        /\ UNCHANGED pipe
  /\ UNCHANGED <<pc, queue, resp, requested, startup, ready, closing, posted, handled>>

\* An orderly shutdown joins after Ok or Unavailable and gives up otherwise; the startup
\* cleanup ignores the answer.
ShutdownServerAnswered ==
  /\ ui = "reply" /\ cl["ui"] \in Settled
  /\ ui' = IF closing = "startup" \/ cl["ui"] \in {"Ok", "Unavailable"}
           THEN "joinControl" ELSE "drop"
  /\ UNCHANGED <<pc, pipe, queue, resp, requested, startup, ready, closing, posted, cl, handled>>

JoinWorker ==
  /\ \/ ui = "joinControl" /\ pc["control"] = "gone" /\ ui' = "joinStatus"
     \/ ui = "joinStatus" /\ pc["status"] = "gone" /\ ui' = "drop"
  /\ UNCHANGED <<pc, pipe, queue, resp, requested, startup, ready, closing, posted, cl, handled>>

\* bootstrap or run returns: the receiver and every request still queued are dropped.
DropReceiver ==
  /\ ui = "drop"
  /\ ui' = "done"
  /\ queue' = <<>>
  /\ resp' = [c \in Clients |->
                IF \E i \in DOMAIN queue : queue[i] = c THEN "Dropped" ELSE resp[c]]
  /\ UNCHANGED <<pc, pipe, requested, startup, ready, closing, posted, cl, handled>>

\* The UI thread has returned, or joins a worker that waits for a response the UI thread
\* alone could give.
Quiet ==
  /\ \/ ui = "done"
     \/ /\ ui \in {"joinControl", "joinStatus"}
        /\ \E w \in Endpoints : pc[w] = "wait" /\ resp[pipe[w]] = "none"
  /\ UNCHANGED vars

-----------------------------------------------------------------------------
WorkerStep(w) ==
  \/ ClaimInitialPipe(w) \/ ClaimFails(w) \/ Accept(w)
  \/ SendRequest(w) \/ WakeUiThread(w) \/ ReceiveResponse(w)

ControlStep == WorkerStep("control") \/ OpenControl \/ ReadRequest \/ ReadFails
StatusStep  == WorkerStep("status") \/ OpenStatus \/ CheckRequested

UiStep ==
  \/ StartupResult \/ RequestStatusShutdown \/ WakeStatusServer \/ RejectPending
  \/ SendShutdownServer \/ ShutdownServerAnswered \/ JoinWorker \/ DropReceiver

Next ==
  \/ ControlStep \/ StatusStep \/ UiStep
  \/ SpawnFails \/ HandleRequest \/ WakeConsumed \/ LeaveLoop
  \/ \E w \in Endpoints : AcceptFails(w) \/ WakeFails(w)
  \/ \E c \in Clients : ClientConnects(c) \/ ClientWrites(c) \/ ClientGivesUp(c)
  \/ Quiet

Spec == Init /\ [][Next]_vars

\* Threads keep running: each worker takes its enabled steps, the UI thread its startup
\* and shutdown steps, and a posted wake-up brings it to its queue.  A reader that gets
\* no request is released by the one-second deadline (ReadFails in ControlStep).  No
\* client, no failure and no end of the message loop is assumed to happen.
Fairness ==
  /\ WF_vars(ControlStep) /\ WF_vars(StatusStep) /\ WF_vars(UiStep)
  /\ WF_vars(posted /\ HandleRequest)

FairSpec == Spec /\ Fairness

-----------------------------------------------------------------------------
\* The variables' types; each pipe is held only by its own callers, and only requests of
\* clients, never the UI thread's ShutdownServer, are queued for the UI thread.
TypeOK ==
  /\ pc \in [Endpoints -> {"claim", "open", "listen", "read", "check", "send",
                           "wake", "wait", "gone"}]
  /\ pipe["control"] \in {"none", "free", "ui"} \cup ControlClients
  /\ pipe["status"] \in {"none", "free", "waker"} \cup StatusClients
  /\ DOMAIN pipe = Endpoints
  /\ queue \in Seq(Clients)
  /\ resp \in [Clients -> {"none", "Ok", "Error", "Dropped"}]
  /\ requested \in BOOLEAN /\ ready \in BOOLEAN /\ posted \in BOOLEAN
  /\ startup \in Seq([kind : Endpoints, result : {"Ok", "Err"}])
  /\ ui \in {"start1", "start2", "loop", "request", "wake", "reject", "request2",
             "wake2", "send", "reply", "joinControl", "joinStatus", "drop", "done"}
  /\ closing \in {"none", "startup", "orderly"}
  /\ cl \in [Clients \cup {"ui"} -> {"idle", "connected", "sent"} \cup Settled]
  /\ handled \in [Clients -> Nat]

\* A client told Ok had its request carried out: no early, rejected or foreign answer
\* reaches it as a success (run_server_loop's write_response after recv).
OkMeansHandled == \A c \in Clients : cl[c] = "Ok" => handled[c] > 0

\* No request is carried out twice, whatever wake-ups fail and whoever retries.
HandledAtMostOnce == \A c \in Clients : handled[c] <= 1

\* The status worker passed its last test of `requested` before shutdown set it, and
\* queued its request after reject_pending_ipc_requests had emptied the queue.
LateStatusRequest == ui = "joinStatus" /\ pc["status"] = "wait" /\ queue # <<>>

\* The startup cleanup joins a control worker that was never told to stop: its startup
\* result was still queued, or ShutdownServer was refused.
ControlNotStopped ==
  ui = "joinControl" /\ closing = "startup" /\ cl["ui"] \notin {"Ok", "Unavailable"}

\* Every control client that sent a request learns what became of it, also when the
\* server stops around it, unless the startup cleanup hangs on the control worker.
ControlClientsAnswered ==
  \A c \in ControlClients : cl[c] = "sent" ~> cl[c] \in Settled \/ []ControlNotStopped

\* Stopping the server comes to an end unless the UI thread stays in one of the two
\* joins above: the only ways in which it can hang.
StopSettles ==
  closing # "none" ~> ui = "done" \/ []LateStatusRequest \/ []ControlNotStopped
=============================================================================
