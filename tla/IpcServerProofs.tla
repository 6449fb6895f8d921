-------------------------- MODULE IpcServerProofs --------------------------
(***************************************************************************)
(* The pipe servers, for any sets of callers: a caller is told Ok only     *)
(* when its request was carried out, and no request is carried out twice.  *)
(***************************************************************************)
EXTENDS IpcServer, TLAPS

Queued(c) == \E i \in DOMAIN queue : queue[i] = c

\* Nothing has happened to c's request yet.
Fresh(c) == handled[c] = 0 /\ resp[c] = "none" /\ ~Queued(c)

\* A worker serves a caller it is connected to; from request_tx.send on, a client, never
\* the UI thread (its request ends the loop) or the wake-up of the status worker (the
\* test of `requested` that follows every connection stops it).
Served ==
  /\ \A w \in Endpoints :
       /\ pc[w] = "listen" => pipe[w] # "none"
       /\ pc[w] \in {"read", "check"} => pipe[w] \notin {"none", "free"}
       /\ pc[w] \in {"send", "wake", "wait"} => pipe[w] \in Clients
  /\ pc["status"] # "read" /\ pc["control"] # "check"
  /\ pipe["status"] = "waker" => requested
  /\ ui \in {"wake", "wake2"} => requested

\* A request is fresh until its worker has sent it, and is then queued or answered.
Followed ==
  /\ \A c \in Clients : cl[c] = "idle" => Fresh(c) /\ \A w \in Endpoints : pipe[w] # c
  /\ \A w \in Endpoints : pipe[w] \in Clients =>
       /\ cl[pipe[w]] \in {"connected", "sent"}
       /\ pc[w] \notin {"wake", "wait"} => Fresh(pipe[w])
       /\ pc[w] \in {"wake", "wait"} => resp[pipe[w]] # "none" \/ Queued(pipe[w])

\* The queue holds each request once, and none that was carried out or answered.
QueueFresh ==
  /\ \A i, j \in DOMAIN queue : queue[i] = queue[j] => i = j
  /\ \A i \in DOMAIN queue : handled[queue[i]] = 0 /\ resp[queue[i]] = "none"

AnswersFit == \A c \in Clients : resp[c] = "Ok" => handled[c] > 0

IInv ==
  /\ TypeOK
  /\ Served
  /\ Followed
  /\ QueueFresh
  /\ AnswersFit
  /\ OkMeansHandled
  /\ HandledAtMostOnce

USE ClientsAssumption DEF Endpoints, Clients

-----------------------------------------------------------------------------
\* The queue after try_recv, and after request_tx.send.
LEMMA TailFacts ==
  ASSUME NEW S, NEW q \in Seq(S), q # <<>>
  PROVE  /\ Tail(q) \in Seq(S) /\ Head(q) = q[1] /\ 1 \in DOMAIN q /\ q[1] \in S
         /\ \A i \in DOMAIN Tail(q) : i + 1 \in DOMAIN q /\ Tail(q)[i] = q[i + 1] /\ i \in Nat
         /\ \A i \in DOMAIN q : i # 1 => i - 1 \in DOMAIN Tail(q) /\ Tail(q)[i - 1] = q[i]
OBVIOUS

\* What appending does to a queue.
LEMMA AppendFacts ==
  ASSUME NEW S, NEW q \in Seq(S), NEW e \in S
  PROVE  /\ Append(q, e) \in Seq(S)
         /\ DOMAIN Append(q, e) = 1 .. Len(q) + 1 /\ DOMAIN q = 1 .. Len(q) /\ Len(q) \in Nat
         /\ \A i \in DOMAIN q : Append(q, e)[i] = q[i]
         /\ Append(q, e)[Len(q) + 1] = e
OBVIOUS

\* Both workers start with nothing claimed and no request seen.
LEMMA InitIInv == Init => IInv
<1> SUFFICES ASSUME Init PROVE IInv
  OBVIOUS
<1>1. requested \in BOOLEAN /\ ready \in BOOLEAN /\ posted \in BOOLEAN
  BY Zenon DEF Init
<1> QED
  BY <1>1 DEF Init, IInv, TypeOK, Settled, Served, Followed, Fresh, Queued, QueueFresh,
              AnswersFit, OkMeansHandled, HandledAtMostOnce

-----------------------------------------------------------------------------
\* Leave releases the worker's caller and settles it, and touches no other.
LEMMA LeaveFacts ==
  ASSUME IInv, NEW w \in Endpoints, NEW next, NEW r \in Settled, Leave(w, next, r)
  PROVE  /\ pipe'[w] = "none" /\ DOMAIN pipe' = Endpoints
         /\ \A v \in Endpoints : v # w => pipe'[v] = pipe[v] /\ pc'[v] = pc[v]
         /\ pc'[w] = next
         /\ \A c \in Clients : c # pipe[w] => cl'[c] = cl[c]
         /\ pipe[w] \in Clients => cl'[pipe[w]] = r
         /\ cl' \in [Clients \cup {"ui"} -> {"idle", "connected", "sent"} \cup Settled]
  BY DEF Leave, Goto, IInv, TypeOK, Settled, Followed

\* A worker that leaves its caller, and changes nothing else, preserves the invariant
\* provided that Ok is only passed on to a client that was answered so.
LEMMA LeaveIInv ==
  ASSUME IInv, NEW w \in Endpoints, NEW next \in {"open", "gone"}, NEW r \in Settled,
         Leave(w, next, r),
         r = "Ok" /\ pipe[w] \in Clients => resp[pipe[w]] = "Ok",
         UNCHANGED <<queue, resp, requested, startup, ready, ui, closing, posted, handled>>
  PROVE  IInv'
<1>1. TypeOK'
  BY LeaveFacts, SMTT(60) DEF IInv, TypeOK, Leave, Goto
<1>2. Served'
  BY LeaveFacts DEF IInv, TypeOK, Served
<1>3. Followed'
  BY LeaveFacts, SMTT(60) DEF IInv, TypeOK, Followed, Fresh, Queued, Settled
<1>4. QueueFresh' /\ AnswersFit' /\ HandledAtMostOnce'
  BY DEF IInv, QueueFresh, AnswersFit, HandledAtMostOnce
<1>5. OkMeansHandled'
  BY LeaveFacts DEF IInv, OkMeansHandled, AnswersFit, Settled
<1> QED
  BY <1>1, <1>2, <1>3, <1>4, <1>5 DEF IInv

\* Moving a worker while its caller stays what it was: the new place only has to agree
\* with what the pipe holds.
LEMMA MoveIInv ==
  ASSUME IInv, NEW w \in Endpoints, NEW next \in {"listen", "read", "check", "send"},
         pc[w] \notin {"wake", "wait"},
         pc' = [pc EXCEPT ![w] = next],
         DOMAIN pipe' = Endpoints, \A v \in Endpoints : v # w => pipe'[v] = pipe[v],
         pipe'[w] = pipe[w] \/ pipe'[w] = "free",
         next = "listen" => pipe'[w] # "none",
         next \in {"read", "check"} => pipe'[w] \notin {"none", "free"},
         next = "send" => pipe'[w] \in Clients,
         next = "read" => w = "control", next = "check" => w = "status",
         UNCHANGED <<queue, resp, requested, startup, ready, ui, closing, posted, cl, handled>>
  PROVE  IInv'
<1>1. TypeOK'
  BY DEF IInv, TypeOK
<1>2. Served'
  BY DEF IInv, TypeOK, Served
<1>3. Followed'
  BY DEF IInv, TypeOK, Followed, Fresh, Queued
<1> QED
  BY <1>1, <1>2, <1>3 DEF IInv, QueueFresh, AnswersFit, OkMeansHandled, HandledAtMostOnce

\* Taking the first request from the queue and answering it.
LEMMA DequeueIInv ==
  ASSUME IInv, queue # <<>>,
         NEW r \in {"Ok", "Error"},
         queue' = Tail(queue),
         resp' = [resp EXCEPT ![Head(queue)] = r],
         \/ handled' = [handled EXCEPT ![Head(queue)] = @ + 1]
         \/ handled' = handled /\ r = "Error",
         UNCHANGED <<pc, pipe, requested, startup, ready, ui, closing, posted, cl>>
  PROVE  IInv'
<1> DEFINE c == Head(queue)
<1>1. /\ c \in Clients /\ c = queue[1] /\ 1 \in DOMAIN queue
      /\ queue' \in Seq(Clients)
      /\ \A i \in DOMAIN queue' : i + 1 \in DOMAIN queue /\ queue'[i] = queue[i + 1] /\ i \in Nat
      /\ \A i \in DOMAIN queue : i # 1 => i - 1 \in DOMAIN queue' /\ queue'[i - 1] = queue[i]
  BY TailFacts DEF IInv, TypeOK
<1>2. handled[c] = 0 /\ resp[c] = "none" /\ Queued(c)
  BY <1>1 DEF IInv, QueueFresh, Queued
<1>3. \A d \in Clients : d # c => resp'[d] = resp[d] /\ handled'[d] = handled[d]
  BY <1>1 DEF IInv, TypeOK
<1>4. resp'[c] = r /\ handled'[c] \in {0, 1} /\ (r = "Ok" => handled'[c] = 1)
  BY <1>1, <1>2 DEF IInv, TypeOK
<1>5. \A i \in DOMAIN queue' : queue'[i] # c /\ queue'[i] \in Clients
  BY <1>1 DEF IInv, QueueFresh, TypeOK
<1>6. \A d \in Clients : d # c => (Queued(d)' <=> Queued(d))
  BY <1>1 DEF Queued
<1>7. TypeOK'
  BY <1>1 DEF IInv, TypeOK
<1>8. Served'
  BY DEF IInv, Served
<1>9. Followed'
  BY <1>2, <1>3, <1>4, <1>6 DEF IInv, Followed, Fresh
<1>10. QueueFresh'
  BY <1>1, <1>3, <1>5 DEF IInv, QueueFresh
<1>11. AnswersFit' /\ OkMeansHandled' /\ HandledAtMostOnce'
  BY <1>2, <1>3, <1>4 DEF IInv, AnswersFit, OkMeansHandled, HandledAtMostOnce
<1> QED
  BY <1>7, <1>8, <1>9, <1>10, <1>11 DEF IInv

-----------------------------------------------------------------------------
\* Every step of a worker preserves the invariant.
LEMMA WorkerIInv ==
  ASSUME IInv, NEW w \in Endpoints,
         \/ ClaimInitialPipe(w) \/ ClaimFails(w) \/ Accept(w) \/ AcceptFails(w)
         \/ SendRequest(w) \/ WakeUiThread(w) \/ WakeFails(w) \/ ReceiveResponse(w)
  PROVE  IInv'
<1>1. CASE ClaimInitialPipe(w)
  <2>1. TypeOK'
    BY <1>1 DEF ClaimInitialPipe, Goto, IInv, TypeOK
  <2>2. Served' /\ Followed'
    BY <1>1 DEF ClaimInitialPipe, Goto, IInv, TypeOK, Served, Followed, Fresh, Queued
  <2> QED
    BY <1>1, <2>1, <2>2
    DEF ClaimInitialPipe, IInv, QueueFresh, AnswersFit, OkMeansHandled, HandledAtMostOnce
<1>2. CASE ClaimFails(w)
  <2>1. TypeOK'
    BY <1>2 DEF ClaimFails, Goto, IInv, TypeOK
  <2>2. Served' /\ Followed'
    BY <1>2 DEF ClaimFails, Goto, IInv, TypeOK, Served, Followed, Fresh, Queued
  <2> QED
    BY <1>2, <2>1, <2>2
    DEF ClaimFails, IInv, QueueFresh, AnswersFit, OkMeansHandled, HandledAtMostOnce
<1>3. CASE Accept(w)
  BY <1>3, MoveIInv, Zenon DEF Accept, Goto, IInv, TypeOK, Served
<1>4. CASE AcceptFails(w)
  BY <1>4, LeaveIInv DEF AcceptFails, Settled
<1>5. CASE SendRequest(w)
  <2>1. CASE ~ReceiverAlive
    BY <1>5, <2>1, LeaveIInv DEF SendRequest, Settled
  <2>2. CASE ReceiverAlive
    <3> DEFINE c == pipe[w]
    <3>1. /\ queue' = Append(queue, c) /\ pc' = [pc EXCEPT ![w] = "wake"] /\ pc[w] = "send"
          /\ UNCHANGED <<pipe, cl, resp, requested, startup, ready, ui, closing, posted, handled>>
      BY <1>5, <2>2 DEF SendRequest, Goto
    <3>2. c \in Clients /\ Fresh(c)
      BY <3>1 DEF IInv, Served, Followed
    <3>3. /\ queue' \in Seq(Clients)
          /\ DOMAIN queue' = 1 .. Len(queue) + 1 /\ DOMAIN queue = 1 .. Len(queue)
          /\ Len(queue) \in Nat
          /\ \A i \in DOMAIN queue : queue'[i] = queue[i]
          /\ queue'[Len(queue) + 1] = c
      BY <3>1, <3>2, AppendFacts DEF IInv, TypeOK
    <3>4. Queued(c)' /\ \A d \in Clients : d # c => (Queued(d)' <=> Queued(d))
      BY <3>1, <3>3 DEF Queued
    <3>5. TypeOK'
      BY <3>1, <3>3 DEF IInv, TypeOK
    <3>6. Served'
      BY <3>1, <3>2 DEF IInv, TypeOK, Served
    <3>7. \A v \in Endpoints : v # w => pipe[v] # c
      BY <3>2 DEF IInv, TypeOK
    <3>8. Followed'
      BY <3>1, <3>2, <3>4, <3>7 DEF IInv, TypeOK, Followed, Fresh
    <3>9. QueueFresh'
      BY <3>1, <3>2, <3>3 DEF IInv, QueueFresh, Fresh, Queued
    <3> QED
      BY <3>1, <3>5, <3>6, <3>8, <3>9 DEF IInv, AnswersFit, OkMeansHandled, HandledAtMostOnce
  <2> QED
    BY <2>1, <2>2
<1>6. CASE WakeUiThread(w)
  <2>1. posted' \in BOOLEAN
    BY <1>6, Zenon DEF WakeUiThread
  <2>2. TypeOK'
    BY <1>6, <2>1 DEF WakeUiThread, Goto, IInv, TypeOK
  <2>3. Served' /\ Followed'
    BY <1>6 DEF WakeUiThread, Goto, IInv, TypeOK, Served, Followed, Fresh, Queued
  <2> QED
    BY <1>6, <2>2, <2>3
    DEF WakeUiThread, IInv, QueueFresh, AnswersFit, OkMeansHandled, HandledAtMostOnce
<1>7. CASE WakeFails(w)
  BY <1>7, LeaveIInv DEF WakeFails, Settled
<1>8. CASE ReceiveResponse(w)
  BY <1>8, LeaveIInv DEF ReceiveResponse, Settled
<1> QED
  BY <1>1, <1>2, <1>3, <1>4, <1>5, <1>6, <1>7, <1>8

\* The steps that only one of the two workers takes.
LEMMA OwnStepIInv ==
  ASSUME IInv, OpenControl \/ ReadRequest \/ ReadFails \/ OpenStatus \/ CheckRequested
  PROVE  IInv'
<1>1. CASE OpenControl
  BY <1>1, MoveIInv DEF OpenControl, Goto, IInv, TypeOK
<1>2. CASE ReadRequest
  <2>1. CASE pipe["control"] = "ui"
    BY <1>2, <2>1, LeaveIInv, SMTT(20) DEF ReadRequest, Settled
  <2>2. CASE pipe["control"] # "ui"
    BY <1>2, <2>2, MoveIInv DEF ReadRequest, Goto, IInv, TypeOK, Served
  <2> QED
    BY <2>1, <2>2
<1>3. CASE ReadFails
  BY <1>3, LeaveIInv DEF ReadFails, Settled
<1>4. CASE OpenStatus
  <2>1. CASE requested
    BY <1>4, <2>1, LeaveIInv, SMTT(20) DEF OpenStatus, Settled
  <2>2. CASE ~requested
    BY <1>4, <2>2, MoveIInv DEF OpenStatus, Goto, IInv, TypeOK
  <2> QED
    BY <2>1, <2>2
<1>5. CASE CheckRequested
  <2>1. CASE requested
    BY <1>5, <2>1, LeaveIInv DEF CheckRequested, Settled
  <2>2. CASE ~requested
    BY <1>5, <2>2, MoveIInv, Zenon DEF CheckRequested, Goto, IInv, TypeOK, Served
  <2> QED
    BY <2>1, <2>2
<1> QED
  BY <1>1, <1>2, <1>3, <1>4, <1>5

\* Callers connect, write and give up.
LEMMA ClientIInv ==
  ASSUME IInv, NEW c \in Clients, ClientConnects(c) \/ ClientWrites(c) \/ ClientGivesUp(c)
  PROVE  IInv'
<1>1. CASE ClientConnects(c)
  <2>1. TypeOK'
    BY <1>1 DEF ClientConnects, Endpoint, IInv, TypeOK
  <2>2. Served'
    BY <1>1 DEF ClientConnects, Endpoint, IInv, TypeOK, Served
  <2>3. Followed'
    BY <1>1 DEF ClientConnects, Endpoint, IInv, TypeOK, Served, Followed, Fresh, Queued
  <2>4. OkMeansHandled'
    BY <1>1 DEF ClientConnects, IInv, TypeOK, OkMeansHandled
  <2> QED
    BY <1>1, <2>1, <2>2, <2>3, <2>4
    DEF ClientConnects, IInv, QueueFresh, AnswersFit, HandledAtMostOnce
<1>2. CASE ClientWrites(c)
  <2>1. TypeOK' /\ Served'
    BY <1>2 DEF ClientWrites, IInv, TypeOK, Served
  <2>2. Followed' /\ OkMeansHandled'
    BY <1>2 DEF ClientWrites, IInv, TypeOK, Followed, Fresh, Queued, OkMeansHandled
  <2> QED
    BY <1>2, <2>1, <2>2 DEF ClientWrites, IInv, QueueFresh, AnswersFit, HandledAtMostOnce
<1>3. CASE ClientGivesUp(c)
  <2>1. PICK r \in {"Unavailable", "Transport"} : cl' = [cl EXCEPT ![c] = r]
    BY <1>3, Zenon DEF ClientGivesUp, RetriesExhausted
  <2>2. TypeOK' /\ Served'
    BY <1>3, <2>1 DEF ClientGivesUp, IInv, TypeOK, Served, Settled
  <2>3. Followed' /\ OkMeansHandled'
    BY <1>3, <2>1 DEF ClientGivesUp, IInv, TypeOK, Followed, Fresh, Queued, OkMeansHandled
  <2> QED
    BY <1>3, <2>2, <2>3 DEF ClientGivesUp, IInv, QueueFresh, AnswersFit, HandledAtMostOnce
<1> QED
  BY <1>1, <1>2, <1>3

\* The UI thread's steps, from the startup handshake to the dropped receiver.
LEMMA UiIInv ==
  ASSUME IInv, UiStep \/ SpawnFails \/ HandleRequest \/ WakeConsumed \/ LeaveLoop
  PROVE  IInv'
<1> USE DEF IInv
<1>1. CASE StartupResult
  <2>1. ready' \in BOOLEAN
    BY <1>1, Zenon DEF StartupResult
  <2>2. startup' \in Seq([kind : Endpoints, result : {"Ok", "Err"}])
    BY <1>1, TailFacts DEF StartupResult, TypeOK
  <2>3. ui' \in {"start2", "loop", "request"} /\ closing' \in {closing, "startup"}
    BY <1>1 DEF StartupResult
  <2>4. TypeOK'
    BY <1>1, <2>1, <2>2, <2>3 DEF StartupResult, TypeOK
  <2> QED
    BY <1>1, <2>3, <2>4 DEF StartupResult, Served, Followed, Fresh, Queued, QueueFresh,
                       AnswersFit, OkMeansHandled, HandledAtMostOnce
<1>2. CASE HandleRequest
  BY <1>2, DequeueIInv, Zenon DEF HandleRequest
<1>3. CASE WakeConsumed
  <2>1. posted' \in BOOLEAN
    BY <1>3, Zenon DEF WakeConsumed
  <2> QED
    BY <1>3, <2>1, SMTT(60) DEF WakeConsumed, TypeOK, Served, Followed, Fresh, Queued, QueueFresh,
                       AnswersFit, OkMeansHandled, HandledAtMostOnce
<1>4. CASE LeaveLoop
  BY <1>4, SMTT(60) DEF LeaveLoop, TypeOK, Served, Followed, Fresh, Queued, QueueFresh,
              AnswersFit, OkMeansHandled, HandledAtMostOnce
<1>5. CASE RequestStatusShutdown
  <2>1. requested' \in BOOLEAN /\ requested'
    BY <1>5, Zenon DEF RequestStatusShutdown
  <2> QED
    BY <1>5, <2>1, SMTT(60) DEF RequestStatusShutdown, TypeOK, Served, Followed, Fresh, Queued,
                       QueueFresh, AnswersFit, OkMeansHandled, HandledAtMostOnce
<1>6. CASE WakeStatusServer
  <2>1. TypeOK' /\ Served'
    BY <1>6 DEF WakeStatusServer, TypeOK, Served
  <2>2. Followed'
    BY <1>6 DEF WakeStatusServer, TypeOK, Served, Followed, Fresh, Queued
  <2> QED
    BY <1>6, <2>1, <2>2
    DEF WakeStatusServer, QueueFresh, AnswersFit, OkMeansHandled, HandledAtMostOnce
<1>7. CASE RejectPending
  <2>1. CASE queue = <<>>
    BY <1>7, <2>1, SMTT(60) DEF RejectPending, TypeOK, Served, Followed, Fresh, Queued, QueueFresh,
                       AnswersFit, OkMeansHandled, HandledAtMostOnce
  <2>2. CASE queue # <<>>
    BY <1>7, <2>2, DequeueIInv DEF RejectPending
  <2> QED
    BY <2>1, <2>2
<1>8. CASE SendShutdownServer
  <2>1. /\ cl' \in [Clients \cup {"ui"} -> {"idle", "connected", "sent"} \cup Settled]
        /\ \A c \in Clients : cl'[c] = cl[c]
    BY <1>8 DEF SendShutdownServer, RetriesExhausted, TypeOK, Settled
  <2>2. /\ DOMAIN pipe' = Endpoints /\ pipe'["status"] = pipe["status"]
        /\ \/ pipe'["control"] = pipe["control"]
           \/ pipe["control"] = "free" /\ pipe'["control"] = "ui"
    BY <1>8 DEF SendShutdownServer, TypeOK
  <2>3. TypeOK' /\ Served'
    BY <1>8, <2>1, <2>2 DEF SendShutdownServer, TypeOK, Served
  <2>4. Followed' /\ OkMeansHandled'
    BY <1>8, <2>1, <2>2, SMTT(60)
    DEF SendShutdownServer, TypeOK, Served, Followed, Fresh, Queued, OkMeansHandled
  <2> QED
    BY <1>8, <2>3, <2>4 DEF SendShutdownServer, QueueFresh, AnswersFit, HandledAtMostOnce
<1>9. CASE ShutdownServerAnswered \/ JoinWorker
  BY <1>9, SMTT(60) DEF ShutdownServerAnswered, JoinWorker, TypeOK, Served, Followed, Fresh, Queued,
              QueueFresh, AnswersFit, OkMeansHandled, HandledAtMostOnce
<1>10. CASE DropReceiver
  <2>1. /\ queue' = <<>> /\ resp' \in [Clients -> {"none", "Ok", "Error", "Dropped"}]
        /\ \A c \in Clients : resp'[c] = IF Queued(c) THEN "Dropped" ELSE resp[c]
    BY <1>10 DEF DropReceiver, TypeOK, Queued
  <2>2. TypeOK' /\ Served' /\ QueueFresh'
    BY <1>10, <2>1, SMTT(60) DEF DropReceiver, TypeOK, Served, QueueFresh
  <2>3. \A c \in Clients : ~Queued(c)'
    BY <2>1 DEF Queued
  <2>4. Followed'
    BY <1>10, <2>1, <2>3, ZenonT(60) DEF DropReceiver, Followed, Fresh
  <2> QED
    BY <1>10, <2>1, <2>2, <2>4 DEF DropReceiver, AnswersFit, OkMeansHandled, HandledAtMostOnce
<1>11. CASE SpawnFails
  <2>. DEFINE Places == {"claim", "open", "listen", "read", "check", "send", "wake", "wait", "gone"}
  <2>. pc \in [Endpoints -> Places]
    BY DEF TypeOK
  <2>1. /\ pc' \in [Endpoints -> Places]
        /\ \A w \in Endpoints : pc'[w] = pc[w] \/ (pc[w] = "claim" /\ pc'[w] = "gone")
    <3>1. CASE Goto("status", "gone") /\ pc["status"] = "claim"
      BY <3>1 DEF Goto
    <3>2. CASE pc["status"] = "claim" /\ pc["control"] = "claim" /\ pc' = [w \in Endpoints |-> "gone"]
      BY <3>2
    <3>. QED
      BY <1>11, <3>1, <3>2, Zenon DEF SpawnFails
  <2>2. UNCHANGED <<pipe, queue, resp, requested, startup, ready, posted, cl, handled>>
    BY <1>11 DEF SpawnFails
  <2>3. ui' = "drop" /\ closing' = "startup"
    BY <1>11 DEF SpawnFails
  <2>4. TypeOK'
    BY <2>1, <2>2, <2>3 DEF TypeOK
  <2>5. Served' /\ Followed'
    BY <2>1, <2>2, <2>3 DEF Served, Followed, Fresh, Queued
  <2> QED
    BY <2>2, <2>4, <2>5 DEF QueueFresh, AnswersFit, OkMeansHandled, HandledAtMostOnce
<1> QED
  BY <1>1, <1>2, <1>3, <1>4, <1>5, <1>6, <1>7, <1>8, <1>9, <1>10, <1>11 DEF UiStep

\* Every step preserves the invariant.
LEMMA NextIInv == IInv /\ [Next]_vars => IInv'
<1> SUFFICES ASSUME IInv, [Next]_vars PROVE IInv'
  OBVIOUS
<1>1. CASE ControlStep \/ StatusStep
  BY <1>1, WorkerIInv, OwnStepIInv DEF ControlStep, StatusStep, WorkerStep
<1>2. CASE UiStep \/ SpawnFails \/ HandleRequest \/ WakeConsumed \/ LeaveLoop
  BY <1>2, UiIInv
<1>3. CASE \E w \in Endpoints : AcceptFails(w) \/ WakeFails(w)
  BY <1>3, WorkerIInv
<1>4. CASE \E c \in Clients : ClientConnects(c) \/ ClientWrites(c) \/ ClientGivesUp(c)
  BY <1>4, ClientIInv
<1>5. CASE Quiet \/ UNCHANGED vars
  BY <1>5, SMTT(60) DEF Quiet, vars, IInv, TypeOK, Served, Followed, Fresh, Queued, QueueFresh,
              AnswersFit, OkMeansHandled, HandledAtMostOnce
<1> QED
  BY <1>1, <1>2, <1>3, <1>4, <1>5 DEF Next

-----------------------------------------------------------------------------
\* The invariant holds in every reachable state.
THEOREM ServerInvariance == Spec => []IInv
BY InitIInv, NextIInv, PTL DEF Spec

\* Every variable keeps its type: no pipe is held by a stranger, and ShutdownServer is
\* never queued for the UI thread.
THEOREM TypeCorrect == Spec => []TypeOK
<1>1. IInv => TypeOK
  BY DEF IInv
<1> QED BY <1>1, ServerInvariance, PTL

\* A client is told Ok only when its request was carried out.
THEOREM OkIsTrue == Spec => []OkMeansHandled
<1>1. IInv => OkMeansHandled
  BY DEF IInv
<1> QED BY <1>1, ServerInvariance, PTL

\* No request is carried out twice.
THEOREM AtMostOnce == Spec => []HandledAtMostOnce
<1>1. IInv => HandledAtMostOnce
  BY DEF IInv
<1> QED BY <1>1, ServerInvariance, PTL
=============================================================================
