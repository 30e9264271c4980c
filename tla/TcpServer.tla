----------------------------- MODULE TcpServer ------------------------------
(***************************************************************************)
(* The TCP backend's server (internal/service/tcp_server.go) and the       *)
(* gateway's client (internal/httpapi/tcp_client.go).                      *)
(*                                                                         *)
(* Every call dials a connection of its own, sends one request on it and   *)
(* reads one response, so a call, its connection and the handleConn        *)
(* goroutine serving it share a name.  What a request asks for is the      *)
(* business of service.Handle; here it is only executed or not.            *)
(***************************************************************************)
EXTENDS Naturals, Sequences, FiniteSets

CONSTANTS
  Calls,      \* calls of the gateway
  Workers,    \* the worker goroutines
  QueueSize,  \* cfg.QueueSize
  NoJob       \* a worker without a job

ASSUME QueueAssumption == QueueSize \in Nat \ {0}
ASSUME WorkersAssumption == IsFiniteSet(Workers) /\ Workers # {}
ASSUME NoJobAssumption == NoJob \notin Calls

VARIABLES
  client,     \* per call, how far TCPClient.call has come
  wire,       \* per connection, what is under way on it
  handler,    \* per connection, where handleConn stands
  jobs,       \* the channel s.jobs
  resp,       \* per connection, respCh holds a response
  worker,     \* per worker, where it stands and the job it holds
  server,     \* where ListenAndServe stands
  cancelled,  \* ctx is done
  runs        \* per call, how often service.Handle was called for it

vars == <<client, wire, handler, jobs, resp, worker, server, cancelled, runs>>

TypeOK ==
  /\ client \in [Calls -> {"idle", "pending", "answered", "refused", "lost"}]
  /\ wire \in [Calls -> {"empty", "request", "response", "busy", "closed"}]
  /\ handler \in [Calls -> {"none", "reading", "offering", "waiting", "closed"}]
  /\ jobs \in Seq(Calls) /\ Len(jobs) <= QueueSize
  /\ resp \in [Calls -> BOOLEAN]
  /\ worker \in [Workers -> [at : {"receiving", "handling", "replying", "exited"},
                             job : Calls \cup {NoJob}]]
  /\ server \in {"accepting", "closing", "draining", "returned", "panicked"}
  /\ cancelled \in BOOLEAN
  /\ runs \in [Calls -> Nat]

Init ==
  /\ client = [c \in Calls |-> "idle"]
  /\ wire = [c \in Calls |-> "empty"]
  /\ handler = [c \in Calls |-> "none"]
  /\ jobs = <<>>
  /\ resp = [c \in Calls |-> FALSE]
  /\ worker = [w \in Workers |-> [at |-> "receiving", job |-> NoJob]]
  /\ server = "accepting"
  /\ cancelled = FALSE
  /\ runs = [c \in Calls |-> 0]

\* The process, and with it every goroutine, lives until main returns or panics.
Up == server \in {"accepting", "closing", "draining"}

\* s.jobs has been closed.
JobsClosed == server \notin {"accepting", "closing"}

-----------------------------------------------------------------------------
(* TCPClient.call.                                                         *)

Send(c) ==
  /\ client[c] = "idle"
  /\ client' = [client EXCEPT ![c] = "pending"]
  /\ wire' = [wire EXCEPT ![c] = "request"]
  /\ UNCHANGED <<handler, jobs, resp, worker, server, cancelled, runs>>

Receive(c) ==
  /\ client[c] = "pending"
  /\ wire[c] \in {"response", "busy"}
  /\ client' = [client EXCEPT ![c] = IF wire[c] = "busy" THEN "refused" ELSE "answered"]
  /\ wire' = [wire EXCEPT ![c] = "closed"]
  /\ UNCHANGED <<handler, jobs, resp, worker, server, cancelled, runs>>

\* The dial fails, the deadline passes or the connection breaks.  A response on
\* its way is lost; a request may still reach the server and be read there.
GiveUp(c) ==
  /\ client[c] \in {"idle", "pending"}
  /\ client' = [client EXCEPT ![c] = "lost"]
  /\ \/ wire' = [wire EXCEPT ![c] = "closed"]
     \/ wire[c] = "request" /\ UNCHANGED wire
  /\ UNCHANGED <<handler, jobs, resp, worker, server, cancelled, runs>>

-----------------------------------------------------------------------------
(* ListenAndServe.                                                         *)

\* What is left of a connection when the server closes it: a frame that was
\* written can still be read by the client.
ServerClosed(frame) == IF frame \in {"response", "busy"} THEN frame ELSE "closed"

Accept(c) ==
  /\ server = "accepting"
  /\ handler[c] = "none"
  /\ client[c] # "idle"
  /\ handler' = [handler EXCEPT ![c] = "reading"]
  /\ UNCHANGED <<client, wire, jobs, resp, worker, server, cancelled, runs>>

\* SIGTERM or an interrupt.
Cancel ==
  /\ Up
  /\ ~ cancelled
  /\ cancelled' = TRUE
  /\ UNCHANGED <<client, wire, handler, jobs, resp, worker, server, runs>>

\* Mutant: an error of Accept never ends the loop.
AcceptRetries ==
  /\ server = "accepting"
  /\ cancelled
  /\ UNCHANGED vars

\* Mutant: any error of Accept ends the loop.
AcceptEnds ==
  /\ server = "accepting"
  /\ server' = "closing"
  /\ UNCHANGED <<client, wire, handler, jobs, resp, worker, cancelled, runs>>

\* The goroutine waiting for ctx closes the listener; Accept fails and the loop
\* ends.
AcceptFails ==
  /\ server = "accepting"
  /\ cancelled
  /\ server' = "closing"
  /\ UNCHANGED <<client, wire, handler, jobs, resp, worker, cancelled, runs>>

CloseJobs ==
  /\ server = "closing"
  /\ server' = "draining"
  /\ UNCHANGED <<client, wire, handler, jobs, resp, worker, cancelled, runs>>

\* wg.Wait; main returns and the process ends.
ServeReturns ==
  /\ server = "draining"
  /\ \A w \in Workers : worker[w].at = "exited"
  /\ server' = "returned"
  /\ wire' = [c \in Calls |-> ServerClosed(wire[c])]
  /\ UNCHANGED <<client, handler, jobs, resp, worker, cancelled, runs>>

-----------------------------------------------------------------------------
(* handleConn.                                                             *)

ReadFrame(c) ==
  /\ Up
  /\ handler[c] = "reading"
  /\ wire[c] = "request"
  /\ handler' = [handler EXCEPT ![c] = "offering"]
  /\ wire' = [wire EXCEPT ![c] = "empty"]
  /\ UNCHANGED <<client, jobs, resp, worker, server, cancelled, runs>>

\* Mutant: the read has no deadline, only a peer that hangs up ends it.
HandlerReturnsNoDeadline(c) ==
  /\ Up
  /\ \/ handler[c] = "reading" /\ client[c] \notin {"idle", "pending"}
     \/ handler[c] \in {"offering", "waiting"} /\ cancelled
  /\ handler' = [handler EXCEPT ![c] = "closed"]
  /\ wire' = [wire EXCEPT ![c] = ServerClosed(@)]
  /\ UNCHANGED <<client, jobs, resp, worker, server, cancelled, runs>>

\* The peer has closed the connection, the read deadline passes, or, once ctx is
\* done, one of the two selects picks ctx.Done.
HandlerReturns(c) ==
  /\ Up
  /\ \/ handler[c] = "reading"
     \/ handler[c] \in {"offering", "waiting"} /\ cancelled
  /\ handler' = [handler EXCEPT ![c] = "closed"]
  /\ wire' = [wire EXCEPT ![c] = ServerClosed(@)]
  /\ UNCHANGED <<client, jobs, resp, worker, server, cancelled, runs>>

\* writeResponse; nobody reads from a closed connection.  A frame that is too
\* large, or that the peer does not take before the write deadline, is dropped,
\* and the handler goes on all the same.
Write(c, frame) ==
  \E sent \in {frame, wire[c]} :
    wire' = [wire EXCEPT ![c] = IF @ = "closed" THEN "closed" ELSE sent]

\* Mutant: the queue is tried once more after the caller was turned away.
OfferBusyQueued(c) ==
  /\ Up
  /\ handler[c] = "offering"
  /\ IF JobsClosed
     THEN /\ server' = "panicked"
          /\ wire' = [d \in Calls |-> ServerClosed(wire[d])]
          /\ UNCHANGED <<handler, jobs>>
     ELSE /\ jobs' = Append(jobs, c)
          /\ IF Len(jobs) < QueueSize
             THEN /\ handler' = [handler EXCEPT ![c] = "waiting"]
                  /\ UNCHANGED wire
             ELSE /\ handler' = [handler EXCEPT ![c] = "reading"]
                  /\ Write(c, "busy")
          /\ UNCHANGED server
  /\ UNCHANGED <<client, resp, worker, cancelled, runs>>

\* The first select.  A send on the closed channel panics; a full channel leaves
\* the default case, unless ctx is done.
Offer(c) ==
  /\ Up
  /\ handler[c] = "offering"
  /\ \/ /\ JobsClosed
        /\ server' = "panicked"
        /\ wire' = [d \in Calls |-> ServerClosed(wire[d])]
        /\ UNCHANGED <<handler, jobs>>
     \/ /\ ~ JobsClosed
        /\ Len(jobs) < QueueSize
        /\ jobs' = Append(jobs, c)
        /\ handler' = [handler EXCEPT ![c] = "waiting"]
        /\ UNCHANGED <<wire, server>>
     \/ /\ ~ JobsClosed
        /\ Len(jobs) = QueueSize
        /\ ~ cancelled
        /\ handler' = [handler EXCEPT ![c] = "reading"]
        /\ Write(c, "busy")
        /\ UNCHANGED <<jobs, server>>
  /\ UNCHANGED <<client, resp, worker, cancelled, runs>>

\* The second select.
Respond(c) ==
  /\ Up
  /\ handler[c] = "waiting"
  /\ resp[c]
  /\ resp' = [resp EXCEPT ![c] = FALSE]
  /\ handler' = [handler EXCEPT ![c] = "reading"]
  /\ Write(c, "response")
  /\ UNCHANGED <<client, jobs, worker, server, cancelled, runs>>

-----------------------------------------------------------------------------
(* worker.                                                                 *)

Take(w) ==
  /\ Up
  /\ worker[w].at = "receiving"
  /\ jobs # <<>>
  /\ worker' = [worker EXCEPT ![w] = [at |-> "handling", job |-> Head(jobs)]]
  /\ jobs' = Tail(jobs)
  /\ runs' = [runs EXCEPT ![Head(jobs)] = @ + 1]
  /\ UNCHANGED <<client, wire, handler, resp, server, cancelled>>

\* service.Handle returns, with a result or an error: a response either way.
HandleReturns(w) ==
  /\ Up
  /\ worker[w].at = "handling"
  /\ worker' = [worker EXCEPT ![w].at = "replying"]
  /\ UNCHANGED <<client, wire, handler, jobs, resp, server, cancelled, runs>>

\* Mutant: the worker goes on without sending the response.
ReplyDropped(w) ==
  /\ Up
  /\ worker[w].at = "replying"
  /\ worker' = [worker EXCEPT ![w] = [at |-> "receiving", job |-> NoJob]]
  /\ UNCHANGED <<client, wire, handler, jobs, resp, server, cancelled, runs>>

\* respCh has room for the one response it will ever get.
Reply(w) ==
  /\ Up
  /\ worker[w].at = "replying"
  /\ resp' = [resp EXCEPT ![worker[w].job] = TRUE]
  /\ worker' = [worker EXCEPT ![w] = [at |-> "receiving", job |-> NoJob]]
  /\ UNCHANGED <<client, wire, handler, jobs, server, cancelled, runs>>

\* Mutant: a worker that finds the channel empty ends, closed or not.
WorkerExitsIdle(w) ==
  /\ Up
  /\ \/ worker[w].at \in {"receiving", "replying"} /\ cancelled
     \/ worker[w].at = "receiving" /\ jobs = <<>>
  /\ worker' = [worker EXCEPT ![w] = [at |-> "exited", job |-> NoJob]]
  /\ UNCHANGED <<client, wire, handler, jobs, resp, server, cancelled, runs>>

\* ctx.Done, in either select, or the closed and empty channel.
WorkerExits(w) ==
  /\ Up
  /\ \/ worker[w].at \in {"receiving", "replying"} /\ cancelled
     \/ worker[w].at = "receiving" /\ JobsClosed /\ jobs = <<>>
  /\ worker' = [worker EXCEPT ![w] = [at |-> "exited", job |-> NoJob]]
  /\ UNCHANGED <<client, wire, handler, jobs, resp, server, cancelled, runs>>

-----------------------------------------------------------------------------
Gateway(c) == Send(c) \/ Receive(c) \/ GiveUp(c)

Serve == (\E c \in Calls : Accept(c)) \/ AcceptFails \/ CloseJobs \/ ServeReturns

HandleConn(c) == ReadFrame(c) \/ HandlerReturns(c) \/ Offer(c) \/ Respond(c)

Work(w) == Take(w) \/ HandleReturns(w) \/ Reply(w) \/ WorkerExits(w)

Next ==
  \/ \E c \in Calls : Gateway(c) \/ HandleConn(c)
  \/ \E w \in Workers : Work(w)
  \/ Serve
  \/ Cancel

SafetySpec == Init /\ [][Next]_vars

\* Goroutines are scheduled, deadlines of reads pass and service.Handle returns.
\* Callers, signals and the network owe nothing.
Fairness ==
  /\ WF_vars(AcceptFails) /\ WF_vars(CloseJobs) /\ WF_vars(ServeReturns)
  /\ \A c \in Calls : WF_vars(HandleConn(c))
  /\ \A w \in Workers : WF_vars(Work(w))

Spec == SafetySpec /\ Fairness

-----------------------------------------------------------------------------
(* Properties.                                                             *)

Abstract == INSTANCE RemoteCall WITH outcome <- client, runs <- runs

\* The pool keeps the gateway's view of a call: never executed twice, answered
\* only after execution, and not executed once server_busy has been reported,
\* whatever the deadlines, the queue and a shutdown do.
ImplementsRemoteCall == Abstract!Spec

\* The send on a closed channel in handleConn can only happen after the process
\* was told to stop.
PanicOnlyAtShutdown == server = "panicked" => cancelled

\* handleConn waits for a response only while somebody will produce it: its job
\* is queued, in a worker's hands or answered, or the server is stopping.
WaitersHaveJobs ==
  \A c \in Calls :
    (handler[c] = "waiting" /\ ~ cancelled) =>
      \/ resp[c]
      \/ \E i \in 1 .. Len(jobs) : jobs[i] = c
      \/ \E w \in Workers : worker[w].at # "exited" /\ worker[w].job = c

\* A queued job is executed, unless the server is told to stop first: the
\* workers outlive failed requests and callers who have gone.
QueuedRuns ==
  \A c \in Calls :
    (\E i \in 1 .. Len(jobs) : jobs[i] = c) ~> (runs[c] > 0 \/ cancelled)

\* The goroutine and the connection of handleConn are given back, whatever the
\* caller does: it may stay silent, leave while its job is queued, or not read its
\* response.  Only the read has a deadline; the wait for the response, which has
\* none, relies on the workers.
HandlersEnd ==
  \A c \in Calls : (handler[c] # "none") ~> (handler[c] = "closed" \/ ~ Up)

\* Once told to stop, the process ends: wg.Wait never waits for a worker that
\* waits for something else.
Stops == cancelled ~> ~ Up
=============================================================================
