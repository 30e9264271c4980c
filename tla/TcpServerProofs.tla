-------------------------- MODULE TcpServerProofs ---------------------------
(***************************************************************************)
(* Proofs about TcpServer, for any calls, any finite pool of workers and   *)
(* any buffered queue.                                                     *)
(*                                                                         *)
(* The argument for ImplementsRemoteCall: a call is in one place at a time *)
(* on its way from the wire through the queue to a worker, and execution   *)
(* begins only at the end of that way.  Being turned away with server_busy *)
(* takes it off the way for good, since a client sends its request once.   *)
(***************************************************************************)
EXTENDS TcpServer, TLAPS

\* The prover of the steps that name no other.
USE ZenonT(40)

InQueue(q, c) == \E i \in 1 .. Len(q) : q[i] = c

\* The call has not been handed to the pool.
Untaken(c) == runs[c] = 0 /\ ~ InQueue(jobs, c)

\* Where a call can be, and whether it was executed.
CallOK(c) ==
  /\ runs[c] \in {0, 1}
  /\ client[c] = "idle" => handler[c] = "none" /\ Untaken(c)
  /\ client[c] = "refused" => /\ wire[c] = "closed"
                              /\ handler[c] # "offering"
                              /\ Untaken(c)
  /\ client[c] = "answered" => runs[c] = 1
  /\ wire[c] \in {"request", "busy"} => handler[c] # "offering" /\ Untaken(c)
  /\ wire[c] = "response" => runs[c] = 1
  /\ handler[c] = "offering" => Untaken(c)
  /\ InQueue(jobs, c) => runs[c] = 0
  /\ resp[c] => runs[c] = 1

CallInv == \A c \in Calls : CallOK(c)

\* No call is queued twice.
QueueInv == \A i, j \in 1 .. Len(jobs) : jobs[i] = jobs[j] => i = j

\* A worker has a job exactly between taking it and replying to it.
WorkerInv ==
  \A w \in Workers :
    IF worker[w].at \in {"handling", "replying"}
    THEN worker[w].job \in Calls /\ runs[worker[w].job] = 1
    ELSE worker[w].job = NoJob

\* The server leaves its loop only when told to.
ShutdownInv == server # "accepting" => cancelled

\* The inductive invariant.
IInv ==
  /\ TypeOK
  /\ CallInv
  /\ QueueInv
  /\ WorkerInv
  /\ ShutdownInv
  /\ WaitersHaveJobs

-----------------------------------------------------------------------------
(* The job channel.                                                        *)

\* What a send does to the queue.
LEMMA AppendQueue ==
  ASSUME NEW q \in Seq(Calls), NEW c \in Calls
  PROVE  /\ Append(q, c) \in Seq(Calls)
         /\ Len(Append(q, c)) = Len(q) + 1
         /\ \A d \in Calls : InQueue(Append(q, c), d) <=> (d = c \/ InQueue(q, d))
<1>1. Append(q, c) \in Seq(Calls) /\ Len(Append(q, c)) = Len(q) + 1
  BY SMTT(20)
<1>2. ASSUME NEW d \in Calls, InQueue(Append(q, c), d)
      PROVE  d = c \/ InQueue(q, d)
  BY <1>2, SMTT(20) DEF InQueue
<1>3. ASSUME NEW d \in Calls, InQueue(q, d)
      PROVE  InQueue(Append(q, c), d)
  <2>1. PICK i \in 1 .. Len(q) : q[i] = d
    BY <1>3 DEF InQueue
  <2>2. i \in 1 .. Len(Append(q, c)) /\ Append(q, c)[i] = d
    BY <2>1, SMTT(20)
  <2>. QED
    BY <2>2 DEF InQueue
<1>4. InQueue(Append(q, c), c)
  <2>1. Len(q) + 1 \in 1 .. Len(Append(q, c)) /\ Append(q, c)[Len(q) + 1] = c
    BY SMTT(20)
  <2>. QED
    BY <2>1 DEF InQueue
<1>. QED
  BY <1>1, <1>2, <1>3, <1>4

\* A send of a call that is not queued makes no duplicate.
LEMMA AppendNew ==
  ASSUME NEW q \in Seq(Calls), NEW c \in Calls, ~ InQueue(q, c),
         \A i, j \in 1 .. Len(q) : q[i] = q[j] => i = j
  PROVE  \A i, j \in 1 .. Len(Append(q, c)) :
           Append(q, c)[i] = Append(q, c)[j] => i = j
<1>. SUFFICES ASSUME NEW i \in 1 .. Len(Append(q, c)), NEW j \in 1 .. Len(Append(q, c)),
                     Append(q, c)[i] = Append(q, c)[j]
              PROVE  i = j
  OBVIOUS
<1>1. \A k \in 1 .. Len(q) : Append(q, c)[k] = q[k] /\ q[k] # c
  BY SMTT(20) DEF InQueue
<1>2. Len(Append(q, c)) = Len(q) + 1 /\ Append(q, c)[Len(q) + 1] = c
  BY SMTT(20)
<1>3. \A k \in 1 .. Len(Append(q, c)) : k \in 1 .. Len(q) \/ k = Len(q) + 1
  BY <1>2, SMTT(20)
<1>. QED
  BY <1>1, <1>2, <1>3

\* What a receive does to a queue without duplicates.
LEMMA TailQueue ==
  ASSUME NEW q \in Seq(Calls), q # <<>>,
         \A i, j \in 1 .. Len(q) : q[i] = q[j] => i = j
  PROVE  /\ Head(q) \in Calls /\ InQueue(q, Head(q))
         /\ Tail(q) \in Seq(Calls) /\ Len(Tail(q)) = Len(q) - 1
         /\ \A d \in Calls : InQueue(Tail(q), d) <=> (d # Head(q) /\ InQueue(q, d))
         /\ \A i, j \in 1 .. Len(Tail(q)) : Tail(q)[i] = Tail(q)[j] => i = j
<1>1. /\ Len(q) \in Nat \ {0} /\ Head(q) = q[1] /\ Head(q) \in Calls
      /\ Tail(q) \in Seq(Calls) /\ Len(Tail(q)) = Len(q) - 1
      /\ \A i \in 1 .. Len(Tail(q)) : Tail(q)[i] = q[i + 1] /\ i + 1 \in 1 .. Len(q)
  BY SMTT(20)
<1>2. InQueue(q, Head(q))
  <2>1. 1 \in 1 .. Len(q) /\ q[1] = Head(q)
    BY <1>1, SMTT(20)
  <2>. QED
    BY <2>1 DEF InQueue
<1>3. ASSUME NEW d \in Calls, InQueue(Tail(q), d)
      PROVE  d # Head(q) /\ InQueue(q, d)
  <2>1. PICK i \in 1 .. Len(Tail(q)) : Tail(q)[i] = d
    BY <1>3 DEF InQueue
  <2>2. i + 1 \in 1 .. Len(q) /\ q[i + 1] = d /\ i + 1 # 1 /\ 1 \in 1 .. Len(q)
    BY <1>1, <2>1, SMTT(20)
  <2>. QED
    BY <1>1, <2>2 DEF InQueue
<1>4. ASSUME NEW d \in Calls, d # Head(q), InQueue(q, d)
      PROVE  InQueue(Tail(q), d)
  <2>1. PICK i \in 1 .. Len(q) : q[i] = d
    BY <1>4 DEF InQueue
  <2>2. i - 1 \in 1 .. Len(Tail(q)) /\ Tail(q)[i - 1] = d
    BY <1>1, <1>4, <2>1, SMTT(20)
  <2>. QED
    BY <2>2 DEF InQueue
<1>5. ASSUME NEW i \in 1 .. Len(Tail(q)), NEW j \in 1 .. Len(Tail(q)),
             Tail(q)[i] = Tail(q)[j]
      PROVE  i = j
  <2>1. i + 1 = j + 1
    BY <1>1, <1>5, SMTT(20)
  <2>. QED
    BY <2>1, <1>1, SMTT(20)
<1>. QED
  BY <1>1, <1>2, <1>3, <1>4, <1>5

-----------------------------------------------------------------------------
(* Types.                                                                  *)

\* The state stays well typed; the queue never exceeds cfg.QueueSize.  That the
\* job of a replying worker is a call comes from WorkerInv.
LEMMA TypeStep == TypeOK /\ WorkerInv /\ QueueInv /\ [Next]_vars => TypeOK'
<1>. SUFFICES ASSUME TypeOK, WorkerInv, QueueInv, [Next]_vars
              PROVE  TypeOK'
  OBVIOUS
<1>. USE QueueAssumption, NoJobAssumption DEF TypeOK
<1>1. ASSUME NEW c \in Calls, Send(c) PROVE TypeOK'
  BY <1>1 DEF Send
<1>2. ASSUME NEW c \in Calls, Receive(c) PROVE TypeOK'
  BY <1>2 DEF Receive
<1>3. ASSUME NEW c \in Calls, GiveUp(c) PROVE TypeOK'
  BY <1>3 DEF GiveUp
<1>4. ASSUME NEW c \in Calls, Accept(c) PROVE TypeOK'
  BY <1>4 DEF Accept
<1>5. ASSUME NEW c \in Calls, ReadFrame(c) PROVE TypeOK'
  BY <1>5 DEF ReadFrame
<1>6. ASSUME NEW c \in Calls, HandlerReturns(c) PROVE TypeOK'
  BY <1>6 DEF HandlerReturns, ServerClosed
<1>7. ASSUME NEW c \in Calls, Offer(c) PROVE TypeOK'
  <2>1. CASE JobsClosed
    BY <1>7, <2>1 DEF Offer, ServerClosed
  <2>2. CASE ~ JobsClosed /\ Len(jobs) < QueueSize /\ jobs' = Append(jobs, c)
    <3>1. jobs' \in Seq(Calls) /\ Len(jobs') <= QueueSize
      <4>1. Append(jobs, c) \in Seq(Calls) /\ Len(Append(jobs, c)) = Len(jobs) + 1
        BY AppendQueue
      <4>. QED
        BY <2>2, <4>1, SMTT(20)
    <3>2. /\ handler' = [handler EXCEPT ![c] = "waiting"]
          /\ UNCHANGED <<client, wire, resp, worker, server, cancelled, runs>>
      BY <1>7, <2>2, SMTT(20) DEF Offer
    <3>. QED
      BY <3>1, <3>2
  <2>3. CASE ~ JobsClosed /\ Len(jobs) = QueueSize
    <3>1. /\ handler' = [handler EXCEPT ![c] = "reading"]
          /\ Write(c, "busy")
          /\ UNCHANGED <<client, jobs, resp, worker, server, cancelled, runs>>
      BY <1>7, <2>3, SMTT(20) DEF Offer
    <3>. QED
      BY <3>1 DEF Write
  <2>. QED
    BY <1>7, <2>1, <2>2, <2>3 DEF Offer
<1>8. ASSUME NEW c \in Calls, Respond(c) PROVE TypeOK'
  BY <1>8 DEF Respond, Write
<1>9. ASSUME NEW w \in Workers, Take(w) PROVE TypeOK'
  BY <1>9, TailQueue, SMTT(20) DEF Take, QueueInv
<1>10. ASSUME NEW w \in Workers, HandleReturns(w) PROVE TypeOK'
  BY <1>10 DEF HandleReturns
<1>11. ASSUME NEW w \in Workers, Reply(w) PROVE TypeOK'
  BY <1>11 DEF Reply, WorkerInv
<1>12. ASSUME NEW w \in Workers, WorkerExits(w) PROVE TypeOK'
  BY <1>12 DEF WorkerExits
<1>13. CASE Cancel
  BY <1>13 DEF Cancel
<1>14. CASE AcceptFails
  BY <1>14 DEF AcceptFails
<1>15. CASE CloseJobs
  BY <1>15 DEF CloseJobs
<1>16. CASE ServeReturns
  BY <1>16 DEF ServeReturns, ServerClosed
<1>17. CASE UNCHANGED vars
  BY <1>17 DEF vars
<1>. QED
  BY <1>1, <1>2, <1>3, <1>4, <1>5, <1>6, <1>7, <1>8, <1>9, <1>10, <1>11, <1>12, <1>13, <1>14, <1>15, <1>16, <1>17
     DEF Next, Gateway, HandleConn, Work, Serve

-----------------------------------------------------------------------------
(* Shutdown and workers.                                                   *)

\* Leaving the accept loop is the only way to anything but accepting.
LEMMA ShutdownStep == TypeOK /\ ShutdownInv /\ [Next]_vars => ShutdownInv'
<1>. SUFFICES ASSUME TypeOK, ShutdownInv, [Next]_vars
              PROVE  ShutdownInv'
  OBVIOUS
<1>. USE DEF TypeOK, ShutdownInv
<1>1. ASSUME NEW c \in Calls, Gateway(c) \/ Accept(c)
      PROVE  ShutdownInv'
  BY <1>1 DEF Gateway, Send, Receive, GiveUp, Accept
<1>2. ASSUME NEW c \in Calls, HandleConn(c)
      PROVE  ShutdownInv'
  BY <1>2 DEF HandleConn, ReadFrame, HandlerReturns, Offer, Respond, JobsClosed
<1>3. ASSUME NEW w \in Workers, Work(w)
      PROVE  ShutdownInv'
  <2>1. UNCHANGED <<server, cancelled>>
    BY <1>3 DEF Work, Take, HandleReturns, Reply, WorkerExits
  <2>. QED
    BY <2>1
<1>4. CASE Cancel \/ AcceptFails \/ CloseJobs \/ ServeReturns
  BY <1>4 DEF Cancel, AcceptFails, CloseJobs, ServeReturns
<1>5. CASE UNCHANGED vars
  BY <1>5 DEF vars
<1>. QED
  BY <1>1, <1>2, <1>3, <1>4, <1>5 DEF Next, Serve

\* Steps outside the pool leave queue, workers and executions alone.
PoolUnchanged == UNCHANGED <<jobs, worker, runs>>

\* Only a worker that takes a job begins an execution.
LEMMA OutsidePool ==
  /\ \A c \in Calls : Gateway(c) \/ Accept(c) \/ ReadFrame(c) \/ HandlerReturns(c)
                       \/ Respond(c) => PoolUnchanged
  /\ Cancel \/ AcceptFails \/ CloseJobs \/ ServeReturns => PoolUnchanged
  /\ UNCHANGED vars => PoolUnchanged
BY DEF Gateway, Send, Receive, GiveUp, Accept, ReadFrame, HandlerReturns, Respond,
       Cancel, AcceptFails, CloseJobs, ServeReturns, PoolUnchanged, vars

\* The pool keeps its own part of the invariant: a call enters the queue from
\* Offer, where it is not queued and not executed, and leaves it into one worker.
LEMMA PoolStep == IInv /\ [Next]_vars => QueueInv' /\ WorkerInv'
<1>. SUFFICES ASSUME IInv, [Next]_vars
              PROVE  QueueInv' /\ WorkerInv'
  OBVIOUS
<1>. USE DEF IInv, TypeOK
<1>1. CASE PoolUnchanged
  BY <1>1 DEF PoolUnchanged, QueueInv, WorkerInv
<1>2. ASSUME NEW c \in Calls, Offer(c)
      PROVE  QueueInv' /\ WorkerInv'
  <2>1. UNCHANGED <<worker, runs>> /\ (jobs' = jobs \/ jobs' = Append(jobs, c))
    BY <1>2 DEF Offer
  <2>2. ~ InQueue(jobs, c)
    BY <1>2 DEF Offer, CallInv, CallOK, Untaken
  <2>3. QueueInv'
    BY <2>1, <2>2, AppendNew DEF QueueInv
  <2>. QED
    BY <2>1, <2>3 DEF WorkerInv
<1>3. ASSUME NEW w \in Workers, Take(w)
      PROVE  QueueInv' /\ WorkerInv'
  <2>1. /\ Head(jobs) \in Calls /\ InQueue(jobs, Head(jobs))
        /\ \A i, j \in 1 .. Len(Tail(jobs)) : Tail(jobs)[i] = Tail(jobs)[j] => i = j
    BY <1>3, TailQueue DEF Take, QueueInv
  <2>2. runs[Head(jobs)] = 0
    BY <2>1 DEF CallInv, CallOK
  <2>3. QueueInv'
    BY <1>3, <2>1 DEF Take, QueueInv
  <2>4. WorkerInv'
    <3>1. /\ worker' = [worker EXCEPT ![w] = [at |-> "handling", job |-> Head(jobs)]]
          /\ runs' = [runs EXCEPT ![Head(jobs)] = 1]
      BY <1>3, <2>1, <2>2, SMTT(20) DEF Take
    <3>. QED
      BY <2>1, <3>1 DEF WorkerInv
  <2>. QED
    BY <2>3, <2>4
<1>4. ASSUME NEW w \in Workers, HandleReturns(w) \/ Reply(w) \/ WorkerExits(w)
      PROVE  QueueInv' /\ WorkerInv'
  <2>1. UNCHANGED <<jobs, runs>>
    BY <1>4 DEF HandleReturns, Reply, WorkerExits
  <2>2. CASE HandleReturns(w)
    BY <2>1, <2>2 DEF HandleReturns, WorkerInv, QueueInv
  <2>3. CASE Reply(w) \/ WorkerExits(w)
    <3>1. \E at \in {"receiving", "exited"} :
            worker' = [worker EXCEPT ![w] = [at |-> at, job |-> NoJob]]
      BY <2>3 DEF Reply, WorkerExits
    <3>2. WorkerInv'
      BY <2>1, <3>1, SMTT(20) DEF WorkerInv
    <3>. QED
      BY <2>1, <3>2 DEF QueueInv
  <2>. QED
    BY <1>4, <2>2, <2>3
<1>. QED
  BY <1>1, <1>2, <1>3, <1>4, OutsidePool DEF Next, HandleConn, Work, Serve

-----------------------------------------------------------------------------
(* Calls.                                                                  *)

\* Steps of client, handler and server move a call only between places where it
\* has been executed as often as before.
LEMMA CallStepOutside ==
  ASSUME IInv, PoolUnchanged, NEW d \in Calls,
         \/ \E c \in Calls : Gateway(c) \/ Accept(c) \/ ReadFrame(c)
                             \/ HandlerReturns(c) \/ Respond(c)
         \/ Cancel \/ AcceptFails \/ CloseJobs \/ ServeReturns
         \/ UNCHANGED vars
  PROVE  CallOK(d)'
<1>. USE DEF IInv, TypeOK
<1>1. CallOK(d) /\ UNCHANGED <<runs, jobs>>
  BY DEF CallInv, PoolUnchanged
<1>2. Untaken(d)' <=> Untaken(d)
  BY <1>1 DEF Untaken, InQueue
<1>3. InQueue(jobs, d)' <=> InQueue(jobs, d)
  BY <1>1 DEF InQueue
<1>4. ASSUME NEW c \in Calls, Send(c) PROVE CallOK(d)'
  BY <1>1, <1>2, <1>3, <1>4 DEF Send, CallOK
<1>5. ASSUME NEW c \in Calls, Receive(c) PROVE CallOK(d)'
  BY <1>1, <1>2, <1>3, <1>5 DEF Receive, CallOK
<1>6. ASSUME NEW c \in Calls, GiveUp(c) PROVE CallOK(d)'
  BY <1>1, <1>2, <1>3, <1>6 DEF GiveUp, CallOK
<1>7. ASSUME NEW c \in Calls, Accept(c) PROVE CallOK(d)'
  BY <1>1, <1>2, <1>3, <1>7 DEF Accept, CallOK
<1>8. ASSUME NEW c \in Calls, ReadFrame(c) PROVE CallOK(d)'
  BY <1>1, <1>2, <1>3, <1>8 DEF ReadFrame, CallOK
<1>9. ASSUME NEW c \in Calls, HandlerReturns(c) PROVE CallOK(d)'
  BY <1>1, <1>2, <1>3, <1>9 DEF HandlerReturns, ServerClosed, CallOK
<1>10. ASSUME NEW c \in Calls, Respond(c) PROVE CallOK(d)'
  BY <1>1, <1>2, <1>3, <1>10 DEF Respond, Write, CallOK
<1>11. CASE Cancel \/ AcceptFails \/ CloseJobs \/ ServeReturns
  BY <1>1, <1>2, <1>3, <1>11 DEF Cancel, AcceptFails, CloseJobs, ServeReturns, ServerClosed, CallOK
<1>12. CASE UNCHANGED vars
  BY <1>1, <1>2, <1>3, <1>12 DEF vars, CallOK
<1>. QED
  BY <1>4, <1>5, <1>6, <1>7, <1>8, <1>9, <1>10, <1>11, <1>12 DEF Gateway

\* The first select of handleConn queues a call or turns it away, never both.
LEMMA CallStepOffer ==
  ASSUME IInv, NEW c \in Calls, Offer(c), NEW d \in Calls
  PROVE  CallOK(d)'
<1>. USE DEF IInv, TypeOK
<1>1. CallOK(d) /\ CallOK(c) /\ UNCHANGED <<client, resp, runs>>
  BY DEF CallInv, Offer
<1>2. CASE JobsClosed
  BY <1>1, <1>2 DEF Offer, ServerClosed, CallOK, Untaken
<1>3. CASE jobs' = Append(jobs, c) /\ handler' = [handler EXCEPT ![c] = "waiting"]
           /\ UNCHANGED wire
  <2>1. InQueue(jobs, d)' <=> (d = c \/ InQueue(jobs, d))
    <3>1. InQueue(Append(jobs, c), d) <=> (d = c \/ InQueue(jobs, d))
      BY AppendQueue
    <3>2. InQueue(jobs, d)' <=> InQueue(Append(jobs, c), d)
      BY <1>3 DEF InQueue
    <3>. QED
      BY <3>1, <3>2
  <2>2. CASE d = c
    <3>1. handler[c] = "offering"
      BY DEF Offer
    <3>. QED
      BY <1>1, <1>3, <2>1, <2>2, <3>1 DEF CallOK, Untaken
  <2>3. CASE d # c
    BY <1>1, <1>3, <2>1, <2>3 DEF CallOK, Untaken
  <2>. QED
    BY <2>2, <2>3
<1>4. CASE /\ handler' = [handler EXCEPT ![c] = "reading"]
           /\ Write(c, "busy") /\ UNCHANGED jobs
  <2>1. handler[c] = "offering"
    BY DEF Offer
  <2>. QED
    BY <1>1, <1>4, <2>1 DEF CallOK, Untaken, Write, InQueue
<1>. QED
  BY <1>2, <1>3, <1>4 DEF Offer

\* A worker executes a queued call, once, and answers executed calls only.
LEMMA CallStepWork ==
  ASSUME IInv, NEW w \in Workers, Work(w), NEW d \in Calls
  PROVE  CallOK(d)'
<1>. USE DEF IInv, TypeOK
<1>1. CallOK(d) /\ UNCHANGED <<client, wire, handler>>
  BY DEF CallInv, Work, Take, HandleReturns, Reply, WorkerExits
<1>2. CASE Take(w)
  <2>1. /\ Head(jobs) \in Calls /\ InQueue(jobs, Head(jobs))
        /\ InQueue(Tail(jobs), d) <=> (d # Head(jobs) /\ InQueue(jobs, d))
    BY <1>2, TailQueue DEF Take, QueueInv
  <2>2. runs[Head(jobs)] = 0
    BY <2>1 DEF CallInv, CallOK
  <2>3. /\ runs' = [runs EXCEPT ![Head(jobs)] = 1] /\ UNCHANGED resp
        /\ InQueue(jobs, d)' <=> (d # Head(jobs) /\ InQueue(jobs, d))
    BY <1>2, <2>1, <2>2, SMTT(20) DEF Take, InQueue
  <2>. QED
    BY <1>1, <2>1, <2>2, <2>3 DEF CallOK, Untaken
<1>3. CASE HandleReturns(w) \/ WorkerExits(w)
  BY <1>1, <1>3 DEF HandleReturns, WorkerExits, CallOK, Untaken, InQueue
<1>4. CASE Reply(w)
  BY <1>1, <1>4 DEF Reply, WorkerInv, CallOK, Untaken, InQueue
<1>. QED
  BY <1>2, <1>3, <1>4 DEF Work

\* Every step keeps every call in a place that fits its execution count.
LEMMA CallStep == IInv /\ [Next]_vars => CallInv'
<1>. SUFFICES ASSUME IInv, [Next]_vars, NEW d \in Calls
              PROVE  CallOK(d)'
  BY DEF CallInv
<1>. QED
  BY CallStepOutside, CallStepOffer, CallStepWork, OutsidePool
     DEF Next, HandleConn, Serve

-----------------------------------------------------------------------------
(* Waiting handlers.                                                       *)

\* Somebody will produce, or has produced, the response to the call.
Attended(c) ==
  \/ resp[c]
  \/ InQueue(jobs, c)
  \/ \E w \in Workers : worker[w].at # "exited" /\ worker[w].job = c

\* WaitersHaveJobs in these words.
LEMMA WaitersAttended ==
  WaitersHaveJobs <=>
    \A c \in Calls : handler[c] = "waiting" /\ ~ cancelled => Attended(c)
BY DEF WaitersHaveJobs, Attended, InQueue

\* A job is handed from queue to worker to response channel without a gap, as
\* long as no worker may exit.
LEMMA WorkAttends ==
  ASSUME IInv, NEW w \in Workers, Work(w), ~ cancelled, NEW d \in Calls, Attended(d)
  PROVE  Attended(d)'
<1>. USE DEF IInv, TypeOK
<1>1. CASE Take(w)
  <2>1. InQueue(Tail(jobs), d) <=> (d # Head(jobs) /\ InQueue(jobs, d))
    BY <1>1, TailQueue DEF Take, QueueInv
  <2>2. /\ jobs' = Tail(jobs) /\ UNCHANGED resp
        /\ worker' = [worker EXCEPT ![w] = [at |-> "handling", job |-> Head(jobs)]]
    BY <1>1 DEF Take
  <2>3. worker[w].job = NoJob
    BY <1>1 DEF Take, WorkerInv
  <2>4. CASE resp[d]
    BY <2>2, <2>4 DEF Attended
  <2>5. CASE InQueue(jobs, d) /\ d # Head(jobs)
    <3>1. InQueue(jobs, d)'
      BY <2>1, <2>2, <2>5 DEF InQueue
    <3>. QED
      BY <3>1 DEF Attended
  <2>6. CASE d = Head(jobs)
    <3>1. worker'[w].at # "exited" /\ worker'[w].job = d
      BY <2>2, <2>6
    <3>. QED
      BY <3>1 DEF Attended
  <2>7. CASE \E v \in Workers : worker[v].at # "exited" /\ worker[v].job = d
    <3>1. PICK v \in Workers : worker[v].at # "exited" /\ worker[v].job = d
      BY <2>7
    <3>2. v # w
      BY <2>3, <3>1, NoJobAssumption
    <3>3. worker'[v].at # "exited" /\ worker'[v].job = d
      BY <2>2, <3>1, <3>2
    <3>. QED
      BY <3>3 DEF Attended
  <2>. QED
    BY <2>4, <2>5, <2>6, <2>7 DEF Attended
<1>2. CASE HandleReturns(w)
  BY <1>2 DEF HandleReturns, Attended, InQueue
<1>3. CASE Reply(w)
  <2>1. /\ resp' = [resp EXCEPT ![worker[w].job] = TRUE] /\ UNCHANGED jobs
        /\ worker' = [worker EXCEPT ![w] = [at |-> "receiving", job |-> NoJob]]
    BY <1>3 DEF Reply
  <2>2. CASE worker[w].job = d
    BY <2>1, <2>2 DEF Attended
  <2>3. CASE worker[w].job # d
    BY <2>1, <2>3 DEF Attended, InQueue
  <2>. QED
    BY <2>2, <2>3
<1>4. CASE WorkerExits(w)
  <2>1. FALSE
    BY <1>4 DEF WorkerExits, ShutdownInv, JobsClosed
  <2>. QED
    BY <2>1
<1>. QED
  BY <1>1, <1>2, <1>3, <1>4 DEF Work

\* No step leaves a handler waiting for a response that nobody will send.
LEMMA WaitersStep == IInv /\ [Next]_vars => WaitersHaveJobs'
<1>. SUFFICES ASSUME IInv, [Next]_vars, NEW d \in Calls,
                     handler'[d] = "waiting", ~ cancelled'
              PROVE  Attended(d)'
  BY DEF WaitersHaveJobs, Attended, InQueue
<1>. USE DEF IInv, TypeOK
<1>1. handler[d] = "waiting" /\ ~ cancelled => Attended(d)
  BY WaitersAttended
<1>2. ASSUME NEW c \in Calls, Offer(c) PROVE Attended(d)'
  <2>1. UNCHANGED <<resp, worker, cancelled>> /\ (jobs' = jobs \/ jobs' = Append(jobs, c))
    BY <1>2 DEF Offer
  <2>2. InQueue(jobs, d) => InQueue(jobs, d)'
    <3>1. InQueue(jobs, d) => InQueue(Append(jobs, c), d)
      BY AppendQueue
    <3>2. CASE jobs' = jobs
      BY <3>2 DEF InQueue
    <3>3. CASE jobs' = Append(jobs, c)
      BY <3>1, <3>3 DEF InQueue
    <3>. QED
      BY <2>1, <3>2, <3>3
  <2>3. CASE handler[d] = "waiting"
    BY <1>1, <2>1, <2>2, <2>3 DEF Attended
  <2>4. CASE handler[d] # "waiting"
    <3>1. d = c /\ jobs' = Append(jobs, c)
      BY <1>2, <2>4 DEF Offer
    <3>2. InQueue(jobs, d)'
      BY <3>1, AppendQueue, SMTT(20) DEF InQueue
    <3>. QED
      BY <3>2 DEF Attended
  <2>. QED
    BY <2>3, <2>4
<1>3. ASSUME NEW c \in Calls, Gateway(c) \/ Accept(c) \/ ReadFrame(c) \/ HandlerReturns(c)
      PROVE  Attended(d)'
  <2>1. UNCHANGED <<resp, jobs, worker, cancelled>> /\ handler[d] = "waiting"
    BY <1>3 DEF Gateway, Send, Receive, GiveUp, Accept, ReadFrame, HandlerReturns
  <2>. QED
    BY <1>1, <2>1 DEF Attended, InQueue
<1>4. ASSUME NEW c \in Calls, Respond(c) PROVE Attended(d)'
  <2>1. /\ UNCHANGED <<jobs, worker, cancelled>> /\ handler[d] = "waiting" /\ d # c
        /\ resp'[d] = resp[d]
    BY <1>4 DEF Respond
  <2>. QED
    BY <1>1, <2>1 DEF Attended, InQueue
<1>5. ASSUME NEW w \in Workers, Work(w) PROVE Attended(d)'
  <2>1. UNCHANGED <<handler, cancelled>>
    BY <1>5 DEF Work, Take, HandleReturns, Reply, WorkerExits
  <2>. QED
    BY <1>1, <1>5, <2>1, WorkAttends
<1>6. CASE Cancel
  BY <1>6 DEF Cancel
<1>7. CASE AcceptFails \/ CloseJobs \/ ServeReturns \/ UNCHANGED vars
  <2>1. UNCHANGED <<resp, jobs, worker, cancelled, handler>>
    BY <1>7 DEF AcceptFails, CloseJobs, ServeReturns, vars
  <2>. QED
    BY <1>1, <2>1 DEF Attended, InQueue
<1>. QED
  BY <1>2, <1>3, <1>4, <1>5, <1>6, <1>7 DEF Next, HandleConn, Serve

-----------------------------------------------------------------------------
(* Theorems.                                                               *)

\* The server starts with nothing queued, held or sent.
LEMMA IInvInit == Init => IInv
<1>. SUFFICES ASSUME Init
              PROVE  IInv
  OBVIOUS
<1>. USE DEF Init
<1>1. TypeOK
  <2>1. jobs \in Seq(Calls) /\ Len(jobs) = 0
    BY SMTT(20)
  <2>2. worker \in [Workers -> [at : {"receiving", "handling", "replying", "exited"},
                                job : Calls \cup {NoJob}]]
    OBVIOUS
  <2>3. resp \in [Calls -> BOOLEAN] /\ cancelled \in BOOLEAN
    OBVIOUS
  <2>4. /\ client \in [Calls -> {"idle", "pending", "answered", "refused", "lost"}]
        /\ wire \in [Calls -> {"empty", "request", "response", "busy", "closed"}]
        /\ handler \in [Calls -> {"none", "reading", "offering", "waiting", "closed"}]
        /\ runs \in [Calls -> Nat]
        /\ server \in {"accepting", "closing", "draining", "returned", "panicked"}
    OBVIOUS
  <2>. QED
    BY <2>1, <2>2, <2>3, <2>4, QueueAssumption, SMTT(20) DEF TypeOK
<1>2. CallInv /\ QueueInv
  <2>1. 1 .. Len(jobs) = {}
    BY SMTT(20)
  <2>. QED
    BY <2>1 DEF CallInv, CallOK, Untaken, InQueue, QueueInv
<1>3. WorkerInv /\ ShutdownInv /\ WaitersHaveJobs
  BY DEF WorkerInv, ShutdownInv, WaitersHaveJobs
<1>. QED
  BY <1>1, <1>2, <1>3 DEF IInv

\* The invariant of the server, its workers, handlers and callers.
THEOREM Invariance == SafetySpec => []IInv
<1>1. IInv /\ [Next]_vars => IInv'
  BY TypeStep, CallStep, PoolStep, ShutdownStep, WaitersStep DEF IInv
<1>. QED
  BY IInvInit, <1>1, PTL DEF SafetySpec

\* handleConn waits only while its job is queued, held by a worker or answered,
\* or the server is stopping.
THEOREM WaitersAlwaysHaveJobs == SafetySpec => []WaitersHaveJobs
<1>1. IInv => WaitersHaveJobs
  BY DEF IInv
<1>. QED
  BY Invariance, <1>1, PTL

\* The state stays well typed: the job channel holds at most QueueSize jobs, for
\* every number of workers and connections.
THEOREM TypeCorrect == SafetySpec => []TypeOK
<1>1. IInv => TypeOK
  BY DEF IInv
<1>. QED
  BY Invariance, <1>1, PTL

\* A send on the closed job channel happens only after the signal to stop.
THEOREM PanicsOnlyAtShutdown == SafetySpec => []PanicOnlyAtShutdown
<1>1. IInv => PanicOnlyAtShutdown
  BY DEF IInv, ShutdownInv, PanicOnlyAtShutdown
<1>. QED
  BY Invariance, <1>1, PTL

\* Each step of the server is a step of the call's abstract life, or none.
LEMMA StepRefines == IInv /\ [Next]_vars => [Abstract!Next]_(Abstract!callVars)
<1>. SUFFICES ASSUME IInv, [Next]_vars
              PROVE  Abstract!Next \/ UNCHANGED <<client, runs>>
  BY DEF Abstract!callVars
<1>. USE DEF IInv, TypeOK
<1>1. ASSUME NEW c \in Calls, Send(c) PROVE Abstract!Start(c)
  BY <1>1 DEF Send, Abstract!Start
<1>2. ASSUME NEW c \in Calls, Receive(c) PROVE Abstract!Answer(c) \/ Abstract!Refuse(c)
  BY <1>2 DEF Receive, Abstract!Answer, Abstract!Refuse, CallInv, CallOK, Untaken
<1>3. ASSUME NEW c \in Calls, GiveUp(c) PROVE Abstract!Lose(c)
  BY <1>3 DEF GiveUp, Abstract!Lose
<1>4. ASSUME NEW w \in Workers, Take(w) PROVE Abstract!Execute(Head(jobs)) /\ Head(jobs) \in Calls
  <2>1. Head(jobs) \in Calls /\ InQueue(jobs, Head(jobs))
    BY <1>4, TailQueue DEF Take, QueueInv
  <2>2. runs[Head(jobs)] = 0 /\ client[Head(jobs)] \in {"pending", "lost"}
    BY <2>1, SMTT(20) DEF CallInv, CallOK, Untaken
  <2>. QED
    BY <1>4, <2>1, <2>2, SMTT(20) DEF Take, Abstract!Execute
<1>5. ASSUME NEW c \in Calls, Accept(c) \/ HandleConn(c) PROVE UNCHANGED <<client, runs>>
  BY <1>5 DEF Accept, HandleConn, ReadFrame, HandlerReturns, Offer, Respond
<1>6. ASSUME NEW w \in Workers, HandleReturns(w) \/ Reply(w) \/ WorkerExits(w)
      PROVE  UNCHANGED <<client, runs>>
  BY <1>6 DEF HandleReturns, Reply, WorkerExits
<1>7. CASE Cancel \/ AcceptFails \/ CloseJobs \/ ServeReturns \/ UNCHANGED vars
  BY <1>7 DEF Cancel, AcceptFails, CloseJobs, ServeReturns, vars
<1>. QED
  BY <1>1, <1>2, <1>3, <1>4, <1>5, <1>6, <1>7
     DEF Next, Gateway, Work, Serve, Abstract!Next

\* For every number of calls and workers and every buffered queue, the worker pool
\* with its timeouts and its shutdown executes a call at most once, answers only
\* executed calls, and never executes one it reported server_busy for.
THEOREM ServerImplementsRemoteCall == SafetySpec => ImplementsRemoteCall
<1>1. Init => Abstract!Init
  BY DEF Init, Abstract!Init
<1>. QED
  BY Invariance, StepRefines, <1>1, PTL DEF SafetySpec, ImplementsRemoteCall, Abstract!Spec
=============================================================================
