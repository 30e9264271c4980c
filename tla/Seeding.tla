------------------------------ MODULE Seeding -------------------------------
(***************************************************************************)
(* The seed command (cmd/seed): one goroutine hands the first number of    *)
(* each batch to the workers through a channel, closes it, waits for them  *)
(* and compares what they inserted with what was asked for.  The command   *)
(* may be run again, whatever its result was.                              *)
(***************************************************************************)
EXTENDS Users, Sequences, FiniteSets

CONSTANTS
  Workers,        \* cfg.Seed.Concurrency goroutines
  BatchSize,      \* cfg.Seed.BatchSize
  MaxRuns,        \* bound: runs of the command
  MaxSeedFaults   \* bound: failed INSERTs

ASSUME WorkersAssumption == IsFiniteSet(Workers) /\ Workers # {}
ASSUME BatchAssumption == BatchSize \in Nat \ {0}
ASSUME SeedBoundsAssumption == MaxRuns \in Nat /\ MaxSeedFaults \in Nat

VARIABLES
  main,        \* where seed stands: before or after a run, sending, waiting
  startID,     \* the next batch to send
  jobs,        \* the channel
  worker,      \* per goroutine: its batch, or what it does without one
  done,        \* users inserted by this run
  result,      \* what the last run returned
  runsSeed,    \* runs so far
  seedFaults

seedVars == <<main, startID, jobs, worker, done, result, runsSeed, seedFaults>>

Capacity == 2 * Cardinality(Workers)
Idle == 0           \* in range jobs
Exited == Count + 1

SeedTypeOK ==
  /\ main \in {"ready", "sending", "waiting"}
  /\ startID \in 1 .. Count + BatchSize
  /\ jobs \in Seq(Ids) /\ Len(jobs) <= Capacity
  /\ worker \in [Workers -> Ids \cup {Idle, Exited}]
  /\ done \in 0 .. Count
  /\ result \in {"none", "ok", "error"}
  /\ runsSeed \in 0 .. MaxRuns
  /\ seedFaults \in 0 .. MaxSeedFaults

SeedInit ==
  /\ main = "ready"
  /\ startID = 1
  /\ jobs = << >>
  /\ worker = [w \in Workers |-> Exited]
  /\ done = 0
  /\ result = "none"
  /\ runsSeed = 0
  /\ seedFaults = 0

-----------------------------------------------------------------------------
\* The command starts its workers.  With nothing to seed it returns at once.
StartSeed ==
  /\ main = "ready"
  /\ runsSeed < MaxRuns
  /\ runsSeed' = runsSeed + 1
  /\ IF Count = 0
     THEN result' = "ok" /\ UNCHANGED <<main, startID, worker, done>>
     ELSE /\ main' = "sending"
          /\ startID' = 1
          /\ worker' = [w \in Workers |-> Idle]
          /\ done' = 0
          /\ result' = "none"
  /\ UNCHANGED <<users, jobs, seedFaults>>

\* jobs <- startID waits while the channel is full.
SendJob ==
  /\ main = "sending"
  /\ startID <= Count
  /\ Len(jobs) < Capacity
  /\ jobs' = Append(jobs, startID)
  /\ startID' = startID + BatchSize
  /\ UNCHANGED <<users, main, worker, done, result, runsSeed, seedFaults>>

CloseJobs ==
  /\ main = "sending"
  /\ startID > Count
  /\ main' = "waiting"
  /\ UNCHANGED <<users, startID, jobs, worker, done, result, runsSeed, seedFaults>>

TakeJob(w) ==
  /\ worker[w] = Idle
  /\ jobs # << >>
  /\ worker' = [worker EXCEPT ![w] = Head(jobs)]
  /\ jobs' = Tail(jobs)
  /\ UNCHANGED <<users, main, startID, done, result, runsSeed, seedFaults>>

\* Mutant: a worker that finds the channel empty ends, closed or not.
WorkerExitsEarly(w) ==
  /\ worker[w] = Idle
  /\ jobs = << >>
  /\ worker' = [worker EXCEPT ![w] = Exited]
  /\ UNCHANGED <<users, main, startID, jobs, done, result, runsSeed, seedFaults>>

\* The channel is closed and drained.
WorkerExits(w) ==
  /\ worker[w] = Idle
  /\ main = "waiting"
  /\ jobs = << >>
  /\ worker' = [worker EXCEPT ![w] = Exited]
  /\ UNCHANGED <<users, main, startID, jobs, done, result, runsSeed, seedFaults>>

\* Mutant: every batch is taken to be a full one.
SizeFull(start) == BatchSize

Size(start) ==
  IF BatchSize < Count - start + 1 THEN BatchSize ELSE Count - start + 1

Batch(start) == start .. start + Size(start) - 1

\* Mutant: a failed batch is counted too.
InsertBatchCounted(w) ==
  /\ worker[w] \in Ids
  /\ \/ users' = Inserted(Batch(worker[w])) /\ UNCHANGED seedFaults
     \/ /\ seedFaults < MaxSeedFaults
        /\ seedFaults' = seedFaults + 1
        /\ users' \in {users, Inserted(Batch(worker[w]))}
  /\ done' = done + Size(worker[w])
  /\ worker' = [worker EXCEPT ![w] = Idle]
  /\ UNCHANGED <<main, startID, jobs, result, runsSeed>>

\* makeUsers and InsertSeedUsers.  A batch that fails, or whose answer is lost,
\* is logged and passed over.
InsertBatch(w) ==
  /\ worker[w] \in Ids
  /\ \/ /\ users' = Inserted(Batch(worker[w]))
        /\ done' = done + Size(worker[w])
        /\ UNCHANGED seedFaults
     \/ /\ seedFaults < MaxSeedFaults
        /\ seedFaults' = seedFaults + 1
        /\ users' \in {users, Inserted(Batch(worker[w]))}
        /\ UNCHANGED done
  /\ worker' = [worker EXCEPT ![w] = Idle]
  /\ UNCHANGED <<main, startID, jobs, result, runsSeed>>

\* After wg.Wait.
SeedReturns ==
  /\ main = "waiting"
  /\ \A w \in Workers : worker[w] = Exited
  /\ main' = "ready"
  /\ result' = IF done < Count THEN "error" ELSE "ok"
  /\ UNCHANGED <<users, startID, jobs, worker, done, runsSeed, seedFaults>>

\* The steps the scheduler sees to once a run has begun.
SeedSteps ==
  \/ SendJob \/ CloseJobs \/ SeedReturns
  \/ \E w \in Workers : TakeJob(w) \/ WorkerExits(w) \/ InsertBatch(w)

SeedNext == StartSeed \/ SeedSteps

-----------------------------------------------------------------------------
(* Properties.                                                             *)

\* A run that returns without an error leaves no number of 1 .. Count without a
\* user, although workers finish in any order, pass over batches that fail and
\* only add up how many they inserted.
SeedComplete == result = "ok" => \A u \in Ids : users[u] # NoUser

\* A run ends: no failure of a batch leaves the sender before a full channel or
\* the main goroutine waiting for a worker.
SeedEnds == main # "ready" ~> main = "ready"
=============================================================================
