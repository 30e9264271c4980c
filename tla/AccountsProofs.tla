--------------------------- MODULE AccountsProofs ---------------------------
(***************************************************************************)
(* Proofs about Accounts: seeding and nickname updates on one table, for   *)
(* any number of users, workers, requests and names, and any batch size.   *)
(*                                                                         *)
(* The argument for SeedComplete: seed only compares two numbers, so the   *)
(* count of inserted users must stand for as many different rows.  The     *)
(* batches that are queued or held by workers never overlap, because they  *)
(* start BatchSize apart; hence there is a set of done rows with as many   *)
(* elements as the count, and a full count leaves no row out.              *)
(*                                                                         *)
(* The argument for LatestUpdateWins: an update that found or made the row *)
(* what it asked for can stand behind the row until it is answered.  The   *)
(* requests that were over when an update began are a chain, as requests   *)
(* do not become unfinished again; so when one update is answered, either  *)
(* what stands behind the row for it does so for every other update, or    *)
(* the other way round.                                                    *)
(***************************************************************************)
EXTENDS Accounts, FiniteSetTheorems, TLAPS

\* The prover of the steps that name no other.
USE ZenonT(40)

-----------------------------------------------------------------------------
(* The seed command.                                                       *)

\* Batches lie between here and the next number to send, in the order of the
\* channel and behind what workers have taken.
ApartInv ==
  /\ \A i \in 1 .. Len(jobs) :
       /\ jobs[i] + BatchSize <= startID
       /\ \A j \in 1 .. Len(jobs) : i < j => jobs[i] + BatchSize <= jobs[j]
  /\ \A w \in Workers :
       worker[w] \in Ids =>
         /\ worker[w] + BatchSize <= startID
         /\ \A i \in 1 .. Len(jobs) : worker[w] + BatchSize <= jobs[i]
         /\ \A v \in Workers \ {w} :
              worker[v] \in Ids => \/ worker[w] + BatchSize <= worker[v]
                                   \/ worker[v] + BatchSize <= worker[w]

\* The rows D have been inserted by this run, and no batch to come has one of them.
Accounted(D) ==
  /\ Cardinality(D) = done
  /\ \A u \in D :
       /\ users[u] # NoUser
       /\ u < startID
       /\ \A i \in 1 .. Len(jobs) : u \notin Batch(jobs[i])
       /\ \A w \in Workers : worker[w] \in Ids => u \notin Batch(worker[w])

CountedInv == \E D \in SUBSET Ids : Accounted(D)

\* Nothing is left in the channel when a worker has gone.
DrainedInv ==
  /\ main = "ready" => jobs = << >>
  /\ main = "sending" => \A w \in Workers : worker[w] # Exited
  /\ \A w \in Workers : worker[w] = Exited => jobs = << >>

SeedInv ==
  /\ SeedTypeOK
  /\ ApartInv
  /\ CountedInv
  /\ DrainedInv
  /\ SeedComplete

-----------------------------------------------------------------------------
\* Numbers.
LEMMA SeedNumbers ==
  /\ Count \in Nat /\ BatchSize \in Nat \ {0} /\ MaxRuns \in Nat /\ MaxSeedFaults \in Nat
  /\ Ids \subseteq Nat /\ Idle \notin Ids /\ Exited \notin Ids /\ Idle # Exited
  /\ Capacity \in Nat
<1>1. Cardinality(Workers) \in Nat
  BY WorkersAssumption, FS_CardinalityType
<1>. QED
  BY <1>1, CountAssumption, BatchAssumption, SeedBoundsAssumption, SMTT(20)
  DEF Ids, Idle, Exited, Capacity

\* A batch is an interval of at most BatchSize rows.
LEMMA BatchFacts ==
  ASSUME NEW b \in Ids
  PROVE  /\ Size(b) \in 1 .. BatchSize
         /\ Batch(b) \subseteq Ids /\ IsFiniteSet(Batch(b))
         /\ Cardinality(Batch(b)) = Size(b)
         /\ \A u \in Batch(b) : u \in Nat /\ b <= u /\ u < b + BatchSize
<1>1. Size(b) \in 1 .. BatchSize /\ b + Size(b) - 1 <= Count /\ b \in Nat \ {0}
  BY SeedNumbers, SMTT(20) DEF Size, Ids
<1>2. Batch(b) \subseteq Ids /\ \A u \in Batch(b) : u \in Nat /\ b <= u /\ u < b + BatchSize
  BY <1>1, SeedNumbers, SMTT(20) DEF Batch, Ids
<1>3. IsFiniteSet(Batch(b)) /\ Cardinality(Batch(b)) = Size(b)
  <2>1. b \in Int /\ b + Size(b) - 1 \in Int /\ b + Size(b) - 1 >= b /\ Size(b) \in Nat
    BY <1>1, SeedNumbers, SMTT(20)
  <2>2. /\ IsFiniteSet(b .. b + Size(b) - 1)
        /\ Cardinality(b .. b + Size(b) - 1) = (b + Size(b) - 1) - b + 1
    BY <2>1, FS_Interval, SMTT(20)
  <2>. QED
    BY <1>1, <2>1, <2>2, SMTT(20) DEF Batch
<1>. QED
  BY <1>1, <1>2, <1>3

\* The rows are finitely many, and a set of Count of them is all of them.
LEMMA AllRows ==
  /\ IsFiniteSet(Ids) /\ Cardinality(Ids) = Count
  /\ \A D \in SUBSET Ids : /\ IsFiniteSet(D) /\ Cardinality(D) \in 0 .. Count
                           /\ Cardinality(D) >= Count => D = Ids
<1>1. IsFiniteSet(Ids) /\ Cardinality(Ids) = Count
  <2>1. Cardinality(1 .. Count) = IF 1 > Count THEN 0 ELSE Count - 1 + 1
    BY SeedNumbers, FS_Interval, SMTT(20)
  <2>. QED
    BY <2>1, SeedNumbers, FS_Interval, SMTT(20) DEF Ids
<1>2. ASSUME NEW D \in SUBSET Ids
      PROVE  /\ IsFiniteSet(D) /\ Cardinality(D) \in 0 .. Count
             /\ Cardinality(D) >= Count => D = Ids
  <2>1. IsFiniteSet(D) /\ Cardinality(D) <= Count /\ Cardinality(D) \in Nat
    BY <1>1, FS_Subset, FS_CardinalityType
  <2>2. Cardinality(D) = Count => D = Ids
    BY <1>1, FS_Subset
  <2>. QED
    BY <2>1, <2>2, SeedNumbers, SMTT(20)
<1>. QED
  BY <1>1, <1>2

-----------------------------------------------------------------------------
\* No row is lost from the table by an INSERT, and the batch is in it.
LEMMA InsertedFacts ==
  ASSUME NEW B \in SUBSET Ids, NEW u \in Ids
  PROVE  /\ users[u] # NoUser => Inserted(B)[u] # NoUser
         /\ u \in B => Inserted(B)[u] # NoUser
BY NoUserAssumption DEF Inserted, SeedNickname

\* Whatever else happens to the table, rows stay.
LEMMA SeedKept ==
  ASSUME SeedInv, UNCHANGED seedVars,
         \A u \in Ids : users[u] # NoUser => users'[u] # NoUser
  PROVE  SeedInv'
<1>. USE DEF SeedInv, seedVars
<1>1. SeedTypeOK' /\ ApartInv' /\ DrainedInv'
  BY DEF SeedTypeOK, ApartInv, DrainedInv
<1>2. CountedInv'
  BY DEF CountedInv, Accounted, Batch, Size
<1>3. SeedComplete'
  BY DEF SeedComplete
<1>. QED
  BY <1>1, <1>2, <1>3

\* The command begins.
LEMMA SeedStarts == SeedInv /\ StartSeed => SeedInv'
<1>. SUFFICES ASSUME SeedInv, StartSeed PROVE SeedInv'
  OBVIOUS
<1>. USE SeedNumbers DEF SeedInv
<1>1. CASE Count = 0
  <2>1. /\ UNCHANGED <<users, main, startID, jobs, worker, done, seedFaults>>
        /\ result' = "ok" /\ runsSeed' = runsSeed + 1 /\ runsSeed < MaxRuns
    BY <1>1 DEF StartSeed
  <2>2. SeedTypeOK'
    BY <2>1, SMTT(20) DEF SeedTypeOK
  <2>3. ApartInv' /\ DrainedInv'
    BY <2>1 DEF ApartInv, DrainedInv
  <2>4. CountedInv'
    BY <2>1 DEF CountedInv, Accounted, Batch, Size
  <2>5. SeedComplete'
    BY <1>1, SMTT(20) DEF SeedComplete, Ids
  <2>. QED
    BY <2>2, <2>3, <2>4, <2>5
<1>2. CASE Count # 0
  <2>1. /\ main' = "sending" /\ startID' = 1 /\ worker' = [w \in Workers |-> Idle]
        /\ done' = 0 /\ result' = "none" /\ UNCHANGED <<users, jobs, seedFaults>>
        /\ runsSeed' = runsSeed + 1 /\ runsSeed < MaxRuns /\ jobs = << >>
    BY <1>2 DEF StartSeed, DrainedInv
  <2>2. SeedTypeOK'
    BY <2>1, SMTT(20) DEF SeedTypeOK
  <2>3. ApartInv' /\ DrainedInv'
    BY <2>1, SMTT(20) DEF ApartInv, DrainedInv
  <2>4. CountedInv'
    <3>1. Accounted({})'
      BY <2>1, FS_EmptySet DEF Accounted
    <3>. QED
      BY <3>1 DEF CountedInv
  <2>5. SeedComplete'
    BY <2>1 DEF SeedComplete
  <2>. QED
    BY <2>2, <2>3, <2>4, <2>5
<1>. QED
  BY <1>1, <1>2

\* A batch is put in the channel.
LEMMA SeedSends == SeedInv /\ SendJob => SeedInv'
<1>. SUFFICES ASSUME SeedInv, SendJob PROVE SeedInv'
  OBVIOUS
<1>. USE SeedNumbers DEF SeedInv
<1>1. /\ startID \in Ids /\ startID' = startID + BatchSize
      /\ jobs' = Append(jobs, startID) /\ Len(jobs) < Capacity /\ main = "sending"
      /\ UNCHANGED <<users, main, worker, done, result, runsSeed, seedFaults>>
  BY SMTT(20) DEF SendJob, SeedTypeOK, Ids
<1>2. /\ jobs \in Seq(Ids) /\ jobs' \in Seq(Ids) /\ Len(jobs') = Len(jobs) + 1 /\ Len(jobs) \in Nat
      /\ \A i \in 1 .. Len(jobs) : jobs'[i] = jobs[i]
      /\ jobs'[Len(jobs) + 1] = startID
  BY <1>1, SMTT(20) DEF SeedTypeOK
<1>3. SeedTypeOK'
  BY <1>1, <1>2, SMTT(20) DEF SeedTypeOK, Ids
<1>4. ApartInv'
  <2>1. \A i \in 1 .. Len(jobs') : i \in 1 .. Len(jobs) \/ i = Len(jobs) + 1
    BY <1>2, SMTT(20)
  <2>2. startID \in Nat /\ \A i \in 1 .. Len(jobs) : jobs[i] + BatchSize <= startID
    BY <1>1 DEF ApartInv
  <2>3. \A i \in 1 .. Len(jobs) : jobs[i] \in Ids
    BY <1>2, SMTT(20)
  <2>4. \A i \in 1 .. Len(jobs') : jobs'[i] + BatchSize <= startID'
    <3>1. ASSUME NEW i \in 1 .. Len(jobs) PROVE jobs'[i] + BatchSize <= startID'
      <4>1. jobs[i] \in Nat
        BY <2>3
      <4>. QED
        BY <1>1, <1>2, <2>2, <4>1, SMTT(20)
    <3>2. jobs'[Len(jobs) + 1] + BatchSize <= startID'
      BY <1>1, <1>2, <2>2, SMTT(20)
    <3>. QED
      BY <2>1, <3>1, <3>2
  <2>5. \A i, j \in 1 .. Len(jobs') : i < j => jobs'[i] + BatchSize <= jobs'[j]
    <3>1. ASSUME NEW i \in 1 .. Len(jobs'), NEW j \in 1 .. Len(jobs'), i < j
          PROVE  jobs'[i] + BatchSize <= jobs'[j]
      <4>1. i \in 1 .. Len(jobs)
        BY <1>2, <2>1, <3>1, SMTT(20)
      <4>2. CASE j = Len(jobs) + 1
        BY <1>2, <2>2, <4>1, <4>2
      <4>3. CASE j \in 1 .. Len(jobs)
        BY <1>2, <3>1, <4>1, <4>3 DEF ApartInv
      <4>. QED
        BY <2>1, <4>2, <4>3
    <3>. QED
      BY <3>1
  <2>6. \A w \in Workers : worker[w] \in Ids =>
          /\ worker[w] + BatchSize <= startID
          /\ worker[w] + BatchSize <= startID'
          /\ \A i \in 1 .. Len(jobs') : worker[w] + BatchSize <= jobs'[i]
    <3>1. ASSUME NEW w \in Workers, worker[w] \in Ids
          PROVE  /\ worker[w] + BatchSize <= startID
                 /\ worker[w] + BatchSize <= startID'
                 /\ \A i \in 1 .. Len(jobs') : worker[w] + BatchSize <= jobs'[i]
      <4>1. worker[w] \in Nat /\ worker[w] + BatchSize <= startID
        BY <3>1 DEF ApartInv
      <4>2. \A i \in 1 .. Len(jobs) : worker[w] + BatchSize <= jobs'[i]
        BY <1>2, <3>1 DEF ApartInv
      <4>. QED
        BY <1>1, <1>2, <2>1, <2>2, <4>1, <4>2, SMTT(20)
    <3>. QED
      BY <3>1
  <2>. QED
    BY <1>1, <2>4, <2>5, <2>6 DEF ApartInv
<1>5. CountedInv'
  <2>1. PICK D \in SUBSET Ids : Accounted(D)
    BY DEF CountedInv
  <2>2. \A u \in D : u \notin Batch(startID)
    BY <1>1, <2>1, BatchFacts, SMTT(20) DEF Accounted
  <2>3. \A u \in D : u < startID'
    BY <1>1, <2>1, SMTT(20) DEF Accounted
  <2>4. \A u \in D : \A i \in 1 .. Len(jobs') : u \notin Batch(jobs'[i])
    BY <1>2, <2>1, <2>2, SMTT(20) DEF Accounted
  <2>5. Accounted(D)'
    BY <1>1, <2>1, <2>3, <2>4 DEF Accounted, Batch, Size
  <2>. QED
    BY <2>5 DEF CountedInv
<1>6. DrainedInv'
  BY <1>1 DEF DrainedInv
<1>7. SeedComplete'
  BY <1>1 DEF SeedComplete
<1>. QED
  BY <1>3, <1>4, <1>5, <1>6, <1>7

\* A worker takes a batch from the channel.
LEMMA SeedTakes == ASSUME NEW w \in Workers PROVE SeedInv /\ TakeJob(w) => SeedInv'
<1>. SUFFICES ASSUME SeedInv, TakeJob(w) PROVE SeedInv'
  OBVIOUS
<1>. USE SeedNumbers DEF SeedInv
<1>1. /\ worker' = [worker EXCEPT ![w] = Head(jobs)] /\ worker[w] = Idle
      /\ jobs' = Tail(jobs) /\ jobs # << >> /\ jobs \in Seq(Ids)
      /\ UNCHANGED <<users, main, startID, done, result, runsSeed, seedFaults>>
  BY DEF TakeJob, SeedTypeOK
<1>2. /\ Head(jobs) = jobs[1] /\ jobs[1] \in Ids /\ 1 \in 1 .. Len(jobs)
      /\ jobs' \in Seq(Ids) /\ Len(jobs') = Len(jobs) - 1 /\ Len(jobs) \in Nat
      /\ \A i \in 1 .. Len(jobs') : jobs'[i] = jobs[i + 1] /\ i + 1 \in 1 .. Len(jobs)
  BY <1>1, SMTT(20)
<1>3. SeedTypeOK'
  BY <1>1, <1>2, SMTT(20) DEF SeedTypeOK
<1>4. ApartInv'
  <2>1. /\ worker \in [Workers -> Ids \cup {Idle, Exited}]
        /\ worker'[w] = jobs[1] /\ \A v \in Workers \ {w} : worker'[v] = worker[v]
    BY <1>1, <1>2 DEF SeedTypeOK
  <2>2. \A i \in 1 .. Len(jobs') :
          /\ jobs'[i] + BatchSize <= startID /\ jobs[1] + BatchSize <= jobs'[i]
          /\ \A j \in 1 .. Len(jobs') : i < j => jobs'[i] + BatchSize <= jobs'[j]
    <3>. SUFFICES ASSUME NEW i \in 1 .. Len(jobs')
                  PROVE  /\ jobs'[i] + BatchSize <= startID /\ jobs[1] + BatchSize <= jobs'[i]
                         /\ \A j \in 1 .. Len(jobs') :
                              i < j => jobs'[i] + BatchSize <= jobs'[j]
      OBVIOUS
    <3>1. i + 1 \in 1 .. Len(jobs) /\ jobs'[i] = jobs[i + 1] /\ 1 < i + 1
      BY <1>2, SMTT(20)
    <3>2. ASSUME NEW j \in 1 .. Len(jobs'), i < j
          PROVE  jobs[i + 1] + BatchSize <= jobs[j + 1] /\ jobs'[j] = jobs[j + 1]
      <4>1. j + 1 \in 1 .. Len(jobs) /\ jobs'[j] = jobs[j + 1] /\ i + 1 < j + 1
        BY <1>2, <3>2, SMTT(20)
      <4>. QED
        BY <3>1, <4>1 DEF ApartInv
    <3>. QED
      BY <1>2, <3>1, <3>2 DEF ApartInv
  <2>3. jobs[1] + BatchSize <= startID
    BY <1>2 DEF ApartInv
  <2>4. \A v \in Workers \ {w} : worker[v] \in Ids =>
          /\ worker[v] + BatchSize <= startID
          /\ worker[v] + BatchSize <= jobs[1]
          /\ \A i \in 1 .. Len(jobs') : worker[v] + BatchSize <= jobs'[i]
    BY <1>2 DEF ApartInv
  <2>5. \A v \in Workers : \A x \in Workers \ {v} :
          worker'[v] \in Ids /\ worker'[x] \in Ids =>
            \/ worker'[v] + BatchSize <= worker'[x]
            \/ worker'[x] + BatchSize <= worker'[v]
    BY <2>1, <2>4 DEF ApartInv
  <2>. QED
    BY <1>1, <2>1, <2>2, <2>3, <2>4, <2>5 DEF ApartInv
<1>5. CountedInv'
  <2>1. PICK D \in SUBSET Ids : Accounted(D)
    BY DEF CountedInv
  <2>2. \A u \in D : \A i \in 1 .. Len(jobs') : u \notin Batch(jobs'[i])
    BY <1>2, <2>1 DEF Accounted
  <2>3. \A u \in D : \A v \in Workers : worker'[v] \in Ids => u \notin Batch(worker'[v])
    BY <1>1, <1>2, <2>1 DEF Accounted, SeedTypeOK
  <2>4. Accounted(D)'
    BY <1>1, <2>1, <2>2, <2>3 DEF Accounted, Batch, Size
  <2>. QED
    BY <2>4 DEF CountedInv
<1>6. DrainedInv'
  BY <1>1, <1>2 DEF DrainedInv, SeedTypeOK
<1>7. SeedComplete'
  BY <1>1 DEF SeedComplete
<1>. QED
  BY <1>3, <1>4, <1>5, <1>6, <1>7

\* A worker inserts its batch, or passes over it.
LEMMA SeedInserts == ASSUME NEW w \in Workers PROVE SeedInv /\ InsertBatch(w) => SeedInv'
<1>. SUFFICES ASSUME SeedInv, InsertBatch(w) PROVE SeedInv'
  OBVIOUS
<1>. USE SeedNumbers DEF SeedInv
<1>1. /\ worker[w] \in Ids /\ worker' = [worker EXCEPT ![w] = Idle]
      /\ worker \in [Workers -> Ids \cup {Idle, Exited}]
      /\ UNCHANGED <<main, startID, jobs, result, runsSeed>>
      /\ seedFaults' \in 0 .. MaxSeedFaults
  BY SMTT(20) DEF InsertBatch, SeedTypeOK
<1>2. Batch(worker[w]) \subseteq Ids
  BY <1>1, BatchFacts
<1>3. \A u \in Ids : users[u] # NoUser => users'[u] # NoUser
  <2>1. users' = users \/ users' = Inserted(Batch(worker[w]))
    BY DEF InsertBatch
  <2>. QED
    BY <1>2, <2>1, InsertedFacts
<1>4. PICK D \in SUBSET Ids : Accounted(D)
  BY DEF CountedInv
<1>5. \E E \in SUBSET Ids : Accounted(E)'
  <2>1. CASE users' = Inserted(Batch(worker[w])) /\ done' = done + Size(worker[w])
    <3>1. D \cap Batch(worker[w]) = {}
      BY <1>1, <1>4 DEF Accounted
    <3>2. Cardinality(D \cup Batch(worker[w])) = done'
      <4>1. /\ IsFiniteSet(D) /\ IsFiniteSet(Batch(worker[w]))
            /\ Cardinality(Batch(worker[w])) = Size(worker[w]) /\ Size(worker[w]) \in Nat
            /\ Cardinality(D) = done /\ done \in Nat
        <5>1. IsFiniteSet(D)
          BY AllRows
        <5>2. /\ IsFiniteSet(Batch(worker[w])) /\ Size(worker[w]) \in Nat
              /\ Cardinality(Batch(worker[w])) = Size(worker[w])
          <6>1. /\ IsFiniteSet(Batch(worker[w])) /\ Size(worker[w]) \in 1 .. BatchSize
                /\ Cardinality(Batch(worker[w])) = Size(worker[w])
            BY <1>1, BatchFacts
          <6>. QED
            BY <6>1, SMTT(20)
        <5>. QED
          BY <1>4, <5>1, <5>2, SMTT(20) DEF Accounted, SeedTypeOK
      <4>2. Cardinality(D \cup Batch(worker[w]))
              = Cardinality(D) + Cardinality(Batch(worker[w])) - Cardinality(D \cap Batch(worker[w]))
        BY <4>1, FS_Union
      <4>3. Cardinality(D \cap Batch(worker[w])) = 0
        BY <3>1, FS_EmptySet
      <4>. QED
        BY <2>1, <4>1, <4>2, <4>3, SMTT(20)
    <3>3. \A u \in D \cup Batch(worker[w]) : users'[u] # NoUser
      BY <1>2, <1>3, <1>4, <2>1, InsertedFacts DEF Accounted
    <3>4. \A u \in Batch(worker[w]) :
            /\ u < startID
            /\ \A i \in 1 .. Len(jobs) : u \notin Batch(jobs[i])
            /\ \A v \in Workers \ {w} : worker[v] \in Ids => u \notin Batch(worker[v])
      <4>. SUFFICES ASSUME NEW u \in Batch(worker[w])
                    PROVE  /\ u < startID
                           /\ \A i \in 1 .. Len(jobs) : u \notin Batch(jobs[i])
                           /\ \A v \in Workers \ {w} : worker[v] \in Ids => u \notin Batch(worker[v])
        OBVIOUS
      <4>1. u \in Nat /\ worker[w] <= u /\ u < worker[w] + BatchSize /\ worker[w] \in Nat
        BY <1>1, BatchFacts
      <4>2. u < startID
        BY <1>1, <4>1, SMTT(20) DEF ApartInv, SeedTypeOK
      <4>3. ASSUME NEW i \in 1 .. Len(jobs) PROVE u \notin Batch(jobs[i])
        <5>1. jobs[i] \in Ids
          BY SMTT(20) DEF SeedTypeOK
        <5>2. jobs[i] \in Nat /\ worker[w] + BatchSize <= jobs[i]
          BY <1>1, <5>1 DEF ApartInv
        <5>3. \A x \in Batch(jobs[i]) : jobs[i] <= x
          BY <5>1, BatchFacts
        <5>. QED
          BY <4>1, <5>2, <5>3, SMTT(20)
      <4>4. ASSUME NEW v \in Workers \ {w}, worker[v] \in Ids PROVE u \notin Batch(worker[v])
        <5>1. /\ worker[v] \in Nat
              /\ worker[w] + BatchSize <= worker[v] \/ worker[v] + BatchSize <= worker[w]
          BY <1>1, <4>4 DEF ApartInv
        <5>2. \A x \in Batch(worker[v]) : worker[v] <= x /\ x < worker[v] + BatchSize
          BY <4>4, BatchFacts
        <5>. QED
          BY <4>1, <5>1, <5>2, SMTT(20)
      <4>. QED
        BY <4>2, <4>3, <4>4
    <3>5. \A u \in D \cup Batch(worker[w]) :
            /\ u < startID
            /\ \A i \in 1 .. Len(jobs) : u \notin Batch(jobs[i])
            /\ \A v \in Workers : worker'[v] \in Ids => u \notin Batch(worker'[v])
      BY <1>1, <1>4, <3>4 DEF Accounted
    <3>6. PICK E \in SUBSET Ids : E = D \cup Batch(worker[w])
      BY <1>2
    <3>7. Accounted(E)'
      BY <1>1, <3>2, <3>3, <3>5, <3>6 DEF Accounted, Batch, Size
    <3>. QED
      BY <3>7
  <2>2. CASE done' = done
    <3>1. \A v \in Workers : worker'[v] \in Ids => worker[v] = worker'[v]
      BY <1>1
    <3>2. Accounted(D)'
      BY <1>1, <1>3, <1>4, <2>2, <3>1 DEF Accounted, Batch, Size
    <3>. QED
      BY <3>2
  <2>. QED
    BY <2>1, <2>2 DEF InsertBatch
<1>6. CountedInv'
  BY <1>5 DEF CountedInv
<1>7. SeedTypeOK'
  <2>1. PICK E \in SUBSET Ids : Cardinality(E) = done'
    BY <1>5 DEF Accounted
  <2>2. done' \in 0 .. Count
    BY <2>1, AllRows
  <2>. QED
    BY <1>1, <2>2 DEF SeedTypeOK
<1>8. ApartInv'
  BY <1>1, SMTT(20) DEF ApartInv
<1>9. DrainedInv'
  BY <1>1 DEF DrainedInv
<1>10. SeedComplete'
  BY <1>1, <1>3 DEF SeedComplete
<1>. QED
  BY <1>6, <1>7, <1>8, <1>9, <1>10

\* The channel is closed and the workers leave.
LEMMA SeedCloses ==
  SeedInv /\ (CloseJobs \/ \E w \in Workers : WorkerExits(w)) => SeedInv'
<1>. SUFFICES ASSUME SeedInv, CloseJobs \/ \E w \in Workers : WorkerExits(w) PROVE SeedInv'
  OBVIOUS
<1>. USE SeedNumbers DEF SeedInv
<1>1. /\ UNCHANGED <<users, startID, jobs, done, result, runsSeed, seedFaults>>
      /\ worker \in [Workers -> Ids \cup {Idle, Exited}]
      /\ worker' \in [Workers -> Ids \cup {Idle, Exited}]
      /\ \A w \in Workers : worker'[w] = worker[w] \/ (worker'[w] = Exited /\ jobs = << >>)
      /\ main' = "waiting"
  BY DEF CloseJobs, WorkerExits, SeedTypeOK
<1>2. SeedTypeOK' /\ DrainedInv' /\ SeedComplete'
  BY <1>1 DEF SeedTypeOK, DrainedInv, SeedComplete
<1>3. \A w \in Workers : worker'[w] \in Ids => worker[w] = worker'[w]
  BY <1>1
<1>4. ApartInv'
  BY <1>1, <1>3 DEF ApartInv
<1>5. CountedInv'
  <2>1. PICK D \in SUBSET Ids : Accounted(D)
    BY DEF CountedInv
  <2>2. Accounted(D)'
    BY <1>1, <1>3, <2>1 DEF Accounted, Batch, Size
  <2>. QED
    BY <2>2 DEF CountedInv
<1>. QED
  BY <1>2, <1>4, <1>5

\* seed returns; with a full count, every row is there.
LEMMA SeedEndsRun == SeedInv /\ SeedReturns => SeedInv'
<1>. SUFFICES ASSUME SeedInv, SeedReturns PROVE SeedInv'
  OBVIOUS
<1>. USE SeedNumbers DEF SeedInv
<1>1. /\ UNCHANGED <<users, startID, jobs, worker, done, runsSeed, seedFaults>>
      /\ \A w \in Workers : worker[w] = Exited
      /\ main' = "ready" /\ result' = IF done < Count THEN "error" ELSE "ok"
  BY DEF SeedReturns
<1>2. jobs = << >>
  BY <1>1, WorkersAssumption DEF DrainedInv
<1>3. PICK D \in SUBSET Ids : Accounted(D)
  BY DEF CountedInv
<1>4. SeedTypeOK' /\ ApartInv' /\ DrainedInv'
  BY <1>1, <1>2, SMTT(20), ZenonT(40) DEF SeedTypeOK, ApartInv, DrainedInv
<1>5. CountedInv'
  <2>1. Accounted(D)'
    BY <1>1, <1>3 DEF Accounted, Batch, Size
  <2>. QED
    BY <2>1 DEF CountedInv
<1>6. SeedComplete'
  <2>1. result' = "ok" => done >= Count
    BY <1>1, SMTT(20) DEF SeedTypeOK
  <2>2. done >= Count => D = Ids
    BY <1>3, AllRows DEF Accounted
  <2>. QED
    BY <1>1, <1>3, <2>1, <2>2 DEF Accounted, SeedComplete
<1>. QED
  BY <1>4, <1>5, <1>6

\* Every step of the command.
LEMMA SeedStepInv == SeedInv /\ SeedNext => SeedInv'
BY SeedStarts, SeedSends, SeedTakes, SeedInserts, SeedCloses, SeedEndsRun DEF SeedNext, SeedSteps

\* Before the first run.
LEMMA SeedInitInv == SeedInit => SeedInv
<1>. SUFFICES ASSUME SeedInit PROVE SeedInv
  OBVIOUS
<1>. USE SeedNumbers DEF SeedInit
<1>1. SeedTypeOK
  BY SMTT(20) DEF SeedTypeOK
<1>2. ApartInv /\ DrainedInv /\ SeedComplete
  BY SMTT(20) DEF ApartInv, DrainedInv, SeedComplete
<1>3. Accounted({})
  BY FS_EmptySet DEF Accounted
<1>. QED
  BY <1>1, <1>2, <1>3 DEF SeedInv, CountedInv

-----------------------------------------------------------------------------
(* Nickname updates.                                                       *)

\* The fields of a request, as names that the provers need not open.
Step(r) == req[r].pc
Asked(r) == req[r].ask
CodeOf(r) == req[r].code
Status(r) == req[r].status
Before(r) == req[r].before

\* A step leaves the request alone.
Same(r) ==
  /\ Step(r)' = Step(r) /\ Asked(r)' = Asked(r) /\ CodeOf(r)' = CodeOf(r)
  /\ Status(r)' = Status(r) /\ Before(r)' = Before(r)

\* The status follows from what the gateway knows of its call.
StatusOf(r) ==
  CASE outcome[r] = "pending"  -> {Pending}
    [] outcome[r] = "lost"     -> {502}
    [] outcome[r] = "refused"  -> {429}
    [] outcome[r] = "idle"     -> {Pending, 400, 401}
    [] outcome[r] = "answered" -> {IF CodeOf(r) = "ok" THEN 200 ELSE StatusFor(CodeOf(r))}

\* How far the request r is, for the gateway, for the backend and in the row.
Place(r, step, out, n, code, rows) ==
  /\ out = "idle" => step = "new"
  /\ step = "new" => out \in {"idle", "lost"}
  /\ step \in {"new", "sent"} => n = 0
  /\ step \in {"select", "coded"} => n = 1 /\ out # "refused"
  /\ step = "coded" <=> code # "none"
  /\ out = "answered" => step = "coded"
  /\ step = "select" => r \in rows
  /\ r \in rows => step \in {"select", "coded"} /\ code \in {"none", "ok", "internal_error"}

\* Where a request can be.
PlaceOK(r) ==
  /\ Status(r) \in StatusOf(r)
  /\ Place(r, Step(r), outcome[r], runs[r], CodeOf(r), changed)
  /\ Before(r) \subseteq Over

PlaceInv == \A r \in Requests : PlaceOK(r)

\* What was over when one update began was so for the other, or the other way
\* round.
ChainInv ==
  \A q, r \in Requests :
    Before(q) \subseteq Before(r) \/ Before(r) \subseteq Before(q)

\* Updates are only sent by a user who is there.
PresentInv == users[Self] = NoUser => \A r \in Requests : Step(r) = "new"

\* The update has made, or found, the row what it asked for.
Effective(r) == Step(r) = "select" \/ CodeOf(r) \in {"ok", "not_found"}

\* w stands behind the row, as far as updates that were answered are concerned.
Behind(w) ==
  /\ Asked(w) = users[Self]
  /\ \A q \in Requests : Conclusive(q) => w \notin Before(q)

\* LatestUpdateWins in these terms.
Won ==
  users[Self] # NoUser =>
    \/ /\ users[Self] = SeedNickname(Self)
       /\ \A q \in Requests : ~ Conclusive(q)
    \/ \E r \in Requests : (r \in changed \/ Conclusive(r)) /\ Behind(r)

\* A statement that is still to come belongs to an update that was given up, and
\* asks for a nickname that the column takes.
LateInv ==
  \A r \in late :
    Step(r) = "coded" /\ CodeOf(r) = "internal_error" /\ Asked(r) \notin {Blank, Wide}

EffectiveInv ==
  \A r \in Requests :
    Effective(r) =>
      \E w \in Requests :
        /\ w \in changed \/ Conclusive(w) \/ w = r
        /\ Behind(w)
        /\ w \notin Before(r)

NickInv == PlaceInv /\ ChainInv /\ PresentInv /\ LateInv /\ EffectiveInv /\ Won

\* The inductive invariant.
IInv == TypeOK /\ SeedInv /\ NickInv

-----------------------------------------------------------------------------
(* The model's definitions in terms of the fields.                         *)

LEMMA OverStatus ==
  /\ Over = {q \in Requests : Status(q) \notin {Pending, 502} /\ q \notin late}
  /\ Over' = {q \in Requests : Status(q)' \notin {Pending, 502} /\ q \notin late'}
BY DEF Over, Status

LEMMA ConclusiveStatus ==
  ASSUME NEW q
  PROVE  /\ Conclusive(q) <=> Status(q) \in {200, 404}
         /\ Conclusive(q)' <=> Status(q)' \in {200, 404}
BY DEF Conclusive, Status

\* A request that a step leaves alone counts as before.
LEMMA SameEffect ==
  ASSUME NEW q, Same(q)
  PROVE  /\ Asked(q)' = Asked(q) /\ Before(q)' = Before(q)
         /\ Effective(q)' <=> Effective(q)
         /\ Conclusive(q)' <=> Conclusive(q)
BY ConclusiveStatus, SMTT(20) DEF Effective, Same

LEMMA WonWins == Won => LatestUpdateWins
BY DEF Won, LatestUpdateWins, Behind, Asked, Before

\* The types of the fields.
LEMMA FieldTypes ==
  ASSUME NicknameTypeOK, NEW r \in Requests
  PROVE  /\ Step(r) \in {"new", "sent", "select", "coded"}
         /\ Asked(r) \in Names \cup Ids \cup {Blank, Wide}
         /\ CodeOf(r) \in Codes
         /\ outcome[r] \in {"idle", "pending", "answered", "refused", "lost"}
BY DEF NicknameTypeOK, Locals, Step, Asked, CodeOf

\* How the actions write a request.
LEMMA RespondFields ==
  ASSUME NicknameTypeOK, NEW x \in Requests, NEW s, Respond(x, s)
  PROVE  /\ Status(x)' = s
         /\ Step(x)' = Step(x) /\ Asked(x)' = Asked(x)
         /\ CodeOf(x)' = CodeOf(x) /\ Before(x)' = Before(x)
         /\ \A q \in Requests : q # x => Same(q)
<1>1. req \in [Requests -> Locals] /\ req' = [req EXCEPT ![x] = [req[x] EXCEPT !.status = s]]
  BY DEF NicknameTypeOK, Respond
<1>2. req'[x] = [req[x] EXCEPT !.status = s] /\ req[x] \in Locals
  BY <1>1
<1>3. ASSUME NEW q \in Requests, q # x PROVE Same(q)
  BY <1>1, <1>3 DEF Same, Step, Asked, CodeOf, Status, Before
<1>. QED
  BY <1>2, <1>3 DEF Locals, Step, Asked, CodeOf, Status, Before

LEMMA CodeFields ==
  ASSUME NicknameTypeOK, NEW x \in Requests, NEW c, Code(x, c)
  PROVE  /\ Step(x)' = "coded" /\ CodeOf(x)' = c
         /\ Asked(x)' = Asked(x) /\ Status(x)' = Status(x) /\ Before(x)' = Before(x)
         /\ \A q \in Requests : q # x => Same(q)
<1>1. /\ req \in [Requests -> Locals]
      /\ req' = [req EXCEPT ![x] = [req[x] EXCEPT !.pc = "coded", !.code = c]]
  BY DEF NicknameTypeOK, Code
<1>2. req'[x] = [req[x] EXCEPT !.pc = "coded", !.code = c] /\ req[x] \in Locals
  BY <1>1
<1>3. ASSUME NEW q \in Requests, q # x PROVE Same(q)
  BY <1>1, <1>3 DEF Same, Step, Asked, CodeOf, Status, Before
<1>. QED
  BY <1>2, <1>3 DEF Locals, Step, Asked, CodeOf, Status, Before

LEMMA SendFields ==
  ASSUME NicknameTypeOK, NEW x \in Requests, Send(x)
  PROVE  /\ Step(x)' = "sent" /\ Before(x)' = Over
         /\ CodeOf(x)' = CodeOf(x) /\ Status(x)' = Status(x)
         /\ \A q \in Requests : q # x => Same(q)
<1>1. PICK n : req' = [req EXCEPT ![x] = [req[x] EXCEPT !.pc = "sent", !.ask = n, !.before = Over]]
  BY DEF Send
<1>2. req \in [Requests -> Locals]
  BY DEF NicknameTypeOK
<1>3. req'[x] = [req[x] EXCEPT !.pc = "sent", !.ask = n, !.before = Over] /\ req[x] \in Locals
  BY <1>1, <1>2
<1>4. ASSUME NEW q \in Requests, q # x PROVE Same(q)
  BY <1>1, <1>2, <1>4 DEF Same, Step, Asked, CodeOf, Status, Before
<1>. QED
  BY <1>3, <1>4 DEF Locals, Step, CodeOf, Status, Before

LEMMA SelectFields ==
  ASSUME NicknameTypeOK, NEW x \in Requests, req' = [req EXCEPT ![x].pc = "select"]
  PROVE  /\ Step(x)' = "select" /\ CodeOf(x)' = CodeOf(x)
         /\ Asked(x)' = Asked(x) /\ Status(x)' = Status(x) /\ Before(x)' = Before(x)
         /\ \A q \in Requests : q # x => Same(q)
<1>1. req \in [Requests -> Locals] /\ req' = [req EXCEPT ![x] = [req[x] EXCEPT !.pc = "select"]]
  BY DEF NicknameTypeOK
<1>2. req'[x] = [req[x] EXCEPT !.pc = "select"] /\ req[x] \in Locals
  BY <1>1
<1>3. ASSUME NEW q \in Requests, q # x PROVE Same(q)
  BY <1>1, <1>3 DEF Same, Step, Asked, CodeOf, Status, Before
<1>. QED
  BY <1>2, <1>3, SMTT(20) DEF Locals, Step, Asked, CodeOf, Status, Before

-----------------------------------------------------------------------------
(* The row and the updates that stand behind it.                           *)

\* Steps that neither touch the row nor answer an update that was carried out.
LEMMA RowQuiet ==
  ASSUME EffectiveInv, Won, UNCHANGED <<users, changed>>,
         \A q \in Requests :
           /\ Asked(q)' = Asked(q) /\ Before(q)' = Before(q)
           /\ Conclusive(q)' <=> Conclusive(q)
           /\ Effective(q)' => Effective(q)
  PROVE  EffectiveInv' /\ Won'
<1>1. \A w \in Requests : Behind(w)' <=> Behind(w)
  BY DEF Behind
<1>2. EffectiveInv'
  BY <1>1 DEF EffectiveInv
<1>3. Won'
  BY <1>1 DEF Won, SeedNickname
<1>. QED
  BY <1>2, <1>3

\* An update is sent.
LEMMA RowSend ==
  ASSUME EffectiveInv, Won, UNCHANGED <<users, changed>>, NEW x \in Requests,
         x \notin changed, ~ Conclusive(x), ~ Effective(x), ~ Effective(x)', ~ Conclusive(x)',
         \A q \in Requests : q # x => Same(q)
  PROVE  EffectiveInv' /\ Won'
<1>0. \A q \in Requests :
        /\ Conclusive(q)' <=> Conclusive(q)
        /\ Effective(q)' <=> Effective(q)
        /\ Conclusive(q) \/ Effective(q) => q # x
  BY ConclusiveStatus, SMTT(20) DEF Effective, Same
<1>1. \A q \in Requests : q # x => Asked(q)' = Asked(q) /\ Before(q)' = Before(q)
  BY DEF Same
<1>2. \A w \in Requests : w # x => (Behind(w)' <=> Behind(w))
  BY <1>0, <1>1 DEF Behind
<1>3. EffectiveInv'
  BY <1>0, <1>1, <1>2 DEF EffectiveInv
<1>4. Won'
  BY <1>0, <1>2 DEF Won
<1>. QED
  BY <1>3, <1>4

\* An update changes the row.
LEMMA RowChange ==
  ASSUME EffectiveInv, Won, NEW x \in Requests,
         users'[Self] = Asked(x), changed' = changed \cup {x},
         \A q \in Requests :
           /\ Asked(q)' = Asked(q) /\ Before(q)' = Before(q)
           /\ Conclusive(q)' <=> Conclusive(q)
           /\ x \notin Before(q)
  PROVE  EffectiveInv' /\ Won'
<1>1. Behind(x)' /\ x \in changed'
  BY DEF Behind
<1>2. EffectiveInv'
  BY <1>1 DEF EffectiveInv
<1>3. Won'
  BY <1>1 DEF Won, Behind
<1>. QED
  BY <1>2, <1>3

\* An update finds the row as it would make it.
LEMMA RowFound ==
  ASSUME EffectiveInv, Won, UNCHANGED <<users, changed>>, NEW x \in Requests,
         users[Self] = Asked(x),
         \A q \in Requests :
           /\ Asked(q)' = Asked(q) /\ Before(q)' = Before(q)
           /\ Conclusive(q)' <=> Conclusive(q)
           /\ x \notin Before(q)
           /\ q # x => (Effective(q)' <=> Effective(q))
  PROVE  EffectiveInv' /\ Won'
<1>1. \A w \in Requests : Behind(w)' <=> Behind(w)
  BY DEF Behind
<1>2. Behind(x)'
  BY DEF Behind
<1>3. EffectiveInv'
  BY <1>1, <1>2 DEF EffectiveInv
<1>4. Won'
  BY <1>1 DEF Won, SeedNickname
<1>. QED
  BY <1>3, <1>4

\* An update that was carried out is answered.
LEMMA RowAnswer ==
  ASSUME EffectiveInv, Won, ChainInv, UNCHANGED <<users, changed>>,
         NEW x \in Requests, Effective(x), Conclusive(x)',
         \A q \in Requests :
           /\ Asked(q)' = Asked(q) /\ Before(q)' = Before(q)
           /\ Effective(q)' <=> Effective(q)
           /\ q # x => (Conclusive(q)' <=> Conclusive(q))
  PROVE  EffectiveInv' /\ Won'
<1>1. PICK wx \in Requests :
        /\ wx \in changed \/ Conclusive(wx) \/ wx = x
        /\ Behind(wx) /\ wx \notin Before(x)
  BY DEF EffectiveInv
<1>2. \A w \in Requests : Behind(w) /\ w \notin Before(x) => Behind(w)'
  BY DEF Behind
<1>3. wx \in changed' \/ Conclusive(wx)'
  BY <1>1
<1>4. Won'
  BY <1>1, <1>2, <1>3 DEF Won, Behind
<1>5. ASSUME NEW r \in Requests, Effective(r)
      PROVE  \E w \in Requests : /\ w \in changed' \/ Conclusive(w)' \/ w = r
                                 /\ Behind(w)' /\ w \notin Before(r)'
  <2>1. CASE Before(x) \subseteq Before(r)
    <3>1. PICK w \in Requests :
            /\ w \in changed \/ Conclusive(w) \/ w = r
            /\ Behind(w) /\ w \notin Before(r)
      BY <1>5 DEF EffectiveInv
    <3>2. Behind(w)' /\ w \notin Before(r)'
      BY <1>2, <2>1, <3>1
    <3>. QED
      BY <3>1, <3>2
  <2>2. CASE Before(r) \subseteq Before(x)
    BY <1>1, <1>2, <1>3, <2>2
  <2>. QED
    BY <2>1, <2>2 DEF ChainInv
<1>6. EffectiveInv'
  BY <1>5 DEF EffectiveInv
<1>. QED
  BY <1>4, <1>6

-----------------------------------------------------------------------------
(* Requests.                                                               *)

\* A step of the request x.
NicknameStep(x) ==
  \/ Reject(x) \/ Send(x) \/ Answered(x) \/ Busy(x) \/ Unavailable(x)
  \/ Unauthorized(x) \/ Invalid(x) \/ UpdateNickname(x) \/ UpdateFails(x)
  \/ UpdateLate(x) \/ SelectProfile(x)

\* What a step of x may write.
CallWrites(x) ==
  \/ UNCHANGED <<outcome, runs>>
  \/ Call!Start(x) \/ Call!Answer(x) \/ Call!Refuse(x) \/ Call!Lose(x) \/ Call!Execute(x)
RequestWrites(x) ==
  \/ Send(x)
  \/ \E s : Respond(x, s)
  \/ \E c : Code(x, c)
  \/ req' = [req EXCEPT ![x].pc = "select"]
  \/ UNCHANGED req
RowWrites(x) ==
  \/ UNCHANGED <<users, changed>>
  \/ /\ users' = UpdatedNickname(Self, req[x].ask)
     /\ req[x].ask \notin {Blank, Wide} \/ x \in late
     /\ changed' = changed \cup {x}
LateWrites(x) ==
  \/ UNCHANGED late
  \/ late' = late \ {x}
  \/ late' = late \cup {x} /\ outcome[x] \in {"pending", "lost"}
FaultWrites == UNCHANGED updateFaults \/ UpdateFault

LEMMA StepWrites ==
  ASSUME NEW x \in Requests, NicknameStep(x)
  PROVE  CallWrites(x) /\ RequestWrites(x) /\ RowWrites(x) /\ LateWrites(x) /\ FaultWrites
<1>. USE DEF CallWrites, RequestWrites, RowWrites, LateWrites, FaultWrites
<1>1. CASE Reject(x) BY <1>1 DEF Reject
<1>2. CASE Send(x) BY <1>2 DEF Send
<1>3. CASE Answered(x) BY <1>3 DEF Answered
<1>4. CASE Busy(x) BY <1>4 DEF Busy
<1>5. CASE Unavailable(x) BY <1>5 DEF Unavailable
<1>6. CASE Unauthorized(x) BY <1>6 DEF Unauthorized
<1>7. CASE Invalid(x) BY <1>7 DEF Invalid
<1>8. CASE UpdateNickname(x) BY <1>8 DEF UpdateNickname
<1>9. CASE UpdateFails(x) BY <1>9 DEF UpdateFails, Call!Execute
<1>10. CASE SelectProfile(x) BY <1>10 DEF SelectProfile
<1>11. CASE UpdateLate(x) BY <1>11 DEF UpdateLate
<1>. QED
  BY <1>1, <1>2, <1>3, <1>4, <1>5, <1>6, <1>7, <1>8, <1>9, <1>10, <1>11 DEF NicknameStep

\* The backend's executions of x.
LEMMA CallKept ==
  ASSUME NicknameTypeOK, NEW x \in Requests, CallWrites(x)
  PROVE  /\ outcome' \in [Requests -> {"idle", "pending", "answered", "refused", "lost"}]
         /\ runs' \in [Requests -> 0 .. 1]
         /\ \A q \in Requests : q # x => outcome'[q] = outcome[q] /\ runs'[q] = runs[q]
<1>1. /\ outcome \in [Requests -> {"idle", "pending", "answered", "refused", "lost"}]
      /\ runs \in [Requests -> 0 .. 1]
  BY DEF NicknameTypeOK
<1>2. \/ UNCHANGED <<outcome, runs>>
      \/ /\ UNCHANGED runs
         /\ \E v \in {"pending", "answered", "refused", "lost"} : outcome' = [outcome EXCEPT ![x] = v]
      \/ /\ UNCHANGED outcome
         /\ runs[x] = 0 /\ runs' = [runs EXCEPT ![x] = runs[x] + 1]
  BY SMTT(20) DEF CallWrites, Call!Start, Call!Answer, Call!Refuse, Call!Lose, Call!Execute
<1>3. CASE UNCHANGED outcome
  BY <1>1, <1>2, <1>3, SMTT(20)
<1>4. CASE UNCHANGED runs
  BY <1>1, <1>2, <1>4
<1>. QED
  BY <1>2, <1>3, <1>4

\* A request's step leaves the others alone.
LEMMA OthersKept ==
  ASSUME NicknameTypeOK, NEW x \in Requests, NicknameStep(x), NEW q \in Requests, q # x
  PROVE  /\ Same(q) /\ outcome'[q] = outcome[q] /\ runs'[q] = runs[q]
         /\ (q \in changed)' <=> q \in changed
         /\ (q \in late)' <=> q \in late
<1>1. Same(q)
  <2>1. CASE Send(x) BY <2>1, SendFields
  <2>2. CASE \E s : Respond(x, s) BY <2>2, RespondFields
  <2>3. CASE \E c : Code(x, c) BY <2>3, CodeFields
  <2>4. CASE req' = [req EXCEPT ![x].pc = "select"] BY <2>4, SelectFields
  <2>5. CASE UNCHANGED req BY <2>5 DEF Same, Step, Asked, CodeOf, Status, Before
  <2>. QED
    BY <2>1, <2>2, <2>3, <2>4, <2>5, StepWrites DEF RequestWrites
<1>2. outcome'[q] = outcome[q] /\ runs'[q] = runs[q]
  BY StepWrites, CallKept
<1>3. (q \in changed)' <=> q \in changed
  BY StepWrites, SMTT(20) DEF RowWrites
<1>4. (q \in late)' <=> q \in late
  BY StepWrites, SMTT(20) DEF LateWrites
<1>. QED
  BY <1>1, <1>2, <1>3, <1>4

\* What is over stays over.
LEMMA OverGrows ==
  ASSUME NicknameTypeOK, NEW x \in Requests, NicknameStep(x), PlaceOK(x),
         Status(x)' = Status(x) \/ Status(x) = Pending
  PROVE  /\ Over \subseteq Over'
         /\ /\ Status(x)' = Status(x)
            /\ UNCHANGED late \/ Status(x) \in {Pending, 502}
            => Over' = Over
         /\ Status(x) \in {Pending, 502} \/ x \in late => x \notin Over
<1>1. \A q \in Requests : q # x => Status(q)' = Status(q) /\ (q \in late' <=> q \in late)
  BY OthersKept DEF Same
<1>2. x \in late' => x \in late \/ Status(x) \in {Pending, 502}
  <2>1. outcome[x] \in {"pending", "lost"} => Status(x) \in {Pending, 502}
    BY SMTT(20), ZenonT(40) DEF PlaceOK, StatusOf
  <2>. QED
    BY <2>1, StepWrites DEF LateWrites
<1>. QED
  BY <1>1, <1>2, OverStatus, SMTT(20)

\* A request that a step leaves alone keeps its place.
LEMMA PlaceKept ==
  ASSUME NEW q, PlaceOK(q), Same(q), outcome'[q] = outcome[q], runs'[q] = runs[q],
         (q \in changed)' <=> q \in changed, Over \subseteq Over'
  PROVE  PlaceOK(q)'
<1>1. StatusOf(q)' = StatusOf(q)
  BY DEF StatusOf, Same
<1>2. Place(q, Step(q), outcome[q], runs[q], CodeOf(q), changed)
        => Place(q, Step(q), outcome[q], runs[q], CodeOf(q), changed')
  BY DEF Place
<1>. QED
  BY <1>1, <1>2 DEF PlaceOK, Same

\* The others stay where they are.
LEMMA PlacesKept ==
  ASSUME NicknameTypeOK, PlaceInv, ChainInv, NEW x \in Requests, NicknameStep(x),
         Status(x)' = Status(x) \/ Status(x) = Pending,
         Before(x)' \in {Before(x), Over},
         PlaceOK(x)'
  PROVE  PlaceInv' /\ ChainInv'
<1>1. Over \subseteq Over'
  BY OverGrows DEF PlaceInv
<1>2. ASSUME NEW q \in Requests, q # x PROVE PlaceOK(q)'
  BY <1>1, <1>2, OthersKept, PlaceKept DEF PlaceInv
<1>3. PlaceInv'
  BY <1>2 DEF PlaceInv
<1>4. ChainInv'
  <2>1. \A q \in Requests : Before(q) \subseteq Over
    BY DEF PlaceInv, PlaceOK
  <2>2. \A q \in Requests : q # x => Before(q)' = Before(q)
    BY OthersKept DEF Same
  <2>. QED
    BY <2>1, <2>2, SMTT(20) DEF ChainInv
<1>. QED
  BY <1>3, <1>4

\* Only a statement that fails is left for later.
LEMMA LateKept ==
  ASSUME NicknameTypeOK, NickInv, NEW x \in Requests, NicknameStep(x)
  PROVE  LateInv'
<1>. USE DEF NickInv
<1>1. ASSUME NEW q \in late', q # x
      PROVE  Step(q)' = "coded" /\ CodeOf(q)' = "internal_error" /\ Asked(q)' \notin {Blank, Wide}
  <2>1. q \in Requests
    BY StepWrites, SMTT(20) DEF LateWrites, NicknameTypeOK
  <2>. QED
    BY <1>1, <2>1, OthersKept DEF LateInv, Same
<1>2. ASSUME x \in late', x \in late
      PROVE  Step(x)' = "coded" /\ CodeOf(x)' = "internal_error" /\ Asked(x)' \notin {Blank, Wide}
  <2>1. Step(x) = "coded" /\ CodeOf(x) = "internal_error" /\ Asked(x) \notin {Blank, Wide}
    BY <1>2 DEF LateInv
  <2>2. outcome[x] # "idle"
    BY <2>1 DEF PlaceInv, PlaceOK, Place
  <2>3. ~ Send(x) /\ ~ Unauthorized(x) /\ ~ Invalid(x) /\ ~ UpdateNickname(x)
        /\ ~ UpdateFails(x) /\ ~ SelectProfile(x)
    BY <2>1, <2>2
    DEF Send, Call!Start, Unauthorized, Invalid, UpdateNickname, UpdateFails, SelectProfile, Step
  <2>4. CASE UpdateLate(x)
    BY <1>2, <2>4 DEF UpdateLate
  <2>5. CASE \E t : Respond(x, t)
    BY <2>1, <2>5, RespondFields
  <2>. QED
    BY <2>3, <2>4, <2>5 DEF NicknameStep, Reject, Answered, Busy, Unavailable
<1>3. ASSUME x \in late', x \notin late
      PROVE  Step(x)' = "coded" /\ CodeOf(x)' = "internal_error" /\ Asked(x)' \notin {Blank, Wide}
  <2>1. UpdateFails(x)
    BY <1>3 DEF NicknameStep, Reject, Send, Answered, Busy, Unavailable, Unauthorized, Invalid,
                UpdateNickname, UpdateLate, SelectProfile
  <2>2. Code(x, "internal_error") /\ Asked(x) \notin {Blank, Wide}
    BY <2>1 DEF UpdateFails, Asked
  <2>. QED
    BY <2>2, CodeFields
<1>. QED
  BY <1>1, <1>2, <1>3 DEF LateInv

\* The gateway answers without a call.
LEMMA RejectKeeps ==
  ASSUME NicknameTypeOK, NickInv, NEW x \in Requests, Reject(x)
  PROVE  NickInv'
<1>. USE DEF NickInv
<1>1. /\ UNCHANGED <<users, outcome, runs, changed>>
      /\ outcome[x] = "idle" /\ Status(x) = Pending /\ Status(x)' \in {400, 401}
      /\ Step(x)' = Step(x) /\ CodeOf(x)' = CodeOf(x)
      /\ Asked(x)' = Asked(x) /\ Before(x)' = Before(x)
  <2>1. UNCHANGED <<users, outcome, runs, changed>> /\ outcome[x] = "idle" /\ Status(x) = Pending
    BY DEF Reject, Status
  <2>2. PICK s \in {400, 401} : Respond(x, s)
    BY DEF Reject
  <2>. QED
    BY <2>1, <2>2, RespondFields, SMTT(20)
<1>0. NicknameStep(x)
  BY DEF NicknameStep
<1>2. \A q \in Requests : q # x => Same(q)
  BY <1>0, OthersKept
<1>3. PlaceOK(x)
  BY DEF PlaceInv
<1>4. Over \subseteq Over'
  BY <1>0, <1>1, <1>3, OverGrows
<1>5. PlaceOK(x)'
  <2>1. Status(x)' \in StatusOf(x)'
    BY <1>1 DEF StatusOf
  <2>. QED
    BY <1>1, <1>3, <1>4, <2>1, SMTT(20), ZenonT(40) DEF PlaceOK
<1>6. PlaceInv' /\ ChainInv'
  BY <1>0, <1>1, <1>5, PlacesKept
<1>7. PresentInv'
  BY <1>1, <1>2, SMTT(20) DEF PresentInv, Same
<1>8. \A q \in Requests :
        /\ Asked(q)' = Asked(q) /\ Before(q)' = Before(q)
        /\ Conclusive(q)' <=> Conclusive(q)
        /\ Effective(q)' <=> Effective(q)
  BY <1>1, <1>2, ConclusiveStatus, SMTT(20) DEF Effective, Pending, Same
<1>9. EffectiveInv' /\ Won'
  BY <1>1, <1>8, RowQuiet
<1>. QED
  BY <1>0, <1>6, <1>7, <1>9, LateKept

\* An update goes out.
LEMMA SendKeeps ==
  ASSUME NicknameTypeOK, NickInv, NEW x \in Requests, Send(x)
  PROVE  NickInv'
<1>. USE DEF NickInv
<1>1. /\ UNCHANGED <<users, changed>> /\ users[Self] # NoUser
      /\ outcome[x] = "idle" /\ outcome'[x] = "pending" /\ runs'[x] = runs[x]
      /\ Status(x) = Pending /\ Status(x)' = Pending /\ Step(x)' = "sent"
      /\ CodeOf(x)' = CodeOf(x) /\ Before(x)' = Over
  <2>1. /\ UNCHANGED <<users, changed>> /\ users[Self] # NoUser
        /\ outcome[x] = "idle" /\ outcome'[x] = "pending" /\ runs'[x] = runs[x]
        /\ Status(x) = Pending
    BY DEF Send, Call!Start, NicknameTypeOK, Status
  <2>. QED
    BY <2>1, SendFields
<1>0. NicknameStep(x)
  BY DEF NicknameStep
<1>2. \A q \in Requests : q # x => Same(q)
  BY <1>0, OthersKept
<1>3. Step(x) = "new" /\ CodeOf(x) = "none" /\ x \notin changed /\ runs[x] = 0
  <2>1. Place(x, Step(x), "idle", runs[x], CodeOf(x), changed)
    BY <1>1 DEF PlaceInv, PlaceOK
  <2>. QED
    BY <2>1 DEF Place
<1>4. Over' = Over
  <2>1. PlaceOK(x)
    BY DEF PlaceInv
  <2>. QED
    BY <1>0, <1>1, <2>1, OverGrows
<1>5. PlaceOK(x)'
  <2>1. Status(x)' \in StatusOf(x)'
    BY <1>1 DEF StatusOf
  <2>2. Place(x, "sent", "pending", 0, "none", changed)
    BY <1>3 DEF Place
  <2>. QED
    BY <1>1, <1>3, <1>4, <2>1, <2>2 DEF PlaceOK
<1>6. PlaceInv' /\ ChainInv'
  BY <1>0, <1>1, <1>5, PlacesKept
<1>7. PresentInv'
  BY <1>1 DEF PresentInv
<1>8. x \notin changed /\ ~ Conclusive(x) /\ ~ Effective(x) /\ ~ Effective(x)' /\ ~ Conclusive(x)'
  BY <1>1, <1>3, ConclusiveStatus, SMTT(20) DEF Effective, Pending
<1>9. EffectiveInv' /\ Won'
  BY <1>1, <1>2, <1>8, RowSend
<1>. QED
  BY <1>0, <1>6, <1>7, <1>9, LateKept

\* The gateway passes on the backend's answer.
LEMMA AnsweredKeeps ==
  ASSUME NicknameTypeOK, NickInv, NEW x \in Requests, Answered(x)
  PROVE  NickInv'
<1>. USE DEF NickInv
<1>1. /\ UNCHANGED <<users, changed>>
      /\ Step(x) = "coded" /\ outcome[x] = "pending" /\ outcome'[x] = "answered"
      /\ runs'[x] = runs[x] /\ Step(x)' = Step(x) /\ CodeOf(x)' = CodeOf(x)
      /\ Status(x)' = IF CodeOf(x) = "ok" THEN 200 ELSE StatusFor(CodeOf(x))
      /\ Asked(x)' = Asked(x) /\ Before(x)' = Before(x)
  <2>1. /\ UNCHANGED <<users, changed>>
        /\ Step(x) = "coded" /\ outcome[x] = "pending" /\ outcome'[x] = "answered"
        /\ runs'[x] = runs[x]
    BY DEF Answered, Call!Answer, NicknameTypeOK, Step
  <2>2. Respond(x, IF CodeOf(x) = "ok" THEN 200 ELSE StatusFor(CodeOf(x)))
    BY DEF Answered, CodeOf
  <2>. QED
    BY <2>1, <2>2, RespondFields
<1>0. NicknameStep(x)
  BY DEF NicknameStep
<1>2. \A q \in Requests : q # x => Same(q)
  BY <1>0, OthersKept
<1>3. PlaceOK(x) /\ Status(x) = Pending /\ CodeOf(x) # "none"
  <2>1. PlaceOK(x)
    BY DEF PlaceInv
  <2>2. Status(x) = Pending
    BY <1>1, <2>1 DEF PlaceOK, StatusOf
  <2>. QED
    BY <1>1, <2>1, <2>2 DEF PlaceOK, Place
<1>4. Over \subseteq Over'
  BY <1>0, <1>1, <1>3, OverGrows
<1>5. PlaceOK(x)'
  <2>1. Status(x)' \in StatusOf(x)'
    BY <1>1, SMTT(20), ZenonT(40) DEF StatusOf
  <2>2. Place(x, "coded", "pending", runs[x], CodeOf(x), changed)
    BY <1>1, <1>3 DEF PlaceOK
  <2>3. Place(x, "coded", "answered", runs[x], CodeOf(x), changed)
    BY <2>2 DEF Place
  <2>. QED
    BY <1>1, <1>3, <1>4, <2>1, <2>3 DEF PlaceOK
<1>6. PlaceInv' /\ ChainInv'
  BY <1>0, <1>1, <1>3, <1>5, PlacesKept
<1>7. PresentInv'
  BY <1>1, <1>2 DEF PresentInv, Same
<1>8. \A q \in Requests :
        /\ Asked(q)' = Asked(q) /\ Before(q)' = Before(q)
        /\ Effective(q)' <=> Effective(q)
        /\ q # x => (Conclusive(q)' <=> Conclusive(q))
  <2>1. Effective(x)' <=> Effective(x)
    BY <1>1 DEF Effective
  <2>2. Asked(x)' = Asked(x) /\ Before(x)' = Before(x)
    BY <1>1
  <2>3. \A q \in Requests : q # x => /\ Asked(q)' = Asked(q) /\ Before(q)' = Before(q)
                                     /\ Effective(q)' <=> Effective(q)
                                     /\ Conclusive(q)' <=> Conclusive(q)
    BY <1>2, SameEffect
  <2>. QED
    BY <2>1, <2>2, <2>3
<1>9. ~ Conclusive(x) /\ (Conclusive(x)' <=> Effective(x))
  <2>1. CodeOf(x) \in Codes \ {"none"}
    BY <1>3, FieldTypes
  <2>2. Status(x)' \in {200, 404} <=> CodeOf(x) \in {"ok", "not_found"}
    BY <1>1, <2>1, SMTT(20) DEF StatusFor, Codes
  <2>. QED
    BY <1>1, <1>3, <2>2, ConclusiveStatus, SMTT(20) DEF Effective, Pending
<1>10. EffectiveInv' /\ Won'
  <2>1. CASE Effective(x)
    BY <1>1, <1>8, <1>9, <2>1, RowAnswer
  <2>2. CASE ~ Effective(x)
    BY <1>1, <1>8, <1>9, <2>2, RowQuiet
  <2>. QED
    BY <2>1, <2>2
<1>. QED
  BY <1>0, <1>6, <1>7, <1>10, LateKept

\* The call is turned away, or its outcome is unknown.
LEMMA UnansweredKeeps ==
  ASSUME NicknameTypeOK, NickInv, NEW x \in Requests, Busy(x) \/ Unavailable(x)
  PROVE  NickInv'
<1>. USE DEF NickInv
<1>1. /\ UNCHANGED <<users, runs, changed>>
      /\ \/ outcome[x] = "pending" /\ runs[x] = 0 /\ outcome'[x] = "refused" /\ Status(x)' = 429
         \/ outcome'[x] = "lost" /\ Status(x)' = 502 /\ Status(x) = Pending
      /\ Step(x)' = Step(x) /\ CodeOf(x)' = CodeOf(x)
      /\ Asked(x)' = Asked(x) /\ Before(x)' = Before(x)
      /\ outcome[x] \in {"idle", "pending"}
  <2>1. CASE Busy(x)
    <3>1. /\ UNCHANGED <<users, runs, changed>>
          /\ outcome[x] = "pending" /\ runs[x] = 0 /\ outcome'[x] = "refused"
      BY <2>1 DEF Busy, Call!Refuse, NicknameTypeOK
    <3>2. Respond(x, 429)
      BY <2>1 DEF Busy, StatusFor
    <3>3. /\ Status(x)' = 429
          /\ Step(x)' = Step(x) /\ CodeOf(x)' = CodeOf(x)
          /\ Asked(x)' = Asked(x) /\ Before(x)' = Before(x)
      BY <3>2, RespondFields, SMTT(20), ZenonT(40)
    <3>. QED
      BY <3>1, <3>3
  <2>2. CASE Unavailable(x)
    <3>1. /\ UNCHANGED <<users, runs, changed>> /\ outcome[x] \in {"idle", "pending"}
          /\ outcome'[x] = "lost" /\ Status(x) = Pending /\ Respond(x, 502)
      BY <2>2 DEF Unavailable, Call!Lose, NicknameTypeOK, Status
    <3>2. /\ Status(x)' = 502
          /\ Step(x)' = Step(x) /\ CodeOf(x)' = CodeOf(x)
          /\ Asked(x)' = Asked(x) /\ Before(x)' = Before(x)
      BY <3>1, RespondFields, SMTT(20), ZenonT(40)
    <3>. QED
      BY <3>1, <3>2
  <2>. QED
    BY <2>1, <2>2
<1>0. NicknameStep(x)
  BY DEF NicknameStep
<1>2. \A q \in Requests : q # x => Same(q)
  BY <1>0, OthersKept
<1>3. PlaceOK(x) /\ Status(x) = Pending
  <2>1. PlaceOK(x)
    BY DEF PlaceInv
  <2>. QED
    BY <1>1, <2>1 DEF PlaceOK, StatusOf
<1>4. Over \subseteq Over'
  BY <1>0, <1>3, OverGrows
<1>5. PlaceOK(x)'
  <2>0. \/ outcome'[x] = "refused" /\ Status(x)' = 429 /\ outcome[x] = "pending" /\ runs[x] = 0
        \/ outcome'[x] = "lost" /\ Status(x)' = 502
    BY <1>1
  <2>1. Status(x)' \in StatusOf(x)'
    BY <2>0 DEF StatusOf
  <2>2. Place(x, Step(x), outcome[x], runs[x], CodeOf(x), changed)
    BY <1>3 DEF PlaceOK
  <2>3. Place(x, Step(x), outcome'[x], runs[x], CodeOf(x), changed)
    BY <2>0, <2>2, SMTT(20) DEF Place
  <2>4. Step(x)' = Step(x) /\ CodeOf(x)' = CodeOf(x) /\ Before(x)' = Before(x)
        /\ UNCHANGED <<runs, changed>>
    BY <1>1
  <2>. QED
    BY <1>3, <1>4, <2>1, <2>3, <2>4 DEF PlaceOK
<1>6. PlaceInv' /\ ChainInv'
  BY <1>0, <1>1, <1>3, <1>5, PlacesKept
<1>7. PresentInv'
  BY <1>1, <1>2, SMTT(20) DEF PresentInv, Same
<1>8. \A q \in Requests :
        /\ Asked(q)' = Asked(q) /\ Before(q)' = Before(q)
        /\ Conclusive(q)' <=> Conclusive(q)
        /\ Effective(q)' <=> Effective(q)
  <2>1. Effective(x)' <=> Effective(x)
    BY <1>1, SMTT(20) DEF Effective
  <2>2. Conclusive(x)' <=> Conclusive(x)
    BY <1>1, <1>3, ConclusiveStatus, SMTT(20) DEF Pending
  <2>3. Asked(x)' = Asked(x) /\ Before(x)' = Before(x)
    BY <1>1
  <2>4. \A q \in Requests : q # x => /\ Asked(q)' = Asked(q) /\ Before(q)' = Before(q)
                                     /\ Effective(q)' <=> Effective(q)
                                     /\ Conclusive(q)' <=> Conclusive(q)
    BY <1>2, SameEffect
  <2>. QED
    BY <2>1, <2>2, <2>3, <2>4
<1>9. EffectiveInv' /\ Won'
  <2>1. UNCHANGED <<users, changed>>
    BY <1>1
  <2>. QED
    BY <1>8, <2>1, RowQuiet
<1>. QED
  BY <1>0, <1>6, <1>7, <1>9, LateKept

\* The backend begins, and possibly ends, the execution of x.
Begins(x) ==
  /\ Step(x) = "sent" /\ runs[x] = 0 /\ outcome[x] \in {"pending", "lost"}
  /\ runs'[x] = 1 /\ outcome' = outcome
Executes(x) ==
  /\ Begins(x)
  /\ Status(x)' = Status(x) /\ Asked(x)' = Asked(x)
  /\ Before(x)' = Before(x)

\* A request that begins to be executed is not over, for anybody.
LEMMA ExecutedNotOver ==
  ASSUME NicknameTypeOK, NickInv, NEW x \in Requests, NicknameStep(x), Executes(x)
  PROVE  /\ PlaceOK(x) /\ Status(x) \in {Pending, 502}
         /\ x \notin changed /\ CodeOf(x) = "none" /\ users[Self] # NoUser
         /\ \A q \in Requests :
              /\ x \notin Before(q)
              /\ Asked(q)' = Asked(q) /\ Before(q)' = Before(q)
              /\ Conclusive(q)' <=> Conclusive(q)
              /\ q # x => (Effective(q)' <=> Effective(q))
         /\ Over' = Over
<1>. USE DEF NickInv
<1>1. PlaceOK(x)
  BY DEF PlaceInv
<1>2. Status(x) \in {Pending, 502}
  BY <1>1, SMTT(20), ZenonT(40) DEF PlaceOK, StatusOf, Executes, Begins
<1>3. x \notin changed /\ CodeOf(x) = "none" /\ users[Self] # NoUser
  BY <1>1 DEF PlaceOK, Place, Executes, Begins, PresentInv
<1>4. \A q \in Requests : q # x => Same(q)
  BY OthersKept
<1>5. Over' = Over /\ x \notin Over
  BY <1>1, <1>2, OverGrows DEF Executes
<1>6. \A q \in Requests : x \notin Before(q)
  BY <1>5 DEF PlaceInv, PlaceOK
<1>7. \A q \in Requests :
        /\ Asked(q)' = Asked(q) /\ Before(q)' = Before(q)
        /\ Conclusive(q)' <=> Conclusive(q)
        /\ q # x => (Effective(q)' <=> Effective(q))
  BY <1>4, ConclusiveStatus, SMTT(20) DEF Executes, Effective, Same
<1>. QED
  BY <1>1, <1>2, <1>3, <1>5, <1>6, <1>7, SMTT(20)

\* The places after a step of the backend.
LEMMA ExecutedPlaces ==
  ASSUME NicknameTypeOK, NickInv, NEW x \in Requests, NicknameStep(x), Executes(x),
         \/ Step(x)' = "select" /\ CodeOf(x)' = "none" /\ x \in changed'
         \/ /\ Step(x)' = "coded" /\ CodeOf(x)' # "none"
            /\ x \in changed' => CodeOf(x)' = "internal_error",
         users'[Self] = NoUser => users[Self] = NoUser
  PROVE  PlaceInv' /\ ChainInv' /\ PresentInv'
<1>1. PlaceOK(x) /\ Over' = Over /\ users[Self] # NoUser
  BY ExecutedNotOver, SMTT(20), ZenonT(40)
<1>2. PlaceOK(x)'
  <2>1. StatusOf(x)' = StatusOf(x)
    BY SMTT(20), ZenonT(40) DEF StatusOf, Executes, Begins
  <2>2. runs'[x] = 1 /\ outcome'[x] \in {"pending", "lost"}
    BY DEF Executes, Begins
  <2>3. Status(x)' \in StatusOf(x)' /\ Before(x)' \subseteq Over'
    BY <1>1, <2>1 DEF PlaceOK, Executes
  <2>4. Place(x, Step(x)', outcome'[x], 1, CodeOf(x)', changed')
    BY <2>2 DEF Place
  <2>. QED
    BY <2>2, <2>3, <2>4 DEF PlaceOK
<1>3. PlaceInv' /\ ChainInv'
  BY <1>2, PlacesKept DEF Executes, NickInv
<1>4. PresentInv'
  BY <1>1 DEF PresentInv
<1>. QED
  BY <1>3, <1>4

\* The update is refused, or fails without an effect.
LEMMA RefusalKeeps ==
  ASSUME NicknameTypeOK, NickInv, NEW x \in Requests, NicknameStep(x), Executes(x),
         UNCHANGED <<users, changed>>, Step(x)' = "coded",
         CodeOf(x)' \in {"unauthorized", "invalid_nickname", "internal_error"}
  PROVE  NickInv'
<1>1. /\ x \notin changed
      /\ \A q \in Requests :
           /\ Asked(q)' = Asked(q) /\ Before(q)' = Before(q)
           /\ Conclusive(q)' <=> Conclusive(q)
           /\ q # x => (Effective(q)' <=> Effective(q))
  BY ExecutedNotOver, SMTT(20)
<1>2. ~ Effective(x)'
  BY DEF Effective
<1>3. EffectiveInv' /\ Won'
  BY <1>1, <1>2, RowQuiet DEF NickInv
<1>4. PlaceInv' /\ ChainInv' /\ PresentInv'
  BY <1>1, ExecutedPlaces
<1>. QED
  BY <1>3, <1>4, LateKept DEF NickInv

\* The UPDATE changes the row; its answer may be lost.
LEMMA ChangeKeeps ==
  ASSUME NicknameTypeOK, NickInv, NEW x \in Requests, NicknameStep(x), Executes(x),
         users'[Self] = Asked(x), Asked(x) # NoUser, changed' = changed \cup {x},
         \/ Step(x)' = "select" /\ CodeOf(x)' = "none"
         \/ Step(x)' = "coded" /\ CodeOf(x)' = "internal_error"
  PROVE  NickInv'
<1>1. \A q \in Requests :
        /\ Asked(q)' = Asked(q) /\ Before(q)' = Before(q)
        /\ Conclusive(q)' <=> Conclusive(q)
        /\ x \notin Before(q)
  BY ExecutedNotOver, SMTT(20)
<1>2. EffectiveInv' /\ Won'
  BY <1>1, RowChange DEF NickInv
<1>3. PlaceInv' /\ ChainInv' /\ PresentInv'
  BY ExecutedPlaces
<1>. QED
  BY <1>2, <1>3, LateKept DEF NickInv

\* The UPDATE affects no row.
LEMMA FoundKeeps ==
  ASSUME NicknameTypeOK, NickInv, NEW x \in Requests, NicknameStep(x), Executes(x),
         ~ Affected(Self, Asked(x)), UNCHANGED <<users, changed>>,
         Step(x)' = "coded", CodeOf(x)' = "not_found"
  PROVE  NickInv'
<1>1. /\ x \notin changed /\ users[Self] # NoUser
      /\ \A q \in Requests :
           /\ Asked(q)' = Asked(q) /\ Before(q)' = Before(q)
           /\ Conclusive(q)' <=> Conclusive(q)
           /\ x \notin Before(q)
           /\ q # x => (Effective(q)' <=> Effective(q))
  BY ExecutedNotOver, SMTT(20)
<1>2. users[Self] = Asked(x)
  BY <1>1 DEF Affected
<1>3. EffectiveInv' /\ Won'
  BY <1>1, <1>2, RowFound DEF NickInv
<1>4. PlaceInv' /\ ChainInv' /\ PresentInv'
  BY <1>1, ExecutedPlaces
<1>. QED
  BY <1>3, <1>4, LateKept DEF NickInv

\* The SELECT after the UPDATE.
LEMMA SelectKeeps ==
  ASSUME NicknameTypeOK, NickInv, NEW x \in Requests, SelectProfile(x)
  PROVE  NickInv'
<1>. USE DEF NickInv
<1>1. /\ UNCHANGED <<users, outcome, runs, changed, late>>
      /\ Step(x) = "select" /\ Step(x)' = "coded"
      /\ CodeOf(x)' \in {"ok", "internal_error"}
      /\ Asked(x)' = Asked(x) /\ Before(x)' = Before(x)
      /\ Status(x)' = Status(x)
  <2>1. UNCHANGED <<users, outcome, runs, changed, late>> /\ Step(x) = "select"
    BY DEF SelectProfile, Step
  <2>2. PICK c \in {"ok", "internal_error"} : Code(x, c)
    BY DEF SelectProfile
  <2>. QED
    BY <2>1, <2>2, CodeFields
<1>0. NicknameStep(x)
  BY DEF NicknameStep
<1>2. \A q \in Requests : q # x => Same(q)
  BY <1>0, OthersKept
<1>3. PlaceOK(x)
  BY DEF PlaceInv
<1>4. Over' = Over
  BY <1>0, <1>1, <1>3, OverGrows
<1>5. PlaceOK(x)'
  <2>1. /\ outcome[x] # "answered"
        /\ Place(x, "coded", outcome[x], runs[x], CodeOf(x)', changed)
    <3>1. Place(x, "select", outcome[x], runs[x], CodeOf(x), changed)
      BY <1>1, <1>3 DEF PlaceOK
    <3>. QED
      BY <1>1, <3>1 DEF Place
  <2>2. StatusOf(x)' = StatusOf(x)
    BY <1>1, <2>1, SMTT(20) DEF StatusOf
  <2>3. /\ Status(x)' = Status(x) /\ Before(x)' = Before(x) /\ Step(x)' = "coded"
        /\ UNCHANGED <<outcome, runs, changed>>
    BY <1>1
  <2>. QED
    BY <1>3, <1>4, <2>1, <2>2, <2>3 DEF PlaceOK
<1>6. PlaceInv' /\ ChainInv'
  BY <1>0, <1>1, <1>5, PlacesKept
<1>7. PresentInv'
  BY <1>1, <1>2 DEF PresentInv, Same
<1>8. \A q \in Requests :
        /\ Asked(q)' = Asked(q) /\ Before(q)' = Before(q)
        /\ Conclusive(q)' <=> Conclusive(q)
        /\ Effective(q)' => Effective(q)
  BY <1>1, <1>2, ConclusiveStatus, SMTT(20) DEF Effective, Same
<1>9. EffectiveInv' /\ Won'
  BY <1>1, <1>8, RowQuiet
<1>. QED
  BY <1>0, <1>6, <1>7, <1>9, LateKept

\* MySQL carries out a statement that was given up.
LEMMA LateKeeps ==
  ASSUME NicknameTypeOK, NickInv, NEW x \in Requests, UpdateLate(x),
         \/ UNCHANGED <<users, changed>>
         \/ users'[Self] = Asked(x) /\ Asked(x) # NoUser /\ changed' = changed \cup {x}
  PROVE  NickInv'
<1>. USE DEF NickInv
<1>0. NicknameStep(x)
  BY DEF NicknameStep
<1>1. UNCHANGED <<outcome, runs, req>> /\ x \in late
  BY DEF UpdateLate
<1>2. \A q \in Requests : Same(q)
  BY <1>1 DEF Same, Step, Asked, CodeOf, Status, Before
<1>3. PlaceOK(x) /\ Step(x) = "coded" /\ CodeOf(x) = "internal_error"
  BY <1>1 DEF PlaceInv, LateInv
<1>4. Over \subseteq Over' /\ x \notin Over
  BY <1>0, <1>1, <1>2, <1>3, OverGrows DEF Same
<1>5. PlaceOK(x)'
  <2>1. StatusOf(x)' = StatusOf(x)
    BY <1>1, <1>2 DEF StatusOf, Same
  <2>2. Place(x, "coded", outcome[x], runs[x], "internal_error", changed')
    BY <1>3 DEF PlaceOK, Place
  <2>. QED
    BY <1>1, <1>2, <1>3, <1>4, <2>1, <2>2 DEF PlaceOK, Same
<1>6. PlaceInv' /\ ChainInv'
  BY <1>0, <1>2, <1>5, PlacesKept DEF Same
<1>7. PresentInv'
  BY <1>2 DEF PresentInv, Same
<1>8. \A q \in Requests :
        /\ Asked(q)' = Asked(q) /\ Before(q)' = Before(q)
        /\ Conclusive(q)' <=> Conclusive(q)
        /\ Effective(q)' <=> Effective(q)
        /\ x \notin Before(q)
  BY <1>2, <1>4, SameEffect DEF PlaceInv, PlaceOK
<1>9. EffectiveInv' /\ Won'
  <2>1. CASE UNCHANGED <<users, changed>>
    BY <1>8, <2>1, RowQuiet
  <2>2. CASE users'[Self] = Asked(x) /\ changed' = changed \cup {x}
    BY <1>8, <2>2, RowChange
  <2>. QED
    BY <2>1, <2>2
<1>. QED
  BY <1>0, <1>6, <1>7, <1>9, LateKept

\* Every step of a request.
LEMMA NicknameKeeps ==
  ASSUME TypeOK, NickInv, NEW x \in Requests, NicknameStep(x)
  PROVE  NickInv'
<1>0. NicknameTypeOK /\ users \in [Ids -> Ids \cup Names \cup {NoUser}]
  BY DEF TypeOK
<1>1. CASE Unauthorized(x)
  <2>1. /\ Executes(x) /\ UNCHANGED <<users, changed>> /\ Step(x)' = "coded"
        /\ CodeOf(x)' \in {"unauthorized", "internal_error"}
    <3>1. Begins(x) /\ UNCHANGED <<users, changed>>
      BY <1>0, <1>1 DEF Unauthorized, Call!Execute, Begins, Step, NicknameTypeOK
    <3>2. PICK c \in {"unauthorized", "internal_error"} : Code(x, c)
      BY <1>1 DEF Unauthorized
    <3>. QED
      BY <1>0, <3>1, <3>2, CodeFields DEF Begins, Executes
  <2>. QED
    BY <1>0, <2>1, RefusalKeeps
<1>2. CASE Invalid(x)
  <2>1. /\ Executes(x) /\ UNCHANGED <<users, changed>> /\ Step(x)' = "coded"
        /\ CodeOf(x)' \in {"invalid_nickname", "internal_error"}
    <3>1. Begins(x) /\ UNCHANGED <<users, changed>>
      BY <1>0, <1>2 DEF Invalid, Call!Execute, Begins, Step, NicknameTypeOK
    <3>2. PICK c \in {"invalid_nickname", "internal_error"} : Code(x, c)
      BY <1>2 DEF Invalid
    <3>. QED
      BY <1>0, <3>1, <3>2, CodeFields DEF Begins, Executes
  <2>. QED
    BY <1>0, <2>1, RefusalKeeps
<1>3. ASSUME users' = UpdatedNickname(Self, Asked(x)), Affected(Self, Asked(x)),
             Asked(x) \notin {Blank, Wide}
      PROVE  users'[Self] = Asked(x) /\ Asked(x) # NoUser
  <2>1. Asked(x) \in Names \cup Ids
    BY <1>0, <1>3, FieldTypes
  <2>. QED
    BY <1>0, <1>3, <2>1, SelfAssumption, NamesAssumption, NoUserAssumption
    DEF UpdatedNickname, Affected
<1>4. CASE UpdateNickname(x)
  <2>1. CASE Affected(Self, Asked(x))
    <3>1. /\ Executes(x) /\ Step(x)' = "select" /\ CodeOf(x)' = CodeOf(x)
          /\ users' = UpdatedNickname(Self, Asked(x)) /\ changed' = changed \cup {x}
          /\ Asked(x) \notin {Blank, Wide}
      <4>1. /\ Begins(x) /\ req' = [req EXCEPT ![x].pc = "select"]
            /\ users' = UpdatedNickname(Self, Asked(x)) /\ changed' = changed \cup {x}
            /\ Asked(x) \notin {Blank, Wide}
        BY <1>0, <1>4, <2>1 DEF UpdateNickname, Call!Execute, Begins, Step, Asked, NicknameTypeOK
      <4>. QED
        BY <1>0, <4>1, SelectFields DEF Begins, Executes
    <3>2. CodeOf(x) = "none"
      BY <1>0, <3>1, ExecutedNotOver
    <3>. QED
      BY <1>0, <1>3, <2>1, <3>1, <3>2, ChangeKeeps
  <2>2. CASE ~ Affected(Self, Asked(x))
    <3>1. /\ Executes(x) /\ Step(x)' = "coded" /\ CodeOf(x)' = "not_found"
          /\ UNCHANGED <<users, changed>>
      <4>1. Begins(x) /\ Code(x, "not_found") /\ UNCHANGED <<users, changed>>
        BY <1>0, <1>4, <2>2 DEF UpdateNickname, Call!Execute, Begins, Step, Asked, NicknameTypeOK
      <4>. QED
        BY <1>0, <4>1, CodeFields DEF Begins, Executes
    <3>. QED
      BY <1>0, <2>2, <3>1, FoundKeeps
  <2>. QED
    BY <2>1, <2>2
<1>5. CASE UpdateFails(x)
  <2>1. /\ Executes(x) /\ Step(x)' = "coded" /\ CodeOf(x)' = "internal_error"
        /\ Asked(x) \notin {Blank, Wide}
        /\ \/ /\ Affected(Self, Asked(x))
              /\ users' = UpdatedNickname(Self, Asked(x))
              /\ changed' = changed \cup {x}
           \/ UNCHANGED <<users, changed>>
    <3>1. Begins(x) /\ Code(x, "internal_error") /\ Asked(x) \notin {Blank, Wide}
      BY <1>0, <1>5 DEF UpdateFails, Call!Execute, Begins, Step, Asked, NicknameTypeOK
    <3>2. \/ /\ Affected(Self, Asked(x))
             /\ users' = UpdatedNickname(Self, Asked(x))
             /\ changed' = changed \cup {x}
          \/ UNCHANGED <<users, changed>>
      BY <1>5 DEF UpdateFails, Asked
    <3>. QED
      BY <1>0, <3>1, <3>2, CodeFields DEF Begins, Executes
  <2>. QED
    BY <1>0, <1>3, <2>1, ChangeKeeps, RefusalKeeps
<1>6. CASE UpdateLate(x)
  <2>1. Asked(x) \notin {Blank, Wide}
    BY <1>6 DEF UpdateLate, NickInv, LateInv
  <2>2. \/ /\ Affected(Self, Asked(x))
           /\ users' = UpdatedNickname(Self, Asked(x))
           /\ changed' = changed \cup {x}
        \/ UNCHANGED <<users, changed>>
    BY <1>6 DEF UpdateLate, Asked
  <2>. QED
    BY <1>0, <1>3, <1>6, <2>1, <2>2, LateKeeps
<1>. QED
  BY <1>0, <1>1, <1>2, <1>4, <1>5, <1>6, RejectKeeps, SendKeeps, AnsweredKeeps, UnansweredKeeps, SelectKeeps
  DEF NicknameStep

-----------------------------------------------------------------------------
(* Types.                                                                  *)

\* A request's step keeps the types; only valid nicknames get into the table.
LEMMA NicknameTypeStep ==
  ASSUME TypeOK, PlaceInv, LateInv, NEW x \in Requests, NicknameStep(x)
  PROVE  NicknameTypeOK' /\ users' \in [Ids -> Ids \cup Names \cup {NoUser}]
<1>. USE UpdateFaultsAssumption DEF UpdateFault, Respond, Code
<1>1. /\ req \in [Requests -> Locals] /\ req[x] \in Locals
      /\ users \in [Ids -> Ids \cup Names \cup {NoUser}]
      /\ outcome \in [Requests -> {"idle", "pending", "answered", "refused", "lost"}]
      /\ runs \in [Requests -> 0 .. 1] /\ changed \subseteq Requests /\ late \subseteq Requests
      /\ updateFaults \in 0 .. MaxUpdateFaults
  BY DEF TypeOK, NicknameTypeOK, Locals
<1>2. req' \in [Requests -> Locals]
  <2>0. ASSUME NEW s \in Statuses, req' = [req EXCEPT ![x].status = s]
        PROVE  req' \in [Requests -> Locals]
    <3>1. [req[x] EXCEPT !.status = s] \in Locals
      BY <1>1 DEF Locals
    <3>. QED
      BY <1>1, <2>0, <3>1
  <2>1. CASE Reject(x)
    <3>. DEFINE Refusals == {400, 401}
    <3>1. Refusals \subseteq Statuses
      BY SMTT(20) DEF Statuses
    <3>2. \E s \in Refusals : req' = [req EXCEPT ![x].status = s]
      BY <2>1 DEF Reject
    <3>. HIDE DEF Refusals
    <3>. QED
      BY <2>0, <3>1, <3>2
  <2>2. CASE Send(x)
    <3>1. PICK n \in Names \cup {Blank, Wide, users[Self]} :
            req' = [req EXCEPT ![x].pc = "sent", ![x].ask = n, ![x].before = Over]
      BY <2>2 DEF Send
    <3>2. n \in Names \cup Ids \cup {Blank, Wide} /\ Over \in SUBSET Requests
      BY <1>1, <2>2, SelfAssumption DEF Send, Over
    <3>3. [req[x] EXCEPT !.pc = "sent", !.ask = n, !.before = Over] \in Locals
      BY <1>1, <3>2 DEF Locals
    <3>. QED
      BY <1>1, <3>1, <3>3
  <2>3. CASE Answered(x)
    <3>1. StatusFor(req[x].code) \in Statuses /\ 200 \in Statuses
      BY SMTT(20) DEF StatusFor, Statuses
    <3>. QED
      BY <1>1, <2>3, <3>1 DEF Answered, Locals
  <2>4. CASE Busy(x) \/ Unavailable(x)
    <3>1. \E s \in Statuses : req' = [req EXCEPT ![x].status = s]
      BY <2>4, SMTT(20) DEF Busy, Unavailable, StatusFor, Statuses
    <3>. QED
      BY <2>0, <3>1
  <2>5. CASE Unauthorized(x) \/ SelectProfile(x)
    <3>1. PICK c \in Codes : req' = [req EXCEPT ![x].pc = "coded", ![x].code = c]
      BY <2>5 DEF Unauthorized, SelectProfile, Codes
    <3>. QED
      BY <1>1, <3>1 DEF Locals
  <2>6. CASE Invalid(x) \/ UpdateFails(x)
    <3>1. PICK c \in Codes : req' = [req EXCEPT ![x].pc = "coded", ![x].code = c]
      BY <2>6 DEF Invalid, UpdateFails, Codes
    <3>. QED
      BY <1>1, <3>1 DEF Locals
  <2>7. CASE UpdateNickname(x)
    <3>1. \/ req' = [req EXCEPT ![x] = [req[x] EXCEPT !.pc = "select"]]
          \/ req' = [req EXCEPT ![x] = [req[x] EXCEPT !.pc = "coded", !.code = "not_found"]]
      BY <2>7 DEF UpdateNickname
    <3>2. /\ [req[x] EXCEPT !.pc = "select"] \in Locals
          /\ [req[x] EXCEPT !.pc = "coded", !.code = "not_found"] \in Locals
      BY <1>1 DEF Locals, Codes
    <3>. QED
      BY <1>1, <3>1, <3>2
  <2>8. CASE UpdateLate(x)
    BY <1>1, <2>8 DEF UpdateLate
  <2>. QED
    BY <2>1, <2>2, <2>3, <2>4, <2>5, <2>6, <2>7, <2>8 DEF NicknameStep
<1>3. /\ outcome' \in [Requests -> {"idle", "pending", "answered", "refused", "lost"}]
      /\ runs' \in [Requests -> 0 .. 1]
  BY StepWrites, CallKept DEF TypeOK
<1>4. updateFaults' \in 0 .. MaxUpdateFaults
  BY <1>1, StepWrites, SMTT(20) DEF FaultWrites
<1>5. changed' \subseteq Requests /\ late' \subseteq Requests
  BY <1>1, StepWrites DEF RowWrites, LateWrites
<1>6. users' \in [Ids -> Ids \cup Names \cup {NoUser}]
  <2>1. req[x].ask \in Names \cup Ids \cup {Blank, Wide}
    BY <1>1 DEF Locals
  <2>2. x \in late => req[x].ask \notin {Blank, Wide}
    BY DEF LateInv, Asked
  <2>. QED
    BY <1>1, <2>1, <2>2, StepWrites DEF RowWrites, UpdatedNickname
<1>. QED
  BY <1>2, <1>3, <1>4, <1>5, <1>6 DEF NicknameTypeOK

\* A row that is there stays, whatever the nickname handler does.
LEMMA RowsStay ==
  ASSUME TypeOK, NEW x \in Requests, NicknameStep(x), NEW u \in Ids, users[u] # NoUser
  PROVE  users'[u] # NoUser
<1>1. \/ users' = users
      \/ users' = UpdatedNickname(Self, req[x].ask)
  BY StepWrites DEF RowWrites
<1>2. req[x].ask \in Names \cup Ids \cup {Blank, Wide} /\ users \in [Ids -> Ids \cup Names \cup {NoUser}]
  BY DEF TypeOK, NicknameTypeOK, Locals
<1>. QED
  BY <1>1, <1>2, NamesAssumption, NoUserAssumption DEF UpdatedNickname

\* The seed command leaves a row that is there as it is.
LEMMA SeedLeavesRows ==
  ASSUME TypeOK, SeedNext
  PROVE  /\ users' \in [Ids -> Ids \cup Names \cup {NoUser}]
         /\ \A u \in Ids : users'[u] = users[u] \/ (users[u] = NoUser /\ users'[u] = SeedNickname(u))
<1>1. users' = users \/ \E w \in Workers : users' = Inserted(Batch(worker[w]))
  BY DEF SeedNext, SeedSteps, StartSeed, SendJob, CloseJobs, SeedReturns, TakeJob, WorkerExits,
         InsertBatch
<1>2. users \in [Ids -> Ids \cup Names \cup {NoUser}]
  BY DEF TypeOK
<1>. QED
  BY <1>1, <1>2 DEF Inserted, SeedNickname

\* Steps that leave the requests alone.
LEMMA NicknamesAlone ==
  ASSUME UNCHANGED nicknameVars
  PROVE  /\ \A r \in Requests : Same(r) /\ (Effective(r)' <=> Effective(r))
                                /\ (Conclusive(r)' <=> Conclusive(r))
         /\ Over' = Over /\ UNCHANGED <<outcome, runs, changed, late>>
<1>1. req' = req /\ UNCHANGED <<outcome, runs, changed, late>>
  BY DEF nicknameVars
<1>2. \A r \in Requests : Same(r)
  BY <1>1 DEF Same, Step, Asked, CodeOf, Status, Before
<1>. QED
  BY <1>1, <1>2, ConclusiveStatus, OverStatus, SMTT(20) DEF Same, Effective

LEMMA PlacesUnchanged ==
  ASSUME NicknameTypeOK, PlaceInv, ChainInv, LateInv, UNCHANGED nicknameVars
  PROVE  PlaceInv' /\ ChainInv' /\ LateInv'
<1>1. PlaceInv'
  BY NicknamesAlone, PlaceKept DEF PlaceInv
<1>2. ChainInv'
  BY NicknamesAlone, SMTT(20) DEF ChainInv, Same
<1>3. LateInv'
  BY NicknamesAlone DEF NicknameTypeOK, LateInv, Same
<1>. QED
  BY <1>1, <1>2, <1>3

\* Steps of the seed command and the requests.
LEMMA SeedKeepsNicknames ==
  ASSUME TypeOK, NickInv, SeedNext, UNCHANGED nicknameVars
  PROVE  NickInv'
<1>. USE DEF NickInv
<1>0. /\ \A r \in Requests : /\ Step(r)' = Step(r) /\ Asked(r)' = Asked(r) /\ Before(r)' = Before(r)
                             /\ (Effective(r)' <=> Effective(r)) /\ (Conclusive(r)' <=> Conclusive(r))
      /\ UNCHANGED changed
  BY NicknamesAlone DEF Same
<1>1. \/ users'[Self] = users[Self]
      \/ users[Self] = NoUser /\ users'[Self] = SeedNickname(Self)
  BY SeedLeavesRows, SelfAssumption
<1>2. PlaceInv' /\ ChainInv' /\ LateInv'
  BY PlacesUnchanged DEF TypeOK
<1>3. PresentInv'
  BY <1>0, <1>1 DEF PresentInv
<1>4. CASE users'[Self] = users[Self]
  <2>1. \A r \in Requests : Behind(r)' <=> Behind(r)
    BY <1>0, <1>4 DEF Behind
  <2>2. EffectiveInv'
    BY <1>0, <2>1 DEF EffectiveInv
  <2>3. Won'
    BY <1>0, <1>4, <2>1 DEF Won, SeedNickname
  <2>. QED
    BY <1>2, <1>3, <2>2, <2>3
<1>5. CASE users[Self] = NoUser /\ users'[Self] = SeedNickname(Self)
  <2>1. \A r \in Requests : ~ Effective(r) /\ ~ Conclusive(r)
    <3>1. ASSUME NEW r \in Requests PROVE ~ Effective(r) /\ ~ Conclusive(r)
      <4>1. Step(r) = "new" /\ PlaceOK(r)
        BY <1>5 DEF PresentInv, PlaceInv
      <4>2. /\ outcome[r] \in {"idle", "lost"} /\ Status(r) \in StatusOf(r)
            /\ CodeOf(r) = "none"
        BY <4>1 DEF PlaceOK, Place
      <4>3. Status(r) \in {0, 400, 401, 502}
        BY <4>2, SMTT(20), ZenonT(40) DEF StatusOf, Pending
      <4>. QED
        <5>1. Status(r) \notin {200, 404}
          BY <4>3, SMTT(20)
        <5>. QED
          BY <4>1, <4>2, <5>1, ConclusiveStatus DEF Effective
    <3>. QED
      BY <3>1
  <2>2. EffectiveInv'
    BY <1>0, <2>1 DEF EffectiveInv
  <2>3. Won'
    BY <1>0, <1>5, <2>1 DEF Won, SeedNickname
  <2>. QED
    BY <1>2, <1>3, <2>2, <2>3
<1>. QED
  BY <1>1, <1>4, <1>5

-----------------------------------------------------------------------------
(* Theorems.                                                               *)

\* The inductive invariant holds of every behaviour.
THEOREM Invariance == Spec => []IInv
<1>1. Init => IInv
  <2>. SUFFICES ASSUME Init PROVE IInv
    OBVIOUS
  <2>1. SeedInv
    BY SeedInitInv DEF Init
  <2>2. TypeOK
    <3>1. NicknameTypeOK
      BY UpdateFaultsAssumption, SMTT(20)
      DEF Init, NicknameInit, Call!Init, NicknameTypeOK, Locals, Codes, Statuses, Pending
    <3>. QED
      BY <2>1, <3>1 DEF Init, UsersInit, TypeOK, SeedInv
  <2>3. /\ users[Self] = NoUser /\ changed = {} /\ late = {}
        /\ \A r \in Requests : /\ outcome[r] = "idle" /\ runs[r] = 0
                                /\ Step(r) = "new" /\ CodeOf(r) = "none"
                                /\ Status(r) = Pending /\ Before(r) = {}
    BY SelfAssumption DEF Init, UsersInit, NicknameInit, Call!Init, Step, CodeOf, Status, Before
  <2>4. PlaceInv
    BY <2>3, SMTT(20), ZenonT(40) DEF PlaceInv, PlaceOK, Place, StatusOf
  <2>5. ChainInv /\ PresentInv /\ LateInv /\ EffectiveInv
    BY <2>3 DEF ChainInv, PresentInv, LateInv, EffectiveInv, Effective
  <2>6. Won
    BY <2>3 DEF Won
  <2>. QED
    BY <2>1, <2>2, <2>4, <2>5, <2>6 DEF IInv, NickInv
<1>2. IInv /\ [Next]_vars => IInv'
  <2>. SUFFICES ASSUME IInv, [Next]_vars PROVE IInv'
    OBVIOUS
  <2>. USE DEF IInv
  <2>1. ASSUME SeedNext, UNCHANGED nicknameVars PROVE IInv'
    <3>1. SeedInv' /\ NickInv'
      BY <2>1, SeedStepInv, SeedKeepsNicknames
    <3>2. NicknameTypeOK'
      BY <2>1 DEF TypeOK, NicknameTypeOK, nicknameVars
    <3>3. users' \in [Ids -> Ids \cup Names \cup {NoUser}]
      BY <2>1, SeedLeavesRows
    <3>. QED
      BY <3>1, <3>2, <3>3 DEF TypeOK, SeedInv
  <2>2. ASSUME NEW x \in Requests, NicknameStep(x), UNCHANGED seedVars PROVE IInv'
    <3>1. NickInv'
      BY <2>2, NicknameKeeps
    <3>2. NicknameTypeOK' /\ users' \in [Ids -> Ids \cup Names \cup {NoUser}]
      BY <2>2, NicknameTypeStep DEF NickInv
    <3>3. SeedInv'
      BY <2>2, RowsStay, SeedKept
    <3>. QED
      BY <3>1, <3>2, <3>3 DEF TypeOK, SeedInv
  <2>3. CASE UNCHANGED vars
    <3>1. NicknameTypeOK' /\ users' = users /\ UNCHANGED <<seedVars, nicknameVars>>
      BY <2>3 DEF vars, TypeOK, NicknameTypeOK, nicknameVars
    <3>2. SeedInv'
      BY <3>1, SeedKept
    <3>3. NickInv'
      <4>1. PlaceInv' /\ ChainInv' /\ LateInv'
        BY <3>1, PlacesUnchanged DEF NickInv, TypeOK
      <4>2. PresentInv'
        BY <3>1, NicknamesAlone DEF NickInv, PresentInv, Same
      <4>3. EffectiveInv' /\ Won'
        BY <3>1, NicknamesAlone, RowQuiet DEF NickInv, Same
      <4>. QED
        BY <4>1, <4>2, <4>3 DEF NickInv
    <3>. QED
      BY <3>1, <3>2, <3>3 DEF TypeOK, SeedInv
  <2>. QED
    BY <2>1, <2>2, <2>3 DEF Next, SeedStep, SeedNext, NicknameNext, NicknameStep
<1>. QED
  BY <1>1, <1>2, PTL DEF Spec

\* The state stays well typed: nothing but nicknames that the service and the
\* column take gets into the table, and no run counts more users than asked for.
THEOREM TypeCorrect == Spec => []TypeOK
<1>1. IInv => TypeOK
  BY DEF IInv
<1>. QED
  BY Invariance, <1>1, PTL

\* For any number of workers and any batch size, seed returns without an error
\* only when every user is in the table.
THEOREM SeedsCompletely == Spec => []SeedComplete
<1>1. IInv => SeedComplete
  BY DEF IInv, SeedInv
<1>. QED
  BY Invariance, <1>1, PTL

\* For any number of overlapping updates and runs of the seed command, the row
\* holds what an update asked for that no later, answered one replaced.
THEOREM LatestUpdatesWin == Spec => []LatestUpdateWins
<1>1. IInv => LatestUpdateWins
  BY WonWins DEF IInv, NickInv
<1>. QED
  BY Invariance, <1>1, PTL

\* An update answered with 400, 401 or 429 has not changed the row.
THEOREM RefusedUpdatesNotStored == Spec => []RefusedNeverStored
<1>1. IInv => RefusedNeverStored
  <2>. SUFFICES ASSUME TypeOK, PlaceInv, NEW r \in changed
                PROVE  Status(r) \in {Pending, 200, 500, 502}
    BY DEF IInv, NickInv, RefusedNeverStored, Status
  <2>1. r \in Requests /\ PlaceOK(r) /\ outcome[r] \in {"idle", "pending", "answered", "refused", "lost"}
    BY DEF TypeOK, NicknameTypeOK, PlaceInv
  <2>2. outcome[r] \notin {"idle", "refused"}
    BY <2>1 DEF PlaceOK, Place
  <2>3. outcome[r] = "answered" => Status(r) \in {200, 500}
    <3>. HAVE outcome[r] = "answered"
    <3>1. CodeOf(r) \in {"ok", "internal_error"}
      <4>1. Place(r, Step(r), "answered", runs[r], CodeOf(r), changed)
        BY <2>1 DEF PlaceOK
      <4>. QED
        BY <4>1 DEF Place
    <3>2. Status(r) = IF CodeOf(r) = "ok" THEN 200 ELSE StatusFor(CodeOf(r))
      BY <2>1 DEF PlaceOK, StatusOf
    <3>. QED
      BY <3>1, <3>2, SMTT(20), ZenonT(40) DEF StatusFor
  <2>. QED
    BY <2>1, <2>2, <2>3, SMTT(20), ZenonT(40) DEF PlaceOK, StatusOf
<1>. QED
  BY Invariance, <1>1, PTL
=============================================================================
