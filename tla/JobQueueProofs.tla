---------------------------- MODULE JobQueueProofs ----------------------------
(***************************************************************************)
(* Safety of the job queue for any number of periods and processes and any *)
(* lease length: three attempts at most, one process at a time under a     *)
(* running lease, dead letters that say why, verdicts written only by the  *)
(* claim that holds the row, outcomes never rewritten; and, of the whole,  *)
(* that it implements the ledger of attempts.                              *)
(*                                                                         *)
(* The properties are not inductive: nothing in them says why the attempt  *)
(* a claim is about to hand out is new.  What does is that a row under way *)
(* carries the lease of its latest attempt, and that no process holds an   *)
(* attempt later than that.                                                *)
(***************************************************************************)
EXTENDS JobQueue, TLAPS

(* A row under way holds the lease of its latest attempt.                  *)
LeaseIsLatest ==
  \A j \in Jobs : jobs[j].status = "running"
    => jobs[j].lease = jobs[j].attempts /\ jobs[j].attempts > 0

(* A period that is not in the table was never attempted.                  *)
AbsentIsNew == \A j \in Jobs : jobs[j].status = "absent" => jobs[j].attempts = 0

(* A process holds a claim that was handed out.                            *)
ClaimsWereMade ==
  \A w \in Workers : workers[w].at # "idle"
    => /\ workers[w].job \in Jobs
       /\ workers[w].attempt \in 1 .. jobs[workers[w].job].attempts

QueueInv ==
  /\ QueueTypeOK
  /\ OneIndexer
  /\ DeadLettersTellWhy
  /\ LeaseIsLatest
  /\ AbsentIsNew
  /\ ClaimsWereMade

USE DEF MaxAttempts, NoJob, NoError, NoLease, Failure, LeaseExpired

(* The same facts about a table and about the workers, apart from the      *)
(* variables, so that claim's two updates can be taken one after another.  *)
GoodRow(row) ==
  /\ row \in Row
  /\ row.status = "dead" => row.attempts = MaxAttempts /\ row.error # NoError
  /\ row.status = "pending" => row.attempts < MaxAttempts
  /\ row.status = "pending" /\ row.attempts > 0 => row.error # NoError
  /\ row.status = "running" => row.lease = row.attempts /\ row.attempts > 0
  /\ row.status = "absent" => row.attempts = 0

GoodTable(table) ==
  /\ table \in [Jobs -> Row]
  /\ \A j \in Jobs : GoodRow(table[j])
  /\ \A i, j \in Jobs : Unexpired(table[i]) /\ Unexpired(table[j]) => i = j

GoodWorkers(procs, table) ==
  /\ procs \in [Workers -> Worker]
  /\ \A w \in Workers : procs[w].at # "idle"
       => procs[w].job \in Jobs /\ procs[w].attempt \in 1 .. table[procs[w].job].attempts
  /\ \A v, w \in Workers :
       /\ procs[v].at # "idle" /\ procs[w].at # "idle"
       /\ procs[v].job = procs[w].job /\ procs[v].attempt = procs[w].attempt
       => v = w

LEMMA InvParts ==
  QueueInv <=> /\ GoodTable(jobs) /\ GoodWorkers(workers, jobs)
               /\ live \in Jobs \cup {NoJob} /\ published \subseteq Jobs
  <1>1. QueueInv => GoodTable(jobs)
    BY DEF QueueInv, QueueTypeOK, OneIndexer, DeadLettersTellWhy, LeaseIsLatest, AbsentIsNew, GoodTable, GoodRow
  <1>2. QueueInv => GoodWorkers(workers, jobs)
    BY DEF QueueInv, QueueTypeOK, OneIndexer, ClaimsWereMade, GoodWorkers, Busy
  <1>3. GoodTable(jobs) => DeadLettersTellWhy /\ LeaseIsLatest /\ AbsentIsNew
    BY DEF DeadLettersTellWhy, LeaseIsLatest, AbsentIsNew, GoodTable, GoodRow
  <1>4. GoodTable(jobs) /\ GoodWorkers(workers, jobs) => OneIndexer /\ ClaimsWereMade
    BY DEF OneIndexer, ClaimsWereMade, GoodTable, GoodWorkers, Busy
  <1> QED
    BY <1>1, <1>2, <1>3, <1>4 DEF QueueInv, QueueTypeOK, GoodTable, GoodWorkers

-----------------------------------------------------------------------------
(* Rows                                                                    *)

(* Dead-lettering keeps every row good, and no candidate it leaves has     *)
(* used its attempts up.                                                   *)
LEMMA DeadLetteredRow ==
  ASSUME NEW table, GoodTable(table), NEW j \in Jobs
  PROVE  /\ GoodRow(DeadLettered(table)[j])
         /\ DeadLettered(table)[j].attempts = table[j].attempts
         /\ Unexpired(DeadLettered(table)[j]) <=> Unexpired(table[j])
         /\ DeadLettered(table)[j].refresh = table[j].refresh
         /\ Claimable(DeadLettered(table)[j]) => DeadLettered(table)[j].attempts < MaxAttempts
  <1>1. GoodRow(table[j]) /\ table[j] \in Row
    BY DEF GoodTable, GoodRow
  <1>2. CASE Expired(table[j]) /\ table[j].attempts >= MaxAttempts
    <2> DEFINE dead == [table[j] EXCEPT !.status = "dead", !.error = LeaseExpired]
    <2>1. DeadLettered(table)[j] = dead
      BY <1>2 DEF DeadLettered
    <2>2. /\ dead \in Row /\ dead.status = "dead" /\ dead.error = LeaseExpired
          /\ dead.attempts = table[j].attempts /\ dead.refresh = table[j].refresh
      BY <1>1 DEF Row
    <2>3. table[j].attempts = MaxAttempts
      BY <1>1, <1>2 DEF Row
    <2>4. GoodRow(dead) /\ ~Unexpired(dead) /\ ~Claimable(dead)
      BY <2>2, <2>3 DEF GoodRow, Unexpired, Running, Claimable
    <2>5. ~Unexpired(table[j])
      BY <1>1, <1>2 DEF Expired, Unexpired, Running, Row
    <2> QED
      BY <2>1, <2>2, <2>4, <2>5
  <1>3. CASE ~(Expired(table[j]) /\ table[j].attempts >= MaxAttempts)
    <2>1. DeadLettered(table)[j] = table[j]
      BY <1>3 DEF DeadLettered
    <2>2. Claimable(table[j]) => table[j].attempts < MaxAttempts
      BY <1>1, <1>3 DEF GoodRow, Row, Expired, Running, Claimable
    <2> QED
      BY <1>1, <2>1, <2>2
  <1> QED
    BY <1>2, <1>3

LEMMA DeadLetteredGood ==
  ASSUME NEW table, GoodTable(table)
  PROVE  GoodTable(DeadLettered(table))
  <1>1. \A j \in Jobs : GoodRow(DeadLettered(table)[j])
    BY DeadLetteredRow
  <1>2. DeadLettered(table) \in [Jobs -> Row]
    BY <1>1 DEF DeadLettered, GoodRow
  <1>3. ASSUME NEW i \in Jobs, NEW j \in Jobs, Unexpired(DeadLettered(table)[i]),
               Unexpired(DeadLettered(table)[j])
        PROVE  i = j
    BY <1>3, DeadLetteredRow DEF GoodTable
  <1> QED
    BY <1>1, <1>2, <1>3 DEF GoodTable

(* One row of a good table is replaced: the table stays good if the row is *)
(* and if the row has no lease running that another row has too.           *)
LEMMA RowReplaced ==
  ASSUME NEW table, GoodTable(table), NEW j \in Jobs, NEW row, GoodRow(row),
         Unexpired(row) => \A i \in Jobs \ {j} : ~Unexpired(table[i])
  PROVE  GoodTable([table EXCEPT ![j] = row])
  BY DEF GoodTable, GoodRow

LEMMA LeasedGood ==
  ASSUME NEW row, GoodRow(row), row.attempts < MaxAttempts
  PROVE  GoodRow(Leased(row)) /\ Leased(row).attempts = row.attempts + 1
  <1>1. row \in Row /\ row.attempts + 1 \in 1 .. MaxAttempts
    BY DEF GoodRow, Row
  <1>2. LeaseLength \in -MaxOverdue .. Horizon
    BY QueueAssumption DEF Horizon
  <1>3. /\ Leased(row).status = "running"
        /\ Leased(row).attempts = row.attempts + 1
        /\ Leased(row).lease = row.attempts + 1
    BY <1>1 DEF Leased, Row
  <1>4. Leased(row) \in Row
    BY <1>1, <1>2 DEF Leased, Row
  <1> QED
    BY <1>1, <1>3, <1>4 DEF GoodRow

LEMMA FinishedGood ==
  ASSUME NEW row, GoodRow(row), NEW worker \in Worker, worker.attempt \in 1 .. MaxAttempts,
         row.lease = worker.attempt, Running(row)
  PROVE  /\ GoodRow(Finished(row, worker))
         /\ ~Unexpired(Finished(row, worker))
         /\ Finished(row, worker).attempts = row.attempts
  <1>1. Backoff[worker.attempt] \in 1 .. 4
    BY DEF Backoff
  <1>2. Backoff[worker.attempt] \in -MaxOverdue .. Horizon
    BY <1>1, QueueAssumption DEF Horizon
  <1>3. worker.error \in {NoError, Failure} /\ worker.snapshot \in Jobs \cup {NoJob}
    BY DEF Worker, ErrorTexts
  <1>4. row \in Row /\ row.attempts = worker.attempt
    BY DEF GoodRow, Running
  <1>5. /\ Finished(row, worker).status = Verdict(worker)
        /\ Verdict(worker) \in {"done", "dead", "pending"}
    BY DEF Finished, Verdict
  <1>6. /\ Finished(row, worker).attempts = row.attempts
        /\ Finished(row, worker).error = worker.error
    BY DEF Finished
  <1>7. Finished(row, worker) \in Row
    BY <1>2, <1>3, <1>4, <1>5 DEF Finished, Row
  <1> QED
    BY <1>3, <1>4, <1>5, <1>6, <1>7 DEF GoodRow, Verdict, Unexpired, Running

-----------------------------------------------------------------------------
(* Workers                                                                 *)

LEMMA AttemptsAreInts == \A row \in Row : row.attempts \in Int
  BY DEF Row

(* A worker moves on with the claim it has, or ends.                       *)
LEMMA WorkerMoves ==
  ASSUME NEW table, GoodWorkers(workers, table), NEW w \in Workers, NEW to \in Worker,
         \/ to.at = "idle"
         \/ /\ workers[w].at # "idle"
            /\ to.job = workers[w].job /\ to.attempt = workers[w].attempt
  PROVE  GoodWorkers([workers EXCEPT ![w] = to], table)
  BY DEF GoodWorkers

(* What workers hold was still handed out when a row has more attempts.    *)
LEMMA AttemptsGrow ==
  ASSUME NEW old, NEW new, NEW procs, GoodWorkers(procs, old),
         old \in [Jobs -> Row], new \in [Jobs -> Row],
         \A j \in Jobs : new[j].attempts >= old[j].attempts
  PROVE  GoodWorkers(procs, new)
  <1>1. \A j \in Jobs : old[j].attempts \in Int /\ new[j].attempts \in Int
    BY AttemptsAreInts
  <1> QED
    BY <1>1 DEF GoodWorkers

LEMMA SameAttempts ==
  ASSUME NEW old, NEW new, NEW procs, GoodWorkers(procs, old),
         old \in [Jobs -> Row], new \in [Jobs -> Row],
         \A j \in Jobs : new[j].attempts = old[j].attempts
  PROVE  GoodWorkers(procs, new)
  BY DEF GoodWorkers

-----------------------------------------------------------------------------
(* The actions                                                             *)

LEMMA NewRowGood ==
  ASSUME NEW status \in {"absent", "pending"}, NEW refresh \in BOOLEAN
  PROVE  /\ GoodRow(NewRow(status, refresh))
         /\ ~Unexpired(NewRow(status, refresh))
         /\ NewRow(status, refresh).attempts = 0
  <1>1. NewRow(status, refresh) \in Row
    BY QueueAssumption DEF NewRow, Row, Horizon
  <1> QED
    BY <1>1 DEF NewRow, GoodRow, Unexpired, Running

LEMMA QueueInitInv == QueueInit => QueueInv
  <1> SUFFICES ASSUME QueueInit PROVE QueueInv
    OBVIOUS
  <1>1. GoodRow(NoRow) /\ ~Unexpired(NoRow)
    BY NewRowGood DEF NoRow
  <1>2. GoodTable(jobs)
    BY <1>1 DEF QueueInit, GoodTable, GoodRow
  <1>3. IdleWorker \in Worker
    BY DEF IdleWorker, Worker, ErrorTexts
  <1>4. GoodWorkers(workers, jobs)
    BY <1>3 DEF QueueInit, GoodWorkers, IdleWorker
  <1> QED
    BY <1>2, <1>4, InvParts DEF QueueInit

(* Each action is taken on the tables it leaves: if they are good and      *)
(* what is live was published by a job, the invariant holds again.         *)
LEMMA InvAfter ==
  ASSUME GoodTable(jobs'), GoodWorkers(workers', jobs'),
         live' \in Jobs \cup {NoJob}, published' \subseteq Jobs
  PROVE  QueueInv'
  <1>1. (QueueInv <=> /\ GoodTable(jobs) /\ GoodWorkers(workers, jobs)
                      /\ live \in Jobs \cup {NoJob} /\ published \subseteq Jobs)'
    BY InvParts, PTL
  <1> QED
    BY <1>1

LEMMA EnqueueInv ==
  ASSUME QueueInv, NEW j \in Jobs, NEW refresh \in BOOLEAN, Enqueue(j, refresh)
  PROVE  QueueInv'
  <1> DEFINE row == NewRow("pending", refresh)
  <1>1. GoodTable(jobs) /\ GoodWorkers(workers, jobs)
    BY InvParts
  <1>2. GoodRow(row) /\ ~Unexpired(row) /\ row.attempts = 0
    BY NewRowGood
  <1>3. jobs' = [jobs EXCEPT ![j] = row] /\ jobs[j].status = "absent"
    BY DEF Enqueue
  <1> HIDE DEF row
  <1>4. GoodTable(jobs')
    BY <1>1, <1>2, <1>3, RowReplaced
  <1>5. jobs[j].attempts = 0 /\ jobs \in [Jobs -> Row] /\ jobs' \in [Jobs -> Row]
    BY <1>1, <1>3, <1>4 DEF GoodTable, GoodRow
  <1>6. \A i \in Jobs : jobs'[i].attempts = jobs[i].attempts
    BY <1>2, <1>3, <1>5
  <1>7. GoodWorkers(workers, jobs')
    BY <1>1, <1>5, <1>6, SameAttempts
  <1> QED
    BY <1>4, <1>7, InvAfter, InvParts DEF Enqueue

(* The claim is new: no process holds that attempt of the row, and the     *)
(* lease it starts is the only one running.                                *)
LEMMA ClaimInv ==
  ASSUME QueueInv, NEW w \in Workers, Claim(w)
  PROVE  QueueInv'
  <1> DEFINE table == DeadLettered(jobs)
  <1>1. GoodTable(jobs) /\ GoodWorkers(workers, jobs)
    BY InvParts
  <1>2. GoodTable(table) /\ jobs \in [Jobs -> Row] /\ table \in [Jobs -> Row]
    BY <1>1, DeadLetteredGood DEF GoodTable
  <1>3. \A i \in Jobs : table[i].attempts = jobs[i].attempts
    BY <1>1, DeadLetteredRow
  <1>4. GoodWorkers(workers, table)
    BY <1>1, <1>2, <1>3, SameAttempts
  <1>5. CASE jobs' = table /\ workers' = workers
    BY <1>2, <1>4, <1>5, InvAfter, InvParts DEF Claim
  <1>6. ASSUME NEW j \in Candidates(table),
               jobs' = [table EXCEPT ![j] = Leased(table[j])],
               workers' = [workers EXCEPT ![w] = Claimed(j, table[j])]
        PROVE  QueueInv'
    <2> DEFINE to == Claimed(j, table[j])
    <2>1. j \in Jobs /\ Claimable(table[j]) /\ \A i \in Jobs : ~Unexpired(table[i])
      BY DEF Candidates
    <2>2. GoodRow(table[j]) /\ table[j].attempts < MaxAttempts
      BY <1>1, <1>2, <2>1, DeadLetteredRow DEF GoodTable
    <2>3. GoodRow(Leased(table[j])) /\ Leased(table[j]).attempts = table[j].attempts + 1
      BY <2>2, LeasedGood
    <2>4. GoodTable(jobs')
      BY <1>2, <1>6, <2>1, <2>3, RowReplaced
    <2>5. jobs' \in [Jobs -> Row] /\ table[j].attempts \in 0 .. 2
      BY <2>2, <2>4 DEF GoodTable, GoodRow, Row
    <2>6. jobs'[j].attempts = table[j].attempts + 1
      BY <1>2, <1>6, <2>1, <2>3
    <2>7. \A i \in Jobs : jobs'[i].attempts >= table[i].attempts
      BY <1>2, <1>6, <2>5, <2>6, AttemptsAreInts
    <2>8. GoodWorkers(workers, jobs')
      BY <1>2, <1>4, <2>5, <2>7, AttemptsGrow
    <2>9. /\ to \in Worker /\ to.at # "idle" /\ to.job = j
          /\ to.attempt = table[j].attempts + 1
      BY <2>1, <2>5 DEF Claimed, Worker, ErrorTexts
    <2> HIDE DEF to
    <2>10. \A v \in Workers : workers[v].at # "idle" /\ workers[v].job = j
                => workers[v].attempt # to.attempt
      BY <1>4, <2>5, <2>9 DEF GoodWorkers
    <2>11. workers' = [workers EXCEPT ![w] = to]
      BY <1>6 DEF to
    <2>12. to.attempt \in 1 .. jobs'[to.job].attempts
      BY <2>5, <2>6, <2>9
    <2>13. GoodWorkers(workers', jobs')
      BY <2>1, <2>8, <2>9, <2>10, <2>11, <2>12 DEF GoodWorkers
    <2> QED
      BY <2>4, <2>13, InvAfter, InvParts DEF Claim
  <1> QED
    BY <1>5, <1>6 DEF Claim

(* A process goes on with the claim it has, or ends, and the table stays.  *)
LEMMA MoveInv ==
  ASSUME QueueInv, NEW w \in Workers, NEW to \in Worker,
         \/ to.at = "idle"
         \/ /\ workers[w].at # "idle"
            /\ to.job = workers[w].job /\ to.attempt = workers[w].attempt,
         jobs' = jobs, workers' = [workers EXCEPT ![w] = to],
         live' \in Jobs \cup {NoJob}, published' \subseteq Jobs
  PROVE  QueueInv'
  BY WorkerMoves, InvAfter, InvParts

LEMMA IdleType == IdleWorker \in Worker /\ IdleWorker.at = "idle"
  BY DEF IdleWorker, Worker, ErrorTexts

LEMMA StepInv ==
  ASSUME QueueInv, NEW w \in Workers, Crawl(w) \/ Build(w) \/ Report(w) \/ Fail(w)
  PROVE  QueueInv'
  <1>1. workers[w] \in Worker /\ live \in Jobs \cup {NoJob} /\ published \subseteq Jobs
    BY DEF QueueInv, QueueTypeOK
  <1>2. workers[w].at # "idle" /\ workers[w].job \in Jobs
    BY DEF QueueInv, ClaimsWereMade, Crawl, Build, Report, Fail
  <1>3. CASE Crawl(w)
    <2> DEFINE to == [workers[w] EXCEPT !.at = "index"]
    <2>1. to \in Worker /\ to.job = workers[w].job /\ to.attempt = workers[w].attempt
      BY <1>1 DEF Worker
    <2>2. workers' = [workers EXCEPT ![w] = to] /\ UNCHANGED <<jobs, live, published>>
      BY <1>3 DEF Crawl
    <2> HIDE DEF to
    <2> QED
      BY <1>1, <1>2, <2>1, <2>2, MoveInv
  <1>4. CASE Build(w)
    <2> DEFINE to == [workers[w] EXCEPT !.at = "report"]
    <2>1. to \in Worker /\ to.job = workers[w].job /\ to.attempt = workers[w].attempt
      BY <1>1 DEF Worker
    <2>2. /\ workers' = [workers EXCEPT ![w] = to] /\ jobs' = jobs
          /\ live' = workers[w].job /\ published' = published \cup {workers[w].job}
      BY <1>4 DEF Build
    <2>3. live' \in Jobs \cup {NoJob} /\ published' \subseteq Jobs
      BY <1>1, <1>2, <2>2
    <2> HIDE DEF to
    <2> QED
      BY <1>2, <2>1, <2>2, <2>3, MoveInv
  <1>5. CASE Report(w)
    <2> DEFINE to == [workers[w] EXCEPT !.at = "finish", !.snapshot = live]
    <2>1. to \in Worker /\ to.job = workers[w].job /\ to.attempt = workers[w].attempt
      BY <1>1 DEF Worker
    <2>2. workers' = [workers EXCEPT ![w] = to] /\ UNCHANGED <<jobs, live, published>>
      BY <1>5 DEF Report
    <2> HIDE DEF to
    <2> QED
      BY <1>1, <1>2, <2>1, <2>2, MoveInv
  <1>6. CASE Fail(w)
    <2>1. PICK text \in ErrorTexts :
            workers' = [workers EXCEPT ![w] = [workers[w] EXCEPT !.at = "finish", !.error = text]]
      BY <1>6 DEF Fail
    <2> DEFINE to == [workers[w] EXCEPT !.at = "finish", !.error = text]
    <2>2. to \in Worker /\ to.job = workers[w].job /\ to.attempt = workers[w].attempt
      BY <1>1 DEF Worker
    <2>3. workers' = [workers EXCEPT ![w] = to] /\ UNCHANGED <<jobs, live, published>>
      BY <1>6, <2>1 DEF Fail
    <2> HIDE DEF to
    <2> QED
      BY <1>1, <1>2, <2>2, <2>3, MoveInv
  <1> QED
    BY <1>3, <1>4, <1>5, <1>6

LEMMA CrashInv ==
  ASSUME QueueInv, NEW w \in Workers, Crash(w)
  PROVE  QueueInv'
  <1>1. live' \in Jobs \cup {NoJob} /\ published' \subseteq Jobs
    BY DEF QueueInv, QueueTypeOK, Crash
  <1> QED
    BY <1>1, IdleType, MoveInv DEF Crash

(* The verdict is written on a row that is still under way in the          *)
(* worker's own attempt: it is the latest one.                             *)
LEMMA FinishInv ==
  ASSUME QueueInv, NEW w \in Workers, Finish(w)
  PROVE  QueueInv'
  <1> DEFINE j == workers[w].job
             row == Finished(jobs[j], workers[w])
  <1>1. /\ GoodTable(jobs) /\ GoodWorkers(workers, jobs)
        /\ live' \in Jobs \cup {NoJob} /\ published' \subseteq Jobs
    BY InvParts DEF Finish
  <1>2. CASE ~HoldsRow(workers[w])
    BY <1>1, <1>2, IdleType, MoveInv DEF Finish
  <1>3. CASE HoldsRow(workers[w])
    <2>1. workers[w].at # "idle" /\ workers[w] \in Worker /\ jobs \in [Jobs -> Row]
      BY <1>1 DEF Finish, GoodWorkers, GoodTable
    <2>2. j \in Jobs /\ workers[w].attempt \in 1 .. jobs[j].attempts /\ GoodRow(jobs[j])
      BY <1>1, <2>1 DEF GoodWorkers, GoodTable
    <2>3. workers[w].attempt \in 1 .. MaxAttempts
      BY <2>2 DEF GoodRow, Row
    <2>4. Running(jobs[j]) /\ jobs[j].lease = workers[w].attempt
      BY <1>3 DEF HoldsRow
    <2>5. GoodRow(row) /\ ~Unexpired(row) /\ row.attempts = jobs[j].attempts
      BY <2>1, <2>2, <2>3, <2>4, FinishedGood
    <2>6. jobs' = [jobs EXCEPT ![j] = row] /\ workers' = [workers EXCEPT ![w] = IdleWorker]
      BY <1>3 DEF Finish
    <2> HIDE DEF row, j
    <2>7. GoodTable(jobs')
      BY <1>1, <2>2, <2>5, <2>6, RowReplaced
    <2>8. \A i \in Jobs : jobs'[i].attempts = jobs[i].attempts
      BY <2>1, <2>2, <2>5, <2>6
    <2>9. jobs' \in [Jobs -> Row]
      BY <2>7 DEF GoodTable
    <2>10. GoodWorkers(workers', jobs)
      BY <1>1, <2>6, IdleType, WorkerMoves
    <2>11. GoodWorkers(workers', jobs')
      BY <2>1, <2>8, <2>9, <2>10, SameAttempts
    <2> QED
      BY <1>1, <2>7, <2>11, InvAfter
  <1> QED
    BY <1>2, <1>3

(* A minute passes: leases run out, none starts.                           *)
LEMMA TickInv ==
  ASSUME QueueInv, Tick
  PROVE  QueueInv'
  <1>1. /\ GoodTable(jobs) /\ GoodWorkers(workers, jobs)
        /\ live' \in Jobs \cup {NoJob} /\ published' \subseteq Jobs
    BY InvParts DEF Tick
  <1>2. ASSUME NEW j \in Jobs
        PROVE  /\ GoodRow(jobs'[j]) /\ jobs'[j].attempts = jobs[j].attempts
               /\ Unexpired(jobs'[j]) => Unexpired(jobs[j])
    <2> DEFINE row == [jobs[j] EXCEPT !.due = @ - 1]
    <2>1. GoodRow(jobs[j]) /\ jobs[j] \in Row
      BY <1>1 DEF GoodTable, GoodRow
    <2>2. CASE jobs[j].status \in {"pending", "running"} /\ jobs[j].due > -MaxOverdue
      <3>1. jobs'[j] = row
        BY <2>2 DEF Tick
      <3>2. jobs[j].due \in Int /\ jobs[j].due - 1 \in -MaxOverdue .. Horizon
        BY <2>1, <2>2, QueueAssumption DEF Row, Horizon
      <3>3. /\ row \in Row /\ row.status = jobs[j].status /\ row.error = jobs[j].error
            /\ row.attempts = jobs[j].attempts /\ row.lease = jobs[j].lease
            /\ row.due = jobs[j].due - 1
        BY <2>1, <3>2 DEF Row
      <3> HIDE DEF row
      <3>4. GoodRow(row)
        BY <2>1, <3>3 DEF GoodRow
      <3>5. Unexpired(row) => Unexpired(jobs[j])
        BY <3>2, <3>3 DEF Unexpired, Running
      <3> QED
        BY <3>1, <3>3, <3>4, <3>5
    <2>3. CASE ~(jobs[j].status \in {"pending", "running"} /\ jobs[j].due > -MaxOverdue)
      <3>1. jobs'[j] = jobs[j]
        BY <2>3 DEF Tick
      <3> QED
        BY <2>1, <3>1
    <2> QED
      BY <2>2, <2>3
  <1>3. jobs' \in [Jobs -> Row]
    BY <1>2 DEF Tick, GoodRow
  <1>4. \A i, j \in Jobs : Unexpired(jobs'[i]) /\ Unexpired(jobs'[j]) => i = j
    BY <1>1, <1>2 DEF GoodTable
  <1>5. GoodTable(jobs')
    BY <1>2, <1>3, <1>4 DEF GoodTable
  <1>6. GoodWorkers(workers', jobs')
    BY <1>1, <1>2, <1>3, SameAttempts DEF Tick, GoodTable
  <1> QED
    BY <1>1, <1>5, <1>6, InvAfter

LEMMA QueueNextInv == QueueInv /\ [QueueNext]_queueVars => QueueInv'
  <1> SUFFICES ASSUME QueueInv, [QueueNext]_queueVars PROVE QueueInv'
    OBVIOUS
  <1>1. CASE \E j \in Jobs, refresh \in RefreshFlags : Enqueue(j, refresh)
    BY <1>1, EnqueueInv, QueueAssumption
  <1>2. ASSUME NEW w \in Workers, Claim(w) \/ Work(w) \/ Crash(w)
        PROVE  QueueInv'
    BY <1>2, ClaimInv, StepInv, FinishInv, CrashInv DEF Work
  <1>3. CASE Tick
    BY <1>3, TickInv
  <1>4. CASE UNCHANGED queueVars
    <2>1. jobs' = jobs /\ workers' = workers /\ live' = live /\ published' = published
      BY <1>4 DEF queueVars
    <2> QED
      BY <2>1, InvParts, InvAfter
  <1> QED
    BY <1>1, <1>2, <1>3, <1>4 DEF QueueNext

-----------------------------------------------------------------------------
(* What a step does to a row                                               *)

(* Dead-lettering touches rows under way only, and kills those it touches. *)
LEMMA DeadLetteredOnly ==
  ASSUME NEW table, NEW j \in Jobs
  PROVE  \/ DeadLettered(table)[j] = table[j]
         \/ Running(table[j])
            /\ DeadLettered(table)[j] = [table[j] EXCEPT !.status = "dead", !.error = LeaseExpired]
  BY DEF DeadLettered, Expired

LEMMA RowsStep ==
  ASSUME QueueInv, [QueueNext]_queueVars, NEW j \in Jobs
  PROVE  /\ Terminal(jobs[j]) => jobs'[j] = jobs[j]
         /\ VerdictFromHolder(j)
  <1>1. GoodTable(jobs) /\ GoodWorkers(workers, jobs) /\ GoodRow(jobs[j])
        /\ jobs \in [Jobs -> Row] /\ jobs[j] \in Row
    BY InvParts DEF GoodTable, GoodRow
  <1>2. CASE jobs'[j] = jobs[j]
    BY <1>2 DEF VerdictFromHolder
  <1>3. ASSUME NEW i \in Jobs, NEW refresh \in RefreshFlags, Enqueue(i, refresh)
        PROVE  jobs'[j] = jobs[j] \/ jobs[j].status = "absent"
    BY <1>1, <1>3 DEF Enqueue
  <1>4. ASSUME NEW w \in Workers, Claim(w)
        PROVE  \/ jobs'[j] = jobs[j]
               \/ Running(jobs[j]) /\ jobs'[j].status = "dead"
               \/ jobs'[j].status = "running" /\ jobs[j].status \in {"pending", "running"}
    <2> DEFINE table == DeadLettered(jobs)
    <2>1. \/ table[j] = jobs[j]
          \/ Running(jobs[j]) /\ table[j].status = "dead"
      <3>1. [jobs[j] EXCEPT !.status = "dead", !.error = LeaseExpired].status = "dead"
        BY <1>1 DEF Row
      <3> QED
        BY <3>1, DeadLetteredOnly
    <2>2. table \in [Jobs -> Row]
      BY <1>1, DeadLetteredGood DEF GoodTable
    <2>3. CASE jobs' = table
      BY <2>1, <2>3
    <2>4. ASSUME NEW i \in Candidates(table), jobs' = [table EXCEPT ![i] = Leased(table[i])]
          PROVE  \/ jobs'[j] = table[j]
                 \/ jobs'[j].status = "running" /\ table[j].status \in {"pending", "running"}
      <3>1. i \in Jobs /\ Claimable(table[i]) /\ Leased(table[i]).status = "running"
        BY DEF Candidates, Leased
      <3> QED
        BY <2>2, <2>4, <3>1 DEF Claimable
    <2>5. \/ jobs' = table
          \/ \E i \in Candidates(table) : jobs' = [table EXCEPT ![i] = Leased(table[i])]
      BY <1>4 DEF Claim
    <2> HIDE DEF table
    <2> QED
      BY <2>1, <2>3, <2>4, <2>5
  <1>5. ASSUME NEW w \in Workers, Finish(w)
        PROVE  \/ jobs'[j] = jobs[j]
               \/ /\ Running(jobs[j]) /\ workers[w].at = "finish"
                  /\ workers[w].job = j /\ workers[w].attempt = jobs[j].attempts
    <2>1. workers[w].at = "finish" /\ workers[w].job \in Jobs
      BY <1>1, <1>5 DEF Finish, GoodWorkers
    <2>2. CASE ~HoldsRow(workers[w])
      BY <1>5, <2>2 DEF Finish
    <2>3. CASE HoldsRow(workers[w])
      <3>1. jobs' = [jobs EXCEPT ![workers[w].job] = Finished(jobs[workers[w].job], workers[w])]
        BY <1>5, <2>3 DEF Finish
      <3>2. CASE workers[w].job = j
        BY <1>1, <2>1, <2>3, <3>2 DEF HoldsRow, GoodRow, Running
      <3>3. CASE workers[w].job # j
        BY <1>1, <2>1, <3>1, <3>3
      <3> QED
        BY <3>2, <3>3
    <2> QED
      BY <2>2, <2>3
  <1>6. ASSUME Tick
        PROVE  \/ jobs'[j] = jobs[j]
               \/ jobs'[j].status = jobs[j].status /\ jobs[j].status \in {"pending", "running"}
    BY <1>1, <1>6 DEF Tick, Row
  <1>7. ASSUME NEW w \in Workers, Crawl(w) \/ Build(w) \/ Report(w) \/ Fail(w) \/ Crash(w)
        PROVE  jobs'[j] = jobs[j]
    BY <1>7 DEF Crawl, Build, Report, Fail, Crash
  <1>8. UNCHANGED queueVars => jobs'[j] = jobs[j]
    BY DEF queueVars
  <1>9. CASE \E i \in Jobs, refresh \in RefreshFlags : Enqueue(i, refresh)
    BY <1>2, <1>3, <1>9 DEF Terminal, VerdictFromHolder
  <1>10. ASSUME NEW w \in Workers, Claim(w) \/ Work(w) \/ Crash(w)
         PROVE  /\ Terminal(jobs[j]) => jobs'[j] = jobs[j]
                /\ VerdictFromHolder(j)
    <2>1. CASE Claim(w)
      BY <1>2, <1>4, <2>1 DEF Terminal, VerdictFromHolder, Running
    <2>2. CASE Finish(w)
      BY <1>2, <1>5, <2>2 DEF Terminal, VerdictFromHolder, Running
    <2>3. CASE ~Claim(w) /\ ~Finish(w)
      BY <1>2, <1>7, <1>10, <2>3 DEF Work
    <2> QED
      BY <2>1, <2>2, <2>3
  <1>11. CASE Tick
    BY <1>2, <1>6, <1>11 DEF Terminal, VerdictFromHolder
  <1> QED
    BY <1>2, <1>8, <1>9, <1>10, <1>11 DEF QueueNext

-----------------------------------------------------------------------------
(* The ledger of attempts                                                  *)

(* What the ledger says of a period is what its row does.                  *)
LEMMA EntryOf ==
  ASSUME NEW j \in Jobs
  PROVE  /\ Entries[j] = LedgerEntry(jobs[j])
         /\ j \in InForce <=> Unexpired(jobs[j])
         /\ Entries[j].status = jobs[j].status /\ Entries[j].attempts = jobs[j].attempts
         /\ Entries[j].reason = jobs[j].error /\ Entries[j].release = jobs[j].snapshot
  BY DEF Entries, InForce, LedgerEntry

(* The same of the rows a step leaves, and what they make of the ledger.   *)
LEMMA EntriesAfter ==
  /\ Entries' = [j \in Jobs |-> LedgerEntry(jobs'[j])]
  /\ InForce' = {j \in Jobs : Unexpired(jobs'[j])}
  BY DEF Entries, InForce, LedgerEntry, Unexpired, Running

(* A period lapsed, in the ledger's words, is one whose lease has run out. *)
LEMMA LapsedMeansExpired ==
  ASSUME GoodTable(jobs), NEW j \in Jobs
  PROVE  /\ Ledger!Lapsed(j) <=> Expired(jobs[j])
         /\ Ledger!Exhausted(j) <=> jobs[j].attempts >= MaxAttempts
  <1>1. jobs[j].due \in Int /\ jobs[j].attempts \in 0 .. MaxAttempts
    BY DEF GoodTable, Row
  <1>2. Ledger!Lapsed(j) <=> Expired(jobs[j])
    BY <1>1, EntryOf DEF Ledger!Lapsed, Expired, Unexpired, Running
  <1>3. Ledger!Exhausted(j) <=> jobs[j].attempts >= MaxAttempts
    BY <1>1, EntryOf DEF Ledger!Exhausted
  <1> QED
    BY <1>2, <1>3

(* The first statement of claim gives up what the ledger gives up.         *)
LEMMA GivenUpAlike ==
  ASSUME GoodTable(jobs)
  PROVE  Ledger!AfterGivingUp = [j \in Jobs |-> LedgerEntry(DeadLettered(jobs)[j])]
  <1>1. ASSUME NEW j \in Jobs
        PROVE  (IF Ledger!Lapsed(j) /\ Ledger!Exhausted(j)
                THEN Ledger!Entry("dead", MaxAttempts, LeaseExpired, Entries[j].release)
                ELSE Entries[j])
               = LedgerEntry(DeadLettered(jobs)[j])
    <2>1. jobs[j] \in Row /\ jobs[j].attempts \in 0 .. MaxAttempts
      BY DEF GoodTable, Row
    <2>2. CASE Expired(jobs[j]) /\ jobs[j].attempts >= MaxAttempts
      <3> DEFINE dead == [jobs[j] EXCEPT !.status = "dead", !.error = LeaseExpired]
      <3>1. DeadLettered(jobs)[j] = dead
        BY <2>2 DEF DeadLettered
      <3>2. /\ dead.status = "dead" /\ dead.error = LeaseExpired
            /\ dead.attempts = jobs[j].attempts /\ dead.snapshot = jobs[j].snapshot
        BY <2>1 DEF Row
      <3>3. jobs[j].attempts = MaxAttempts
        BY <2>1, <2>2
      <3> HIDE DEF dead
      <3>4. LedgerEntry(dead)
              = Ledger!Entry("dead", MaxAttempts, LeaseExpired, jobs[j].snapshot)
        BY <3>2, <3>3 DEF LedgerEntry, Ledger!Entry
      <3> QED
        BY <2>2, <3>1, <3>4, EntryOf, LapsedMeansExpired
    <2>3. CASE ~(Expired(jobs[j]) /\ jobs[j].attempts >= MaxAttempts)
      <3>1. DeadLettered(jobs)[j] = jobs[j]
        BY <2>3 DEF DeadLettered
      <3> QED
        BY <2>3, <3>1, EntryOf, LapsedMeansExpired
    <2> QED
      BY <2>2, <2>3
  <1> QED
    BY <1>1 DEF Ledger!AfterGivingUp

LEMMA LedgerBegins == QueueInit => Ledger!Init
  <1> SUFFICES ASSUME QueueInit PROVE Ledger!Init
    OBVIOUS
  <1>1. \A j \in Jobs : LedgerEntry(jobs[j]) = Ledger!Entry("absent", 0, NoError, NoJob)
    BY DEF QueueInit, NoRow, NewRow, LedgerEntry, Ledger!Entry
  <1>2. \A j \in Jobs : ~Unexpired(jobs[j])
    BY DEF QueueInit, NoRow, NewRow, Unexpired, Running
  <1>3. Entries = [j \in Jobs |-> Ledger!Entry("absent", 0, NoError, NoJob)]
    BY <1>1 DEF Entries
  <1>4. InForce = {}
    BY <1>2 DEF InForce
  <1> QED
    BY <1>3, <1>4 DEF Ledger!Init

(* A step that changes no row is not in the ledger.                        *)
LEMMA Unnoticed ==
  ASSUME jobs' = jobs
  PROVE  UNCHANGED Ledger!vars
  <1>1. Entries' = Entries /\ InForce' = InForce
    BY EntriesAfter DEF Entries, InForce
  <1> QED
    BY <1>1 DEF Ledger!vars

(* One row is replaced: so is its entry, and its lease runs or not.        *)
LEMMA EntryReplaced ==
  ASSUME NEW j \in Jobs, NEW row, jobs \in [Jobs -> Row],
         jobs' = [jobs EXCEPT ![j] = row]
  PROVE  /\ Entries' = [Entries EXCEPT ![j] = LedgerEntry(row)]
         /\ ~Unexpired(row) => InForce' = InForce \ {j}
  <1>1. /\ \A i \in Jobs : jobs'[i] = IF i = j THEN row ELSE jobs[i]
    OBVIOUS
  <1>2. Entries' = [Entries EXCEPT ![j] = LedgerEntry(row)]
    BY <1>1, EntriesAfter DEF Entries
  <1>3. ASSUME ~Unexpired(row)
        PROVE  InForce' = InForce \ {j}
    BY <1>1, <1>3, EntriesAfter DEF InForce
  <1> QED
    BY <1>2, <1>3

LEMMA EnqueueAccepts ==
  ASSUME GoodTable(jobs), NEW j \in Jobs, NEW refresh \in BOOLEAN, Enqueue(j, refresh)
  PROVE  Ledger!Accept(j)
  <1> DEFINE row == NewRow("pending", refresh)
  <1>1. /\ jobs' = [jobs EXCEPT ![j] = row] /\ jobs[j].status = "absent"
        /\ jobs \in [Jobs -> Row]
    BY DEF Enqueue, GoodTable
  <1>2. /\ LedgerEntry(row) = Ledger!Entry("pending", 0, NoError, NoJob)
        /\ ~Unexpired(row)
    BY DEF NewRow, LedgerEntry, Ledger!Entry, Unexpired, Running
  <1> HIDE DEF row
  <1>3. /\ Entries' = [Entries EXCEPT ![j] = Ledger!Entry("pending", 0, NoError, NoJob)]
        /\ InForce' = InForce \ {j}
    BY <1>1, <1>2, EntryReplaced
  <1>4. j \notin InForce
    BY <1>1, EntryOf DEF Unexpired, Running
  <1> QED
    BY <1>1, <1>3, <1>4, EntryOf DEF Ledger!Accept

(* A claim gives up what has lapsed for good, and begins the attempt it    *)
(* hands out while none is in force.                                       *)
LEMMA ClaimBegins ==
  ASSUME QueueInv, NEW w \in Workers, Claim(w)
  PROVE  Ledger!GiveUp \/ \E j \in Jobs : Ledger!Begin(j)
  <1> DEFINE table == DeadLettered(jobs)
  <1>1. GoodTable(jobs) /\ GoodTable(table) /\ table \in [Jobs -> Row]
    BY InvParts, DeadLetteredGood DEF GoodTable
  <1>2. Ledger!AfterGivingUp = [i \in Jobs |-> LedgerEntry(table[i])]
    BY <1>1, GivenUpAlike
  <1>3. \A i \in Jobs : Unexpired(table[i]) <=> Unexpired(jobs[i])
    BY <1>1, DeadLetteredRow
  <1>4. CASE jobs' = table
    <2>1. Entries' = Ledger!AfterGivingUp
      BY <1>2, <1>4, EntriesAfter
    <2>2. InForce' = InForce
      BY <1>3, <1>4, EntriesAfter DEF InForce
    <2> QED
      BY <2>1, <2>2 DEF Ledger!GiveUp
  <1>5. ASSUME NEW j \in Candidates(table), jobs' = [table EXCEPT ![j] = Leased(table[j])]
        PROVE  Ledger!Begin(j) /\ j \in Jobs
    <2>1. j \in Jobs /\ Claimable(table[j]) /\ \A i \in Jobs : ~Unexpired(table[i])
      BY DEF Candidates
    <2>2. InForce = {}
      BY <1>3, <2>1 DEF InForce
    <2>3. table[j].attempts < MaxAttempts /\ table[j] \in Row /\ table[j].attempts \in Int
      BY <1>1, <2>1, DeadLetteredRow, AttemptsAreInts DEF GoodTable
    <2>4. table[j] = jobs[j]
      <3>1. jobs[j] \in Row
        BY <1>1, <2>1 DEF GoodTable
      <3>2. [jobs[j] EXCEPT !.status = "dead", !.error = LeaseExpired].status = "dead"
        BY <3>1 DEF Row
      <3> QED
        BY <2>1, <3>2, DeadLetteredOnly DEF Claimable
    <2>5. /\ Entries[j].status \in {"pending", "running"} /\ ~Ledger!Exhausted(j)
      BY <1>1, <2>1, <2>3, <2>4, EntryOf, LapsedMeansExpired DEF Claimable
    <2> DEFINE row == Leased(jobs[j])
    <2>6. LedgerEntry(row) = Ledger!Entry("running", Entries[j].attempts + 1,
                                          Entries[j].reason, Entries[j].release)
      BY <2>1, EntryOf DEF Leased, LedgerEntry, Ledger!Entry
    <2>7. Unexpired(row)
      BY QueueAssumption DEF Leased, Unexpired, Running
    <2> HIDE DEF row
    <2>8. \A i \in Jobs : jobs'[i] = IF i = j THEN row ELSE table[i]
      BY <1>1, <1>5, <2>1, <2>4 DEF row
    <2> HIDE DEF table
    <2>9. Entries' = [Ledger!AfterGivingUp EXCEPT ![j] = LedgerEntry(row)]
      BY <1>2, <2>8, EntriesAfter
    <2>10. InForce' = {j}
      BY <2>1, <2>7, <2>8, EntriesAfter
    <2> QED
      BY <2>1, <2>2, <2>5, <2>6, <2>9, <2>10 DEF Ledger!Begin
  <1> QED
    BY <1>4, <1>5 DEF Claim

(* A verdict concludes the attempt that holds the row, and a refused one   *)
(* is not in the ledger.                                                   *)
LEMMA FinishConcludes ==
  ASSUME QueueInv, NEW w \in Workers, Finish(w)
  PROVE  UNCHANGED Ledger!vars \/ \E j \in Jobs : Ledger!Conclude(j)
  <1> DEFINE j == workers[w].job
             row == Finished(jobs[j], workers[w])
  <1>1. GoodTable(jobs) /\ GoodWorkers(workers, jobs) /\ jobs \in [Jobs -> Row]
    BY InvParts DEF GoodTable
  <1>2. CASE ~HoldsRow(workers[w])
    BY <1>2, Unnoticed DEF Finish
  <1>3. CASE HoldsRow(workers[w])
    <2>1. /\ workers[w] \in Worker /\ j \in Jobs /\ GoodRow(jobs[j])
          /\ workers[w].attempt \in 1 .. jobs[j].attempts
      BY <1>1 DEF Finish, GoodWorkers, GoodTable
    <2>2. /\ Running(jobs[j]) /\ jobs[j].lease = workers[w].attempt
          /\ jobs[j].attempts = workers[w].attempt
      BY <1>3, <2>1 DEF HoldsRow, GoodRow, Running
    <2>3. jobs[j].attempts \in 1 .. MaxAttempts
      BY <2>1, <2>2 DEF GoodRow, Row
    <2>4. GoodRow(row) /\ ~Unexpired(row)
      BY <2>1, <2>2, <2>3, FinishedGood
    <2>5. LedgerEntry(row) = Ledger!Entry(Verdict(workers[w]), Entries[j].attempts,
                                          workers[w].error, workers[w].snapshot)
      BY <2>1, EntryOf DEF LedgerEntry, Ledger!Entry, Finished
    <2>6. jobs' = [jobs EXCEPT ![j] = row]
      BY <1>3 DEF Finish
    <2>7. Ledger!Exhausted(j) <=> workers[w].attempt >= MaxAttempts
      BY <1>1, <2>1, <2>2, LapsedMeansExpired
    <2>8. workers[w].snapshot \in Jobs \cup {NoJob} /\ workers[w].error \in {NoError, Failure}
      BY <2>1 DEF Worker, ErrorTexts
    <2>9. Entries[j].status = "running"
      BY <2>1, <2>2, EntryOf DEF Running
    <2> HIDE DEF row, j
    <2>10. /\ Entries' = [Entries EXCEPT ![j] = LedgerEntry(row)]
           /\ InForce' = InForce \ {j}
      BY <1>1, <2>1, <2>4, <2>6, EntryReplaced
    <2>11. CASE workers[w].error = NoError
      <3>1. LedgerEntry(row) = Ledger!Succeeded(j, workers[w].snapshot)
        BY <2>5, <2>11 DEF Verdict, Ledger!Succeeded
      <3> QED
        BY <2>1, <2>8, <2>9, <2>10, <3>1 DEF Ledger!Conclude
    <2>12. CASE workers[w].error # NoError
      <3>1. LedgerEntry(row) = Ledger!Failed(j, Failure, workers[w].snapshot)
        BY <2>5, <2>7, <2>8, <2>12 DEF Verdict, Ledger!Failed
      <3> QED
        BY <2>1, <2>8, <2>9, <2>10, <3>1 DEF Ledger!Conclude
    <2> QED
      BY <2>11, <2>12
  <1> QED
    BY <1>2, <1>3

(* A minute passes: no entry changes, and a lease may run out.             *)
LEMMA TickLapses ==
  ASSUME QueueInv, Tick
  PROVE  UNCHANGED Ledger!vars \/ Ledger!Lapse
  <1>1. GoodTable(jobs) /\ jobs \in [Jobs -> Row]
    BY InvParts DEF GoodTable
  <1>2. ASSUME NEW j \in Jobs
        PROVE  /\ LedgerEntry(jobs'[j]) = LedgerEntry(jobs[j])
               /\ Unexpired(jobs'[j]) => Unexpired(jobs[j])
    <2>1. jobs[j] \in Row /\ jobs[j].due \in Int
      BY <1>1 DEF Row
    <2>2. jobs'[j] = jobs[j] \/ jobs'[j] = [jobs[j] EXCEPT !.due = jobs[j].due - 1]
      BY DEF Tick
    <2> QED
      BY <2>1, <2>2 DEF LedgerEntry, Unexpired, Running, Row
  <1>3. Entries' = Entries
    BY <1>2, EntriesAfter DEF Entries
  <1>4. InForce' \subseteq InForce
    BY <1>2, EntriesAfter DEF InForce
  <1>5. \A i, j \in InForce : i = j
    BY <1>1 DEF GoodTable, InForce
  <1>6. InForce' = InForce \/ InForce' = {}
    BY <1>4, <1>5
  <1> QED
    BY <1>3, <1>6 DEF Ledger!vars, Ledger!Lapse

LEMMA LedgerStep ==
  ASSUME QueueInv, [QueueNext]_queueVars
  PROVE  [Ledger!Next]_(Ledger!vars)
  <1>1. ASSUME NEW j \in Jobs, NEW refresh \in RefreshFlags, Enqueue(j, refresh)
        PROVE  Ledger!Next
    <2>1. Ledger!Accept(j)
      BY <1>1, EnqueueAccepts, InvParts, QueueAssumption
    <2> QED
      BY <2>1 DEF Ledger!Next
  <1>2. ASSUME NEW w \in Workers, Claim(w)
        PROVE  Ledger!Next
    BY <1>2, ClaimBegins DEF Ledger!Next
  <1>3. ASSUME NEW w \in Workers, Finish(w)
        PROVE  [Ledger!Next]_(Ledger!vars)
    BY <1>3, FinishConcludes DEF Ledger!Next
  <1>4. ASSUME NEW w \in Workers, Crawl(w) \/ Build(w) \/ Report(w) \/ Fail(w) \/ Crash(w)
        PROVE  UNCHANGED Ledger!vars
    BY <1>4, Unnoticed DEF Crawl, Build, Report, Fail, Crash
  <1>5. ASSUME Tick
        PROVE  [Ledger!Next]_(Ledger!vars)
    BY <1>5, TickLapses DEF Ledger!Next
  <1>6. UNCHANGED queueVars => UNCHANGED Ledger!vars
    BY Unnoticed DEF queueVars
  <1> QED
    BY <1>1, <1>2, <1>3, <1>4, <1>5, <1>6 DEF QueueNext, Work

-----------------------------------------------------------------------------
(* The theorems                                                            *)

(* The strengthened invariant holds of every state claim, finish, crashes, *)
(* time and the two stages of work can lead to.                            *)
THEOREM QueueInvariance == QueueSpec => []QueueInv
  <1> QED
    BY QueueInitInv, QueueNextInv, PTL DEF QueueSpec

(* Rows and workers keep their types: claim never hands out a job a fourth *)
(* time.                                                                   *)
THEOREM QueueTypeCorrect == QueueSpec => []QueueTypeOK
  <1>1. QueueInv => QueueTypeOK
    BY DEF QueueInv
  <1> QED
    BY <1>1, QueueInvariance, PTL

(* The interlock of claim: one lease running in the whole queue, and no    *)
(* two processes with the same claim.                                      *)
THEOREM OneIndexerAtATime == QueueSpec => []OneIndexer
  <1>1. QueueInv => OneIndexer
    BY DEF QueueInv
  <1> QED
    BY <1>1, QueueInvariance, PTL

(* The dead-letter rule of claim and finish: three attempts and a reason.  *)
THEOREM DeadLettersTold == QueueSpec => []DeadLettersTellWhy
  <1>1. QueueInv => DeadLettersTellWhy
    BY DEF QueueInv
  <1> QED
    BY <1>1, QueueInvariance, PTL

(* The WHERE clause of finish: a row is done, or waits for a retry, on the *)
(* word of the process that holds its latest attempt and of no other.      *)
THEOREM OwnVerdicts == QueueSpec => VerdictsAreOwn
  <1>1. QueueInv /\ [QueueNext]_queueVars => [\A j \in Jobs : VerdictFromHolder(j)]_queueVars
    BY RowsStep
  <1> QED
    BY <1>1, QueueInvariance, PTL DEF QueueSpec, VerdictsAreOwn

(* The queue implements the ledger of attempts, for any number of periods, *)
(* processes, crashes and leases that run out: each step of it is one      *)
(* entry of the ledger or none.                                            *)
THEOREM ImplementsLedger == QueueSpec => AttemptsAreAccounted
  <1>1. QueueInv /\ [QueueNext]_queueVars => [Ledger!Next]_(Ledger!vars)
    BY LedgerStep
  <1> QED
    BY <1>1, LedgerBegins, QueueInvariance, PTL
       DEF QueueSpec, AttemptsAreAccounted, Ledger!Spec

(* Nothing rewrites the outcome of a period: not a late process, not a     *)
(* second enqueue, not a claim.                                            *)
THEOREM OutcomesKept == QueueSpec => OutcomesStay
  <1>1. QueueInv /\ [QueueNext]_queueVars
          => [\A j \in Jobs : Terminal(jobs[j]) => jobs'[j] = jobs[j]]_queueVars
    BY RowsStep
  <1> QED
    BY <1>1, QueueInvariance, PTL DEF QueueSpec, OutcomesStay

=============================================================================
