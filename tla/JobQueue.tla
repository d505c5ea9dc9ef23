------------------------------- MODULE JobQueue -------------------------------
(***************************************************************************)
(* The durable job queue of scheduled ingestion (indexing/pipeline.py) and *)
(* the processes that drain it.  Cron starts a process every minute; each  *)
(* enqueues at most one schedule period, claims at most one job, runs a    *)
(* crawl and an index build for it, and records the outcome on the row.    *)
(* Processes overlap, die between any two steps, and outlive their leases. *)
(*                                                                         *)
(* Time is counted in minutes, relative to now: a row's `due` is how far   *)
(* ahead its due time is, and Tick brings every due time one minute closer.*)
(* A due time more than MaxOverdue minutes ago is kept as MaxOverdue ago.  *)
(*                                                                         *)
(* A lease token is a fresh uuid4 per claim.  It is represented by the     *)
(* attempt number the same claim wrote, which is as fresh for that row.    *)
(* A release of the knowledge store is represented by the job that         *)
(* published it.                                                           *)
(***************************************************************************)
EXTENDS Integers

CONSTANTS
  Jobs,            \* ids of schedule periods, as naturals: `ORDER BY due,id`
  Workers,         \* the ingestion processes that may be running at once
  RefreshFlags,    \* whether a period may ask for a crawl first (--refresh)
  LeaseLength,     \* lease_seconds, in minutes
  MaxOverdue       \* how far in the past a due time is told apart

MaxAttempts == 3

ASSUME QueueAssumption ==
  /\ Jobs \subseteq Nat
  /\ RefreshFlags \subseteq BOOLEAN
  /\ LeaseLength \in Nat \ {0}
  /\ MaxOverdue \in Nat

NoJob == -1                   \* no job, no release: snapshot=''
NoError == "no_text"         \* error=''
NoLease == 0                  \* lease IS NULL

(* What str(exc) may be: every exception raised by the two stages and by   *)
(* the worker itself carries a message, but an exception of the runtime    *)
(* may have none (a MemoryError while a build embeds, for one).            *)
Failure == "failed"
ErrorTexts == {Failure, NoError}
LeaseExpired == "worker_lease_expired"

(* 60 * 2 ** (attempts - 1) seconds, for the three attempts there are.     *)
Backoff == <<1, 2, 4>>

Horizon == IF LeaseLength > 4 THEN LeaseLength ELSE 4

Row == [status   : {"absent", "pending", "running", "done", "dead"},
        refresh  : BOOLEAN,
        attempts : 0 .. MaxAttempts,
        due      : -MaxOverdue .. Horizon,
        lease    : 0 .. MaxAttempts,
        error    : {NoError, Failure, LeaseExpired},
        snapshot : Jobs \cup {NoJob}]

Worker == [at       : {"idle", "crawl", "index", "report", "finish"},
           job      : Jobs \cup {NoJob},
           attempt  : 0 .. MaxAttempts,
           error    : ErrorTexts,
           snapshot : Jobs \cup {NoJob}]

VARIABLES
  jobs,        \* the table: one row per schedule period, or "absent"
  workers,     \* what each process holds of the job it claimed
  live,        \* the release being served, by the job that published it
  published    \* the jobs that have published a release

queueVars == <<jobs, workers, live, published>>

NewRow(status, refresh) ==
  [status |-> status, refresh |-> refresh, attempts |-> 0, due |-> 0,
   lease |-> NoLease, error |-> NoError, snapshot |-> NoJob]
NoRow == NewRow("absent", FALSE)

IdleWorker == [at |-> "idle", job |-> NoJob, attempt |-> 0, error |-> NoError,
               snapshot |-> NoJob]

QueueInit ==
  /\ jobs = [j \in Jobs |-> NoRow]
  /\ workers = [w \in Workers |-> IdleWorker]
  /\ live = NoJob
  /\ published = {}

-----------------------------------------------------------------------------
(* The table                                                               *)

Running(row) == row.status = "running"
Expired(row) == Running(row) /\ row.due <= 0
Unexpired(row) == Running(row) /\ row.due > 0
Terminal(row) == row.status \in {"done", "dead"}
Claimable(row) == row.status \in {"pending", "running"} /\ row.due <= 0

(* INSERT OR IGNORE: a period that is in the table is left as it is.       *)
Enqueue(j, refresh) ==
  /\ jobs[j].status = "absent"
  /\ jobs' = [jobs EXCEPT ![j] = NewRow("pending", refresh)]
  /\ UNCHANGED <<workers, live, published>>

(* First statement of claim: a crashed third attempt is given up.  The     *)
(* lease stays on the row.                                                 *)
DeadLettered_StrictBound(table) ==
  [j \in Jobs |-> IF Expired(table[j]) /\ table[j].attempts > MaxAttempts
                  THEN [table[j] EXCEPT !.status = "dead", !.error = LeaseExpired]
                  ELSE table[j]]
DeadLettered_NoReason(table) ==
  [j \in Jobs |-> IF Expired(table[j]) /\ table[j].attempts >= MaxAttempts
                  THEN [table[j] EXCEPT !.status = "dead"]
                  ELSE table[j]]
DeadLettered(table) ==
  [j \in Jobs |-> IF Expired(table[j]) /\ table[j].attempts >= MaxAttempts
                  THEN [table[j] EXCEPT !.status = "dead", !.error = LeaseExpired]
                  ELSE table[j]]

(* Second statement of claim: nothing at all while any lease runs,         *)
(* otherwise whatever is due, the earliest due and then the least id first.*)
Candidates_NoInterlock(table) == {j \in Jobs : Claimable(table[j])}
Candidates_PendingOnly(table) ==
  {j \in Jobs : /\ Claimable(table[j]) /\ ~Running(table[j])
                /\ \A i \in Jobs : ~Unexpired(table[i])}
Candidates(table) ==
  {j \in Jobs : Claimable(table[j]) /\ \A i \in Jobs : ~Unexpired(table[i])}

Precedes(table, i, j) ==
  \/ table[i].due < table[j].due
  \/ table[i].due = table[j].due /\ (i <= j \/ table[i].due = -MaxOverdue)

(* Third statement of claim.                                               *)
Leased(row) ==
  [status |-> "running", refresh |-> row.refresh, attempts |-> row.attempts + 1,
   due |-> LeaseLength, lease |-> row.attempts + 1,
   error |-> row.error, snapshot |-> row.snapshot]

(* The process that made the claim starts with a crawl if it was asked to. *)
Claimed(j, row) ==
  [at |-> IF row.refresh THEN "crawl" ELSE "index", job |-> j,
   attempt |-> row.attempts + 1, error |-> NoError, snapshot |-> NoJob]

(* The row that finish makes of the verdict of a claim's worker.           *)
Verdict(worker) ==
  IF worker.error = NoError THEN "done"
  ELSE IF worker.attempt >= MaxAttempts THEN "dead" ELSE "pending"

Finished(row, worker) ==
  [status |-> Verdict(worker), refresh |-> row.refresh, attempts |-> row.attempts,
   due |-> Backoff[worker.attempt], lease |-> NoLease,
   error |-> worker.error, snapshot |-> worker.snapshot]

(* The WHERE clause of finish.                                             *)
HoldsRow_AnyLease(worker) == Running(jobs[worker.job])
HoldsRow_AnyStatus(worker) == jobs[worker.job].lease = worker.attempt
HoldsRow(worker) == Running(jobs[worker.job]) /\ jobs[worker.job].lease = worker.attempt

-----------------------------------------------------------------------------
(* One invocation of the pipeline                                          *)

(* claim is one write transaction; with nothing to claim the process ends. *)
Claim(w) ==
  /\ workers[w].at = "idle"
  /\ LET table == DeadLettered(jobs) IN
       \/ /\ Candidates(table) = {}
          /\ jobs' = table
          /\ UNCHANGED workers
       \/ \E j \in Candidates(table) :
            /\ \A i \in Candidates(table) : Precedes(table, j, i)
            /\ jobs' = [table EXCEPT ![j] = Leased(@)]
            /\ workers' = [workers EXCEPT ![w] = Claimed(j, table[j])]
  /\ UNCHANGED <<live, published>>

Crawl(w) ==
  /\ workers[w].at = "crawl"
  /\ workers' = [workers EXCEPT ![w] = [@ EXCEPT !.at = "index"]]
  /\ UNCHANGED <<jobs, live, published>>

(* apply_delta inside index.build commits a release.                       *)
Build(w) ==
  /\ workers[w].at = "index"
  /\ live' = workers[w].job
  /\ published' = published \cup {workers[w].job}
  /\ workers' = [workers EXCEPT ![w] = [@ EXCEPT !.at = "report"]]
  /\ UNCHANGED jobs

(* index.build reads the live release for its report and returns.          *)
Report(w) ==
  /\ workers[w].at = "report"
  /\ workers' = [workers EXCEPT ![w] = [@ EXCEPT !.at = "finish", !.snapshot = live]]
  /\ UNCHANGED <<jobs, live, published>>

(* The crawl fails or returns non-zero, the build raises before or after   *)
(* its commit, or it reports failed sources: work() makes each an error.   *)
Fail(w) ==
  /\ workers[w].at \in {"crawl", "index", "report"}
  /\ \E text \in ErrorTexts :
       workers' = [workers EXCEPT ![w] = [@ EXCEPT !.at = "finish", !.error = text]]
  /\ UNCHANGED <<jobs, live, published>>

(* finish: the row takes the verdict if this claim still holds it, and     *)
(* raises otherwise.  Either way the process ends.                         *)
Finish(w) ==
  /\ workers[w].at = "finish"
  /\ jobs' = IF HoldsRow(workers[w])
             THEN [jobs EXCEPT ![workers[w].job] = Finished(@, workers[w])]
             ELSE jobs
  /\ workers' = [workers EXCEPT ![w] = IdleWorker]
  /\ UNCHANGED <<live, published>>

(* The process is killed: nothing on the row says so.                      *)
Crash(w) ==
  /\ workers[w].at # "idle"
  /\ workers' = [workers EXCEPT ![w] = IdleWorker]
  /\ UNCHANGED <<jobs, live, published>>

(* A minute passes.  Nothing reads the due time of a terminal row again.   *)
Tick ==
  /\ jobs' = [j \in Jobs |->
       IF jobs[j].status \in {"pending", "running"} /\ jobs[j].due > -MaxOverdue
       THEN [jobs[j] EXCEPT !.due = @ - 1] ELSE jobs[j]]
  /\ UNCHANGED <<workers, live, published>>

Work(w) == Crawl(w) \/ Build(w) \/ Report(w) \/ Fail(w) \/ Finish(w)

QueueNext ==
  \/ \E j \in Jobs, refresh \in RefreshFlags : Enqueue(j, refresh)
  \/ \E w \in Workers : Claim(w) \/ Work(w) \/ Crash(w)
  \/ Tick

(* Time passes, the scheduler keeps starting processes, and a process that *)
(* was started sooner or later takes its next step or dies.  Nothing says  *)
(* that a step ever succeeds, or that a process finishes within its lease. *)
QueueFairness ==
  /\ WF_queueVars(Tick)
  /\ WF_queueVars(\E w \in Workers : Claim(w))
  /\ \A w \in Workers : WF_queueVars(Work(w) \/ Crash(w))

QueueSpec == QueueInit /\ [][QueueNext]_queueVars
FairQueueSpec == QueueSpec /\ QueueFairness

-----------------------------------------------------------------------------
(* Properties                                                              *)

(* Rows and workers have their types; in particular no claim hands out a   *)
(* job for the fourth time, in whatever order attempts fail, crash and     *)
(* overrun.                                                                *)
QueueTypeOK ==
  /\ jobs \in [Jobs -> Row]
  /\ workers \in [Workers -> Worker]
  /\ live \in Jobs \cup {NoJob}
  /\ published \subseteq Jobs

Busy(w) == workers[w].at # "idle"

(* claim hands out one job at a time across the whole queue: at most one   *)
(* row has a running lease, no two processes hold the same claim, and so   *)
(* at most one process is working under a lease that has not run out.      *)
OneIndexer ==
  /\ \A i, j \in Jobs : Unexpired(jobs[i]) /\ Unexpired(jobs[j]) => i = j
  /\ \A v, w \in Workers :
       /\ Busy(v) /\ Busy(w)
       /\ workers[v].job = workers[w].job
       /\ workers[v].attempt = workers[w].attempt
       => v = w

(* The dead letter is evidence: a row is dead only after its third attempt *)
(* and says why, and a row waiting for a retry has an attempt left and the *)
(* error of the attempt before.                                            *)
DeadLettersTellWhy ==
  \A j \in Jobs :
    /\ jobs[j].status = "dead" => jobs[j].attempts = MaxAttempts /\ jobs[j].error # NoError
    /\ jobs[j].status = "pending" => jobs[j].attempts < MaxAttempts
    /\ jobs[j].status = "pending" /\ jobs[j].attempts > 0 => jobs[j].error # NoError

(* A verdict is only ever written by the attempt that holds the row: a row *)
(* that stops running without having been given up is finished by a worker *)
(* holding its latest claim.                                               *)
VerdictFromHolder(j) ==
  jobs[j].status = "running" /\ jobs'[j].status \in {"done", "pending"}
    => \E w \in Workers : /\ workers[w].at = "finish"
                          /\ workers[w].job = j
                          /\ workers[w].attempt = jobs[j].attempts
VerdictsAreOwn == [][\A j \in Jobs : VerdictFromHolder(j)]_queueVars

(* Nothing is ever deleted and no outcome is rewritten: a row that is done *)
(* or dead stays as it is, whoever still works for it.                     *)
OutcomesStay ==
  [][\A j \in Jobs : Terminal(jobs[j]) => jobs'[j] = jobs[j]]_queueVars

(* The queue, its processes and its leases implement AttemptLedger: the    *)
(* attempt in force is the one whose lease has not run out.                *)
InForce == {j \in Jobs : Unexpired(jobs[j])}
LedgerEntry(row) == [status |-> row.status, attempts |-> row.attempts,
                     reason |-> row.error, release |-> row.snapshot]
Entries == [j \in Jobs |-> LedgerEntry(jobs[j])]
Ledger == INSTANCE AttemptLedger WITH
  Periods <- Jobs,
  Reasons <- {Failure},
  NoReason <- NoError,
  Abandoned <- LeaseExpired,
  Releases <- Jobs,
  Nothing <- NoJob,
  ledger <- Entries,
  inForce <- InForce

(* Whatever is interleaved, killed or late: an attempt begins only while   *)
(* no lease runs, there are three at most, a period is given up only after *)
(* its last attempt lapsed, and an outcome is final and complete.          *)
AttemptsAreAccounted == Ledger!Spec

(* Every period that is enqueued ends done or dead, although any process   *)
(* may be killed at any step and any attempt may fail or overrun.          *)
EveryJobEnds ==
  \A j \in Jobs : jobs[j].status = "pending" ~> Terminal(jobs[j])

(* "Success is `done` with the published snapshot id kept on the row":     *)
(* violated, because an exception without a text is taken for a success.   *)
DoneMeansPublished ==
  \A j \in Jobs : jobs[j].status = "done" => j \in published /\ jobs[j].snapshot # NoJob

=============================================================================
