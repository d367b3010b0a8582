------------------------------ MODULE IngestJobs ------------------------------
(***************************************************************************)
(* Ingestion jobs: api/v1/jobs.py inserts a job's row and enqueues it in   *)
(* one transaction, the worker of worker/tasks.py picks it up, waits for   *)
(* the row to be committed, ingests file by file and reports its progress, *)
(* each status in a transaction of its own.                                *)
(*                                                                         *)
(* A request may be rolled back after it has enqueued; the worker may die; *)
(* Redis may lose its queue, and the database may refuse any write.        *)
(***************************************************************************)
EXTENDS Naturals

CONSTANTS
  Jobs,
  NoJob,
  MaxFiles,  \* the most files a directory holds
  Polls      \* how often _wait_for_job_row looks

ASSUME JobsAssumption ==
  NoJob \notin Jobs /\ MaxFiles \in Nat /\ Polls \in Nat \ {0}

VARIABLES
  submission,  \* the request that submits each job
  job,         \* the committed rows of ingest_job
  queue,       \* the jobs in Redis
  worker,      \* the one job in work, and the worker's local variables
  \* history, read by no action
  ingested,    \* documents committed for each job
  dropped      \* jobs that met with a failure no status was written for

jobsVars == <<submission, job, queue, worker, ingested, dropped>>

JobStatuses == {"none", "queued", "running", "failed", "succeeded"}
Ended == {"failed", "succeeded"}
NoRow == [status |-> "none", total |-> 0, done |-> 0, created |-> 0]
Idle == [at |-> "idle", job |-> NoJob, polls |-> 0, file |-> 0, created |-> 0]

JobsInit ==
  /\ submission = [j \in Jobs |-> "none"]
  /\ job = [j \in Jobs |-> NoRow]
  /\ queue = {}
  /\ worker = Idle
  /\ ingested = [j \in Jobs |-> 0]
  /\ dropped = {}

-------------------------------------------------------------------------------
(* submit_ingest. *)

Submits(j, from, to) ==
  /\ submission[j] = from
  /\ submission' = [submission EXCEPT ![j] = to]

InsertRow(j) ==
  /\ Submits(j, "none", "inserted")
  /\ UNCHANGED <<job, queue, worker, ingested, dropped>>

\* Within the transaction that inserts the row.
Enqueue(j) ==
  /\ Submits(j, "inserted", "enqueued")
  /\ queue' = queue \cup {j}
  /\ UNCHANGED <<job, worker, ingested, dropped>>

\* The dependency commits when the request completes.
CommitRow(j) ==
  /\ Submits(j, "enqueued", "committed")
  /\ job' = [job EXCEPT ![j] = [NoRow EXCEPT !.status = "queued"]]
  /\ UNCHANGED <<queue, worker, ingested, dropped>>

\* Redis out of reach, the database gone, the API killed.
RollBack(j) ==
  /\ \E from \in {"inserted", "enqueued"} : Submits(j, from, "rolled back")
  /\ UNCHANGED <<job, queue, worker, ingested, dropped>>

-------------------------------------------------------------------------------
(* ingest_directory_task. *)

\* One job at a time (max_jobs).
PickUp ==
  /\ worker = Idle
  /\ \E j \in queue :
       /\ worker' = [Idle EXCEPT !.at = "waiting", !.job = j]
       /\ queue' = queue \ {j}
  /\ UNCHANGED <<submission, job, ingested, dropped>>

FindRow ==
  /\ worker.at = "waiting" /\ worker.polls < Polls /\ job[worker.job] # NoRow
  /\ worker' = [worker EXCEPT !.at = "starting"]
  /\ UNCHANGED <<submission, job, queue, ingested, dropped>>

Poll ==
  /\ worker.at = "waiting" /\ worker.polls < Polls /\ job[worker.job] = NoRow
  /\ worker' = [worker EXCEPT !.polls = @ + 1]
  /\ UNCHANGED <<submission, job, queue, ingested, dropped>>

\* "the submitting transaction rolled back": so it is taken to have been, and
\* the row is not looked for again after the last pause.
GiveUp ==
  /\ worker.at = "waiting" /\ worker.polls = Polls
  /\ worker' = Idle
  /\ dropped' = dropped \cup {worker.job}
  /\ UNCHANGED <<submission, job, queue, ingested>>

\* get_embedding_provider has nothing to offer.
NoProvider ==
  /\ worker.at = "starting"
  /\ job' = [job EXCEPT ![worker.job].status = "failed"]
  /\ worker' = Idle
  /\ UNCHANGED <<submission, queue, ingested, dropped>>

\* The next file, or the end.
After(file, total) == IF file < total THEN "file" ELSE "finishing"

Begin ==
  /\ worker.at = "starting"
  /\ \E total \in 0 .. MaxFiles :
       /\ job' = [job EXCEPT ![worker.job].status = "running", ![worker.job].total = total]
       /\ worker' = [worker EXCEPT !.at = After(0, total)]
  /\ UNCHANGED <<submission, queue, ingested, dropped>>

\* A bug: progress would be reported within the file's transaction.
MutantReportsEarly(n) ==
  /\ worker.at = "file"
  /\ worker' = [worker EXCEPT !.at = "committing", !.created = @ + n]
  /\ job' = [job EXCEPT ![worker.job].created = worker.created + n]
  /\ UNCHANGED <<submission, queue, ingested, dropped>>
\* ingest_file adds a document, or skips the file.
IngestFile(n) ==
  /\ worker.at = "file"
  /\ worker' = [worker EXCEPT !.at = "committing", !.created = @ + n]
  /\ UNCHANGED <<submission, job, queue, ingested, dropped>>

\* The file's own transaction.
CommitFile ==
  /\ worker.at = "committing"
  /\ worker' = [worker EXCEPT !.at = "reporting", !.file = @ + 1]
  /\ ingested' = [ingested EXCEPT ![worker.job] = worker.created]
  /\ UNCHANGED <<submission, job, queue, dropped>>

Report ==
  /\ worker.at = "reporting"
  /\ job' = [job EXCEPT ![worker.job].done = worker.file,
                        ![worker.job].created = worker.created]
  /\ worker' = [worker EXCEPT !.at = After(worker.file, job[worker.job].total)]
  /\ UNCHANGED <<submission, queue, ingested, dropped>>

\* A bug: the task would end with the exception, its status unchanged.
MutantRaises ==
  /\ worker.at \in {"file", "committing", "reporting"}
  /\ worker' = Idle
  /\ UNCHANGED <<submission, job, queue, ingested, dropped>>
\* An exception within the loop, the progress report's included.
FileFails ==
  /\ worker.at \in {"file", "committing", "reporting"}
  /\ worker' = [worker EXCEPT !.at = "failing"]
  /\ UNCHANGED <<submission, job, queue, ingested, dropped>>

MarkFailed ==
  /\ worker.at = "failing"
  /\ job' = [job EXCEPT ![worker.job].status = "failed"]
  /\ worker' = Idle
  /\ UNCHANGED <<submission, queue, ingested, dropped>>

MarkSucceeded ==
  /\ worker.at = "finishing"
  /\ job' = [job EXCEPT ![worker.job].status = "succeeded",
                        ![worker.job].created = worker.created]
  /\ worker' = Idle
  /\ UNCHANGED <<submission, queue, ingested, dropped>>

\* A status that cannot be written ends the task: nothing catches that.
StatusFails ==
  /\ worker.at \in {"starting", "failing", "finishing"}
  /\ worker' = Idle
  /\ dropped' = dropped \cup {worker.job}
  /\ UNCHANGED <<submission, job, queue, ingested>>

\* The worker is killed.  Started again, it aborts the job (max_tries).
Killed ==
  /\ worker # Idle
  /\ worker' = Idle
  /\ dropped' = dropped \cup {worker.job}
  /\ UNCHANGED <<submission, job, queue, ingested>>

\* Redis keeps nothing over a restart.
QueueLost ==
  /\ queue # {}
  /\ queue' = {}
  /\ dropped' = dropped \cup queue
  /\ UNCHANGED <<submission, job, worker, ingested>>

-------------------------------------------------------------------------------
Task ==
  \/ FindRow \/ Poll \/ GiveUp \/ NoProvider \/ Begin
  \/ \E n \in 0 .. 1 : IngestFile(n)
  \/ CommitFile \/ Report \/ FileFails \/ MarkFailed \/ MarkSucceeded \/ StatusFails

JobsNext ==
  \/ \E j \in Jobs : InsertRow(j) \/ Enqueue(j) \/ CommitRow(j) \/ RollBack(j)
  \/ PickUp \/ Task \/ Killed \/ QueueLost

JobsSpec == JobsInit /\ [][JobsNext]_jobsVars

\* A worker that is up goes on with its job, and picks up the next; the waits of
\* a task are bounded.  Nothing is assumed of requests, of Redis, or of the
\* worker staying alive.
JobsFairness == WF_jobsVars(PickUp) /\ WF_jobsVars(Task)

-------------------------------------------------------------------------------
(* Properties. *)

JobsTypeOK ==
  /\ submission \in [Jobs -> {"none", "inserted", "enqueued", "committed", "rolled back"}]
  /\ job \in [Jobs -> [status: JobStatuses, total: Nat, done: Nat, created: Nat]]
  /\ queue \subseteq Jobs
  /\ worker \in [at: {"idle", "waiting", "starting", "file", "committing", "reporting",
                      "failing", "finishing"},
                 job: Jobs \cup {NoJob}, polls: Nat, file: Nat, created: Nat]
  /\ ingested \in [Jobs -> Nat]
  /\ dropped \subseteq Jobs

\* A job never reports a document that is not committed, nor a file that it does
\* not have; one that succeeded reports all there are.
ProgressIsReal ==
  \A j \in Jobs :
    /\ job[j].created <= ingested[j] /\ job[j].done <= job[j].total
    /\ job[j].status = "succeeded" =>
         job[j].created = ingested[j] /\ job[j].done = job[j].total

\* A job's progress never goes back, and an ended job never changes, whatever
\* became of the worker in between (worker/main.py, "Do NOT retry").
ProgressIsForGood ==
  [][ \A j \in Jobs :
        /\ job'[j].done >= job[j].done /\ job'[j].created >= job[j].created
        /\ job[j].status \in Ended => job'[j] = job[j] ]_jobsVars

\* A job that was accepted ends, failed or succeeded, unless the worker was
\* killed, the queue lost, a status not written, or the row committed too late.
JobsEnd ==
  \A j \in Jobs : job[j].status = "queued" ~> job[j].status \in Ended \/ j \in dropped
================================================================================
