------------------------------ MODULE Campaigns ------------------------------
(***************************************************************************)
(* One-time campaigns: the rows of the campaigns table, the HTTP requests  *)
(* that drive them (CampaignsService), the one BullMQ queue that all       *)
(* campaigns share (MessageQueueService) and the workers that drain it     *)
(* (MessageWorkerService.processCampaignMessage).                          *)
(*                                                                         *)
(* A request or a worker runs one await at a time: whatever it read before *)
(* an await may have changed when it resumes.  Requests are one-shot; a    *)
(* request that the service rejects changes nothing and is not a step.     *)
(***************************************************************************)
EXTENDS Integers, FiniteSets

CONSTANTS
    Campaign,      \* ids of campaign rows
    Contact,       \* contacts an audience can contain
    Request,       \* the HTTP requests ever made; a launch request names its batch
    Worker,        \* slots of the campaign worker (its concurrency)
    NoCampaign,    \* the campaign of a request not made yet
    NoJob,         \* the job of an idle worker slot
    MaxFaults      \* bound: crashes and database errors in a behaviour

Job == Request \X Contact       \* jobId `${batchId}-${i}`: a batch and a recipient

ASSUME FiniteSets == IsFiniteSet(Contact) /\ IsFiniteSet(Request)
ASSUME NullsAreFresh == NoCampaign \notin Campaign /\ NoJob \notin Job
ASSUME MaxFaultsIsNat == MaxFaults \in Nat

MaxStalls == 1                  \* BullMQ's default maxStalledCount

VARIABLES
    row,           \* campaigns: status, totalRecipients, sentCount, failedCount, completedAt
    request,       \* where each request is, and what it read
    jobState,      \* BullMQ's state of each job
    stalls,        \* how often BullMQ took the job back from a dead worker
    accepted,      \* how often the Graph API accepted this job's message
    paused,        \* the campaign queue is paused: one flag for every campaign
    worker,        \* where each worker slot is, its job, and the result it holds
    faults         \* crashes and database errors so far

vars == <<row, request, jobState, stalls, accepted, paused, worker, faults>>

Status == {"DRAFT", "SCHEDULED", "RUNNING", "PAUSED", "COMPLETED", "CANCELLED"}
RowStatus == Status \cup {"ABSENT", "DELETED"}
Op == {"launch", "schedule", "pause", "resume", "cancel", "update", "delete"}
RequestPC == {"free", "markRunning", "addJobs", "pauseQueue", "resumeQueue",
              "writeStatus", "writeTotal", "deleteRow", "done"}
WorkerPC == {"idle", "send", "count", "check", "complete", "catch"}
JobState == {"none", "waiting", "active", "completed", "failed"}

NoRow == [status |-> "ABSENT", total |-> 0, sent |-> 0, failed |-> 0, completedAt |-> FALSE]
NewRow(n) == [NoRow EXCEPT !.status = "DRAFT", !.total = n]
NoRequest == [op |-> "none", pc |-> "free", campaign |-> NoCampaign, ids |-> {}, total |-> 0]
IdleWorker == [pc |-> "idle", job |-> NoJob, ok |-> FALSE]

Row == [status: RowStatus, total: Nat, sent: Nat, failed: Nat, completedAt: BOOLEAN]
RequestRecord == [op: Op \cup {"none"}, pc: RequestPC, campaign: Campaign \cup {NoCampaign},
                  ids: SUBSET Contact, total: Nat]
Slot == [pc: WorkerPC, job: Job \cup {NoJob}, ok: BOOLEAN]

TypeOK ==
    /\ row \in [Campaign -> Row]
    /\ request \in [Request -> RequestRecord]
    /\ jobState \in [Job -> JobState]
    /\ stalls \in [Job -> 0..MaxStalls]
    /\ accepted \in [Job -> Nat]
    /\ paused \in BOOLEAN
    /\ worker \in [Worker -> Slot]
    /\ faults \in 0..MaxFaults

Exists(c) == row[c].status \in Status
CampaignOf(j) == request[j[1]].campaign
JobsOf(c) == {j \in Job : CampaignOf(j) = c /\ jobState[j] # "none"}
InFlight(r) == request[r].pc \notin {"free", "done"}

-----------------------------------------------------------------------------
(* Rows of the table, and what a request reads before its first write.     *)

Init ==
    /\ row = [c \in Campaign |-> NoRow]
    /\ request = [r \in Request |-> NoRequest]
    /\ jobState = [j \in Job |-> "none"]
    /\ stalls = [j \in Job |-> 0]
    /\ accepted = [j \in Job |-> 0]
    /\ paused = FALSE
    /\ worker = [w \in Worker |-> IdleWorker]
    /\ faults = 0

queueVars == <<jobState, stalls, accepted, paused>>
workerVars == <<worker, faults>>

\* totalRecipients is counted over the contacts table, which this module does
\* not keep: any count up to the number of contacts.
Create(c, n) ==
    /\ row[c].status = "ABSENT"
    /\ row' = [row EXCEPT ![c] = NewRow(n)]
    /\ UNCHANGED <<request, queueVars, workerVars>>

Duplicate(c, d) ==
    /\ Exists(c)
    /\ row[d].status = "ABSENT"
    /\ row' = [row EXCEPT ![d] = NewRow(row[c].total)]
    /\ UNCHANGED <<request, queueVars, workerVars>>

\* The read every operation starts with: the row exists, in one of `admitted`.
Begin(r, c, op, admitted, next, ids, total) ==
    /\ request[r].pc = "free"
    /\ row[c].status \in admitted
    /\ request' = [request EXCEPT ![r] = [op |-> op, pc |-> next, campaign |-> c,
                                          ids |-> ids, total |-> total]]
    /\ UNCHANGED <<row, queueVars, workerVars>>

\* The audience is read anew at launch; what it was at creation does not matter.
Launch(r, c, ids) ==
    /\ row[c].total # 0
    /\ ids # {}
    /\ Begin(r, c, "launch", {"DRAFT", "SCHEDULED"}, "markRunning", ids, 0)

Schedule(r, c) == Begin(r, c, "schedule", {"DRAFT"}, "writeStatus", {}, 0)
Pause(r, c) == Begin(r, c, "pause", {"RUNNING"}, "pauseQueue", {}, 0)
Resume(r, c) == Begin(r, c, "resume", {"PAUSED"}, "resumeQueue", {}, 0)
Cancel(r, c) ==
    Begin(r, c, "cancel", {"RUNNING", "PAUSED", "SCHEDULED"}, "writeStatus", {}, 0)
Update(r, c, n) == Begin(r, c, "update", {"DRAFT"}, "writeTotal", {}, n)
Delete(r, c) ==
    Begin(r, c, "delete", {"DRAFT", "COMPLETED", "CANCELLED"}, "deleteRow", {}, 0)

-----------------------------------------------------------------------------
(* The writes of a request, each after an await.                           *)

Continue(r, next) == request' = [request EXCEPT ![r].pc = next]
Finish(r) == request' = [request EXCEPT ![r].pc = "done", ![r].ids = {}, ![r].total = 0]

MarkRunning(r) ==
    LET c == request[r].campaign IN
    /\ request[r].pc = "markRunning"
    /\ Exists(c)
    /\ row' = [row EXCEPT ![c].status = "RUNNING",
                          ![c].total = Cardinality(request[r].ids)]
    /\ Continue(r, "addJobs")
    /\ UNCHANGED <<queueVars, workerVars>>

AddCampaignMessages(r) ==
    /\ request[r].pc = "addJobs"
    /\ jobState' = [j \in Job |-> IF j[1] = r /\ j[2] \in request[r].ids
                                    THEN "waiting" ELSE jobState[j]]
    /\ Finish(r)
    /\ UNCHANGED <<row, stalls, accepted, paused, workerVars>>

PauseQueue(r) ==
    /\ request[r].pc = "pauseQueue"
    /\ paused' = TRUE
    /\ Continue(r, "writeStatus")
    /\ UNCHANGED <<row, jobState, stalls, accepted, workerVars>>

ResumeQueue(r) ==
    /\ request[r].pc = "resumeQueue"
    /\ paused' = FALSE
    /\ Continue(r, "writeStatus")
    /\ UNCHANGED <<row, jobState, stalls, accepted, workerVars>>

Target(op) == CASE op = "schedule" -> "SCHEDULED" [] op = "pause" -> "PAUSED"
                [] op = "resume" -> "RUNNING" [] OTHER -> "CANCELLED"

\* The last write of schedule, pause, resume and cancel: update by id, whatever
\* the status has become since it was read.
WriteStatus(r) ==
    LET c == request[r].campaign IN
    /\ request[r].pc = "writeStatus"
    /\ Exists(c)
    /\ row' = [row EXCEPT ![c].status = Target(request[r].op)]
    /\ Finish(r)
    /\ UNCHANGED <<queueVars, workerVars>>

WriteTotal(r) ==
    LET c == request[r].campaign IN
    /\ request[r].pc = "writeTotal"
    /\ Exists(c)
    /\ row' = [row EXCEPT ![c].total = request[r].total]
    /\ Finish(r)
    /\ UNCHANGED <<queueVars, workerVars>>

DeleteRow(r) ==
    LET c == request[r].campaign IN
    /\ request[r].pc = "deleteRow"
    /\ Exists(c)
    /\ row' = [row EXCEPT ![c].status = "DELETED"]
    /\ Finish(r)
    /\ UNCHANGED <<queueVars, workerVars>>

\* prisma.update and prisma.delete throw when the row is gone.
RowGone(r) ==
    /\ request[r].pc \in {"markRunning", "writeStatus", "writeTotal", "deleteRow"}
    /\ ~Exists(request[r].campaign)
    /\ Finish(r)
    /\ UNCHANGED <<row, queueVars, workerVars>>

-----------------------------------------------------------------------------
(* processCampaignMessage.  Its rate-limit check compares an object with   *)
(* false and never rejects, so it is no guard here.                        *)

At(w, pc) == worker[w].pc = pc
Advance(w, next) == worker' = [worker EXCEPT ![w].pc = next]
Release(w, state) ==
    /\ worker' = [worker EXCEPT ![w] = IdleWorker]
    /\ jobState' = [jobState EXCEPT ![worker[w].job] = state]
CampaignAt(w) == CampaignOf(worker[w].job)

Take(w, j) ==
    /\ At(w, "idle")
    /\ ~paused
    /\ jobState[j] = "waiting"
    /\ jobState' = [jobState EXCEPT ![j] = "active"]
    /\ worker' = [worker EXCEPT ![w] = [pc |-> "send", job |-> j, ok |-> FALSE]]
    /\ UNCHANGED <<row, request, stalls, accepted, paused, faults>>

\* SendApiService.sendMessage never throws.  Accepted: it stored the message (a
\* foreign key to the campaign) and the Graph API took it.
SendAccepted(w) ==
    /\ At(w, "send")
    /\ Exists(CampaignAt(w))
    /\ accepted' = [accepted EXCEPT ![worker[w].job] = @ + 1]
    /\ worker' = [worker EXCEPT ![w].pc = "count", ![w].ok = TRUE]
    /\ UNCHANGED <<row, request, jobState, stalls, paused, faults>>

\* Blocked by the messaging window, refused by the Graph API, or no such row.
SendRefused(w) ==
    /\ At(w, "send")
    /\ worker' = [worker EXCEPT ![w].pc = "count", ![w].ok = FALSE]
    /\ UNCHANGED <<row, request, queueVars, faults>>

\* Mutant: counts every job as sent.
CountAlwaysSent(w) ==
    /\ At(w, "count")
    /\ Exists(CampaignAt(w))
    /\ row' = [row EXCEPT ![CampaignAt(w)].sent = @ + 1]
    /\ Advance(w, "check")
    /\ UNCHANGED <<request, queueVars, faults>>

Incremented(w, c) == IF worker[w].ok THEN [row EXCEPT ![c].sent = @ + 1]
                                     ELSE [row EXCEPT ![c].failed = @ + 1]

\* Mutant: decides with the counters as they were before its own increment.
CountThenStaleCheck(w) ==
    LET c == CampaignAt(w) IN
    /\ At(w, "count")
    /\ Exists(c)
    /\ row' = Incremented(w, c)
    /\ IF row[c].sent + row[c].failed >= row[c].total
         THEN Advance(w, "complete") /\ UNCHANGED jobState
         ELSE Release(w, "completed")
    /\ UNCHANGED <<request, stalls, accepted, paused, faults>>

CountResult(w) ==
    LET c == CampaignAt(w) IN
    /\ At(w, "count")
    /\ Exists(c)
    /\ row' = Incremented(w, c)
    /\ Advance(w, "check")
    /\ UNCHANGED <<request, queueVars, faults>>

\* Mutants: forgets the failed ones; one too early.
AllSent(c) == row[c].sent >= row[c].total
AlmostAllCounted(c) == row[c].sent + row[c].failed + 1 >= row[c].total

AllCounted(c) == row[c].sent + row[c].failed >= row[c].total

CheckComplete(w) ==
    LET c == CampaignAt(w) IN
    /\ At(w, "check")
    /\ IF Exists(c) /\ AllCounted(c)
         THEN Advance(w, "complete") /\ UNCHANGED jobState
         ELSE Release(w, "completed")
    /\ UNCHANGED <<row, request, stalls, accepted, paused, faults>>

\* Writes COMPLETED whatever the status is by now.
CompleteCampaign(w) ==
    LET c == CampaignAt(w) IN
    /\ At(w, "complete")
    /\ Exists(c)
    /\ row' = [row EXCEPT ![c].status = "COMPLETED", ![c].completedAt = TRUE]
    /\ Release(w, "completed")
    /\ UNCHANGED <<request, stalls, accepted, paused, faults>>

\* An update of a row that was deleted meanwhile throws.
WorkerRowGone(w) ==
    /\ worker[w].pc \in {"count", "complete"}
    /\ ~Exists(CampaignAt(w))
    /\ Advance(w, "catch")
    /\ UNCHANGED <<row, request, queueVars, faults>>

\* The catch block counts a failure, whatever was counted before the throw,
\* and does not look whether the campaign is complete.
CatchError(w) ==
    LET c == CampaignAt(w) IN
    /\ At(w, "catch")
    /\ IF Exists(c)
         THEN /\ row' = [row EXCEPT ![c].failed = @ + 1]
              /\ Release(w, "completed")
         ELSE /\ UNCHANGED row
              /\ Release(w, "failed")
    /\ UNCHANGED <<request, stalls, accepted, paused, faults>>

-----------------------------------------------------------------------------
(* Faults: an error of the database or of Redis at an await, and a crash   *)
(* of the process, which holds every request and every worker slot.        *)

Fault == faults < MaxFaults /\ faults' = faults + 1

RequestFails(r) ==
    /\ InFlight(r)
    /\ Fault
    /\ Finish(r)
    /\ UNCHANGED <<row, queueVars, worker>>

\* The message was accepted, but storing that failed: sendMessage reports failure.
AcceptedThenFails(w) ==
    /\ At(w, "send")
    /\ Exists(CampaignAt(w))
    /\ Fault
    /\ accepted' = [accepted EXCEPT ![worker[w].job] = @ + 1]
    /\ worker' = [worker EXCEPT ![w].pc = "count", ![w].ok = FALSE]
    /\ UNCHANGED <<row, request, jobState, stalls, paused>>

WorkerFails(w) ==
    /\ worker[w].pc \in {"count", "check", "complete"}
    /\ Fault
    /\ Advance(w, "catch")
    /\ UNCHANGED <<row, request, queueVars>>

\* The update in the catch block throws too: attempts is 1, so the job fails.
CatchFails(w) ==
    /\ At(w, "catch")
    /\ Fault
    /\ Release(w, "failed")
    /\ UNCHANGED <<row, request, stalls, accepted, paused>>

Crash ==
    /\ Fault
    /\ request' = [r \in Request |->
                     IF InFlight(r)
                       THEN [request[r] EXCEPT !.pc = "done", !.ids = {}, !.total = 0]
                       ELSE request[r]]
    /\ worker' = [w \in Worker |-> IdleWorker]
    /\ UNCHANGED <<row, queueVars>>

\* BullMQ puts an active job without a live worker back to wait, once.
Orphaned(j) == jobState[j] = "active" /\ \A w \in Worker : worker[w].job # j

\* Mutants: takes a job back without counting; never.
StalledUncounted(j) ==
    /\ Orphaned(j)
    /\ jobState' = [jobState EXCEPT ![j] = "waiting"]
    /\ UNCHANGED <<row, request, stalls, accepted, paused, worker, faults>>

StalledIgnored(j) == Orphaned(j) /\ UNCHANGED vars

Stalled(j) ==
    /\ Orphaned(j)
    /\ IF stalls[j] < MaxStalls
         THEN /\ jobState' = [jobState EXCEPT ![j] = "waiting"]
              /\ stalls' = [stalls EXCEPT ![j] = @ + 1]
         ELSE /\ jobState' = [jobState EXCEPT ![j] = "failed"]
              /\ UNCHANGED stalls
    /\ UNCHANGED <<row, request, accepted, paused, worker, faults>>

-----------------------------------------------------------------------------
RequestBegins(r) ==
    \E c \in Campaign :
        \/ \E ids \in SUBSET Contact : Launch(r, c, ids)
        \/ \E n \in 0..Cardinality(Contact) : Update(r, c, n)
        \/ Schedule(r, c)
        \/ Pause(r, c)
        \/ Resume(r, c)
        \/ Cancel(r, c)
        \/ Delete(r, c)

RequestStep(r) ==
    \/ MarkRunning(r)
    \/ AddCampaignMessages(r)
    \/ PauseQueue(r)
    \/ ResumeQueue(r)
    \/ WriteStatus(r)
    \/ WriteTotal(r)
    \/ DeleteRow(r)
    \/ RowGone(r)

WorkerStep(w) ==
    \/ \E j \in Job : Take(w, j)
    \/ SendAccepted(w)
    \/ SendRefused(w)
    \/ CountResult(w)
    \/ CheckComplete(w)
    \/ CompleteCampaign(w)
    \/ WorkerRowGone(w)
    \/ CatchError(w)

FaultStep ==
    \/ \E r \in Request : RequestFails(r)
    \/ \E w \in Worker : AcceptedThenFails(w) \/ WorkerFails(w) \/ CatchFails(w)
    \/ Crash

Next ==
    \/ \E c \in Campaign, n \in 0..Cardinality(Contact) : Create(c, n)
    \/ \E c, d \in Campaign : Duplicate(c, d)
    \/ \E r \in Request : RequestBegins(r) \/ RequestStep(r)
    \/ \E w \in Worker : WorkerStep(w)
    \/ \E j \in Job : Stalled(j)
    \/ FaultStep

Spec == Init /\ [][Next]_vars

\* A request or a worker that is running goes on; BullMQ's workers take a waiting
\* job while the queue is not paused, and its checker finds stalled jobs.  Nobody
\* is obliged to make a request.
Fairness ==
    /\ \A r \in Request : WF_vars(RequestStep(r))
    /\ \A w \in Worker : WF_vars(WorkerStep(w))
    /\ \A j \in Job : WF_vars(Stalled(j))

FairSpec == Spec /\ Fairness

-----------------------------------------------------------------------------
(* Safety.                                                                 *)

\* The job's result is in the counters of its campaign.
Counted(j) ==
    \/ jobState[j] \in {"completed", "failed"}
    \/ \E w \in Worker : worker[w].job = j /\ worker[w].pc \in {"check", "complete"}

SentJobs(c) == {j \in JobsOf(c) : Counted(j) /\ accepted[j] > 0}
FailedJobs(c) == {j \in JobsOf(c) : Counted(j) /\ accepted[j] = 0}

\* While nothing has failed underneath, the statistics of a campaign are exact:
\* sentCount is the number of its jobs that the Graph API accepted, failedCount the
\* number of those it did not, each job counted once, by whichever worker and after
\* whatever requests (processCampaignMessage's increments).
ExactAccounting ==
    faults = 0 => \A c \in Campaign : Exists(c) =>
        /\ row[c].sent = Cardinality(SentJobs(c))
        /\ row[c].failed = Cardinality(FailedJobs(c))

\* Nothing is queued, sent or counted for a campaign that is a draft: launch marks
\* the row before it adds the jobs, and no operation leads back to DRAFT.
DraftIsQuiet ==
    \A c \in Campaign : row[c].status \in {"ABSENT", "DRAFT"} =>
        /\ JobsOf(c) = {}
        /\ row[c].sent = 0 /\ row[c].failed = 0 /\ ~row[c].completedAt

RequestsOn(c, op) == {r \in Request : request[r].campaign = c /\ request[r].op = op}
LaunchedOnce(c) == Cardinality(RequestsOn(c, "launch")) = 1
NeverEdited(c) == RequestsOn(c, "update") = {}
Launching(c) == \E r \in RequestsOn(c, "launch") : request[r].pc = "addJobs"
Checking(c) == \E w \in Worker :
    worker[w].pc \in {"check", "complete"} /\ CampaignAt(w) = c

\* The last worker closes the campaign: when every job of a campaign is counted and
\* nobody is about to check or to add jobs, the completion was recorded, even after
\* concurrent launches.  (Each worker reads the counters after its own increment.)
LastWorkerCompletes ==
    \A c \in Campaign :
        (/\ faults = 0 /\ Exists(c) /\ NeverEdited(c)
         /\ JobsOf(c) # {} /\ \A j \in JobsOf(c) : Counted(j)
         /\ ~Launching(c) /\ ~Checking(c)) => row[c].completedAt

\* A completed campaign is over: one that was launched once and not edited has every
\* job counted when its completion is recorded.
CompletedIsDrained ==
    \A c \in Campaign :
        (/\ faults = 0 /\ Exists(c) /\ row[c].completedAt
         /\ LaunchedOnce(c) /\ NeverEdited(c))
            => \A j \in JobsOf(c) : Counted(j)

\* The Graph API accepts a job's message at most once for each time the job was put
\* to run: once, and once more for each time BullMQ took it back from a dead worker.
OneSendPerRun == \A j \in Job : accepted[j] <= 1 + stalls[j]

\* Each time the Graph API accepted a message of the campaign: which job, and which time.
Acceptances(c) == {a \in JobsOf(c) \X (1..1 + MaxStalls) : a[2] <= accepted[a[1]]}

\* sentCount never claims more than the Graph API accepted, whatever crashed, was run
\* twice or was counted twice (processCampaignMessage under BullMQ's stalled jobs).
SentNeverOverstated ==
    \A c \in Campaign : Exists(c) => row[c].sent <= Cardinality(Acceptances(c))

-----------------------------------------------------------------------------
(* The inductive invariant behind DraftIsQuiet, ExactAccounting and        *)
(* OneSendPerRun.                                                          *)

NotLaunched(c) == row[c].status \in {"ABSENT", "DRAFT"}

\* A busy slot holds an active job, and no two slots hold the same one.
SlotsHoldJobs ==
    /\ \A w \in Worker : worker[w].pc = "idle" <=> worker[w].job = NoJob
    /\ \A w \in Worker : worker[w].pc # "idle" => jobState[worker[w].job] = "active"
    /\ \A v, w \in Worker : worker[w].pc # "idle" /\ worker[v].job = worker[w].job => v = w

\* Jobs exist only for launches that are over, of rows that were marked before.
JobsAreLaunched ==
    /\ \A r \in Request : request[r].pc = "free" <=> request[r].campaign = NoCampaign
    /\ \A r \in Request : request[r].pc = "addJobs" => ~NotLaunched(request[r].campaign)
    /\ \A j \in Job : jobState[j] # "none" =>
           request[j[1]].pc = "done" /\ ~NotLaunched(CampaignOf(j))

DraftCountsNothing ==
    \A c \in Campaign : NotLaunched(c) =>
        row[c].sent = 0 /\ row[c].failed = 0 /\ ~row[c].completedAt

\* A job that still has to send has a send left.
SendBudget ==
    /\ \A j \in Job : jobState[j] \in {"none", "waiting"} => accepted[j] <= stalls[j]
    /\ \A w \in Worker : At(w, "send") => accepted[worker[w].job] <= stalls[worker[w].job]

\* While nothing failed: no job was taken back, every active job has its worker, a
\* worker knows what the Graph API said, and it throws only for a deleted row.
Unharmed ==
    faults = 0 =>
        /\ \A j \in Job : stalls[j] = 0
        /\ \A j \in Job : jobState[j] = "active" => \E w \in Worker : worker[w].job = j
        /\ \A w \in Worker : At(w, "count") => worker[w].ok = (accepted[worker[w].job] > 0)
        /\ \A w \in Worker : At(w, "catch") => ~Exists(CampaignAt(w))

IInv ==
    /\ TypeOK
    /\ SlotsHoldJobs
    /\ JobsAreLaunched
    /\ DraftCountsNothing
    /\ SendBudget
    /\ OneSendPerRun
    /\ Unharmed
    /\ ExactAccounting

\* What SentNeverOverstated needs: an acceptance that was counted, or that a worker is about
\* to count, is used up; a job that is run again is accepted again before it is counted again.
ToCount(c) == {j \in JobsOf(c) : \E w \in Worker : At(w, "count") /\ worker[w].ok
                                                   /\ worker[w].job = j}

SentCovered ==
    \A c \in Campaign : row[c].sent + Cardinality(ToCount(c)) <= Cardinality(Acceptances(c))

-----------------------------------------------------------------------------
(* Liveness, under FairSpec.                                               *)

Ended(j) == jobState[j] \in {"completed", "failed"}

\* If the queue is in the end not paused, every job that was queued ends, whatever
\* crashed, failed or was deleted on the way.
EveryJobEnds ==
    <>[](~paused) => \A j \in Job : jobState[j] # "none" ~> Ended(j)

\* If the queue is in the end not paused, a campaign with jobs is completed, deleted,
\* or was edited under its launch or hit by a fault.
CampaignEnds ==
    <>[](~paused) => \A c \in Campaign :
        JobsOf(c) # {} ~> \/ row[c].completedAt \/ ~Exists(c)
                         \/ ~NeverEdited(c) \/ faults > 0

-----------------------------------------------------------------------------
(* What all this promises of the statistics: CampaignLedger.               *)

BookOf(c) == CASE row[c].status = "ABSENT" -> "none" [] row[c].status = "DRAFT" -> "draft"
               [] row[c].status = "DELETED" -> "struck" [] OTHER -> "opened"
PendingJobs(c) == IF Exists(c) THEN {j \in JobsOf(c) : ~Counted(j)} ELSE {}

Ledger == INSTANCE CampaignLedger WITH
    book <- [c \in Campaign |-> BookOf(c)],
    entered <- {j \in Job : jobState[j] # "none"},
    pending <- [c \in Campaign |-> PendingJobs(c)],
    delivered <- {j \in Job : accepted[j] > 0},
    sent <- [c \in Campaign |-> row[c].sent],
    failed <- [c \in Campaign |-> row[c].failed]

\* Without faults, requests, queue and workers together keep the ledger: whatever
\* they interleave, each job is entered once, delivered at most once, and settled once,
\* as what the Graph API said of it (launch, addCampaignMessages, processCampaignMessage).
ImplementsLedger == Ledger!Spec

=============================================================================
