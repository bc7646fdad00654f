--------------------------- MODULE CampaignsProofs ---------------------------
(***************************************************************************)
(* Theorems about Campaigns, for any sets of campaigns, contacts, requests *)
(* and worker slots and any number of faults: the counters of a row are    *)
(* exact, a draft is quiet and sends are bounded; the last worker          *)
(* completes the campaign and a completed campaign is drained; requests,   *)
(* queue and workers together implement CampaignLedger; and a campaign     *)
(* counts as sent no more than was accepted.                               *)
(***************************************************************************)
EXTENDS Campaigns, FiniteSetTheorems, TLAPS

-----------------------------------------------------------------------------
(* Type correctness.                                                       *)

\* The size of an audience is a number.
LEMMA AudienceSize ==
    ASSUME NEW ids, ids \subseteq Contact
    PROVE  Cardinality(ids) \in Nat
BY FiniteSets, FS_Subset, FS_CardinalityType

\* The records a row, a request and a worker slot start from, and what they become
\* when some of their fields are written.
LEMMA FreshRecords ==
    /\ NoRow \in Row
    /\ \A n \in Nat : NewRow(n) \in Row
    /\ NoRequest \in RequestRecord
    /\ IdleWorker \in Slot
BY DEF NoRow, NewRow, NoRequest, IdleWorker, Row, RequestRecord, Slot, RowStatus, Status, Op,
       RequestPC, WorkerPC

LEMMA RowWrites ==
    ASSUME row \in [Campaign -> Row], NEW c, NEW s \in RowStatus, NEW n \in Nat
    PROVE  /\ [row EXCEPT ![c].status = s] \in [Campaign -> Row]
           /\ [row EXCEPT ![c].total = n] \in [Campaign -> Row]
           /\ [row EXCEPT ![c].status = s, ![c].total = n] \in [Campaign -> Row]
           /\ [row EXCEPT ![c].status = s, ![c].completedAt = TRUE] \in [Campaign -> Row]
           /\ [row EXCEPT ![c].sent = @ + 1] \in [Campaign -> Row]
           /\ [row EXCEPT ![c].failed = @ + 1] \in [Campaign -> Row]
<1>1. /\ [row EXCEPT ![c].status = s] \in [Campaign -> Row]
      /\ [row EXCEPT ![c].total = n] \in [Campaign -> Row]
  BY DEF Row
<1>2. [row EXCEPT ![c].status = s, ![c].total = n] \in [Campaign -> Row]
  BY DEF Row
<1>3. [row EXCEPT ![c].status = s, ![c].completedAt = TRUE] \in [Campaign -> Row]
  BY DEF Row
<1>4. /\ [row EXCEPT ![c].sent = @ + 1] \in [Campaign -> Row]
      /\ [row EXCEPT ![c].failed = @ + 1] \in [Campaign -> Row]
  <2>1. CASE c \in Campaign
    <3>1. row[c].sent + 1 \in Nat /\ row[c].failed + 1 \in Nat
      BY <2>1 DEF Row
    <3>2. /\ [row[c] EXCEPT !.sent = @ + 1] \in Row
          /\ [row[c] EXCEPT !.failed = @ + 1] \in Row
      BY <2>1, <3>1 DEF Row
    <3> QED
      BY <2>1, <3>2
  <2>2. CASE c \notin Campaign
    BY <2>2
  <2> QED
    BY <2>1, <2>2
<1> QED
  BY <1>1, <1>2, <1>3, <1>4

LEMMA RequestWrites ==
    ASSUME request \in [Request -> RequestRecord], NEW r, NEW pc \in RequestPC
    PROVE  /\ [request EXCEPT ![r].pc = pc] \in [Request -> RequestRecord]
           /\ [request EXCEPT ![r].pc = "done", ![r].ids = {}, ![r].total = 0]
                 \in [Request -> RequestRecord]
BY DEF RequestRecord, RequestPC

LEMMA SlotWrites ==
    ASSUME worker \in [Worker -> Slot], NEW w, NEW pc \in WorkerPC, NEW b \in BOOLEAN
    PROVE  /\ [worker EXCEPT ![w].pc = pc] \in [Worker -> Slot]
           /\ [worker EXCEPT ![w].pc = pc, ![w].ok = b] \in [Worker -> Slot]
           /\ [worker EXCEPT ![w] = IdleWorker] \in [Worker -> Slot]
BY FreshRecords DEF Slot

LEMMA AcceptedWrites ==
    ASSUME accepted \in [Job -> Nat], NEW j
    PROVE  [accepted EXCEPT ![j] = @ + 1] \in [Job -> Nat]
<1>1. CASE j \in Job
  BY <1>1
<1>2. CASE j \notin Job
  BY <1>2
<1> QED
  BY <1>1, <1>2

LEMMA TypeStep ==
    ASSUME TypeOK, [Next]_vars
    PROVE  TypeOK'
<1> USE DEF TypeOK
<1>1. ASSUME NEW c \in Campaign, NEW n \in 0..Cardinality(Contact), Create(c, n)
      PROVE  TypeOK'
  <2>1. n \in Nat
    BY AudienceSize
  <2> QED
    BY <1>1, <2>1, FreshRecords DEF Create, queueVars, workerVars
<1>2. ASSUME NEW c \in Campaign, NEW d \in Campaign, Duplicate(c, d)
      PROVE  TypeOK'
  <2>1. row[c].total \in Nat
    BY DEF Row
  <2> QED
    BY <1>2, <2>1, FreshRecords DEF Duplicate, queueVars, workerVars
<1>3. ASSUME NEW r \in Request, RequestBegins(r)
      PROVE  TypeOK'
  <2>1. PICK c \in Campaign :
          \/ \E ids \in SUBSET Contact : Launch(r, c, ids)
          \/ \E n \in 0..Cardinality(Contact) : Update(r, c, n)
          \/ Schedule(r, c) \/ Pause(r, c) \/ Resume(r, c) \/ Cancel(r, c) \/ Delete(r, c)
    BY <1>3 DEF RequestBegins
  <2>2. ASSUME NEW op \in Op, NEW A, NEW next \in RequestPC, NEW ids \in SUBSET Contact,
               NEW n \in Nat, Begin(r, c, op, A, next, ids, n)
        PROVE  TypeOK'
    BY <2>2 DEF Begin, RequestRecord, queueVars, workerVars
  <2>3. CASE \E ids \in SUBSET Contact : Launch(r, c, ids)
    BY <2>2, <2>3 DEF Launch, Op, RequestPC
  <2>4. CASE \E n \in 0..Cardinality(Contact) : Update(r, c, n)
    <3>1. \A n \in 0..Cardinality(Contact) : n \in Nat
      BY AudienceSize
    <3> QED
      BY <2>2, <2>4, <3>1 DEF Update, Op, RequestPC
  <2>5. CASE Schedule(r, c) \/ Pause(r, c) \/ Resume(r, c) \/ Cancel(r, c) \/ Delete(r, c)
    BY <2>2, <2>5 DEF Schedule, Pause, Resume, Cancel, Delete, Op, RequestPC
  <2> QED
    BY <2>1, <2>3, <2>4, <2>5
<1>4. ASSUME NEW r \in Request, RequestStep(r)
      PROVE  TypeOK'
  <2>1. /\ request[r].total \in Nat
        /\ Cardinality(request[r].ids) \in Nat
    BY AudienceSize DEF RequestRecord
  <2>2. \A s \in Op : Target(s) \in RowStatus
    BY DEF Target, Op, RowStatus, Status
  <2>3. CASE MarkRunning(r)
    BY <2>1, <2>3, RowWrites, RequestWrites
       DEF MarkRunning, Continue, RequestPC, RowStatus, Status, queueVars, workerVars
  <2>4. CASE AddCampaignMessages(r)
    BY <2>4, RequestWrites DEF AddCampaignMessages, Finish, JobState, RequestPC, workerVars
  <2>5. CASE PauseQueue(r) \/ ResumeQueue(r)
    <3>1. [request EXCEPT ![r].pc = "writeStatus"] \in [Request -> RequestRecord]
      BY RequestWrites DEF RequestPC
    <3> QED
      BY <2>5, <3>1 DEF PauseQueue, ResumeQueue, Continue, workerVars
  <2>6. CASE WriteStatus(r)
    <3>1. Target(request[r].op) \in RowStatus
      BY DEF Target, RowStatus, Status
    <3> QED
      BY <2>6, <3>1, RowWrites, RequestWrites
         DEF WriteStatus, Finish, RequestPC, queueVars, workerVars
  <2>7. CASE WriteTotal(r) \/ DeleteRow(r) \/ RowGone(r)
    <3>1. "done" \in RequestPC /\ "DELETED" \in RowStatus
      BY DEF RequestPC, RowStatus
    <3>2. request' \in [Request -> RequestRecord]
      BY <2>7, <3>1, RequestWrites DEF WriteTotal, DeleteRow, RowGone, Finish
    <3>3. /\ [row EXCEPT ![request[r].campaign].total = request[r].total]
               \in [Campaign -> Row]
          /\ [row EXCEPT ![request[r].campaign].status = "DELETED"] \in [Campaign -> Row]
      BY <2>1, <3>1, RowWrites
    <3> QED
      BY <2>7, <3>2, <3>3 DEF WriteTotal, DeleteRow, RowGone, queueVars, workerVars
  <2> QED
    BY <1>4, <2>3, <2>4, <2>5, <2>6, <2>7 DEF RequestStep
<1>5. ASSUME NEW w \in Worker, WorkerStep(w)
      PROVE  TypeOK'
  <2>1. CASE \E j \in Job : Take(w, j)
    BY <2>1 DEF Take, JobState, Slot, WorkerPC
  <2>2. CASE SendAccepted(w) \/ SendRefused(w)
    <3>1. \A b \in BOOLEAN : [worker EXCEPT ![w].pc = "count", ![w].ok = b]
                              \in [Worker -> Slot]
      BY SlotWrites DEF WorkerPC
    <3>2. worker' \in [Worker -> Slot]
      BY <2>2, <3>1 DEF SendAccepted, SendRefused
    <3>3. accepted' \in [Job -> Nat]
      BY <2>2, AcceptedWrites DEF SendAccepted, SendRefused, queueVars
    <3> QED
      BY <2>2, <3>2, <3>3 DEF SendAccepted, SendRefused, queueVars
  <2>3. CASE CountResult(w)
    BY <2>3, RowWrites, SlotWrites
       DEF CountResult, Incremented, Advance, WorkerPC, RowStatus, queueVars
  <2>4. CASE CheckComplete(w)
    <3>1. "complete" \in WorkerPC /\ "completed" \in JobState
      BY DEF WorkerPC, JobState
    <3>2. /\ [worker EXCEPT ![w].pc = "complete"] \in [Worker -> Slot]
          /\ [worker EXCEPT ![w] = IdleWorker] \in [Worker -> Slot]
      BY <3>1, SlotWrites
    <3>3. jobState' \in [Job -> JobState]
      BY <2>4, <3>1 DEF CheckComplete, Release
    <3> QED
      BY <2>4, <3>2, <3>3 DEF CheckComplete, Advance, Release
  <2>5. CASE CompleteCampaign(w)
    BY <2>5, RowWrites, SlotWrites
       DEF CompleteCampaign, Release, WorkerPC, JobState, RowStatus, Status
  <2>6. CASE WorkerRowGone(w)
    BY <2>6, SlotWrites DEF WorkerRowGone, Advance, WorkerPC, queueVars
  <2>7. CASE CatchError(w)
    <3>1. {"completed", "failed"} \subseteq JobState /\ "idle" \in WorkerPC
      BY DEF JobState, WorkerPC
    <3>2. worker' \in [Worker -> Slot]
      BY <2>7, <3>1, SlotWrites DEF CatchError, Release
    <3>3. jobState' \in [Job -> JobState]
      BY <2>7, <3>1 DEF CatchError, Release
    <3>4. "ABSENT" \in RowStatus
      BY DEF RowStatus
    <3>5. row' \in [Campaign -> Row]
      BY <2>7, <3>4, RowWrites DEF CatchError
    <3> QED
      BY <2>7, <3>2, <3>3, <3>5 DEF CatchError
  <2> QED
    BY <1>5, <2>1, <2>2, <2>3, <2>4, <2>5, <2>6, <2>7 DEF WorkerStep
<1>6. ASSUME NEW j \in Job, Stalled(j)
      PROVE  TypeOK'
  BY <1>6 DEF Stalled, JobState, MaxStalls
<1>7. CASE FaultStep
  <2>1. Fault => faults' \in 0..MaxFaults
    BY MaxFaultsIsNat DEF Fault
  <2>2. ASSUME NEW r \in Request, RequestFails(r)
        PROVE  TypeOK'
    BY <2>1, <2>2, RequestWrites DEF RequestFails, Finish, RequestPC, queueVars
  <2>3. ASSUME NEW w \in Worker, AcceptedThenFails(w) \/ WorkerFails(w) \/ CatchFails(w)
        PROVE  TypeOK'
    <3>1. {"count", "catch"} \subseteq WorkerPC /\ "failed" \in JobState
      BY DEF WorkerPC, JobState
    <3>2. CASE AcceptedThenFails(w)
      <4>1. [worker EXCEPT ![w].pc = "count", ![w].ok = FALSE] \in [Worker -> Slot]
        BY <3>1, SlotWrites
      <4>2. accepted' \in [Job -> Nat]
        BY <3>2, AcceptedWrites DEF AcceptedThenFails
      <4> QED
        BY <2>1, <3>2, <4>1, <4>2 DEF AcceptedThenFails
    <3>3. CASE WorkerFails(w)
      BY <2>1, <3>1, <3>3, SlotWrites DEF WorkerFails, Advance, queueVars
    <3>4. CASE CatchFails(w)
      BY <2>1, <3>1, <3>4, SlotWrites DEF CatchFails, Release
    <3> QED
      BY <2>3, <3>2, <3>3, <3>4
  <2>4. CASE Crash
    BY <2>1, <2>4, FreshRecords DEF Crash, RequestRecord, RequestPC, queueVars
  <2> QED
    BY <1>7, <2>2, <2>3, <2>4 DEF FaultStep
<1>8. CASE UNCHANGED vars
  BY <1>8 DEF vars
<1> QED
  BY <1>1, <1>2, <1>3, <1>4, <1>5, <1>6, <1>7, <1>8 DEF Next

LEMMA TypeInit ==
    ASSUME Init
    PROVE  TypeOK
<1>1. row \in [Campaign -> Row] /\ request \in [Request -> RequestRecord]
      /\ worker \in [Worker -> Slot]
  BY FreshRecords DEF Init
<1>2. /\ jobState \in [Job -> JobState]
      /\ stalls \in [Job -> 0..MaxStalls]
      /\ accepted \in [Job -> Nat]
  BY DEF Init, JobState, MaxStalls
<1>3. paused \in BOOLEAN
  BY DEF Init
<1>4. faults \in 0..MaxFaults
  BY MaxFaultsIsNat DEF Init
<1> QED
  BY <1>1, <1>2, <1>3, <1>4 DEF TypeOK

\* Every variable keeps its type in every behaviour.
THEOREM TypeCorrect == Spec => []TypeOK
BY TypeInit, TypeStep, PTL DEF Spec

-----------------------------------------------------------------------------
(* Most steps leave the queue and the workers alone.  They are handled     *)
(* once, by what they may do to a row and to a request.                    *)

\* A row is created with empty counters, or its status or total is written.
RowKept(c) ==
    \/ row'[c] = row[c]
    \/ /\ row[c].status = "ABSENT"
       /\ row'[c].status = "DRAFT"
       /\ row'[c].sent = 0 /\ row'[c].failed = 0 /\ ~row'[c].completedAt
    \/ /\ Exists(c)
       /\ row'[c].status \in {row[c].status} \cup (RowStatus \ {"ABSENT", "DRAFT"})
       /\ row'[c].sent = row[c].sent
       /\ row'[c].failed = row[c].failed
       /\ row'[c].completedAt = row[c].completedAt

\* A request begins, on a campaign; goes on; or ends.
RequestKept(r) ==
    \/ request'[r] = request[r]
    \/ /\ request[r].pc = "free"
       /\ request'[r].pc \notin {"free", "addJobs"}
       /\ request'[r].campaign \in Campaign
    \/ /\ request[r].pc \notin {"free", "done"}
       /\ request'[r].pc # "free"
       /\ request'[r].campaign = request[r].campaign
       /\ request'[r].pc = "addJobs" => ~NotLaunched(request[r].campaign)'

Administrative ==
    /\ UNCHANGED <<jobState, stalls, accepted, worker>>
    /\ faults' \in {faults, faults + 1}
    /\ \A c \in Campaign : RowKept(c)
    /\ \A r \in Request : RequestKept(r)

LEMMA CreateSteps ==
    ASSUME TypeOK, NEW c \in Campaign, NEW d \in Campaign, NEW n,
           Create(c, n) \/ Duplicate(d, c)
    PROVE  Administrative
<1>1. \A x \in Campaign : RowKept(x)
  BY DEF TypeOK, Row, Create, Duplicate, NewRow, NoRow, RowKept
<1> QED
  BY <1>1 DEF TypeOK, Create, Duplicate, Administrative, RequestKept, queueVars, workerVars

LEMMA BeginSteps ==
    ASSUME TypeOK, NEW r \in Request, RequestBegins(r)
    PROVE  Administrative
<1>1. ASSUME NEW c \in Campaign, NEW op, NEW A, NEW next, next \notin {"free", "addJobs"},
             NEW ids, NEW n, Begin(r, c, op, A, next, ids, n)
      PROVE  Administrative
  <2>1. \A q \in Request : RequestKept(q)
    BY <1>1 DEF TypeOK, Begin, RequestKept
  <2> QED
    BY <1>1, <2>1 DEF Begin, Administrative, RowKept, TypeOK, queueVars, workerVars
<1> QED
  BY <1>1 DEF RequestBegins, Launch, Schedule, Pause, Resume, Cancel, Update, Delete

LEMMA WriteSteps ==
    ASSUME TypeOK, JobsAreLaunched, NEW r \in Request,
           RequestStep(r), ~AddCampaignMessages(r)
    PROVE  Administrative
<1> DEFINE c == request[r].campaign
<1>1. InFlight(r) => c \in Campaign
  BY DEF InFlight, JobsAreLaunched, TypeOK, RequestRecord
<1>2. CASE MarkRunning(r)
  <2>1. \A x \in Campaign : RowKept(x)
    BY <1>2 DEF MarkRunning, RowKept, TypeOK, Row, RowStatus, Status
  <2>2. ~NotLaunched(c)'
    <3>1. c \in Campaign /\ request'[r].campaign = c
      BY <1>1, <1>2 DEF MarkRunning, InFlight, Continue, TypeOK, RequestRecord
    <3>2. row'[c].status = "RUNNING"
      BY <1>2, <3>1 DEF MarkRunning, TypeOK, Row
    <3> QED
      BY <3>1, <3>2 DEF NotLaunched
  <2>3. \A q \in Request : RequestKept(q)
    BY <1>2, <2>2 DEF MarkRunning, Continue, RequestKept, TypeOK, RequestRecord
  <2> QED
    BY <1>2, <2>1, <2>3 DEF MarkRunning, Administrative, queueVars, workerVars
<1>3. CASE PauseQueue(r) \/ ResumeQueue(r)
  <2>1. \A q \in Request : RequestKept(q)
    BY <1>3 DEF PauseQueue, ResumeQueue, Continue, RequestKept, TypeOK, RequestRecord
  <2> QED
    BY <1>3, <2>1 DEF PauseQueue, ResumeQueue, Administrative, RowKept, workerVars
<1>4. CASE WriteStatus(r)
  <2>1. Target(request[r].op) \in RowStatus \ {"ABSENT", "DRAFT"}
    BY DEF Target, RowStatus, Status
  <2>2. \A x \in Campaign : RowKept(x)
    BY <1>4, <2>1 DEF WriteStatus, RowKept, TypeOK, Row
  <2>3. \A q \in Request : RequestKept(q)
    BY <1>4 DEF WriteStatus, Finish, RequestKept, TypeOK, RequestRecord
  <2> QED
    BY <1>4, <2>2, <2>3 DEF WriteStatus, Administrative, queueVars, workerVars
<1>5. CASE WriteTotal(r)
  <2>1. \A x \in Campaign : RowKept(x)
    BY <1>5 DEF WriteTotal, RowKept, TypeOK, Row
  <2>2. \A q \in Request : RequestKept(q)
    BY <1>5 DEF WriteTotal, Finish, RequestKept, TypeOK, RequestRecord
  <2> QED
    BY <1>5, <2>1, <2>2 DEF WriteTotal, Administrative, queueVars, workerVars
<1>6. CASE DeleteRow(r)
  <2>1. \A x \in Campaign : RowKept(x)
    BY <1>6 DEF DeleteRow, RowKept, TypeOK, Row, RowStatus
  <2>2. \A q \in Request : RequestKept(q)
    BY <1>6 DEF DeleteRow, Finish, RequestKept, TypeOK, RequestRecord
  <2> QED
    BY <1>6, <2>1, <2>2 DEF DeleteRow, Administrative, queueVars, workerVars
<1>7. CASE RowGone(r)
  <2>1. \A q \in Request : RequestKept(q)
    BY <1>7 DEF RowGone, Finish, RequestKept, TypeOK, RequestRecord
  <2> QED
    BY <1>7, <2>1 DEF RowGone, Administrative, RowKept, queueVars, workerVars
<1> QED
  BY <1>2, <1>3, <1>4, <1>5, <1>6, <1>7 DEF RequestStep

LEMMA FailedRequest ==
    ASSUME TypeOK, NEW r \in Request, RequestFails(r)
    PROVE  Administrative
<1>1. \A q \in Request : RequestKept(q)
  BY DEF RequestFails, InFlight, Finish, RequestKept, TypeOK, RequestRecord
<1> QED
  BY <1>1 DEF RequestFails, Fault, Administrative, RowKept, queueVars

\* The steps, with those that leave the queue and the workers alone gathered.
LEMMA StepCases ==
    ASSUME TypeOK, JobsAreLaunched, [Next]_vars
    PROVE  \/ Administrative
           \/ \E r \in Request : AddCampaignMessages(r)
           \/ \E w \in Worker : WorkerStep(w)
           \/ \E j \in Job : Stalled(j)
           \/ \E w \in Worker : AcceptedThenFails(w) \/ WorkerFails(w) \/ CatchFails(w)
           \/ Crash
<1>1. CASE UNCHANGED vars
  BY <1>1 DEF vars, Administrative, RowKept, RequestKept
<1>2. CASE FaultStep
  BY <1>2, FailedRequest DEF FaultStep
<1>3. CASE \E r \in Request : RequestBegins(r) \/ RequestStep(r)
  BY <1>3, BeginSteps, WriteSteps
<1> QED
  BY <1>1, <1>2, <1>3, CreateSteps DEF Next

-----------------------------------------------------------------------------
(* A worker's step writes counters and may complete a row, no more.        *)

WorkerWrites(c) ==
    \/ row'[c] = row[c]
    \/ /\ Exists(c)
       /\ row'[c].status \in {row[c].status, "COMPLETED"}
       /\ \E w \in Worker : worker[w].pc # "idle" /\ CampaignAt(w) = c

LEMMA WorkerRows ==
    ASSUME TypeOK, NEW w \in Worker, WorkerStep(w)
    PROVE  \A c \in Campaign : WorkerWrites(c)
<1>1. CASE CountResult(w)
  BY <1>1 DEF CountResult, Incremented, At, WorkerWrites, TypeOK, Row
<1>2. CASE CompleteCampaign(w)
  BY <1>2 DEF CompleteCampaign, At, WorkerWrites, TypeOK, Row
<1>3. CASE CatchError(w)
  BY <1>3 DEF CatchError, At, WorkerWrites, TypeOK, Row
<1>4. CASE UNCHANGED row
  BY <1>4 DEF WorkerWrites
<1> QED
  BY <1>1, <1>2, <1>3, <1>4
     DEF WorkerStep, Take, SendAccepted, SendRefused, CheckComplete, WorkerRowGone

LEMMA WorkerKeepsRequests ==
    ASSUME NEW w \in Worker, WorkerStep(w)
    PROVE  UNCHANGED <<request, faults>>
BY DEF WorkerStep, Take, SendAccepted, SendRefused, CountResult, CheckComplete,
       CompleteCampaign, WorkerRowGone, CatchError, Advance, queueVars

LEMMA FaultKeepsRows ==
    ASSUME NEW w \in Worker, AcceptedThenFails(w) \/ WorkerFails(w) \/ CatchFails(w)
    PROVE  UNCHANGED <<row, request>>
BY DEF AcceptedThenFails, WorkerFails, CatchFails

\* No operation leads back to DRAFT, and a row that is gone stays gone.
LEMMA RowLife ==
    ASSUME TypeOK, JobsAreLaunched, [Next]_vars, NEW c \in Campaign
    PROVE  /\ ~NotLaunched(c) => row'[c].status \notin {"ABSENT", "DRAFT"}
           /\ row'[c].status \in Status => Exists(c) \/ row[c].status = "ABSENT"
<1>1. CASE Administrative
  BY <1>1 DEF Administrative, RowKept, NotLaunched, Exists, Status, RowStatus
<1>2. ASSUME NEW w \in Worker, WorkerStep(w)
      PROVE  /\ ~NotLaunched(c) => row'[c].status \notin {"ABSENT", "DRAFT"}
             /\ row'[c].status \in Status => Exists(c) \/ row[c].status = "ABSENT"
  BY <1>2, WorkerRows DEF WorkerWrites, NotLaunched, Exists, Status
<1>3. CASE UNCHANGED row
  BY <1>3 DEF NotLaunched, Exists, Status
<1> QED
  BY <1>1, <1>2, <1>3, StepCases, FaultKeepsRows DEF AddCampaignMessages, Stalled, Crash

-----------------------------------------------------------------------------
(* The parts of the inductive invariant, one lemma each.                   *)

\* Which slots change, and how: one slot takes a waiting job, one slot goes on, or one
\* slot lets go of its job.
LEMMA SlotMoves ==
    ASSUME TypeOK, NEW w \in Worker,
           WorkerStep(w) \/ AcceptedThenFails(w) \/ WorkerFails(w) \/ CatchFails(w)
    PROVE  \/ /\ worker[w].pc = "idle"
              /\ \E j \in Job :
                    /\ jobState[j] = "waiting"
                    /\ jobState' = [jobState EXCEPT ![j] = "active"]
                    /\ worker' = [worker EXCEPT ![w] =
                                      [pc |-> "send", job |-> j, ok |-> FALSE]]
           \/ /\ worker[w].pc # "idle"
              /\ jobState' = jobState
              /\ worker'[w].pc # "idle" /\ worker'[w].job = worker[w].job
              /\ \A v \in Worker \ {w} : worker'[v] = worker[v]
           \/ /\ worker[w].pc # "idle"
              /\ \E s \in {"completed", "failed"} :
                     jobState' = [jobState EXCEPT ![worker[w].job] = s]
              /\ worker' = [worker EXCEPT ![w] = IdleWorker]
<1>1. CASE \E j \in Job : Take(w, j)
  BY <1>1 DEF Take, At
<1>2. CASE SendAccepted(w) \/ SendRefused(w) \/ AcceptedThenFails(w)
  BY <1>2 DEF SendAccepted, SendRefused, AcceptedThenFails, At, queueVars, TypeOK, Slot
<1>3. CASE CountResult(w) \/ WorkerRowGone(w) \/ WorkerFails(w)
  BY <1>3 DEF CountResult, WorkerRowGone, WorkerFails, Advance, At, queueVars, TypeOK, Slot
<1>4. CASE CheckComplete(w)
  BY <1>4 DEF CheckComplete, Advance, Release, At, TypeOK, Slot
<1>5. CASE CompleteCampaign(w) \/ CatchError(w) \/ CatchFails(w)
  BY <1>5 DEF CompleteCampaign, CatchError, CatchFails, Release, At
<1> QED
  BY <1>1, <1>2, <1>3, <1>4, <1>5 DEF WorkerStep

\* A launch adds jobs that did not exist.
LEMMA AddedJobs ==
    ASSUME TypeOK, JobsAreLaunched, NEW r \in Request, AddCampaignMessages(r),
           NEW j \in Job, jobState'[j] # jobState[j]
    PROVE  jobState[j] = "none" /\ jobState'[j] = "waiting" /\ j[1] = r
BY DEF AddCampaignMessages, JobsAreLaunched, TypeOK

LEMMA SlotsStep ==
    ASSUME IInv, [Next]_vars
    PROVE  SlotsHoldJobs'
<1> USE DEF IInv
<1>1. CASE Administrative
  BY <1>1 DEF Administrative, SlotsHoldJobs
<1>2. ASSUME NEW r \in Request, AddCampaignMessages(r)
      PROVE  SlotsHoldJobs'
  <2>1. \A w \in Worker : worker[w].pc # "idle" => worker[w].job \in Job
    BY DEF SlotsHoldJobs, TypeOK, Slot
  <2>2. \A j \in Job : jobState[j] = "active" => jobState'[j] = "active"
    BY <1>2, AddedJobs
  <2> QED
    BY <1>2, <2>1, <2>2 DEF AddCampaignMessages, SlotsHoldJobs, workerVars
<1>3. ASSUME NEW w \in Worker,
             WorkerStep(w) \/ AcceptedThenFails(w) \/ WorkerFails(w) \/ CatchFails(w)
      PROVE  SlotsHoldJobs'
  <2> USE DEF SlotsHoldJobs, TypeOK, Slot
  <2>1. ASSUME NEW j \in Job, worker[w].pc = "idle", jobState[j] = "waiting",
               jobState' = [jobState EXCEPT ![j] = "active"],
               worker' = [worker EXCEPT ![w] = [pc |-> "send", job |-> j, ok |-> FALSE]]
        PROVE  SlotsHoldJobs'
    BY <2>1, NullsAreFresh
  <2>2. ASSUME worker[w].pc # "idle", jobState' = jobState, worker'[w].pc # "idle",
               worker'[w].job = worker[w].job,
               \A v \in Worker \ {w} : worker'[v] = worker[v]
        PROVE  SlotsHoldJobs'
    <3>1. \A v \in Worker : /\ worker'[v].job = worker[v].job
                             /\ worker'[v].pc = "idle" <=> worker[v].pc = "idle"
      BY <2>2
    <3> QED
      BY <2>2, <3>1
  <2>3. ASSUME NEW s, worker[w].pc # "idle",
               jobState' = [jobState EXCEPT ![worker[w].job] = s],
               worker' = [worker EXCEPT ![w] = IdleWorker]
        PROVE  SlotsHoldJobs'
    <3>1. worker'[w].pc = "idle" /\ worker'[w].job = NoJob
      BY <2>3 DEF IdleWorker
    <3>2. \A v \in Worker \ {w} : worker'[v] = worker[v]
      BY <2>3
    <3>3. \A v \in Worker \ {w} : worker[v].pc # "idle" =>
             worker[v].job # worker[w].job /\ jobState'[worker[v].job] = "active"
      BY <2>3
    <3> QED
      BY <3>1, <3>2, <3>3
  <2> QED
    BY <1>3, <2>1, <2>2, <2>3, SlotMoves
<1>4. ASSUME NEW j \in Job, Stalled(j)
      PROVE  SlotsHoldJobs'
  <2>1. \A i \in Job \ {j} : jobState'[i] = jobState[i]
    BY <1>4 DEF Stalled, TypeOK
  <2>2. \A w \in Worker : worker[w].pc # "idle" => worker[w].job \in Job \ {j}
    BY <1>4 DEF Stalled, Orphaned, SlotsHoldJobs, TypeOK, Slot
  <2> QED
    BY <1>4, <2>1, <2>2 DEF Stalled, SlotsHoldJobs
<1>5. CASE Crash
  BY <1>5 DEF Crash, SlotsHoldJobs, IdleWorker
<1> QED
  BY <1>1, <1>2, <1>3, <1>4, <1>5, StepCases

LEMMA JobsStep ==
    ASSUME IInv, [Next]_vars
    PROVE  JobsAreLaunched'
<1> USE DEF IInv
<1>1. CASE Administrative
  <2>1. \A r \in Request : request[r].campaign \in Campaign \cup {NoCampaign}
    BY DEF TypeOK, RequestRecord
  <2>2. ASSUME NEW r \in Request
        PROVE  /\ request'[r].pc = "free" <=> request'[r].campaign = NoCampaign
               /\ request'[r].pc = "addJobs" => ~NotLaunched(request[r].campaign)'
               /\ request[r].pc = "done" => request'[r] = request[r]
    <3>1. CASE request'[r] = request[r]
      BY <2>1, <3>1, RowLife DEF JobsAreLaunched, NotLaunched
    <3>2. CASE request'[r] # request[r]
      BY <1>1, <2>1, <3>2, NullsAreFresh DEF Administrative, RequestKept, JobsAreLaunched
    <3> QED
      BY <3>1, <3>2
  <2>3. ASSUME NEW r \in Request, request'[r].pc = "addJobs"
        PROVE  ~NotLaunched(request[r].campaign)'
    BY <2>2, <2>3
  <2>4. ASSUME NEW j \in Job, jobState[j] # "none"
        PROVE  /\ request'[j[1]].pc = "done"
               /\ ~NotLaunched(CampaignOf(j))'
    <3>1. j[1] \in Request
      BY DEF Job
    <3>2. request[j[1]].pc = "done" /\ ~NotLaunched(CampaignOf(j))
      BY <2>4 DEF JobsAreLaunched
    <3>3. request'[j[1]] = request[j[1]] /\ CampaignOf(j) \in Campaign
      BY <2>1, <2>2, <3>1, <3>2 DEF CampaignOf, JobsAreLaunched
    <3> QED
      BY <3>2, <3>3, RowLife DEF NotLaunched, CampaignOf
  <2> QED
    BY <1>1, <2>2, <2>3, <2>4 DEF Administrative, JobsAreLaunched
<1>2. ASSUME NEW r \in Request, AddCampaignMessages(r)
      PROVE  JobsAreLaunched'
  <2>1. /\ request'[r].pc = "done" /\ request'[r].campaign = request[r].campaign
        /\ \A q \in Request \ {r} : request'[q] = request[q]
        /\ row' = row
        /\ request[r].pc = "addJobs"
    BY <1>2 DEF AddCampaignMessages, Finish, TypeOK, RequestRecord
  <2>2. \A q \in Request : /\ request'[q].campaign = request[q].campaign
                           /\ request'[q].pc = "free" <=> request[q].pc = "free"
                           /\ request'[q].pc = "addJobs" => request[q].pc = "addJobs"
                           /\ request[q].pc = "done" => request'[q].pc = "done"
    BY <2>1
  <2>3. ASSUME NEW j \in Job, jobState'[j] # "none"
        PROVE  request'[j[1]].pc = "done" /\ ~NotLaunched(CampaignOf(j))'
    <3>1. j[1] \in Request
      BY DEF Job
    <3>2. CASE jobState[j] # "none"
      BY <2>1, <2>2, <3>1, <3>2 DEF JobsAreLaunched, NotLaunched, CampaignOf
    <3>3. CASE jobState[j] = "none"
      <4>1. j[1] = r
        BY <1>2, <2>3, <3>3, AddedJobs
      <4> QED
        BY <2>1, <4>1 DEF JobsAreLaunched, NotLaunched, CampaignOf
    <3> QED
      BY <3>2, <3>3
  <2> QED
    BY <2>1, <2>2, <2>3 DEF JobsAreLaunched, NotLaunched
<1>3. ASSUME \A j \in Job : jobState'[j] # "none" => jobState[j] # "none",
             \A r \in Request :
                 /\ request'[r].campaign = request[r].campaign
                 /\ request'[r].pc = "free" <=> request[r].pc = "free"
                 /\ request'[r].pc = "addJobs" => request[r].pc = "addJobs"
                 /\ request[r].pc = "done" => request'[r].pc = "done"
      PROVE  JobsAreLaunched'
  <2>1. ASSUME NEW c \in Campaign, ~NotLaunched(c)
        PROVE  ~NotLaunched(c)'
    BY <2>1, RowLife DEF NotLaunched
  <2>2. \A r \in Request : request[r].pc # "free" => request[r].campaign \in Campaign
    BY DEF TypeOK, RequestRecord, JobsAreLaunched
  <2>3. \A j \in Job : j[1] \in Request
    BY DEF Job
  <2> QED
    BY <1>3, <2>1, <2>2, <2>3 DEF JobsAreLaunched, CampaignOf, NotLaunched
<1>4. ASSUME NEW w \in Worker,
             WorkerStep(w) \/ AcceptedThenFails(w) \/ WorkerFails(w) \/ CatchFails(w)
      PROVE  JobsAreLaunched'
  <2>1. \A j \in Job : jobState'[j] # "none" => jobState[j] # "none"
    BY <1>4, SlotMoves DEF SlotsHoldJobs, TypeOK, Slot
  <2>2. UNCHANGED request
    BY <1>4, WorkerKeepsRequests, FaultKeepsRows
  <2> QED
    BY <1>3, <2>1, <2>2
<1>5. ASSUME NEW j \in Job, Stalled(j)
      PROVE  JobsAreLaunched'
  <2>1. \A i \in Job : jobState'[i] # "none" => jobState[i] # "none"
    BY <1>5 DEF Stalled, Orphaned, TypeOK
  <2> QED
    BY <1>3, <1>5, <2>1 DEF Stalled
<1>6. CASE Crash
  <2>1. \A r \in Request :
           /\ request'[r].campaign = request[r].campaign
           /\ request'[r].pc = "free" <=> request[r].pc = "free"
           /\ request'[r].pc = "addJobs" => request[r].pc = "addJobs"
           /\ request[r].pc = "done" => request'[r].pc = "done"
    BY <1>6 DEF Crash, InFlight, TypeOK, RequestRecord
  <2> QED
    BY <1>3, <1>6, <2>1 DEF Crash, queueVars
<1> QED
  BY <1>1, <1>2, <1>4, <1>5, <1>6, StepCases

\* A busy slot's campaign was launched.
LEMMA BusyIsLaunched ==
    ASSUME IInv, NEW w \in Worker, worker[w].pc # "idle"
    PROVE  /\ worker[w].job \in Job
           /\ jobState[worker[w].job] = "active"
           /\ CampaignAt(w) \in Campaign
           /\ ~NotLaunched(CampaignAt(w))
<1>1. worker[w].job \in Job /\ jobState[worker[w].job] = "active"
  BY DEF IInv, SlotsHoldJobs, TypeOK, Slot
<1>2. worker[w].job[1] \in Request
  BY <1>1 DEF Job
<1> QED
  BY <1>1, <1>2 DEF IInv, JobsAreLaunched, CampaignAt, CampaignOf, TypeOK, RequestRecord

LEMMA DraftStep ==
    ASSUME IInv, [Next]_vars
    PROVE  DraftCountsNothing'
<1> USE DEF IInv
<1>1. CASE Administrative
  <2>1. ASSUME NEW c \in Campaign, NotLaunched(c)'
        PROVE  (row[c].sent = 0 /\ row[c].failed = 0 /\ ~row[c].completedAt)'
    <3>1. NotLaunched(c)
      BY <2>1, RowLife DEF NotLaunched
    <3> QED
      BY <1>1, <3>1 DEF Administrative, RowKept, DraftCountsNothing
  <2> QED
    BY <2>1 DEF DraftCountsNothing
<1>2. ASSUME NEW w \in Worker, WorkerStep(w)
      PROVE  DraftCountsNothing'
  <2>1. ASSUME NEW c \in Campaign, NotLaunched(c)'
        PROVE  row'[c] = row[c] /\ NotLaunched(c)
    <3>1. NotLaunched(c)
      BY <2>1, RowLife DEF NotLaunched
    <3>2. WorkerWrites(c)
      BY <1>2, WorkerRows
    <3> QED
      BY <3>1, <3>2, BusyIsLaunched DEF WorkerWrites
  <2> QED
    BY <2>1 DEF DraftCountsNothing
<1>3. CASE UNCHANGED row
  BY <1>3 DEF DraftCountsNothing, NotLaunched
<1> QED
  BY <1>1, <1>2, <1>3, StepCases, FaultKeepsRows DEF AddCampaignMessages, Stalled, Crash

\* The budget of a job that was not accepted or taken back now can only have grown.
LEMMA BudgetStep ==
    ASSUME IInv, [Next]_vars
    PROVE  SendBudget' /\ OneSendPerRun'
<1> USE DEF IInv
<1>1. ASSUME UNCHANGED <<accepted, stalls>>,
             \A j \in Job : jobState'[j] \in {"none", "waiting"}
                                => jobState[j] \in {"none", "waiting"},
             \A w \in Worker : worker'[w].pc = "send"
                                => worker[w].pc = "send" /\ worker'[w].job = worker[w].job
      PROVE  SendBudget' /\ OneSendPerRun'
  BY <1>1 DEF SendBudget, OneSendPerRun, At
<1>2. CASE Administrative
  BY <1>1, <1>2 DEF Administrative
<1>3. ASSUME NEW r \in Request, AddCampaignMessages(r)
      PROVE  SendBudget' /\ OneSendPerRun'
  <2>1. \A j \in Job : jobState'[j] \in {"none", "waiting"}
                         => jobState[j] \in {"none", "waiting"}
    BY <1>3, AddedJobs
  <2> QED
    BY <1>1, <1>3, <2>1 DEF AddCampaignMessages, workerVars
<1>4. ASSUME NEW w \in Worker, NEW j \in Job, Take(w, j)
      PROVE  SendBudget' /\ OneSendPerRun'
  <2>1. \A i \in Job : jobState'[i] = IF i = j THEN "active" ELSE jobState[i]
    BY <1>4 DEF Take, TypeOK
  <2>2. \A v \in Worker : worker'[v] = IF v = w THEN [pc |-> "send", job |-> j, ok |-> FALSE]
                                                ELSE worker[v]
    BY <1>4 DEF Take, TypeOK
  <2>3. jobState[j] = "waiting" /\ UNCHANGED <<accepted, stalls>>
    BY <1>4 DEF Take
  <2> QED
    BY <2>1, <2>2, <2>3 DEF SendBudget, OneSendPerRun, At
<1>5. ASSUME NEW w \in Worker, SendAccepted(w) \/ AcceptedThenFails(w)
      PROVE  SendBudget' /\ OneSendPerRun'
  <2> DEFINE j == worker[w].job
  <2>1. /\ At(w, "send")
        /\ j \in Job /\ jobState[j] = "active"
        /\ accepted[j] <= stalls[j]
    BY <1>5, BusyIsLaunched DEF SendAccepted, AcceptedThenFails, At, SendBudget
  <2>2. accepted' = [accepted EXCEPT ![j] = @ + 1] /\ UNCHANGED <<stalls, jobState>>
    BY <1>5 DEF SendAccepted, AcceptedThenFails
  <2>3. \A i \in Job : accepted'[i] = IF i = j THEN accepted[j] + 1 ELSE accepted[i]
    BY <2>2 DEF TypeOK
  <2>4. worker'[w].pc = "count" /\ \A v \in Worker \ {w} : worker'[v] = worker[v]
    BY <1>5 DEF SendAccepted, AcceptedThenFails, TypeOK, Slot
  <2>5. \A i \in Job : accepted[i] \in Nat /\ stalls[i] \in Nat
    BY DEF TypeOK, MaxStalls
  <2>6. \A v \in Worker \ {w} : worker[v].pc = "send" =>
            worker[v].job \in Job \ {j} /\ accepted[worker[v].job] <= stalls[worker[v].job]
    BY <2>1, BusyIsLaunched DEF SlotsHoldJobs, SendBudget, At
  <2>7. OneSendPerRun'
    BY <2>1, <2>2, <2>3, <2>5 DEF OneSendPerRun
  <2>8. SendBudget'
    BY <2>1, <2>2, <2>3, <2>4, <2>6 DEF SendBudget, At
  <2> QED
    BY <2>7, <2>8
<1>6. ASSUME NEW w \in Worker,
             \/ SendRefused(w) \/ CountResult(w) \/ WorkerRowGone(w) \/ WorkerFails(w)
             \/ CheckComplete(w) \/ CompleteCampaign(w) \/ CatchError(w) \/ CatchFails(w)
      PROVE  SendBudget' /\ OneSendPerRun'
  <2>1. worker[w].pc # "idle" /\ UNCHANGED <<accepted, stalls>>
    BY <1>6 DEF SendRefused, CountResult, WorkerRowGone, WorkerFails, CheckComplete,
                CompleteCampaign, CatchError, CatchFails, At, queueVars
  <2>2. \A j \in Job : jobState'[j] \in {"none", "waiting"}
                         => jobState[j] \in {"none", "waiting"}
    BY <1>6, <2>1, SlotMoves DEF WorkerStep, TypeOK
  <2>3. worker'[w].pc # "send" /\ \A v \in Worker \ {w} : worker'[v] = worker[v]
    <3>1. CASE SendRefused(w) \/ CountResult(w) \/ WorkerRowGone(w) \/ WorkerFails(w)
      BY <3>1 DEF SendRefused, CountResult, WorkerRowGone, WorkerFails, Advance, TypeOK, Slot
    <3>2. CASE CheckComplete(w)
      BY <3>2 DEF CheckComplete, Advance, Release, IdleWorker, TypeOK, Slot
    <3>3. CASE CompleteCampaign(w) \/ CatchError(w) \/ CatchFails(w)
      BY <3>3 DEF CompleteCampaign, CatchError, CatchFails, Release, IdleWorker, TypeOK, Slot
    <3> QED
      BY <1>6, <3>1, <3>2, <3>3
  <2> QED
    BY <1>1, <2>1, <2>2, <2>3
<1>7. ASSUME NEW j \in Job, Stalled(j)
      PROVE  SendBudget' /\ OneSendPerRun'
  <2>1. /\ UNCHANGED <<accepted, worker>>
        /\ \A w \in Worker : worker[w].job # j
        /\ accepted[j] <= 1 + stalls[j]
    BY <1>7 DEF Stalled, Orphaned, OneSendPerRun
  <2>2. \A i \in Job : accepted[i] \in Nat /\ stalls[i] \in Nat
    BY DEF TypeOK, MaxStalls
  <2>3. \A i \in Job \ {j} : jobState'[i] = jobState[i] /\ stalls'[i] = stalls[i]
    BY <1>7 DEF Stalled, TypeOK
  <2>4. \/ stalls'[j] = stalls[j] + 1
        \/ stalls'[j] = stalls[j] /\ jobState'[j] = "failed"
    BY <1>7 DEF Stalled, TypeOK
  <2>5. \A w \in Worker : worker[w].pc = "send" => worker[w].job \in Job \ {j}
    BY <2>1, BusyIsLaunched
  <2>6. OneSendPerRun'
    BY <2>1, <2>2, <2>3, <2>4 DEF OneSendPerRun
  <2>7. SendBudget'
    BY <2>1, <2>2, <2>3, <2>4, <2>5 DEF SendBudget, At
  <2> QED
    BY <2>6, <2>7
<1>8. CASE Crash
  BY <1>1, <1>8 DEF Crash, IdleWorker, queueVars
<1> QED
  BY <1>2, <1>3, <1>4, <1>5, <1>6, <1>7, <1>8, StepCases DEF WorkerStep

\* A job's launch is over, so it keeps its campaign; and a deleted row stays deleted.
LEMMA JobKeepsCampaign ==
    ASSUME IInv, [Next]_vars, NEW j \in Job, jobState[j] # "none"
    PROVE  /\ request'[j[1]] = request[j[1]]
           /\ CampaignOf(j)' = CampaignOf(j)
           /\ ~Exists(CampaignOf(j)) => ~Exists(CampaignOf(j))'
<1> USE DEF IInv
<1>1. /\ j[1] \in Request /\ request[j[1]].pc = "done"
      /\ CampaignOf(j) \in Campaign /\ ~NotLaunched(CampaignOf(j))
  BY DEF Job, JobsAreLaunched, CampaignOf, TypeOK, RequestRecord
<1>2. request'[j[1]] = request[j[1]]
  <2>1. CASE Administrative
    BY <1>1, <2>1 DEF Administrative, RequestKept
  <2>2. ASSUME NEW r \in Request, AddCampaignMessages(r)
        PROVE  request'[j[1]] = request[j[1]]
    BY <1>1, <2>2 DEF AddCampaignMessages, Finish, TypeOK
  <2>3. CASE Crash
    BY <1>1, <2>3 DEF Crash, InFlight
  <2>4. CASE UNCHANGED request
    BY <2>4
  <2> QED
    BY <2>1, <2>2, <2>3, <2>4, StepCases, WorkerKeepsRequests, FaultKeepsRows DEF Stalled
<1>3. CampaignOf(j)' = CampaignOf(j)
  BY <1>2 DEF CampaignOf
<1>4. ~Exists(CampaignOf(j)) => ~Exists(CampaignOf(j))'
  BY <1>1, <1>3, RowLife DEF Exists, NotLaunched
<1> QED
  BY <1>2, <1>3, <1>4

\* Faults only grow in number, and each fault step adds one.
LEMMA FaultsGrow ==
    ASSUME TypeOK, JobsAreLaunched, [Next]_vars, faults' = 0
    PROVE  /\ faults = 0
           /\ ~Crash
           /\ \A w \in Worker : ~(AcceptedThenFails(w) \/ WorkerFails(w) \/ CatchFails(w))
<1>1. faults \in Nat
  BY MaxFaultsIsNat DEF TypeOK
<1>2. ~Crash /\ \A w \in Worker : ~(AcceptedThenFails(w) \/ WorkerFails(w) \/ CatchFails(w))
  <2>1. ~Fault
    BY <1>1 DEF Fault
  <2> QED
    BY <2>1 DEF Crash, AcceptedThenFails, WorkerFails, CatchFails
<1>3. faults = 0
  BY <1>1, <1>2, StepCases, WorkerKeepsRequests
     DEF Administrative, AddCampaignMessages, Stalled, workerVars
<1> QED
  BY <1>2, <1>3

LEMMA UnharmedStep ==
    ASSUME IInv, [Next]_vars
    PROVE  Unharmed'
<1> SUFFICES ASSUME faults' = 0
             PROVE  /\ \A j \in Job : stalls'[j] = 0
                    /\ \A j \in Job : jobState'[j] = "active"
                                        => \E w \in Worker : worker'[w].job = j
                    /\ \A w \in Worker : At(w, "count")'
                          => worker'[w].ok = (accepted'[worker'[w].job] > 0)
                    /\ \A w \in Worker : At(w, "catch")' => ~Exists(CampaignAt(w))'
  BY DEF Unharmed
<1> USE DEF IInv
<1>1. /\ faults = 0
      /\ \A j \in Job : stalls[j] = 0
      /\ \A j \in Job : jobState[j] = "active" => \E w \in Worker : worker[w].job = j
      /\ \A w \in Worker : At(w, "count") => worker[w].ok = (accepted[worker[w].job] > 0)
      /\ \A w \in Worker : At(w, "catch") => ~Exists(CampaignAt(w))
  BY FaultsGrow DEF Unharmed
<1>2. ASSUME NEW v \in Worker, worker[v].pc # "idle", worker'[v].job = worker[v].job
      PROVE  /\ CampaignAt(v)' = CampaignAt(v)
             /\ ~Exists(CampaignAt(v)) => ~Exists(CampaignAt(v))'
  <2>1. worker[v].job \in Job /\ jobState[worker[v].job] # "none"
    BY <1>2, BusyIsLaunched
  <2> QED
    BY <1>2, <2>1, JobKeepsCampaign DEF CampaignAt, CampaignOf, Exists
<1>3. ASSUME UNCHANGED <<stalls, accepted, worker>>,
             \A j \in Job : jobState'[j] = "active" => jobState[j] = "active"
      PROVE  Unharmed'
  <2>1. \A w \in Worker : At(w, "catch")' => ~Exists(CampaignAt(w))'
    BY <1>1, <1>2, <1>3 DEF At
  <2> QED
    BY <1>1, <1>3, <2>1 DEF Unharmed, At
<1>4. ASSUME Administrative
      PROVE  Unharmed'
  BY <1>3, <1>4 DEF Administrative
<1>5. ASSUME NEW r \in Request, AddCampaignMessages(r)
      PROVE  Unharmed'
  <2>1. \A j \in Job : jobState'[j] = "active" => jobState[j] = "active"
    BY <1>5, AddedJobs
  <2> QED
    BY <1>3, <1>5, <2>1 DEF AddCampaignMessages, workerVars
<1>6. ASSUME NEW w \in Worker, WorkerStep(w)
      PROVE  Unharmed'
  <2>1. stalls' = stalls
    BY <1>6 DEF WorkerStep, Take, SendAccepted, SendRefused, CountResult, CheckComplete,
                CompleteCampaign, WorkerRowGone, CatchError, queueVars
  <2>2. \A v \in Worker \ {w} : worker'[v] = worker[v]
    BY <1>6, SlotMoves DEF TypeOK
  <2>3. \A j \in Job : jobState'[j] = "active" => \E v \in Worker : worker'[v].job = j
    <3>1. ASSUME NEW i \in Job, worker[w].pc = "idle",
                 jobState' = [jobState EXCEPT ![i] = "active"],
                 worker' = [worker EXCEPT ![w] = [pc |-> "send", job |-> i, ok |-> FALSE]],
                 NEW j \in Job, jobState'[j] = "active"
          PROVE  \E v \in Worker : worker'[v].job = j
      <4>1. worker'[w].job = i
        BY <3>1 DEF TypeOK
      <4>2. CASE j # i
        <5>1. jobState[j] = "active"
          BY <3>1, <4>2 DEF TypeOK
        <5>2. PICK v \in Worker : worker[v].job = j
          BY <1>1, <5>1
        <5>3. v # w
          BY <3>1, <5>2, NullsAreFresh DEF SlotsHoldJobs
        <5> QED
          BY <2>2, <5>2, <5>3
      <4> QED
        BY <4>1, <4>2
    <3>2. ASSUME jobState' = jobState, worker'[w].job = worker[w].job,
                 NEW j \in Job, jobState'[j] = "active"
          PROVE  \E v \in Worker : worker'[v].job = j
      <4>1. PICK v \in Worker : worker[v].job = j
        BY <1>1, <3>2
      <4> QED
        BY <2>2, <3>2, <4>1
    <3>3. ASSUME NEW s \in {"completed", "failed"},
                 jobState' = [jobState EXCEPT ![worker[w].job] = s],
                 NEW j \in Job, jobState'[j] = "active"
          PROVE  \E v \in Worker : worker'[v].job = j
      <4>1. jobState[j] = "active" /\ j # worker[w].job
        BY <3>3 DEF TypeOK
      <4>2. PICK v \in Worker : worker[v].job = j
        BY <1>1, <4>1
      <4> QED
        BY <2>2, <4>1, <4>2
    <3> QED
      BY <1>6, <3>1, <3>2, <3>3, SlotMoves
  <2>4. \A v \in Worker : At(v, "count")' => worker'[v].ok = (accepted'[worker'[v].job] > 0)
    <3>1. ASSUME NEW v \in Worker \ {w}, At(v, "count")'
          PROVE  worker'[v].ok = (accepted'[worker'[v].job] > 0)
      <4>1. worker'[v] = worker[v] /\ worker[v].pc = "count"
        BY <2>2, <3>1 DEF At
      <4>2. accepted'[worker[v].job] = accepted[worker[v].job]
        <5>1. CASE SendAccepted(w)
          <6>1. worker[v].job \in Job /\ worker[v].job # worker[w].job
            BY <3>1, <4>1, <5>1, BusyIsLaunched DEF SlotsHoldJobs, SendAccepted, At
          <6> QED
            BY <5>1, <6>1 DEF SendAccepted, TypeOK
        <5>2. CASE UNCHANGED accepted
          BY <5>2
        <5> QED
          BY <1>6, <5>1, <5>2
             DEF WorkerStep, Take, SendRefused, CountResult, CheckComplete, CompleteCampaign,
                 WorkerRowGone, CatchError, queueVars
      <4> QED
        BY <1>1, <4>1, <4>2 DEF At
    <3>2. ASSUME At(w, "count")'
          PROVE  worker'[w].ok = (accepted'[worker'[w].job] > 0)
      <4>1. worker[w].pc # "idle" => /\ worker[w].job \in Job
                                     /\ accepted[worker[w].job] \in Nat
                                     /\ stalls[worker[w].job] = 0
        BY <1>1, BusyIsLaunched DEF TypeOK
      <4>2. CASE SendAccepted(w)
        <5>1. /\ worker[w].pc = "send" /\ worker'[w].ok = TRUE
              /\ worker'[w].job = worker[w].job
          BY <4>2 DEF SendAccepted, At, TypeOK, Slot
        <5>2. accepted'[worker[w].job] = accepted[worker[w].job] + 1
          BY <4>1, <4>2, <5>1 DEF SendAccepted, TypeOK
        <5>3. accepted'[worker[w].job] > 0
          BY <4>1, <5>1, <5>2
        <5> QED
          BY <5>1, <5>3
      <4>3. CASE SendRefused(w)
        <5>1. /\ worker[w].pc = "send" /\ worker'[w].ok = FALSE
              /\ worker'[w].job = worker[w].job /\ accepted' = accepted
          BY <4>3 DEF SendRefused, At, TypeOK, Slot, queueVars
        <5>2. accepted[worker[w].job] <= 0
          BY <4>1, <5>1 DEF SendBudget, At
        <5>3. (accepted'[worker'[w].job] > 0) = FALSE
          BY <4>1, <5>1, <5>2
        <5> QED
          BY <5>1, <5>3
      <4>4. ~(SendAccepted(w) \/ SendRefused(w)) => worker'[w].pc # "count"
        <5>1. CASE \E j \in Job : Take(w, j)
          BY <5>1 DEF Take, TypeOK
        <5>2. CASE CountResult(w) \/ WorkerRowGone(w)
          BY <5>2 DEF CountResult, WorkerRowGone, Advance, TypeOK, Slot
        <5>3. CASE CheckComplete(w)
          BY <5>3 DEF CheckComplete, Advance, Release, IdleWorker, TypeOK, Slot
        <5>4. CASE CompleteCampaign(w) \/ CatchError(w)
          BY <5>4 DEF CompleteCampaign, CatchError, Release, IdleWorker, TypeOK, Slot
        <5> QED
          BY <1>6, <5>1, <5>2, <5>3, <5>4 DEF WorkerStep
      <4> QED
        BY <3>2, <4>2, <4>3, <4>4 DEF At
    <3> QED
      BY <3>1, <3>2
  <2>5. \A v \in Worker : At(v, "catch")' => ~Exists(CampaignAt(v))'
    <3>1. ASSUME NEW v \in Worker \ {w}, At(v, "catch")'
          PROVE  ~Exists(CampaignAt(v))'
      BY <1>1, <1>2, <2>2, <3>1 DEF At
    <3>2. ASSUME At(w, "catch")'
          PROVE  ~Exists(CampaignAt(w))'
      <4>1. WorkerRowGone(w)
        <5>1. CASE \E j \in Job : Take(w, j)
          BY <3>2, <5>1 DEF Take, At, TypeOK
        <5>2. CASE SendAccepted(w) \/ SendRefused(w) \/ CountResult(w)
          BY <3>2, <5>2 DEF SendAccepted, SendRefused, CountResult, Advance, At, TypeOK, Slot
        <5>3. CASE CheckComplete(w)
          BY <3>2, <5>3 DEF CheckComplete, Advance, Release, IdleWorker, At, TypeOK, Slot
        <5>4. CASE CompleteCampaign(w) \/ CatchError(w)
          BY <3>2, <5>4 DEF CompleteCampaign, CatchError, Release, IdleWorker, At, TypeOK, Slot
        <5> QED
          BY <1>6, <5>1, <5>2, <5>3, <5>4 DEF WorkerStep
      <4>2. worker[w].pc # "idle" /\ worker'[w].job = worker[w].job /\ ~Exists(CampaignAt(w))
        BY <4>1 DEF WorkerRowGone, Advance, TypeOK, Slot
      <4> QED
        BY <1>2, <4>2
    <3> QED
      BY <3>1, <3>2
  <2> QED
    BY <1>1, <2>1, <2>3, <2>4, <2>5 DEF Unharmed
<1>7. ASSUME NEW j \in Job, Stalled(j)
      PROVE  Unharmed'
  BY <1>1, <1>7 DEF Stalled, Orphaned
<1>8. Unharmed'
  <2>1. \/ Administrative
        \/ \E r \in Request : AddCampaignMessages(r)
        \/ \E w \in Worker : WorkerStep(w)
        \/ \E j \in Job : Stalled(j)
    BY StepCases, FaultsGrow
  <2> QED
    BY <1>4, <1>5, <1>6, <1>7, <2>1
<1> QED
  BY <1>8 DEF Unharmed

\* A step of a worker decides about its own job only: until its increment the job is
\* not counted, from there to the end it is, and a slot that lets go leaves it ended.
LEMMA CountedMoves ==
    ASSUME IInv, NEW w \in Worker, WorkerStep(w)
    PROVE  \A j \in Job :
             /\ j # worker[w].job => (Counted(j)' <=> Counted(j))
             /\ worker[w].pc # "idle" /\ j = worker[w].job =>
                  /\ Counted(j) <=> worker[w].pc \in {"check", "complete"}
                  /\ Counted(j)' <=> worker'[w].pc \in {"idle", "check", "complete"}
<1> USE DEF IInv
<1>1. \A v \in Worker \ {w} : worker'[v] = worker[v]
  BY SlotMoves DEF TypeOK
<1>2. ASSUME NEW i \in Job, worker[w].pc = "idle", jobState[i] = "waiting",
             jobState' = [jobState EXCEPT ![i] = "active"],
             worker' = [worker EXCEPT ![w] = [pc |-> "send", job |-> i, ok |-> FALSE]],
             NEW j \in Job
      PROVE  Counted(j)' <=> Counted(j)
  <2>1. worker'[w].pc = "send"
    BY <1>2 DEF TypeOK
  <2>2. jobState'[j] \in {"completed", "failed"} <=> jobState[j] \in {"completed", "failed"}
    BY <1>2 DEF TypeOK
  <2>3. (\E v \in Worker : worker'[v].job = j /\ worker'[v].pc \in {"check", "complete"})
          <=> (\E v \in Worker : worker[v].job = j /\ worker[v].pc \in {"check", "complete"})
    BY <1>1, <1>2, <2>1
  <2> QED
    BY <2>2, <2>3 DEF Counted
<1>3. ASSUME worker[w].pc # "idle", NEW j \in Job, j # worker[w].job,
             worker'[w].job \in {worker[w].job, NoJob},
             jobState'[j] = jobState[j]
      PROVE  Counted(j)' <=> Counted(j)
  <2>1. worker'[w].job # j
    BY <1>3, NullsAreFresh
  <2>2. (\E v \in Worker : worker'[v].job = j /\ worker'[v].pc \in {"check", "complete"})
          <=> (\E v \in Worker : worker[v].job = j /\ worker[v].pc \in {"check", "complete"})
    BY <1>1, <1>3, <2>1
  <2> QED
    BY <1>3, <2>2 DEF Counted
<1>4. ASSUME worker[w].pc # "idle"
      PROVE  /\ worker[w].job \in Job
             /\ jobState[worker[w].job] = "active"
             /\ \A v \in Worker \ {w} : worker[v].job # worker[w].job
  BY <1>4, BusyIsLaunched DEF SlotsHoldJobs
<1>5. ASSUME worker[w].pc # "idle", NEW j \in Job, j = worker[w].job
      PROVE  Counted(j) <=> worker[w].pc \in {"check", "complete"}
  BY <1>4, <1>5 DEF Counted
<1>6. ASSUME worker[w].pc # "idle", jobState' = jobState,
             worker'[w].job = worker[w].job, NEW j \in Job, j = worker[w].job
      PROVE  Counted(j)' <=> worker'[w].pc \in {"check", "complete"}
  <2>1. \A v \in Worker \ {w} : worker'[v].job # j
    BY <1>1, <1>4, <1>6
  <2> QED
    BY <1>4, <1>6, <2>1 DEF Counted
<1>7. ASSUME worker[w].pc # "idle", NEW s \in {"completed", "failed"},
             jobState' = [jobState EXCEPT ![worker[w].job] = s],
             worker' = [worker EXCEPT ![w] = IdleWorker]
      PROVE  /\ worker'[w].pc = "idle" /\ worker'[w].job = NoJob
             /\ \A j \in Job : j = worker[w].job => Counted(j)'
             /\ \A j \in Job : j # worker[w].job => jobState'[j] = jobState[j]
  <2>1. worker'[w].pc = "idle" /\ worker'[w].job = NoJob
    BY <1>7 DEF IdleWorker, TypeOK
  <2>2. \A j \in Job : j = worker[w].job => jobState'[j] = s
    BY <1>4, <1>7 DEF TypeOK
  <2>3. \A j \in Job : j # worker[w].job => jobState'[j] = jobState[j]
    BY <1>7 DEF TypeOK
  <2> QED
    BY <2>1, <2>2, <2>3 DEF Counted
<1>8. CASE worker[w].pc = "idle"
  BY <1>2, <1>8, SlotMoves
<1>9. CASE worker[w].pc # "idle" /\ worker'[w].pc # "idle"
  <2>1. jobState' = jobState /\ worker'[w].job = worker[w].job
    BY <1>7, <1>9, SlotMoves
  <2> QED
    BY <1>3, <1>5, <1>6, <1>9, <2>1
<1>10. CASE worker[w].pc # "idle" /\ worker'[w].pc = "idle"
  <2>1. /\ worker'[w].job = NoJob
        /\ \A j \in Job : j = worker[w].job => Counted(j)'
        /\ \A j \in Job : j # worker[w].job => jobState'[j] = jobState[j]
    BY <1>7, <1>10, SlotMoves
  <2> QED
    BY <1>3, <1>5, <1>10, <2>1
<1> QED
  BY <1>8, <1>9, <1>10

\* Only a job that exists is counted.
LEMMA CountedExists ==
    ASSUME IInv, NEW j \in Job, Counted(j)
    PROVE  jobState[j] # "none"
BY DEF IInv, SlotsHoldJobs, Counted

LEMMA FiniteAccounts ==
    \A c : /\ IsFiniteSet(SentJobs(c)) /\ IsFiniteSet(FailedJobs(c))
           /\ SentJobs(c) \subseteq Job /\ FailedJobs(c) \subseteq Job
<1>1. IsFiniteSet(Job)
  BY FiniteSets, FS_Product DEF Job
<1>2. \A c : SentJobs(c) \subseteq Job /\ FailedJobs(c) \subseteq Job
  BY DEF SentJobs, FailedJobs, JobsOf
<1> QED
  BY <1>1, <1>2, FS_Subset

\* A campaign's account holds over a step that changes neither its counters nor which
\* of its jobs are counted.
LEMMA AccountKept ==
    ASSUME IInv, [Next]_vars, faults = 0, NEW c \in Campaign, Exists(c),
           row'[c].sent = row[c].sent, row'[c].failed = row[c].failed,
           \A j \in Job : jobState[j] = "none" => ~Counted(j)',
           \A j \in Job : CampaignOf(j) = c /\ jobState[j] # "none" =>
               /\ jobState'[j] # "none"
               /\ Counted(j)' <=> Counted(j)
               /\ Counted(j) => accepted'[j] = accepted[j]
    PROVE  /\ row'[c].sent = Cardinality(SentJobs(c)')
           /\ row'[c].failed = Cardinality(FailedJobs(c)')
<1>1. ASSUME NEW j \in Job
      PROVE  /\ j \in SentJobs(c)' <=> j \in SentJobs(c)
             /\ j \in FailedJobs(c)' <=> j \in FailedJobs(c)
  <2>1. CASE jobState[j] = "none"
    BY <2>1 DEF SentJobs, FailedJobs, JobsOf
  <2>2. CASE jobState[j] # "none"
    <3>1. CampaignOf(j)' = CampaignOf(j)
      BY <2>2, JobKeepsCampaign
    <3> QED
      BY <2>2, <3>1 DEF SentJobs, FailedJobs, JobsOf
  <2> QED
    BY <2>1, <2>2
<1>2. SentJobs(c)' = SentJobs(c) /\ FailedJobs(c)' = FailedJobs(c)
  BY <1>1 DEF SentJobs, FailedJobs, JobsOf
<1>3. row[c].sent = Cardinality(SentJobs(c)) /\ row[c].failed = Cardinality(FailedJobs(c))
  BY DEF IInv, ExactAccounting
<1> QED
  BY <1>2, <1>3

\* The increment and the set of counted jobs grow together.
LEMMA AccountGrows ==
    ASSUME IInv, [Next]_vars, faults = 0, NEW w \in Worker, CountResult(w),
           NEW c \in Campaign, c = CampaignAt(w)
    PROVE  /\ row'[c].sent = Cardinality(SentJobs(c)')
           /\ row'[c].failed = Cardinality(FailedJobs(c)')
<1> USE DEF IInv
<1>1. PICK i \in Job : i = worker[w].job
  BY BusyIsLaunched DEF CountResult, At
<1>2. /\ CampaignOf(i) = c /\ Exists(c)
      /\ worker[w].pc = "count" /\ jobState[i] = "active"
      /\ worker[w].ok = (accepted[i] > 0)
      /\ accepted[i] \in Nat
  BY <1>1, BusyIsLaunched DEF CountResult, At, CampaignAt, Unharmed, TypeOK
<1>3. UNCHANGED <<request, jobState, accepted>> /\ row' = Incremented(w, c)
  BY <1>1, <1>2 DEF CountResult, queueVars
<1>4. ~Counted(i) /\ Counted(i)' /\ \A j \in Job \ {i} : Counted(j)' <=> Counted(j)
  <2>1. WorkerStep(w) /\ worker'[w].pc = "check"
    BY DEF WorkerStep, CountResult, Advance, TypeOK, Slot
  <2> QED
    BY <1>1, <1>2, <2>1, CountedMoves
<1>5. \A j \in Job : CampaignOf(j)' = CampaignOf(j)
  BY <1>3 DEF CampaignOf
<1>6. row[c].sent = Cardinality(SentJobs(c)) /\ row[c].failed = Cardinality(FailedJobs(c))
  BY <1>2 DEF ExactAccounting
<1>7. CASE worker[w].ok
  <2>1. row'[c].sent = row[c].sent + 1 /\ row'[c].failed = row[c].failed
    BY <1>3, <1>7 DEF Incremented, TypeOK, Row
  <2>2. accepted[i] > 0 /\ accepted[i] # 0
    <3>1. accepted[i] > 0
      BY <1>2, <1>7, Zenon
    <3> QED
      BY <1>2, <3>1
  <2>3. SentJobs(c)' = SentJobs(c) \cup {i} /\ i \notin SentJobs(c)
    BY <1>2, <1>3, <1>4, <1>5, <2>2 DEF SentJobs, JobsOf
  <2>4. FailedJobs(c)' = FailedJobs(c)
    BY <1>2, <1>3, <1>4, <1>5, <2>2 DEF FailedJobs, JobsOf
  <2>5. Cardinality(SentJobs(c) \cup {i}) = Cardinality(SentJobs(c)) + 1
    BY <2>3, FiniteAccounts, FS_AddElement
  <2> QED
    BY <1>6, <2>1, <2>3, <2>4, <2>5
<1>8. CASE ~worker[w].ok
  <2>1. row'[c].sent = row[c].sent /\ row'[c].failed = row[c].failed + 1
    BY <1>3, <1>8 DEF Incremented, TypeOK, Row
  <2>2. ~(accepted[i] > 0) /\ accepted[i] = 0
    <3>1. ~(accepted[i] > 0)
      BY <1>2, <1>8, Zenon
    <3> QED
      BY <1>2, <3>1
  <2>3. FailedJobs(c)' = FailedJobs(c) \cup {i} /\ i \notin FailedJobs(c)
    BY <1>2, <1>3, <1>4, <1>5, <2>2 DEF FailedJobs, JobsOf
  <2>4. SentJobs(c)' = SentJobs(c)
    BY <1>2, <1>3, <1>4, <1>5, <2>2 DEF SentJobs, JobsOf
  <2>5. Cardinality(FailedJobs(c) \cup {i}) = Cardinality(FailedJobs(c)) + 1
    BY <2>3, FiniteAccounts, FS_AddElement
  <2> QED
    BY <1>6, <2>1, <2>3, <2>4, <2>5
<1> QED
  BY <1>7, <1>8

LEMMA AccountingStep ==
    ASSUME IInv, [Next]_vars
    PROVE  ExactAccounting'
<1> SUFFICES ASSUME faults' = 0, NEW c \in Campaign, Exists(c)'
             PROVE  /\ row'[c].sent = Cardinality(SentJobs(c)')
                    /\ row'[c].failed = Cardinality(FailedJobs(c)')
  BY DEF ExactAccounting
<1> USE DEF IInv
<1>1. /\ faults = 0
      /\ \/ Administrative
         \/ \E r \in Request : AddCampaignMessages(r)
         \/ \E w \in Worker : WorkerStep(w)
         \/ \E j \in Job : Stalled(j)
  BY StepCases, FaultsGrow
<1>2. \A j \in Job : Counted(j) => jobState[j] # "none"
  BY CountedExists
<1>3. CASE Administrative
  <2>1. \A j \in Job : Counted(j)' <=> Counted(j)
    BY <1>3 DEF Administrative, Counted
  <2>2. CASE Exists(c)
    <3>1. row'[c].sent = row[c].sent /\ row'[c].failed = row[c].failed
      BY <1>3, <2>2 DEF Administrative, RowKept, Exists, Status
    <3> QED
      BY <1>1, <1>2, <1>3, <2>1, <2>2, <3>1, AccountKept DEF Administrative
  <2>3. CASE ~Exists(c)
    <3>1. row[c].status = "ABSENT" /\ row'[c].sent = 0 /\ row'[c].failed = 0
      BY <1>3, <2>3 DEF Administrative, RowKept, Exists, Status
    <3>2. ASSUME NEW j \in Job, j \in JobsOf(c)'
          PROVE  FALSE
      <4>1. jobState[j] # "none"
        BY <1>3, <3>2 DEF Administrative, JobsOf
      <4>2. CampaignOf(j) = c
        BY <3>2, <4>1, JobKeepsCampaign DEF JobsOf
      <4> QED
        BY <3>1, <4>1, <4>2 DEF JobsAreLaunched, NotLaunched
    <3>3. SentJobs(c)' = {} /\ FailedJobs(c)' = {}
      BY <3>2 DEF SentJobs, FailedJobs, JobsOf
    <3> QED
      BY <3>1, <3>3, FS_EmptySet
  <2> QED
    BY <2>2, <2>3
<1>4. ASSUME NEW r \in Request, AddCampaignMessages(r)
      PROVE  /\ row'[c].sent = Cardinality(SentJobs(c)')
             /\ row'[c].failed = Cardinality(FailedJobs(c)')
  <2>1. \A j \in Job : Counted(j)' <=> Counted(j)
    BY <1>4, AddedJobs DEF AddCampaignMessages, Counted, workerVars
  <2>2. \A j \in Job : jobState[j] # "none" => jobState'[j] # "none"
    BY <1>4, AddedJobs
  <2>3. UNCHANGED <<row, accepted>>
    BY <1>4 DEF AddCampaignMessages
  <2> QED
    BY <1>1, <1>2, <2>1, <2>2, <2>3, AccountKept DEF Exists
<1>5. ASSUME NEW w \in Worker, WorkerStep(w)
      PROVE  /\ row'[c].sent = Cardinality(SentJobs(c)')
             /\ row'[c].failed = Cardinality(FailedJobs(c)')
  <2>1. \A j \in Job : jobState'[j] # "none" <=> jobState[j] # "none"
    BY <1>5, SlotMoves, BusyIsLaunched DEF TypeOK
  <2>2. \A j \in Job : jobState[j] = "none" => ~Counted(j)'
    <3>1. \A j \in Job : jobState[j] = "none" => j # worker[w].job
      BY BusyIsLaunched, NullsAreFresh DEF SlotsHoldJobs
    <3> QED
      BY <1>2, <1>5, <3>1, CountedMoves
  <2>3. Exists(c)
    <3>1. WorkerWrites(c)
      BY <1>5, WorkerRows
    <3> QED
      BY <3>1 DEF WorkerWrites, Exists
  <2>4. \A j \in Job : j # worker[w].job => accepted'[j] = accepted[j]
    <3>1. CASE SendAccepted(w)
      BY <3>1 DEF SendAccepted, TypeOK
    <3>2. CASE UNCHANGED accepted
      BY <3>2
    <3> QED
      BY <1>5, <3>1, <3>2
         DEF WorkerStep, Take, SendRefused, CountResult, CheckComplete, CompleteCampaign,
             WorkerRowGone, CatchError, queueVars
  <2>5. ASSUME row'[c].sent = row[c].sent, row'[c].failed = row[c].failed,
               worker[w].pc # "idle" /\ CampaignAt(w) = c =>
                   /\ worker'[w].pc \in {"idle", "check", "complete"}
                        <=> worker[w].pc \in {"check", "complete"}
                   /\ worker[w].pc # "send" => accepted' = accepted
        PROVE  /\ row'[c].sent = Cardinality(SentJobs(c)')
               /\ row'[c].failed = Cardinality(FailedJobs(c)')
    <3>1. ASSUME NEW j \in Job, CampaignOf(j) = c, jobState[j] # "none"
          PROVE  (Counted(j)' <=> Counted(j)) /\ (Counted(j) => accepted'[j] = accepted[j])
      <4>1. CASE j # worker[w].job
        BY <1>5, <2>4, <4>1, CountedMoves
      <4>2. CASE j = worker[w].job
        <5>1. worker[w].pc # "idle" /\ CampaignAt(w) = c
          BY <3>1, <4>2, NullsAreFresh DEF CampaignAt, SlotsHoldJobs
        <5> QED
          BY <1>5, <2>5, <4>2, <5>1, CountedMoves
      <4> QED
        BY <4>1, <4>2
    <3> QED
      BY <1>1, <2>1, <2>2, <2>3, <2>5, <3>1, AccountKept
  <2>6. CASE \E j \in Job : Take(w, j)
    BY <2>5, <2>6 DEF Take, At
  <2>7. CASE SendAccepted(w) \/ SendRefused(w)
    <3>1. worker[w].pc = "send" /\ worker'[w].pc = "count" /\ row' = row
      BY <2>7 DEF SendAccepted, SendRefused, At, TypeOK, Slot
    <3> QED
      BY <2>5, <3>1
  <2>8. CASE CountResult(w)
    <3>1. CASE c = CampaignAt(w)
      BY <1>1, <2>8, <3>1, AccountGrows
    <3>2. CASE c # CampaignAt(w)
      BY <2>5, <2>8, <3>2 DEF CountResult, Incremented, TypeOK
    <3> QED
      BY <3>1, <3>2
  <2>9. CASE CheckComplete(w)
    <3>1. /\ worker[w].pc = "check" /\ worker'[w].pc \in {"idle", "complete"}
          /\ UNCHANGED <<row, accepted>>
      BY <2>9 DEF CheckComplete, Advance, Release, IdleWorker, At, TypeOK, Slot
    <3> QED
      BY <2>5, <3>1
  <2>10. CASE CompleteCampaign(w)
    <3>1. /\ worker[w].pc = "complete" /\ worker'[w].pc = "idle" /\ accepted' = accepted
          /\ row'[c].sent = row[c].sent /\ row'[c].failed = row[c].failed
      BY <2>10 DEF CompleteCampaign, Release, IdleWorker, At, TypeOK, Slot, Row
    <3> QED
      BY <2>5, <3>1
  <2>11. CASE WorkerRowGone(w)
    <3>1. CampaignAt(w) # c /\ UNCHANGED row
      BY <2>3, <2>11 DEF WorkerRowGone
    <3> QED
      BY <2>5, <3>1
  <2>12. CASE CatchError(w)
    <3>1. ~Exists(CampaignAt(w))
      BY <1>1, <2>12 DEF CatchError, Unharmed
    <3>2. CampaignAt(w) # c /\ UNCHANGED row
      BY <2>3, <2>12, <3>1 DEF CatchError
    <3> QED
      BY <2>5, <3>2
  <2> QED
    BY <1>5, <2>6, <2>7, <2>8, <2>9, <2>10, <2>11, <2>12 DEF WorkerStep
<1>6. ASSUME NEW j \in Job, Stalled(j)
      PROVE  FALSE
  BY <1>1, <1>6 DEF Stalled, Orphaned, Unharmed
<1> QED
  BY <1>1, <1>3, <1>4, <1>5, <1>6

-----------------------------------------------------------------------------
(* The invariant and what follows from it.                                 *)

LEMMA IInvInit ==
    ASSUME Init
    PROVE  IInv
<1> USE DEF Init
<1>1. TypeOK
  BY TypeInit
<1>2. \A c \in Campaign : row[c] = NoRow
  OBVIOUS
<1>3. /\ \A r \in Request : request[r].pc = "free" /\ request[r].campaign = NoCampaign
      /\ \A w \in Worker : worker[w].pc = "idle" /\ worker[w].job = NoJob
      /\ \A j \in Job : jobState[j] = "none" /\ stalls[j] = 0 /\ accepted[j] = 0
  BY DEF NoRequest, IdleWorker
<1>4. SlotsHoldJobs
  BY <1>3 DEF SlotsHoldJobs
<1>5. JobsAreLaunched
  BY <1>3 DEF JobsAreLaunched
<1>6. DraftCountsNothing
  BY <1>2 DEF DraftCountsNothing, NoRow
<1>7. SendBudget /\ OneSendPerRun
  BY <1>3 DEF SendBudget, OneSendPerRun, At
<1>8. Unharmed
  BY <1>3 DEF Unharmed, At
<1>9. ExactAccounting
  BY <1>2 DEF ExactAccounting, Exists, NoRow, Status
<1> QED
  BY <1>1, <1>4, <1>5, <1>6, <1>7, <1>8, <1>9 DEF IInv

\* IInv, the conjunction of what slots hold, what jobs and drafts imply, the send
\* budget and the accounts, is inductive and so holds in every behaviour.
THEOREM Invariance == Spec => []IInv
<1>1. Init => IInv
  BY IInvInit
<1>2. IInv /\ [Next]_vars => IInv'
  BY TypeStep, SlotsStep, JobsStep, DraftStep, BudgetStep, UnharmedStep, AccountingStep
     DEF IInv
<1> QED
  BY <1>1, <1>2, PTL DEF Spec

\* The statistics of every campaign are exact in every behaviour without a fault, for
\* any number of campaigns, concurrent launches and worker slots.
THEOREM AccountingIsExact == Spec => []ExactAccounting
<1>1. IInv => ExactAccounting
  BY DEF IInv
<1> QED
  BY <1>1, Invariance, PTL

\* Nothing is ever queued, sent or counted for a draft, whatever fails.
THEOREM DraftsAreQuiet == Spec => []DraftIsQuiet
<1>1. IInv => DraftIsQuiet
  BY DEF IInv, DraftIsQuiet, JobsAreLaunched, DraftCountsNothing, JobsOf, NotLaunched
<1> QED
  BY <1>1, Invariance, PTL

\* Crashes and errors included, the Graph API accepts a job's message at most once for
\* each time the job was put to run.
THEOREM SendsAreBounded == Spec => []OneSendPerRun
<1>1. IInv => OneSendPerRun
  BY DEF IInv
<1> QED
  BY <1>1, Invariance, PTL

-----------------------------------------------------------------------------
(* What a step does to a request, beyond what Administrative says.         *)

Shape(q) ==
    /\ q.pc \in {"markRunning", "addJobs"} => q.op = "launch" /\ q.ids # {}
    /\ q.pc = "writeTotal" => q.op = "update"

\* A request begins in the shape of its operation, marks its row, adds its jobs, goes on
\* with another operation, or ends early.
RequestMoves(r) ==
    \/ request'[r] = request[r]
    \/ /\ request[r].pc = "free"
       /\ request'[r].pc \notin {"free", "addJobs", "done"}
       /\ Shape(request'[r])
    \/ /\ MarkRunning(r)
       /\ request'[r] = [request[r] EXCEPT !.pc = "addJobs"]
    \/ /\ AddCampaignMessages(r)
       /\ request'[r].pc = "done"
       /\ request'[r].op = request[r].op /\ request'[r].campaign = request[r].campaign
    \/ /\ request[r].pc \notin {"free", "done", "markRunning", "addJobs"}
       /\ request'[r].pc \in {"done", "writeStatus"}
       /\ request'[r].op = request[r].op /\ request'[r].campaign = request[r].campaign
    \/ /\ request[r].pc \notin {"free", "done"}
       /\ request'[r].pc = "done"
       /\ request'[r].op = request[r].op /\ request'[r].campaign = request[r].campaign
       /\ RowGone(r) \/ faults' # 0

LEMMA RequestsMove ==
    ASSUME TypeOK, JobsAreLaunched, [Next]_vars, NEW r \in Request
    PROVE  RequestMoves(r)
<1> USE DEF RequestMoves, TypeOK, RequestRecord
<1>1. ASSUME NEW q \in Request, RequestBegins(q)
      PROVE  RequestMoves(r)
  BY <1>1 DEF RequestBegins, Launch, Schedule, Pause, Resume, Cancel, Update, Delete, Begin,
              Shape
<1>2. ASSUME NEW q \in Request, RequestStep(q)
      PROVE  RequestMoves(r)
  <2>1. CASE q # r
    BY <1>2, <2>1 DEF RequestStep, MarkRunning, AddCampaignMessages, PauseQueue, ResumeQueue,
                      WriteStatus, WriteTotal, DeleteRow, RowGone, Continue, Finish
  <2>2. CASE q = r
    <3>1. CASE MarkRunning(r)
      BY <3>1 DEF MarkRunning, Continue
    <3>2. CASE PauseQueue(r) \/ ResumeQueue(r)
      BY <3>2 DEF PauseQueue, ResumeQueue, Continue
    <3>3. CASE AddCampaignMessages(r) \/ WriteStatus(r) \/ WriteTotal(r) \/ DeleteRow(r)
      BY <3>3 DEF AddCampaignMessages, MarkRunning, WriteStatus, WriteTotal, DeleteRow, Finish
    <3>4. CASE RowGone(r)
      BY <3>4 DEF RowGone, Finish
    <3> QED
      BY <1>2, <2>2, <3>1, <3>2, <3>3, <3>4 DEF RequestStep
  <2> QED
    BY <2>1, <2>2
<1>3. CASE FaultStep
  <2>1. Fault => faults' # 0
    BY MaxFaultsIsNat DEF Fault
  <2>2. ASSUME NEW q \in Request, RequestFails(q)
        PROVE  RequestMoves(r)
    BY <2>1, <2>2 DEF RequestFails, InFlight, Finish
  <2>3. CASE Crash
    BY <2>1, <2>3 DEF Crash, InFlight
  <2> QED
    BY <1>3, <2>2, <2>3, FaultKeepsRows DEF FaultStep
<1>4. CASE UNCHANGED request
  BY <1>4
<1> QED
  BY <1>1, <1>2, <1>3, <1>4, WorkerKeepsRequests
     DEF Next, Create, Duplicate, Stalled, vars

\* At most one row changes in a step.
LEMMA OneRow ==
    ASSUME TypeOK, [Next]_vars
    PROVE  row' = row \/ \E c \in Campaign : \A d \in Campaign \ {c} : row'[d] = row[d]
<1> USE DEF TypeOK
<1>1. ASSUME NEW c, NEW v, row' = [row EXCEPT ![c] = v]
      PROVE  row' = row \/ \E e \in Campaign : \A d \in Campaign \ {e} : row'[d] = row[d]
  BY <1>1
<1>2. ASSUME NEW w \in Worker, WorkerStep(w)
      PROVE  row' = row \/ \E e \in Campaign : \A d \in Campaign \ {e} : row'[d] = row[d]
  BY <1>1, <1>2 DEF WorkerStep, Take, SendAccepted, SendRefused, CountResult, Incremented,
              CheckComplete, CompleteCampaign, WorkerRowGone, CatchError
<1>3. ASSUME NEW r \in Request, RequestBegins(r) \/ RequestStep(r)
      PROVE  row' = row \/ \E e \in Campaign : \A d \in Campaign \ {e} : row'[d] = row[d]
  <2>1. CASE RequestBegins(r)
    BY <2>1 DEF RequestBegins, Launch, Schedule, Pause, Resume, Cancel, Update, Delete, Begin
  <2>2. CASE RequestStep(r)
    BY <1>1, <2>2 DEF RequestStep, MarkRunning, AddCampaignMessages, PauseQueue, ResumeQueue,
                WriteStatus, WriteTotal, DeleteRow, RowGone
  <2> QED
    BY <1>3, <2>1, <2>2
<1>4. CASE FaultStep
  BY <1>4, FaultKeepsRows DEF FaultStep, RequestFails, Crash
<1>5. CASE (\E c \in Campaign, n \in 0..Cardinality(Contact) : Create(c, n))
           \/ (\E c, d \in Campaign : Duplicate(c, d))
  BY <1>1, <1>5 DEF Create, Duplicate
<1> QED
  BY <1>2, <1>3, <1>4, <1>5 DEF Next, Stalled, vars

-----------------------------------------------------------------------------
(* Jobs stay, and only their launch adds them.                             *)

LEMMA JobsStay ==
    ASSUME IInv, [Next]_vars, NEW j \in Job
    PROVE  /\ jobState[j] # "none" => jobState'[j] # "none"
           /\ jobState[j] = "none" /\ jobState'[j] # "none" =>
                /\ AddCampaignMessages(j[1])
                /\ j[2] \in request[j[1]].ids
                /\ ~Counted(j)'
<1> USE DEF IInv
<1>1. CASE Administrative
  BY <1>1 DEF Administrative
<1>2. ASSUME NEW r \in Request, AddCampaignMessages(r)
      PROVE  /\ jobState[j] # "none" => jobState'[j] # "none"
             /\ jobState[j] = "none" /\ jobState'[j] # "none" =>
                  /\ AddCampaignMessages(j[1])
                  /\ j[2] \in request[j[1]].ids
                  /\ ~Counted(j)'
  <2>1. \A w \in Worker : worker[w].pc # "idle" /\ worker[w].job = j => jobState[j] # "none"
    BY BusyIsLaunched
  <2>2. jobState[j] = "none" => \A w \in Worker : worker[w].job # j
    BY <2>1, NullsAreFresh DEF SlotsHoldJobs
  <2> QED
    BY <1>2, <2>2, AddedJobs DEF AddCampaignMessages, Counted, workerVars, TypeOK
<1>3. ASSUME NEW w \in Worker,
             WorkerStep(w) \/ AcceptedThenFails(w) \/ WorkerFails(w) \/ CatchFails(w)
      PROVE  jobState'[j] # "none" <=> jobState[j] # "none"
  BY <1>3, SlotMoves, BusyIsLaunched DEF TypeOK
<1>4. ASSUME NEW i \in Job, Stalled(i)
      PROVE  jobState'[j] # "none" <=> jobState[j] # "none"
  BY <1>4 DEF Stalled, Orphaned, TypeOK
<1>5. CASE Crash
  BY <1>5 DEF Crash, queueVars
<1> QED
  BY <1>1, <1>2, <1>3, <1>4, <1>5, StepCases

\* A job of a campaign was its job before, unless it is added now.
LEMMA JobsOfMove ==
    ASSUME IInv, [Next]_vars, NEW c \in Campaign
    PROVE  /\ JobsOf(c) \subseteq JobsOf(c)'
           /\ \A j \in JobsOf(c)' \ JobsOf(c) :
                /\ AddCampaignMessages(j[1]) /\ j[2] \in request[j[1]].ids
                /\ request[j[1]].campaign = c
                /\ ~Counted(j)'
<1>1. ASSUME NEW j \in JobsOf(c)
      PROVE  j \in JobsOf(c)'
  BY <1>1, JobsStay, JobKeepsCampaign DEF JobsOf
<1>2. ASSUME NEW j \in JobsOf(c)', j \notin JobsOf(c)
      PROVE  /\ AddCampaignMessages(j[1]) /\ j[2] \in request[j[1]].ids
             /\ request[j[1]].campaign = c
             /\ ~Counted(j)'
  <2>1. j \in Job /\ jobState'[j] # "none" /\ CampaignOf(j)' = c
    BY <1>2 DEF JobsOf
  <2>2. jobState[j] = "none"
    BY <1>2, <2>1, JobKeepsCampaign DEF JobsOf
  <2>3. AddCampaignMessages(j[1]) /\ j[2] \in request[j[1]].ids /\ ~Counted(j)'
    BY <2>1, <2>2, JobsStay
  <2>4. j[1] \in Request
    BY <2>1 DEF Job
  <2>5. request'[j[1]].campaign = request[j[1]].campaign
    BY <2>3, <2>4 DEF AddCampaignMessages, Finish, IInv, TypeOK, RequestRecord
  <2> QED
    BY <2>1, <2>3, <2>5 DEF CampaignOf
<1> QED
  BY <1>1, <1>2

\* Who writes completedAt and total.
LEMMA RowColumns ==
    ASSUME IInv, [Next]_vars, NEW c \in Campaign
    PROVE  /\ row'[c].completedAt =>
                \/ row[c].completedAt
                \/ \E w \in Worker : CompleteCampaign(w) /\ CampaignAt(w) = c
           /\ Exists(c) /\ row[c].completedAt => row'[c].completedAt
           /\ Exists(c) /\ row'[c].total # row[c].total =>
                \E r \in Request : /\ request[r].campaign = c
                                   /\ MarkRunning(r) \/ WriteTotal(r)
<1> DEFINE Columns ==
        /\ row'[c].completedAt =>
             \/ row[c].completedAt
             \/ \E w \in Worker : CompleteCampaign(w) /\ CampaignAt(w) = c
        /\ Exists(c) /\ row[c].completedAt => row'[c].completedAt
        /\ Exists(c) /\ row'[c].total # row[c].total =>
             \E r \in Request : /\ request[r].campaign = c
                                /\ MarkRunning(r) \/ WriteTotal(r)
<1> USE DEF IInv, TypeOK, Row
<1>1. CASE UNCHANGED row
  BY <1>1
<1>2. CASE (\E d \in Campaign, n \in 0..Cardinality(Contact) : Create(d, n))
           \/ (\E b, d \in Campaign : Duplicate(b, d))
  BY <1>2 DEF Create, Duplicate, NewRow, NoRow, Exists, Status
<1>3. ASSUME NEW r \in Request, RequestStep(r)
      PROVE  Columns
  <2>1. CASE MarkRunning(r) \/ WriteTotal(r)
    BY <2>1 DEF MarkRunning, WriteTotal
  <2>2. CASE WriteStatus(r) \/ DeleteRow(r)
    BY <2>2 DEF WriteStatus, DeleteRow
  <2> QED
    BY <1>1, <1>3, <2>1, <2>2
       DEF RequestStep, AddCampaignMessages, PauseQueue, ResumeQueue, RowGone
<1>4. ASSUME NEW w \in Worker, WorkerStep(w)
      PROVE  Columns
  <2>1. CASE CountResult(w) \/ CatchError(w)
    BY <2>1 DEF CountResult, Incremented, CatchError
  <2>2. CASE CompleteCampaign(w)
    BY <2>2 DEF CompleteCampaign
  <2> QED
    BY <1>1, <1>4, <2>1, <2>2
       DEF WorkerStep, Take, SendAccepted, SendRefused, CheckComplete, WorkerRowGone
<1>5. ASSUME NEW r \in Request, RequestBegins(r)
      PROVE  UNCHANGED row
  BY <1>5 DEF RequestBegins, Launch, Schedule, Pause, Resume, Cancel, Update, Delete, Begin
<1>6. FaultStep => UNCHANGED row
  BY FaultKeepsRows DEF FaultStep, RequestFails, Crash
<1> QED
  BY <1>1, <1>2, <1>3, <1>4, <1>5, <1>6 DEF Next, Stalled, vars

-----------------------------------------------------------------------------
(* The inductive invariant: what a launch plans, and what is drained.      *)

\* The contacts a launch will add, or has added, jobs for.
Planned(r) == IF request[r].pc = "addJobs" THEN request[r].ids
              ELSE {x \in Contact : jobState[<<r, x>>] # "none"}

\* Jobs are of launches, launches are not empty, and what is completed has jobs.
RequestShapes ==
    /\ \A r \in Request : Shape(request[r])
    /\ \A j \in Job : jobState[j] # "none" => request[j[1]].op = "launch"
    /\ \A c \in Campaign : row[c].completedAt => JobsOf(c) # {}

\* The total of a campaign with jobs is what one of its launches planned.
TotalIsPlanned ==
    \A c \in Campaign :
        faults = 0 /\ Exists(c) /\ NeverEdited(c) /\ (JobsOf(c) # {} \/ Launching(c)) =>
            \E r \in RequestsOn(c, "launch") :
                /\ request[r].pc \in {"addJobs", "done"}
                /\ row[c].total = Cardinality(Planned(r))

\* CompletedIsDrained, from when the check of the counters succeeds.
Closing(c) ==
    row[c].completedAt \/ \E w \in Worker : At(w, "complete") /\ CampaignAt(w) = c

ClosingIsDrained ==
    \A c \in Campaign :
        (faults = 0 /\ Exists(c) /\ Closing(c) /\ LaunchedOnce(c) /\ NeverEdited(c))
            => \A j \in JobsOf(c) : Counted(j)

CInv == IInv /\ RequestShapes /\ TotalIsPlanned /\ LastWorkerCompletes /\ ClosingIsDrained

\* A request on a campaign stays on it.
LEMMA RequestsStay ==
    ASSUME IInv, [Next]_vars, NEW c \in Campaign, NEW op
    PROVE  RequestsOn(c, op) \subseteq RequestsOn(c, op)'
<1> USE DEF IInv
<1> SUFFICES ASSUME NEW r \in RequestsOn(c, op)
             PROVE  r \in RequestsOn(c, op)'
  OBVIOUS
<1>1. r \in Request /\ request[r].campaign = c /\ request[r].op = op
  BY DEF RequestsOn
<1>2. request[r].pc # "free"
  BY <1>1, NullsAreFresh DEF JobsAreLaunched
<1>3. RequestMoves(r)
  BY <1>1, RequestsMove
<1>4. request'[r].campaign = c /\ request'[r].op = op
  BY <1>1, <1>2, <1>3 DEF RequestMoves, TypeOK, RequestRecord
<1> QED
  BY <1>1, <1>4 DEF RequestsOn

LEMMA ShapesStep ==
    ASSUME IInv, IInv', RequestShapes, [Next]_vars
    PROVE  RequestShapes'
<1> USE DEF IInv
<1>1. ASSUME NEW r \in Request
      PROVE  Shape(request[r])'
  <2>1. RequestMoves(r)
    BY <1>1, RequestsMove
  <2>2. Shape(request[r])
    BY <1>1 DEF RequestShapes
  <2>3. CASE MarkRunning(r)
    BY <1>1, <2>2, <2>3 DEF MarkRunning, Continue, Shape, TypeOK, RequestRecord
  <2>4. CASE request'[r] = request[r]
    BY <2>2, <2>4 DEF Shape
  <2> QED
    BY <1>1, <2>1, <2>3, <2>4 DEF RequestMoves, Shape
<1>2. ASSUME NEW j \in Job, jobState'[j] # "none"
      PROVE  request'[j[1]].op = "launch"
  <2>1. j[1] \in Request
    BY DEF Job
  <2>2. CASE jobState[j] # "none"
    BY <2>2, JobKeepsCampaign DEF RequestShapes
  <2>3. CASE jobState[j] = "none"
    <3>1. AddCampaignMessages(j[1])
      BY <1>2, <2>3, JobsStay
    <3>2. request[j[1]].op = "launch"
      BY <2>1, <3>1 DEF AddCampaignMessages, RequestShapes, Shape
    <3> QED
      BY <2>1, <3>1, <3>2 DEF AddCampaignMessages, Finish, TypeOK, RequestRecord
  <2> QED
    BY <2>2, <2>3
<1>3. ASSUME NEW c \in Campaign, row'[c].completedAt
      PROVE  JobsOf(c)' # {}
  <2>1. CASE row[c].completedAt
    BY <2>1, JobsOfMove DEF RequestShapes
  <2>2. ASSUME NEW w \in Worker, CompleteCampaign(w), CampaignAt(w) = c
        PROVE  JobsOf(c)' # {}
    <3>1. worker[w].job \in JobsOf(c)
      BY <2>2, BusyIsLaunched DEF CompleteCampaign, At, CampaignAt, JobsOf
    <3> QED
      BY <3>1, JobsOfMove
  <2> QED
    BY <1>3, <2>1, <2>2, RowColumns
<1> QED
  BY <1>1, <1>2, <1>3 DEF RequestShapes

\* A campaign that has jobs or is being launched after a step without a fault existed
\* before it, unless its row is gone.
LEMMA CampaignBefore ==
    ASSUME IInv, RequestShapes, [Next]_vars, NEW c \in Campaign, faults' = 0, Exists(c)',
           JobsOf(c)' # {} \/ Launching(c)'
    PROVE  /\ faults = 0
           /\ Exists(c)
           /\ NeverEdited(c)' => NeverEdited(c)
<1> USE DEF IInv
<1>1. ASSUME row[c].status = "ABSENT"
      PROVE  FALSE
  <2>1. NotLaunched(c)
    BY <1>1 DEF NotLaunched
  <2>2. ASSUME NEW r \in Request, request[r].pc = "addJobs", request[r].campaign = c
        PROVE  FALSE
    BY <2>1, <2>2 DEF JobsAreLaunched
  <2>3. ASSUME NEW j \in JobsOf(c)'
        PROVE  FALSE
    <3>1. j \notin JobsOf(c)
      BY <2>1 DEF JobsOf, JobsAreLaunched
    <3>2. AddCampaignMessages(j[1]) /\ request[j[1]].campaign = c /\ j \in Job
      BY <2>3, <3>1, JobsOfMove DEF JobsOf
    <3>3. j[1] \in Request
      BY <3>2 DEF Job
    <3> QED
      BY <2>2, <3>2, <3>3 DEF AddCampaignMessages
  <2>4. ASSUME NEW r \in Request, request'[r].pc = "addJobs", request'[r].campaign = c
        PROVE  FALSE
    <3>1. CASE request'[r] = request[r]
      BY <2>2, <2>4, <3>1
    <3>2. CASE MarkRunning(r)
      BY <1>1, <2>4, <3>2
         DEF MarkRunning, Continue, Exists, Status, TypeOK, RequestRecord
    <3> QED
      BY <2>4, <3>1, <3>2, RequestsMove DEF RequestMoves
  <2> QED
    BY <2>3, <2>4 DEF Launching, RequestsOn
<1>2. faults = 0
  BY FaultsGrow
<1>3. Exists(c)
  BY <1>1, RowLife DEF Exists
<1>4. NeverEdited(c)' => NeverEdited(c)
  BY RequestsStay DEF NeverEdited
<1> QED
  BY <1>2, <1>3, <1>4

\* What a launch planned does not change by adding the jobs, or later.
LEMMA PlannedKept ==
    ASSUME IInv, [Next]_vars, faults' = 0, NEW r \in Request,
           request[r].pc \in {"addJobs", "done"}
    PROVE  /\ request'[r].pc \in {"addJobs", "done"}
           /\ Planned(r)' = Planned(r)
<1> USE DEF IInv
<1>1. \A x \in Contact : <<r, x>> \in Job /\ <<r, x>>[1] = r /\ <<r, x>>[2] = x
  BY DEF Job
<1>2. CASE request'[r] = request[r]
  <2>1. ASSUME request[r].pc = "done"
        PROVE  \A x \in Contact : jobState'[<<r, x>>] # "none" <=> jobState[<<r, x>>] # "none"
    <3>1. ~AddCampaignMessages(r)
      BY <2>1 DEF AddCampaignMessages
    <3> QED
      BY <1>1, <3>1, JobsStay
  <2> QED
    BY <1>2, <2>1 DEF Planned
<1>3. CASE AddCampaignMessages(r)
  <2>1. request[r].pc = "addJobs" /\ request'[r].pc = "done"
    BY <1>3 DEF AddCampaignMessages, Finish, TypeOK, RequestRecord
  <2>2. \A x \in Contact : jobState[<<r, x>>] = "none"
    BY <1>1, <2>1 DEF JobsAreLaunched
  <2>3. \A x \in Contact : jobState'[<<r, x>>] # "none" <=> x \in request[r].ids
    BY <1>1, <1>3, <2>2 DEF AddCampaignMessages
  <2>4. request[r].ids \subseteq Contact
    BY DEF TypeOK, RequestRecord
  <2> QED
    BY <2>1, <2>3, <2>4 DEF Planned
<1> QED
  BY <1>2, <1>3, RequestsMove DEF RequestMoves, MarkRunning, RowGone

LEMMA TotalStep ==
    ASSUME CInv, [Next]_vars
    PROVE  TotalIsPlanned'
<1> USE DEF CInv, IInv
<1> SUFFICES ASSUME NEW c \in Campaign, faults' = 0, Exists(c)', NeverEdited(c)',
                    JobsOf(c)' # {} \/ Launching(c)'
             PROVE  \E r \in RequestsOn(c, "launch")' :
                        /\ request'[r].pc \in {"addJobs", "done"}
                        /\ row'[c].total = Cardinality(Planned(r)')
  BY DEF TotalIsPlanned
<1>1. faults = 0 /\ Exists(c) /\ NeverEdited(c)
  BY CampaignBefore
<1>2. ASSUME NEW r \in Request, MarkRunning(r), request[r].campaign = c
      PROVE  \E q \in RequestsOn(c, "launch")' :
                 /\ request'[q].pc \in {"addJobs", "done"}
                 /\ row'[c].total = Cardinality(Planned(q)')
  <2>1. request[r].pc = "markRunning" /\ request[r].op = "launch"
    BY <1>2 DEF MarkRunning, RequestShapes, Shape
  <2>2. /\ request'[r].pc = "addJobs" /\ request'[r].campaign = c
        /\ request'[r].op = "launch" /\ request'[r].ids = request[r].ids
    BY <1>2, <2>1 DEF MarkRunning, Continue, TypeOK, RequestRecord
  <2>3. row'[c].total = Cardinality(request[r].ids)
    BY <1>2 DEF MarkRunning, TypeOK, Row
  <2>4. Planned(r)' = request[r].ids
    BY <2>2 DEF Planned
  <2>5. r \in RequestsOn(c, "launch")'
    BY <2>2 DEF RequestsOn
  <2> QED
    BY <2>2, <2>3, <2>4, <2>5
<1>3. CASE \A r \in Request : request[r].campaign = c => ~MarkRunning(r)
  <2>1. Launching(c)' => Launching(c)
    <3>1. ASSUME NEW r \in RequestsOn(c, "launch")', request'[r].pc = "addJobs"
          PROVE  r \in RequestsOn(c, "launch") /\ request[r].pc = "addJobs"
      <4>1. r \in Request /\ request'[r].campaign = c /\ request'[r].op = "launch"
        BY <3>1 DEF RequestsOn
      <4>2. CASE MarkRunning(r)
        BY <1>3, <4>1, <4>2 DEF MarkRunning, Continue, TypeOK, RequestRecord
      <4>3. CASE request'[r] = request[r]
        BY <3>1, <4>1, <4>3 DEF RequestsOn
      <4> QED
        BY <3>1, <4>1, <4>2, <4>3, RequestsMove DEF RequestMoves
    <3> QED
      BY <3>1 DEF Launching
  <2>2. JobsOf(c)' # {} => JobsOf(c) # {} \/ Launching(c)
    <3>1. ASSUME NEW j \in JobsOf(c)', j \notin JobsOf(c)
          PROVE  Launching(c)
      <4>1. AddCampaignMessages(j[1]) /\ request[j[1]].campaign = c /\ j \in Job
        BY <3>1, JobsOfMove DEF JobsOf
      <4>2. j[1] \in Request /\ request[j[1]].pc = "addJobs"
        BY <4>1 DEF Job, AddCampaignMessages
      <4> QED
        BY <4>1, <4>2 DEF Launching, RequestsOn, RequestShapes, Shape
    <3> QED
      BY <3>1
  <2>3. PICK r \in RequestsOn(c, "launch") :
            /\ request[r].pc \in {"addJobs", "done"}
            /\ row[c].total = Cardinality(Planned(r))
    BY <1>1, <2>1, <2>2 DEF TotalIsPlanned
  <2>4. r \in Request /\ r \in RequestsOn(c, "launch")'
    BY <2>3, RequestsStay DEF RequestsOn
  <2>5. row'[c].total = row[c].total
    <3>1. ASSUME NEW q \in Request, WriteTotal(q), request[q].campaign = c
          PROVE  FALSE
      BY <1>1, <3>1 DEF WriteTotal, RequestShapes, Shape, NeverEdited, RequestsOn
    <3> QED
      BY <1>1, <1>3, <3>1, RowColumns
  <2>6. request'[r].pc \in {"addJobs", "done"} /\ Planned(r)' = Planned(r)
    BY <2>3, <2>4, PlannedKept
  <2> QED
    BY <2>3, <2>4, <2>5, <2>6
<1> QED
  BY <1>2, <1>3

\* The jobs a campaign has counted are as many as its counters say.
LEMMA CountersAddUp ==
    ASSUME IInv, faults = 0, NEW c \in Campaign, Exists(c)
    PROVE  /\ IsFiniteSet(JobsOf(c))
           /\ row[c].sent + row[c].failed = Cardinality({j \in JobsOf(c) : Counted(j)})
<1>1. {j \in JobsOf(c) : Counted(j)} = SentJobs(c) \cup FailedJobs(c)
  <2>1. \A j \in JobsOf(c) : accepted[j] \in Nat
    BY DEF JobsOf, IInv, TypeOK
  <2> QED
    BY <2>1 DEF SentJobs, FailedJobs
<1>2. SentJobs(c) \cap FailedJobs(c) = {}
  BY DEF SentJobs, FailedJobs
<1>3. Cardinality(SentJobs(c) \cup FailedJobs(c))
        = Cardinality(SentJobs(c)) + Cardinality(FailedJobs(c)) - 0
  BY <1>2, FiniteAccounts, FS_Union, FS_EmptySet
<1>4. row[c].sent = Cardinality(SentJobs(c)) /\ row[c].failed = Cardinality(FailedJobs(c))
  BY DEF IInv, ExactAccounting
<1>5. row[c].sent \in Nat /\ row[c].failed \in Nat
  BY DEF IInv, TypeOK, Row
<1>6. IsFiniteSet(JobsOf(c))
  <2>1. IsFiniteSet(Job)
    BY FiniteSets, FS_Product DEF Job
  <2> QED
    BY <2>1, FS_Subset DEF JobsOf
<1>7. row[c].sent + row[c].failed = Cardinality(SentJobs(c) \cup FailedJobs(c))
  BY <1>3, <1>4, <1>5
<1> QED
  BY <1>1, <1>6, <1>7, Zenon

\* A launch that is over has as many jobs as it planned.
LEMMA PlannedJobs ==
    ASSUME NEW c \in Campaign, NEW r \in RequestsOn(c, "launch"), request[r].pc = "done"
    PROVE  /\ {r} \X Planned(r) \subseteq JobsOf(c)
           /\ \A j \in JobsOf(c) : j[1] = r => j \in {r} \X Planned(r)
           /\ IsFiniteSet({r} \X Planned(r))
           /\ Cardinality({r} \X Planned(r)) = Cardinality(Planned(r))
           /\ Cardinality(Planned(r)) \in Nat
<1>1. r \in Request /\ request[r].campaign = c
  BY DEF RequestsOn
<1>2. Planned(r) = {x \in Contact : jobState[<<r, x>>] # "none"}
  BY DEF Planned
<1>3. {r} \X Planned(r) \subseteq JobsOf(c)
  BY <1>1, <1>2 DEF JobsOf, CampaignOf, Job
<1>4. \A j \in JobsOf(c) : j[1] = r => j \in {r} \X Planned(r)
  BY <1>2 DEF JobsOf, Job
<1>5. IsFiniteSet(Planned(r)) /\ Cardinality(Planned(r)) \in Nat
  BY <1>2, FiniteSets, FS_Subset, FS_CardinalityType
<1>6. IsFiniteSet({r}) /\ Cardinality({r}) = 1
  BY FS_Singleton
<1>7. /\ IsFiniteSet({r} \X Planned(r))
      /\ Cardinality({r} \X Planned(r)) = Cardinality({r}) * Cardinality(Planned(r))
  BY <1>5, <1>6, FS_Product
<1> QED
  BY <1>3, <1>4, <1>5, <1>6, <1>7

\* What is counted stays counted, while nothing fails and the row exists.
LEMMA CountedStays ==
    ASSUME IInv, [Next]_vars, faults' = 0, NEW c \in Campaign, Exists(c),
           NEW j \in JobsOf(c), Counted(j)
    PROVE  Counted(j)'
<1> USE DEF IInv
<1>1. j \in Job /\ jobState[j] # "none" /\ CampaignOf(j) = c
  BY DEF JobsOf
<1>2. CASE Administrative
  BY <1>2 DEF Administrative, Counted
<1>3. ASSUME NEW r \in Request, AddCampaignMessages(r)
      PROVE  Counted(j)'
  BY <1>1, <1>3, AddedJobs DEF AddCampaignMessages, Counted, workerVars
<1>4. ASSUME NEW w \in Worker, WorkerStep(w)
      PROVE  Counted(j)'
  <2>1. CASE j # worker[w].job
    BY <1>1, <1>4, <2>1, CountedMoves
  <2>2. CASE j = worker[w].job
    <3>1. worker[w].pc # "idle" /\ CampaignAt(w) = c
      BY <1>1, <2>2, NullsAreFresh DEF CampaignAt, SlotsHoldJobs
    <3>2. worker[w].pc \in {"check", "complete"}
      BY <1>1, <1>4, <2>2, <3>1, CountedMoves
    <3>3. CheckComplete(w) \/ CompleteCampaign(w)
      BY <1>4, <3>1, <3>2
         DEF WorkerStep, Take, SendAccepted, SendRefused, CountResult, WorkerRowGone,
             CatchError, At
    <3>4. worker'[w].pc \in {"idle", "complete"}
      BY <3>3 DEF CheckComplete, CompleteCampaign, Advance, Release, IdleWorker, TypeOK, Slot
    <3> QED
      BY <1>1, <1>4, <2>2, <3>1, <3>4, CountedMoves
  <2> QED
    BY <2>1, <2>2
<1>5. ASSUME NEW i \in Job, Stalled(i)
      PROVE  FALSE
  BY <1>5, FaultsGrow DEF Stalled, Orphaned, Unharmed
<1> QED
  BY <1>2, <1>3, <1>4, <1>5, StepCases, FaultsGrow

LEMMA LastWorkerStep ==
    ASSUME CInv, [Next]_vars
    PROVE  LastWorkerCompletes'
<1> USE DEF CInv, IInv
<1> SUFFICES ASSUME NEW c \in Campaign, faults' = 0, Exists(c)', NeverEdited(c)',
                    JobsOf(c)' # {}, \A j \in JobsOf(c)' : Counted(j)',
                    ~Launching(c)', ~Checking(c)', ~row[c].completedAt
             PROVE  row'[c].completedAt
  <2>1. ASSUME NEW c \in Campaign, faults' = 0, Exists(c)', JobsOf(c)' # {},
               row[c].completedAt
        PROVE  row'[c].completedAt
    BY <2>1, CampaignBefore, RowColumns
  <2> QED
    BY <2>1 DEF LastWorkerCompletes
<1>1. faults = 0 /\ Exists(c) /\ NeverEdited(c)
  BY CampaignBefore
<1>2. JobsOf(c)' = JobsOf(c)
  BY JobsOfMove
<1>3. ~Launching(c)
  <2>1. ASSUME NEW r \in RequestsOn(c, "launch"), request[r].pc = "addJobs"
        PROVE  FALSE
    <3>1. r \in Request /\ request[r].campaign = c /\ request[r].ids # {}
      BY <2>1 DEF RequestsOn, RequestShapes, Shape
    <3>2. ASSUME AddCampaignMessages(r)
          PROVE  FALSE
      <4>1. PICK x \in Contact : x \in request[r].ids
        BY <3>1 DEF TypeOK, RequestRecord
      <4>2. <<r, x>> \in Job /\ jobState[<<r, x>>] = "none"
        BY <2>1, <3>1 DEF Job, JobsAreLaunched
      <4>3. jobState'[<<r, x>>] = "waiting"
        BY <3>2, <4>1, <4>2 DEF AddCampaignMessages
      <4>4. request'[r].campaign = c
        BY <3>1, <3>2 DEF AddCampaignMessages, Finish, TypeOK, RequestRecord
      <4>5. <<r, x>> \in JobsOf(c)' /\ <<r, x>> \notin JobsOf(c)
        BY <4>2, <4>3, <4>4 DEF JobsOf, CampaignOf
      <4> QED
        BY <1>2, <4>5
    <3>3. ASSUME request'[r] = request[r]
          PROVE  FALSE
      BY <2>1, <3>1, <3>3, RequestsStay DEF Launching
    <3> QED
      BY <2>1, <3>1, <3>2, <3>3, RequestsMove DEF RequestMoves, MarkRunning, RowGone
  <2> QED
    BY <2>1 DEF Launching
<1>4. PICK k \in JobsOf(c) : ~Counted(k) \/ Checking(c)
  BY <1>1, <1>2, <1>3 DEF LastWorkerCompletes
<1>5. \A j \in JobsOf(c) : j \in Job /\ jobState[j] # "none" /\ CampaignOf(j) = c
  BY DEF JobsOf
<1>6. \A v \in Worker : worker[v].pc # "idle" => worker[v].job \in Job
  BY BusyIsLaunched
<1>7. ASSUME NEW v \in Worker, worker'[v] = worker[v], At(v, "check") \/ At(v, "complete"),
             CampaignAt(v) = c
      PROVE  FALSE
  <2>1. worker[v].job \in Job /\ jobState[worker[v].job] # "none"
    BY <1>7, BusyIsLaunched DEF At
  <2>2. CampaignAt(v)' = c
    BY <1>7, <2>1, JobKeepsCampaign DEF CampaignAt, CampaignOf
  <2> QED
    BY <1>7, <2>2 DEF Checking, At
<1>8. ASSUME worker' = worker, \A j \in JobsOf(c) : Counted(j)' <=> Counted(j)
      PROVE  FALSE
  BY <1>2, <1>4, <1>7, <1>8 DEF Checking, At
<1>9. CASE Administrative
  BY <1>8, <1>9 DEF Administrative, Counted
<1>10. ASSUME NEW r \in Request, AddCampaignMessages(r)
       PROVE  FALSE
  BY <1>5, <1>8, <1>10, AddedJobs DEF AddCampaignMessages, Counted, workerVars
<1>11. ASSUME NEW w \in Worker, WorkerStep(w)
       PROVE  row'[c].completedAt
  <2>1. \A v \in Worker \ {w} : worker'[v] = worker[v]
    BY <1>11, SlotMoves DEF TypeOK
  <2>2. ~\E v \in Worker \ {w} :
            (At(v, "check") \/ At(v, "complete")) /\ CampaignAt(v) = c
    BY <1>7, <2>1
  <2>3. worker[w].pc # "idle" /\ CampaignAt(w) = c
    <3>1. CASE Checking(c)
      BY <2>2, <3>1 DEF Checking, At
    <3>2. CASE ~Counted(k)
      <4>1. Counted(k)'
        BY <1>2
      <4>2. k = worker[w].job
        BY <1>5, <1>11, <3>2, <4>1, CountedMoves
      <4> QED
        BY <1>5, <4>2, NullsAreFresh DEF CampaignAt, SlotsHoldJobs
    <3> QED
      BY <1>4, <3>1, <3>2
  <2>4. PICK i \in JobsOf(c) : i = worker[w].job /\ Counted(i)'
    <3>1. worker[w].job \in JobsOf(c)
      BY <2>3, BusyIsLaunched DEF JobsOf, CampaignAt
    <3> QED
      BY <1>2, <3>1
  <2>5. worker'[w].pc \in {"idle", "check", "complete"}
    BY <1>5, <1>11, <2>3, <2>4, CountedMoves
  <2>6. worker'[w].pc = "idle"
    <3>1. worker'[w].pc # "idle" => worker'[w].job = i
      BY <1>11, <2>3, <2>4, SlotMoves DEF IdleWorker, TypeOK
    <3>2. CampaignOf(i)' = c
      BY <1>5, <2>4, JobKeepsCampaign
    <3>3. worker'[w].pc # "idle" => CampaignAt(w)' = c
      BY <3>1, <3>2 DEF CampaignAt, CampaignOf
    <3> QED
      BY <2>5, <3>3 DEF Checking
  <2>7. CASE CompleteCampaign(w)
    BY <2>3, <2>7 DEF CompleteCampaign, TypeOK, Row
  <2>8. CASE CheckComplete(w)
    <3>1. ~AllCounted(c)
      BY <1>1, <2>3, <2>6, <2>8 DEF CheckComplete, Advance, TypeOK, Slot
    <3>2. \A j \in JobsOf(c) : Counted(j)
      <4>1. ASSUME NEW j \in JobsOf(c), j # worker[w].job
            PROVE  Counted(j)
        BY <1>2, <1>5, <1>11, <4>1, CountedMoves
      <4>2. Counted(i)
        BY <1>5, <1>11, <2>3, <2>4, <2>8, CountedMoves DEF CheckComplete, At
      <4> QED
        BY <2>4, <4>1, <4>2
    <3>3. row[c].sent + row[c].failed = Cardinality(JobsOf(c)) /\ IsFiniteSet(JobsOf(c))
      <4>1. {j \in JobsOf(c) : Counted(j)} = JobsOf(c)
        BY <3>2
      <4> QED
        BY <1>1, <4>1, CountersAddUp
    <3>4. PICK r \in RequestsOn(c, "launch") :
              /\ request[r].pc \in {"addJobs", "done"}
              /\ row[c].total = Cardinality(Planned(r))
      BY <1>1, <2>4 DEF TotalIsPlanned
    <3>5. request[r].pc = "done"
      BY <1>3, <3>4 DEF Launching
    <3>6. Cardinality(Planned(r)) <= Cardinality(JobsOf(c))
      <4>1. /\ {r} \X Planned(r) \subseteq JobsOf(c)
            /\ Cardinality({r} \X Planned(r)) = Cardinality(Planned(r))
        BY <3>5, PlannedJobs
      <4>2. Cardinality({r} \X Planned(r)) <= Cardinality(JobsOf(c))
        BY <3>3, <4>1, FS_Subset
      <4> QED
        BY <4>1, <4>2
    <3>7. row[c].sent + row[c].failed >= row[c].total
      <4>1. /\ row[c].sent \in Nat /\ row[c].failed \in Nat /\ row[c].total \in Nat
        BY DEF TypeOK, Row
      <4> QED
        BY <3>3, <3>4, <3>6, <4>1
    <3> QED
      BY <3>1, <3>7 DEF AllCounted
  <2>9. CASE CatchError(w)
    BY <1>1, <2>3, <2>9 DEF CatchError, Unharmed
  <2>10. CASE SendAccepted(w) \/ SendRefused(w) \/ CountResult(w) \/ WorkerRowGone(w)
    BY <2>6, <2>10 DEF SendAccepted, SendRefused, CountResult, WorkerRowGone, Advance,
                       TypeOK, Slot
  <2> QED
    BY <1>11, <2>3, <2>7, <2>8, <2>9, <2>10 DEF WorkerStep, Take, At
<1>12. ASSUME NEW j \in Job, Stalled(j)
       PROVE  FALSE
  BY <1>1, <1>12 DEF Stalled, Orphaned, Unharmed
<1> QED
  BY <1>8, <1>9, <1>10, <1>11, <1>12, StepCases, FaultsGrow

\* A set with one element has no other one.
LEMMA OnlyElement ==
    ASSUME NEW S, IsFiniteSet(S), Cardinality(S) = 1, NEW x \in S, NEW y \in S
    PROVE  x = y
BY FS_Singleton

LEMMA FiniteRequests ==
    ASSUME NEW c, NEW op
    PROVE  IsFiniteSet(RequestsOn(c, op)) /\ IsFiniteSet(RequestsOn(c, op)')
BY FiniteSets, FS_Subset DEF RequestsOn

\* A campaign is closing because it was, or because a worker just found all counted.
LEMMA ClosingFrom ==
    ASSUME IInv, [Next]_vars, NEW c \in Campaign, Closing(c)'
    PROVE  \/ Closing(c)
           \/ \E w \in Worker : CheckComplete(w) /\ CampaignAt(w) = c /\ AllCounted(c)
<1> USE DEF IInv
<1>1. CASE row'[c].completedAt
  BY <1>1, RowColumns DEF Closing, CompleteCampaign
<1>2. ASSUME NEW v \in Worker, worker'[v].pc = "complete", CampaignAt(v)' = c
      PROVE  \/ Closing(c)
             \/ \E w \in Worker : CheckComplete(w) /\ CampaignAt(w) = c /\ AllCounted(c)
  <2>1. ASSUME worker[v].pc # "idle", worker'[v].job = worker[v].job
        PROVE  CampaignAt(v) = c
    <3>1. PICK i \in Job : i = worker[v].job /\ jobState[i] # "none"
      BY <2>1, BusyIsLaunched
    <3>2. CampaignOf(i)' = CampaignOf(i)
      BY <3>1, JobKeepsCampaign
    <3> QED
      BY <1>2, <2>1, <3>1, <3>2 DEF CampaignAt, CampaignOf
  <2>2. CASE worker'[v] = worker[v]
    BY <1>2, <2>1, <2>2 DEF Closing, At
  <2>3. CASE worker'[v] # worker[v]
    <3>1. WorkerStep(v) \/ AcceptedThenFails(v) \/ WorkerFails(v) \/ CatchFails(v)
      <4>1. ASSUME NEW w \in Worker,
                   WorkerStep(w) \/ AcceptedThenFails(w) \/ WorkerFails(w) \/ CatchFails(w)
            PROVE  w = v
        BY <2>3, <4>1, SlotMoves DEF TypeOK
      <4>2. ASSUME Crash
            PROVE  FALSE
        <5>1. worker'[v] = IdleWorker
          BY <4>2 DEF Crash
        <5> QED
          BY <1>2, <5>1 DEF IdleWorker
      <4> QED
        BY <2>3, <4>1, <4>2, StepCases
           DEF Administrative, AddCampaignMessages, Stalled, workerVars
    <3>2. CheckComplete(v)
      <4>1. CASE \E j \in Job : Take(v, j)
        BY <1>2, <4>1 DEF Take, TypeOK
      <4>2. CASE SendAccepted(v) \/ SendRefused(v) \/ AcceptedThenFails(v) \/ CountResult(v)
                 \/ WorkerRowGone(v) \/ WorkerFails(v)
        BY <1>2, <4>2 DEF SendAccepted, SendRefused, AcceptedThenFails, CountResult,
                          WorkerRowGone, WorkerFails, Advance, TypeOK, Slot
      <4>3. CASE CompleteCampaign(v) \/ CatchError(v) \/ CatchFails(v)
        BY <1>2, <4>3 DEF CompleteCampaign, CatchError, CatchFails, Release, IdleWorker,
                          TypeOK, Slot
      <4> QED
        BY <3>1, <4>1, <4>2, <4>3 DEF WorkerStep
    <3>3. worker[v].pc # "idle" /\ worker'[v].job = worker[v].job
      BY <1>2, <3>1, <3>2, SlotMoves DEF IdleWorker, CheckComplete, At, TypeOK, Slot
    <3>4. AllCounted(CampaignAt(v))
      BY <1>2, <3>2 DEF CheckComplete, Release, IdleWorker, TypeOK, Slot
    <3> QED
      BY <2>1, <3>2, <3>3, <3>4
  <2> QED
    BY <2>2, <2>3
<1> QED
  BY <1>1, <1>2 DEF Closing, At

LEMMA ClosingStep ==
    ASSUME CInv, [Next]_vars
    PROVE  ClosingIsDrained'
<1> USE DEF CInv, IInv
<1> SUFFICES ASSUME NEW c \in Campaign, faults' = 0, Exists(c)', Closing(c)',
                    LaunchedOnce(c)', NeverEdited(c)',
                    NEW j \in JobsOf(c)'
             PROVE  Counted(j)'
  BY DEF ClosingIsDrained
<1>1. faults = 0 /\ Exists(c) /\ NeverEdited(c)
  BY CampaignBefore
<1>2. PICK i \in JobsOf(c) : TRUE
  <2>1. ASSUME NEW w \in Worker, At(w, "complete") \/ At(w, "check"), CampaignAt(w) = c
        PROVE  worker[w].job \in JobsOf(c)
    BY <2>1, BusyIsLaunched DEF At, JobsOf, CampaignAt
  <2> QED
    BY <2>1, ClosingFrom DEF Closing, RequestShapes, CheckComplete
<1>3. ASSUME NEW k \in JobsOf(c)
      PROVE  /\ k[1] \in RequestsOn(c, "launch") /\ k[1] \in RequestsOn(c, "launch")'
             /\ request[k[1]].pc = "done"
  <2>1. k[1] \in RequestsOn(c, "launch") /\ request[k[1]].pc = "done"
    BY DEF JobsOf, Job, CampaignOf, JobsAreLaunched, RequestShapes, RequestsOn
  <2> QED
    BY <2>1, RequestsStay
<1>4. \A r \in RequestsOn(c, "launch") : r = i[1]
  BY <1>2, <1>3, RequestsStay, OnlyElement, FiniteRequests DEF LaunchedOnce
<1>5. LaunchedOnce(c)
  <2>1. RequestsOn(c, "launch") = {i[1]}
    BY <1>2, <1>3, <1>4
  <2> QED
    BY <2>1, FS_Singleton DEF LaunchedOnce
<1>6. j \in JobsOf(c)
  <2>1. ASSUME j \notin JobsOf(c)
        PROVE  FALSE
    <3>1. AddCampaignMessages(j[1]) /\ request[j[1]].campaign = c /\ j \in Job
      BY <2>1, JobsOfMove DEF JobsOf
    <3>2. j[1] \in Request /\ request[j[1]].pc = "addJobs"
      BY <3>1 DEF Job, AddCampaignMessages
    <3>3. j[1] \in RequestsOn(c, "launch")
      BY <3>1, <3>2 DEF RequestsOn, RequestShapes, Shape
    <3> QED
      BY <1>2, <1>3, <1>4, <3>2, <3>3
  <2> QED
    BY <2>1
<1>7. Counted(j)
  <2>1. CASE Closing(c)
    BY <1>1, <1>5, <1>6, <2>1 DEF ClosingIsDrained
  <2>2. CASE AllCounted(c)
    <3> DEFINE C == {k \in JobsOf(c) : Counted(k)}
    <3>1. PICK r \in RequestsOn(c, "launch") : row[c].total = Cardinality(Planned(r))
      BY <1>1, <1>2 DEF TotalIsPlanned
    <3>2. r = i[1] /\ request[r].pc = "done"
      BY <1>2, <1>3, <1>4, <3>1
    <3>3. JobsOf(c) \subseteq {r} \X Planned(r)
      BY <1>3, <1>4, <3>2, PlannedJobs
    <3>4. /\ IsFiniteSet({r} \X Planned(r))
          /\ Cardinality({r} \X Planned(r)) = row[c].total
      BY <3>1, <3>2, PlannedJobs
    <3>5. /\ IsFiniteSet(JobsOf(c)) /\ C \subseteq JobsOf(c)
          /\ Cardinality(C) = row[c].sent + row[c].failed
      BY <1>1, CountersAddUp
    <3>6. IsFiniteSet(C) /\ Cardinality(C) <= Cardinality(JobsOf(c))
      BY <3>5, FS_Subset
    <3>7. Cardinality(JobsOf(c)) <= row[c].total
      BY <3>3, <3>4, FS_Subset
    <3>8. row[c].total <= Cardinality(C)
      BY <2>2, <3>5 DEF AllCounted, TypeOK, Row
    <3>9. Cardinality(C) \in Nat /\ Cardinality(JobsOf(c)) \in Nat /\ row[c].total \in Nat
      BY <3>5, <3>6, FS_CardinalityType DEF TypeOK, Row
    <3>10. Cardinality(JobsOf(c)) = Cardinality(C)
      BY <3>6, <3>7, <3>8, <3>9
    <3>11. JobsOf(c) = C
      BY <3>5, <3>10, FS_Subset
    <3> QED
      BY <1>6, <3>11
  <2> QED
    BY <2>1, <2>2, ClosingFrom
<1> QED
  BY <1>1, <1>6, <1>7, CountedStays

LEMMA CInvInit ==
    ASSUME Init
    PROVE  CInv
<1>1. IInv
  BY IInvInit
<1>2. /\ \A c \in Campaign : row[c] = NoRow
      /\ \A r \in Request : request[r] = NoRequest
      /\ \A j \in Job : jobState[j] = "none"
  BY DEF Init
<1>3. \A c \in Campaign : ~Exists(c) /\ ~row[c].completedAt
  BY <1>2 DEF Exists, NoRow, Status
<1>4. RequestShapes
  BY <1>2, <1>3 DEF RequestShapes, Shape, NoRequest
<1> QED
  BY <1>1, <1>3, <1>4 DEF CInv, TotalIsPlanned, LastWorkerCompletes, ClosingIsDrained

-----------------------------------------------------------------------------
(* The end of a campaign.                                                  *)

\* CInv, which adds to IInv what requests look like, what a total means and what a
\* closing campaign has counted, is inductive.
THEOREM CompletionInvariance == Spec => []CInv
<1>1. Init => CInv
  BY CInvInit
<1>2. CInv /\ [Next]_vars => CInv'
  <2> SUFFICES ASSUME CInv, [Next]_vars
               PROVE  CInv'
    OBVIOUS
  <2>1. IInv'
    BY TypeStep, SlotsStep, JobsStep, DraftStep, BudgetStep, UnharmedStep, AccountingStep
       DEF CInv, IInv
  <2>2. RequestShapes'
    BY <2>1, ShapesStep DEF CInv
  <2> QED
    BY <2>1, <2>2, TotalStep, LastWorkerStep, ClosingStep DEF CInv
<1> QED
  BY <1>1, <1>2, PTL DEF Spec

\* Without faults the worker that counts the last job completes the campaign, for any
\* number of concurrent launches and worker slots (the check after the increment in
\* processCampaignMessage).
THEOREM LastWorkerClosesCampaign == Spec => []LastWorkerCompletes
<1>1. CInv => LastWorkerCompletes
  BY DEF CInv
<1> QED
  BY <1>1, CompletionInvariance, PTL

\* Without faults a campaign that was launched once and not edited is not completed while
\* one of its jobs is not counted.
THEOREM CompletedCampaignIsDrained == Spec => []CompletedIsDrained
<1>1. CInv => CompletedIsDrained
  BY DEF CInv, ClosingIsDrained, Closing, CompletedIsDrained
<1> QED
  BY <1>1, CompletionInvariance, PTL

-----------------------------------------------------------------------------
(* The refinement of CampaignLedger, step by step.                         *)

\* Which books, and which pending jobs, a step changes follows from the rows and from
\* which jobs are counted.
BookKept(c) == BookOf(c)' = BookOf(c)
CountersKept(c) == row'[c].sent = row[c].sent /\ row'[c].failed = row[c].failed
PendingKept(c) == PendingJobs(c)' = PendingJobs(c)

LEMMA LedgerStutter ==
    ASSUME \A c \in Campaign : BookKept(c) /\ CountersKept(c) /\ PendingKept(c),
           \A j \in Job : jobState'[j] # "none" <=> jobState[j] # "none",
           \A j \in Job : accepted'[j] > 0 <=> accepted[j] > 0
    PROVE  UNCHANGED Ledger!vars
BY DEF Ledger!vars, BookKept, CountersKept, PendingKept

\* The steps of the ledger that touch one campaign's book only.
LEMMA LedgerBooks ==
    ASSUME NEW c \in Campaign,
           \A d \in Campaign : CountersKept(d),
           \A d \in Campaign \ {c} : BookKept(d) /\ PendingKept(d),
           UNCHANGED <<jobState, accepted>>,
           \/ BookOf(c) = "none" /\ BookOf(c)' = "draft" /\ PendingKept(c)
           \/ BookOf(c) = "draft" /\ BookOf(c)' = "opened" /\ PendingKept(c)
           \/ BookOf(c) \in {"draft", "opened"} /\ BookOf(c)' = "struck" /\ PendingJobs(c)' = {}
    PROVE  Ledger!Next
<1> USE DEF BookKept, CountersKept, PendingKept
<1>1. /\ [d \in Campaign |-> BookOf(d)]' = [[d \in Campaign |-> BookOf(d)]
                                               EXCEPT ![c] = BookOf(c)']
      /\ [d \in Campaign |-> PendingJobs(d)]' = [[d \in Campaign |-> PendingJobs(d)]
                                                    EXCEPT ![c] = PendingJobs(c)']
  OBVIOUS
<1>2. /\ [d \in Campaign |-> row[d].sent]' = [d \in Campaign |-> row[d].sent]
      /\ [d \in Campaign |-> row[d].failed]' = [d \in Campaign |-> row[d].failed]
  OBVIOUS
<1>3. PendingKept(c) =>
          [d \in Campaign |-> PendingJobs(d)]' = [d \in Campaign |-> PendingJobs(d)]
  OBVIOUS
<1>4. CASE BookOf(c) = "none" /\ BookOf(c)' = "draft" /\ PendingKept(c)
  <2>1. Ledger!Draft(c)
    BY <1>1, <1>2, <1>3, <1>4 DEF Ledger!Draft
  <2> QED
    BY <2>1 DEF Ledger!Next
<1>5. CASE BookOf(c) = "draft" /\ BookOf(c)' = "opened" /\ PendingKept(c)
  <2>1. Ledger!Open(c)
    BY <1>1, <1>2, <1>3, <1>5 DEF Ledger!Open
  <2> QED
    BY <2>1 DEF Ledger!Next
<1>6. CASE BookOf(c) \in {"draft", "opened"} /\ BookOf(c)' = "struck" /\ PendingJobs(c)' = {}
  <2>1. Ledger!Strike(c)
    BY <1>1, <1>2, <1>6 DEF Ledger!Strike
  <2> QED
    BY <2>1 DEF Ledger!Next
<1> QED
  BY <1>4, <1>5, <1>6

\* Writing rows and moving requests drafts, opens or strikes off a campaign, or nothing.
LEMMA AdministrativeLedger ==
    ASSUME IInv, [Next]_vars, Administrative
    PROVE  [Ledger!Next]_Ledger!vars
<1> USE DEF IInv
<1>1. UNCHANGED <<jobState, accepted, worker>> /\ \A d \in Campaign : RowKept(d)
  BY DEF Administrative
<1>2. ASSUME NEW d \in Campaign
      PROVE  {j \in JobsOf(d) : ~Counted(j)}' = {j \in JobsOf(d) : ~Counted(j)}
  <2>1. \A j \in Job : jobState[j] # "none" => CampaignOf(j)' = CampaignOf(j)
    BY JobKeepsCampaign
  <2>2. JobsOf(d)' = JobsOf(d)
    BY <1>1, <2>1 DEF JobsOf
  <2>3. \A j \in Job : Counted(j)' <=> Counted(j)
    BY <1>1 DEF Counted
  <2> QED
    BY <2>2, <2>3 DEF JobsOf
<1>3. ASSUME NEW d \in Campaign, Exists(d)' <=> Exists(d)
      PROVE  PendingKept(d)
  BY <1>2, <1>3 DEF PendingKept, PendingJobs
<1>4. ASSUME NEW d \in Campaign, row'[d] = row[d]
      PROVE  BookKept(d) /\ CountersKept(d) /\ PendingKept(d)
  BY <1>3, <1>4 DEF BookKept, BookOf, CountersKept, Exists
<1>5. ASSUME NEW c \in Campaign, \A d \in Campaign \ {c} : row'[d] = row[d],
             row'[c] # row[c]
      PROVE  [Ledger!Next]_Ledger!vars
  <2>1. row[c].status \in RowStatus
    BY DEF TypeOK, Row
  <2>2. CASE row[c].status = "ABSENT"
    <3>1. /\ row'[c].status = "DRAFT"
          /\ row'[c].sent = 0 /\ row'[c].failed = 0
          /\ row[c].sent = 0 /\ row[c].failed = 0
      BY <1>1, <1>5, <2>2 DEF RowKept, Exists, Status, DraftCountsNothing, NotLaunched
    <3>2. BookOf(c) = "none" /\ BookOf(c)' = "draft"
      BY <2>2, <3>1 DEF BookOf
    <3>3. JobsOf(c) = {} /\ ~Exists(c)
      BY <2>2 DEF JobsOf, JobsAreLaunched, NotLaunched, Exists, Status
    <3>4. PendingKept(c)
      BY <1>2, <3>3 DEF PendingKept, PendingJobs
    <3> QED
      BY <1>1, <1>4, <1>5, <3>1, <3>2, <3>4, LedgerBooks DEF CountersKept
  <2>3. CASE row[c].status # "ABSENT"
    <3>1. /\ Exists(c)
          /\ row'[c].status \in {row[c].status} \cup (RowStatus \ {"ABSENT", "DRAFT"})
          /\ CountersKept(c)
      BY <1>1, <1>5, <2>3 DEF RowKept, CountersKept
    <3>2. BookOf(c) = IF row[c].status = "DRAFT" THEN "draft" ELSE "opened"
      BY <2>3, <3>1 DEF BookOf, Exists, Status
    <3>3. CASE row'[c].status = "DELETED"
      <4>1. BookOf(c)' = "struck" /\ PendingJobs(c)' = {}
        BY <3>3 DEF BookOf, PendingJobs, Exists, Status
      <4> QED
        BY <1>1, <1>4, <1>5, <3>1, <3>2, <4>1, LedgerBooks
    <3>4. CASE row'[c].status # "DELETED"
      <4>1. Exists(c)'
        BY <2>1, <3>1, <3>4 DEF Exists, RowStatus
      <4>2. PendingKept(c)
        BY <1>3, <3>1, <4>1
      <4>3. BookOf(c)' = IF row'[c].status = "DRAFT" THEN "draft" ELSE "opened"
        BY <4>1 DEF BookOf, Exists, Status
      <4>4. CASE row[c].status = "DRAFT" /\ row'[c].status # "DRAFT"
        BY <1>1, <1>4, <1>5, <3>1, <3>2, <4>2, <4>3, <4>4, LedgerBooks
      <4>5. CASE ~(row[c].status = "DRAFT" /\ row'[c].status # "DRAFT")
        <5>1. BookKept(c)
          BY <3>1, <3>2, <4>3, <4>5 DEF BookKept
        <5> QED
          BY <1>1, <1>4, <1>5, <3>1, <4>2, <5>1, LedgerStutter
      <4> QED
        BY <4>4, <4>5
    <3> QED
      BY <3>3, <3>4
  <2> QED
    BY <2>2, <2>3
<1> QED
  BY <1>1, <1>4, <1>5, OneRow, LedgerStutter

\* Adding the jobs of a launch enters them.
LEMMA AddLedger ==
    ASSUME IInv, [Next]_vars, NEW r \in Request, AddCampaignMessages(r)
    PROVE  Ledger!Next
<1> USE DEF IInv
<1>0. /\ request[r].pc = "addJobs" /\ request[r].ids \subseteq Contact
      /\ request[r].campaign \in Campaign /\ ~NotLaunched(request[r].campaign)
  BY DEF AddCampaignMessages, JobsAreLaunched, TypeOK, RequestRecord
<1> PICK c \in Campaign : c = request[r].campaign
  BY <1>0
<1> PICK jobs : jobs = {r} \X request[r].ids
  OBVIOUS
<1>1. /\ request[r].pc = "addJobs" /\ request[r].ids \subseteq Contact
      /\ c \in Campaign /\ ~NotLaunched(c)
  BY <1>0
<1>2. jobs \subseteq Job /\ \A j \in jobs : jobState[j] = "none" /\ CampaignOf(j) = c
  BY <1>1 DEF Job, JobsAreLaunched, CampaignOf
<1>3. \A j \in Job : jobState'[j] # "none" <=> jobState[j] # "none" \/ j \in jobs
  BY DEF AddCampaignMessages, Job
<1>4. UNCHANGED <<row, accepted, worker>> /\ \A j \in Job : CampaignOf(j)' = CampaignOf(j)
  <2>1. \A q \in Request : request'[q].campaign = request[q].campaign
    BY DEF AddCampaignMessages, Finish, TypeOK, RequestRecord
  <2> QED
    BY <2>1 DEF AddCampaignMessages, CampaignOf, workerVars, Job
<1>5. \A j \in Job : Counted(j)' <=> Counted(j)
  BY AddedJobs DEF AddCampaignMessages, Counted, workerVars
<1>6. \A j \in jobs : ~Counted(j)
  BY <1>2, CountedExists
<1>7. ASSUME NEW d \in Campaign
      PROVE  PendingJobs(d)' = IF d = c /\ Exists(c) THEN PendingJobs(d) \cup jobs
                                                     ELSE PendingJobs(d)
  <2>1. JobsOf(d)' = IF d = c THEN JobsOf(d) \cup jobs ELSE JobsOf(d)
    BY <1>2, <1>3, <1>4 DEF JobsOf
  <2>2. Exists(d)' <=> Exists(d)
    BY <1>4 DEF Exists
  <2>3. {j \in JobsOf(d) : ~Counted(j)}' = {j \in JobsOf(d)' : ~Counted(j)}
    BY <1>5 DEF JobsOf
  <2> QED
    BY <1>6, <2>1, <2>2, <2>3 DEF PendingJobs
<1>8. BookOf(c) \in {"opened", "struck"} /\ (BookOf(c) = "struck" <=> ~Exists(c))
  <2>1. row[c].status \in RowStatus \ {"ABSENT", "DRAFT"}
    BY <1>1 DEF NotLaunched, TypeOK, Row
  <2> QED
    BY <2>1 DEF BookOf, Exists, Status, RowStatus
<1>9. {j \in Job : jobState[j] # "none"}' = {j \in Job : jobState[j] # "none"} \cup jobs
  BY <1>2, <1>3
<1>10. [d \in Campaign |-> PendingJobs(d)]' =
           IF BookOf(c) = "struck" THEN [d \in Campaign |-> PendingJobs(d)]
           ELSE [[d \in Campaign |-> PendingJobs(d)] EXCEPT ![c] = @ \cup jobs]
  BY <1>1, <1>7, <1>8
<1>11. /\ [d \in Campaign |-> BookOf(d)]' = [d \in Campaign |-> BookOf(d)]
       /\ [d \in Campaign |-> row[d].sent]' = [d \in Campaign |-> row[d].sent]
       /\ [d \in Campaign |-> row[d].failed]' = [d \in Campaign |-> row[d].failed]
       /\ {j \in Job : accepted[j] > 0}' = {j \in Job : accepted[j] > 0}
  BY <1>4 DEF BookOf
<1>12. Ledger!Enter(c, jobs)
  <2>1. jobs \cap {j \in Job : jobState[j] # "none"} = {}
    BY <1>2
  <2>2. [d \in Campaign |-> BookOf(d)][c] = BookOf(c)
    BY <1>1
  <2> QED
    BY <1>8, <1>9, <1>10, <1>11, <2>1, <2>2 DEF Ledger!Enter
<1>13. jobs \in SUBSET Job
  BY <1>2
<1> QED
  BY <1>12, <1>13 DEF Ledger!Next

\* What a worker's step leaves alone: which jobs there are, all books, and whether any
\* job but its own is counted.
LEMMA WorkerLeaves ==
    ASSUME IInv, [Next]_vars, NEW w \in Worker, WorkerStep(w)
    PROVE  /\ \A j \in Job : jobState'[j] # "none" <=> jobState[j] # "none"
           /\ \A d \in Campaign : JobsOf(d)' = JobsOf(d)
           /\ \A d \in Campaign : Exists(d)' <=> Exists(d)
           /\ \A d \in Campaign : BookOf(d)' = BookOf(d)
           /\ \A j \in Job : j # worker[w].job => (Counted(j)' <=> Counted(j))
<1> USE DEF IInv
<1>1. \A j \in Job : jobState'[j] # "none" <=> jobState[j] # "none"
  BY SlotMoves, BusyIsLaunched DEF TypeOK
<1>2. \A d : JobsOf(d)' = JobsOf(d)
  BY <1>1, WorkerKeepsRequests DEF JobsOf, CampaignOf
<1>3. ASSUME NEW d \in Campaign
      PROVE  (Exists(d)' <=> Exists(d)) /\ BookOf(d)' = BookOf(d)
  <2>1. WorkerWrites(d)
    BY WorkerRows
  <2>2. CASE row'[d] = row[d]
    BY <2>2 DEF Exists, BookOf
  <2>3. CASE /\ Exists(d) /\ row'[d].status \in {row[d].status, "COMPLETED"}
             /\ \E v \in Worker : worker[v].pc # "idle" /\ CampaignAt(v) = d
    <3>1. ~NotLaunched(d)
      BY <2>3, BusyIsLaunched
    <3>2. BookOf(d) = "opened" /\ BookOf(d)' = "opened"
      BY <2>3, <3>1 DEF NotLaunched, Exists, Status, BookOf
    <3> QED
      BY <2>3, <3>2 DEF Exists, Status
  <2> QED
    BY <2>1, <2>2, <2>3 DEF WorkerWrites
<1> QED
  BY <1>1, <1>2, <1>3, CountedMoves

\* A worker's step is none of the ledger when it does not count its job, or when the row
\* of its campaign is gone.
LEMMA WorkerStutters ==
    ASSUME IInv, [Next]_vars, NEW w \in Worker, WorkerStep(w),
           \A d \in Campaign : CountersKept(d),
           \A j \in Job : accepted'[j] > 0 <=> accepted[j] > 0,
           worker[w].pc # "idle" /\ Exists(CampaignAt(w)) =>
               \A j \in Job : j = worker[w].job => (Counted(j)' <=> Counted(j))
    PROVE  UNCHANGED Ledger!vars
<1> USE DEF IInv
<1>1. ASSUME NEW d \in Campaign
      PROVE  PendingKept(d)
  <2>1. (Exists(d)' <=> Exists(d)) /\ JobsOf(d)' = JobsOf(d)
    BY WorkerLeaves
  <2>2. ASSUME Exists(d), NEW j \in JobsOf(d)
        PROVE  Counted(j)' <=> Counted(j)
    <3>1. j \in Job /\ CampaignOf(j) = d
      BY DEF JobsOf
    <3>2. CASE j # worker[w].job
      BY <3>1, <3>2, WorkerLeaves
    <3>3. CASE j = worker[w].job
      <4>1. worker[w].pc # "idle" /\ CampaignAt(w) = d
        BY <3>1, <3>3, NullsAreFresh DEF CampaignAt, SlotsHoldJobs
      <4> QED
        BY <2>2, <3>1, <3>3, <4>1
    <3> QED
      BY <3>2, <3>3
  <2>3. Exists(d) => {j \in JobsOf(d) : ~Counted(j)}' = {j \in JobsOf(d) : ~Counted(j)}
    BY <2>1, <2>2
  <2> QED
    BY <2>1, <2>3 DEF PendingKept, PendingJobs
<1> QED
  BY <1>1, WorkerLeaves, LedgerStutter DEF BookKept

\* The job a busy worker holds, for a campaign whose row exists.
LEMMA OwnJob ==
    ASSUME IInv, [Next]_vars, NEW w \in Worker, WorkerStep(w),
           worker[w].pc \in {"send", "count"}, Exists(CampaignAt(w))
    PROVE  /\ worker[w].job \in Job
           /\ CampaignAt(w) \in Campaign
           /\ worker[w].job \in PendingJobs(CampaignAt(w))
<1>1. worker[w].job \in JobsOf(CampaignAt(w)) /\ CampaignAt(w) \in Campaign
  BY BusyIsLaunched DEF JobsOf, CampaignAt
<1>2. ~Counted(worker[w].job)
  BY <1>1, CountedMoves DEF JobsOf
<1> QED
  BY <1>1, <1>2 DEF PendingJobs, JobsOf

\* What the Graph API accepts is delivered.
LEMMA DeliverLedger ==
    ASSUME IInv, [Next]_vars, faults = 0, NEW w \in Worker, SendAccepted(w)
    PROVE  Ledger!Next
<1> USE DEF IInv
<1>0. WorkerStep(w) /\ worker[w].pc = "send" /\ Exists(CampaignAt(w))
  BY DEF WorkerStep, SendAccepted, At
<1> PICK c \in Campaign : c = CampaignAt(w)
  BY <1>0, OwnJob
<1> PICK i \in Job : i = worker[w].job
  BY <1>0, OwnJob
<1>1. WorkerStep(w) /\ worker[w].pc = "send" /\ Exists(c)
  BY <1>0
<1>2. i \in Job /\ c \in Campaign /\ i \in PendingJobs(c)
  BY <1>1, OwnJob
<1>3. accepted[i] = 0
  <2>1. accepted[i] <= stalls[i] /\ stalls[i] = 0 /\ accepted[i] \in Nat
    BY <1>1, <1>2 DEF SendBudget, Unharmed, At, TypeOK
  <2> QED
    BY <2>1
<1>4. \A j \in Job : accepted'[j] > 0 <=> accepted[j] > 0 \/ j = i
  BY <1>2, <1>3 DEF SendAccepted, TypeOK
<1>5. UNCHANGED <<row, jobState>> /\ worker'[w].pc = "count"
  BY DEF SendAccepted, TypeOK, Slot
<1>6. ASSUME NEW d \in Campaign
      PROVE  PendingJobs(d)' = PendingJobs(d)
  <2>1. (Exists(d)' <=> Exists(d)) /\ JobsOf(d)' = JobsOf(d)
    BY <1>1, WorkerLeaves
  <2>2. \A j \in Job : Counted(j)' <=> Counted(j)
    BY <1>1, <1>5, CountedMoves
  <2> QED
    BY <2>1, <2>2 DEF PendingJobs, JobsOf
<1>7. /\ [d \in Campaign |-> PendingJobs(d)]' = [d \in Campaign |-> PendingJobs(d)]
      /\ [d \in Campaign |-> BookOf(d)]' = [d \in Campaign |-> BookOf(d)]
      /\ [d \in Campaign |-> row[d].sent]' = [d \in Campaign |-> row[d].sent]
      /\ [d \in Campaign |-> row[d].failed]' = [d \in Campaign |-> row[d].failed]
      /\ {j \in Job : jobState[j] # "none"}' = {j \in Job : jobState[j] # "none"}
  BY <1>5, <1>6 DEF BookOf
<1>8. {j \in Job : accepted[j] > 0}' = {j \in Job : accepted[j] > 0} \cup {i}
  BY <1>2, <1>4
<1>9. i \in [d \in Campaign |-> PendingJobs(d)][c] \ {j \in Job : accepted[j] > 0}
  BY <1>2, <1>3
<1>10. Ledger!Deliver(c, i)
  BY <1>7, <1>8, <1>9 DEF Ledger!Deliver
<1> QED
  BY <1>2, <1>10 DEF Ledger!Next

\* Counting a job settles it, as what the Graph API said of it.
LEMMA SettleLedger ==
    ASSUME IInv, [Next]_vars, faults = 0, NEW w \in Worker, CountResult(w)
    PROVE  Ledger!Next
<1> USE DEF IInv
<1>0. WorkerStep(w) /\ worker[w].pc = "count" /\ Exists(CampaignAt(w))
  BY DEF WorkerStep, CountResult, At
<1> PICK c \in Campaign : c = CampaignAt(w)
  BY <1>0, OwnJob
<1> PICK i \in Job : i = worker[w].job
  BY <1>0, OwnJob
<1>1. /\ i \in PendingJobs(c) /\ ~Counted(i)
      /\ \A d \in Campaign : i \in PendingJobs(d) => d = c
  BY <1>0, OwnJob DEF PendingJobs, JobsOf, CampaignAt
<1>2. worker[w].ok <=> accepted[i] > 0
  BY <1>0 DEF Unharmed, At
<1>3. UNCHANGED <<jobState, accepted>> /\ row' = Incremented(w, c) /\ worker'[w].pc = "check"
  BY DEF CountResult, Advance, queueVars, TypeOK, Slot
<1>4. Counted(i)' /\ \A j \in Job \ {i} : Counted(j)' <=> Counted(j)
  BY <1>0, <1>3, CountedMoves
<1>5. ASSUME NEW d \in Campaign
      PROVE  PendingJobs(d)' = IF d = c THEN PendingJobs(d) \ {i} ELSE PendingJobs(d)
  <2>1. (Exists(d)' <=> Exists(d)) /\ JobsOf(d)' = JobsOf(d)
    BY <1>0, WorkerLeaves
  <2>2. JobsOf(d) \subseteq Job
    BY DEF JobsOf
  <2>3. {j \in JobsOf(d) : ~Counted(j)}' = {j \in JobsOf(d) : ~Counted(j)} \ {i}
    BY <1>4, <2>1, <2>2
  <2> QED
    BY <1>1, <2>1, <2>3 DEF PendingJobs
<1>6. /\ [d \in Campaign |-> PendingJobs(d)]' = [[d \in Campaign |-> PendingJobs(d)]
                                                    EXCEPT ![c] = @ \ {i}]
      /\ i \in [d \in Campaign |-> PendingJobs(d)][c]
  BY <1>1, <1>5
<1>7. /\ [d \in Campaign |-> BookOf(d)]' = [d \in Campaign |-> BookOf(d)]
      /\ {j \in Job : jobState[j] # "none"}' = {j \in Job : jobState[j] # "none"}
      /\ {j \in Job : accepted[j] > 0}' = {j \in Job : accepted[j] > 0}
  BY <1>0, <1>3, WorkerLeaves
<1>8. CASE worker[w].ok
  <2>1. \A d \in Campaign : /\ row'[d].sent = IF d = c THEN row[d].sent + 1 ELSE row[d].sent
                            /\ row'[d].failed = row[d].failed
    BY <1>3, <1>8 DEF Incremented, TypeOK, Row
  <2>2. /\ [d \in Campaign |-> row[d].sent]' = [[d \in Campaign |-> row[d].sent]
                                                   EXCEPT ![c] = @ + 1]
        /\ [d \in Campaign |-> row[d].failed]' = [d \in Campaign |-> row[d].failed]
    BY <2>1
  <2>3. i \in {j \in Job : accepted[j] > 0}
    BY <1>2, <1>8, Zenon
  <2>4. Ledger!Settle(c, i)
    BY <1>6, <1>7, <2>2, <2>3 DEF Ledger!Settle
  <2> QED
    BY <2>4 DEF Ledger!Next
<1>9. CASE ~worker[w].ok
  <2>1. \A d \in Campaign : /\ row'[d].failed = IF d = c THEN row[d].failed + 1
                                                         ELSE row[d].failed
                            /\ row'[d].sent = row[d].sent
    BY <1>3, <1>9 DEF Incremented, TypeOK, Row
  <2>2. /\ [d \in Campaign |-> row[d].failed]' = [[d \in Campaign |-> row[d].failed]
                                                     EXCEPT ![c] = @ + 1]
        /\ [d \in Campaign |-> row[d].sent]' = [d \in Campaign |-> row[d].sent]
    BY <2>1
  <2>3. i \notin {j \in Job : accepted[j] > 0}
    BY <1>2, <1>9, Zenon
  <2>4. Ledger!Settle(c, i)
    BY <1>6, <1>7, <2>2, <2>3 DEF Ledger!Settle
  <2> QED
    BY <2>4 DEF Ledger!Next
<1> QED
  BY <1>8, <1>9

LEMMA WorkerLedger ==
    ASSUME IInv, [Next]_vars, faults = 0, NEW w \in Worker, WorkerStep(w)
    PROVE  [Ledger!Next]_Ledger!vars
<1> USE DEF IInv
<1>1. CASE \E j \in Job : Take(w, j)
  BY <1>1, WorkerStutters DEF Take, At, CountersKept
<1>2. CASE SendAccepted(w)
  BY <1>2, DeliverLedger
<1>3. CASE SendRefused(w)
  <2>1. worker[w].pc = "send" /\ worker'[w].pc = "count" /\ UNCHANGED <<row, accepted>>
    BY <1>3 DEF SendRefused, At, queueVars, TypeOK, Slot
  <2>2. \A j \in Job : j = worker[w].job => (Counted(j)' <=> Counted(j))
    BY <2>1, CountedMoves
  <2> QED
    BY <2>1, <2>2, WorkerStutters DEF CountersKept
<1>4. CASE CountResult(w)
  BY <1>4, SettleLedger
<1>5. CASE CheckComplete(w) \/ CompleteCampaign(w)
  <2>1. worker[w].pc \in {"check", "complete"} /\ worker'[w].pc \in {"idle", "complete"}
    BY <1>5 DEF CheckComplete, CompleteCampaign, Advance, Release, IdleWorker, At, TypeOK, Slot
  <2>2. \A j \in Job : j = worker[w].job => (Counted(j)' <=> Counted(j))
    BY <2>1, CountedMoves
  <2>3. accepted' = accepted /\ \A d \in Campaign : CountersKept(d)
    BY <1>5 DEF CheckComplete, CompleteCampaign, CountersKept, TypeOK, Row
  <2> QED
    BY <2>2, <2>3, WorkerStutters
<1>6. CASE WorkerRowGone(w)
  BY <1>6, WorkerStutters DEF WorkerRowGone, CountersKept, queueVars
<1>7. CASE CatchError(w)
  <2>1. ~Exists(CampaignAt(w))
    BY <1>7 DEF CatchError, Unharmed
  <2> QED
    BY <1>7, <2>1, WorkerStutters DEF CatchError, CountersKept
<1> QED
  BY <1>1, <1>2, <1>3, <1>4, <1>5, <1>6, <1>7 DEF WorkerStep

LEMMA LedgerStep ==
    ASSUME IInv, [Next]_vars, faults' = 0
    PROVE  [Ledger!Next]_Ledger!vars
<1> USE DEF IInv
<1>1. faults = 0
  BY FaultsGrow
<1>2. ASSUME NEW j \in Job, Stalled(j)
      PROVE  FALSE
  BY <1>1, <1>2 DEF Stalled, Orphaned, Unharmed
<1> QED
  BY <1>1, <1>2, StepCases, FaultsGrow, AdministrativeLedger, AddLedger, WorkerLedger

LEMMA LedgerInit ==
    ASSUME Init
    PROVE  Ledger!Init
<1>1. /\ \A c \in Campaign : row[c] = NoRow
      /\ \A j \in Job : jobState[j] = "none" /\ accepted[j] = 0
  BY DEF Init
<1>2. \A c \in Campaign : /\ BookOf(c) = "none"
                          /\ PendingJobs(c) = {}
                          /\ row[c].sent = 0 /\ row[c].failed = 0
  BY <1>1 DEF BookOf, PendingJobs, Exists, NoRow, Status
<1>3. {j \in Job : jobState[j] # "none"} = {} /\ {j \in Job : accepted[j] > 0} = {}
  BY <1>1
<1> QED
  BY <1>2, <1>3 DEF Ledger!Init

\* In every behaviour without a fault, requests, queue and workers together implement the
\* ledger, for any sets of campaigns, contacts, requests and worker slots.
THEOREM CampaignsKeepTheLedger == Spec /\ [](faults = 0) => ImplementsLedger
<1>1. Init => Ledger!Init
  BY LedgerInit
<1>2. IInv /\ [Next]_vars /\ (faults = 0)' => [Ledger!Next]_Ledger!vars
  BY LedgerStep
<1> QED
  BY <1>1, <1>2, Invariance, PTL DEF Spec, ImplementsLedger, Ledger!Spec

-----------------------------------------------------------------------------
(* sentCount under faults.                                                 *)

LEMMA FiniteClaims ==
    ASSUME NEW c
    PROVE  /\ ToCount(c) \subseteq Job /\ IsFiniteSet(ToCount(c))
           /\ Acceptances(c) \subseteq Job \X (1..2) /\ IsFiniteSet(Acceptances(c))
           /\ ToCount(c)' \subseteq Job /\ IsFiniteSet(ToCount(c)')
           /\ Acceptances(c)' \subseteq Job \X (1..2) /\ IsFiniteSet(Acceptances(c)')
<1>1. IsFiniteSet(Job)
  BY FiniteSets, FS_Product DEF Job
<1>2. IsFiniteSet(Job \X (1..2))
  <2>1. 1 \in Int /\ 2 \in Int
    OBVIOUS
  <2>2. IsFiniteSet(1..2)
    BY <2>1, FS_Interval, Zenon
  <2> QED
    BY <1>1, <2>2, FS_Product
<1>3. 1..1 + MaxStalls = 1..2
  BY DEF MaxStalls
<1>4. /\ ToCount(c) \subseteq Job /\ Acceptances(c) \subseteq Job \X (1..2)
      /\ ToCount(c)' \subseteq Job /\ Acceptances(c)' \subseteq Job \X (1..2)
  BY <1>3 DEF ToCount, Acceptances, JobsOf
<1> QED
  BY <1>1, <1>2, <1>4, FS_Subset

\* What was accepted stays accepted.
LEMMA AcceptedGrows ==
    ASSUME IInv, [Next]_vars, NEW j \in Job
    PROVE  accepted[j] \in Nat /\ accepted'[j] \in Nat /\ accepted[j] <= accepted'[j]
<1> USE DEF IInv
<1>1. accepted[j] \in Nat
  BY DEF TypeOK
<1>2. ASSUME NEW w \in Worker, SendAccepted(w) \/ AcceptedThenFails(w)
      PROVE  accepted'[j] \in Nat /\ accepted[j] <= accepted'[j]
  BY <1>1, <1>2 DEF SendAccepted, AcceptedThenFails, TypeOK
<1>3. ASSUME NEW w \in Worker, WorkerStep(w) \/ WorkerFails(w) \/ CatchFails(w),
             ~SendAccepted(w)
      PROVE  accepted' = accepted
  BY <1>3 DEF WorkerStep, WorkerFails, CatchFails, Take, SendRefused, CountResult,
              CheckComplete, CompleteCampaign, WorkerRowGone, CatchError, queueVars
<1>4. CASE accepted' = accepted
  BY <1>1, <1>4
<1> QED
  BY <1>1, <1>2, <1>3, <1>4, StepCases
     DEF Administrative, AddCampaignMessages, Stalled, Crash, queueVars

LEMMA AcceptancesGrow ==
    ASSUME IInv, [Next]_vars, NEW c \in Campaign
    PROVE  Acceptances(c) \subseteq Acceptances(c)'
<1> SUFFICES ASSUME NEW a \in Acceptances(c)
             PROVE  a \in Acceptances(c)'
  OBVIOUS
<1>1. a \in JobsOf(c) \X (1..1 + MaxStalls) /\ a[2] <= accepted[a[1]] /\ a[1] \in Job
  BY DEF Acceptances, JobsOf
<1>2. a[1] \in JobsOf(c)'
  BY <1>1, JobsOfMove
<1>3. a[2] <= accepted'[a[1]]
  BY <1>1, AcceptedGrows DEF MaxStalls
<1> QED
  BY <1>1, <1>2, <1>3 DEF Acceptances

\* A step that counts nothing as sent and after which no slot more is about to.
LEMMA NothingClaimed ==
    ASSUME IInv, [Next]_vars, SentCovered, NEW c \in Campaign,
           row'[c].sent \in {0, row[c].sent}, ToCount(c)' \subseteq ToCount(c)
    PROVE  row'[c].sent + Cardinality(ToCount(c)') <= Cardinality(Acceptances(c)')
<1>1. /\ Cardinality(ToCount(c)') <= Cardinality(ToCount(c))
      /\ Cardinality(Acceptances(c)) <= Cardinality(Acceptances(c)')
  BY FiniteClaims, AcceptancesGrow, FS_Subset
<1>2. /\ Cardinality(ToCount(c)) \in Nat /\ Cardinality(ToCount(c)') \in Nat
      /\ Cardinality(Acceptances(c)) \in Nat /\ Cardinality(Acceptances(c)') \in Nat
  BY FiniteClaims, FS_CardinalityType
<1>3. row[c].sent \in Nat
  BY DEF IInv, TypeOK, Row
<1>4. row[c].sent + Cardinality(ToCount(c)) <= Cardinality(Acceptances(c))
  BY DEF SentCovered
<1> QED
  BY <1>1, <1>2, <1>3, <1>4

\* A slot that is about to count was about to count before, or its send was accepted now.
LEMMA ToCountMoves ==
    ASSUME IInv, [Next]_vars, NEW c \in Campaign,
           \A w \in Worker : SendAccepted(w) => CampaignAt(w) # c
    PROVE  ToCount(c)' \subseteq ToCount(c)
<1> USE DEF IInv
<1>1. ASSUME NEW v \in Worker, worker'[v].pc = "count", worker'[v].ok
      PROVE  \/ worker[v] = worker'[v]
             \/ SendAccepted(v) /\ worker[v].pc # "idle" /\ worker'[v].job = worker[v].job
  <2>1. ASSUME NEW w \in Worker, WorkerStep(w) \/ AcceptedThenFails(w) \/ WorkerFails(w)
                                   \/ CatchFails(w), v # w
        PROVE  worker'[v] = worker[v]
    BY <2>1, SlotMoves DEF TypeOK
  <2>2. CASE AcceptedThenFails(v) \/ WorkerFails(v) \/ CatchFails(v)
    BY <1>1, <2>2 DEF AcceptedThenFails, WorkerFails, CatchFails, Advance, Release, IdleWorker,
                      TypeOK, Slot
  <2>3. CASE SendAccepted(v)
    BY <2>3 DEF SendAccepted, At, TypeOK, Slot
  <2>4. CASE WorkerStep(v) /\ ~SendAccepted(v)
    <3>1. CASE \E j \in Job : Take(v, j)
      BY <1>1, <3>1 DEF Take, TypeOK
    <3>2. CASE SendRefused(v) \/ CountResult(v) \/ CheckComplete(v) \/ WorkerRowGone(v)
      BY <1>1, <3>2 DEF SendRefused, CountResult, CheckComplete, WorkerRowGone, Advance, Release,
                        IdleWorker, TypeOK, Slot
    <3>3. CASE CompleteCampaign(v) \/ CatchError(v)
      BY <1>1, <3>3 DEF CompleteCampaign, CatchError, Release, IdleWorker, TypeOK, Slot
    <3> QED
      BY <2>4, <3>1, <3>2, <3>3 DEF WorkerStep
  <2>5. CASE Crash
    BY <1>1, <2>5 DEF Crash, IdleWorker
  <2>6. CASE UNCHANGED worker
    BY <2>6
  <2> QED
    BY <2>1, <2>2, <2>3, <2>4, <2>5, <2>6, StepCases
       DEF Administrative, AddCampaignMessages, Stalled, workerVars
<1> SUFFICES ASSUME NEW j \in ToCount(c)'
             PROVE  j \in ToCount(c)
  OBVIOUS
<1>2. PICK v \in Worker : worker'[v].pc = "count" /\ worker'[v].ok /\ worker'[v].job = j
  BY DEF ToCount, At
<1>3. worker[v].pc # "idle" /\ worker[v].job = j
  BY <1>1, <1>2
<1>4. j \in Job /\ jobState[j] = "active" /\ CampaignAt(v) = CampaignOf(j)
  BY <1>3, BusyIsLaunched DEF CampaignAt
<1>5. CampaignOf(j) = c
  BY <1>4, JobKeepsCampaign DEF ToCount, JobsOf
<1>6. worker[v] = worker'[v]
  BY <1>1, <1>2, <1>4, <1>5
<1> QED
  BY <1>2, <1>4, <1>5, <1>6 DEF ToCount, JobsOf, At

\* An accepted send is one acceptance more, and one more to count.
LEMMA AcceptanceClaimed ==
    ASSUME IInv, [Next]_vars, SentCovered, NEW w \in Worker, SendAccepted(w),
           NEW c \in Campaign, CampaignAt(w) = c
    PROVE  row'[c].sent + Cardinality(ToCount(c)') <= Cardinality(Acceptances(c)')
<1> USE DEF IInv
<1> DEFINE j == worker[w].job
           a == <<j, accepted[j] + 1>>
<1>1. /\ worker[w].pc = "send"
      /\ accepted' = [accepted EXCEPT ![j] = @ + 1]
      /\ worker' = [worker EXCEPT ![w].pc = "count", ![w].ok = TRUE]
      /\ UNCHANGED <<row, request, jobState>>
  BY DEF SendAccepted, At
<1>2. j \in Job /\ jobState[j] = "active" /\ CampaignOf(j) = c
  BY <1>1, BusyIsLaunched DEF CampaignAt
<1>3. \A v \in Worker \ {w} : worker[v].job # j /\ worker'[v] = worker[v]
  BY <1>1 DEF SlotsHoldJobs, TypeOK
<1>4. worker'[w].pc = "count" /\ worker'[w].job = j /\ worker'[w].ok
  BY <1>1 DEF TypeOK, Slot
<1>5. JobsOf(c)' = JobsOf(c) /\ j \in JobsOf(c)
  BY <1>1, <1>2 DEF JobsOf, CampaignOf
<1>6. ToCount(c)' = ToCount(c) \cup {j} /\ j \notin ToCount(c)
  <2>1. j \notin ToCount(c)
    BY <1>1, <1>3 DEF ToCount, At
  <2>2. j \in ToCount(c)'
    BY <1>4, <1>5 DEF ToCount, At
  <2>3. ASSUME NEW i \in Job, i # j
        PROVE  i \in ToCount(c)' <=> i \in ToCount(c)
    <3>1. \A v \in Worker : worker'[v].job = i \/ worker[v].job = i => worker'[v] = worker[v]
      BY <1>3, <1>4, <2>3
    <3> QED
      BY <1>5, <3>1 DEF ToCount, At
  <2> QED
    BY <1>2, <2>1, <2>2, <2>3, FiniteClaims
<1>7. Acceptances(c) \cup {a} \subseteq Acceptances(c)' /\ a \notin Acceptances(c)
  <2>1. /\ accepted[j] \in Nat /\ accepted[j] <= stalls[j] /\ stalls[j] \in 0..1
        /\ accepted'[j] = accepted[j] + 1
    BY <1>1, <1>2 DEF SendBudget, At, TypeOK, MaxStalls
  <2>2. accepted[j] + 1 \in 1..1 + MaxStalls
    BY <2>1 DEF MaxStalls
  <2>3. a \in Acceptances(c)'
    BY <1>5, <2>1, <2>2 DEF Acceptances
  <2>4. a \notin Acceptances(c)
    BY <2>1 DEF Acceptances
  <2> QED
    BY <2>3, <2>4, AcceptancesGrow
<1>8. /\ Cardinality(ToCount(c)') = Cardinality(ToCount(c)) + 1
      /\ Cardinality(Acceptances(c)) + 1 <= Cardinality(Acceptances(c)')
  <2>1. Cardinality(ToCount(c)') = Cardinality(ToCount(c)) + 1
    BY <1>6, FiniteClaims, FS_AddElement
  <2>2. Cardinality(Acceptances(c) \cup {a}) = Cardinality(Acceptances(c)) + 1
    BY <1>7, FiniteClaims, FS_AddElement
  <2>3. Cardinality(Acceptances(c) \cup {a}) <= Cardinality(Acceptances(c)')
    BY <1>7, FiniteClaims, FS_Subset
  <2> QED
    BY <2>1, <2>2, <2>3
<1>9. /\ Cardinality(ToCount(c)) \in Nat /\ Cardinality(Acceptances(c)) \in Nat
      /\ Cardinality(Acceptances(c)') \in Nat /\ row[c].sent \in Nat
  BY FiniteClaims, FS_CardinalityType DEF TypeOK, Row
<1>10. /\ row'[c].sent = row[c].sent
       /\ row[c].sent + Cardinality(ToCount(c)) <= Cardinality(Acceptances(c))
  BY <1>1 DEF SentCovered
<1> QED
  BY <1>8, <1>9, <1>10

\* A message counted as sent uses up what its slot was about to count.
LEMMA ClaimUsed ==
    ASSUME IInv, [Next]_vars, SentCovered, NEW w \in Worker, CountResult(w), worker[w].ok,
           NEW c \in Campaign, CampaignAt(w) = c
    PROVE  row'[c].sent + Cardinality(ToCount(c)') <= Cardinality(Acceptances(c)')
<1> USE DEF IInv
<1> DEFINE j == worker[w].job
<1>1. /\ worker[w].pc = "count"
      /\ row' = [row EXCEPT ![c].sent = @ + 1]
      /\ worker' = [worker EXCEPT ![w].pc = "check"]
      /\ UNCHANGED <<request, jobState>>
  BY DEF CountResult, Incremented, Advance, At, queueVars
<1>2. j \in Job /\ jobState[j] = "active" /\ CampaignOf(j) = c
  BY <1>1, BusyIsLaunched DEF CampaignAt
<1>3. \A v \in Worker \ {w} : worker[v].job # j /\ worker'[v] = worker[v]
  BY <1>1 DEF SlotsHoldJobs, TypeOK
<1>4. worker'[w].pc = "check"
  BY <1>1 DEF TypeOK, Slot
<1>5. JobsOf(c)' = JobsOf(c) /\ j \in JobsOf(c)
  BY <1>1, <1>2 DEF JobsOf, CampaignOf
<1>6. ToCount(c) = ToCount(c)' \cup {j} /\ j \notin ToCount(c)'
  <2>1. j \in ToCount(c)
    BY <1>1, <1>5 DEF ToCount, At
  <2>2. j \notin ToCount(c)'
    BY <1>3, <1>4 DEF ToCount, At
  <2>3. \A i \in Job \ {j} : i \in ToCount(c)' <=> i \in ToCount(c)
    BY <1>3, <1>4, <1>5 DEF ToCount, At
  <2> QED
    BY <1>2, <2>1, <2>2, <2>3, FiniteClaims
<1>7. /\ Cardinality(ToCount(c)) = Cardinality(ToCount(c)') + 1
      /\ Cardinality(Acceptances(c)) <= Cardinality(Acceptances(c)')
  <2>1. Cardinality(ToCount(c)' \cup {j}) = Cardinality(ToCount(c)') + 1
    BY <1>6, FiniteClaims, FS_AddElement
  <2>2. Cardinality(Acceptances(c)) <= Cardinality(Acceptances(c)')
    BY FiniteClaims, AcceptancesGrow, FS_Subset
  <2> QED
    BY <1>6, <2>1, <2>2
<1>8. /\ Cardinality(ToCount(c)') \in Nat /\ Cardinality(Acceptances(c)) \in Nat
      /\ Cardinality(Acceptances(c)') \in Nat /\ row[c].sent \in Nat
  BY FiniteClaims, FS_CardinalityType DEF TypeOK, Row
<1>9. /\ row'[c].sent = row[c].sent + 1
      /\ row[c].sent + Cardinality(ToCount(c)) <= Cardinality(Acceptances(c))
  BY <1>1 DEF SentCovered, TypeOK, Row
<1> QED
  BY <1>7, <1>8, <1>9

LEMMA SentStep ==
    ASSUME IInv, [Next]_vars, SentCovered
    PROVE  SentCovered'
<1> USE DEF IInv
<1> SUFFICES ASSUME NEW c \in Campaign
             PROVE  row'[c].sent + Cardinality(ToCount(c)') <= Cardinality(Acceptances(c)')
  BY DEF SentCovered
<1>1. CASE \E w \in Worker : SendAccepted(w) /\ CampaignAt(w) = c
  BY <1>1, AcceptanceClaimed
<1>2. CASE \E w \in Worker : CountResult(w) /\ worker[w].ok /\ CampaignAt(w) = c
  BY <1>2, ClaimUsed
<1>3. CASE /\ \A w \in Worker : SendAccepted(w) => CampaignAt(w) # c
           /\ \A w \in Worker : CountResult(w) => ~worker[w].ok \/ CampaignAt(w) # c
  <2>1. ToCount(c)' \subseteq ToCount(c)
    BY <1>3, ToCountMoves
  <2>2. CASE Administrative
    BY <2>1, <2>2, NothingClaimed DEF Administrative, RowKept
  <2>3. ASSUME NEW w \in Worker, WorkerStep(w)
        PROVE  row'[c].sent = row[c].sent
    <3>1. CASE CountResult(w)
      BY <1>3, <3>1 DEF CountResult, Incremented, TypeOK, Row
    <3>2. CASE CompleteCampaign(w) \/ CatchError(w)
      BY <3>2 DEF CompleteCampaign, CatchError, TypeOK, Row
    <3> QED
      BY <2>3, <3>1, <3>2
         DEF WorkerStep, Take, SendAccepted, SendRefused, CheckComplete, WorkerRowGone
  <2>4. CASE UNCHANGED row
    BY <2>1, <2>4, NothingClaimed
  <2> QED
    BY <2>1, <2>2, <2>3, <2>4, NothingClaimed, StepCases, FaultKeepsRows
       DEF AddCampaignMessages, Stalled, Crash
<1> QED
  BY <1>1, <1>2, <1>3

\* Whatever crashes, is run again or is counted again, sentCount is covered by as many
\* acceptances of the Graph API (processCampaignMessage).
THEOREM SentCountIsCovered == Spec => []SentNeverOverstated
<1>1. Init => SentCovered
  <2> SUFFICES ASSUME Init, NEW c \in Campaign
               PROVE  row[c].sent + Cardinality(ToCount(c)) <= Cardinality(Acceptances(c))
    BY DEF SentCovered
  <2>1. row[c].sent = 0
    BY DEF Init, NoRow
  <2>2. ToCount(c) = {}
    BY DEF Init, ToCount, JobsOf
  <2>3. Cardinality(Acceptances(c)) \in Nat
    BY FiniteClaims, FS_CardinalityType
  <2> QED
    BY <2>1, <2>2, <2>3, FS_EmptySet
<1>2. IInv /\ SentCovered => SentNeverOverstated
  <2> SUFFICES ASSUME IInv, SentCovered, NEW c \in Campaign
               PROVE  row[c].sent <= Cardinality(Acceptances(c))
    BY DEF SentNeverOverstated
  <2>1. /\ Cardinality(ToCount(c)) \in Nat /\ Cardinality(Acceptances(c)) \in Nat
        /\ row[c].sent \in Nat
    BY FiniteClaims, FS_CardinalityType DEF IInv, TypeOK, Row
  <2> QED
    BY <2>1 DEF SentCovered
<1> QED
  BY <1>1, <1>2, SentStep, Invariance, PTL DEF Spec
=============================================================================
