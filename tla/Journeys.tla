------------------------------- MODULE Journeys -------------------------------
(***************************************************************************)
(* The campaigns that CampaignsService does not run: A/B tests, drip       *)
(* campaigns and trigger campaigns (AbTestingService, DripCampaignService, *)
(* TriggerCampaignService).  There is one campaign of one of these types;  *)
(* its row, the drip progress and the trigger keys in Redis, and what was  *)
(* handed to the message queue.                                            *)
(*                                                                         *)
(* An operation runs one await at a time.  onStepCompleted and             *)
(* evaluateContactEvent have no caller in the repository; they are called  *)
(* here as their comments say, for a step whose message was queued and for *)
(* any event of a contact.                                                 *)
(***************************************************************************)
EXTENDS Integers, Sequences, FiniteSets, SequencesExt

CONSTANTS
    Contact,       \* the audience
    Op,            \* the operations ever started
    Plans,         \* the campaigns to look at, see PlanRecord below
    MaxFaults      \* bound: errors and crashes

\* split: percentages of the variants; steps: length of the sequence; max, cooldown:
\* maxTriggersPerContact, and is there a cooldown; maxLaunches: bound, launches of the campaign
PlanRecord == [type: {"AB", "DRIP", "TRIGGER"}, split: Seq(0..100), steps: Nat, max: Nat,
               cooldown: BOOLEAN, maxLaunches: Nat]
AbTest(split, maxLaunches) ==
    [type |-> "AB", split |-> split, steps |-> 0, max |-> 0, cooldown |-> FALSE,
     maxLaunches |-> maxLaunches]
Drip(steps, maxLaunches) ==
    [type |-> "DRIP", split |-> <<>>, steps |-> steps, max |-> 0, cooldown |-> FALSE,
     maxLaunches |-> maxLaunches]
Trigger(max, cooldown) ==
    [type |-> "TRIGGER", split |-> <<>>, steps |-> 0, max |-> max, cooldown |-> cooldown,
     maxLaunches |-> 0]

ASSUME FiniteSets == IsFiniteSet(Contact) /\ IsFiniteSet(Op)
ASSUME SomeContact == Contact # {}     \* a launch without an audience is refused
ASSUME PlansAreSound == \A p \in Plans : p \in PlanRecord /\ (p.type = "AB" => Len(p.split) > 1)
ASSUME BoundIsNat == MaxFaults \in Nat

VARIABLES
    plan,          \* the campaign's settings, which no step changes
    status,        \* the status in its row
    sentCount,     \* the counter in its row
    queued,        \* jobs handed to the message queue for each contact
    progress,      \* drip: the progress key of each contact
    awaiting,      \* drip: queued steps whose completion was not reported yet
    meta,          \* drip: the key with the page and the workspace of the launch
    trigger,       \* trigger: is the active key there, is the campaign in the workspace's set
    cooling,       \* trigger: contacts with a cooldown key
    count,         \* trigger: the count key of each contact
    deleted,       \* trigger: contacts whose row is gone
    op,            \* where each operation is
    launches,      \* history: launches so far
    merged,        \* history: contacts one of whose jobs had the id of another
    clobbered,     \* history: contacts whose progress was overwritten by a stale write
    overlapped,    \* history: contacts with two evaluations under way at once
    skipped,       \* history: firings of each contact that found no row of it
    faults

row == <<plan, status, sentCount>>
drip == <<progress, awaiting, meta, clobbered>>
people == <<deleted, skipped>>
trig == <<trigger, cooling, count, overlapped, people>>
queue == <<queued, merged>>
vars == <<row, drip, trig, queue, op, launches, faults>>

NoProgress == [status |-> "none", step |-> 0]
FreeOp == [kind |-> "none", pc |-> "free", todo |-> <<>>, rest |-> <<>>, step |-> 0,
           read |-> NoProgress, idle |-> TRUE]
Kind == {"none", "launchAb", "launchDrip", "stepCompleted", "remove", "activate", "deactivate",
         "evaluate"}
PC == {"free", "nextVariant", "queueNext", "enroll", "queueStep", "readNext", "writeNext", "meta",
       "run", "again", "progress", "complete", "advance", "scan", "remove", "setKey", "list",
       "delKey", "unlist", "pause", "config", "cooldown", "count", "fire", "sentCount", "cool",
       "incr", "done"}
Progress == [status: {"none", "active", "completed", "removed"}, step: Nat]
OpRecord == [kind: Kind, pc: PC, todo: Seq(Contact), rest: Seq(Contact), step: Nat,
             read: Progress, idle: BOOLEAN]

TypeOK ==
    /\ plan \in Plans
    /\ status \in {"DRAFT", "RUNNING", "PAUSED", "COMPLETED"}
    /\ sentCount \in Nat
    /\ queued \in [Contact -> Nat]
    /\ progress \in [Contact -> Progress]
    /\ awaiting \in SUBSET (Contact \X Nat)
    /\ meta \in {"absent", "there", "expired"}
    /\ trigger \in [active: BOOLEAN, listed: BOOLEAN]
    /\ count \in [Contact -> Nat]
    /\ skipped \in [Contact -> Nat]
    /\ op \in [Op -> OpRecord]
    /\ launches \in 0..plan.maxLaunches
    /\ cooling \cup deleted \cup merged \cup clobbered \cup overlapped \subseteq Contact
    /\ faults \in 0..MaxFaults

Init ==
    /\ plan \in Plans
    /\ status = "DRAFT"
    /\ sentCount = 0
    /\ queued = [c \in Contact |-> 0]
    /\ progress = [c \in Contact |-> NoProgress]
    /\ awaiting = {}
    /\ meta = "absent"
    /\ trigger = [active |-> FALSE, listed |-> FALSE]
    /\ cooling = {}
    /\ count = [c \in Contact |-> 0]
    /\ deleted = {}
    /\ skipped = [c \in Contact |-> 0]
    /\ op = [o \in Op |-> FreeOp]
    /\ launches = 0
    /\ merged = {} /\ clobbered = {} /\ overlapped = {}
    /\ faults = 0

At(o, pc) == op[o].pc = pc
Goto(o, pc) == op' = [op EXCEPT ![o].pc = pc]
Finish(o) == op' = [op EXCEPT ![o] = [FreeOp EXCEPT !.kind = op[o].kind, !.pc = "done"]]
Begin(o, kind, pc, todo) ==
    /\ At(o, "free")
    /\ op' = [op EXCEPT ![o] = [FreeOp EXCEPT !.kind = kind, !.pc = pc, !.todo = todo]]
Who(o) == Head(op[o].todo)

\* The job's id is the contact and the millisecond: a second job of the
\* contact in the same millisecond is not added.
AddMessage(c) ==
    \/ queued' = [queued EXCEPT ![c] = @ + 1] /\ UNCHANGED merged
    \/ queued[c] > 0 /\ merged' = merged \cup {c} /\ UNCHANGED queued

-----------------------------------------------------------------------------
(* A/B tests.                                                              *)

Size == Cardinality(Contact)

\* pct / 100 * size, rounded; floats decide which way a half goes.
Rounded(pct) ==
    LET low == (pct * Size) \div 100
        rest == (pct * Size) % 100
    IN  IF rest < 50 THEN {low} ELSE IF rest > 50 THEN {low + 1} ELSE {low, low + 1}

\* No contact is in the audience twice.
LaunchAbTest(o) ==
    /\ plan.type = "AB"
    /\ launches < plan.maxLaunches
    /\ At(o, "free")
    /\ \E shuffled \in SetToSeqs(Contact) :
           op' = [op EXCEPT ![o] = [FreeOp EXCEPT !.kind = "launchAb", !.pc = "nextVariant",
                                        !.rest = shuffled]]
    /\ launches' = launches + 1
    /\ UNCHANGED <<row, drip, trig, queue, faults>>

\* The slice of the next variant: the first `share` of the contacts not given out.
Slice(o, share) ==
    LET rest == op[o].rest
    IN  op' = [op EXCEPT ![o].pc = "queueNext", ![o].step = @ + 1,
                         ![o].todo = SubSeq(rest, 1, IF share < Len(rest) THEN share
                                                     ELSE Len(rest)),
                         ![o].rest = SubSeq(rest, share + 1, Len(rest))]

\* Mutant: the last variant is rounded like the others.
NextVariantRounded(o) ==
    /\ At(o, "nextVariant")
    /\ IF op[o].step = Len(plan.split)
         THEN Goto(o, "run")
         ELSE \E share \in Rounded(plan.split[op[o].step + 1]) : Slice(o, share)
    /\ UNCHANGED <<row, drip, trig, queue, launches, faults>>

\* contacts.slice(offset, offset + count): the last variant gets what is left, which is
\* nothing where the others were rounded past the audience (its count is negative then).
NextVariant(o) ==
    LET n == Len(plan.split)
    IN  /\ At(o, "nextVariant")
        /\ \/ op[o].step = n /\ Goto(o, "run")
           \/ op[o].step = n - 1 /\ Slice(o, Len(op[o].rest))
           \/ /\ op[o].step < n - 1
              /\ \E share \in Rounded(plan.split[op[o].step + 1]) : Slice(o, share)
        /\ UNCHANGED <<row, drip, trig, queue, launches, faults>>

QueueVariant(o) ==
    /\ At(o, "queueNext")
    /\ IF op[o].todo = <<>>
         THEN Goto(o, "nextVariant") /\ UNCHANGED queue
         ELSE AddMessage(Who(o)) /\ op' = [op EXCEPT ![o].todo = Tail(@)]
    /\ UNCHANGED <<row, drip, trig, launches, faults>>

\* The last write of launchAbTest, launchDripCampaign and activateTrigger.
MarkRunning(o) ==
    /\ At(o, "run")
    /\ status' = "RUNNING"
    /\ Finish(o)
    /\ UNCHANGED <<plan, sentCount, drip, trig, queue, launches, faults>>

-----------------------------------------------------------------------------
(* Drip campaigns.  A progress key is read and written as a whole.         *)

WriteProgress(o, value) ==
    /\ progress' = [progress EXCEPT ![Who(o)] = value]
    /\ clobbered' = IF progress[Who(o)] = op[o].read THEN clobbered ELSE clobbered \cup {Who(o)}

\* Mutant: the campaign runs before its contacts are enrolled.
LaunchDripRunning(o) ==
    /\ plan.type = "DRIP"
    /\ launches < plan.maxLaunches
    /\ \E contacts \in SetToSeqs(Contact) : Begin(o, "launchDrip", "enroll", contacts)
    /\ launches' = launches + 1
    /\ status' = "RUNNING"
    /\ UNCHANGED <<plan, sentCount, drip, trig, queue, faults>>

LaunchDrip(o) ==
    /\ plan.type = "DRIP"
    /\ launches < plan.maxLaunches
    /\ \E contacts \in SetToSeqs(Contact) : Begin(o, "launchDrip", "enroll", contacts)
    /\ launches' = launches + 1
    /\ UNCHANGED <<row, drip, trig, queue, faults>>

Enroll(o) ==
    /\ At(o, "enroll")
    /\ IF op[o].todo = <<>>
         THEN Goto(o, "meta") /\ UNCHANGED progress
         ELSE /\ progress' = [progress EXCEPT ![Who(o)] = [status |-> "active", step |-> 0]]
              /\ Goto(o, "queueStep")
    /\ UNCHANGED <<row, awaiting, meta, clobbered, trig, queue, launches, faults>>

WriteMeta(o) ==
    /\ At(o, "meta")
    /\ meta' = "there"
    /\ Goto(o, "run")
    /\ UNCHANGED <<row, progress, awaiting, clobbered, trig, queue, launches, faults>>

\* The key lives for thirty days, while each write makes a progress key live on.
MetaExpires ==
    /\ meta = "there"
    /\ meta' = "expired"
    /\ UNCHANGED <<row, progress, awaiting, clobbered, trig, queue, op, launches, faults>>

QueueStep(o) ==
    /\ At(o, "queueStep")
    /\ AddMessage(Who(o))
    /\ awaiting' = IF queued' = queued THEN awaiting
                   ELSE awaiting \cup {<<Who(o), op[o].step>>}
    /\ Goto(o, "readNext")
    /\ UNCHANGED <<row, progress, meta, clobbered, trig, launches, faults>>

ReadNext(o) ==
    /\ At(o, "readNext")
    /\ op' = [op EXCEPT ![o].pc = "writeNext", ![o].read = progress[Who(o)]]
    /\ UNCHANGED <<row, drip, trig, queue, launches, faults>>

\* nextStepAt is set in what was read.
WriteNext(o) ==
    /\ At(o, "writeNext")
    /\ WriteProgress(o, op[o].read)
    /\ IF op[o].kind = "launchDrip"
         THEN op' = [op EXCEPT ![o].pc = "enroll", ![o].todo = Tail(@)]
         ELSE Finish(o)
    /\ UNCHANGED <<row, awaiting, meta, trig, queue, launches, faults>>

\* A completion reported while the campaign is not running is lost.
OnStepCompleted(o, c, s) ==
    /\ <<c, s>> \in awaiting
    /\ awaiting' = awaiting \ {<<c, s>>}
    /\ IF status = "RUNNING"
         THEN /\ At(o, "free")
              /\ op' = [op EXCEPT ![o] = [FreeOp EXCEPT !.kind = "stepCompleted",
                                              !.pc = "progress", !.todo = <<c>>, !.step = s]]
         ELSE UNCHANGED op
    /\ UNCHANGED <<row, progress, meta, clobbered, trig, queue, launches, faults>>

\* Mutant: the other contacts are looked at before this one is completed.
ReadProgressOfAll(o) ==
    /\ At(o, "progress")
    /\ IF progress[Who(o)].status # "active"
         THEN Finish(o)
         ELSE op' = [op EXCEPT ![o].read = progress[Who(o)],
                               ![o].idle = \A c \in Contact \ {Who(o)} :
                                               progress[c].status # "active",
                               ![o].pc = IF op[o].step + 1 >= plan.steps THEN "complete"
                                         ELSE "advance"]
    /\ UNCHANGED <<row, drip, trig, queue, launches, faults>>

ReadProgress(o) ==
    /\ At(o, "progress")
    /\ IF progress[Who(o)].status # "active"
         THEN Finish(o)
         ELSE op' = [op EXCEPT ![o].read = progress[Who(o)],
                               ![o].pc = IF op[o].step + 1 >= plan.steps THEN "complete"
                                         ELSE "advance"]
    /\ UNCHANGED <<row, drip, trig, queue, launches, faults>>

\* The look at the others needs the meta key and throws without it.
CompleteContact(o) ==
    /\ At(o, "complete")
    /\ WriteProgress(o, [status |-> "completed", step |-> op[o].step])
    /\ \/ /\ meta = "there"
          /\ \E keys \in SetToSeqs(Contact) :
                 op' = [op EXCEPT ![o].pc = "scan", ![o].todo = keys]
       \/ meta # "there" /\ Finish(o)
    /\ UNCHANGED <<row, awaiting, meta, trig, queue, launches, faults>>

\* The next step is due, or its condition fails and it counts as completed.  Without the
\* meta key a step that is due is given up, and nothing is written.
Advance(o) ==
    /\ At(o, "advance")
    /\ \/ /\ WriteProgress(o, [status |-> "active", step |-> op[o].step + 1])
          /\ \E pc \in {"queueStep", "again"} :
                 /\ pc = "queueStep" => meta = "there"
                 /\ op' = [op EXCEPT ![o].pc = pc, ![o].step = @ + 1]
       \/ meta # "there" /\ Finish(o) /\ UNCHANGED <<progress, clobbered>>
    /\ UNCHANGED <<row, awaiting, meta, trig, queue, launches, faults>>

Again(o) ==
    /\ At(o, "again")
    /\ IF status = "RUNNING" THEN Goto(o, "progress") ELSE Finish(o)
    /\ UNCHANGED <<row, drip, trig, queue, launches, faults>>

\* Mutant: the first key that is not active ends the look.
ScanOneKey(o) ==
    /\ At(o, "scan")
    /\ status' = IF progress[Who(o)].status # "active" THEN "COMPLETED" ELSE status
    /\ Finish(o)
    /\ UNCHANGED <<plan, sentCount, drip, trig, queue, launches, faults>>

\* getCampaignDripProgress, one key after the other, and checkCampaignCompletion.
CheckCompletion(o) ==
    /\ At(o, "scan")
    /\ IF op[o].todo = <<>>
         THEN /\ status' = IF op[o].idle THEN "COMPLETED" ELSE status
              /\ Finish(o)
         ELSE /\ op' = [op EXCEPT ![o].todo = Tail(@),
                                  ![o].idle = @ /\ progress[Who(o)].status # "active"]
              /\ UNCHANGED status
    /\ UNCHANGED <<plan, sentCount, drip, trig, queue, launches, faults>>

RemoveContact(o, c) ==
    /\ plan.type = "DRIP"
    /\ progress[c].status # "none"
    /\ At(o, "free")
    /\ op' = [op EXCEPT ![o] = [FreeOp EXCEPT !.kind = "remove", !.pc = "remove",
                                    !.todo = <<c>>, !.read = progress[c]]]
    /\ UNCHANGED <<row, drip, trig, queue, launches, faults>>

WriteRemoved(o) ==
    /\ At(o, "remove")
    /\ WriteProgress(o, [op[o].read EXCEPT !.status = "removed"])
    /\ Finish(o)
    /\ UNCHANGED <<row, awaiting, meta, trig, queue, launches, faults>>

-----------------------------------------------------------------------------
(* Trigger campaigns.                                                      *)

Activate(o) ==
    /\ plan.type = "TRIGGER"
    /\ Begin(o, "activate", "setKey", <<>>)
    /\ UNCHANGED <<row, drip, trig, queue, launches, faults>>

Deactivate(o) ==
    /\ plan.type = "TRIGGER"
    /\ Begin(o, "deactivate", "delKey", <<>>)
    /\ UNCHANGED <<row, drip, trig, queue, launches, faults>>

WriteKey(o) ==
    /\ \/ At(o, "setKey") /\ trigger' = [trigger EXCEPT !.active = TRUE] /\ Goto(o, "list")
       \/ At(o, "delKey") /\ trigger' = [trigger EXCEPT !.active = FALSE] /\ Goto(o, "unlist")
    /\ UNCHANGED <<row, drip, cooling, count, overlapped, people, queue, launches, faults>>

WriteList(o) ==
    /\ \/ At(o, "list") /\ trigger' = [trigger EXCEPT !.listed = TRUE] /\ Goto(o, "run")
       \/ At(o, "unlist") /\ trigger' = [trigger EXCEPT !.listed = FALSE] /\ Goto(o, "pause")
    /\ UNCHANGED <<row, drip, cooling, count, overlapped, people, queue, launches, faults>>

MarkPaused(o) ==
    /\ At(o, "pause")
    /\ status' = "PAUSED"
    /\ Finish(o)
    /\ UNCHANGED <<plan, sentCount, drip, trig, queue, launches, faults>>

Evaluating(c) == {o \in Op : op[o].kind = "evaluate" /\ op[o].todo = <<c>>}

EvaluateContactEvent(o, c) ==
    /\ trigger.listed
    /\ Begin(o, "evaluate", "config", <<c>>)
    /\ overlapped' = IF Evaluating(c) = {} THEN overlapped ELSE overlapped \cup {c}
    /\ UNCHANGED <<row, drip, trigger, cooling, count, people, queue, launches, faults>>

ReadConfig(o) ==
    /\ At(o, "config")
    /\ IF trigger.active THEN Goto(o, "cooldown") ELSE Finish(o)
    /\ UNCHANGED <<row, drip, trig, queue, launches, faults>>

ReadCooldown(o) ==
    /\ At(o, "cooldown")
    /\ IF Who(o) \in cooling THEN Finish(o) ELSE Goto(o, "count")
    /\ UNCHANGED <<row, drip, trig, queue, launches, faults>>

\* Mutant: one too many.
ReadCountLoosely(o) ==
    /\ At(o, "count")
    /\ IF plan.max > 0 /\ count[Who(o)] > plan.max THEN Finish(o) ELSE Goto(o, "fire")
    /\ UNCHANGED <<row, drip, trig, queue, launches, faults>>

\* The conditions of the trigger may hold of the event or not.
ReadCount(o) ==
    /\ At(o, "count")
    /\ \/ (plan.max = 0 \/ count[Who(o)] < plan.max) /\ Goto(o, "fire")
       \/ Finish(o)
    /\ UNCHANGED <<row, drip, trig, queue, launches, faults>>

\* For a contact that is gone nothing is queued or added to sentCount; the cooldown and the
\* count are written all the same.
TriggerForContact(o) ==
    /\ At(o, "fire")
    /\ \/ /\ Who(o) \notin deleted
          /\ AddMessage(Who(o))
          /\ Goto(o, "sentCount")
          /\ UNCHANGED skipped
       \/ /\ Who(o) \in deleted
          /\ skipped' = [skipped EXCEPT ![Who(o)] = @ + 1]
          /\ Goto(o, "cool")
          /\ UNCHANGED queue
    /\ UNCHANGED <<row, drip, trigger, cooling, count, overlapped, deleted, launches, faults>>

IncrementSent(o) ==
    /\ At(o, "sentCount")
    /\ sentCount' = sentCount + 1
    /\ Goto(o, "cool")
    /\ UNCHANGED <<plan, status, drip, trig, queue, launches, faults>>

SetCooldown(o) ==
    /\ At(o, "cool")
    /\ cooling' = IF plan.cooldown THEN cooling \cup {Who(o)} ELSE cooling
    /\ Goto(o, "incr")
    /\ UNCHANGED <<row, drip, trigger, count, overlapped, people, queue, launches, faults>>

\* Mutant: the count starts over with each firing.
IncrementOnce(o) ==
    /\ At(o, "incr")
    /\ count' = [count EXCEPT ![Who(o)] = 1]
    /\ Finish(o)
    /\ UNCHANGED <<row, drip, trigger, cooling, overlapped, people, queue, launches, faults>>

IncrementCount(o) ==
    /\ At(o, "incr")
    /\ count' = [count EXCEPT ![Who(o)] = @ + 1]
    /\ Finish(o)
    /\ UNCHANGED <<row, drip, trigger, cooling, overlapped, people, queue, launches, faults>>

CooldownExpires(c) ==
    /\ c \in cooling
    /\ cooling' = cooling \ {c}
    /\ UNCHANGED <<row, drip, trigger, count, overlapped, people, queue, op, launches, faults>>

\* ContactsService.delete.  Of the services here only triggerForContact asks for the row.
ContactDeleted(c) ==
    /\ plan.type = "TRIGGER"
    /\ c \notin deleted
    /\ deleted' = deleted \cup {c}
    /\ UNCHANGED <<row, drip, trigger, cooling, count, overlapped, skipped, queue, op, launches,
                   faults>>

-----------------------------------------------------------------------------
\* An await of the operation rejects, or the process dies in the middle.
Fails(o) ==
    /\ op[o].pc \notin {"free", "done"}
    /\ faults < MaxFaults
    /\ faults' = faults + 1
    /\ Finish(o)
    /\ UNCHANGED <<row, drip, trig, queue, launches>>

OpStep(o) ==
    \/ LaunchAbTest(o) \/ NextVariant(o) \/ QueueVariant(o) \/ MarkRunning(o)
    \/ LaunchDrip(o) \/ Enroll(o) \/ WriteMeta(o)
    \/ QueueStep(o) \/ ReadNext(o) \/ WriteNext(o)
    \/ ReadProgress(o) \/ CompleteContact(o) \/ Advance(o) \/ Again(o) \/ CheckCompletion(o)
    \/ WriteRemoved(o)
    \/ Activate(o) \/ Deactivate(o) \/ WriteKey(o) \/ WriteList(o) \/ MarkPaused(o)
    \/ ReadConfig(o) \/ ReadCooldown(o) \/ ReadCount(o) \/ TriggerForContact(o)
    \/ IncrementSent(o) \/ SetCooldown(o) \/ IncrementCount(o)
    \/ Fails(o)

Next ==
    \/ \E o \in Op : \/ OpStep(o)
                     \/ \E a \in awaiting : OnStepCompleted(o, a[1], a[2])
                     \/ \E c \in Contact : RemoveContact(o, c) \/ EvaluateContactEvent(o, c)
    \/ \E c \in Contact : CooldownExpires(c) \/ ContactDeleted(c)
    \/ MetaExpires

Spec == Init /\ [][Next]_vars

-----------------------------------------------------------------------------
Quiet == \A o \in Op : op[o].pc \in {"free", "done"}
Sum(f) == Cardinality(UNION {{c} \X (1..f[c]) : c \in Contact})
InFlight(pcs) == Cardinality({o \in Op : op[o].pc \in pcs})

\* However the percentages round, every launch of an A/B test that ran to its end
\* handed each contact of the audience over exactly once (ab-testing.service.ts,
\* launchAbTest): nobody is left out and nobody gets two variants of one launch.
EachLaunchReachesAll ==
    plan.type = "AB" /\ Quiet /\ faults = 0 =>
        \A c \in Contact \ merged : queued[c] = launches

\* A drip campaign that is COMPLETED has no active contact, except one whose progress
\* was overwritten by a stale copy (drip-campaign.service.ts, checkCampaignCompletion
\* against scheduleStep and removeContactFromDrip).
CompletedDripIsOver ==
    plan.type = "DRIP" /\ status = "COMPLETED" /\ launches = 1 =>
        \A c \in Contact \ clobbered : progress[c].status # "active"

\* When the last of the contacts completes the sequence, somebody notices, although
\* every handler scans the others' keys one by one (drip-campaign.service.ts,
\* onStepCompleted and checkCampaignCompletion).  Unless progress was overwritten by a stale
\* copy: in three steps two of them make a contact active and completed again, unnoticed; or
\* the meta key expired: then checkCampaignCompletion throws.
LastContactCompletes ==
    /\ plan.type = "DRIP" /\ launches = 1 /\ Quiet /\ faults = 0 /\ clobbered = {}
    /\ meta # "expired"
    /\ \A c \in Contact : progress[c].status = "completed"
    => status = "COMPLETED"

\* sentCount, the count keys and the queue tell the same story: a firing is queued,
\* then added to sentCount, then to the contact's count, and nothing is lost in between
\* unless something fails (trigger-campaign.service.ts, triggerForContact and
\* evaluateContactEvent).  The firings that are counted and not sent are those of deleted
\* contacts.
FiringsAreCounted ==
    plan.type = "TRIGGER" =>
        /\ Sum(count) + InFlight({"cool", "incr"}) <= sentCount + Sum(skipped)
        /\ faults = 0 => sentCount + Sum(skipped) = Sum(count) + InFlight({"cool", "incr"})
        /\ \A c \in Contact : skipped[c] > 0 => c \in deleted
        /\ faults = 0 /\ merged = {} => Sum(queued) = sentCount + InFlight({"sentCount"})

\* A contact never gets a trigger campaign more often than maxTriggersPerContact, as
\* long as its events do not overlap and nothing fails: the count is read before the
\* message is queued and incremented after it (trigger-campaign.service.ts:148).
MaxTriggersKept ==
    plan.type = "TRIGGER" /\ plan.max > 0 /\ faults = 0 =>
        \A c \in Contact \ overlapped : queued[c] <= plan.max

-----------------------------------------------------------------------------
(* The inductive invariant behind these properties.                        *)

\* The type of campaign an operation is for, and the awaits it stops at.
Course(o, kind, type, pcs) ==
    op[o].kind = kind => plan.type = type /\ op[o].pc \in pcs \cup {"done"}

OpShape(o) ==
    /\ op[o].kind = "none" <=> op[o].pc = "free"
    /\ Course(o, "launchAb", "AB", {"nextVariant", "queueNext", "run"})
    /\ Course(o, "launchDrip", "DRIP", {"enroll", "queueStep", "readNext", "writeNext", "meta",
                                        "run"})
    /\ Course(o, "stepCompleted", "DRIP", {"progress", "complete", "advance", "queueStep",
                                           "readNext", "writeNext", "again", "scan"})
    /\ Course(o, "remove", "DRIP", {"remove"})
    /\ Course(o, "activate", "TRIGGER", {"setKey", "list", "run"})
    /\ Course(o, "deactivate", "TRIGGER", {"delKey", "unlist", "pause"})
    /\ Course(o, "evaluate", "TRIGGER", {"config", "cooldown", "count", "fire", "sentCount",
                                         "cool", "incr"})
    /\ op[o].pc \in {"queueStep", "readNext", "writeNext", "progress", "complete", "advance",
                    "again", "remove"} => op[o].todo # <<>>
    /\ op[o].kind = "evaluate" /\ op[o].pc # "done" => \E c \in Contact : op[o].todo = <<c>>

Shapes ==
    /\ TypeOK
    /\ \A o \in Op : OpShape(o)
    /\ awaiting # {} => plan.type = "DRIP"
    /\ trigger.listed => plan.type = "TRIGGER"

\* An A/B launch has not handed over the contacts of its slice and of the slices to come,
\* each once; what is left when the last variant is dealt with is nothing.
Distinct(s) == \A i, j \in 1..Len(s) : s[i] = s[j] => i = j
Undealt(o) == ToSet(op[o].todo) \cup ToSet(op[o].rest)
Owing(c) == {o \in Op : op[o].kind = "launchAb" /\ c \in Undealt(o)}

Dealing(o) ==
    op[o].kind = "launchAb" =>
        /\ Distinct(op[o].todo) /\ Distinct(op[o].rest)
        /\ ToSet(op[o].todo) \cap ToSet(op[o].rest) = {}
        /\ op[o].pc \in {"nextVariant", "run", "done"} => op[o].todo = <<>>
        /\ op[o].pc \in {"run", "done"} => op[o].rest = <<>>
        /\ op[o].step <= Len(plan.split)
        /\ op[o].step = Len(plan.split) => op[o].rest = <<>>

Promise == faults = 0 => \A c \in Contact \ merged : queued[c] + Cardinality(Owing(c)) = launches

Deals == plan.type = "AB" => (\A o \in Op : Dealing(o)) /\ Promise

\* A drip campaign launched once is a draft until the launch is over, and nobody reports a
\* step before.
Enrolling == {o \in Op : op[o].kind = "launchDrip" /\ op[o].pc # "done"}

Launching ==
    /\ launches = 0 => status = "DRAFT" /\ Enrolling = {}
    /\ Enrolling # {} => status = "DRAFT"
    /\ \A o, p \in Enrolling : o = p

Drafted ==
    status = "DRAFT" =>
        /\ \A o \in Op : op[o].kind # "stepCompleted" /\ op[o].read.status # "completed"
        /\ \A c \in Contact : progress[c].status # "completed"

\* The meta key is there from the launch on, until it expires.
MetaKept ==
    /\ status # "DRAFT" => meta # "absent"
    /\ \A o \in Op : op[o].kind = "launchDrip" /\ At(o, "run") => meta # "absent"

\* A scan has seen no active contact as long as it is idle, and the one that follows the
\* last completion stays so.
NotActive(cs) == \A c \in cs \ clobbered : progress[c].status # "active"

Looking(o) ==
    /\ At(o, "advance") => op[o].read.status = "active"
    /\ ~At(o, "scan") => op[o].idle
    /\ At(o, "scan") /\ op[o].idle => NotActive(Contact \ ToSet(op[o].todo))

Noticed ==
    /\ faults = 0 /\ clobbered = {} /\ meta # "expired"
    /\ \A c \in Contact : progress[c].status = "completed"
    => status = "COMPLETED" \/ \E o \in Op : At(o, "scan") /\ op[o].idle

DripCourse ==
    plan.type = "DRIP" /\ launches <= 1 =>
        /\ Launching
        /\ MetaKept
        /\ Drafted
        /\ \A o \in Op : Looking(o)
        /\ status = "COMPLETED" => NotActive(Contact)
        /\ Noticed

\* A contact without overlapping evaluations has one at most, which has fired when its
\* message is queued and not yet in the count.
Fired == {"sentCount", "cool", "incr"}

Served(c) ==
    /\ \A o, p \in Evaluating(c) : o = p
    /\ queued[c] <= count[c] + 1
    /\ queued[c] > count[c] => \E o \in Evaluating(c) : op[o].pc \in Fired
    /\ plan.max > 0 =>
          /\ count[c] <= plan.max
          /\ \A o \in Evaluating(c) : op[o].pc \in Fired \cup {"fire"} => count[c] < plan.max

TriggerCourse ==
    plan.type = "TRIGGER" /\ faults = 0 => \A c \in Contact \ overlapped : Served(c)

\* The settings, the operations, the launches, the enrolled contacts and the counts agree in
\* every state (ab-testing.service.ts, drip-campaign.service.ts, trigger-campaign.service.ts).
IInv == Shapes /\ Deals /\ DripCourse /\ TriggerCourse /\ FiringsAreCounted
=============================================================================
