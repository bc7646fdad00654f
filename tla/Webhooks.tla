------------------------------ MODULE Webhooks ------------------------------
(***************************************************************************)
(* Events that Facebook posts to the webhook of one page: answered at once *)
(* (WebhooksController), queued (WebhooksService.processEntry), drained by *)
(* the webhook workers (processMessagingEvent) into the contacts, the      *)
(* conversations and the messages of the inbox, which the users of the     *)
(* inbox and outgoing messages change too.                                 *)
(*                                                                         *)
(* An event is identified, as in the code, by its sender and timestamp.    *)
(* Rows are never deleted here.                                            *)
(***************************************************************************)
EXTENDS Integers, FiniteSets

CONSTANTS
    Sender,        \* people that write to the page
    Event,         \* the events that ever happen
    SenderOf,      \* [Event -> Sender]
    KindOf,        \* [Event -> Kind]
    Post,          \* the HTTP requests Facebook ever makes; an event may come twice
    Worker,        \* slots of the webhook worker (its concurrency)
    NoEvent,       \* the event of a request not made yet
    NoJob,         \* the job of an idle worker slot
    MaxRetries,    \* bound: retry jobs of an event at the same time
    MaxExpiries,   \* bound: keys that expire
    MaxFaults      \* bound: crashes and errors of Redis or the database

Kind == {"message", "postback", "referral"}

\* <<e, 0>> is the job wh_<page>_<sender>_<timestamp>, <<e, n>> the n-th retry_... of e.
Job == Event \X (0..MaxRetries)

ASSUME FiniteSets == IsFiniteSet(Event) /\ IsFiniteSet(Worker)
ASSUME EventsHaveKinds == SenderOf \in [Event -> Sender] /\ KindOf \in [Event -> Kind]
ASSUME NullsAreFresh == NoEvent \notin Event /\ NoJob \notin Job
ASSUME BoundsAreNat == MaxRetries \in Nat /\ MaxExpiries \in Nat /\ MaxFaults \in Nat

MaxStalls == 1                                 \* BullMQ's default maxStalledCount
Attempts(j) == IF j[2] = 0 THEN 3 ELSE 2       \* options of the two kinds of jobs

VARIABLES
    post,          \* where each HTTP request is
    jobState,      \* BullMQ's state of each job
    tries,         \* attempts of the job that threw
    stalls,        \* how often BullMQ took the job back from a dead worker
    worker,        \* where each worker slot is, and its job
    seen,          \* Redis keys webhook:event:<page>:<sender>:<timestamp>
    expired,       \* events whose key was set and has expired
    contact,       \* people with a row in contacts
    conversation,  \* status of each person's row in conversations
    stored,        \* events whose message has a row in messages
    touched,       \* how often an event was counted as an interaction
    unread,        \* unreadCount of each conversation
    cleared,       \* unread messages that markAsRead took off
    faults

queueVars == <<jobState, tries, stalls>>
redisVars == <<seen, expired>>
inboxVars == <<contact, conversation, stored, touched, unread, cleared>>
vars == <<post, queueVars, worker, redisVars, inboxVars, faults>>

JobState == {"none", "waiting", "active", "completed", "failed"}
ConversationStatus == {"OPEN", "RESOLVED"}     \* PENDING is treated as OPEN is
PostPC == {"free", "answered", "done"}
WorkerPC == {"idle", "get", "set", "findContact", "createContact", "touch", "referral",
             "findConversation", "checkConversation", "createConversation", "store",
             "bump", "catch"}
IdleWorker == [pc |-> "idle", job |-> NoJob]

TypeOK ==
    /\ post \in [Post -> [pc: PostPC, event: Event \cup {NoEvent}]]
    /\ jobState \in [Job -> JobState]
    /\ tries \in [Job -> 0..3]
    /\ stalls \in [Job -> 0..MaxStalls]
    /\ worker \in [Worker -> [pc: WorkerPC, job: Job \cup {NoJob}]]
    /\ seen \subseteq Event /\ expired \subseteq Event
    /\ contact \subseteq Sender
    /\ conversation \in [Sender -> ConversationStatus \cup {"NONE"}]
    /\ stored \subseteq Event
    /\ touched \in [Event -> Nat]
    /\ unread \in [Sender -> Nat] /\ cleared \in [Sender -> Nat]
    /\ faults \in 0..MaxFaults

Init ==
    /\ post = [p \in Post |-> [pc |-> "free", event |-> NoEvent]]
    /\ jobState = [j \in Job |-> "none"]
    /\ tries = [j \in Job |-> 0]
    /\ stalls = [j \in Job |-> 0]
    /\ worker = [w \in Worker |-> IdleWorker]
    /\ seen = {} /\ expired = {}
    /\ contact = {}
    /\ conversation = [s \in Sender |-> "NONE"]
    /\ stored = {}
    /\ touched = [e \in Event |-> 0]
    /\ unread = [s \in Sender |-> 0] /\ cleared = [s \in Sender |-> 0]
    /\ faults = 0

-----------------------------------------------------------------------------
(* The HTTP request and the queue.                                         *)

\* The request is answered before anything is done with its event.
Answer(p, e) ==
    /\ post[p].pc = "free"
    /\ post' = [post EXCEPT ![p] = [pc |-> "answered", event |-> e]]
    /\ UNCHANGED <<queueVars, worker, redisVars, inboxVars, faults>>

\* BullMQ ignores a job whose id it knows.
ProcessEntry(p) ==
    LET j == <<post[p].event, 0>> IN
    /\ post[p].pc = "answered"
    /\ jobState' = [jobState EXCEPT ![j] = IF @ = "none" THEN "waiting" ELSE @]
    /\ post' = [post EXCEPT ![p].pc = "done"]
    /\ UNCHANGED <<tries, stalls, worker, redisVars, inboxVars, faults>>

Pending(j) == jobState[j] \in {"waiting", "active"}
Ended(j) == jobState[j] \in {"completed", "failed"}

\* removeOnComplete, removeOnFail: BullMQ forgets an old job, and its id.
Remove(j) ==
    /\ Ended(j)
    /\ jobState' = [jobState EXCEPT ![j] = "none"]
    /\ tries' = [tries EXCEPT ![j] = 0]
    /\ stalls' = [stalls EXCEPT ![j] = 0]
    /\ UNCHANGED <<post, worker, redisVars, inboxVars, faults>>

\* The key's hour is over.  Bound: once for each event, and MaxExpiries events.
Expire(e) ==
    /\ e \in seen \ expired
    /\ Cardinality(expired) < MaxExpiries
    /\ seen' = seen \ {e}
    /\ expired' = expired \cup {e}
    /\ UNCHANGED <<post, queueVars, worker, inboxVars, faults>>

-----------------------------------------------------------------------------
(* processMessagingEvent, one await at a time.                             *)

At(w, pc) == worker[w].pc = pc
EventAt(w) == worker[w].job[1]
SenderAt(w) == SenderOf[EventAt(w)]
KindAt(w) == KindOf[EventAt(w)]
Goto(w, pc) == worker' = [worker EXCEPT ![w].pc = pc]
Release(w) == worker' = [worker EXCEPT ![w] = IdleWorker]
EndJob(w, state) == jobState' = [jobState EXCEPT ![worker[w].job] = state]
Complete(w) == Release(w) /\ EndJob(w, "completed")

Take(w, j) ==
    /\ At(w, "idle")
    /\ jobState[j] = "waiting"
    /\ jobState' = [jobState EXCEPT ![j] = "active"]
    /\ worker' = [worker EXCEPT ![w] = [pc |-> "get", job |-> j]]
    /\ UNCHANGED <<post, tries, stalls, redisVars, inboxVars, faults>>

CheckDuplicate(w) ==
    /\ At(w, "get")
    /\ IF EventAt(w) \in seen THEN Complete(w)
                              ELSE Goto(w, "set") /\ UNCHANGED jobState
    /\ UNCHANGED <<post, tries, stalls, redisVars, inboxVars, faults>>

\* Mutant: the key is not set.
MarkForgotten(w) ==
    /\ At(w, "set")
    /\ Goto(w, "findContact")
    /\ UNCHANGED <<post, queueVars, redisVars, inboxVars, faults>>

\* The key is set before the event is handled, and stays when that fails.
MarkSeen(w) ==
    /\ At(w, "set")
    /\ seen' = seen \cup {EventAt(w)}
    /\ Goto(w, "findContact")
    /\ UNCHANGED <<post, queueVars, expired, inboxVars, faults>>

\* Mutant: every handler gives up on a person without a contact.
FindKnownContact(w) ==
    /\ At(w, "findContact")
    /\ IF SenderAt(w) \in contact
         THEN Goto(w, IF KindAt(w) = "referral" THEN "referral" ELSE "touch")
              /\ UNCHANGED jobState
         ELSE Complete(w)
    /\ UNCHANGED <<post, tries, stalls, redisVars, inboxVars, faults>>

\* handlePostback gives up on a person without a contact.
FindContact(w) ==
    /\ At(w, "findContact")
    /\ \/ /\ SenderAt(w) \in contact
          /\ Goto(w, IF KindAt(w) = "referral" THEN "referral" ELSE "touch")
          /\ UNCHANGED jobState
       \/ /\ SenderAt(w) \notin contact
          /\ KindAt(w) # "postback"
          /\ Goto(w, "createContact")
          /\ UNCHANGED jobState
       \/ /\ SenderAt(w) \notin contact
          /\ KindAt(w) = "postback"
          /\ Complete(w)
    /\ UNCHANGED <<post, tries, stalls, redisVars, inboxVars, faults>>

\* A second contact of the page with the same psid violates the unique key: create throws.
CreateContact(w) ==
    /\ At(w, "createContact")
    /\ contact' = contact \cup {SenderAt(w)}
    /\ Goto(w, CASE SenderAt(w) \in contact -> "catch"
                 [] KindAt(w) = "referral" -> "referral"
                 [] OTHER -> "touch")
    /\ UNCHANGED <<post, queueVars, redisVars, conversation, stored, touched, unread,
                   cleared, faults>>

\* A postback may carry a referral.
UpdateLastInteraction(w) ==
    /\ At(w, "touch")
    /\ touched' = [touched EXCEPT ![EventAt(w)] = @ + 1]
    /\ \/ KindAt(w) = "message" /\ Goto(w, "findConversation") /\ UNCHANGED jobState
       \/ KindAt(w) = "postback" /\ Goto(w, "referral") /\ UNCHANGED jobState
       \/ KindAt(w) = "postback" /\ Complete(w)
    /\ UNCHANGED <<post, tries, stalls, redisVars, contact, conversation, stored, unread,
                   cleared, faults>>

ProcessReferralData(w) ==
    /\ At(w, "referral")
    /\ Complete(w)
    /\ UNCHANGED <<post, tries, stalls, redisVars, inboxVars, faults>>

HasOpenConversation(w) == conversation[SenderAt(w)] \notin {"NONE", "RESOLVED"}

\* findByContactAndPage does not see a resolved conversation.
FindConversation(w) ==
    /\ At(w, "findConversation")
    /\ Goto(w, IF HasOpenConversation(w) THEN "store" ELSE "checkConversation")
    /\ UNCHANGED <<post, queueVars, redisVars, inboxVars, faults>>

\* ConversationsService.create looks once more, and does not see it either.
CheckConversation(w) ==
    /\ At(w, "checkConversation")
    /\ Goto(w, IF HasOpenConversation(w) THEN "store" ELSE "createConversation")
    /\ UNCHANGED <<post, queueVars, redisVars, inboxVars, faults>>

\* One conversation of a contact and a page: where there is one, create throws.
CreateConversation(w) ==
    LET s == SenderAt(w) IN
    /\ At(w, "createConversation")
    /\ conversation' = [conversation EXCEPT ![s] = IF @ = "NONE" THEN "OPEN" ELSE @]
    /\ Goto(w, IF conversation[s] = "NONE" THEN "store" ELSE "catch")
    /\ UNCHANGED <<post, queueVars, redisVars, contact, stored, touched, unread, cleared,
                   faults>>

\* fbMessageId is unique: a message that has a row is not stored again.
StoreMessage(w) ==
    /\ At(w, "store")
    /\ stored' = stored \cup {EventAt(w)}
    /\ Goto(w, IF EventAt(w) \in stored THEN "catch" ELSE "bump")
    /\ UNCHANGED <<post, queueVars, redisVars, contact, conversation, touched, unread,
                   cleared, faults>>

\* Mutant: only an open conversation counts.
BumpIfOpen(w) ==
    /\ At(w, "bump")
    /\ unread' = [unread EXCEPT ![SenderAt(w)] = IF HasOpenConversation(w) THEN @ + 1 ELSE @]
    /\ Complete(w)
    /\ UNCHANGED <<post, tries, stalls, redisVars, contact, conversation, stored, touched,
                   cleared, faults>>

BumpUnread(w) ==
    /\ At(w, "bump")
    /\ unread' = [unread EXCEPT ![SenderAt(w)] = @ + 1]
    /\ Complete(w)
    /\ UNCHANGED <<post, tries, stalls, redisVars, contact, conversation, stored, touched,
                   cleared, faults>>

\* The error is swallowed: the job completes, and a retry job is added under a new id.
\* Bound: the name of a retry job that has ended is used again.
CatchError(w) ==
    LET own == worker[w].job IN
    /\ At(w, "catch")
    /\ \E n \in 1..MaxRetries :
          LET retry == <<EventAt(w), n>> IN
          /\ retry = own \/ ~Pending(retry)
          /\ jobState' = [jobState EXCEPT ![own] = "completed", ![retry] = "waiting"]
          /\ tries' = [tries EXCEPT ![retry] = 0]
          /\ stalls' = [stalls EXCEPT ![retry] = 0]
    /\ Release(w)
    /\ UNCHANGED <<post, redisVars, inboxVars, faults>>

-----------------------------------------------------------------------------
(* The inbox: its users, and messages sent to people.                      *)

\* ConversationsService.update; a reply sets OPEN.
SetStatus(s, status) ==
    /\ conversation[s] # "NONE"
    /\ conversation' = [conversation EXCEPT ![s] = status]
    /\ UNCHANGED <<post, queueVars, worker, redisVars, contact, stored, touched, unread,
                   cleared, faults>>

MarkAsRead(s) ==
    /\ conversation[s] # "NONE"
    /\ unread' = [unread EXCEPT ![s] = 0]
    /\ cleared' = [cleared EXCEPT ![s] = @ + unread[s]]
    /\ UNCHANGED <<post, queueVars, worker, redisVars, contact, conversation, stored,
                   touched, faults>>

EnsureConversation(s) ==
    /\ s \in contact
    /\ conversation[s] = "NONE"
    /\ conversation' = [conversation EXCEPT ![s] = "OPEN"]
    /\ UNCHANGED <<post, queueVars, worker, redisVars, contact, stored, touched, unread,
                   cleared, faults>>

-----------------------------------------------------------------------------
(* Faults.                                                                 *)

Fault == faults < MaxFaults /\ faults' = faults + 1

\* The page is not found, or Redis does not take the job: nobody is told.
PostFails(p) ==
    /\ Fault
    /\ post[p].pc = "answered"
    /\ post' = [post EXCEPT ![p].pc = "done"]
    /\ UNCHANGED <<queueVars, worker, redisVars, inboxVars>>

\* A database statement of a handler fails.
HandlerFails(w) ==
    /\ Fault
    /\ worker[w].pc \notin {"idle", "get", "set", "catch"}
    /\ Goto(w, "catch")
    /\ UNCHANGED <<post, queueVars, redisVars, inboxVars>>

\* Redis fails outside of the try block, and may have set the key: BullMQ tries again.
RedisFails(w) ==
    LET j == worker[w].job IN
    /\ Fault
    /\ worker[w].pc \in {"get", "set"}
    /\ \/ seen' = seen
       \/ At(w, "set") /\ seen' = seen \cup {EventAt(w)}
    /\ tries' = [tries EXCEPT ![j] = @ + 1]
    /\ EndJob(w, IF tries[j] + 1 < Attempts(j) THEN "waiting" ELSE "failed")
    /\ Release(w)
    /\ UNCHANGED <<post, stalls, expired, inboxVars>>

\* The retry job is not taken: an error in the log.
RetryFails(w) ==
    /\ Fault
    /\ At(w, "catch")
    /\ Complete(w)
    /\ UNCHANGED <<post, tries, stalls, redisVars, inboxVars>>

\* The backend dies, and with it what was answered and not queued yet.
Crash ==
    /\ Fault
    /\ post' = [p \in Post |-> IF post[p].pc = "answered" THEN [post[p] EXCEPT !.pc = "done"]
                                                          ELSE post[p]]
    /\ worker' = [w \in Worker |-> IdleWorker]
    /\ UNCHANGED <<queueVars, redisVars, inboxVars>>

Orphaned(j) == jobState[j] = "active" /\ \A w \in Worker : worker[w].job # j

\* Mutant: a dead worker's job is left alone.
StalledIgnored(j) == Orphaned(j) /\ UNCHANGED vars

Stalled(j) ==
    /\ Orphaned(j)
    /\ IF stalls[j] < MaxStalls
         THEN /\ jobState' = [jobState EXCEPT ![j] = "waiting"]
              /\ stalls' = [stalls EXCEPT ![j] = @ + 1]
         ELSE /\ jobState' = [jobState EXCEPT ![j] = "failed"]
              /\ UNCHANGED stalls
    /\ UNCHANGED <<post, tries, worker, redisVars, inboxVars, faults>>

-----------------------------------------------------------------------------
WorkerStep(w) ==
    \/ \E j \in Job : Take(w, j)
    \/ CheckDuplicate(w)
    \/ MarkSeen(w)
    \/ FindContact(w)
    \/ CreateContact(w)
    \/ UpdateLastInteraction(w)
    \/ ProcessReferralData(w)
    \/ FindConversation(w)
    \/ CheckConversation(w)
    \/ CreateConversation(w)
    \/ StoreMessage(w)
    \/ BumpUnread(w)
    \/ CatchError(w)

WorkerFault(w) ==
    \/ HandlerFails(w)
    \/ RedisFails(w)
    \/ RetryFails(w)

InboxStep(s) ==
    \/ \E status \in ConversationStatus : SetStatus(s, status)
    \/ MarkAsRead(s)
    \/ EnsureConversation(s)

Next ==
    \/ \E p \in Post :
          \/ \E e \in Event : Answer(p, e)
          \/ ProcessEntry(p)
          \/ PostFails(p)
    \/ \E w \in Worker : WorkerStep(w) \/ WorkerFault(w)
    \/ \E s \in Sender : InboxStep(s)
    \/ \E j \in Job : Stalled(j) \/ Remove(j)
    \/ \E e \in Event : Expire(e)
    \/ Crash

Spec == Init /\ [][Next]_vars

\* A worker slot goes on and takes a waiting job, and BullMQ looks for stalled jobs.
Fairness ==
    /\ \A w \in Worker : WF_vars(WorkerStep(w))
    /\ \A j \in Job : WF_vars(Stalled(j))

FairSpec == Spec /\ Fairness

-----------------------------------------------------------------------------
(* Safety.                                                                 *)

\* Until its key expires, an event is counted as one interaction at most, whatever is
\* posted again, run again or retried: the job's id and the key together see to it.
AtMostOnce == \A e \in Event \ expired : touched[e] <= 1

MessagesOf(s) == {e \in stored : SenderOf[e] = s}
BumpsDue(s) == {w \in Worker : At(w, "bump") /\ SenderAt(w) = s}

\* No message is counted as unread that is not in the conversation, whatever fails; and
\* without a fault every stored message was counted once, or is about to be, through
\* reads, retries and events posted again (handleIncomingMessage, markAsRead).
UnreadAccounted ==
    \A s \in Sender :
        LET counted == unread[s] + cleared[s] + Cardinality(BumpsDue(s))
            messages == Cardinality(MessagesOf(s))
        IN  counted <= messages /\ (faults = 0 => counted = messages)

-----------------------------------------------------------------------------
(* Liveness, under FairSpec.                                               *)

\* Every queued event is done with, through crashes, errors and retries.
EveryJobEnds == \A j \in Job : Pending(j) ~> ~Pending(j)

\* Without a fault a person who writes is in the inbox in the end: the messages of a new
\* contact can each lose to another at the contact's or the conversation's unique key,
\* and their retries are skipped as duplicates, but what they lost to made the row.
NewcomerIsInInbox ==
    \A e \in Event :
        KindOf[e] = "message" /\ jobState[<<e, 0>>] = "waiting"
          ~> conversation[SenderOf[e]] # "NONE" \/ faults > 0

-----------------------------------------------------------------------------
(* What the repository says and the code does not do: checked by a run     *)
(* that expects a violation.                                               *)

\* "Queue for retry via BullMQ if available": without a fault, a message whose retry
\* job completed is stored.
RetryRecovers ==
    faults = 0 => \A e \in Event, n \in 1..MaxRetries :
        KindOf[e] = "message" /\ jobState[<<e, n>>] = "completed" => e \in stored

-----------------------------------------------------------------------------
(* The inductive invariant behind the two safety properties.               *)

\* A job is held by one worker slot at a time, and runs while it has attempts left.
JobsHeld ==
    /\ \A w \in Worker :
          worker[w].pc # "idle" => worker[w].job \in Job /\ jobState[worker[w].job] = "active"
    /\ \A v, w \in Worker :
          worker[v].pc # "idle" /\ worker[w].pc # "idle" /\ worker[v].job = worker[w].job
            => v = w
    /\ \A j \in Job : /\ tries[j] <= Attempts(j)
                      /\ Pending(j) => tries[j] < Attempts(j)
                      /\ jobState[j] = "none" => tries[j] = 0

\* An HTTP request that was answered has its event.
PostsHaveEvents == \A p \in Post : post[p].pc = "answered" => post[p].event \in Event

HandlerPC == WorkerPC \ {"idle", "get", "set"}
BeforeTouch == {"findContact", "createContact", "touch"}
WorksOn(w, pcs, e) == worker[w].pc \in pcs /\ EventAt(w) = e

\* As long as the key of e has not expired, one worker slot handles e, the one that set the
\* key, and a retry job of e comes after that.
HandledOnce(e) ==
    /\ e \notin seen => /\ touched[e] = 0
                        /\ \A n \in 1..MaxRetries : jobState[<<e, n>>] = "none"
    /\ \A w \in Worker : /\ WorksOn(w, {"set"}, e) => e \notin seen
                         /\ WorksOn(w, HandlerPC, e) => e \in seen
                         /\ WorksOn(w, BeforeTouch, e) => touched[e] = 0
    /\ \A v, w \in Worker : WorksOn(v, HandlerPC, e) /\ WorksOn(w, HandlerPC, e) => v = w
    /\ touched[e] <= 1

IInv ==
    /\ TypeOK
    /\ PostsHaveEvents
    /\ JobsHeld
    /\ \A e \in Event \ expired : HandledOnce(e)
    /\ UnreadAccounted
=============================================================================
