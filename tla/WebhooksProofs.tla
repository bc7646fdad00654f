--------------------------- MODULE WebhooksProofs ---------------------------
(***************************************************************************)
(* Theorems about Webhooks, for any people, events, HTTP requests and      *)
(* worker slots and any number of retries, expired keys and faults.        *)
(***************************************************************************)
EXTENDS Webhooks, FiniteSetTheorems, TLAPS

-----------------------------------------------------------------------------
(* Jobs and worker slots.                                                  *)

LEMMA JobParts ==
    /\ \A e \in Event, n \in 0..MaxRetries : /\ <<e, n>> \in Job
                                             /\ <<e, n>>[1] = e /\ <<e, n>>[2] = n
    /\ \A j \in Job : j[1] \in Event /\ j[2] \in 0..MaxRetries /\ j = <<j[1], j[2]>>
    /\ \A j \in Job : Attempts(j) \in {2, 3}
    /\ \A e \in Event, n \in 1..MaxRetries :
          /\ <<e, n>> \in Job /\ <<e, n>>[1] = e /\ <<e, n>>[2] = n
          /\ Attempts(<<e, n>>) = 2
<1>1. \A n \in 1..MaxRetries : n \in 0..MaxRetries /\ n # 0
  BY BoundsAreNat
<1>2. \A e \in Event, n \in 0..MaxRetries : <<e, n>> \in Job
  BY DEF Job
<1>3. \A e, n : <<e, n>>[1] = e /\ <<e, n>>[2] = n
  OBVIOUS
<1>4. \A j \in Job : j[1] \in Event /\ j[2] \in 0..MaxRetries /\ j = <<j[1], j[2]>>
  BY DEF Job
<1>5. \A j \in Job : Attempts(j) \in {2, 3}
  BY DEF Attempts
<1>6. \A e, n : n # 0 => Attempts(<<e, n>>) = 2
  BY <1>3 DEF Attempts
<1> QED
  BY <1>1, <1>2, <1>3, <1>4, <1>5, <1>6

\* Where a step leaves a worker slot: at another await, or free.
Moves(w, pc) ==
    /\ worker'[w].pc = pc /\ worker'[w].job = worker[w].job
    /\ \A v \in Worker \ {w} : worker'[v] = worker[v]
Frees(w) ==
    /\ worker'[w].pc = "idle"
    /\ \A v \in Worker \ {w} : worker'[v] = worker[v]

WorkerRecord == [pc: WorkerPC, job: Job \cup {NoJob}]

LEMMA WorkerMoves ==
    ASSUME TypeOK, NEW w \in Worker
    PROVE  /\ \A pc \in WorkerPC : Goto(w, pc) => /\ worker' \in [Worker -> WorkerRecord]
                                                  /\ Moves(w, pc)
           /\ Release(w) => worker' \in [Worker -> WorkerRecord] /\ Frees(w)
<1>1. worker \in [Worker -> WorkerRecord]
  BY DEF TypeOK, WorkerRecord
<1>2. ASSUME NEW pc \in WorkerPC, Goto(w, pc)
      PROVE  worker' \in [Worker -> WorkerRecord] /\ Moves(w, pc)
  BY <1>1, <1>2 DEF Goto, Moves, WorkerRecord
<1>3. ASSUME Release(w)
      PROVE  worker' \in [Worker -> WorkerRecord] /\ Frees(w)
  <2>1. IdleWorker \in WorkerRecord /\ IdleWorker.pc = "idle"
    BY DEF IdleWorker, WorkerRecord, WorkerPC
  <2> QED
    BY <1>1, <1>3, <2>1 DEF Release, Frees
<1> QED
  BY <1>2, <1>3

\* The job of a worker slot at work.
LEMMA JobOfWorker ==
    ASSUME TypeOK, JobsHeld, NEW w \in Worker, worker[w].pc # "idle"
    PROVE  /\ worker[w].job \in Job /\ jobState[worker[w].job] = "active"
           /\ EventAt(w) \in Event /\ SenderAt(w) \in Sender /\ KindAt(w) \in Kind
<1>1. worker[w].job \in Job /\ jobState[worker[w].job] = "active"
  BY DEF JobsHeld
<1>2. EventAt(w) \in Event
  BY <1>1, JobParts DEF EventAt
<1> QED
  BY <1>1, <1>2, EventsHaveKinds DEF SenderAt, KindAt

-----------------------------------------------------------------------------
(* The steps that only move worker slots and the inbox, by what they do to *)
(* the slot: the queue, the posts and the keys stay.                       *)

\* From one await of the handler to the next.
HandlerGoesOn(w, pc) ==
    /\ worker[w].pc \in HandlerPC /\ pc \in HandlerPC
    /\ pc \in BeforeTouch => worker[w].pc \in BeforeTouch
    /\ Goto(w, pc)
    /\ UNCHANGED <<post, queueVars, redisVars>>

\* The end of a job.
JobCompletes(w) ==
    /\ worker[w].pc # "idle"
    /\ Complete(w)
    /\ UNCHANGED <<post, tries, stalls, redisVars>>

LEMMA HandlerSteps ==
    ASSUME TypeOK, NEW w \in Worker
    PROVE  /\ FindContact(w) => /\ UNCHANGED <<inboxVars, faults>>
                                /\ At(w, "findContact")
                                /\ JobCompletes(w)
                                   \/ \E pc \in HandlerPC \ {"bump"} : HandlerGoesOn(w, pc)
           /\ FindConversation(w) \/ CheckConversation(w)
                => /\ UNCHANGED <<inboxVars, faults>>
                   /\ worker[w].pc \in {"findConversation", "checkConversation"}
                   /\ \E pc \in HandlerPC \ {"bump"} : HandlerGoesOn(w, pc)
           /\ CreateContact(w) \/ CreateConversation(w)
                => /\ UNCHANGED <<stored, touched, unread, cleared, faults>>
                   /\ worker[w].pc \in {"createContact", "createConversation"}
                   /\ \E pc \in HandlerPC \ {"bump"} : HandlerGoesOn(w, pc)
           /\ ProcessReferralData(w) => /\ UNCHANGED <<inboxVars, faults>>
                                        /\ At(w, "referral") /\ JobCompletes(w)
<1> USE DEF HandlerPC, BeforeTouch, WorkerPC, At
<1>1. ASSUME FindContact(w)
      PROVE  /\ UNCHANGED <<inboxVars, faults>> /\ At(w, "findContact")
             /\ JobCompletes(w) \/ \E pc \in HandlerPC \ {"bump"} : HandlerGoesOn(w, pc)
  <2>1. UNCHANGED <<inboxVars, faults, post, tries, stalls, redisVars>> /\ At(w, "findContact")
    BY <1>1 DEF FindContact
  <2>2. CASE Complete(w)
    BY <2>1, <2>2 DEF JobCompletes
  <2>3. CASE Goto(w, "createContact") /\ UNCHANGED jobState
    BY <2>1, <2>3 DEF HandlerGoesOn, queueVars
  <2>4. CASE Goto(w, "referral") /\ UNCHANGED jobState
    BY <2>1, <2>4 DEF HandlerGoesOn, queueVars
  <2>5. CASE Goto(w, "touch") /\ UNCHANGED jobState
    BY <2>1, <2>5 DEF HandlerGoesOn, queueVars
  <2> QED
    BY <1>1, <2>1, <2>2, <2>3, <2>4, <2>5 DEF FindContact
<1>2. ASSUME FindConversation(w) \/ CheckConversation(w)
      PROVE  /\ UNCHANGED <<inboxVars, faults>>
             /\ worker[w].pc \in {"findConversation", "checkConversation"}
             /\ \E pc \in HandlerPC \ {"bump"} : HandlerGoesOn(w, pc)
  <2>1. /\ UNCHANGED <<inboxVars, faults, post, queueVars, redisVars>>
        /\ worker[w].pc \in {"findConversation", "checkConversation"}
    BY <1>2 DEF FindConversation, CheckConversation
  <2>2. PICK pc \in {"store", "checkConversation", "createConversation"} : Goto(w, pc)
    BY <1>2 DEF FindConversation, CheckConversation
  <2> QED
    BY <2>1, <2>2 DEF HandlerGoesOn
<1>3. ASSUME CreateContact(w) \/ CreateConversation(w)
      PROVE  /\ UNCHANGED <<stored, touched, unread, cleared, faults>>
             /\ worker[w].pc \in {"createContact", "createConversation"}
             /\ \E pc \in HandlerPC \ {"bump"} : HandlerGoesOn(w, pc)
  <2>1. CASE CreateContact(w)
    <3>1. PICK pc \in {"catch", "referral", "touch"} : Goto(w, pc)
      BY <2>1 DEF CreateContact
    <3> QED
      BY <2>1, <3>1 DEF CreateContact, HandlerGoesOn
  <2>2. CASE CreateConversation(w)
    <3>1. PICK pc \in {"catch", "store"} : Goto(w, pc)
      BY <2>2 DEF CreateConversation
    <3> QED
      BY <2>2, <3>1 DEF CreateConversation, HandlerGoesOn
  <2> QED
    BY <1>3, <2>1, <2>2
<1>4. ASSUME ProcessReferralData(w)
      PROVE  UNCHANGED <<inboxVars, faults>> /\ At(w, "referral") /\ JobCompletes(w)
  BY <1>4 DEF ProcessReferralData, JobCompletes
<1> QED
  BY <1>1, <1>2, <1>3, <1>4

-----------------------------------------------------------------------------
(* The posts, the queue, the worker slots and the keys.                    *)

QueueOK ==
    /\ post \in [Post -> [pc: PostPC, event: Event \cup {NoEvent}]]
    /\ jobState \in [Job -> JobState]
    /\ tries \in [Job -> 0..3]
    /\ stalls \in [Job -> 0..MaxStalls]
    /\ worker \in [Worker -> WorkerRecord]
    /\ seen \subseteq Event /\ expired \subseteq Event
    /\ faults \in 0..MaxFaults
    /\ PostsHaveEvents
    /\ JobsHeld

LEMMA QueueOfInv ==
    ASSUME IInv
    PROVE  QueueOK /\ TypeOK
BY DEF IInv, QueueOK, TypeOK, WorkerRecord

\* Worker slots that leave a job leave it alone afterwards.
LEMMA HeldAgain ==
    ASSUME JobsHeld,
           \A v \in Worker : worker'[v].pc # "idle"
               => /\ worker[v].pc # "idle" /\ worker'[v].job = worker[v].job
                  /\ jobState'[worker[v].job] = "active",
           \A j \in Job : /\ tries'[j] <= Attempts(j)
                          /\ jobState'[j] \in {"waiting", "active"} => tries'[j] < Attempts(j)
                          /\ jobState'[j] = "none" => tries'[j] = 0
    PROVE  JobsHeld'
<1>1. \A w \in Worker : worker'[w].pc # "idle"
        => worker'[w].job \in Job /\ jobState'[worker'[w].job] = "active"
  BY DEF JobsHeld
<1>2. \A v, w \in Worker :
        worker'[v].pc # "idle" /\ worker'[w].pc # "idle" /\ worker'[v].job = worker'[w].job
          => v = w
  BY DEF JobsHeld
<1>3. \A j \in Job : Attempts(j)' = Attempts(j)
  BY DEF Attempts
<1> QED
  BY <1>1, <1>2, <1>3 DEF JobsHeld, Pending

\* One job changes its state, and no other worker slot holds it.
LEMMA OneJobChanges ==
    ASSUME QueueOK, NEW j \in Job, NEW state \in JobState, NEW n \in 0..3,
           jobState' = [jobState EXCEPT ![j] = state],
           tries' = [tries EXCEPT ![j] = n],
           n <= Attempts(j),
           state \in {"waiting", "active"} => n < Attempts(j),
           state = "none" => n = 0,
           \A v \in Worker : worker'[v].pc # "idle"
               => worker[v].pc # "idle" /\ worker'[v].job = worker[v].job /\ worker[v].job # j
    PROVE  jobState' \in [Job -> JobState] /\ tries' \in [Job -> 0..3] /\ JobsHeld'
<1>1. jobState \in [Job -> JobState] /\ tries \in [Job -> 0..3] /\ JobsHeld
  BY DEF QueueOK
<1>2. jobState' \in [Job -> JobState] /\ tries' \in [Job -> 0..3]
  BY <1>1
<1>3. /\ jobState'[j] = state /\ tries'[j] = n
      /\ \A k \in Job \ {j} : jobState'[k] = jobState[k] /\ tries'[k] = tries[k]
  BY <1>1
<1>4. \A k \in Job : /\ tries'[k] <= Attempts(k)
                     /\ jobState'[k] \in {"waiting", "active"} => tries'[k] < Attempts(k)
                     /\ jobState'[k] = "none" => tries'[k] = 0
  BY <1>1, <1>3 DEF JobsHeld, Pending
<1>5. \A v \in Worker : worker'[v].pc # "idle"
        => /\ worker[v].pc # "idle" /\ worker'[v].job = worker[v].job
           /\ jobState'[worker[v].job] = "active"
  BY <1>1, <1>3 DEF JobsHeld
<1> QED
  BY <1>1, <1>2, <1>4, <1>5, HeldAgain

LEMMA SameJobs ==
    ASSUME QueueOK, UNCHANGED <<jobState, tries>>,
           \A v \in Worker : worker'[v].pc # "idle"
               => worker[v].pc # "idle" /\ worker'[v].job = worker[v].job
    PROVE  JobsHeld'
<1>1. JobsHeld
  BY DEF QueueOK
<1>2. \A v \in Worker : worker'[v].pc # "idle"
        => /\ worker[v].pc # "idle" /\ worker'[v].job = worker[v].job
           /\ jobState'[worker[v].job] = "active"
  BY <1>1 DEF JobsHeld
<1>3. \A j \in Job : /\ tries'[j] <= Attempts(j)
                     /\ jobState'[j] \in {"waiting", "active"} => tries'[j] < Attempts(j)
                     /\ jobState'[j] = "none" => tries'[j] = 0
  BY <1>1 DEF JobsHeld, Pending
<1> QED
  BY <1>1, <1>2, <1>3, HeldAgain

LEMMA MovingKeepsQueue ==
    ASSUME IInv, NEW w \in Worker, worker[w].pc # "idle", NEW pc \in WorkerPC, Goto(w, pc),
           UNCHANGED <<post, queueVars, expired>>, seen' \subseteq Event,
           faults' \in 0..MaxFaults
    PROVE  QueueOK'
<1>1. QueueOK /\ worker' \in [Worker -> WorkerRecord] /\ Moves(w, pc)
  BY QueueOfInv, WorkerMoves
<1>2. UNCHANGED <<post, jobState, tries, stalls, expired>>
  BY DEF queueVars
<1>3. JobsHeld'
  BY <1>1, <1>2, SameJobs DEF Moves
<1> QED
  BY <1>1, <1>2, <1>3 DEF QueueOK, PostsHaveEvents

\* The slot is freed: its job ended, or waits for another attempt.
LEMMA FreeingKeepsQueue ==
    ASSUME IInv, NEW w \in Worker, worker[w].pc # "idle", Release(w),
           NEW state \in {"completed", "failed", "waiting"}, EndJob(w, state),
           \/ tries' = tries /\ state # "waiting"
           \/ /\ tries' = [tries EXCEPT ![worker[w].job] = @ + 1]
              /\ state = "waiting" => tries[worker[w].job] + 1 < Attempts(worker[w].job),
           UNCHANGED <<post, stalls, expired>>, seen' \subseteq Event,
           faults' \in 0..MaxFaults
    PROVE  QueueOK'
<1>1. QueueOK /\ worker' \in [Worker -> WorkerRecord] /\ Frees(w)
  BY QueueOfInv, WorkerMoves
<1>2. PICK j \in Job : j = worker[w].job /\ jobState[j] = "active"
  BY <1>1, QueueOfInv, JobOfWorker DEF QueueOK
<1>3. tries \in [Job -> 0..3] /\ tries[j] < Attempts(j) /\ Attempts(j) \in {2, 3}
  BY <1>1, <1>2, JobParts DEF QueueOK, JobsHeld, Pending
<1>4. PICK n \in 0..3 : /\ tries' = [tries EXCEPT ![j] = n]
                        /\ n <= Attempts(j)
                        /\ state = "waiting" => n < Attempts(j)
  <2>1. CASE tries' = tries /\ state # "waiting"
    <3>1. tries' = [tries EXCEPT ![j] = tries[j]]
      BY <1>3, <2>1
    <3> QED
      BY <1>3, <2>1, <3>1
  <2>2. CASE tries' # tries
    <3>1. tries' = [tries EXCEPT ![j] = tries[j] + 1]
      BY <1>2, <2>2
    <3>2. tries[j] + 1 \in 0..3 /\ tries[j] + 1 <= Attempts(j)
      BY <1>2, <1>3
    <3> QED
      BY <1>2, <2>2, <3>1, <3>2
  <2> QED
    BY <1>2, <1>3, <2>1, <2>2
<1>5. jobState' = [jobState EXCEPT ![j] = state] /\ state \in JobState
  BY <1>2 DEF EndJob, JobState
<1>6. \A v \in Worker : worker'[v].pc # "idle"
        => worker[v].pc # "idle" /\ worker'[v].job = worker[v].job /\ worker[v].job # j
  BY <1>1, <1>2 DEF Frees, QueueOK, JobsHeld
<1>7. jobState' \in [Job -> JobState] /\ tries' \in [Job -> 0..3] /\ JobsHeld'
  BY <1>1, <1>4, <1>5, <1>6, OneJobChanges
<1> QED
  BY <1>1, <1>7 DEF QueueOK, PostsHaveEvents

LEMMA HandlerKeepsQueue ==
    ASSUME IInv, NEW w \in Worker, faults' \in 0..MaxFaults
    PROVE  /\ \A pc \in HandlerPC : HandlerGoesOn(w, pc) => QueueOK'
           /\ JobCompletes(w) => QueueOK'
<1>1. seen \subseteq Event
  BY DEF IInv, TypeOK
<1>2. ASSUME NEW pc \in HandlerPC, HandlerGoesOn(w, pc)
      PROVE  QueueOK'
  <2>1. worker[w].pc # "idle" /\ pc \in WorkerPC
    BY <1>2 DEF HandlerGoesOn, HandlerPC
  <2> QED
    BY <1>1, <1>2, <2>1, MovingKeepsQueue DEF HandlerGoesOn, redisVars
<1>3. ASSUME JobCompletes(w)
      PROVE  QueueOK'
  BY <1>1, <1>3, FreeingKeepsQueue DEF JobCompletes, Complete, redisVars
<1> QED
  BY <1>2, <1>3

LEMMA PostsKeepQueue ==
    ASSUME IInv, NEW p \in Post,
           (\E e \in Event : Answer(p, e)) \/ ProcessEntry(p) \/ PostFails(p)
    PROVE  QueueOK'
<1>1. QueueOK /\ TypeOK /\ post \in [Post -> [pc: PostPC, event: Event \cup {NoEvent}]]
  BY QueueOfInv DEF QueueOK
<1>2. UNCHANGED <<tries, stalls, worker, seen, expired>>
  BY DEF Answer, ProcessEntry, PostFails, queueVars, redisVars
<1>3. faults' \in 0..MaxFaults
  BY <1>1, BoundsAreNat DEF Answer, ProcessEntry, PostFails, Fault, QueueOK
<1>4. /\ post' \in [Post -> [pc: PostPC, event: Event \cup {NoEvent}]]
      /\ \A q \in Post : post'[q].pc = "answered" => post'[q].event \in Event
  <2>1. \A q \in Post : post[q].pc = "answered" => post[q].event \in Event
    BY <1>1 DEF QueueOK, PostsHaveEvents
  <2>2. ASSUME NEW e \in Event, Answer(p, e)
        PROVE  /\ post' \in [Post -> [pc: PostPC, event: Event \cup {NoEvent}]]
               /\ \A q \in Post : post'[q].pc = "answered" => post'[q].event \in Event
    BY <1>1, <2>1, <2>2 DEF Answer, PostPC
  <2>3. CASE post' = [post EXCEPT ![p].pc = "done"]
    <3>1. post' \in [Post -> [pc: PostPC, event: Event \cup {NoEvent}]]
      BY <1>1, <2>3 DEF PostPC
    <3>2. post'[p].pc = "done" /\ \A q \in Post \ {p} : post'[q] = post[q]
      BY <1>1, <2>3
    <3> QED
      BY <2>1, <3>1, <3>2
  <2> QED
    BY <2>2, <2>3 DEF ProcessEntry, PostFails
<1>5. jobState' \in [Job -> JobState] /\ JobsHeld'
  <2>1. CASE jobState' = jobState
    BY <1>1, <1>2, <2>1, SameJobs DEF QueueOK
  <2>2. CASE jobState' # jobState
    <3>1. ProcessEntry(p)
      BY <2>2 DEF Answer, PostFails, queueVars
    <3>2. PICK j \in Job : j = <<post[p].event, 0>>
      BY <1>1, <3>1, JobParts, BoundsAreNat DEF ProcessEntry, QueueOK, PostsHaveEvents
    <3>3. jobState' = [jobState EXCEPT ![j] = IF @ = "none" THEN "waiting" ELSE @]
      BY <3>1, <3>2 DEF ProcessEntry
    <3>4. jobState \in [Job -> JobState] /\ tries \in [Job -> 0..3]
      BY <1>1 DEF QueueOK
    <3>5. jobState[j] = "none" /\ jobState' = [jobState EXCEPT ![j] = "waiting"]
      BY <2>2, <3>3, <3>4
    <3>6. tries[j] = 0 /\ tries' = [tries EXCEPT ![j] = 0]
      BY <1>1, <1>2, <3>4, <3>5 DEF QueueOK, JobsHeld
    <3>7. \A v \in Worker : worker'[v].pc # "idle"
            => worker[v].pc # "idle" /\ worker'[v].job = worker[v].job /\ worker[v].job # j
      BY <1>1, <1>2, <3>5 DEF QueueOK, JobsHeld
    <3>8. "waiting" \in JobState /\ 0 \in 0..3 /\ 0 <= Attempts(j) /\ 0 < Attempts(j)
      BY JobParts DEF JobState
    <3> QED
      BY <1>1, <3>5, <3>6, <3>7, <3>8, OneJobChanges
  <2> QED
    BY <2>1, <2>2
<1> QED
  BY <1>1, <1>2, <1>3, <1>4, <1>5 DEF QueueOK, PostsHaveEvents

LEMMA TakeKeepsQueue ==
    ASSUME IInv, NEW w \in Worker, NEW j \in Job, Take(w, j)
    PROVE  QueueOK'
<1>1. QueueOK /\ worker \in [Worker -> WorkerRecord] /\ jobState \in [Job -> JobState]
  BY QueueOfInv DEF QueueOK
<1>2. UNCHANGED <<post, tries, stalls, seen, expired, faults>>
  BY DEF Take, redisVars
<1>3. /\ worker' \in [Worker -> WorkerRecord]
      /\ worker'[w].job = j /\ worker'[w].pc = "get"
      /\ \A v \in Worker \ {w} : worker'[v] = worker[v]
  BY <1>1 DEF Take, WorkerRecord, WorkerPC
<1>4. /\ jobState' \in [Job -> JobState]
      /\ jobState[j] = "waiting" /\ jobState'[j] = "active"
      /\ \A k \in Job \ {j} : jobState'[k] = jobState[k]
  BY <1>1 DEF Take, JobState
<1>5. JobsHeld
  BY <1>1 DEF QueueOK
<1>6. \A v \in Worker : worker[v].pc # "idle" => worker[v].job \in Job \ {j}
  BY <1>4, <1>5 DEF JobsHeld
<1>7. \A v \in Worker :
        worker'[v].pc # "idle" => worker'[v].job \in Job /\ jobState'[worker'[v].job] = "active"
  BY <1>3, <1>4, <1>5, <1>6 DEF JobsHeld
<1>8. \A v, u \in Worker :
        worker'[v].pc # "idle" /\ worker'[u].pc # "idle" /\ worker'[v].job = worker'[u].job
          => v = u
  BY <1>3, <1>5, <1>6 DEF JobsHeld
<1>9. \A k \in Job : /\ tries'[k] <= Attempts(k)
                     /\ jobState'[k] \in {"waiting", "active"} => tries'[k] < Attempts(k)
                     /\ jobState'[k] = "none" => tries'[k] = 0
  BY <1>2, <1>4, <1>5 DEF JobsHeld, Pending
<1>10. \A k : Attempts(k)' = Attempts(k)
  BY DEF Attempts
<1>11. JobsHeld'
  BY <1>7, <1>8, <1>9, <1>10 DEF JobsHeld, Pending
<1> QED
  BY <1>1, <1>2, <1>3, <1>4, <1>11 DEF QueueOK, PostsHaveEvents

LEMMA KeysKeepQueue ==
    ASSUME IInv, NEW w \in Worker, CheckDuplicate(w) \/ MarkSeen(w) \/ RedisFails(w)
    PROVE  QueueOK'
<1>1. QueueOK /\ TypeOK /\ seen \subseteq Event /\ faults \in 0..MaxFaults
  BY QueueOfInv DEF QueueOK
<1>2. worker[w].pc \in {"get", "set"}
  BY DEF CheckDuplicate, MarkSeen, RedisFails, At
<1>3. EventAt(w) \in Event /\ worker[w].job \in Job
  BY <1>1, <1>2, JobOfWorker DEF QueueOK
<1>4. CASE CheckDuplicate(w)
  <2>1. UNCHANGED <<post, tries, stalls, seen, expired, faults>>
    BY <1>4 DEF CheckDuplicate, redisVars
  <2>2. CASE Complete(w)
    BY <1>1, <1>2, <2>1, <2>2, FreeingKeepsQueue DEF Complete
  <2>3. CASE Goto(w, "set") /\ UNCHANGED jobState
    BY <1>1, <1>2, <2>1, <2>3, MovingKeepsQueue DEF queueVars, WorkerPC
  <2> QED
    BY <1>4, <2>2, <2>3 DEF CheckDuplicate
<1>5. CASE MarkSeen(w)
  BY <1>1, <1>2, <1>3, <1>5, MovingKeepsQueue DEF MarkSeen, WorkerPC
<1>6. CASE RedisFails(w)
  <2>1. seen' \subseteq Event /\ faults' \in 0..MaxFaults
    BY <1>1, <1>3, <1>6, BoundsAreNat DEF RedisFails, Fault
  <2>2. PICK state \in {"waiting", "failed"} :
            /\ EndJob(w, state)
            /\ state = "waiting" => tries[worker[w].job] + 1 < Attempts(worker[w].job)
    BY <1>6 DEF RedisFails
  <2>3. /\ Release(w) /\ UNCHANGED <<post, stalls, expired>>
        /\ tries' = [tries EXCEPT ![worker[w].job] = @ + 1]
    BY <1>6 DEF RedisFails
  <2> QED
    BY <1>2, <2>1, <2>2, <2>3, FreeingKeepsQueue
<1> QED
  BY <1>4, <1>5, <1>6

LEMMA CatchKeepsQueue ==
    ASSUME IInv, NEW w \in Worker, CatchError(w)
    PROVE  QueueOK'
<1>1. QueueOK /\ TypeOK /\ worker[w].pc # "idle"
  BY QueueOfInv DEF CatchError, At
<1>2. /\ jobState \in [Job -> JobState] /\ tries \in [Job -> 0..3]
      /\ stalls \in [Job -> 0..MaxStalls] /\ JobsHeld
  BY <1>1 DEF QueueOK
<1>3. PICK own \in Job : own = worker[w].job /\ jobState[own] = "active"
  BY <1>1, <1>2, JobOfWorker
<1>4. EventAt(w) \in Event
  BY <1>1, <1>2, JobOfWorker
<1>5. PICK n \in 1..MaxRetries :
          /\ <<EventAt(w), n>> = own \/ ~Pending(<<EventAt(w), n>>)
          /\ jobState' = [jobState EXCEPT ![own] = "completed", ![<<EventAt(w), n>>] = "waiting"]
          /\ tries' = [tries EXCEPT ![<<EventAt(w), n>>] = 0]
          /\ stalls' = [stalls EXCEPT ![<<EventAt(w), n>>] = 0]
  BY <1>3 DEF CatchError
<1>6. PICK retry \in Job : retry = <<EventAt(w), n>> /\ Attempts(retry) = 2
  BY <1>4, JobParts
<1>7. UNCHANGED <<post, seen, expired, faults>> /\ Release(w)
  BY DEF CatchError, redisVars
<1>8. worker' \in [Worker -> WorkerRecord] /\ Frees(w)
  BY <1>1, <1>7, WorkerMoves
<1>9. /\ jobState' \in [Job -> JobState] /\ jobState'[retry] = "waiting"
      /\ \A k \in Job \ {own, retry} : jobState'[k] = jobState[k]
      /\ own # retry => jobState'[own] = "completed"
  BY <1>2, <1>5, <1>6 DEF JobState
<1>10. /\ tries' \in [Job -> 0..3] /\ tries'[retry] = 0
       /\ \A k \in Job \ {retry} : tries'[k] = tries[k]
  BY <1>2, <1>5, <1>6
<1>11. stalls' \in [Job -> 0..MaxStalls]
  BY <1>2, <1>5, <1>6 DEF MaxStalls
<1>12. \A v \in Worker : worker'[v].pc # "idle"
         => /\ worker[v].pc # "idle" /\ worker'[v].job = worker[v].job
            /\ jobState'[worker[v].job] = "active"
  <2> SUFFICES ASSUME NEW v \in Worker, worker'[v].pc # "idle"
               PROVE  /\ worker[v].pc # "idle" /\ worker'[v].job = worker[v].job
                      /\ jobState'[worker[v].job] = "active"
    OBVIOUS
  <2>1. v # w /\ worker'[v] = worker[v]
    BY <1>8 DEF Frees
  <2>2. worker[v].job \in Job /\ jobState[worker[v].job] = "active" /\ worker[v].job # own
    BY <1>1, <1>2, <1>3, <2>1 DEF JobsHeld
  <2>3. worker[v].job # retry
    BY <1>5, <1>6, <2>2 DEF Pending
  <2> QED
    BY <1>9, <2>1, <2>2, <2>3
<1>13. \A k \in Job : /\ tries'[k] <= Attempts(k)
                      /\ jobState'[k] \in {"waiting", "active"} => tries'[k] < Attempts(k)
                      /\ jobState'[k] = "none" => tries'[k] = 0
  <2>1. tries'[retry] <= Attempts(retry) /\ tries'[retry] < Attempts(retry)
    BY <1>6, <1>10
  <2>2. \A k \in Job \ {retry} :
            /\ tries'[k] <= Attempts(k)
            /\ jobState'[k] \in {"waiting", "active"} => tries'[k] < Attempts(k)
            /\ jobState'[k] = "none" => tries'[k] = 0
    BY <1>2, <1>3, <1>9, <1>10 DEF JobsHeld, Pending
  <2> QED
    BY <1>9, <2>1, <2>2
<1>14. JobsHeld'
  BY <1>2, <1>12, <1>13, HeldAgain
<1> QED
  BY <1>1, <1>7, <1>8, <1>9, <1>10, <1>11, <1>14 DEF QueueOK, PostsHaveEvents

LEMMA RestKeepsQueue ==
    ASSUME IInv,
           (\E j \in Job : Stalled(j) \/ Remove(j)) \/ (\E e \in Event : Expire(e)) \/ Crash
    PROVE  QueueOK'
<1>1. /\ QueueOK /\ JobsHeld
      /\ jobState \in [Job -> JobState] /\ tries \in [Job -> 0..3]
      /\ stalls \in [Job -> 0..MaxStalls] /\ worker \in [Worker -> WorkerRecord]
  BY QueueOfInv DEF QueueOK
<1>2. ASSUME NEW j \in Job, Stalled(j)
      PROVE  QueueOK'
  <2>1. UNCHANGED <<post, tries, worker, seen, expired, faults>>
    BY <1>2 DEF Stalled, redisVars
  <2>2. PICK state \in {"waiting", "failed"} : jobState' = [jobState EXCEPT ![j] = state]
    BY <1>2 DEF Stalled
  <2>3. stalls' \in [Job -> 0..MaxStalls]
    <3>1. CASE stalls[j] < MaxStalls
      BY <1>1, <1>2, <3>1 DEF Stalled, MaxStalls
    <3>2. CASE ~(stalls[j] < MaxStalls)
      BY <1>1, <1>2, <3>2 DEF Stalled
    <3> QED
      BY <3>1, <3>2
  <2>4. PICK n \in 0..3 : n = tries[j]
    BY <1>1
  <2>5. n < Attempts(j) /\ tries' = [tries EXCEPT ![j] = n]
    BY <1>1, <1>2, <2>1, <2>4 DEF Stalled, Orphaned, JobsHeld, Pending
  <2>6. \A v \in Worker : worker[v].job # j
    BY <1>2 DEF Stalled, Orphaned
  <2>7. n <= Attempts(j) /\ state \in JobState
    BY <2>5, JobParts DEF JobState
  <2>8. jobState' \in [Job -> JobState] /\ JobsHeld'
    BY <1>1, <2>1, <2>2, <2>5, <2>6, <2>7, OneJobChanges
  <2> QED
    BY <1>1, <2>1, <2>3, <2>8 DEF QueueOK, PostsHaveEvents
<1>3. ASSUME NEW j \in Job, Remove(j)
      PROVE  QueueOK'
  <2>1. UNCHANGED <<post, worker, seen, expired, faults>>
    BY <1>3 DEF Remove, redisVars
  <2>2. /\ jobState' = [jobState EXCEPT ![j] = "none"] /\ tries' = [tries EXCEPT ![j] = 0]
        /\ stalls' = [stalls EXCEPT ![j] = 0] /\ jobState[j] # "active"
    BY <1>3 DEF Remove, Ended
  <2>3. stalls' \in [Job -> 0..MaxStalls]
    BY <1>1, <2>2 DEF MaxStalls
  <2>4. \A v \in Worker : worker[v].pc # "idle" => worker[v].job # j
    BY <1>1, <2>2 DEF JobsHeld
  <2>5. 0 <= Attempts(j) /\ "none" \in JobState /\ 0 \in 0..3
    BY JobParts DEF JobState
  <2>6. jobState' \in [Job -> JobState] /\ tries' \in [Job -> 0..3] /\ JobsHeld'
    BY <1>1, <2>1, <2>2, <2>4, <2>5, OneJobChanges
  <2> QED
    BY <1>1, <2>1, <2>3, <2>6 DEF QueueOK, PostsHaveEvents
<1>4. ASSUME NEW e \in Event, Expire(e)
      PROVE  QueueOK'
  <2>1. UNCHANGED <<post, jobState, tries, stalls, worker, faults>>
    BY <1>4 DEF Expire, queueVars
  <2>2. seen' \subseteq Event /\ expired' \subseteq Event
    BY <1>1, <1>4 DEF Expire, QueueOK
  <2>3. JobsHeld'
    BY <1>1, <2>1, SameJobs
  <2> QED
    BY <1>1, <2>1, <2>2, <2>3 DEF QueueOK, PostsHaveEvents
<1>5. CASE Crash
  <2>1. UNCHANGED <<jobState, tries, stalls, seen, expired>>
    BY <1>5 DEF Crash, queueVars, redisVars
  <2>2. /\ worker' \in [Worker -> WorkerRecord]
        /\ \A v \in Worker : worker'[v].pc = "idle"
    BY <1>5 DEF Crash, IdleWorker, WorkerRecord, WorkerPC
  <2>3. faults' \in 0..MaxFaults
    BY <1>1, <1>5, BoundsAreNat DEF Crash, Fault, QueueOK
  <2>4. ASSUME NEW p \in Post
        PROVE  /\ post'[p] \in [pc: PostPC, event: Event \cup {NoEvent}]
               /\ post'[p].pc # "answered"
    <3>1. post[p] \in [pc: PostPC, event: Event \cup {NoEvent}]
      BY <1>1 DEF QueueOK
    <3>2. CASE post[p].pc = "answered"
      BY <1>5, <3>1, <3>2 DEF Crash, PostPC
    <3>3. CASE post[p].pc # "answered"
      BY <1>5, <3>1, <3>3 DEF Crash
    <3> QED
      BY <3>2, <3>3
  <2>5. post' \in [Post -> [pc: PostPC, event: Event \cup {NoEvent}]]
    BY <1>5, <2>4 DEF Crash
  <2>6. JobsHeld'
    BY <1>1, <2>1, <2>2, SameJobs
  <2> QED
    BY <1>1, <2>1, <2>2, <2>3, <2>4, <2>5, <2>6 DEF QueueOK, PostsHaveEvents
<1> QED
  BY <1>2, <1>3, <1>4, <1>5

-----------------------------------------------------------------------------
(* An event is handled once as long as its key has not expired.            *)

\* A step that leaves the key and the count of e alone, queues no first retry of it and puts
\* no worker slot further on it.
LEMMA OnceAgain ==
    ASSUME NEW e \in Event, HandledOnce(e),
           e \in seen' <=> e \in seen, touched'[e] = touched[e],
           e \notin seen => \A n \in 1..MaxRetries :
               jobState[<<e, n>>] = "none" => jobState'[<<e, n>>] = "none",
           \A v \in Worker : /\ WorksOn(v, {"set"}, e)' => WorksOn(v, {"set"}, e)
                             /\ WorksOn(v, HandlerPC, e)' => WorksOn(v, HandlerPC, e)
                             /\ WorksOn(v, BeforeTouch, e)' => WorksOn(v, BeforeTouch, e)
    PROVE  HandledOnce(e)'
BY DEF HandledOnce

\* Slots that stay, move within the handler or are freed.
LEMMA NotFurther ==
    ASSUME NEW w \in Worker, NEW e,
           \A v \in Worker \ {w} : worker'[v] = worker[v],
           \/ worker'[w].pc \in {"idle", "get"}
           \/ /\ worker'[w].job = worker[w].job
              /\ worker[w].pc \in HandlerPC /\ worker'[w].pc \in HandlerPC
              /\ worker'[w].pc \in BeforeTouch => worker[w].pc \in BeforeTouch
           \/ worker'[w].job = worker[w].job /\ EventAt(w) # e
    PROVE  \A v \in Worker : /\ WorksOn(v, {"set"}, e)' => WorksOn(v, {"set"}, e)
                             /\ WorksOn(v, HandlerPC, e)' => WorksOn(v, HandlerPC, e)
                             /\ WorksOn(v, BeforeTouch, e)' => WorksOn(v, BeforeTouch, e)
<1>1. \A v \in Worker \ {w} : /\ WorksOn(v, {"set"}, e)' => WorksOn(v, {"set"}, e)
                              /\ WorksOn(v, HandlerPC, e)' => WorksOn(v, HandlerPC, e)
                              /\ WorksOn(v, BeforeTouch, e)' => WorksOn(v, BeforeTouch, e)
  BY DEF WorksOn, EventAt
<1>2. "idle" \notin HandlerPC /\ "get" \notin HandlerPC /\ "set" \notin HandlerPC
  BY DEF HandlerPC
<1>3. "idle" \notin BeforeTouch /\ "get" \notin BeforeTouch
  BY DEF BeforeTouch
<1>4. /\ WorksOn(w, {"set"}, e)' => WorksOn(w, {"set"}, e)
      /\ WorksOn(w, HandlerPC, e)' => WorksOn(w, HandlerPC, e)
      /\ WorksOn(w, BeforeTouch, e)' => WorksOn(w, BeforeTouch, e)
  BY <1>2, <1>3 DEF WorksOn, EventAt
<1> QED
  BY <1>1, <1>4

\* Before the key is set there is one job of the event, so one worker slot.
LEMMA OneSlotBeforeTheKey ==
    ASSUME IInv, NEW e \in Event \ expired, e \notin seen, NEW v \in Worker, NEW w \in Worker,
           worker[v].pc # "idle", worker[w].pc # "idle", EventAt(v) = e, EventAt(w) = e
    PROVE  v = w
<1>1. HandledOnce(e) /\ JobsHeld
  BY DEF IInv
<1>2. \A n \in 1..MaxRetries : jobState[<<e, n>>] = "none"
  BY <1>1 DEF HandledOnce
<1>3. ASSUME NEW u \in Worker, worker[u].pc # "idle", EventAt(u) = e
      PROVE  worker[u].job = <<e, 0>>
  <2>1. PICK j \in Job : j = worker[u].job /\ jobState[j] = "active"
    BY <1>1, <1>3 DEF JobsHeld
  <2>2. j = <<e, j[2]>> /\ j[2] \in 0..MaxRetries
    BY <1>3, <2>1, JobParts DEF EventAt
  <2>3. j[2] \notin 1..MaxRetries
    BY <1>2, <2>1, <2>2
  <2>4. j[2] = 0
    BY <2>2, <2>3, BoundsAreNat
  <2> QED
    BY <2>1, <2>2, <2>4
<1> QED
  BY <1>1, <1>3 DEF JobsHeld

LEMMA MovesKeepOnce ==
    ASSUME IInv, NEW w \in Worker, UNCHANGED <<seen, expired, touched>>
    PROVE  /\ \A pc \in HandlerPC : HandlerGoesOn(w, pc)
                => \A e \in Event \ expired : HandledOnce(e)'
           /\ JobCompletes(w) => \A e \in Event \ expired : HandledOnce(e)'
<1>1. TypeOK /\ JobsHeld /\ \A e \in Event \ expired : HandledOnce(e)
  BY DEF IInv
<1>2. ASSUME NEW pc \in HandlerPC, HandlerGoesOn(w, pc), NEW e \in Event \ expired
      PROVE  HandledOnce(e)'
  <2>1. Moves(w, pc) /\ UNCHANGED jobState
    BY <1>1, <1>2, WorkerMoves DEF HandlerGoesOn, HandlerPC, queueVars
  <2>2. \A v \in Worker : /\ WorksOn(v, {"set"}, e)' => WorksOn(v, {"set"}, e)
                          /\ WorksOn(v, HandlerPC, e)' => WorksOn(v, HandlerPC, e)
                          /\ WorksOn(v, BeforeTouch, e)' => WorksOn(v, BeforeTouch, e)
    BY <1>2, <2>1, NotFurther DEF HandlerGoesOn, Moves
  <2> QED
    BY <1>1, <2>1, <2>2, OnceAgain
<1>3. ASSUME JobCompletes(w), NEW e \in Event \ expired
      PROVE  HandledOnce(e)'
  <2>1. Frees(w)
    BY <1>1, <1>3, WorkerMoves DEF JobCompletes, Complete
  <2>2. PICK own \in Job : /\ jobState[own] = "active"
                           /\ jobState' = [jobState EXCEPT ![own] = "completed"]
    BY <1>1, <1>3, JobOfWorker DEF JobCompletes, Complete, EndJob
  <2>3. \A n \in 1..MaxRetries : jobState[<<e, n>>] = "none" => jobState'[<<e, n>>] = "none"
    BY <1>1, <2>2, JobParts DEF TypeOK
  <2>4. \A v \in Worker : /\ WorksOn(v, {"set"}, e)' => WorksOn(v, {"set"}, e)
                          /\ WorksOn(v, HandlerPC, e)' => WorksOn(v, HandlerPC, e)
                          /\ WorksOn(v, BeforeTouch, e)' => WorksOn(v, BeforeTouch, e)
    BY <2>1, NotFurther DEF Frees
  <2> QED
    BY <1>1, <2>3, <2>4, OnceAgain
<1> QED
  BY <1>2, <1>3

LEMMA MarkSeenKeepsOnce ==
    ASSUME IInv, NEW w \in Worker, MarkSeen(w), NEW e \in Event \ expired
    PROVE  HandledOnce(e)'
<1>1. TypeOK /\ JobsHeld /\ HandledOnce(e)
  BY DEF IInv
<1>2. /\ worker[w].pc = "set" /\ Moves(w, "findContact")
      /\ seen' = seen \cup {EventAt(w)} /\ UNCHANGED <<jobState, touched>>
  BY <1>1, WorkerMoves DEF MarkSeen, At, WorkerPC, queueVars, inboxVars
<1>3. CASE EventAt(w) # e
  <2>1. \A v \in Worker : /\ WorksOn(v, {"set"}, e)' => WorksOn(v, {"set"}, e)
                          /\ WorksOn(v, HandlerPC, e)' => WorksOn(v, HandlerPC, e)
                          /\ WorksOn(v, BeforeTouch, e)' => WorksOn(v, BeforeTouch, e)
    BY <1>2, <1>3, NotFurther DEF Moves
  <2> QED
    BY <1>1, <1>2, <1>3, <2>1, OnceAgain
<1>4. CASE EventAt(w) = e
  <2>1. e \notin seen /\ touched[e] = 0
    BY <1>1, <1>2, <1>4 DEF HandledOnce, WorksOn
  <2>2. \A v \in Worker \ {w} : worker'[v].pc # "idle" => EventAt(v)' # e
    BY <1>2, <1>4, <2>1, OneSlotBeforeTheKey DEF Moves, EventAt
  <2>3. worker'[w].pc = "findContact" /\ e \in seen' /\ touched'[e] = 0
    BY <1>2, <1>4, <2>1 DEF Moves
  <2>4. "idle" \notin HandlerPC /\ "idle" \notin BeforeTouch
    BY DEF HandlerPC, BeforeTouch
  <2>5. \A v \in Worker, pcs \in {{"set"}, HandlerPC, BeforeTouch} :
            WorksOn(v, pcs, e)' => v = w
    BY <2>2, <2>4 DEF WorksOn
  <2>6. ~WorksOn(w, {"set"}, e)'
    BY <2>3 DEF WorksOn
  <2> QED
    BY <2>3, <2>5, <2>6 DEF HandledOnce
<1> QED
  BY <1>3, <1>4

LEMMA RedisFailsKeepsOnce ==
    ASSUME IInv, NEW w \in Worker, RedisFails(w), NEW e \in Event \ expired
    PROVE  HandledOnce(e)'
<1>1. TypeOK /\ JobsHeld /\ HandledOnce(e)
  BY DEF IInv
<1>2. /\ worker[w].pc \in {"get", "set"} /\ Frees(w) /\ UNCHANGED touched
      /\ seen' = seen \/ (worker[w].pc = "set" /\ seen' = seen \cup {EventAt(w)})
  BY <1>1, WorkerMoves DEF RedisFails, At, inboxVars
<1>3. \A v \in Worker : /\ WorksOn(v, {"set"}, e)' => WorksOn(v, {"set"}, e)
                        /\ WorksOn(v, HandlerPC, e)' => WorksOn(v, HandlerPC, e)
                        /\ WorksOn(v, BeforeTouch, e)' => WorksOn(v, BeforeTouch, e)
  BY <1>2, NotFurther DEF Frees
<1>4. CASE e \in seen' <=> e \in seen
  <2>1. PICK own \in Job : own = worker[w].job /\ jobState[own] = "active"
    BY <1>1, <1>2, JobOfWorker
  <2>2. PICK state \in {"waiting", "failed"} : jobState' = [jobState EXCEPT ![own] = state]
    BY <2>1 DEF RedisFails, EndJob
  <2>3. \A n \in 1..MaxRetries : jobState[<<e, n>>] = "none" => jobState'[<<e, n>>] = "none"
    BY <1>1, <2>1, <2>2, JobParts DEF TypeOK
  <2> QED
    BY <1>1, <1>2, <1>3, <1>4, <2>3, OnceAgain
<1>5. CASE ~(e \in seen' <=> e \in seen)
  <2>1. e \notin seen /\ e \in seen' /\ EventAt(w) = e /\ touched[e] = 0
    BY <1>1, <1>2, <1>5 DEF HandledOnce
  <2>2. \A v \in Worker \ {w} : worker'[v].pc # "idle" => EventAt(v)' # e
    BY <1>2, <2>1, OneSlotBeforeTheKey DEF Frees, EventAt
  <2>3. "idle" \notin HandlerPC /\ "idle" \notin BeforeTouch
    BY DEF HandlerPC, BeforeTouch
  <2>4. \A v \in Worker, pcs \in {{"set"}, HandlerPC, BeforeTouch} :
            ~WorksOn(v, pcs, e)'
    BY <1>2, <2>2, <2>3 DEF WorksOn, Frees
  <2> QED
    BY <1>2, <2>1, <2>4 DEF HandledOnce
<1> QED
  BY <1>4, <1>5

LEMMA TouchKeepsOnce ==
    ASSUME IInv, NEW w \in Worker, UpdateLastInteraction(w), NEW e \in Event \ expired
    PROVE  HandledOnce(e)'
<1>1. TypeOK /\ JobsHeld /\ HandledOnce(e)
  BY DEF IInv
<1>2. /\ worker[w].pc = "touch" /\ seen' = seen
      /\ touched' = [touched EXCEPT ![EventAt(w)] = @ + 1]
  BY DEF UpdateLastInteraction, At, redisVars
<1>3. \/ Frees(w) /\ jobState' = [jobState EXCEPT ![worker[w].job] = "completed"]
      \/ /\ \E pc \in {"findConversation", "referral"} : Moves(w, pc)
         /\ UNCHANGED jobState
  BY <1>1, WorkerMoves DEF UpdateLastInteraction, Complete, EndJob, WorkerPC
<1>4. worker[w].job \in Job /\ jobState[worker[w].job] = "active" /\ EventAt(w) \in Event
  BY <1>1, <1>2, JobOfWorker
<1>5. \A n \in 1..MaxRetries : jobState[<<e, n>>] = "none" => jobState'[<<e, n>>] = "none"
  BY <1>1, <1>3, <1>4, JobParts DEF TypeOK
<1>6. worker[w].pc \in HandlerPC /\ worker[w].pc \in BeforeTouch
  BY <1>2 DEF HandlerPC, BeforeTouch, WorkerPC
<1>7. \/ worker'[w].pc = "idle"
      \/ /\ worker'[w].job = worker[w].job /\ worker'[w].pc \in HandlerPC
         /\ worker'[w].pc \notin BeforeTouch
  BY <1>3 DEF Frees, Moves, HandlerPC, BeforeTouch, WorkerPC
<1>8. \A v \in Worker \ {w} : worker'[v] = worker[v]
  BY <1>3 DEF Frees, Moves
<1>9. \A v \in Worker : /\ WorksOn(v, {"set"}, e)' => WorksOn(v, {"set"}, e)
                        /\ WorksOn(v, HandlerPC, e)' => WorksOn(v, HandlerPC, e)
                        /\ WorksOn(v, BeforeTouch, e)' => WorksOn(v, BeforeTouch, e)
  BY <1>6, <1>7, <1>8, NotFurther
<1>10. CASE EventAt(w) # e
  <2>1. touched'[e] = touched[e]
    BY <1>1, <1>2, <1>10 DEF TypeOK
  <2> QED
    BY <1>1, <1>2, <1>5, <1>9, <2>1, OnceAgain
<1>11. CASE EventAt(w) = e
  <2>1. touched[e] = 0 /\ e \in seen /\ touched'[e] = 1
    BY <1>1, <1>2, <1>4, <1>6, <1>11 DEF HandledOnce, WorksOn, TypeOK
  <2>2. \A v \in Worker : ~WorksOn(v, BeforeTouch, e)'
    <3> SUFFICES ASSUME NEW v \in Worker, WorksOn(v, BeforeTouch, e)'
                 PROVE  FALSE
      OBVIOUS
    <3>1. v # w
      BY <1>7 DEF WorksOn, BeforeTouch
    <3>2. WorksOn(v, HandlerPC, e) /\ WorksOn(w, HandlerPC, e)
      BY <1>6, <1>9, <1>11 DEF WorksOn, HandlerPC, BeforeTouch, WorkerPC
    <3> QED
      BY <1>1, <3>1, <3>2 DEF HandledOnce
  <2> QED
    BY <1>1, <1>2, <1>9, <2>1, <2>2 DEF HandledOnce
<1> QED
  BY <1>10, <1>11

LEMMA CatchKeepsOnce ==
    ASSUME IInv, NEW w \in Worker, CatchError(w), NEW e \in Event \ expired
    PROVE  HandledOnce(e)'
<1>1. TypeOK /\ JobsHeld /\ HandledOnce(e)
  BY DEF IInv
<1>2. worker[w].pc = "catch" /\ Frees(w) /\ UNCHANGED <<seen, touched>>
  BY <1>1, WorkerMoves DEF CatchError, At, redisVars, inboxVars
<1>3. worker[w].job \in Job /\ jobState[worker[w].job] = "active" /\ EventAt(w) \in Event
  BY <1>1, <1>2, JobOfWorker
<1>4. PICK n \in 1..MaxRetries :
          jobState' = [jobState EXCEPT ![worker[w].job] = "completed",
                                       ![<<EventAt(w), n>>] = "waiting"]
  BY DEF CatchError
<1>5. ASSUME e \notin seen, NEW m \in 1..MaxRetries, jobState[<<e, m>>] = "none"
      PROVE  jobState'[<<e, m>>] = "none"
  <2>1. EventAt(w) # e
    BY <1>1, <1>2, <1>5 DEF HandledOnce, WorksOn, HandlerPC, WorkerPC
  <2>2. <<e, m>> # worker[w].job /\ <<e, m>> # <<EventAt(w), n>>
    BY <1>3, <1>5, <2>1
  <2> QED
    BY <1>1, <1>4, <1>5, <2>2, JobParts DEF TypeOK
<1>6. \A v \in Worker : /\ WorksOn(v, {"set"}, e)' => WorksOn(v, {"set"}, e)
                        /\ WorksOn(v, HandlerPC, e)' => WorksOn(v, HandlerPC, e)
                        /\ WorksOn(v, BeforeTouch, e)' => WorksOn(v, BeforeTouch, e)
  BY <1>2, NotFurther DEF Frees
<1> QED
  BY <1>1, <1>2, <1>5, <1>6, OnceAgain

LEMMA CheckKeepsOnce ==
    ASSUME IInv, NEW w \in Worker, CheckDuplicate(w), NEW e \in Event \ expired
    PROVE  HandledOnce(e)'
<1>1. TypeOK /\ JobsHeld /\ HandledOnce(e)
  BY DEF IInv
<1>2. worker[w].pc = "get" /\ UNCHANGED <<post, tries, stalls, seen, expired, touched>>
  BY DEF CheckDuplicate, At, redisVars, inboxVars
<1>3. CASE EventAt(w) \in seen
  <2>1. JobCompletes(w)
    BY <1>2, <1>3 DEF CheckDuplicate, JobCompletes, redisVars
  <2> QED
    BY <1>2, <2>1, MovesKeepOnce
<1>4. CASE EventAt(w) \notin seen
  <2>1. Moves(w, "set") /\ UNCHANGED jobState
    BY <1>1, <1>4, WorkerMoves DEF CheckDuplicate, WorkerPC
  <2>2. \A v \in Worker \ {w} : \A pcs : WorksOn(v, pcs, e)' => WorksOn(v, pcs, e)
    BY <2>1 DEF Moves, WorksOn, EventAt
  <2>3. /\ WorksOn(w, {"set"}, e)' => e \notin seen
        /\ ~WorksOn(w, HandlerPC, e)' /\ ~WorksOn(w, BeforeTouch, e)'
    BY <1>4, <2>1 DEF Moves, WorksOn, EventAt, HandlerPC, BeforeTouch
  <2> QED
    BY <1>1, <1>2, <2>1, <2>2, <2>3 DEF HandledOnce
<1> QED
  BY <1>3, <1>4

LEMMA RestKeepsOnce ==
    ASSUME IInv, NEW e \in Event \ expired', UNCHANGED touched,
           \/ \E p \in Post : (\E f \in Event : Answer(p, f)) \/ ProcessEntry(p) \/ PostFails(p)
           \/ \E w \in Worker, j \in Job : Take(w, j)
           \/ \E j \in Job : Stalled(j) \/ Remove(j)
           \/ \E f \in Event : Expire(f)
           \/ Crash
    PROVE  HandledOnce(e)'
<1>1. TypeOK /\ JobsHeld /\ PostsHaveEvents
  BY DEF IInv
<1>2. e \in Event \ expired /\ (e \in seen' <=> e \in seen)
  BY <1>1 DEF Answer, ProcessEntry, PostFails, Take, Stalled, Remove, Expire, Crash, redisVars,
              TypeOK
<1>3. HandledOnce(e)
  BY <1>2 DEF IInv
<1>4. jobState \in [Job -> JobState] /\ worker \in [Worker -> WorkerRecord]
  BY <1>1 DEF TypeOK, WorkerRecord
<1>5. ASSUME NEW n \in 1..MaxRetries, jobState[<<e, n>>] = "none"
      PROVE  jobState'[<<e, n>>] = "none"
  <2>1. <<e, n>> \in Job
    BY <1>2, JobParts
  <2>2. CASE jobState' = jobState
    BY <1>5, <2>2
  <2>3. ASSUME NEW p \in Post, ProcessEntry(p)
        PROVE  jobState'[<<e, n>>] = "none"
    <3>1. PICK j : j = <<post[p].event, 0>>
      OBVIOUS
    <3>2. j # <<e, n>>
      BY <3>1
    <3>3. jobState' = [jobState EXCEPT ![j] = IF @ = "none" THEN "waiting" ELSE @]
      BY <2>3, <3>1 DEF ProcessEntry
    <3> QED
      BY <1>4, <1>5, <2>1, <3>2, <3>3
  <2>4. ASSUME NEW w \in Worker, NEW j \in Job, Take(w, j)
        PROVE  jobState'[<<e, n>>] = "none"
    <3>1. jobState[j] = "waiting" /\ jobState' = [jobState EXCEPT ![j] = "active"]
      BY <2>4 DEF Take
    <3> QED
      BY <1>4, <1>5, <2>1, <3>1
  <2>5. ASSUME NEW j \in Job, Stalled(j)
        PROVE  jobState'[<<e, n>>] = "none"
    <3>1. PICK state \in {"waiting", "failed"} : jobState' = [jobState EXCEPT ![j] = state]
      BY <2>5 DEF Stalled
    <3>2. jobState[j] = "active"
      BY <2>5 DEF Stalled, Orphaned
    <3> QED
      BY <1>4, <1>5, <2>1, <3>1, <3>2
  <2>6. ASSUME NEW j \in Job, Remove(j)
        PROVE  jobState'[<<e, n>>] = "none"
    <3>1. jobState' = [jobState EXCEPT ![j] = "none"]
      BY <2>6 DEF Remove
    <3> QED
      BY <1>4, <1>5, <2>1, <3>1
  <2> QED
    BY <2>2, <2>3, <2>4, <2>5, <2>6 DEF Answer, PostFails, Expire, Crash, queueVars
<1>6. \A v \in Worker : \/ worker'[v] = worker[v]
                        \/ worker'[v].pc \in {"idle", "get"}
  <2>1. CASE worker' = worker
    BY <2>1
  <2>2. ASSUME NEW w \in Worker, NEW j \in Job, Take(w, j)
        PROVE  \A v \in Worker : worker'[v] = worker[v] \/ worker'[v].pc \in {"idle", "get"}
    BY <1>4, <2>2 DEF Take
  <2>3. CASE Crash
    BY <2>3 DEF Crash, IdleWorker
  <2> QED
    BY <2>1, <2>2, <2>3 DEF Answer, ProcessEntry, PostFails, Stalled, Remove, Expire
<1>7. \A v \in Worker : /\ WorksOn(v, {"set"}, e)' => WorksOn(v, {"set"}, e)
                        /\ WorksOn(v, HandlerPC, e)' => WorksOn(v, HandlerPC, e)
                        /\ WorksOn(v, BeforeTouch, e)' => WorksOn(v, BeforeTouch, e)
  BY <1>6 DEF WorksOn, EventAt, HandlerPC, BeforeTouch
<1> QED
  BY <1>2, <1>3, <1>5, <1>7, OnceAgain

-----------------------------------------------------------------------------
(* The inbox and its unread counts.                                        *)

InboxOK ==
    /\ contact \subseteq Sender
    /\ conversation \in [Sender -> ConversationStatus \cup {"NONE"}]
    /\ stored \subseteq Event
    /\ touched \in [Event -> Nat]
    /\ unread \in [Sender -> Nat] /\ cleared \in [Sender -> Nat]

LEMMA InvParts ==
    /\ IInv => InboxOK
    /\ QueueOK' /\ InboxOK' /\ (\A e \in Event \ expired' : HandledOnce(e)') /\ UnreadAccounted'
         => IInv'
BY DEF IInv, TypeOK, QueueOK, InboxOK, WorkerRecord

LEMMA UnreadCounts ==
    ASSUME InboxOK, NEW s \in Sender
    PROVE  /\ IsFiniteSet(BumpsDue(s)) /\ Cardinality(BumpsDue(s)) \in Nat
           /\ IsFiniteSet(MessagesOf(s)) /\ Cardinality(MessagesOf(s)) \in Nat
           /\ unread[s] \in Nat /\ cleared[s] \in Nat
<1>1. BumpsDue(s) \subseteq Worker /\ MessagesOf(s) \subseteq Event
  BY DEF BumpsDue, MessagesOf, InboxOK
<1>2. IsFiniteSet(BumpsDue(s)) /\ IsFiniteSet(MessagesOf(s))
  BY <1>1, FiniteSets, FS_Subset
<1> QED
  BY <1>2, FS_CardinalityType DEF InboxOK

\* Nothing is stored or counted; a message that was about to be counted may be lost to a
\* fault.
LEMMA UnreadAgain ==
    ASSUME InboxOK, InboxOK', UnreadAccounted, UNCHANGED stored,
           \A s \in Sender : unread'[s] + cleared'[s] = unread[s] + cleared[s],
           \A v \in Worker : worker'[v].pc = "bump" => worker'[v] = worker[v],
           faults' = 0 =>
               /\ faults = 0
               /\ \A v \in Worker : worker[v].pc = "bump" => worker'[v] = worker[v]
    PROVE  UnreadAccounted'
<1> SUFFICES ASSUME NEW s \in Sender
             PROVE  /\ unread'[s] + cleared'[s] + Cardinality(BumpsDue(s)')
                         <= Cardinality(MessagesOf(s)')
                    /\ faults' = 0 => unread'[s] + cleared'[s] + Cardinality(BumpsDue(s)')
                                        = Cardinality(MessagesOf(s)')
  BY DEF UnreadAccounted
<1>1. /\ unread[s] + cleared[s] + Cardinality(BumpsDue(s)) <= Cardinality(MessagesOf(s))
      /\ faults = 0 => unread[s] + cleared[s] + Cardinality(BumpsDue(s))
                         = Cardinality(MessagesOf(s))
  BY DEF UnreadAccounted
<1>2. MessagesOf(s)' = MessagesOf(s)
  BY DEF MessagesOf
<1>3. BumpsDue(s)' \subseteq BumpsDue(s)
  BY DEF BumpsDue, At, SenderAt, EventAt
<1>4. faults' = 0 => BumpsDue(s)' = BumpsDue(s)
  BY <1>3 DEF BumpsDue, At, SenderAt, EventAt
<1>5. /\ IsFiniteSet(BumpsDue(s)) /\ Cardinality(BumpsDue(s)) \in Nat
      /\ Cardinality(MessagesOf(s)) \in Nat
      /\ unread[s] \in Nat /\ cleared[s] \in Nat
  BY UnreadCounts
<1>6. Cardinality(BumpsDue(s)') <= Cardinality(BumpsDue(s)) /\ Cardinality(BumpsDue(s)') \in Nat
  BY <1>3, <1>5, FS_Subset, FS_CardinalityType
<1>7. unread'[s] + cleared'[s] = unread[s] + cleared[s]
  OBVIOUS
<1> QED
  BY <1>1, <1>2, <1>4, <1>5, <1>6, <1>7

LEMMA StoreKeepsUnread ==
    ASSUME IInv, NEW w \in Worker, StoreMessage(w)
    PROVE  UnreadAccounted' /\ InboxOK'
<1>1. TypeOK /\ JobsHeld /\ InboxOK /\ UnreadAccounted
  BY InvParts DEF IInv
<1>2. worker[w].pc = "store" /\ EventAt(w) \in Event /\ SenderAt(w) \in Sender
  BY <1>1, JobOfWorker DEF StoreMessage, At
<1>3. UNCHANGED <<contact, conversation, touched, unread, cleared, faults>>
  BY DEF StoreMessage
<1>4. stored' = stored \cup {EventAt(w)} /\ InboxOK'
  BY <1>1, <1>2, <1>3 DEF StoreMessage, InboxOK
<1>5. CASE EventAt(w) \in stored
  <2>1. Moves(w, "catch") /\ stored' = stored
    BY <1>1, <1>4, <1>5, WorkerMoves DEF StoreMessage, WorkerPC
  <2>2. \A v \in Worker : worker'[v].pc = "bump" \/ worker[v].pc = "bump"
          => worker'[v] = worker[v]
    BY <1>2, <2>1 DEF Moves
  <2>3. \A s \in Sender : unread'[s] + cleared'[s] = unread[s] + cleared[s]
    BY <1>3
  <2> QED
    BY <1>1, <1>3, <1>4, <2>1, <2>2, <2>3, UnreadAgain
<1>6. CASE EventAt(w) \notin stored
  <2>1. Moves(w, "bump")
    BY <1>1, <1>6, WorkerMoves DEF StoreMessage, WorkerPC
  <2> SUFFICES ASSUME NEW s \in Sender
               PROVE  /\ unread'[s] + cleared'[s] + Cardinality(BumpsDue(s)')
                           <= Cardinality(MessagesOf(s)')
                      /\ faults' = 0 => unread'[s] + cleared'[s] + Cardinality(BumpsDue(s)')
                                          = Cardinality(MessagesOf(s)')
    BY <1>4 DEF UnreadAccounted
  <2>2. /\ unread[s] + cleared[s] + Cardinality(BumpsDue(s)) <= Cardinality(MessagesOf(s))
        /\ faults = 0 => unread[s] + cleared[s] + Cardinality(BumpsDue(s))
                           = Cardinality(MessagesOf(s))
    BY <1>1 DEF UnreadAccounted
  <2>3. /\ IsFiniteSet(BumpsDue(s)) /\ Cardinality(BumpsDue(s)) \in Nat
        /\ IsFiniteSet(MessagesOf(s)) /\ Cardinality(MessagesOf(s)) \in Nat
        /\ unread[s] \in Nat /\ cleared[s] \in Nat
    BY <1>1, UnreadCounts
  <2>4. w \notin BumpsDue(s) /\ EventAt(w) \notin MessagesOf(s)
    BY <1>2, <1>6 DEF BumpsDue, At, MessagesOf
  <2>5. CASE s = SenderAt(w)
    <3>1. BumpsDue(s)' = BumpsDue(s) \cup {w}
      BY <2>1, <2>5 DEF BumpsDue, At, SenderAt, EventAt, Moves
    <3>2. MessagesOf(s)' = MessagesOf(s) \cup {EventAt(w)}
      BY <1>4, <2>5 DEF MessagesOf, SenderAt
    <3>3. Cardinality(BumpsDue(s)') = Cardinality(BumpsDue(s)) + 1
      BY <2>3, <2>4, <3>1, FS_AddElement
    <3>4. Cardinality(MessagesOf(s)') = Cardinality(MessagesOf(s)) + 1
      BY <2>3, <2>4, <3>2, FS_AddElement
    <3> QED
      BY <1>3, <2>2, <2>3, <3>3, <3>4
  <2>6. CASE s # SenderAt(w)
    <3>1. BumpsDue(s)' = BumpsDue(s)
      BY <1>2, <2>1, <2>6 DEF BumpsDue, At, SenderAt, EventAt, Moves
    <3>2. MessagesOf(s)' = MessagesOf(s)
      BY <1>4, <2>6 DEF MessagesOf, SenderAt
    <3> QED
      BY <1>3, <2>2, <3>1, <3>2
  <2> QED
    BY <2>5, <2>6
<1> QED
  BY <1>5, <1>6

LEMMA BumpKeepsUnread ==
    ASSUME IInv, NEW w \in Worker, BumpUnread(w)
    PROVE  UnreadAccounted' /\ InboxOK'
<1>1. TypeOK /\ JobsHeld /\ InboxOK /\ UnreadAccounted
  BY InvParts DEF IInv
<1>2. worker[w].pc = "bump" /\ SenderAt(w) \in Sender
  BY <1>1, JobOfWorker DEF BumpUnread, At
<1>3. UNCHANGED <<contact, conversation, stored, touched, cleared, faults>>
  BY DEF BumpUnread
<1>4. PICK z \in Sender : z = SenderAt(w)
  BY <1>2
<1>5. unread' = [unread EXCEPT ![z] = @ + 1] /\ Frees(w)
  BY <1>1, <1>4, WorkerMoves DEF BumpUnread, Complete
<1>6. InboxOK'
  BY <1>1, <1>3, <1>5 DEF InboxOK
<1>7. UnreadAccounted'
  <2> SUFFICES ASSUME NEW s \in Sender
               PROVE  /\ unread'[s] + cleared'[s] + Cardinality(BumpsDue(s)')
                           <= Cardinality(MessagesOf(s)')
                      /\ faults' = 0 => unread'[s] + cleared'[s] + Cardinality(BumpsDue(s)')
                                          = Cardinality(MessagesOf(s)')
    BY DEF UnreadAccounted
  <2>1. /\ unread[s] + cleared[s] + Cardinality(BumpsDue(s)) <= Cardinality(MessagesOf(s))
        /\ faults = 0 => unread[s] + cleared[s] + Cardinality(BumpsDue(s))
                           = Cardinality(MessagesOf(s))
    BY <1>1 DEF UnreadAccounted
  <2>2. /\ IsFiniteSet(BumpsDue(s)) /\ Cardinality(BumpsDue(s)) \in Nat
        /\ Cardinality(MessagesOf(s)) \in Nat
        /\ unread[s] \in Nat /\ cleared[s] \in Nat
    BY <1>1, UnreadCounts
  <2>3. MessagesOf(s)' = MessagesOf(s)
    BY <1>3 DEF MessagesOf
  <2>4. CASE s = z
    <3>1. BumpsDue(s)' = BumpsDue(s) \ {w} /\ w \in BumpsDue(s)
      BY <1>2, <1>4, <1>5, <2>4 DEF BumpsDue, At, SenderAt, EventAt, Frees
    <3>2. Cardinality(BumpsDue(s)') = Cardinality(BumpsDue(s)) - 1
      BY <2>2, <3>1, FS_RemoveElement
    <3>3. unread'[s] = unread[s] + 1
      BY <1>1, <1>5, <2>4 DEF InboxOK
    <3> QED
      BY <1>3, <2>1, <2>2, <2>3, <3>2, <3>3
  <2>5. CASE s # z
    <3>1. BumpsDue(s)' = BumpsDue(s)
      BY <1>2, <1>4, <1>5, <2>5 DEF BumpsDue, At, SenderAt, EventAt, Frees
    <3>2. unread'[s] = unread[s]
      BY <1>1, <1>5, <2>5 DEF InboxOK
    <3> QED
      BY <1>3, <2>1, <2>3, <3>1, <3>2
  <2> QED
    BY <2>4, <2>5
<1> QED
  BY <1>6, <1>7

LEMMA UsersKeepUnread ==
    ASSUME IInv, NEW s \in Sender, InboxStep(s)
    PROVE  UnreadAccounted' /\ InboxOK'
<1>1. InboxOK /\ UnreadAccounted
  BY InvParts DEF IInv
<1>2. UNCHANGED <<contact, stored, touched, worker, faults>>
  BY DEF InboxStep, SetStatus, MarkAsRead, EnsureConversation
<1>3. CASE MarkAsRead(s)
  <2>1. /\ unread' = [unread EXCEPT ![s] = 0]
        /\ cleared' = [cleared EXCEPT ![s] = @ + unread[s]] /\ UNCHANGED conversation
    BY <1>3 DEF MarkAsRead
  <2>2. unread \in [Sender -> Nat] /\ cleared \in [Sender -> Nat]
    BY <1>1 DEF InboxOK
  <2>3. unread' \in [Sender -> Nat] /\ cleared' \in [Sender -> Nat]
    BY <2>1, <2>2
  <2>4. \A z \in Sender : unread'[z] + cleared'[z] = unread[z] + cleared[z]
    BY <2>1, <2>2
  <2>5. InboxOK'
    BY <1>1, <1>2, <2>1, <2>3 DEF InboxOK
  <2> QED
    BY <1>1, <1>2, <2>4, <2>5, UnreadAgain
<1>4. CASE ~MarkAsRead(s)
  <2>1. UNCHANGED <<unread, cleared>>
    BY <1>4 DEF InboxStep, SetStatus, EnsureConversation
  <2>2. conversation' \in [Sender -> ConversationStatus \cup {"NONE"}]
    BY <1>1, <1>4 DEF InboxStep, SetStatus, EnsureConversation, InboxOK, ConversationStatus
  <2>3. InboxOK'
    BY <1>1, <1>2, <2>1, <2>2 DEF InboxOK
  <2>4. \A z \in Sender : unread'[z] + cleared'[z] = unread[z] + cleared[z]
    BY <2>1
  <2> QED
    BY <1>1, <1>2, <2>3, <2>4, UnreadAgain
<1> QED
  BY <1>3, <1>4

\* A step that neither stores nor counts a message, and takes no slot from "bump" without a
\* fault.
LEMMA MovesKeepUnread ==
    ASSUME IInv, NEW w \in Worker, UNCHANGED <<stored, unread, cleared>>,
           contact' \subseteq Sender, touched' \in [Event -> Nat],
           conversation' \in [Sender -> ConversationStatus \cup {"NONE"}],
           worker[w].pc # "bump" \/ faults' # 0, faults' = 0 => faults = 0,
           Frees(w) \/ \E pc \in WorkerPC \ {"bump"} : Moves(w, pc)
    PROVE  UnreadAccounted' /\ InboxOK'
<1>1. InboxOK /\ UnreadAccounted
  BY InvParts DEF IInv
<1>2. InboxOK'
  BY <1>1 DEF InboxOK
<1>3. worker'[w].pc # "bump" /\ \A v \in Worker \ {w} : worker'[v] = worker[v]
  BY DEF Frees, Moves
<1>4. \A s \in Sender : unread'[s] + cleared'[s] = unread[s] + cleared[s]
  OBVIOUS
<1>5. \A v \in Worker : worker'[v].pc = "bump" => worker'[v] = worker[v]
  BY <1>3
<1>6. faults' = 0 => /\ faults = 0
                     /\ \A v \in Worker : worker[v].pc = "bump" => worker'[v] = worker[v]
  BY <1>3
<1> QED
  BY <1>1, <1>2, <1>4, <1>5, <1>6, UnreadAgain

\* A step that leaves the inbox alone.
LEMMA RestKeepsUnread ==
    ASSUME IInv, UNCHANGED inboxVars, faults' = 0 => faults = 0,
           \/ UNCHANGED worker
           \/ \E w \in Worker, j \in Job : Take(w, j)
           \/ Crash
    PROVE  UnreadAccounted' /\ InboxOK'
<1>1. InboxOK /\ UnreadAccounted /\ worker \in [Worker -> WorkerRecord] /\ faults \in Nat
  BY InvParts, BoundsAreNat DEF IInv, TypeOK, WorkerRecord
<1>2. UNCHANGED <<contact, conversation, stored, touched, unread, cleared>>
  BY DEF inboxVars
<1>3. InboxOK'
  BY <1>1, <1>2 DEF InboxOK
<1>4. \A v \in Worker : worker'[v].pc = "bump" => worker'[v] = worker[v]
  <2>1. ASSUME NEW w \in Worker, NEW j \in Job, Take(w, j)
        PROVE  \A v \in Worker : worker'[v].pc = "bump" => worker'[v] = worker[v]
    BY <1>1, <2>1 DEF Take
  <2>2. CASE Crash
    BY <2>2 DEF Crash, IdleWorker
  <2> QED
    BY <2>1, <2>2
<1>5. faults' = 0 => /\ faults = 0
                     /\ \A v \in Worker : worker[v].pc = "bump" => worker'[v] = worker[v]
  <2>1. ASSUME NEW w \in Worker, NEW j \in Job, Take(w, j)
        PROVE  \A v \in Worker : worker[v].pc = "bump" => worker'[v] = worker[v]
    BY <1>1, <2>1 DEF Take, At
  <2>2. CASE Crash
    BY <1>1, <2>2 DEF Crash, Fault
  <2> QED
    BY <2>1, <2>2
<1>6. \A s \in Sender : unread'[s] + cleared'[s] = unread[s] + cleared[s]
  BY <1>2
<1> QED
  BY <1>1, <1>2, <1>3, <1>4, <1>5, <1>6, UnreadAgain

-----------------------------------------------------------------------------
(* The inductive invariant.                                                *)

LEMMA InitInv ==
    ASSUME Init
    PROVE  IInv
<1>1. TypeOK
  <2>1. post \in [Post -> [pc: PostPC, event: Event \cup {NoEvent}]]
    BY DEF Init, PostPC
  <2>2. jobState \in [Job -> JobState] /\ tries \in [Job -> 0..3]
        /\ stalls \in [Job -> 0..MaxStalls]
    BY DEF Init, JobState, MaxStalls
  <2>3. worker \in [Worker -> [pc: WorkerPC, job: Job \cup {NoJob}]]
    BY DEF Init, IdleWorker, WorkerPC
  <2>4. conversation \in [Sender -> ConversationStatus \cup {"NONE"}]
    BY DEF Init
  <2>5. /\ touched \in [Event -> Nat] /\ unread \in [Sender -> Nat]
        /\ cleared \in [Sender -> Nat] /\ faults \in 0..MaxFaults
    BY BoundsAreNat DEF Init
  <2>6. seen \subseteq Event /\ expired \subseteq Event /\ contact \subseteq Sender
        /\ stored \subseteq Event
    BY DEF Init
  <2> QED
    BY <2>1, <2>2, <2>3, <2>4, <2>5, <2>6 DEF TypeOK
<1>2. \A w \in Worker : worker[w].pc = "idle"
  BY DEF Init, IdleWorker
<1>3. PostsHaveEvents
  BY DEF PostsHaveEvents, Init
<1>4. JobsHeld
  <2>1. \A j \in Job : tries[j] = 0 /\ jobState[j] = "none" /\ 0 <= Attempts(j)
    BY JobParts DEF Init
  <2> QED
    BY <1>2, <2>1 DEF JobsHeld, Pending
<1>5. \A e \in Event : HandledOnce(e)
  <2>1. "idle" \notin HandlerPC /\ "idle" \notin BeforeTouch
    BY DEF HandlerPC, BeforeTouch
  <2>2. \A e \in Event : touched[e] = 0 /\ \A n \in 1..MaxRetries : jobState[<<e, n>>] = "none"
    BY JobParts DEF Init
  <2> QED
    BY <1>2, <2>1, <2>2 DEF HandledOnce, WorksOn
<1>6. UnreadAccounted
  <2>1. \A s \in Sender : BumpsDue(s) = {} /\ MessagesOf(s) = {}
    BY <1>2 DEF BumpsDue, At, MessagesOf, Init
  <2>2. Cardinality({}) = 0
    BY FS_EmptySet
  <2>3. \A s \in Sender : unread[s] = 0 /\ cleared[s] = 0
    BY DEF Init
  <2> QED
    BY <2>1, <2>2, <2>3 DEF UnreadAccounted
<1> QED
  BY <1>1, <1>3, <1>4, <1>5, <1>6 DEF IInv

LEMMA WorkersKeep ==
    ASSUME IInv, NEW w \in Worker, WorkerStep(w)
    PROVE  IInv'
<1>1. TypeOK /\ faults \in 0..MaxFaults /\ InboxOK
  BY InvParts DEF IInv, TypeOK
<1>2. ASSUME NEW j \in Job, Take(w, j)
      PROVE  IInv'
  <2>1. UNCHANGED <<seen, expired, inboxVars, faults>> /\ UNCHANGED touched
    BY <1>2 DEF Take, redisVars, inboxVars
  <2> QED
    BY <1>2, <2>1, TakeKeepsQueue, RestKeepsOnce, RestKeepsUnread, InvParts
<1>3. CASE CheckDuplicate(w)
  <2>1. UNCHANGED <<expired, contact, conversation, stored, touched, unread, cleared, faults>>
        /\ worker[w].pc = "get"
    BY <1>3 DEF CheckDuplicate, redisVars, inboxVars, At
  <2>2. Frees(w) \/ Moves(w, "set")
    BY <1>1, <1>3, WorkerMoves DEF CheckDuplicate, Complete, WorkerPC
  <2>3. UnreadAccounted' /\ InboxOK'
    BY <1>1, <2>1, <2>2, MovesKeepUnread DEF InboxOK, WorkerPC
  <2> QED
    BY <1>3, <2>1, <2>3, KeysKeepQueue, CheckKeepsOnce, InvParts
<1>4. CASE MarkSeen(w)
  <2>1. UNCHANGED <<expired, contact, conversation, stored, touched, unread, cleared, faults>>
        /\ worker[w].pc = "set"
    BY <1>4 DEF MarkSeen, inboxVars, At
  <2>2. Moves(w, "findContact")
    BY <1>1, <1>4, WorkerMoves DEF MarkSeen, WorkerPC
  <2>3. UnreadAccounted' /\ InboxOK'
    BY <1>1, <2>1, <2>2, MovesKeepUnread DEF InboxOK, WorkerPC
  <2> QED
    BY <1>4, <2>1, <2>3, KeysKeepQueue, MarkSeenKeepsOnce, InvParts
<1>5. ASSUME JobCompletes(w) \/ \E pc \in HandlerPC \ {"bump"} : HandlerGoesOn(w, pc),
             worker[w].pc # "bump", UNCHANGED <<stored, touched, unread, cleared, faults>>,
             contact' \subseteq Sender,
             conversation' \in [Sender -> ConversationStatus \cup {"NONE"}]
      PROVE  IInv'
  <2>1. Frees(w) \/ \E pc \in WorkerPC \ {"bump"} : Moves(w, pc)
    BY <1>1, <1>5, WorkerMoves DEF JobCompletes, Complete, HandlerGoesOn, HandlerPC
  <2>2. UNCHANGED <<seen, expired>>
    BY <1>5 DEF JobCompletes, HandlerGoesOn, redisVars
  <2>3. UnreadAccounted' /\ InboxOK'
    BY <1>1, <1>5, <2>1, MovesKeepUnread DEF InboxOK
  <2>4. QueueOK'
    BY <1>1, <1>5, HandlerKeepsQueue
  <2>5. \A e \in Event \ expired' : HandledOnce(e)'
    BY <1>5, <2>2, MovesKeepOnce
  <2> QED
    BY <2>3, <2>4, <2>5, InvParts
<1>6. CASE FindContact(w) \/ FindConversation(w) \/ CheckConversation(w)
           \/ ProcessReferralData(w)
  <2>1. /\ UNCHANGED <<inboxVars, faults>> /\ worker[w].pc # "bump"
        /\ JobCompletes(w) \/ \E pc \in HandlerPC \ {"bump"} : HandlerGoesOn(w, pc)
    BY <1>1, <1>6, HandlerSteps DEF At
  <2>2. UNCHANGED <<stored, touched, unread, cleared, faults, contact, conversation>>
    BY <2>1 DEF inboxVars
  <2> QED
    BY <1>1, <1>5, <2>1, <2>2 DEF InboxOK
<1>7. CASE CreateContact(w) \/ CreateConversation(w)
  <2>1. /\ UNCHANGED <<stored, touched, unread, cleared, faults>> /\ worker[w].pc # "bump"
        /\ worker[w].pc # "idle"
        /\ \E pc \in HandlerPC \ {"bump"} : HandlerGoesOn(w, pc)
    BY <1>1, <1>7, HandlerSteps
  <2>2. SenderAt(w) \in Sender
    BY <1>1, <2>1, JobOfWorker DEF IInv
  <2>3. contact' \subseteq Sender
        /\ conversation' \in [Sender -> ConversationStatus \cup {"NONE"}]
    BY <1>1, <1>7, <2>2 DEF CreateContact, CreateConversation, InboxOK, ConversationStatus
  <2> QED
    BY <1>5, <2>1, <2>3
<1>8. CASE UpdateLastInteraction(w)
  <2>1. /\ UNCHANGED <<contact, conversation, stored, unread, cleared, faults, expired>>
        /\ worker[w].pc = "touch" /\ touched' = [touched EXCEPT ![EventAt(w)] = @ + 1]
    BY <1>8 DEF UpdateLastInteraction, At, redisVars
  <2>2. touched' \in [Event -> Nat]
    <3>1. EventAt(w) \in Event
      BY <1>1, <2>1, JobOfWorker DEF IInv
    <3> QED
      BY <1>1, <2>1, <3>1 DEF InboxOK
  <2>3. JobCompletes(w) \/ \E pc \in HandlerPC \ {"bump"} : HandlerGoesOn(w, pc)
    <3>1. UNCHANGED <<post, tries, stalls, redisVars>>
      BY <1>8 DEF UpdateLastInteraction
    <3>2. CASE Complete(w)
      BY <2>1, <3>1, <3>2 DEF JobCompletes
    <3>3. ASSUME NEW pc \in {"findConversation", "referral"}, Goto(w, pc), UNCHANGED jobState
          PROVE  HandlerGoesOn(w, pc) /\ pc \in HandlerPC \ {"bump"}
      BY <2>1, <3>1, <3>3 DEF HandlerGoesOn, HandlerPC, BeforeTouch, WorkerPC, queueVars
    <3> QED
      BY <1>8, <3>2, <3>3 DEF UpdateLastInteraction
  <2>4. Frees(w) \/ \E pc \in WorkerPC \ {"bump"} : Moves(w, pc)
    BY <1>1, <2>3, WorkerMoves DEF JobCompletes, Complete, HandlerGoesOn, HandlerPC
  <2>5. UnreadAccounted' /\ InboxOK'
    BY <1>1, <2>1, <2>2, <2>4, MovesKeepUnread DEF InboxOK
  <2>6. QueueOK'
    BY <1>1, <2>1, <2>3, HandlerKeepsQueue
  <2> QED
    BY <1>8, <2>1, <2>5, <2>6, TouchKeepsOnce, InvParts
<1>9. CASE StoreMessage(w)
  <2>1. UNCHANGED <<touched, seen, expired, faults>>
    BY <1>9 DEF StoreMessage, redisVars
  <2>2. \E pc \in HandlerPC : HandlerGoesOn(w, pc)
    <3>1. PICK pc \in {"catch", "bump"} : Goto(w, pc)
      BY <1>9 DEF StoreMessage
    <3> QED
      BY <1>9, <3>1 DEF StoreMessage, HandlerGoesOn, HandlerPC, BeforeTouch, WorkerPC, At
  <2> QED
    BY <1>1, <1>9, <2>1, <2>2, HandlerKeepsQueue, MovesKeepOnce, StoreKeepsUnread, InvParts
<1>10. CASE BumpUnread(w)
  <2>1. UNCHANGED <<touched, seen, expired, faults>>
    BY <1>10 DEF BumpUnread, redisVars
  <2>2. JobCompletes(w)
    BY <1>10 DEF BumpUnread, JobCompletes, At
  <2> QED
    BY <1>1, <1>10, <2>1, <2>2, HandlerKeepsQueue, MovesKeepOnce, BumpKeepsUnread, InvParts
<1>11. CASE CatchError(w)
  <2>1. UNCHANGED <<expired, contact, conversation, stored, touched, unread, cleared, faults>>
        /\ worker[w].pc = "catch"
    BY <1>11 DEF CatchError, redisVars, inboxVars, At
  <2>2. Frees(w)
    BY <1>1, <1>11, WorkerMoves DEF CatchError
  <2>3. UnreadAccounted' /\ InboxOK'
    BY <1>1, <2>1, <2>2, MovesKeepUnread DEF InboxOK
  <2> QED
    BY <1>11, <2>1, <2>3, CatchKeepsQueue, CatchKeepsOnce, InvParts
<1> QED
  BY <1>2, <1>3, <1>4, <1>6, <1>7, <1>8, <1>9, <1>10, <1>11 DEF WorkerStep

LEMMA FaultsKeep ==
    ASSUME IInv, NEW w \in Worker, WorkerFault(w)
    PROVE  IInv'
<1>1. TypeOK /\ InboxOK
  BY InvParts DEF IInv
<1>2. faults' \in 0..MaxFaults /\ faults' # 0
  BY <1>1, BoundsAreNat DEF WorkerFault, HandlerFails, RedisFails, RetryFails, Fault, TypeOK
<1>3. UNCHANGED <<expired, contact, conversation, stored, touched, unread, cleared>>
  BY DEF WorkerFault, HandlerFails, RedisFails, RetryFails, redisVars, inboxVars
<1>4. ASSUME Frees(w) \/ \E pc \in WorkerPC \ {"bump"} : Moves(w, pc)
      PROVE  UnreadAccounted' /\ InboxOK'
  BY <1>1, <1>2, <1>3, <1>4, MovesKeepUnread DEF InboxOK
<1>5. CASE HandlerFails(w)
  <2>1. worker[w].pc \in HandlerPC
    BY <1>1, <1>5 DEF HandlerFails, HandlerPC, TypeOK
  <2>2. HandlerGoesOn(w, "catch") /\ "catch" \in HandlerPC /\ UNCHANGED seen
    BY <1>5, <2>1 DEF HandlerFails, HandlerGoesOn, HandlerPC, BeforeTouch, WorkerPC, redisVars
  <2>3. Moves(w, "catch") /\ "catch" \in WorkerPC \ {"bump"}
    BY <1>1, <2>2, WorkerMoves DEF HandlerGoesOn, WorkerPC
  <2> QED
    BY <1>2, <1>3, <1>4, <2>2, <2>3, HandlerKeepsQueue, MovesKeepOnce, InvParts
<1>6. CASE RedisFails(w)
  <2>1. Frees(w)
    BY <1>1, <1>6, WorkerMoves DEF RedisFails
  <2> QED
    BY <1>3, <1>4, <1>6, <2>1, KeysKeepQueue, RedisFailsKeepsOnce, InvParts
<1>7. CASE RetryFails(w)
  <2>1. JobCompletes(w) /\ UNCHANGED seen
    BY <1>7 DEF RetryFails, JobCompletes, At, redisVars
  <2>2. Frees(w)
    BY <1>1, <2>1, WorkerMoves DEF JobCompletes, Complete
  <2> QED
    BY <1>2, <1>3, <1>4, <2>1, <2>2, HandlerKeepsQueue, MovesKeepOnce, InvParts
<1> QED
  BY <1>5, <1>6, <1>7 DEF WorkerFault

LEMMA UsersKeep ==
    ASSUME IInv, NEW s \in Sender, InboxStep(s)
    PROVE  IInv'
<1>1. UNCHANGED <<post, queueVars, worker, redisVars, touched, faults>>
  BY DEF InboxStep, SetStatus, MarkAsRead, EnsureConversation
<1>2. UNCHANGED <<post, jobState, tries, stalls, worker, seen, expired, touched, faults>>
  BY <1>1 DEF queueVars, redisVars
<1>3. QueueOK
  BY QueueOfInv
<1>4. JobsHeld'
  BY <1>2, <1>3, SameJobs
<1>5. QueueOK'
  BY <1>2, <1>3, <1>4 DEF QueueOK, PostsHaveEvents
<1>6. ASSUME NEW e \in Event \ expired'
      PROVE  HandledOnce(e)'
  <2>1. HandledOnce(e)
    BY <1>2, <1>6 DEF IInv
  <2>2. \A v \in Worker : /\ WorksOn(v, {"set"}, e)' => WorksOn(v, {"set"}, e)
                          /\ WorksOn(v, HandlerPC, e)' => WorksOn(v, HandlerPC, e)
                          /\ WorksOn(v, BeforeTouch, e)' => WorksOn(v, BeforeTouch, e)
    BY <1>2 DEF WorksOn, EventAt
  <2> QED
    BY <1>2, <2>1, <2>2, OnceAgain
<1> QED
  BY <1>5, <1>6, UsersKeepUnread, InvParts

LEMMA NextKeeps ==
    ASSUME IInv, Next
    PROVE  IInv'
<1>1. faults \in Nat
  BY BoundsAreNat DEF IInv, TypeOK
<1>2. ASSUME NEW p \in Post,
             (\E e \in Event : Answer(p, e)) \/ ProcessEntry(p) \/ PostFails(p)
      PROVE  IInv'
  <2>1. UNCHANGED inboxVars /\ UNCHANGED worker /\ (faults' = 0 => faults = 0)
    BY <1>1, <1>2 DEF Answer, ProcessEntry, PostFails, Fault
  <2>2. UNCHANGED touched
    BY <2>1 DEF inboxVars
  <2> QED
    BY <1>2, <2>1, <2>2, PostsKeepQueue, RestKeepsOnce, RestKeepsUnread, InvParts
<1>3. ASSUME (\E j \in Job : Stalled(j) \/ Remove(j)) \/ (\E e \in Event : Expire(e)) \/ Crash
      PROVE  IInv'
  <2>1. UNCHANGED inboxVars /\ (faults' = 0 => faults = 0) /\ (UNCHANGED worker \/ Crash)
    BY <1>1, <1>3 DEF Stalled, Remove, Expire, Crash, Fault
  <2>2. UNCHANGED touched
    BY <2>1 DEF inboxVars
  <2> QED
    BY <1>3, <2>1, <2>2, RestKeepsQueue, RestKeepsOnce, RestKeepsUnread, InvParts
<1> QED
  BY <1>2, <1>3, WorkersKeep, FaultsKeep, UsersKeep DEF Next

LEMMA StutterKeeps ==
    ASSUME IInv, UNCHANGED vars
    PROVE  IInv'
<1>1. /\ UNCHANGED <<post, jobState, tries, stalls, worker, seen, expired, touched, faults>>
      /\ UNCHANGED inboxVars
  BY DEF vars, queueVars, redisVars, inboxVars
<1>2. QueueOK
  BY QueueOfInv
<1>3. QueueOK'
  BY <1>1, <1>2, SameJobs DEF QueueOK, PostsHaveEvents
<1>4. ASSUME NEW e \in Event \ expired'
      PROVE  HandledOnce(e)'
  <2>1. HandledOnce(e)
    BY <1>1, <1>4 DEF IInv
  <2>2. \A v \in Worker : /\ WorksOn(v, {"set"}, e)' => WorksOn(v, {"set"}, e)
                          /\ WorksOn(v, HandlerPC, e)' => WorksOn(v, HandlerPC, e)
                          /\ WorksOn(v, BeforeTouch, e)' => WorksOn(v, BeforeTouch, e)
    BY <1>1 DEF WorksOn, EventAt
  <2> QED
    BY <1>1, <2>1, <2>2, OnceAgain
<1> QED
  BY <1>1, <1>3, <1>4, RestKeepsUnread, InvParts

\* The inductive invariant holds in every state of every behaviour: who holds which job, which
\* slot has set which key, and what is counted of what is stored.
THEOREM WebhooksInvariance == Spec => []IInv
<1>1. Init => IInv
  BY InitInv
<1>2. IInv /\ [Next]_vars => IInv'
  BY NextKeeps, StutterKeeps
<1> QED
  BY <1>1, <1>2, PTL DEF Spec

-----------------------------------------------------------------------------
(* The theorems.                                                           *)

\* Every variable keeps its type: a job has no more attempts than its options give it.
THEOREM TypeCorrect == Spec => []TypeOK
<1>1. IInv => TypeOK
  BY DEF IInv
<1> QED
  BY <1>1, WebhooksInvariance, PTL

\* Until its key expires an event is counted as one interaction at most, however many worker
\* slots there are and whatever is posted again, run again after a crash or retried: the job's
\* id keeps the event to one slot until the key is set, and the key afterwards.
THEOREM CountedAtMostOnce == Spec => []AtMostOnce
<1>1. IInv => AtMostOnce
  BY DEF IInv, AtMostOnce, HandledOnce
<1> QED
  BY <1>1, WebhooksInvariance, PTL

\* No message is counted as unread that is not in the conversation, and without a fault every
\* stored message was counted once or is about to be, for any number of conversations and
\* worker slots and however the users of the inbox read in between.
THEOREM UnreadIsAccounted == Spec => []UnreadAccounted
<1>1. IInv => UnreadAccounted
  BY DEF IInv
<1> QED
  BY <1>1, WebhooksInvariance, PTL
=============================================================================
