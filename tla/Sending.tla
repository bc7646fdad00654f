------------------------------- MODULE Sending -------------------------------
(***************************************************************************)
(* Sending a message to one contact: the paths that share the Graph API    *)
(* (SendApiService, MessagesService, OtnService and                        *)
(* RecurringNotificationService), the message rows they leave, the         *)
(* one-time tokens and recurring subscriptions they spend, and the         *)
(* webhook events that change all three under them.                        *)
(*                                                                         *)
(* A send runs one await at a time.  Which sends the messaging window, a   *)
(* missing page or the conversation's unique key refuse is left open       *)
(* (Refused), and so is what the Graph API answers.                        *)
(***************************************************************************)
EXTENDS Integers, FiniteSets

CONSTANTS
    Send,          \* the sends ever asked for
    Token,         \* ids of otn_tokens rows of the contact
    Subscription,  \* its recurring_subscriptions rows, one per topic
    None,          \* the right of a send that spends none
    MaxPeriods,    \* bound: how often nextAllowedAt passes
    MaxFaults      \* bound: errors of the database and crashes

ASSUME SendsAreFinite == IsFiniteSet(Send)
ASSUME RightsDiffer == Token \cap Subscription = {} /\ None \notin Token \cup Subscription
ASSUME BoundsAreNat == MaxPeriods \in Nat /\ MaxFaults \in Nat

VARIABLES
    send,          \* where each send is
    row,           \* the message row of each send that the Graph API call is about
    note,          \* the inbox's own message row of a send (its status)
    token,         \* one-time tokens
    sub,           \* recurring subscriptions
    stamps,        \* how many rows have a sentAt
    faults

vars == <<send, row, note, token, sub, stamps, faults>>

Right == Token \cup Subscription
Kind == {"api", "inbox", "otn", "recurring", "request"}
PC == {"free", "ask", "note", "expire", "prepare", "graph", "sent", "spend", "also", "report",
       "done"}
MessageStatus == {"NONE", "PENDING", "SENT", "DELIVERED", "READ", "FAILED"}
SubscriptionStatus == {"NONE", "PENDING", "ACTIVE", "CANCELLED", "EXPIRED"}

\* `also` is the subscription of a send that spends a token before it.
\* `period` is the period of the subscription that the send was counted in.
FreeSend == [kind |-> "api", right |-> None, also |-> None, pc |-> "free", accepted |-> FALSE,
             ok |-> FALSE, period |-> 0]
NoRow == [status |-> "NONE", fbMessageId |-> FALSE, sentAt |-> 0]
NoToken == [state |-> "none", isUsed |-> FALSE]
\* `ready`: nextAllowedAt is null or has passed; `lapsed`: expiresAt has passed.
NoSubscription == [status |-> "NONE", ready |-> TRUE, lapsed |-> FALSE,
                   messagesSent |-> 0, periods |-> 0]

SendRecord == [kind: Kind, right: Right \cup {None}, also: Subscription \cup {None}, pc: PC,
               accepted: BOOLEAN, ok: BOOLEAN, period: 0..MaxPeriods]
RowRecord == [status: MessageStatus \ {"FAILED"}, fbMessageId: BOOLEAN,
              sentAt: 0..Cardinality(Send)]
TokenRecord == [state: {"none", "asked", "granted"}, isUsed: BOOLEAN]
SubRecord == [status: SubscriptionStatus, ready: BOOLEAN, lapsed: BOOLEAN,
              messagesSent: 0..Cardinality(Send), periods: 0..MaxPeriods]

TypeOK ==
    /\ send \in [Send -> SendRecord]
    /\ row \in [Send -> RowRecord]
    /\ note \in [Send -> MessageStatus]
    /\ token \in [Token -> TokenRecord]
    /\ sub \in [Subscription -> SubRecord]
    /\ stamps \in 0..Cardinality(Send)
    /\ faults \in 0..MaxFaults

Init ==
    /\ send = [s \in Send |-> FreeSend]
    /\ row = [s \in Send |-> NoRow]
    /\ note = [s \in Send |-> "NONE"]
    /\ token = [t \in Token |-> NoToken]
    /\ sub = [x \in Subscription |-> NoSubscription]
    /\ stamps = 0
    /\ faults = 0

rights == <<token, sub>>
rows == <<row, note, stamps>>

-----------------------------------------------------------------------------
(* How a send begins: what it reads before its first await returns.        *)

Begin(s, kind, x, y, pc) ==
    /\ send[s].pc = "free"
    /\ send' = [send EXCEPT ![s] = [FreeSend EXCEPT !.kind = kind, !.right = x, !.also = y,
                                                    !.pc = pc]]
    /\ UNCHANGED <<rows, rights, faults>>

Stored(x) == \/ x \in Token /\ token[x].state # "none"
             \/ x \in Subscription /\ sub[x].status # "NONE"

\* SendApiService takes the ids of a token and a subscription as they come, one of them or
\* both: it looks whether the contact has any unused one, not whether this one is unused or
\* opted in.
Named(x, y) == (x = None \/ Stored(x)) /\ (y = None \/ (x \in Token /\ Stored(y)))
BeginApi(s, x, y) == Named(x, y) /\ Begin(s, "api", x, y, "prepare")
BeginInbox(s, x, y) == Named(x, y) /\ Begin(s, "inbox", x, y, "note")

BeginOtn(s, t) ==
    /\ token[t].state = "granted"
    /\ ~token[t].isUsed
    /\ Begin(s, "otn", t, None, "prepare")

BeginRecurring(s, x) ==
    /\ sub[x].status = "ACTIVE"
    /\ sub[x].lapsed \/ sub[x].ready
    /\ Begin(s, "recurring", x, None, IF sub[x].lapsed THEN "expire" ELSE "prepare")

\* An invitation to opt in, which stores a row to be filled first.
BeginRequest(s, x) ==
    /\ x \in Token => token[x].state = "none"
    /\ x \in Subscription => sub[x].status # "ACTIVE"
    /\ Begin(s, "request", x, None, "ask")

-----------------------------------------------------------------------------
(* The awaits of a send.                                                   *)

Continue(s, next) == send' = [send EXCEPT ![s].pc = next]

\* The catch block returns a failure; only the inbox goes on, to mark its own row.
AfterFailure(s) == IF send[s].kind = "inbox" THEN "report" ELSE "done"

\* The unique key of a topic refuses a second subscription row.
Ask(s) ==
    LET x == send[s].right IN
    /\ send[s].pc = "ask"
    /\ \/ /\ x \in Token /\ token[x].state = "none"
          /\ token' = [token EXCEPT ![x].state = "asked"]
          /\ UNCHANGED sub
          /\ Continue(s, "prepare")
       \/ /\ x \in Subscription /\ sub[x].status = "NONE"
          /\ sub' = [sub EXCEPT ![x].status = "PENDING"]
          /\ UNCHANGED token
          /\ Continue(s, "prepare")
       \/ /\ Stored(x)
          /\ UNCHANGED rights
          /\ Continue(s, "done")
    /\ UNCHANGED <<rows, faults>>

\* Written whatever the status is by now.
WriteExpired(s) ==
    /\ send[s].pc = "expire"
    /\ sub' = [sub EXCEPT ![send[s].right].status = "EXPIRED"]
    /\ Continue(s, "done")
    /\ UNCHANGED <<rows, token, faults>>

StoreNote(s) ==
    /\ send[s].pc = "note"
    /\ note' = [note EXCEPT ![s] = "PENDING"]
    /\ Continue(s, "prepare")
    /\ UNCHANGED <<row, stamps, rights, faults>>

Refused(s) ==
    /\ send[s].pc = "prepare"
    /\ Continue(s, AfterFailure(s))
    /\ UNCHANGED <<rows, rights, faults>>

CreateRow(s) ==
    /\ send[s].pc = "prepare"
    /\ row' = [row EXCEPT ![s].status = "PENDING"]
    /\ Continue(s, "graph")
    /\ UNCHANGED <<note, stamps, rights, faults>>

\* useOtnToken and sendRecurringMessage spend their right first and store the
\* message after that; the Send API does it the other way around.
SpendsFirst(s) == send[s].kind \in {"otn", "recurring"}
SpendsLast(s) == send[s].kind \in {"api", "inbox"} /\ send[s].right # None

GraphAccepts(s) ==
    /\ send[s].pc = "graph"
    /\ send' = [send EXCEPT ![s].accepted = TRUE,
                            ![s].pc = IF SpendsFirst(s) THEN "spend" ELSE "sent"]
    /\ UNCHANGED <<rows, rights, faults>>

\* The row stays as it is: the error has no messageId.
GraphRefuses(s) ==
    /\ send[s].pc = "graph"
    /\ Continue(s, AfterFailure(s))
    /\ UNCHANGED <<rows, rights, faults>>

Succeed(s) == send' = [send EXCEPT ![s].ok = TRUE, ![s].pc = AfterFailure(s)]

WriteSent(s) ==
    /\ send[s].pc = "sent"
    /\ row' = [row EXCEPT ![s] = [status |-> "SENT", fbMessageId |-> TRUE,
                                  sentAt |-> stamps + 1]]
    /\ stamps' = stamps + 1
    /\ IF SpendsLast(s) THEN Continue(s, "spend") ELSE Succeed(s)
    /\ UNCHANGED <<note, rights, faults>>

AfterSpend(s) == IF SpendsFirst(s) THEN "sent"
                 ELSE IF send[s].also # None THEN "also" ELSE AfterFailure(s)

\* Mutant: the count is written where nextAllowedAt is, by the recurring sender only.
SpendUncounted(s) ==
    LET x == send[s].right IN
    /\ send[s].pc = "spend"
    /\ IF x \in Token
         THEN token' = [token EXCEPT ![x].isUsed = TRUE] /\ UNCHANGED sub
         ELSE /\ sub' = IF SpendsFirst(s) THEN [sub EXCEPT ![x].messagesSent = @ + 1,
                                                          ![x].ready = FALSE] ELSE sub
              /\ UNCHANGED token
    /\ send' = [send EXCEPT
                  ![s].period = IF x \in Subscription THEN sub[x].periods ELSE 0,
                  ![s].ok = ~SpendsFirst(s) /\ send[s].also = None,
                  ![s].pc = AfterSpend(s)]
    /\ UNCHANGED <<rows, faults>>

\* Only sendRecurringMessage moves nextAllowedAt.
Spend(s) ==
    LET x == send[s].right IN
    /\ send[s].pc = "spend"
    /\ IF x \in Token
         THEN token' = [token EXCEPT ![x].isUsed = TRUE] /\ UNCHANGED sub
         ELSE /\ sub' = [sub EXCEPT ![x].messagesSent = @ + 1,
                                    ![x].ready = @ /\ ~SpendsFirst(s)]
              /\ UNCHANGED token
    /\ send' = [send EXCEPT
                  ![s].period = IF x \in Subscription THEN sub[x].periods ELSE 0,
                  ![s].ok = ~SpendsFirst(s) /\ send[s].also = None,
                  ![s].pc = AfterSpend(s)]
    /\ UNCHANGED <<rows, faults>>

\* The subscription of a send that has spent its token.
SpendAlso(s) ==
    /\ send[s].pc = "also"
    /\ sub' = [sub EXCEPT ![send[s].also].messagesSent = @ + 1]
    /\ Succeed(s)
    /\ UNCHANGED <<rows, token, faults>>

\* The inbox stores the answer in its own row, with the same fbMessageId: if the Send
\* API's row has it already, the unique key refuses it and the catch block writes FAILED.
Report(s) ==
    /\ send[s].pc = "report"
    /\ note' = [note EXCEPT ![s] = IF send[s].ok /\ ~row[s].fbMessageId THEN "SENT"
                                                                       ELSE "FAILED"]
    /\ Continue(s, "done")
    /\ UNCHANGED <<row, stamps, rights, faults>>

-----------------------------------------------------------------------------
(* Webhook events and time.                                                *)

\* Rows whose status is one of `from`, among `these`, become `to`.
Restate(these, from, to) ==
    /\ row' = [s \in Send |-> IF s \in these /\ row[s].status \in from
                                THEN [row[s] EXCEPT !.status = to] ELSE row[s]]
    /\ UNCHANGED <<send, note, stamps, rights, faults>>

\* Mutant: every row whose status would let it, stamped or not.
StampedAnyhow(n) == {s \in Send : row[s].sentAt <= n}

StampedUpTo(n) == {s \in Send : row[s].sentAt \in 1..n}     \* sentAt <= watermark

\* Mutant: a receipt finds its row before the row has its fbMessageId.
DeliverEarly(ids) ==
    /\ \A s \in ids : send[s].accepted
    /\ Restate(ids, {"SENT", "PENDING"}, "DELIVERED")

\* Facebook knows the ids before the row does: it accepted the message.
DeliverIds(ids) ==
    /\ \A s \in ids : send[s].accepted
    /\ Restate({s \in ids : row[s].fbMessageId}, {"SENT", "PENDING"}, "DELIVERED")

\* Mutant: a receipt by watermark takes the rows that were read along.
DeliverAll(n) == Restate(StampedUpTo(n), {"SENT", "PENDING", "READ"}, "DELIVERED")

DeliverUpTo(n) == Restate(StampedUpTo(n), {"SENT", "PENDING"}, "DELIVERED")

ReadUpTo(n) == Restate(StampedUpTo(n), {"SENT", "DELIVERED"}, "READ")

\* The opt-in of a one-time token stores a row of its own; the row that asked for it is
\* never filled.
OptInToken(t) ==
    /\ token[t].state = "none"
    /\ token' = [token EXCEPT ![t].state = "granted"]
    /\ UNCHANGED <<send, rows, sub, faults>>

\* Mutant: an opt-in allows the next message at once.
OptInAnew(x) ==
    /\ sub' = [sub EXCEPT ![x].status = "ACTIVE", ![x].lapsed = FALSE, ![x].ready = TRUE]
    /\ UNCHANGED <<send, rows, token, faults>>

\* An upsert by topic, which leaves nextAllowedAt alone.
OptIn(x) ==
    /\ sub' = [sub EXCEPT ![x].status = "ACTIVE", ![x].lapsed = FALSE]
    /\ UNCHANGED <<send, rows, token, faults>>

\* Of one topic, or of all when the event names none.
OptOut(topics) ==
    /\ sub' = [x \in Subscription |-> IF x \in topics /\ sub[x].status # "NONE"
                                        THEN [sub[x] EXCEPT !.status = "CANCELLED"]
                                        ELSE sub[x]]
    /\ UNCHANGED <<send, rows, token, faults>>

Lapse(x) ==
    /\ sub[x].status = "ACTIVE" /\ ~sub[x].lapsed
    /\ sub' = [sub EXCEPT ![x].lapsed = TRUE]
    /\ UNCHANGED <<send, rows, token, faults>>

PeriodEnds(x) ==
    /\ ~sub[x].ready
    /\ sub[x].periods < MaxPeriods
    /\ sub' = [sub EXCEPT ![x].ready = TRUE, ![x].periods = @ + 1]
    /\ UNCHANGED <<send, rows, token, faults>>

-----------------------------------------------------------------------------
(* Faults.                                                                 *)

Fault == faults < MaxFaults /\ faults' = faults + 1

\* The inbox marks its row when SendApiService fails, not when one of its own awaits before
\* that does.
OnFailure(s) == CASE send[s].pc \in {"note", "report"} -> {"done"}
                  [] send[s].pc = "prepare" -> {AfterFailure(s), "done"}
                  [] OTHER -> {AfterFailure(s)}

\* An await rejects: what was written stays, the rest is not written, except that the inbox
\* tries once more to mark its row when storing the answer failed.
SendFails(s) ==
    /\ send[s].pc \in {"ask", "expire", "note", "prepare", "sent", "spend", "also", "report"}
    /\ Fault
    /\ \E pc \in OnFailure(s) : Continue(s, pc)
    /\ \/ UNCHANGED note
       \/ send[s].pc = "report" /\ note' = [note EXCEPT ![s] = "FAILED"]
    /\ UNCHANGED <<row, stamps, rights>>

\* The Graph API accepted the message and the answer is lost.
AnswerLost(s) ==
    /\ send[s].pc = "graph"
    /\ Fault
    /\ send' = [send EXCEPT ![s].accepted = TRUE, ![s].pc = AfterFailure(s)]
    /\ UNCHANGED <<rows, rights>>

Crash ==
    /\ Fault
    /\ send' = [s \in Send |-> IF send[s].pc = "free" THEN send[s]
                               ELSE [send[s] EXCEPT !.pc = "done"]]
    /\ UNCHANGED <<rows, rights>>

-----------------------------------------------------------------------------
Begins(s) ==
    \/ \E x \in Right \cup {None}, y \in Subscription \cup {None} :
           BeginApi(s, x, y) \/ BeginInbox(s, x, y)
    \/ \E x \in Right : BeginRequest(s, x)
    \/ \E t \in Token : BeginOtn(s, t)
    \/ \E x \in Subscription : BeginRecurring(s, x)

SendStep(s) ==
    \/ Ask(s)
    \/ WriteExpired(s)
    \/ StoreNote(s)
    \/ Refused(s)
    \/ CreateRow(s)
    \/ GraphAccepts(s)
    \/ GraphRefuses(s)
    \/ WriteSent(s)
    \/ Spend(s)
    \/ SpendAlso(s)
    \/ Report(s)

Webhook ==
    \/ \E ids \in SUBSET Send : DeliverIds(ids)
    \/ \E n \in 0..stamps : DeliverUpTo(n) \/ ReadUpTo(n)
    \/ \E t \in Token : OptInToken(t)
    \/ \E x \in Subscription : OptIn(x) \/ OptOut({x})
    \/ OptOut(Subscription)

Next ==
    \/ \E s \in Send : Begins(s) \/ SendStep(s) \/ SendFails(s) \/ AnswerLost(s)
    \/ Webhook
    \/ \E x \in Subscription : Lapse(x) \/ PeriodEnds(x)
    \/ Crash

Spec == Init /\ [][Next]_vars

-----------------------------------------------------------------------------
(* Safety.                                                                 *)

Stages == {"SENT", "DELIVERED", "READ"}

\* A row never claims what did not happen, and never forgets it without a fault: a row
\* that is sent, delivered or read has its fbMessageId and was accepted by the Graph API
\* (no receipt reaches a row whose send is still under way), and once an accepted send
\* is over without a fault its row says so.
RowTellsOutcome ==
    \A s \in Send :
        /\ row[s].status \in Stages => send[s].accepted /\ row[s].fbMessageId
        /\ row[s].fbMessageId => row[s].status \in Stages
        /\ (faults = 0 /\ send[s].pc = "done" /\ send[s].accepted) => row[s].status \in Stages

Stage(status) == CASE status = "NONE" -> 0 [] status = "PENDING" -> 1 [] status = "SENT" -> 2
                   [] status = "DELIVERED" -> 3 [] OTHER -> 4

\* The status of a message never goes back, however its send and the receipts by id and
\* by watermark interleave (handleDelivery, handleRead and the senders' updates).
StatusMovesForward ==
    [][\A s \in Send : Stage(row'[s].status) >= Stage(row[s].status)]_vars

\* The sends that were accepted on x and are past the step that counts them.
CountedOn(x) ==
    {s \in Send :
        /\ send[s].accepted /\ send[s].kind # "request"
        /\ \/ /\ send[s].right = x
              /\ send[s].pc # "spend" /\ (send[s].pc = "sent" => SpendsFirst(s))
           \/ send[s].also = x /\ send[s].pc \in {"report", "done"}}

\* While nothing failed, messagesSent is the number of accepted messages on the
\* subscription, by whichever of the two senders and however many at a time; and a
\* token that carried one is used (the updates of sendMessage, useOtnToken and
\* sendRecurringMessage).
SpendingIsExact ==
    faults = 0 =>
        /\ \A x \in Subscription : sub[x].messagesSent = Cardinality(CountedOn(x))
        /\ \A t \in Token : token[t].isUsed <=> CountedOn(t) # {}

\* The earlier send u is over and spent the right that s asks for, in the same period.
SpentBy(u, x) ==
    /\ send[u].pc = "done" /\ send[u].accepted /\ send[u].right = x
    /\ \/ x \in Token /\ send[u].kind # "request"
       \/ x \in Subscription /\ send[u].kind = "recurring" /\ send[u].period = sub[x].periods

\* A right that was spent is refused: once a message on a one-time token, or on a
\* subscription in this period, was accepted and its send is over, no later use of it
\* gets to the Graph API, whatever opt-ins came in between (useOtnToken,
\* sendRecurringMessage, handleOptin).  Only sends that overlap can share a right.
SpentIsRefused ==
    [][\A s, u \in Send :
         (/\ faults = 0
          /\ send[s].pc = "free" /\ send'[s].pc = "prepare"
          /\ send'[s].kind \in {"otn", "recurring"})
             => ~SpentBy(u, send'[s].right)]_vars

-----------------------------------------------------------------------------
(* What the repository says and the code does not do.                      *)

\* "Message shows as Sent (or Failed if no Facebook connection)": without a fault, a
\* message of the inbox that the Graph API accepted is not shown as failed.
AcceptedIsNotFailed ==
    \A s \in Send : (faults = 0 /\ send[s].accepted) => note[s] # "FAILED"

-----------------------------------------------------------------------------
(* The inductive invariant behind these properties.                        *)

\* What a send spends, and how far it is when the Graph API has accepted it.
SendShape(s) ==
    LET kind == send[s].kind
        pc == send[s].pc
    IN  /\ kind = "otn" => send[s].right \in Token
        /\ kind = "recurring" => send[s].right \in Subscription
        /\ pc = "ask" => kind = "request"
        /\ pc = "expire" => kind = "recurring"
        /\ pc = "note" => kind = "inbox"
        /\ pc = "spend" => SpendsFirst(s) \/ SpendsLast(s)
        /\ pc = "also" => send[s].also # None
        /\ send[s].also # None => kind \in {"api", "inbox"} /\ send[s].right \in Token
        /\ pc = "report" => kind = "inbox"
        /\ pc \in {"sent", "spend", "also"} => send[s].accepted
        /\ send[s].accepted => pc \in {"sent", "spend", "also", "report", "done"}

\* The row of a send at each of its awaits: it is stamped when it gets its fbMessageId, and
\* no receipt moves it before.
RowShape(s) ==
    /\ row[s].fbMessageId => send[s].accepted /\ row[s].status \in Stages /\ row[s].sentAt # 0
    /\ ~row[s].fbMessageId => row[s].status \in {"NONE", "PENDING"} /\ row[s].sentAt = 0
    /\ send[s].pc \in {"free", "ask", "note", "expire", "prepare"} => row[s].status = "NONE"
    /\ send[s].pc \in {"graph", "sent"} => ~row[s].fbMessageId
    /\ send[s].pc = "spend" => (row[s].fbMessageId <=> ~SpendsFirst(s))
    /\ send[s].pc = "also" => row[s].fbMessageId
    /\ faults = 0 /\ send[s].pc \in {"report", "done"} /\ send[s].accepted => row[s].fbMessageId

\* A recurring message that was counted closed its period.
PeriodClosed(s) ==
    /\ faults = 0 /\ send[s].kind = "recurring" /\ send[s].accepted
    /\ send[s].pc \in {"sent", "done"}
    => LET x == send[s].right
       IN  send[s].period <= sub[x].periods /\ (sub[x].ready => send[s].period # sub[x].periods)

Stamped == {s \in Send : row[s].fbMessageId}

\* The sends that are past the step that could count them on x.
PastSpend(x) ==
    {s \in Send :
        \/ /\ send[s].right = x
           /\ \/ send[s].pc \in {"also", "report", "done"}
              \/ send[s].pc = "sent" /\ SpendsFirst(s)
        \/ send[s].also = x /\ send[s].pc \in {"report", "done"}}

\* Rows, sends and rights agree at every await of a send (send-api.service.ts, otn.service.ts,
\* recurring-notification.service.ts).
IInv ==
    /\ TypeOK
    /\ \A s \in Send : SendShape(s) /\ RowShape(s) /\ PeriodClosed(s)
    /\ stamps = Cardinality(Stamped)
    /\ \A x \in Subscription : sub[x].messagesSent <= Cardinality(PastSpend(x))
    /\ SpendingIsExact
=============================================================================
