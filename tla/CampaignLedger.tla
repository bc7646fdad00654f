---------------------------- MODULE CampaignLedger ----------------------------
(***************************************************************************)
(* What the statistics of a campaign promise while nothing fails: a ledger *)
(* that every job enters once, at a campaign that was opened before, and   *)
(* leaves once, as sent if its message was delivered by then and as failed *)
(* if it was not.  Queue, workers, requests and the rows' other columns    *)
(* are not in it.  Campaigns implements it.                                *)
(***************************************************************************)
EXTENDS Integers

CONSTANTS Campaign, Job

VARIABLES
    book,          \* the campaign: "none", a "draft", "opened", or "struck" off
    entered,       \* the jobs that ever entered
    pending,       \* the jobs of each campaign that are not settled
    delivered,     \* the jobs whose message was delivered
    sent, failed   \* the counters of each campaign

vars == <<book, entered, pending, delivered, sent, failed>>

Init ==
    /\ book = [c \in Campaign |-> "none"]
    /\ entered = {}
    /\ pending = [c \in Campaign |-> {}]
    /\ delivered = {}
    /\ sent = [c \in Campaign |-> 0]
    /\ failed = [c \in Campaign |-> 0]

Draft(c) ==
    /\ book[c] = "none"
    /\ book' = [book EXCEPT ![c] = "draft"]
    /\ UNCHANGED <<entered, pending, delivered, sent, failed>>

Open(c) ==
    /\ book[c] = "draft"
    /\ book' = [book EXCEPT ![c] = "opened"]
    /\ UNCHANGED <<entered, pending, delivered, sent, failed>>

\* A struck campaign is not accounted for any more.
Strike(c) ==
    /\ book[c] \in {"draft", "opened"}
    /\ book' = [book EXCEPT ![c] = "struck"]
    /\ pending' = [pending EXCEPT ![c] = {}]
    /\ UNCHANGED <<entered, delivered, sent, failed>>

Enter(c, jobs) ==
    /\ book[c] \in {"opened", "struck"}
    /\ jobs \cap entered = {}
    /\ entered' = entered \cup jobs
    /\ pending' = IF book[c] = "struck" THEN pending
                  ELSE [pending EXCEPT ![c] = @ \cup jobs]
    /\ UNCHANGED <<book, delivered, sent, failed>>

Deliver(c, j) ==
    /\ j \in pending[c] \ delivered
    /\ delivered' = delivered \cup {j}
    /\ UNCHANGED <<book, entered, pending, sent, failed>>

Settle(c, j) ==
    /\ j \in pending[c]
    /\ pending' = [pending EXCEPT ![c] = @ \ {j}]
    /\ IF j \in delivered
         THEN sent' = [sent EXCEPT ![c] = @ + 1] /\ UNCHANGED failed
         ELSE failed' = [failed EXCEPT ![c] = @ + 1] /\ UNCHANGED sent
    /\ UNCHANGED <<book, entered, delivered>>

Next ==
    \E c \in Campaign :
        \/ Draft(c)
        \/ Open(c)
        \/ Strike(c)
        \/ \E jobs \in SUBSET Job : Enter(c, jobs)
        \/ \E j \in Job : Deliver(c, j) \/ Settle(c, j)

Spec == Init /\ [][Next]_vars
=============================================================================
