---------------------------- MODULE SendingProofs ----------------------------
(***************************************************************************)
(* Theorems about Sending, for any finite set of sends, any tokens and     *)
(* subscriptions and any number of periods and faults.                     *)
(***************************************************************************)
EXTENDS Sending, FiniteSetTheorems, TLAPS

-----------------------------------------------------------------------------
(* Cardinalities.                                                          *)

LEMMA SendsCount ==
    /\ Cardinality(Send) \in Nat
    /\ \A S \in SUBSET Send : /\ IsFiniteSet(S)
                              /\ Cardinality(S) \in Nat
                              /\ Cardinality(S) <= Cardinality(Send)
BY SendsAreFinite, FS_Subset, FS_CardinalityType

LEMMA OneMore ==
    ASSUME NEW S \in SUBSET Send, NEW s \in Send, s \notin S
    PROVE  /\ Cardinality(S \cup {s}) = Cardinality(S) + 1
           /\ Cardinality(S) + 1 <= Cardinality(Send)
<1>1. IsFiniteSet(S) /\ Cardinality(S) \in Nat
  BY SendsCount
<1>2. Cardinality(S \cup {s}) = Cardinality(S) + 1
  BY <1>1, FS_AddElement
<1>3. S \cup {s} \in SUBSET Send
  OBVIOUS
<1> QED
  BY <1>1, <1>2, <1>3, SendsCount

LEMMA MoreOrEqual ==
    ASSUME NEW S \in SUBSET Send, NEW T \in SUBSET Send, S \subseteq T
    PROVE  Cardinality(S) <= Cardinality(T)
BY SendsCount, FS_Subset

-----------------------------------------------------------------------------
(* Type correctness.                                                       *)

LEMMA FreshRecords ==
    /\ FreeSend \in SendRecord
    /\ NoRow \in RowRecord
    /\ NoToken \in TokenRecord
    /\ NoSubscription \in SubRecord
BY SendsCount, BoundsAreNat
   DEF FreeSend, NoRow, NoToken, NoSubscription, SendRecord, RowRecord, TokenRecord, SubRecord,
       Kind, PC, MessageStatus, SubscriptionStatus

LEMMA TypeInit ==
    ASSUME Init
    PROVE  TypeOK
<1>1. send \in [Send -> SendRecord] /\ row \in [Send -> RowRecord]
  BY FreshRecords DEF Init
<1>2. token \in [Token -> TokenRecord] /\ sub \in [Subscription -> SubRecord]
  BY FreshRecords DEF Init
<1>3. note \in [Send -> MessageStatus]
  BY DEF Init, MessageStatus
<1>4. stamps \in 0..Cardinality(Send) /\ faults \in 0..MaxFaults
  BY SendsCount, BoundsAreNat DEF Init
<1> QED
  BY <1>1, <1>2, <1>3, <1>4 DEF TypeOK

\* A send that begins or goes on keeps its type.
LEMMA MovedSends ==
    ASSUME TypeOK, NEW s \in Send, NEW pc \in PC, Continue(s, pc)
    PROVE  /\ send' \in [Send -> SendRecord]
           /\ send'[s] = [send[s] EXCEPT !.pc = pc]
           /\ \A u \in Send \ {s} : send'[u] = send[u]
BY DEF TypeOK, Continue, SendRecord

LEMMA BegunSends ==
    ASSUME TypeOK, NEW s \in Send, NEW kind \in Kind, NEW x \in Right \cup {None},
           NEW y \in Subscription \cup {None}, NEW pc \in PC, Begin(s, kind, x, y, pc)
    PROVE  /\ TypeOK'
           /\ send'[s].kind = kind /\ send'[s].right = x /\ send'[s].also = y /\ send'[s].pc = pc
           /\ ~send'[s].accepted
           /\ \A u \in Send \ {s} : send'[u] = send[u]
<1>1. [FreeSend EXCEPT !.kind = kind, !.right = x, !.also = y, !.pc = pc] \in SendRecord
  BY FreshRecords DEF SendRecord
<1>2. send' \in [Send -> SendRecord]
  BY <1>1 DEF TypeOK, Begin
<1>3. /\ send'[s] = [FreeSend EXCEPT !.kind = kind, !.right = x, !.also = y, !.pc = pc]
      /\ \A u \in Send \ {s} : send'[u] = send[u]
  BY DEF TypeOK, Begin
<1>4. /\ send'[s].kind = kind /\ send'[s].right = x /\ send'[s].also = y /\ send'[s].pc = pc
      /\ ~send'[s].accepted
  BY <1>3 DEF FreeSend
<1> QED
  BY <1>2, <1>3, <1>4 DEF TypeOK, Begin, rows, rights

LEMMA AfterFailureIsPC == \A s \in Send : AfterFailure(s) \in {"report", "done"} \cap PC
BY DEF AfterFailure, PC

-----------------------------------------------------------------------------
(* A step that spends nothing.                                             *)

\* What such a step leaves alone; a stamp it sets is counted.
SpendsNothing ==
    /\ stamps' = Cardinality(Stamped)'
    /\ faults' = 0 => faults = 0
    /\ \A t \in Token : token'[t].isUsed = token[t].isUsed
    /\ \A x \in Subscription : sub'[x].messagesSent = sub[x].messagesSent

\* A period that was closed stays closed until the next one begins.
PeriodsGoOn ==
    \A x \in Subscription :
        /\ sub'[x].periods >= sub[x].periods
        /\ sub'[x].ready /\ sub'[x].periods = sub[x].periods => sub[x].ready

\* The sends that did not move keep their part of the invariant.
LEMMA OthersKeep ==
    ASSUME IInv, TypeOK', PeriodsGoOn, faults' = 0 => faults = 0,
           NEW u \in Send, send'[u] = send[u]
    PROVE  /\ SendShape(u)'
           /\ row'[u] = row[u] => RowShape(u)'
           /\ PeriodClosed(u)'
<1>1. SendShape(u) /\ RowShape(u) /\ PeriodClosed(u)
  BY DEF IInv
<1>2. SendShape(u)'
  BY <1>1 DEF SendShape, SpendsFirst, SpendsLast
<1>3. ASSUME row'[u] = row[u]
      PROVE  RowShape(u)'
  BY <1>1, <1>3 DEF RowShape, SpendsFirst
<1>4. ASSUME faults' = 0, send[u].kind = "recurring", send[u].accepted,
             send[u].pc \in {"sent", "done"}
      PROVE  /\ send[u].period <= sub'[send[u].right].periods
             /\ sub'[send[u].right].ready => send[u].period # sub'[send[u].right].periods
  <2>1. PICK x \in Subscription : x = send[u].right
    BY <1>1, <1>4 DEF SendShape
  <2>2. send[u].period <= sub[x].periods /\ (sub[x].ready => send[u].period # sub[x].periods)
    BY <1>1, <1>4, <2>1 DEF PeriodClosed
  <2>3. send[u].period \in Nat /\ sub[x].periods \in Nat /\ sub'[x].periods \in Nat
    BY DEF IInv, TypeOK, SendRecord, SubRecord
  <2>4. sub'[x].periods >= sub[x].periods
        /\ (sub'[x].ready /\ sub'[x].periods = sub[x].periods => sub[x].ready)
    BY DEF PeriodsGoOn
  <2>5. send[u].period <= sub'[x].periods
    BY <2>2, <2>3, <2>4
  <2>6. sub'[x].ready => send[u].period # sub'[x].periods
    BY <2>2, <2>3, <2>4
  <2> QED
    BY <2>1, <2>5, <2>6
<1>5. PeriodClosed(u)'
  BY <1>4 DEF PeriodClosed
<1> QED
  BY <1>2, <1>3, <1>5

LEMMA StampsKept ==
    ASSUME IInv, stamps' = stamps,
           \A u \in Send : row'[u].fbMessageId = row[u].fbMessageId
    PROVE  stamps' = Cardinality(Stamped)'
<1>1. Stamped' = Stamped
  BY DEF Stamped
<1> QED
  BY <1>1 DEF IInv

LEMMA QuietStep ==
    ASSUME IInv, TypeOK', SpendsNothing,
           \A u \in Send : SendShape(u)' /\ RowShape(u)' /\ PeriodClosed(u)',
           \A u \in Send, x \in Subscription : u \in PastSpend(x) => u \in PastSpend(x)',
           faults' = 0 => \A u \in Send, x \in Right : u \in CountedOn(x)' <=> u \in CountedOn(x)
    PROVE  IInv'
<1>2. stamps' = Cardinality(Stamped)'
  BY DEF SpendsNothing
<1>3. ASSUME NEW x \in Subscription
      PROVE  sub'[x].messagesSent <= Cardinality(PastSpend(x)')
  <2>1. PastSpend(x) \in SUBSET Send /\ PastSpend(x)' \in SUBSET Send
    BY DEF PastSpend
  <2>2. Cardinality(PastSpend(x)) <= Cardinality(PastSpend(x)')
    BY <2>1, MoreOrEqual
  <2>3. sub[x].messagesSent <= Cardinality(PastSpend(x)) /\ sub[x].messagesSent \in Nat
    BY DEF IInv, TypeOK, SubRecord
  <2> QED
    BY <2>1, <2>2, <2>3, SendsCount DEF SpendsNothing
<1>4. SpendingIsExact'
  <2> SUFFICES ASSUME faults' = 0
               PROVE  /\ \A x \in Subscription : sub'[x].messagesSent = Cardinality(CountedOn(x)')
                      /\ \A t \in Token : token'[t].isUsed <=> CountedOn(t)' # {}
    BY DEF SpendingIsExact
  <2>1. ASSUME NEW x \in Right
        PROVE  CountedOn(x)' = CountedOn(x)
    BY DEF CountedOn
  <2> QED
    BY <2>1 DEF IInv, SpendsNothing, SpendingIsExact, Right
<1> QED
  BY <1>2, <1>3, <1>4 DEF IInv

\* A step of one send.
LEMMA QuietSend ==
    ASSUME IInv, TypeOK', SpendsNothing, PeriodsGoOn, NEW s \in Send,
           \A u \in Send \ {s} : send'[u] = send[u] /\ row'[u] = row[u],
           SendShape(s)', RowShape(s)', PeriodClosed(s)',
           \A x \in Subscription : s \in PastSpend(x) => s \in PastSpend(x)',
           faults' = 0 => \A x \in Right : s \in CountedOn(x)' <=> s \in CountedOn(x)
    PROVE  IInv'
<1>1. faults' = 0 => faults = 0
  BY DEF SpendsNothing
<1>2. \A u \in Send : SendShape(u)' /\ RowShape(u)' /\ PeriodClosed(u)'
  BY <1>1, OthersKeep
<1>3. \A u \in Send, x \in Subscription : u \in PastSpend(x) => u \in PastSpend(x)'
  BY DEF PastSpend, SpendsFirst
<1>4. faults' = 0 => \A u \in Send, x \in Right : u \in CountedOn(x)' <=> u \in CountedOn(x)
  BY DEF CountedOn, SpendsFirst
<1> QED
  BY <1>2, <1>3, <1>4, QuietStep

LEMMA BeginKeeps ==
    ASSUME IInv, NEW s \in Send, NEW kind \in Kind, NEW x \in Right \cup {None},
           NEW y \in Subscription \cup {None}, NEW pc \in PC, Begin(s, kind, x, y, pc),
           pc \in {"ask", "note", "expire", "prepare"},
           pc = "ask" => kind = "request",
           pc = "expire" => kind = "recurring",
           pc = "note" => kind = "inbox",
           kind = "otn" => x \in Token,
           kind = "recurring" => x \in Subscription,
           y # None => kind \in {"api", "inbox"} /\ x \in Token
    PROVE  IInv'
<1>1. TypeOK'
  BY BegunSends DEF IInv
<1>2. \A u \in Send \ {s} : send'[u] = send[u]
  BY BegunSends DEF IInv
<1>3. /\ send'[s].kind = kind /\ send'[s].right = x /\ send'[s].also = y /\ send'[s].pc = pc
      /\ ~send'[s].accepted
  BY BegunSends DEF IInv
<1>4. send[s].pc = "free" /\ SendShape(s) /\ RowShape(s)
  BY DEF Begin, IInv
<1>5. ~send[s].accepted
  BY <1>4 DEF SendShape
<1>6. UNCHANGED <<row, note, stamps, token, sub, faults>>
  BY DEF Begin, rows, rights
<1>7. SpendsNothing /\ PeriodsGoOn
  BY <1>6, StampsKept DEF SpendsNothing, PeriodsGoOn, IInv, TypeOK, SubRecord
<1>8. SendShape(s)'
  BY <1>3 DEF SendShape
<1>9. RowShape(s)'
  <2>1. ~row[s].fbMessageId /\ row[s].status = "NONE" /\ row[s].sentAt = 0
    BY <1>4 DEF RowShape, Stages
  <2>2. row' = row
    BY <1>6
  <2> QED
    BY <1>3, <2>1, <2>2 DEF RowShape
<1>10. PeriodClosed(s)'
  BY <1>3 DEF PeriodClosed
<1>11. \A z : s \notin PastSpend(z) /\ s \notin CountedOn(z) /\ s \notin CountedOn(z)'
  BY <1>3, <1>4, <1>5 DEF PastSpend, CountedOn
<1> QED
  BY <1>1, <1>2, <1>6, <1>7, <1>8, <1>9, <1>10, <1>11, QuietSend

LEMMA BeginsKeep ==
    ASSUME IInv, NEW s \in Send, Begins(s)
    PROVE  IInv'
<1> USE DEF Kind, PC, Right
<1>1. ASSUME NEW x \in Right \cup {None}, NEW y \in Subscription \cup {None},
             BeginApi(s, x, y) \/ BeginInbox(s, x, y)
      PROVE  IInv'
  <2>1. y # None => x \in Token
    BY <1>1 DEF BeginApi, BeginInbox, Named
  <2> QED
    BY <1>1, <2>1, BeginKeeps DEF BeginApi, BeginInbox
<1>2. ASSUME NEW x \in Right, BeginRequest(s, x)
      PROVE  IInv'
  BY <1>2, BeginKeeps DEF BeginRequest
<1>3. ASSUME NEW t \in Token, BeginOtn(s, t)
      PROVE  IInv'
  BY <1>3, BeginKeeps DEF BeginOtn
<1>4. ASSUME NEW x \in Subscription, BeginRecurring(s, x)
      PROVE  IInv'
  <2>1. CASE sub[x].lapsed
    BY <1>4, <2>1, BeginKeeps DEF BeginRecurring
  <2>2. CASE ~sub[x].lapsed
    BY <1>4, <2>2, BeginKeeps DEF BeginRecurring
  <2> QED
    BY <2>1, <2>2
<1> QED
  BY <1>1, <1>2, <1>3, <1>4 DEF Begins

-----------------------------------------------------------------------------
(* The awaits of a send that neither spend nor stamp.                      *)

\* A send that goes from one await to the next, the rows of the messages left alone.
LEMMA GoesOn ==
    ASSUME IInv, TypeOK', NEW s \in Send, NEW pc \in PC, Continue(s, pc),
           SpendsNothing, PeriodsGoOn,
           row' = row \/ (pc = "graph" /\ row' = [row EXCEPT ![s].status = "PENDING"]),
           \/ ~send[s].accepted /\ pc \in {"prepare", "graph", "report", "done"}
           \/ send[s].pc = "report" /\ pc = "done"
           \/ faults' # 0 /\ pc \in {"report", "done"},
           pc = "report" => send[s].kind = "inbox",
           pc = "prepare" => send[s].pc \in {"ask", "note"},
           pc = "graph" => send[s].pc = "prepare"
    PROVE  IInv'
<1>1. /\ send'[s] = [send[s] EXCEPT !.pc = pc]
      /\ \A u \in Send \ {s} : send'[u] = send[u]
  BY MovedSends DEF IInv
<1>2. /\ send'[s].kind = send[s].kind /\ send'[s].right = send[s].right
      /\ send'[s].also = send[s].also
      /\ send'[s].accepted = send[s].accepted /\ send'[s].pc = pc
  BY <1>1 DEF IInv, TypeOK, SendRecord
<1>3. SendShape(s) /\ RowShape(s) /\ PeriodClosed(s)
  BY DEF IInv
<1>4. \A u \in Send \ {s} : row'[u] = row[u]
  BY DEF IInv, TypeOK
<1>5. /\ row'[s].fbMessageId = row[s].fbMessageId /\ row'[s].sentAt = row[s].sentAt
      /\ row'[s].status = row[s].status \/ (pc = "graph" /\ row'[s].status = "PENDING")
  <2>1. row \in [Send -> RowRecord]
    BY DEF IInv, TypeOK
  <2>2. CASE row' = row
    BY <2>2
  <2>3. CASE row' # row
    BY <2>1, <2>3 DEF RowRecord
  <2> QED
    BY <2>2, <2>3
<1>6. SendShape(s)'
  BY <1>2, <1>3 DEF SendShape
<1>7. RowShape(s)'
  BY <1>2, <1>3, <1>5 DEF RowShape, SpendsNothing, SpendsFirst, SendShape, Stages
<1>8. PeriodClosed(s)'
  BY <1>2, <1>3 DEF PeriodClosed, SendShape
<1>9. \A x \in Subscription : s \in PastSpend(x) => s \in PastSpend(x)'
  BY <1>2, <1>3 DEF PastSpend, SendShape, SpendsFirst
<1>10. faults' = 0 => \A x \in Right : s \in CountedOn(x)' <=> s \in CountedOn(x)
  BY <1>2 DEF CountedOn
<1> QED
  BY <1>1, <1>4, <1>6, <1>7, <1>8, <1>9, <1>10, QuietSend

LEMMA RowsThatMove ==
    ASSUME TypeOK, NEW s \in Send, NEW status \in MessageStatus \ {"FAILED"}
    PROVE  /\ [row EXCEPT ![s].status = status] \in [Send -> RowRecord]
           /\ \A u \in Send : [row EXCEPT ![s].status = status][u].fbMessageId
                                = row[u].fbMessageId
BY DEF TypeOK, RowRecord

LEMMA AskKeeps ==
    ASSUME IInv, NEW s \in Send, Ask(s)
    PROVE  IInv'
<1> DEFINE x == send[s].right
<1>1. send[s].pc = "ask" /\ ~send[s].accepted
  BY DEF Ask, IInv, SendShape
<1>2. UNCHANGED <<row, note, stamps, faults>>
  BY DEF Ask, rows
<1>3. \A pc \in PC : Continue(s, pc) => send' \in [Send -> SendRecord]
  BY MovedSends DEF IInv
<1>4. \E pc \in {"prepare", "done"} : Continue(s, pc)
  BY DEF Ask
<1>5. send' \in [Send -> SendRecord]
  BY <1>3, <1>4 DEF PC
<1>6. /\ token' \in [Token -> TokenRecord]
      /\ \A t \in Token : token'[t].isUsed = token[t].isUsed
  <2>1. token \in [Token -> TokenRecord]
    BY DEF IInv, TypeOK
  <2>2. token' = token \/ (x \in Token /\ token' = [token EXCEPT ![x].state = "asked"])
    BY DEF Ask, rights
  <2> QED
    BY <2>1, <2>2 DEF TokenRecord
<1>7. /\ sub' \in [Subscription -> SubRecord]
      /\ \A y \in Subscription : /\ sub'[y].messagesSent = sub[y].messagesSent
                                 /\ sub'[y].ready = sub[y].ready
                                 /\ sub'[y].periods = sub[y].periods
  <2>1. sub \in [Subscription -> SubRecord]
    BY DEF IInv, TypeOK
  <2>2. sub' = sub \/ (x \in Subscription /\ sub' = [sub EXCEPT ![x].status = "PENDING"])
    BY DEF Ask, rights
  <2> QED
    BY <2>1, <2>2 DEF SubRecord, SubscriptionStatus
<1>8. TypeOK'
  BY <1>2, <1>5, <1>6, <1>7 DEF IInv, TypeOK
<1>9. SpendsNothing /\ PeriodsGoOn
  <2>1. \A y \in Subscription : sub[y].periods \in Nat
    BY DEF IInv, TypeOK, SubRecord
  <2> QED
    BY <1>2, <1>6, <1>7, <2>1, StampsKept DEF SpendsNothing, PeriodsGoOn
<1> QED
  BY <1>1, <1>2, <1>4, <1>8, <1>9, GoesOn DEF PC

LEMMA WriteExpiredKeeps ==
    ASSUME IInv, NEW s \in Send, WriteExpired(s)
    PROVE  IInv'
<1>1. send[s].pc = "expire" /\ ~send[s].accepted /\ Continue(s, "done")
  BY DEF WriteExpired, IInv, SendShape
<1>2. UNCHANGED <<row, note, stamps, token, faults>>
  BY DEF WriteExpired, rows
<1>3. send' \in [Send -> SendRecord]
  BY <1>1, MovedSends DEF IInv, PC
<1>4. /\ sub' \in [Subscription -> SubRecord]
      /\ \A y \in Subscription : /\ sub'[y].messagesSent = sub[y].messagesSent
                                 /\ sub'[y].ready = sub[y].ready
                                 /\ sub'[y].periods = sub[y].periods
  BY DEF WriteExpired, IInv, TypeOK, SubRecord, SubscriptionStatus
<1>5. TypeOK'
  BY <1>2, <1>3, <1>4 DEF IInv, TypeOK
<1>6. SpendsNothing /\ PeriodsGoOn
  <2>1. \A y \in Subscription : sub[y].periods \in Nat
    BY DEF IInv, TypeOK, SubRecord
  <2> QED
    BY <1>2, <1>4, <2>1, StampsKept DEF SpendsNothing, PeriodsGoOn
<1> QED
  BY <1>1, <1>2, <1>5, <1>6, GoesOn DEF PC

\* Nothing of a right changes.
LEMMA NoRightChanges ==
    ASSUME IInv, UNCHANGED <<token, sub>>, stamps' = stamps, faults' = 0 => faults = 0,
           \A u \in Send : row'[u].fbMessageId = row[u].fbMessageId
    PROVE  SpendsNothing /\ PeriodsGoOn
<1>1. \A y \in Subscription : sub[y].periods \in Nat
  BY DEF IInv, TypeOK, SubRecord
<1> QED
  BY <1>1, StampsKept DEF SpendsNothing, PeriodsGoOn

LEMMA OneAwaitKeeps ==
    ASSUME IInv, NEW s \in Send,
           StoreNote(s) \/ Refused(s) \/ CreateRow(s) \/ GraphRefuses(s) \/ Report(s)
    PROVE  IInv'
<1>1. SendShape(s) /\ TypeOK
  BY DEF IInv
<1>2. UNCHANGED <<stamps, token, sub, faults>>
  BY DEF StoreNote, Refused, CreateRow, GraphRefuses, Report, rows, rights
<1>3. CASE StoreNote(s)
  <2>1. Continue(s, "prepare") /\ send[s].pc = "note" /\ ~send[s].accepted /\ row' = row
    BY <1>1, <1>3 DEF StoreNote, SendShape
  <2>2. TypeOK'
    BY <1>1, <1>2, <1>3, <2>1, MovedSends DEF TypeOK, StoreNote, MessageStatus, PC
  <2>3. SpendsNothing /\ PeriodsGoOn
    BY <1>2, <2>1, NoRightChanges
  <2> QED
    BY <2>1, <2>2, <2>3, GoesOn DEF PC
<1>4. CASE Refused(s) \/ GraphRefuses(s)
  <2>1. /\ Continue(s, AfterFailure(s)) /\ send[s].pc \in {"prepare", "graph"}
        /\ ~send[s].accepted /\ row' = row /\ note' = note
    BY <1>1, <1>4 DEF Refused, GraphRefuses, SendShape, rows
  <2>2. AfterFailure(s) \in {"report", "done"} /\ AfterFailure(s) \in PC
        /\ (AfterFailure(s) = "report" => send[s].kind = "inbox")
    BY DEF AfterFailure, PC
  <2>3. TypeOK'
    BY <1>1, <1>2, <2>1, <2>2, MovedSends DEF TypeOK
  <2>4. SpendsNothing /\ PeriodsGoOn
    BY <1>2, <2>1, NoRightChanges
  <2> QED
    BY <2>1, <2>2, <2>3, <2>4, GoesOn
<1>5. CASE CreateRow(s)
  <2>1. /\ Continue(s, "graph") /\ send[s].pc = "prepare" /\ ~send[s].accepted /\ note' = note
        /\ row' = [row EXCEPT ![s].status = "PENDING"]
    BY <1>1, <1>5 DEF CreateRow, SendShape
  <2>2. row' \in [Send -> RowRecord]
        /\ \A u \in Send : row'[u].fbMessageId = row[u].fbMessageId
    BY <1>1, <2>1, RowsThatMove DEF MessageStatus
  <2>3. TypeOK'
    BY <1>1, <1>2, <2>1, <2>2, MovedSends DEF TypeOK, PC
  <2>4. SpendsNothing /\ PeriodsGoOn
    BY <1>2, <2>2, NoRightChanges
  <2> QED
    BY <2>1, <2>3, <2>4, GoesOn DEF PC
<1>6. CASE Report(s)
  <2>1. Continue(s, "done") /\ send[s].pc = "report" /\ row' = row
    BY <1>6 DEF Report
  <2>2. note' \in [Send -> MessageStatus]
    BY <1>1, <1>6 DEF Report, TypeOK, MessageStatus
  <2>3. TypeOK'
    BY <1>1, <1>2, <2>1, <2>2, MovedSends DEF TypeOK, PC
  <2>4. SpendsNothing /\ PeriodsGoOn
    BY <1>2, <2>1, NoRightChanges
  <2> QED
    BY <2>1, <2>3, <2>4, GoesOn DEF PC
<1> QED
  BY <1>3, <1>4, <1>5, <1>6

LEMMA SendFailsKeeps ==
    ASSUME IInv, NEW s \in Send, SendFails(s)
    PROVE  IInv'
<1>1. PICK pc \in {"report", "done"} :
          Continue(s, pc) /\ (pc = "report" => send[s].kind = "inbox")
  BY DEF SendFails, OnFailure, AfterFailure
<1>2. UNCHANGED <<row, stamps, token, sub>>
  BY DEF SendFails, rights
<1>7. note' \in [Send -> MessageStatus]
  BY DEF SendFails, IInv, TypeOK, MessageStatus
<1>3. faults' \in 0..MaxFaults /\ faults' # 0
  BY BoundsAreNat DEF SendFails, Fault, IInv, TypeOK
<1>4. pc \in PC
  BY DEF PC
<1>5. TypeOK'
  BY <1>1, <1>2, <1>3, <1>4, <1>7, MovedSends DEF IInv, TypeOK
<1>6. SpendsNothing /\ PeriodsGoOn
  BY <1>2, <1>3, NoRightChanges
<1> QED
  BY <1>1, <1>2, <1>3, <1>4, <1>5, <1>6, GoesOn

\* The Graph API accepted the message, and the answer arrives or is lost.
LEMMA AcceptedKeeps ==
    ASSUME IInv, NEW s \in Send, GraphAccepts(s) \/ AnswerLost(s)
    PROVE  IInv'
<1>1. send[s].pc = "graph" /\ SendShape(s) /\ RowShape(s) /\ ~send[s].accepted /\ TypeOK
  BY DEF GraphAccepts, AnswerLost, IInv, SendShape
<1>2. UNCHANGED <<row, note, stamps, token, sub>>
  BY DEF GraphAccepts, AnswerLost, rows, rights
<1>3. faults' \in 0..MaxFaults /\ (faults' = 0 => faults = 0)
  BY BoundsAreNat DEF GraphAccepts, AnswerLost, Fault, IInv, TypeOK
<1>4. PICK pc \in PC :
          /\ send' = [send EXCEPT ![s].accepted = TRUE, ![s].pc = pc]
          /\ pc \in {"spend", "sent", "report", "done"}
          /\ pc = "spend" => SpendsFirst(s)
          /\ pc = "sent" => ~SpendsFirst(s)
          /\ pc \in {"report", "done"} => faults' # 0
          /\ pc = "report" => send[s].kind = "inbox"
  <2>1. CASE GraphAccepts(s) /\ SpendsFirst(s)
    <3>1. send' = [send EXCEPT ![s].accepted = TRUE, ![s].pc = "spend"]
      BY <2>1 DEF GraphAccepts
    <3> QED
      BY <2>1, <3>1 DEF PC
  <2>2. CASE GraphAccepts(s) /\ ~SpendsFirst(s)
    <3>1. send' = [send EXCEPT ![s].accepted = TRUE, ![s].pc = "sent"]
      BY <2>2 DEF GraphAccepts
    <3> QED
      BY <2>2, <3>1 DEF PC
  <2>3. CASE AnswerLost(s)
    <3>1. faults' # 0
      BY <2>3 DEF AnswerLost, Fault, IInv, TypeOK
    <3>2. CASE send[s].kind = "inbox"
      BY <2>3, <3>1, <3>2 DEF AnswerLost, AfterFailure, PC
    <3>3. CASE send[s].kind # "inbox"
      BY <2>3, <3>1, <3>3 DEF AnswerLost, AfterFailure, PC
    <3> QED
      BY <3>2, <3>3
  <2> QED
    BY <2>1, <2>2, <2>3
<1>5. /\ send' \in [Send -> SendRecord]
      /\ send'[s].kind = send[s].kind /\ send'[s].right = send[s].right
      /\ send'[s].also = send[s].also
      /\ send'[s].accepted = TRUE /\ send'[s].pc = pc
      /\ \A u \in Send \ {s} : send'[u] = send[u]
  BY <1>1, <1>4 DEF TypeOK, SendRecord
<1>6. TypeOK'
  BY <1>1, <1>2, <1>3, <1>5 DEF TypeOK
<1>7. SpendsNothing /\ PeriodsGoOn
  BY <1>2, <1>3, NoRightChanges
<1>8. SendShape(s)'
  BY <1>1, <1>4, <1>5 DEF SendShape, SpendsFirst
<1>9. RowShape(s)'
  BY <1>1, <1>2, <1>4, <1>5 DEF RowShape, SpendsFirst
<1>10. PeriodClosed(s)'
  BY <1>4, <1>5 DEF PeriodClosed, SpendsFirst
<1>11. \A x : s \notin PastSpend(x)
  BY <1>1 DEF PastSpend
<1>12. faults' = 0 => \A x : s \notin CountedOn(x) /\ s \notin CountedOn(x)'
  BY <1>1, <1>4, <1>5 DEF CountedOn, SpendsFirst
<1> QED
  BY <1>2, <1>5, <1>6, <1>7, <1>8, <1>9, <1>10, <1>11, <1>12, QuietSend

LEMMA CrashKeeps ==
    ASSUME IInv, Crash
    PROVE  IInv'
<1>1. UNCHANGED <<row, note, stamps, token, sub>>
  BY DEF Crash, rows, rights
<1>2. faults' \in 0..MaxFaults /\ faults' # 0
  BY BoundsAreNat DEF Crash, Fault, IInv, TypeOK
<1>3. ASSUME NEW u \in Send
      PROVE  /\ send'[u] \in SendRecord
             /\ send'[u].kind = send[u].kind /\ send'[u].right = send[u].right
             /\ send'[u].also = send[u].also /\ send'[u].accepted = send[u].accepted
             /\ send'[u] = send[u] \/ (send[u].pc # "free" /\ send'[u].pc = "done")
  <2>1. send[u] \in SendRecord
    BY DEF IInv, TypeOK
  <2>2. CASE send[u].pc = "free"
    BY <2>1, <2>2 DEF Crash
  <2>3. CASE send[u].pc # "free"
    BY <2>1, <2>3 DEF Crash, SendRecord, PC
  <2> QED
    BY <2>2, <2>3
<1>4. send' \in [Send -> SendRecord]
  BY <1>3 DEF Crash
<1>5. TypeOK'
  BY <1>1, <1>2, <1>4 DEF IInv, TypeOK
<1>6. SpendsNothing /\ PeriodsGoOn
  BY <1>1, <1>2, NoRightChanges
<1>7. ASSUME NEW u \in Send
      PROVE  SendShape(u)' /\ RowShape(u)' /\ PeriodClosed(u)'
  <2>1. SendShape(u) /\ RowShape(u)
    BY DEF IInv
  <2>2. SendShape(u)'
    BY <1>3, <2>1 DEF SendShape, SpendsFirst, SpendsLast
  <2>3. RowShape(u)'
    BY <1>1, <1>2, <1>3, <2>1 DEF RowShape, SpendsFirst
  <2>4. PeriodClosed(u)'
    BY <1>2 DEF PeriodClosed
  <2> QED
    BY <2>2, <2>3, <2>4
<1>8. \A u \in Send, x \in Subscription : u \in PastSpend(x) => u \in PastSpend(x)'
  BY <1>3 DEF PastSpend, SpendsFirst
<1> QED
  BY <1>2, <1>5, <1>6, <1>7, <1>8, QuietStep

-----------------------------------------------------------------------------
(* Webhook events and time.                                                *)

\* A receipt moves the status of rows that have their fbMessageId.
LEMMA RestateKeeps ==
    ASSUME IInv, NEW these \in SUBSET Send, NEW from, NEW to \in {"DELIVERED", "READ"},
           \A u \in these : row[u].fbMessageId, Restate(these, from, to)
    PROVE  IInv'
<1>1. UNCHANGED <<send, note, stamps, token, sub, faults>>
  BY DEF Restate, rights
<1>2. ASSUME NEW u \in Send
      PROVE  /\ row'[u] \in RowRecord
             /\ row'[u].fbMessageId = row[u].fbMessageId /\ row'[u].sentAt = row[u].sentAt
             /\ row'[u].status = row[u].status \/ (row[u].fbMessageId /\ row'[u].status = to)
  <2>1. row[u] \in RowRecord
    BY DEF IInv, TypeOK
  <2>2. CASE u \in these /\ row[u].status \in from
    <3>1. row'[u] = [row[u] EXCEPT !.status = to]
      BY <2>2 DEF Restate
    <3>2. row[u].fbMessageId
      BY <2>2
    <3> QED
      BY <2>1, <3>1, <3>2 DEF RowRecord, MessageStatus
  <2>3. CASE ~(u \in these /\ row[u].status \in from)
    <3>1. row'[u] = row[u]
      BY <2>3 DEF Restate
    <3> QED
      BY <2>1, <3>1
  <2> QED
    BY <2>2, <2>3
<1>3. row' \in [Send -> RowRecord]
  BY <1>2 DEF Restate
<1>4. TypeOK'
  BY <1>1, <1>3 DEF IInv, TypeOK
<1>5. SpendsNothing /\ PeriodsGoOn
  BY <1>1, <1>2, NoRightChanges
<1>6. ASSUME NEW u \in Send
      PROVE  SendShape(u)' /\ RowShape(u)' /\ PeriodClosed(u)'
  <2>1. SendShape(u)' /\ PeriodClosed(u)'
    BY <1>1, <1>4, <1>5, OthersKeep
  <2>2. RowShape(u) /\ send'[u] = send[u] /\ faults' = faults
    BY <1>1 DEF IInv
  <2>5. row'[u].fbMessageId <=> row[u].fbMessageId
    BY <1>2
  <2>3. row'[u].sentAt = row[u].sentAt
    BY <1>2
  <2>4. row'[u].status = row[u].status \/ (row[u].fbMessageId /\ row'[u].status = to)
    BY <1>2
  <2>6. /\ row[u].status \in Stages => row'[u].status \in Stages
        /\ ~row[u].fbMessageId => row'[u].status = row[u].status
    BY <2>4 DEF Stages
  <2>7. row[u].fbMessageId => row[u].status # "NONE"
    BY <2>2 DEF RowShape, Stages
  <2>8. row[u].status = "NONE" => row'[u].status = "NONE"
    BY <2>4, <2>7
  <2> QED
    BY <2>1, <2>2, <2>3, <2>5, <2>6, <2>8 DEF RowShape, SpendsFirst
<1>7. \A x : PastSpend(x)' = PastSpend(x) /\ CountedOn(x)' = CountedOn(x)
  BY <1>1 DEF PastSpend, CountedOn, SpendsFirst
<1> QED
  BY <1>4, <1>5, <1>6, <1>7, QuietStep

LEMMA ReceiptsKeep ==
    ASSUME IInv
    PROVE  /\ \A ids \in SUBSET Send : DeliverIds(ids) => IInv'
           /\ \A n \in 0..stamps : DeliverUpTo(n) \/ ReadUpTo(n) => IInv'
<1>1. ASSUME NEW ids \in SUBSET Send, DeliverIds(ids)
      PROVE  IInv'
  BY <1>1, RestateKeeps DEF DeliverIds
<1>2. ASSUME NEW n \in 0..stamps, DeliverUpTo(n) \/ ReadUpTo(n)
      PROVE  IInv'
  <2>1. ASSUME NEW u \in StampedUpTo(n)
        PROVE  u \in Send /\ row[u].fbMessageId
    BY DEF StampedUpTo, IInv, RowShape
  <2> QED
    BY <1>2, <2>1, RestateKeeps DEF DeliverUpTo, ReadUpTo
<1> QED
  BY <1>1, <1>2

LEMMA RightChangeKeeps ==
    ASSUME IInv, UNCHANGED <<send, row, note, stamps, faults>>,
           token' \in [Token -> TokenRecord], sub' \in [Subscription -> SubRecord],
           \A t \in Token : token'[t].isUsed = token[t].isUsed,
           \A x \in Subscription : sub'[x].messagesSent = sub[x].messagesSent,
           PeriodsGoOn
    PROVE  IInv'
<1>1. TypeOK'
  BY DEF IInv, TypeOK
<1>2. SpendsNothing
  BY StampsKept DEF SpendsNothing
<1>3. \A u \in Send : SendShape(u)' /\ RowShape(u)' /\ PeriodClosed(u)'
  BY <1>1, OthersKeep
<1>4. \A x : PastSpend(x)' = PastSpend(x) /\ CountedOn(x)' = CountedOn(x)
  BY DEF PastSpend, CountedOn, SpendsFirst
<1> QED
  BY <1>1, <1>2, <1>3, <1>4, QuietStep

LEMMA EventsKeep ==
    ASSUME IInv,
           \/ \E t \in Token : OptInToken(t)
           \/ \E x \in Subscription : OptIn(x) \/ Lapse(x) \/ PeriodEnds(x)
           \/ \E topics \in SUBSET Subscription : OptOut(topics)
    PROVE  IInv'
<1>1. token \in [Token -> TokenRecord] /\ sub \in [Subscription -> SubRecord]
  BY DEF IInv, TypeOK
<1>2. \A x \in Subscription : sub[x].periods \in 0..MaxPeriods
  BY <1>1 DEF SubRecord
<1>3. CASE \E t \in Token : OptInToken(t)
  <2>1. PICK t \in Token : token' = [token EXCEPT ![t].state = "granted"]
    BY <1>3 DEF OptInToken
  <2>2. token' \in [Token -> TokenRecord] /\ \A z \in Token : token'[z].isUsed = token[z].isUsed
    BY <1>1, <2>1 DEF TokenRecord
  <2>3. UNCHANGED <<send, row, note, stamps, faults, sub>>
    BY <1>3 DEF OptInToken, rows
  <2>4. PeriodsGoOn
    BY <1>2, <2>3 DEF PeriodsGoOn
  <2> QED
    BY <1>1, <2>2, <2>3, <2>4, RightChangeKeeps
<1>4. ASSUME NEW x \in Subscription, OptIn(x) \/ Lapse(x) \/ PeriodEnds(x)
      PROVE  IInv'
  <2>1. UNCHANGED <<send, row, note, stamps, faults, token>>
    BY <1>4 DEF OptIn, Lapse, PeriodEnds, rows
  <2>2. /\ sub' \in [Subscription -> SubRecord]
        /\ \A y \in Subscription : sub'[y].messagesSent = sub[y].messagesSent
        /\ PeriodsGoOn
    <3>1. CASE OptIn(x)
      BY <1>1, <1>2, <3>1 DEF OptIn, SubRecord, SubscriptionStatus, PeriodsGoOn
    <3>2. CASE Lapse(x)
      <4>1. sub' = [sub EXCEPT ![x].lapsed = TRUE]
        BY <3>2 DEF Lapse
      <4>2. sub' \in [Subscription -> SubRecord]
        BY <1>1, <4>1 DEF SubRecord
      <4>3. \A y \in Subscription : /\ sub'[y].messagesSent = sub[y].messagesSent
                                     /\ sub'[y].ready = sub[y].ready
                                     /\ sub'[y].periods = sub[y].periods
        BY <1>1, <4>1 DEF SubRecord
      <4> QED
        BY <1>2, <4>2, <4>3 DEF PeriodsGoOn
    <3>3. CASE PeriodEnds(x)
      BY <1>1, <1>2, <3>3, BoundsAreNat DEF PeriodEnds, SubRecord, PeriodsGoOn
    <3> QED
      BY <1>4, <3>1, <3>2, <3>3
  <2> QED
    BY <1>1, <2>1, <2>2, RightChangeKeeps
<1>5. ASSUME NEW topics \in SUBSET Subscription, OptOut(topics)
      PROVE  IInv'
  <2>1. UNCHANGED <<send, row, note, stamps, faults, token>>
    BY <1>5 DEF OptOut, rows
  <2>2. ASSUME NEW y \in Subscription
        PROVE  /\ sub'[y] \in SubRecord
               /\ sub'[y].messagesSent = sub[y].messagesSent
               /\ sub'[y].ready = sub[y].ready /\ sub'[y].periods = sub[y].periods
    <3>1. sub'[y] = sub[y] \/ sub'[y] = [sub[y] EXCEPT !.status = "CANCELLED"]
      BY <1>5 DEF OptOut
    <3> QED
      BY <1>1, <3>1 DEF SubRecord, SubscriptionStatus
  <2>3. sub' \in [Subscription -> SubRecord]
    BY <1>5, <2>2 DEF OptOut
  <2>4. PeriodsGoOn
    BY <1>2, <2>2 DEF PeriodsGoOn
  <2> QED
    BY <1>1, <2>1, <2>2, <2>3, <2>4, RightChangeKeeps
<1> QED
  BY <1>3, <1>4, <1>5

-----------------------------------------------------------------------------
(* The two updates of a send that count: the stamp of its row and the      *)
(* spending of its right.                                                  *)

LEMMA WriteSentKeeps ==
    ASSUME IInv, NEW s \in Send, WriteSent(s)
    PROVE  IInv'
<1>1. /\ send[s].pc = "sent" /\ SendShape(s) /\ RowShape(s) /\ PeriodClosed(s) /\ TypeOK
      /\ stamps = Cardinality(Stamped)
  BY DEF WriteSent, IInv
<1>2. send[s].accepted /\ ~row[s].fbMessageId
  BY <1>1 DEF SendShape, RowShape
<1>3. UNCHANGED <<note, token, sub, faults>>
  BY DEF WriteSent, rights
<1>4. /\ Stamped \in SUBSET Send /\ s \notin Stamped
      /\ Cardinality(Stamped) \in Nat
      /\ stamps' = Cardinality(Stamped) + 1 /\ stamps' <= Cardinality(Send)
      /\ Cardinality(Stamped \cup {s}) = stamps'
  <2>1. Stamped \in SUBSET Send /\ s \notin Stamped
    BY <1>2 DEF Stamped
  <2>2. stamps' = Cardinality(Stamped) + 1
    BY <1>1 DEF WriteSent
  <2> QED
    BY <2>1, <2>2, OneMore, SendsCount
<1>5. /\ row' \in [Send -> RowRecord]
      /\ row'[s].status = "SENT" /\ row'[s].fbMessageId = TRUE /\ row'[s].sentAt # 0
      /\ \A u \in Send \ {s} : row'[u] = row[u]
  <2>1. [status |-> "SENT", fbMessageId |-> TRUE, sentAt |-> stamps'] \in RowRecord
    BY <1>4, SendsCount DEF RowRecord, MessageStatus
  <2>2. row' = [row EXCEPT ![s] = [status |-> "SENT", fbMessageId |-> TRUE, sentAt |-> stamps']]
    BY DEF WriteSent
  <2>3. row \in [Send -> RowRecord]
    BY <1>1 DEF TypeOK
  <2>4. row'[s] = [status |-> "SENT", fbMessageId |-> TRUE, sentAt |-> stamps']
    BY <2>2, <2>3
  <2> QED
    BY <1>4, <2>1, <2>2, <2>3, <2>4
<1>6. Stamped' = Stamped \cup {s}
  BY <1>5 DEF Stamped
<1>7. PICK pc \in PC :
          /\ send'[s].pc = pc
          /\ \/ pc = "spend" /\ SpendsLast(s)
             \/ pc = "report" /\ send[s].kind = "inbox" /\ ~SpendsLast(s)
             \/ pc = "done" /\ ~SpendsLast(s)
          /\ send' \in [Send -> SendRecord]
          /\ send'[s].kind = send[s].kind /\ send'[s].right = send[s].right
          /\ send'[s].also = send[s].also
          /\ send'[s].accepted = send[s].accepted /\ send'[s].period = send[s].period
          /\ \A u \in Send \ {s} : send'[u] = send[u]
  <2>1. send \in [Send -> SendRecord]
    BY <1>1 DEF TypeOK
  <2>2. CASE SpendsLast(s)
    <3>1. send' = [send EXCEPT ![s].pc = "spend"]
      BY <2>2 DEF WriteSent, Continue
    <3>2. /\ "spend" \in PC /\ send'[s].pc = "spend"
          /\ send' \in [Send -> SendRecord]
          /\ send'[s].kind = send[s].kind /\ send'[s].right = send[s].right
          /\ send'[s].also = send[s].also
          /\ send'[s].accepted = send[s].accepted /\ send'[s].period = send[s].period
          /\ \A u \in Send \ {s} : send'[u] = send[u]
      BY <2>1, <3>1 DEF SendRecord, PC
    <3> QED
      BY <2>2, <3>2
  <2>3. CASE ~SpendsLast(s)
    <3>1. PICK pc \in {"report", "done"} :
              /\ send' = [send EXCEPT ![s].ok = TRUE, ![s].pc = pc]
              /\ pc = "report" => send[s].kind = "inbox"
      BY <2>3 DEF WriteSent, Succeed, AfterFailure
    <3>2. /\ pc \in PC /\ send'[s].pc = pc
          /\ send' \in [Send -> SendRecord]
          /\ send'[s].kind = send[s].kind /\ send'[s].right = send[s].right
          /\ send'[s].also = send[s].also
          /\ send'[s].accepted = send[s].accepted /\ send'[s].period = send[s].period
          /\ \A u \in Send \ {s} : send'[u] = send[u]
      BY <2>1, <3>1 DEF SendRecord, PC
    <3> QED
      BY <2>3, <3>1, <3>2
  <2> QED
    BY <2>2, <2>3
<1>8. TypeOK'
  <2>1. stamps' \in 0..Cardinality(Send)
    BY <1>4, SendsCount
  <2> QED
    BY <1>1, <1>3, <1>5, <1>7, <2>1 DEF TypeOK
<1>9. SpendsNothing /\ PeriodsGoOn
  <2>1. stamps' = Cardinality(Stamped)'
    BY <1>4, <1>6
  <2>2. \A x \in Subscription : sub[x].periods \in Nat
    BY <1>1 DEF TypeOK, SubRecord
  <2> QED
    BY <1>3, <2>1, <2>2 DEF SpendsNothing, PeriodsGoOn
<1>10. SendShape(s)'
  BY <1>1, <1>2, <1>7 DEF SendShape, SpendsLast, SpendsFirst
<1>11. RowShape(s)'
  <2>1. pc \in {"spend", "report", "done"} /\ (pc = "spend" => ~SpendsFirst(s))
    BY <1>7 DEF SpendsLast, SpendsFirst
  <2>2. SpendsFirst(s)' <=> SpendsFirst(s)
    BY <1>7 DEF SpendsFirst
  <2> QED
    BY <1>2, <1>5, <1>7, <2>1, <2>2 DEF RowShape, Stages
<1>12. PeriodClosed(s)'
  BY <1>1, <1>3, <1>7 DEF PeriodClosed
<1>13. \A x \in Subscription : s \in PastSpend(x) => s \in PastSpend(x)'
  BY <1>1, <1>7 DEF PastSpend, SpendsFirst, SpendsLast
<1>14. \A x \in Right : s \in CountedOn(x)' <=> s \in CountedOn(x)
  <2>1. None \notin Right
    BY RightsDiffer DEF Right
  <2>2. send[s].kind \in Kind
    BY <1>1 DEF TypeOK, SendRecord
  <2>3. ~SpendsLast(s) => send[s].also = None
    BY <1>1, <2>1 DEF SendShape, SpendsLast, Right
  <2> QED
    BY <1>1, <1>2, <1>7, <2>1, <2>2, <2>3 DEF CountedOn, SpendsFirst, SpendsLast, Kind
<1> QED
  BY <1>5, <1>7, <1>8, <1>9, <1>10, <1>11, <1>12, <1>13, <1>14, QuietSend

LEMMA SpendKeeps ==
    ASSUME IInv, NEW s \in Send, Spend(s)
    PROVE  IInv'
<1>1. /\ send[s].pc = "spend" /\ SendShape(s) /\ RowShape(s) /\ TypeOK
      /\ send[s].kind \in Kind /\ send[s].right \in Right \cup {None}
  BY DEF Spend, IInv, TypeOK, SendRecord
<1>13. PICK x \in Right : x = send[s].right
  BY <1>1 DEF SendShape, SpendsFirst, SpendsLast, Right
<1>2. /\ send[s].accepted
      /\ send[s].kind \in {"otn", "recurring", "api", "inbox"}
      /\ SpendsFirst(s) \/ SpendsLast(s)
      /\ send[s].kind = "recurring" => x \in Subscription
      /\ send[s].kind = "otn" => x \in Token
      /\ send[s].also # None => x \in Token /\ ~SpendsFirst(s)
      /\ x # None
  BY <1>1, <1>13, RightsDiffer DEF SendShape, SpendsFirst, SpendsLast, Right
<1>3. UNCHANGED <<row, note, stamps, faults>>
  BY DEF Spend, rows
<1>4. sub \in [Subscription -> SubRecord] /\ token \in [Token -> TokenRecord]
      /\ send \in [Send -> SendRecord]
  BY <1>1 DEF TypeOK
<1>5. PICK pc \in PC, period \in 0..MaxPeriods, ok \in BOOLEAN :
          /\ send' = [send EXCEPT ![s].period = period, ![s].ok = ok, ![s].pc = pc]
          /\ \/ pc = "sent" /\ SpendsFirst(s)
             \/ pc = "also" /\ send[s].also # None
             \/ pc = "report" /\ send[s].kind = "inbox" /\ ~SpendsFirst(s) /\ send[s].also = None
             \/ pc = "done" /\ ~SpendsFirst(s) /\ send[s].also = None
          /\ x \in Subscription => period = sub[x].periods
  <2>1. PICK pc \in PC :
            /\ pc = AfterSpend(s)
            /\ \/ pc = "sent" /\ SpendsFirst(s)
               \/ pc = "also" /\ send[s].also # None
               \/ pc = "report" /\ send[s].kind = "inbox" /\ ~SpendsFirst(s)
                  /\ send[s].also = None
               \/ pc = "done" /\ ~SpendsFirst(s) /\ send[s].also = None
    <3>1. CASE SpendsFirst(s)
      BY <3>1 DEF AfterSpend, PC
    <3>2. CASE ~SpendsFirst(s)
      BY <3>2 DEF AfterSpend, AfterFailure, PC
    <3> QED
      BY <3>1, <3>2
  <2>2. PICK period \in 0..MaxPeriods :
            /\ period = IF x \in Subscription THEN sub[x].periods ELSE 0
            /\ x \in Subscription => period = sub[x].periods
    <3>1. \A y \in Subscription : sub[y].periods \in 0..MaxPeriods
      BY <1>4 DEF SubRecord
    <3>2. 0 \in 0..MaxPeriods
      BY BoundsAreNat
    <3> QED
      BY <3>1, <3>2
  <2>3. PICK ok \in BOOLEAN : ok = (~SpendsFirst(s) /\ send[s].also = None)
    OBVIOUS
  <2>4. send' = [send EXCEPT ![s].period = period, ![s].ok = ok, ![s].pc = pc]
    BY <1>13, <2>1, <2>2, <2>3 DEF Spend
  <2> QED
    BY <2>1, <2>2, <2>4
<1>6. /\ send' \in [Send -> SendRecord]
      /\ send'[s].kind = send[s].kind /\ send'[s].right = x /\ send'[s].also = send[s].also
      /\ send'[s].pc = pc
      /\ send'[s].accepted = send[s].accepted /\ send'[s].period = period
      /\ \A u \in Send \ {s} : send'[u] = send[u]
  BY <1>4, <1>5, <1>13 DEF SendRecord
<1>7. SpendsFirst(s)' <=> SpendsFirst(s)
  BY <1>6 DEF SpendsFirst
<1>8. /\ \A y \in Right \ {x} : CountedOn(y)' = CountedOn(y)
      /\ CountedOn(x)' = CountedOn(x) \cup {s}
      /\ s \notin CountedOn(x)
  <2>1. \A u \in Send \ {s} : \A y : u \in CountedOn(y)' <=> u \in CountedOn(y)
    BY <1>6 DEF CountedOn, SpendsFirst
  <2>2. \A y : s \notin CountedOn(y)
    BY <1>1 DEF CountedOn
  <2>3. \A y \in Right : s \in CountedOn(y)' <=> y = x
    BY <1>2, <1>5, <1>6, <1>7, RightsDiffer DEF CountedOn, Right
  <2>4. \A y : CountedOn(y) \subseteq Send /\ CountedOn(y)' \subseteq Send
    BY DEF CountedOn
  <2> QED
    BY <2>1, <2>2, <2>3, <2>4
<1>9. /\ \A y \in Right \ {x} : PastSpend(y)' = PastSpend(y)
      /\ PastSpend(x)' = PastSpend(x) \cup {s}
      /\ s \notin PastSpend(x)
  <2>1. \A u \in Send \ {s} : \A y : u \in PastSpend(y)' <=> u \in PastSpend(y)
    BY <1>6 DEF PastSpend, SpendsFirst
  <2>2. \A y : s \notin PastSpend(y)
    BY <1>1 DEF PastSpend
  <2>3. \A y \in Right : s \in PastSpend(y)' <=> y = x
    BY <1>2, <1>5, <1>6, <1>7, RightsDiffer DEF PastSpend, Right
  <2>4. \A y : PastSpend(y) \subseteq Send /\ PastSpend(y)' \subseteq Send
    BY DEF PastSpend
  <2> QED
    BY <2>1, <2>2, <2>3, <2>4
<1>10. /\ \A S \in SUBSET Send : s \notin S => /\ Cardinality(S) \in Nat
                                              /\ Cardinality(S \cup {s}) = Cardinality(S) + 1
                                              /\ Cardinality(S) + 1 <= Cardinality(Send)
       /\ \A y : CountedOn(y) \in SUBSET Send /\ PastSpend(y) \in SUBSET Send
  BY OneMore, SendsCount DEF CountedOn, PastSpend
<1>11. CASE x \in Token
  <2>1. x \notin Subscription
    BY <1>11, RightsDiffer
  <2>2. token' = [token EXCEPT ![x].isUsed = TRUE] /\ sub' = sub
    BY <1>11, <1>13 DEF Spend
  <2>3. /\ token' \in [Token -> TokenRecord] /\ token'[x].isUsed = TRUE
        /\ \A t \in Token \ {x} : token'[t] = token[t]
    BY <1>4, <1>11, <2>2 DEF TokenRecord
  <2>4. TypeOK'
    BY <1>1, <1>3, <1>6, <2>2, <2>3 DEF TypeOK
  <2>5. PeriodsGoOn
    <3>1. \A y \in Subscription : sub[y].periods \in Nat
      BY <1>4 DEF SubRecord
    <3> QED
      BY <2>2, <3>1 DEF PeriodsGoOn
  <2>6. \A u \in Send : SendShape(u)' /\ RowShape(u)' /\ PeriodClosed(u)'
    <3>1. \A u \in Send \ {s} : SendShape(u)' /\ RowShape(u)' /\ PeriodClosed(u)'
      BY <1>3, <1>6, <2>4, <2>5, OthersKeep
    <3>2. SendShape(s)'
      BY <1>1, <1>2, <1>5, <1>6, <1>13 DEF SendShape
    <3>3. RowShape(s)'
      BY <1>1, <1>2, <1>3, <1>5, <1>6, <1>7 DEF RowShape
    <3>4. PeriodClosed(s)'
      BY <1>2, <1>6, <2>1 DEF PeriodClosed
    <3> QED
      BY <3>1, <3>2, <3>3, <3>4
  <2>7. stamps' = Cardinality(Stamped)'
    BY <1>3, StampsKept
  <2>8. \A y \in Subscription : sub'[y].messagesSent <= Cardinality(PastSpend(y)')
    BY <1>9, <2>1, <2>2 DEF IInv, Right
  <2>9. SpendingIsExact'
    BY <1>3, <1>8, <2>1, <2>2, <2>3 DEF IInv, SpendingIsExact, Right
  <2> QED
    BY <2>4, <2>6, <2>7, <2>8, <2>9 DEF IInv
<1>12. CASE x \notin Token
  <2>1. x \in Subscription
    BY <1>2, <1>12 DEF Right
  <2>2. PICK ready \in BOOLEAN : ready = (sub[x].ready /\ ~SpendsFirst(s))
    OBVIOUS
  <2>3. sub' = [sub EXCEPT ![x].messagesSent = @ + 1, ![x].ready = ready] /\ token' = token
    BY <1>12, <1>13, <2>2 DEF Spend
  <2>4. /\ sub'[x].messagesSent = sub[x].messagesSent + 1 /\ sub'[x].ready = ready
        /\ sub'[x].periods = sub[x].periods
        /\ \A y \in Subscription \ {x} : sub'[y] = sub[y]
    BY <1>4, <2>1, <2>3 DEF SubRecord
  <2>5. sub[x].messagesSent \in Nat /\ sub[x].messagesSent <= Cardinality(PastSpend(x))
    BY <1>4, <2>1 DEF IInv, SubRecord
  <2>6. sub'[x].messagesSent \in 0..Cardinality(Send)
        /\ sub'[x].messagesSent <= Cardinality(PastSpend(x) \cup {s})
    BY <1>9, <1>10, <2>4, <2>5, SendsCount
  <2>7. sub' \in [Subscription -> SubRecord]
    BY <1>4, <2>1, <2>3, <2>4, <2>6 DEF SubRecord
  <2>8. TypeOK'
    BY <1>1, <1>3, <1>6, <2>3, <2>7 DEF TypeOK
  <2>9. PeriodsGoOn
    <3>1. \A y \in Subscription : sub[y].periods \in Nat
      BY <1>4 DEF SubRecord
    <3>2. ready => sub[x].ready
      BY <2>2
    <3>3. \A y \in Subscription \ {x} : sub'[y].periods = sub[y].periods
                                       /\ (sub'[y].ready => sub[y].ready)
      BY <2>4
    <3> QED
      BY <2>1, <2>4, <3>1, <3>2, <3>3 DEF PeriodsGoOn
  <2>10. \A u \in Send : SendShape(u)' /\ RowShape(u)' /\ PeriodClosed(u)'
    <3>1. \A u \in Send \ {s} : SendShape(u)' /\ RowShape(u)' /\ PeriodClosed(u)'
      BY <1>3, <1>6, <2>8, <2>9, OthersKeep
    <3>2. SendShape(s)'
      BY <1>1, <1>2, <1>5, <1>6, <1>13 DEF SendShape
    <3>3. RowShape(s)'
      BY <1>1, <1>2, <1>3, <1>5, <1>6, <1>7 DEF RowShape
    <3>4. PeriodClosed(s)'
      <4>1. send[s].kind = "recurring" => ~ready /\ period = sub'[x].periods
        BY <1>5, <2>1, <2>2, <2>4 DEF SpendsFirst
      <4>2. period \in Nat
        OBVIOUS
      <4> QED
        BY <1>6, <2>4, <4>1, <4>2 DEF PeriodClosed
    <3> QED
      BY <3>1, <3>2, <3>3, <3>4
  <2>11. stamps' = Cardinality(Stamped)'
    BY <1>3, StampsKept
  <2>12. \A y \in Subscription : sub'[y].messagesSent <= Cardinality(PastSpend(y)')
    BY <1>9, <2>4, <2>6 DEF IInv, Right
  <2>13. SpendingIsExact'
    <3> SUFFICES ASSUME faults' = 0
                 PROVE  /\ \A y \in Subscription : sub'[y].messagesSent = Cardinality(CountedOn(y)')
                        /\ \A t \in Token : token'[t].isUsed <=> CountedOn(t)' # {}
      BY DEF SpendingIsExact
    <3>1. /\ \A y \in Subscription : sub[y].messagesSent = Cardinality(CountedOn(y))
          /\ \A t \in Token : token[t].isUsed <=> CountedOn(t) # {}
      BY <1>3 DEF IInv, SpendingIsExact
    <3>2. sub'[x].messagesSent = Cardinality(CountedOn(x)')
      BY <1>8, <1>10, <2>1, <2>4, <3>1
    <3>3. \A y \in Subscription \ {x} : sub'[y].messagesSent = Cardinality(CountedOn(y)')
      BY <1>8, <2>4, <3>1 DEF Right
    <3>4. \A t \in Token : token'[t].isUsed <=> CountedOn(t)' # {}
      BY <1>8, <1>12, <2>3, <3>1 DEF Right
    <3> QED
      BY <3>2, <3>3, <3>4
  <2> QED
    BY <2>8, <2>10, <2>11, <2>12, <2>13 DEF IInv
<1> QED
  BY <1>11, <1>12

\* The subscription of a send that has spent its token is counted in the step that ends it.
LEMMA SpendAlsoKeeps ==
    ASSUME IInv, NEW s \in Send, SpendAlso(s)
    PROVE  IInv'
<1>1. /\ send[s].pc = "also" /\ SendShape(s) /\ RowShape(s) /\ PeriodClosed(s) /\ TypeOK
      /\ send[s].also \in Subscription \cup {None}
  BY DEF SpendAlso, IInv, TypeOK, SendRecord
<1>2. PICK x \in Subscription : x = send[s].also
  BY <1>1 DEF SendShape
<1>3. PICK z \in Token : z = send[s].right
  BY <1>1, <1>2, RightsDiffer DEF SendShape
<1>4. /\ send[s].accepted /\ send[s].kind \in {"api", "inbox"}
      /\ z # x /\ z \notin Subscription /\ x \in Right
  BY <1>1, <1>2, RightsDiffer DEF SendShape, Right
<1>5. UNCHANGED <<row, note, stamps, faults, token>>
  BY DEF SpendAlso, rows
<1>6. sub \in [Subscription -> SubRecord] /\ send \in [Send -> SendRecord]
  BY <1>1 DEF TypeOK
<1>7. PICK pc \in {"report", "done"} :
          /\ send' = [send EXCEPT ![s].ok = TRUE, ![s].pc = pc]
          /\ pc = "report" => send[s].kind = "inbox"
  BY DEF SpendAlso, Succeed, AfterFailure
<1>8. /\ send' \in [Send -> SendRecord]
      /\ send'[s].kind = send[s].kind /\ send'[s].right = send[s].right
      /\ send'[s].also = send[s].also /\ send'[s].pc = pc /\ send'[s].accepted = send[s].accepted
      /\ \A u \in Send \ {s} : send'[u] = send[u]
  BY <1>6, <1>7 DEF SendRecord, PC
<1>9. /\ \A y \in Right \ {x} : CountedOn(y)' = CountedOn(y)
      /\ CountedOn(x)' = CountedOn(x) \cup {s}
      /\ s \notin CountedOn(x)
  <2>1. \A u \in Send \ {s} : \A y : u \in CountedOn(y)' <=> u \in CountedOn(y)
    BY <1>8 DEF CountedOn, SpendsFirst
  <2>2. \A y : s \in CountedOn(y) <=> y = z
    BY <1>1, <1>4, <1>3 DEF CountedOn
  <2>3. \A y : s \in CountedOn(y)' <=> y = x \/ y = z
    BY <1>4, <1>7, <1>8, <1>2, <1>3 DEF CountedOn
  <2>4. \A y : CountedOn(y) \subseteq Send /\ CountedOn(y)' \subseteq Send
    BY DEF CountedOn
  <2> QED
    BY <1>4, <2>1, <2>2, <2>3, <2>4
<1>10. /\ \A y \in Subscription \ {x} : PastSpend(y)' = PastSpend(y)
      /\ PastSpend(x)' = PastSpend(x) \cup {s}
      /\ s \notin PastSpend(x)
  <2>1. \A u \in Send \ {s} : \A y : u \in PastSpend(y)' <=> u \in PastSpend(y)
    BY <1>8 DEF PastSpend, SpendsFirst
  <2>2. \A y : s \in PastSpend(y) <=> y = z
    BY <1>1, <1>4, <1>3 DEF PastSpend
  <2>3. \A y : s \in PastSpend(y)' <=> y = x \/ y = z
    BY <1>7, <1>8, <1>2, <1>3 DEF PastSpend
  <2>4. \A y : PastSpend(y) \subseteq Send /\ PastSpend(y)' \subseteq Send
    BY DEF PastSpend
  <2> QED
    BY <1>4, <2>1, <2>2, <2>3, <2>4
<1>11. /\ \A S \in SUBSET Send : s \notin S => /\ Cardinality(S) \in Nat
                                             /\ Cardinality(S \cup {s}) = Cardinality(S) + 1
                                             /\ Cardinality(S) + 1 <= Cardinality(Send)
      /\ CountedOn(x) \in SUBSET Send /\ PastSpend(x) \in SUBSET Send
  BY OneMore, SendsCount DEF CountedOn, PastSpend
<1>12. sub' = [sub EXCEPT ![x].messagesSent = @ + 1]
  BY <1>2 DEF SpendAlso
<1>13. /\ sub'[x].messagesSent = sub[x].messagesSent + 1
       /\ sub'[x].ready = sub[x].ready /\ sub'[x].periods = sub[x].periods
       /\ \A y \in Subscription \ {x} : sub'[y] = sub[y]
  BY <1>4, <1>6, <1>12 DEF SubRecord
<1>14. /\ sub[x].messagesSent \in Nat
       /\ sub'[x].messagesSent \in 0..Cardinality(Send)
       /\ sub'[x].messagesSent <= Cardinality(PastSpend(x)')
  <2>1. sub[x].messagesSent \in Nat /\ sub[x].messagesSent <= Cardinality(PastSpend(x))
    BY <1>4, <1>6 DEF IInv, SubRecord
  <2>2. PICK n \in Nat : n = Cardinality(PastSpend(x))
    BY <1>10, <1>11
  <2>3. Cardinality(PastSpend(x)') = n + 1 /\ n + 1 <= Cardinality(Send)
    BY <1>10, <1>11, <2>2
  <2> QED
    BY <1>13, <2>1, <2>2, <2>3, SendsCount
<1>15. TypeOK'
  <2>1. sub' \in [Subscription -> SubRecord]
    BY <1>4, <1>6, <1>12, <1>13, <1>14 DEF SubRecord
  <2> QED
    BY <1>1, <1>5, <1>8, <2>1 DEF TypeOK
<1>16. PeriodsGoOn
  <2>1. \A y \in Subscription : sub[y].periods \in Nat
    BY <1>6 DEF SubRecord
  <2>2. \A y \in Subscription : sub'[y].periods = sub[y].periods /\ sub'[y].ready = sub[y].ready
    BY <1>13
  <2> QED
    BY <2>1, <2>2 DEF PeriodsGoOn
<1>17. \A u \in Send : SendShape(u)' /\ RowShape(u)' /\ PeriodClosed(u)'
  <2>1. \A u \in Send \ {s} : SendShape(u)' /\ RowShape(u)' /\ PeriodClosed(u)'
    BY <1>5, <1>8, <1>15, <1>16, OthersKeep
  <2>2. SendShape(s)'
    BY <1>4, <1>7, <1>8, <1>3 DEF SendShape
  <2>3. RowShape(s)'
    BY <1>1, <1>5, <1>7, <1>8 DEF RowShape
  <2>4. PeriodClosed(s)'
    BY <1>4, <1>8 DEF PeriodClosed
  <2> QED
    BY <2>1, <2>2, <2>3, <2>4
<1>18. stamps' = Cardinality(Stamped)'
  BY <1>5, StampsKept
<1>19. \A y \in Subscription : sub'[y].messagesSent <= Cardinality(PastSpend(y)')
  BY <1>10, <1>13, <1>14 DEF IInv
<1>20. SpendingIsExact'
  <2> SUFFICES ASSUME faults' = 0
               PROVE  /\ \A y \in Subscription : sub'[y].messagesSent = Cardinality(CountedOn(y)')
                      /\ \A t \in Token : token'[t].isUsed <=> CountedOn(t)' # {}
    BY DEF SpendingIsExact
  <2>1. /\ \A y \in Subscription : sub[y].messagesSent = Cardinality(CountedOn(y))
        /\ \A t \in Token : token[t].isUsed <=> CountedOn(t) # {}
    BY <1>5 DEF IInv, SpendingIsExact
  <2>2. sub'[x].messagesSent = Cardinality(CountedOn(x)')
    BY <1>4, <1>9, <1>11, <1>13, <2>1
  <2>3. \A y \in Subscription \ {x} : sub'[y].messagesSent = Cardinality(CountedOn(y)')
    BY <1>9, <1>13, <2>1 DEF Right
  <2>4. \A t \in Token : token'[t].isUsed <=> CountedOn(t)' # {}
    BY <1>4, <1>5, <1>9, <2>1, RightsDiffer DEF Right
  <2> QED
    BY <2>2, <2>3, <2>4
<1> QED
  BY <1>15, <1>17, <1>18, <1>19, <1>20 DEF IInv

-----------------------------------------------------------------------------
(* The inductive invariant.                                                *)

LEMMA InitInv ==
    ASSUME Init
    PROVE  IInv
<1>1. TypeOK
  BY TypeInit
<1>2. ASSUME NEW s \in Send
      PROVE  SendShape(s) /\ RowShape(s) /\ PeriodClosed(s)
  <2>1. send[s] = FreeSend /\ row[s] = NoRow
    BY DEF Init
  <2>2. /\ send[s].kind = "api" /\ send[s].pc = "free" /\ ~send[s].accepted
        /\ send[s].also = None
    BY <2>1 DEF FreeSend
  <2>3. ~row[s].fbMessageId /\ row[s].status = "NONE" /\ row[s].sentAt = 0
    BY <2>1 DEF NoRow
  <2> QED
    BY <2>2, <2>3 DEF SendShape, RowShape, PeriodClosed
<1>3. Stamped = {}
  BY DEF Stamped, Init, NoRow
<1>4. \A x : PastSpend(x) = {} /\ CountedOn(x) = {}
  BY DEF PastSpend, CountedOn, Init, FreeSend
<1>5. Cardinality({}) = 0
  BY FS_EmptySet
<1>6. \A x \in Subscription : sub[x].messagesSent = 0
  BY DEF Init, NoSubscription
<1>7. \A t \in Token : ~token[t].isUsed
  BY DEF Init, NoToken
<1>8. SpendingIsExact
  BY <1>4, <1>5, <1>6, <1>7 DEF SpendingIsExact
<1> QED
  BY <1>1, <1>2, <1>3, <1>4, <1>5, <1>6, <1>8 DEF IInv, Init

LEMMA NextKeeps ==
    ASSUME IInv, Next
    PROVE  IInv'
<1>1. ASSUME NEW s \in Send, Begins(s) \/ SendStep(s) \/ SendFails(s) \/ AnswerLost(s)
      PROVE  IInv'
  BY <1>1, BeginsKeep, AskKeeps, WriteExpiredKeeps, OneAwaitKeeps, AcceptedKeeps,
     WriteSentKeeps, SpendKeeps, SpendAlsoKeeps, SendFailsKeeps DEF SendStep
<1>2. CASE Webhook
  <2>1. \A x \in Subscription : {x} \in SUBSET Subscription
    OBVIOUS
  <2>2. Subscription \in SUBSET Subscription
    OBVIOUS
  <2> QED
    BY <1>2, <2>1, <2>2, ReceiptsKeep, EventsKeep DEF Webhook
<1>3. CASE \E x \in Subscription : Lapse(x) \/ PeriodEnds(x)
  BY <1>3, EventsKeep
<1>4. CASE Crash
  BY <1>4, CrashKeeps
<1> QED
  BY <1>1, <1>2, <1>3, <1>4 DEF Next

LEMMA StutterKeeps ==
    ASSUME IInv, UNCHANGED vars
    PROVE  IInv'
<1>1. UNCHANGED <<send, row, note, token, sub, stamps, faults>>
  BY DEF vars
<1>2. token' \in [Token -> TokenRecord] /\ sub' \in [Subscription -> SubRecord]
  BY <1>1 DEF IInv, TypeOK
<1>3. PeriodsGoOn
  BY <1>1, <1>2 DEF PeriodsGoOn, SubRecord
<1> QED
  BY <1>1, <1>2, <1>3, RightChangeKeeps

\* The inductive invariant holds in every state of every behaviour: what a send has done by
\* each of its awaits, what its row says by then, and that what was spent is what was
\* accepted.
THEOREM SendingInvariance == Spec => []IInv
<1>1. Init => IInv
  BY InitInv
<1>2. IInv /\ [Next]_vars => IInv'
  BY NextKeeps, StutterKeeps
<1> QED
  BY <1>1, <1>2, PTL DEF Spec

-----------------------------------------------------------------------------
(* The safety invariants.                                                  *)

\* Every variable keeps its type; in particular a subscription never counts more messages,
\* and no more rows are stamped, than there are sends.
THEOREM TypeCorrect == Spec => []TypeOK
<1>1. IInv => TypeOK
  BY DEF IInv
<1> QED
  BY <1>1, SendingInvariance, PTL

\* A row never claims what did not happen, and never forgets it without a fault: a row that
\* is sent, delivered or read belongs to a message that the Graph API accepted, whatever
\* receipts came in between, and an accepted send that is over without a fault has such a
\* row (SendApiService.sendMessage, handleDelivery, handleRead).
THEOREM RowsTellTheOutcome == Spec => []RowTellsOutcome
<1>1. ASSUME IInv
      PROVE  RowTellsOutcome
  <2>1. ASSUME NEW s \in Send
        PROVE  /\ row[s].status \in Stages => send[s].accepted /\ row[s].fbMessageId
               /\ row[s].fbMessageId => row[s].status \in Stages
               /\ (faults = 0 /\ send[s].pc = "done" /\ send[s].accepted)
                    => row[s].status \in Stages
    <3>1. RowShape(s)
      BY <1>1 DEF IInv
    <3>2. "NONE" \notin Stages /\ "PENDING" \notin Stages
      BY DEF Stages
    <3> QED
      BY <3>1, <3>2 DEF RowShape
  <2> QED
    BY <2>1 DEF RowTellsOutcome
<1> QED
  BY <1>1, SendingInvariance, PTL

\* While nothing failed, messagesSent is the number of accepted messages on a subscription,
\* and a one-time token that carried one is used, for any number of sends at a time.
THEOREM SpendingExact == Spec => []SpendingIsExact
<1>1. IInv => SpendingIsExact
  BY DEF IInv
<1> QED
  BY <1>1, SendingInvariance, PTL

-----------------------------------------------------------------------------
(* The action properties.                                                  *)

LEMMA StageNumbers ==
    /\ Stage("NONE") = 0 /\ Stage("PENDING") = 1 /\ Stage("SENT") = 2
    /\ Stage("DELIVERED") = 3 /\ Stage("READ") = 4
    /\ \A status \in MessageStatus : Stage(status) \in Nat
<1>1. Stage("NONE") = 0
  BY DEF Stage
<1>2. Stage("PENDING") = 1
  BY DEF Stage
<1>3. Stage("SENT") = 2
  BY DEF Stage
<1>4. Stage("DELIVERED") = 3
  BY DEF Stage
<1>5. Stage("READ") = 4
  BY DEF Stage
<1>6. Stage("FAILED") = 4
  BY DEF Stage
<1> QED
  BY <1>1, <1>2, <1>3, <1>4, <1>5, <1>6 DEF MessageStatus

\* Which rows a step may move, and from where to where.
LEMMA StatusSteps ==
    ASSUME IInv, [Next]_vars, NEW s \in Send
    PROVE  \/ row'[s].status = row[s].status
           \/ row[s].status = "NONE" /\ row'[s].status = "PENDING"
           \/ row[s].status \in {"NONE", "PENDING"} /\ row'[s].status = "SENT"
           \/ row[s].status \in {"PENDING", "SENT"} /\ row'[s].status = "DELIVERED"
           \/ row[s].status \in {"SENT", "DELIVERED"} /\ row'[s].status = "READ"
<1>1. row \in [Send -> RowRecord]
  BY DEF IInv, TypeOK
<1>2. CASE row' = row
  BY <1>2
<1>3. ASSUME NEW u \in Send, CreateRow(u)
      PROVE  row'[s].status = row[s].status
             \/ (row[s].status = "NONE" /\ row'[s].status = "PENDING")
  <2>1. row[u].status = "NONE" /\ row' = [row EXCEPT ![u].status = "PENDING"]
    BY <1>3 DEF CreateRow, IInv, RowShape
  <2> QED
    BY <1>1, <2>1 DEF RowRecord
<1>4. ASSUME NEW u \in Send, WriteSent(u)
      PROVE  row'[s].status = row[s].status
             \/ (row[s].status \in {"NONE", "PENDING"} /\ row'[s].status = "SENT")
  <2>1. RowShape(u) /\ send[u].pc = "sent"
    BY <1>4 DEF WriteSent, IInv
  <2>2. row[u].status \in {"NONE", "PENDING"}
    BY <2>1 DEF RowShape
  <2>3. row' = [row EXCEPT ![u] = [status |-> "SENT", fbMessageId |-> TRUE,
                                   sentAt |-> stamps + 1]]
    BY <1>4 DEF WriteSent
  <2>4. CASE u = s
    BY <1>1, <2>2, <2>3, <2>4
  <2>5. CASE u # s
    BY <1>1, <2>3, <2>5
  <2> QED
    BY <2>4, <2>5
<1>5. ASSUME NEW these, NEW from, NEW to, Restate(these, from, to)
      PROVE  row'[s].status = row[s].status
             \/ (row[s].status \in from /\ row'[s].status = to)
  <2>1. row'[s] = IF s \in these /\ row[s].status \in from
                    THEN [row[s] EXCEPT !.status = to] ELSE row[s]
    BY <1>5 DEF Restate
  <2>2. row[s] \in RowRecord
    BY <1>1
  <2> QED
    BY <2>1, <2>2 DEF RowRecord
<1>6. CASE Webhook
  BY <1>2, <1>5, <1>6 DEF Webhook, DeliverIds, DeliverUpTo, ReadUpTo, OptInToken, OptIn,
                          OptOut, rows
<1>7. ASSUME NEW u \in Send, SendStep(u), ~CreateRow(u), ~WriteSent(u)
      PROVE  row' = row
  BY <1>7 DEF SendStep, Ask, WriteExpired, StoreNote, Refused, GraphAccepts, GraphRefuses,
              Spend, SpendAlso, Report, rows
<1>8. ASSUME NEW u \in Send, Begins(u) \/ SendFails(u) \/ AnswerLost(u)
      PROVE  row' = row
  BY <1>8 DEF Begins, BeginApi, BeginInbox, BeginRequest, BeginOtn, BeginRecurring, Begin,
              SendFails, AnswerLost, rows
<1>9. CASE (\E x \in Subscription : Lapse(x) \/ PeriodEnds(x)) \/ Crash \/ UNCHANGED vars
  BY <1>2, <1>9 DEF Lapse, PeriodEnds, Crash, vars, rows
<1> QED
  BY <1>2, <1>3, <1>4, <1>6, <1>7, <1>8, <1>9 DEF Next

\* The status of a message never goes back, however its send and the receipts by id and by
\* watermark interleave.
THEOREM StatusNeverGoesBack == Spec => StatusMovesForward
<1>1. ASSUME IInv, [Next]_vars, NEW s \in Send
      PROVE  Stage(row'[s].status) >= Stage(row[s].status)
  <2>1. row[s].status \in MessageStatus
    BY <1>1 DEF IInv, TypeOK, RowRecord
  <2>2. Stage(row[s].status) \in Nat
    BY <2>1, StageNumbers
  <2>3. CASE row'[s].status = row[s].status
    BY <2>2, <2>3
  <2>4. CASE row'[s].status # row[s].status
    BY <1>1, <2>4, StatusSteps, StageNumbers
  <2> QED
    BY <2>3, <2>4
<1>2. IInv /\ [Next]_vars
        => [\A s \in Send : Stage(row'[s].status) >= Stage(row[s].status)]_vars
  BY <1>1
<1> QED
  BY <1>2, SendingInvariance, PTL DEF Spec, StatusMovesForward

\* A send leaves "free" by its own beginning only.
LEMMA OnlyABeginningBegins ==
    ASSUME IInv, [Next]_vars, NEW s \in Send, send[s].pc = "free", send'[s].pc # "free"
    PROVE  Begins(s)
<1>1. send \in [Send -> SendRecord]
  BY DEF IInv, TypeOK
<1>2. ASSUME NEW u \in Send, SendStep(u) \/ SendFails(u) \/ AnswerLost(u)
      PROVE  send[u].pc # "free"
  BY <1>2 DEF SendStep, Ask, WriteExpired, StoreNote, Refused, CreateRow, GraphAccepts,
              GraphRefuses, WriteSent, Spend, SpendAlso, Report, SendFails, AnswerLost
<1>3. ASSUME NEW u \in Send, u # s, Begins(u)
      PROVE  send'[s] = send[s]
  BY <1>1, <1>3 DEF Begins, BeginApi, BeginInbox, BeginRequest, BeginOtn, BeginRecurring, Begin
<1>4. ASSUME NEW u \in Send, u # s, SendStep(u) \/ SendFails(u) \/ AnswerLost(u)
      PROVE  send'[s] = send[s]
  <2>1. CASE Ask(u) \/ WriteExpired(u) \/ StoreNote(u) \/ Refused(u) \/ CreateRow(u)
    BY <1>1, <1>4, <2>1 DEF Ask, WriteExpired, StoreNote, Refused, CreateRow, Continue
  <2>2. CASE GraphAccepts(u) \/ GraphRefuses(u) \/ Report(u) \/ SendFails(u) \/ AnswerLost(u)
    BY <1>1, <1>4, <2>2 DEF GraphAccepts, GraphRefuses, Report, SendFails, AnswerLost, Continue
  <2>3. CASE WriteSent(u) \/ Spend(u) \/ SpendAlso(u)
    BY <1>1, <1>4, <2>3 DEF WriteSent, Spend, SpendAlso, Succeed, Continue
  <2> QED
    BY <1>4, <2>1, <2>2, <2>3 DEF SendStep
<1>5. CASE Webhook \/ (\E x \in Subscription : Lapse(x) \/ PeriodEnds(x)) \/ UNCHANGED vars
  <2>1. send' = send
    BY <1>5 DEF Webhook, DeliverIds, DeliverUpTo, ReadUpTo, Restate, OptInToken, OptIn, OptOut,
                Lapse, PeriodEnds, vars
  <2> QED
    BY <2>1
<1>6. CASE Crash
  BY <1>6 DEF Crash
<1> QED
  BY <1>2, <1>3, <1>4, <1>5, <1>6 DEF Next

\* A right that was spent is refused: after an accepted message on a one-time token, or on a
\* subscription in the same period, no send that begins later gets to the Graph API with it.
THEOREM SpentStaysSpent == Spec => SpentIsRefused
<1>1. ASSUME IInv, [Next]_vars, NEW s \in Send, NEW u \in Send,
             faults = 0, send[s].pc = "free", send'[s].pc = "prepare",
             send'[s].kind \in {"otn", "recurring"}
      PROVE  ~SpentBy(u, send'[s].right)
  <2>1. Begins(s) /\ TypeOK
    BY <1>1, OnlyABeginningBegins DEF IInv
  <2>2. ASSUME NEW kind \in Kind, NEW x \in Right \cup {None},
               NEW y \in Subscription \cup {None}, NEW pc \in PC, Begin(s, kind, x, y, pc)
        PROVE  send'[s].kind = kind /\ send'[s].right = x /\ send'[s].pc = pc
    BY <2>1, <2>2, BegunSends
  <2>3. ASSUME NEW t \in Token, BeginOtn(s, t)
        PROVE  ~SpentBy(u, send'[s].right)
    <3>1. send'[s].right = t /\ ~token[t].isUsed
      BY <2>2, <2>3 DEF BeginOtn, Kind, PC, Right
    <3>2. CountedOn(t) = {}
      BY <1>1, <3>1 DEF IInv, SpendingIsExact
    <3>3. t \notin Subscription
      BY RightsDiffer
    <3> QED
      BY <3>1, <3>2, <3>3 DEF SpentBy, CountedOn
  <2>4. ASSUME NEW x \in Subscription, BeginRecurring(s, x)
        PROVE  ~SpentBy(u, send'[s].right)
    <3>1. send'[s].right = x
      <4>1. PICK pc \in PC : Begin(s, "recurring", x, None, pc)
        BY <2>4 DEF BeginRecurring, PC
      <4> QED
        BY <2>2, <4>1 DEF Kind, Right
    <3>2. sub[x].ready
      <4>1. CASE sub[x].lapsed
        <5>1. Begin(s, "recurring", x, None, "expire")
          BY <2>4, <4>1 DEF BeginRecurring
        <5> QED
          BY <1>1, <2>2, <5>1 DEF Kind, Right, PC
      <4>2. CASE ~sub[x].lapsed
        BY <2>4, <4>2 DEF BeginRecurring
      <4> QED
        BY <4>1, <4>2
    <3>3. x \notin Token
      BY RightsDiffer
    <3>4. PeriodClosed(u)
      BY <1>1 DEF IInv
    <3> QED
      BY <1>1, <3>1, <3>2, <3>3, <3>4 DEF SpentBy, PeriodClosed
  <2>5. ASSUME NEW x \in Right \cup {None}, NEW y \in Subscription \cup {None},
               BeginApi(s, x, y) \/ BeginInbox(s, x, y) \/ BeginRequest(s, x)
        PROVE  FALSE
    <3>1. PICK kind \in {"api", "inbox", "request"}, z \in Subscription \cup {None}, pc \in PC :
              Begin(s, kind, x, z, pc)
      BY <2>5 DEF BeginApi, BeginInbox, BeginRequest, PC
    <3> QED
      BY <1>1, <2>2, <3>1 DEF Kind
  <2> QED
    BY <2>1, <2>3, <2>4, <2>5 DEF Begins
<1> DEFINE Refuses ==
        \A s, u \in Send :
            (/\ faults = 0
             /\ send[s].pc = "free" /\ send'[s].pc = "prepare"
             /\ send'[s].kind \in {"otn", "recurring"})
                => ~SpentBy(u, send'[s].right)
<1>2. IInv /\ [Next]_vars => [Refuses]_vars
  BY <1>1
<1> QED
  BY <1>2, SendingInvariance, PTL DEF Spec, SpentIsRefused
=============================================================================
