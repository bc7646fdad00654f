---------------------------- MODULE SessionsProofs ----------------------------
(***************************************************************************)
(* Theorems about Sessions, for any sets of sessions and operations and    *)
(* any number of refresh tokens and faults.                                *)
(***************************************************************************)
EXTENDS Sessions, TLAPS

-----------------------------------------------------------------------------
(* Type correctness.                                                       *)

SessionRecord == [row: {"none", "live", "gone"}, expired: BOOLEAN, token: 0..MaxTokens,
                  late: BOOLEAN]
OpRecord == [kind: Kind, pc: PC, session: Session \cup {None}, token: 0..MaxTokens,
             found: SUBSET Session]

LEMMA Fresh0 == FreeOp \in OpRecord /\ Fresh \in SessionRecord
BY BoundsAreNats DEF FreeOp, Fresh, OpRecord, SessionRecord, Kind, PC

\* The ways an operation writes its own record.
LEMMA OpWrites ==
    ASSUME op \in [Op -> OpRecord], NEW o \in Op
    PROVE  /\ \A pc \in PC : Goto(o, pc) => op' \in [Op -> OpRecord]
           /\ Finish(o) => op' \in [Op -> OpRecord]
           /\ \A kind \in Kind, pc \in PC, s \in Session \cup {None} :
                  Begin(o, kind, pc, s) => op' \in [Op -> OpRecord]
<1>1. ASSUME NEW pc \in PC, Goto(o, pc) PROVE op' \in [Op -> OpRecord]
  BY <1>1 DEF Goto, OpRecord
<1>2. ASSUME Finish(o) PROVE op' \in [Op -> OpRecord]
  <2>1. [FreeOp EXCEPT !.kind = op[o].kind, !.pc = "done"] \in OpRecord
    BY Fresh0 DEF OpRecord, PC
  <2> QED
    BY <1>2, <2>1 DEF Finish
<1>3. ASSUME NEW kind \in Kind, NEW pc \in PC, NEW s \in Session \cup {None},
             Begin(o, kind, pc, s)
      PROVE  op' \in [Op -> OpRecord]
  <2>1. [FreeOp EXCEPT !.kind = kind, !.pc = pc, !.session = s] \in OpRecord
    BY Fresh0 DEF OpRecord
  <2> QED
    BY <1>3, <2>1 DEF Begin
<1> QED
  BY <1>1, <1>2, <1>3

\* What is in it afterwards.
LEMMA OpReads ==
    ASSUME op \in [Op -> OpRecord], NEW o \in Op
    PROVE  /\ \A pc : Goto(o, pc) => /\ op'[o].pc = pc
                                     /\ op'[o].kind = op[o].kind /\ op'[o].session = op[o].session
                                     /\ op'[o].token = op[o].token /\ op'[o].found = op[o].found
           /\ Finish(o) => /\ op'[o].pc = "done"
                           /\ op'[o].kind = op[o].kind /\ op'[o].session = None
                           /\ op'[o].token = 0 /\ op'[o].found = {}
           /\ \A kind, pc, s : Begin(o, kind, pc, s) =>
                  /\ op[o].pc = "free" /\ op'[o].pc = pc
                  /\ op'[o].kind = kind /\ op'[o].session = s
                  /\ op'[o].token = 0 /\ op'[o].found = {}
<1>1. ASSUME NEW pc, Goto(o, pc)
      PROVE  /\ op'[o].pc = pc
             /\ op'[o].kind = op[o].kind /\ op'[o].session = op[o].session
             /\ op'[o].token = op[o].token /\ op'[o].found = op[o].found
  BY <1>1 DEF Goto, OpRecord
<1>2. ASSUME Finish(o)
      PROVE  /\ op'[o].pc = "done"
             /\ op'[o].kind = op[o].kind /\ op'[o].session = None
             /\ op'[o].token = 0 /\ op'[o].found = {}
  BY <1>2 DEF Finish, FreeOp
<1>3. ASSUME NEW kind, NEW pc, NEW s, Begin(o, kind, pc, s)
      PROVE  /\ op[o].pc = "free" /\ op'[o].pc = pc
             /\ op'[o].kind = kind /\ op'[o].session = s
             /\ op'[o].token = 0 /\ op'[o].found = {}
  BY <1>3 DEF Begin, At, FreeOp
<1> QED
  BY <1>1, <1>2, <1>3

LEMMA DeletedType ==
    ASSUME session \in [Session -> SessionRecord], NEW these
    PROVE  Deleted(these) \in [Session -> SessionRecord]
<1>1. \A s \in Session : [session[s] EXCEPT !.row = "gone"] \in SessionRecord
  BY DEF SessionRecord
<1> QED
  BY <1>1 DEF Deleted

LEMMA TypeInit == Init => TypeOK
<1> SUFFICES ASSUME Init PROVE TypeOK
  OBVIOUS
<1>1. session \in [Session -> SessionRecord]
  BY Fresh0 DEF Init
<1>2. op \in [Op -> OpRecord]
  BY Fresh0 DEF Init
<1>3. account \in Account /\ cache \in SUBSET Session /\ leftover \in SUBSET Session
      /\ contended \in BOOLEAN
  BY DEF Init, Account
<1>5. issued \in 0..MaxTokens /\ faults \in 0..MaxFaults
  BY BoundsAreNats DEF Init
<1>4. stored \in [session: Session \cup {None}, token: 0..MaxTokens]
  BY BoundsAreNats DEF Init, NoToken
<1> QED
  BY <1>1, <1>2, <1>3, <1>4, <1>5 DEF TypeOK, SessionRecord, OpRecord

\* An operation that is about to cache or to answer has a session.
Named == \A o \in Op : op[o].pc \in {"cache", "store"} => op[o].session # None

LEMMA BeginsType ==
    ASSUME TypeOK, NEW o \in Op, Begins(o)
    PROVE  TypeOK'
<1>1. op \in [Op -> OpRecord]
  BY DEF TypeOK, OpRecord
<1>2. CASE Refresh(o)
  <2>1. [FreeOp EXCEPT !.kind = "refresh", !.pc = "readRow", !.session = stored.session,
                       !.token = stored.token] \in OpRecord
    BY Fresh0 DEF TypeOK, OpRecord, Kind, PC
  <2>2. op' \in [Op -> OpRecord]
    BY <1>1, <1>2, <2>1 DEF Refresh
  <2> QED
    BY <1>2, <2>2 DEF Refresh, TypeOK, OpRecord, Refreshing, entries
<1>3. CASE ~Refresh(o)
  <2>1. op' \in [Op -> OpRecord]
    BY <1>1, <1>3, OpWrites DEF Begins, BeginStatus, Login, LogoutAll, DeleteAll, Validate, Logout,
       TerminateSession,
       Kind, PC
  <2>2. UNCHANGED <<account, session, entries, issued, browser, faults>>
    BY <1>3 DEF Begins, BeginStatus, Login, LogoutAll, DeleteAll, Validate, Logout, TerminateSession
  <2> QED
    BY <2>1, <2>2 DEF TypeOK, OpRecord, browser, entries
<1> QED
  BY <1>2, <1>3

LEMMA StepType ==
    ASSUME TypeOK, Named, NEW o \in Op, OpStep(o)
    PROVE  TypeOK'
<1>0. /\ op \in [Op -> OpRecord] /\ op[o] \in OpRecord
      /\ session \in [Session -> SessionRecord]
  BY DEF TypeOK, OpRecord, SessionRecord
<1>1. CASE WriteStatus(o)
  BY <1>0, <1>1, OpWrites DEF WriteStatus, TypeOK, OpRecord, Account, PC, browser, entries
<1>2. CASE DeleteUser(o)
  BY <1>0, <1>2, OpWrites, DeletedType DEF DeleteUser, Rows, TypeOK, OpRecord, SessionRecord,
     Account,
     browser, entries
<1>3. CASE WriteLastLogin(o)
  BY <1>0, <1>3, OpWrites DEF WriteLastLogin, TypeOK, OpRecord, PC, browser, entries
<1>4. ASSUME NEW s \in Session, CreateSession(o, s) PROVE TypeOK'
  <2>1. CASE account = "deleted"
    BY <1>0, <1>4, <2>1, OpWrites DEF CreateSession, TypeOK, OpRecord, browser, entries
  <2>2. CASE account # "deleted"
    <3>1. issued' \in 0..MaxTokens
      BY <1>4, <2>2, BoundsAreNats DEF CreateSession, TypeOK
    <3>2. session' \in [Session -> SessionRecord]
      <4>1. issued + 1 \in 0..MaxTokens
        BY <1>4, <2>2, <3>1 DEF CreateSession
      <4>2. [row |-> "live", expired |-> FALSE, token |-> issued + 1, late |-> account # "ACTIVE"]
              \in SessionRecord
        BY <4>1 DEF SessionRecord
      <4> QED
        BY <1>0, <1>4, <2>2, <4>2 DEF CreateSession
    <3>3. op' \in [Op -> OpRecord]
      <4>1. issued + 1 \in 0..MaxTokens
        BY <1>4, <2>2, <3>1 DEF CreateSession
      <4>2. [op[o] EXCEPT !.pc = "cache", !.session = s, !.token = issued + 1] \in OpRecord
        BY <1>0, <1>4, <4>1 DEF OpRecord, PC
      <4>3. op' = [op EXCEPT ![o] = [op[o] EXCEPT !.pc = "cache", !.session = s,
                                                  !.token = issued + 1]]
        BY <1>0, <1>4, <2>2 DEF CreateSession
      <4> QED
        BY <1>0, <4>2, <4>3
    <3> QED
      BY <1>4, <3>1, <3>2, <3>3 DEF CreateSession, TypeOK, OpRecord, SessionRecord, browser, entries
  <2> QED
    BY <2>1, <2>2
<1>5. ASSUME NEW s \in Session, ClearEntry(o, s) PROVE TypeOK'
  <2>1. op' \in [Op -> OpRecord]
    <3>1. CASE Finish(o)
      BY <1>0, <3>1, OpWrites
    <3>2. CASE op' = [op EXCEPT ![o].found = @ \ {s}]
      BY <1>0, <3>2 DEF OpRecord
    <3> QED
      BY <1>5, <3>1, <3>2 DEF ClearEntry
  <2> QED
    BY <1>5, <2>1 DEF ClearEntry, TypeOK, OpRecord, browser, entries
<1>6. CASE CacheSession(o)
  <2>1. op[o].session \in Session
    BY <1>0, <1>6 DEF OpRecord, CacheSession, At, Named
  <2> QED
    BY <1>0, <1>6, <2>1, OpWrites DEF CacheSession, TypeOK, OpRecord, PC, browser, entries
<1>7. CASE SetTokens(o)
  BY <1>0, <1>7, OpWrites DEF SetTokens, TypeOK, OpRecord, entries
<1>8. CASE ReadForRefresh(o)
  BY <1>0, <1>8, OpWrites DEF ReadForRefresh, TypeOK, OpRecord, PC, browser, entries
<1>9. CASE Rotate(o)
  <2>0. UNCHANGED <<account, entries, browser, faults>>
    BY <1>9 DEF Rotate
  <2>1. CASE Live(op[o].session)
    <3>1. issued + 1 \in 0..MaxTokens /\ issued' = issued + 1
      BY <1>9, <2>1, BoundsAreNats DEF Rotate, TypeOK
    <3>2. op[o].session \in Session
      BY <1>0, <2>1 DEF Live, OpRecord
    <3>3. session' = [session EXCEPT ![op[o].session] =
                        [session[op[o].session] EXCEPT !.token = issued + 1, !.expired = FALSE]]
      BY <1>0, <1>9, <2>1, <3>2 DEF Rotate
    <3>4. [session[op[o].session] EXCEPT !.token = issued + 1, !.expired = FALSE] \in SessionRecord
      BY <1>0, <3>1, <3>2 DEF SessionRecord
    <3>5. session' \in [Session -> SessionRecord]
      BY <1>0, <3>3, <3>4
    <3>6. op' = [op EXCEPT ![o] = [op[o] EXCEPT !.pc = "cache", !.token = issued + 1]]
      BY <1>0, <1>9, <2>1 DEF Rotate
    <3>7. [op[o] EXCEPT !.pc = "cache", !.token = issued + 1] \in OpRecord
      BY <1>0, <3>1 DEF OpRecord, PC
    <3>8. op' \in [Op -> OpRecord]
      BY <1>0, <3>6, <3>7
    <3> QED
      BY <2>0, <3>1, <3>5, <3>8 DEF TypeOK, OpRecord, SessionRecord, browser, entries
  <2>2. CASE ~Live(op[o].session)
    <3>1. UNCHANGED <<issued, session>> /\ Goto(o, "reject")
      BY <1>9, <2>2 DEF Rotate
    <3>2. op' \in [Op -> OpRecord]
      BY <1>0, <3>1, OpWrites DEF PC
    <3> QED
      BY <2>0, <3>1, <3>2 DEF TypeOK, OpRecord, browser, entries
  <2> QED
    BY <2>1, <2>2
<1>10. CASE ClearTokens(o)
  BY <1>0, <1>10, OpWrites, BoundsAreNats DEF ClearTokens, TypeOK, OpRecord, NoToken, entries
<1>11. CASE ReadForValidate(o)
  BY <1>0, <1>11, OpWrites DEF ReadForValidate, TypeOK, OpRecord, PC, browser, entries
<1>12. CASE DeleteRow(o)
  <2>1. op' \in [Op -> OpRecord]
    <3>1. CASE op[o].kind = "logout" /\ Live(op[o].session)
      <4>1. op' = [op EXCEPT ![o] = [op[o] EXCEPT !.pc = "clear", !.found = {op[o].session}]]
        BY <1>0, <1>12, <3>1 DEF DeleteRow
      <4>2. [op[o] EXCEPT !.pc = "clear", !.found = {op[o].session}] \in OpRecord
        BY <1>0, <3>1 DEF OpRecord, PC, Live
      <4> QED
        BY <1>0, <4>1, <4>2
    <3>2. CASE ~(op[o].kind = "logout" /\ Live(op[o].session))
      <4>1. Goto(o, "reject") \/ Finish(o)
        BY <1>12, <3>2 DEF DeleteRow
      <4> QED
        BY <1>0, <4>1, OpWrites DEF PC
    <3> QED
      BY <3>1, <3>2
  <2>2. session' \in [Session -> SessionRecord]
    BY <1>0, <1>12, DeletedType DEF DeleteRow
  <2> QED
    BY <1>12, <2>1, <2>2 DEF DeleteRow, Rows, TypeOK, OpRecord, SessionRecord, browser, entries
<1>13. CASE FindAll(o)
  BY <1>0, <1>13 DEF FindAll, Rows, TypeOK, OpRecord, PC, browser, entries
<1>14. CASE DeleteRows(o)
  BY <1>0, <1>14, OpWrites, DeletedType DEF DeleteRows, Rows, TypeOK, OpRecord, SessionRecord, PC,
     browser, entries
<1> QED
  BY <1>1, <1>2, <1>3, <1>4, <1>5, <1>6, <1>7, <1>8, <1>9, <1>10, <1>11, <1>12, <1>13, <1>14
     DEF OpStep

\* What time, a new account and a fault write.
LEMMA OtherType ==
    ASSUME TypeOK,
           \/ UserSignup
           \/ \E o \in Op : OpFails(o)
           \/ \E s \in Session : EntryExpires(s) \/ SessionExpires(s)
    PROVE  TypeOK'
<1>0. op \in [Op -> OpRecord] /\ session \in [Session -> SessionRecord]
  BY DEF TypeOK, OpRecord, SessionRecord
<1>1. CASE UserSignup
  BY <1>1 DEF UserSignup, TypeOK, Account, browser, entries
<1>2. ASSUME NEW o \in Op, OpFails(o) PROVE TypeOK'
  <2>1. op' \in [Op -> OpRecord]
    BY <1>0, <1>2, OpWrites DEF OpFails, PC
  <2>2. faults' \in 0..MaxFaults
    BY <1>2, BoundsAreNats DEF OpFails, Fault, TypeOK
  <2> QED
    BY <1>2, <2>1, <2>2 DEF OpFails, TypeOK, OpRecord, browser, entries
<1>3. ASSUME NEW s \in Session, EntryExpires(s) PROVE TypeOK'
  BY <1>3 DEF EntryExpires, TypeOK, browser, entries
<1>4. ASSUME NEW s \in Session, SessionExpires(s) PROVE TypeOK'
  <2>1. [session[s] EXCEPT !.expired = TRUE] \in SessionRecord
    BY <1>0 DEF SessionRecord
  <2>2. session' \in [Session -> SessionRecord]
    BY <1>0, <1>4, <2>1 DEF SessionExpires
  <2> QED
    BY <1>4, <2>2 DEF SessionExpires, TypeOK, SessionRecord, browser, entries
<1> QED
  BY <1>1, <1>2, <1>3, <1>4

\* A step of one operation leaves the records of the others alone.
LEMMA OthersStay ==
    ASSUME TypeOK, NEW o \in Op, Begins(o) \/ OpStep(o) \/ OpFails(o)
    PROVE  \A p \in Op \ {o} : op'[p] = op[p]
<1>0. op \in [Op -> OpRecord]
  BY DEF TypeOK, OpRecord
<1>1. \/ \E pc \in PC : Goto(o, pc)
      \/ Finish(o)
      \/ \E r : op' = [op EXCEPT ![o] = r]
  <2>1. CASE OpFails(o)
    BY <2>1 DEF OpFails, PC
  <2>2. CASE Begins(o)
    BY <2>2 DEF Begins, BeginStatus, Login, Refresh, LogoutAll, DeleteAll, Validate, Logout,
       TerminateSession, Begin
  <2>3. CASE OpStep(o)
    <3>1. ASSUME NEW s \in Session, CreateSession(o, s)
          PROVE  Finish(o) \/ \E r : op' = [op EXCEPT ![o] = r]
      BY <1>0, <3>1 DEF CreateSession
    <3>2. ASSUME NEW s \in Session, ClearEntry(o, s)
          PROVE  Finish(o) \/ \E r : op' = [op EXCEPT ![o] = r]
      BY <1>0, <3>2 DEF ClearEntry
    <3>3. CASE Rotate(o) \/ DeleteRow(o) \/ FindAll(o)
      BY <1>0, <3>3 DEF Rotate, DeleteRow, FindAll, PC
    <3>4. CASE \/ WriteStatus(o) \/ DeleteUser(o) \/ WriteLastLogin(o) \/ CacheSession(o)
               \/ SetTokens(o) \/ ReadForRefresh(o) \/ ClearTokens(o) \/ ReadForValidate(o)
               \/ DeleteRows(o)
      BY <3>4 DEF WriteStatus, DeleteUser, WriteLastLogin, CacheSession, SetTokens, ReadForRefresh,
         ClearTokens, ReadForValidate, DeleteRows, PC
    <3> QED
      BY <2>3, <3>1, <3>2, <3>3, <3>4 DEF OpStep
  <2> QED
    BY <2>1, <2>2, <2>3
<1> QED
  BY <1>0, <1>1 DEF Goto, Finish

\* What an operation that reaches the cache or the browser had before.
LEMMA NamedStep ==
    ASSUME TypeOK, Named, [Next]_vars
    PROVE  Named'
<1> SUFFICES ASSUME NEW p \in Op, op'[p].pc \in {"cache", "store"}
             PROVE  op'[p].session # None
  BY DEF Named
<1>0. op \in [Op -> OpRecord]
  BY DEF TypeOK, OpRecord
<1>1. CASE op' = op
  BY <1>1 DEF Named
<1>2. ASSUME NEW o \in Op, Begins(o) \/ OpStep(o) \/ OpFails(o) PROVE op'[p].session # None
  <2>1. CASE p # o
    BY <1>2, <2>1, OthersStay DEF Named
  <2>2. CASE p = o
    <3>1. CASE Begins(o)
      BY <1>0, <2>2, <3>1 DEF Begins, BeginStatus, Login, Refresh, LogoutAll, DeleteAll, Validate,
         Logout, TerminateSession, Begin, FreeOp
    <3>2. CASE OpFails(o)
      BY <1>0, <2>2, <3>2, OpReads DEF OpFails
    <3>3. CASE OpStep(o)
      <4>1. ASSUME NEW s \in Session, CreateSession(o, s) PROVE op'[o].session # None
        <5>1. CASE account = "deleted"
          BY <1>0, <2>2, <4>1, <5>1 DEF CreateSession, Finish, FreeOp
        <5>2. CASE account # "deleted"
          <6>1. op' = [op EXCEPT ![o] = [op[o] EXCEPT !.pc = "cache", !.session = s,
                                                      !.token = issued + 1]]
            BY <1>0, <4>1, <5>2 DEF CreateSession
          <6>2. op'[o].session = s
            BY <1>0, <6>1 DEF OpRecord
          <6> QED
            BY <2>2, <6>2, NoneIsNoSession
        <5> QED
          BY <5>1, <5>2
      <4>2. ASSUME NEW s \in Session, ClearEntry(o, s) PROVE FALSE
        BY <1>0, <2>2, <4>2 DEF ClearEntry, At, Finish, FreeOp, OpRecord
      <4>3. CASE CacheSession(o)
        BY <1>0, <2>2, <4>3 DEF CacheSession, At, Goto, Finish, FreeOp, Named, OpRecord
      <4>4. CASE Rotate(o)
        BY <1>0, <2>2, <4>4 DEF Rotate, Live, Goto, OpRecord
      <4>5. CASE ReadForValidate(o)
        BY <1>0, <2>2, <4>5 DEF ReadForValidate, Live, Goto, Finish, FreeOp, OpRecord
      <4>6. CASE DeleteRow(o)
        BY <1>0, <2>2, <4>6 DEF DeleteRow, Goto, Finish, FreeOp, OpRecord
      <4>7. CASE \/ WriteStatus(o) \/ DeleteUser(o) \/ WriteLastLogin(o) \/ SetTokens(o)
                 \/ ReadForRefresh(o) \/ ClearTokens(o) \/ DeleteRows(o)
        BY <1>0, <2>2, <4>7, OpReads DEF WriteStatus, DeleteUser, WriteLastLogin, SetTokens,
           ReadForRefresh, ClearTokens, DeleteRows
      <4>8. CASE FindAll(o)
        BY <1>0, <2>2, <4>8 DEF FindAll, OpRecord
      <4> QED
        BY <2>2, <3>3, <4>1, <4>2, <4>3, <4>4, <4>5, <4>6, <4>7, <4>8 DEF OpStep
    <3> QED
      BY <1>2, <3>1, <3>2, <3>3
  <2> QED
    BY <2>1, <2>2
<1> QED
  BY <1>1, <1>2 DEF Next, UserSignup, EntryExpires, SessionExpires, vars

\* Every reachable state is well typed, whatever the operations interleave (the module's
\* records of session rows, cache entries, operations and the browser's storage).
THEOREM TypeCorrect == Spec => [](TypeOK /\ Named)
<1>1. Init => TypeOK /\ Named
  BY TypeInit DEF Init, Named, FreeOp
<1>2. TypeOK /\ Named /\ [Next]_vars => (TypeOK /\ Named)'
  <2> SUFFICES ASSUME TypeOK, Named, [Next]_vars PROVE TypeOK'
    BY NamedStep
  <2>1. CASE UNCHANGED vars
    BY <2>1 DEF vars, TypeOK
  <2> QED
    BY <2>1, BeginsType, StepType, OtherType DEF Next
<1> QED
  BY <1>1, <1>2, PTL DEF Spec

-----------------------------------------------------------------------------
(* What a step may do to the rows.                                         *)

LEMMA RowMoves ==
    ASSUME TypeOK, [Next]_vars, NEW s \in Session, session'[s].row = "live"
    PROVE  \/ session[s].row = "live" /\ session'[s].late = session[s].late
           \/ session[s].row = "none" /\ session'[s].late = (account # "ACTIVE")
                /\ account # "deleted" /\ \E o \in Op : CreateSession(o, s)
<1>0. session \in [Session -> SessionRecord] /\ op \in [Op -> OpRecord]
  BY DEF TypeOK, SessionRecord, OpRecord
<1>1. CASE session' = session
  BY <1>1
<1>2. ASSUME NEW these, session' = Deleted(these)
      PROVE  session[s].row = "live" /\ session'[s].late = session[s].late
  BY <1>0, <1>2 DEF Deleted, SessionRecord
<1>3. ASSUME NEW t \in Session, SessionExpires(t)
      PROVE  session[s].row = "live" /\ session'[s].late = session[s].late
  BY <1>0, <1>3 DEF SessionExpires, SessionRecord
<1>4. ASSUME NEW o \in Op, Rotate(o)
      PROVE  session[s].row = "live" /\ session'[s].late = session[s].late
  <2>1. CASE ~Live(op[o].session)
    BY <1>4, <2>1 DEF Rotate
  <2>2. CASE Live(op[o].session)
    <3>1. session' = [session EXCEPT ![op[o].session] =
                        [session[op[o].session] EXCEPT !.token = issued + 1, !.expired = FALSE]]
      BY <1>0, <1>4, <2>2 DEF Rotate, Live, OpRecord
    <3> QED
      BY <1>0, <3>1 DEF SessionRecord
  <2> QED
    BY <2>1, <2>2
<1>5. ASSUME NEW o \in Op, NEW t \in Session, CreateSession(o, t), session' # session
      PROVE  \/ session[s].row = "live" /\ session'[s].late = session[s].late
             \/ session[s].row = "none" /\ session'[s].late = (account # "ACTIVE")
                  /\ account # "deleted" /\ \E o_1 \in Op : CreateSession(o_1, s)
  <2>1. session' = [session EXCEPT ![t] = [row |-> "live", expired |-> FALSE,
                                           token |-> issued + 1, late |-> account # "ACTIVE"]]
        /\ account # "deleted" /\ session[t].row = "none"
    BY <1>5 DEF CreateSession
  <2>2. CASE s = t
    BY <1>0, <1>5, <2>1, <2>2
  <2>3. CASE s # t
    BY <1>0, <2>1, <2>3
  <2> QED
    BY <2>2, <2>3
<1>6. \/ session' = session
      \/ \E these : session' = Deleted(these)
      \/ \E t \in Session : SessionExpires(t)
      \/ \E o \in Op : Rotate(o)
      \/ \E o \in Op, t \in Session : CreateSession(o, t)
  BY DEF Next, Begins, OpStep, OpFails, UserSignup, BeginStatus, Login, Refresh, LogoutAll,
     DeleteAll, Validate, Logout, TerminateSession, WriteStatus, DeleteUser, WriteLastLogin,
     ClearEntry, CacheSession,
     SetTokens, ReadForRefresh, ClearTokens, ReadForValidate, DeleteRow, FindAll, DeleteRows,
     EntryExpires, vars
<1> QED
  BY <1>1, <1>2, <1>3, <1>4, <1>5, <1>6

LEMMA FaultsGrow ==
    ASSUME TypeOK, [Next]_vars
    PROVE  faults' >= faults /\ \A o \in Op : OpFails(o) => faults' > faults
<1>1. faults \in Int
  BY BoundsAreNats DEF TypeOK
<1>2. \A o \in Op : OpFails(o) => faults' = faults + 1
  BY DEF OpFails, Fault
<1>3. faults' = faults \/ \E o \in Op : OpFails(o)
  BY DEF Next, Begins, OpStep, UserSignup, BeginStatus, Login, Refresh, LogoutAll, DeleteAll,
     Validate, Logout, TerminateSession, WriteStatus, DeleteUser, WriteLastLogin, CreateSession,
     ClearEntry,
     CacheSession, SetTokens, ReadForRefresh, Rotate, ClearTokens, ReadForValidate, DeleteRow,
     FindAll, DeleteRows, EntryExpires, SessionExpires, vars
<1> QED
  BY <1>1, <1>2, <1>3

\* The status changes by a registration, a written status or a rejection.
LEMMA AccountMoves ==
    ASSUME TypeOK, [Next]_vars, account' # account
    PROVE  \/ UserSignup
           \/ \E o \in Op : WriteStatus(o) \/ DeleteUser(o)
BY DEF Next, Begins, OpStep, OpFails, BeginStatus, Login, Refresh, LogoutAll, DeleteAll, Validate,
   Logout, TerminateSession, WriteLastLogin, CreateSession, ClearEntry, CacheSession, SetTokens,
   ReadForRefresh,
   Rotate, ClearTokens, ReadForValidate, DeleteRow, FindAll, DeleteRows, EntryExpires,
   SessionExpires, vars

-----------------------------------------------------------------------------
(* The sessions of a deactivated account.                                  *)

\* A deactivation that wrote the status and has not ended the sessions yet.
Ending(o) == op[o].kind = "deactivate" /\ op[o].pc \in {"findAll", "deleteRows"}

\* While the account is inactive, somebody is about to end the sessions that are not late.
Ended ==
    account = "INACTIVE" /\ faults = 0
        => \/ \A s \in Session : session[s].row = "live" => session[s].late
           \/ \E o \in Op : Ending(o)

LEMMA EndingGoesOn ==
    ASSUME TypeOK, [Next]_vars, NEW p \in Op, Ending(p), faults = 0, faults' = 0
    PROVE  Ending(p)' \/ \A s \in Session : session'[s].row # "live"
<1>0. op \in [Op -> OpRecord] /\ session \in [Session -> SessionRecord]
  BY DEF TypeOK, OpRecord, SessionRecord
<1>1. CASE op' = op
  BY <1>1 DEF Ending
<1>2. ASSUME NEW o \in Op, Begins(o) \/ OpStep(o) \/ OpFails(o)
      PROVE  Ending(p)' \/ \A s \in Session : session'[s].row # "live"
  <2>1. CASE p # o
    BY <1>2, <2>1, OthersStay DEF Ending
  <2>2. CASE p = o
    <3>1. ~OpFails(o)
      BY FaultsGrow, BoundsAreNats DEF TypeOK
    <3>2. ~Begins(o)
      BY <2>2 DEF Ending, Begins, BeginStatus, Login, Refresh, LogoutAll, DeleteAll, Validate,
         Logout, TerminateSession, Begin, At
    <3>3. FindAll(o) \/ DeleteRows(o)
      BY <1>2, <2>2, <3>1, <3>2 DEF Ending, OpStep, WriteStatus, DeleteUser, WriteLastLogin,
         CreateSession, ClearEntry, CacheSession, SetTokens, ReadForRefresh, Rotate, ClearTokens,
         ReadForValidate, DeleteRow, At
    <3>4. CASE FindAll(o)
      BY <1>0, <2>2, <3>4 DEF FindAll, Ending, OpRecord
    <3>5. CASE DeleteRows(o)
      BY <1>0, <3>5 DEF DeleteRows, Deleted, SessionRecord
    <3> QED
      BY <3>3, <3>4, <3>5
  <2> QED
    BY <2>1, <2>2
<1> QED
  BY <1>1, <1>2 DEF Next, UserSignup, EntryExpires, SessionExpires, vars

LEMMA EndedStep ==
    ASSUME TypeOK, Ended, [Next]_vars
    PROVE  Ended'
<1> SUFFICES ASSUME account' = "INACTIVE", faults' = 0
             PROVE  \/ \A s \in Session : session'[s].row = "live" => session'[s].late
                    \/ \E o \in Op : Ending(o)'
  BY DEF Ended
<1>0. op \in [Op -> OpRecord] /\ session \in [Session -> SessionRecord]
  BY DEF TypeOK, OpRecord, SessionRecord
<1>1. faults = 0
  BY FaultsGrow, BoundsAreNats DEF TypeOK
<1>2. CASE account = "INACTIVE"
  <2>1. CASE \E o \in Op : Ending(o)
    BY <1>1, <2>1, EndingGoesOn
  <2>2. CASE \A s \in Session : session[s].row = "live" => session[s].late
    BY <1>2, <2>2, RowMoves
  <2> QED
    BY <1>1, <1>2, <2>1, <2>2 DEF Ended
<1>3. CASE account # "INACTIVE"
  <2>1. PICK o \in Op : WriteStatus(o)
    BY <1>3, AccountMoves DEF UserSignup, DeleteUser
  <2>2. op[o].kind = "deactivate" /\ Goto(o, "findAll")
    BY <1>3, <2>1 DEF WriteStatus
  <2> QED
    BY <1>0, <2>2, OpReads DEF Ending
<1> QED
  BY <1>2, <1>3

\* The invariant DeactivationEndsSessions of the runs, for every number of administrators,
\* logins and sessions: a live session that is left when every deactivation has passed
\* logoutAllSessions was created after the account had ceased to be active.
THEOREM DeactivationsEndSessions == Spec => []DeactivationEndsSessions
<1>1. Init => Ended
  BY DEF Init, Ended, Fresh
<1>2. TypeOK /\ Ended /\ [Next]_vars => Ended'
  BY EndedStep
<1>3. Ended => DeactivationEndsSessions
  BY DEF Ended, Ending, DeactivationEndsSessions, Rows, Live
<1> QED
  BY <1>1, <1>2, <1>3, TypeCorrect, PTL DEF Spec

-----------------------------------------------------------------------------
(* The sessions of an account nobody approved.                             *)

\* Nothing that needs a session has begun, and no operation found one.
QuietOp(o) == /\ op[o].pc \in {"free", "status", "deleteUser", "findAll", "deleteRows", "done"}
              /\ op[o].kind # "refresh" /\ op[o].found = {}

NotYet ==
    account \in {"absent", "PENDING"}
        => /\ \A s \in Session : session[s].row = "none"
           /\ cache = {}
           /\ stored = NoToken
           /\ \A o \in Op : QuietOp(o)

LEMMA QuietStep ==
    ASSUME TypeOK, NotYet, NEW o \in Op, Begins(o) \/ OpStep(o) \/ OpFails(o),
           account \in {"absent", "PENDING"}, account' \in {"absent", "PENDING"}
    PROVE  QuietOp(o)' /\ session' = session /\ cache' = cache /\ stored' = stored
<1>0. op \in [Op -> OpRecord] /\ session \in [Session -> SessionRecord]
  BY DEF TypeOK, OpRecord, SessionRecord
<1>1. /\ QuietOp(o) /\ \A s \in Session : session[s].row = "none"
      /\ cache = {} /\ stored = NoToken
  BY DEF NotYet
<1>2. Rows = {} /\ \A these : Deleted(these) = session
  BY <1>0, <1>1 DEF Rows, Live, Deleted
<1>3. CASE Begins(o)
  <2>1. /\ UNCHANGED <<session, cache, stored>>
        /\ \E kind \in Kind \ {"refresh"}, s \in Session \cup {None} :
                        \/ Begin(o, kind, "status", s) \/ Begin(o, kind, "deleteUser", s)
                        \/ Begin(o, kind, "findAll", s) \/ Begin(o, kind, "deleteRows", s)
    BY <1>1, <1>3 DEF Begins, BeginStatus, Login, Refresh, LogoutAll, DeleteAll, Validate, Logout,
       TerminateSession,
       Live, browser, entries, Kind
  <2> QED
    BY <1>0, <2>1, OpReads DEF QuietOp
<1>4. CASE OpFails(o)
  <2>1. Finish(o) /\ UNCHANGED <<session, cache, stored>>
    BY <1>1, <1>4 DEF OpFails, QuietOp, browser, entries
  <2> QED
    BY <1>0, <1>1, <2>1, OpReads DEF QuietOp
<1>5. CASE OpStep(o)
  <2>1. WriteStatus(o) \/ DeleteUser(o) \/ FindAll(o) \/ DeleteRows(o)
    BY <1>1, <1>5 DEF QuietOp, OpStep, WriteLastLogin, CreateSession, ClearEntry, CacheSession,
       SetTokens, ReadForRefresh, Rotate, ClearTokens, ReadForValidate, DeleteRow, At
  <2>2. CASE WriteStatus(o)
    BY <2>2 DEF WriteStatus
  <2>3. CASE DeleteUser(o)
    BY <2>3 DEF DeleteUser
  <2>4. CASE FindAll(o)
    <3>1. op'[o] = [op[o] EXCEPT !.pc = "deleteRows", !.found = Rows]
      BY <1>0, <2>4 DEF FindAll
    <3>2. QuietOp(o)'
      BY <1>0, <1>1, <1>2, <3>1 DEF QuietOp, OpRecord
    <3> QED
      BY <2>4, <3>2 DEF FindAll, browser, entries
  <2>5. CASE DeleteRows(o)
    BY <1>0, <1>1, <1>2, <2>5, OpReads DEF DeleteRows, QuietOp, browser, entries
  <2> QED
    BY <2>1, <2>2, <2>3, <2>4, <2>5
<1> QED
  BY <1>3, <1>4, <1>5

LEMMA NotYetStep ==
    ASSUME TypeOK, NotYet, [Next]_vars
    PROVE  NotYet'
<1> SUFFICES ASSUME account' \in {"absent", "PENDING"}
             PROVE  /\ \A s \in Session : session'[s].row = "none"
                    /\ cache' = {} /\ stored' = NoToken
                    /\ \A o \in Op : QuietOp(o)'
  BY DEF NotYet, NoToken
<1>1. account \in {"absent", "PENDING"}
  BY AccountMoves DEF UserSignup, WriteStatus, DeleteUser
<1>2. /\ \A s \in Session : session[s].row = "none"
      /\ cache = {} /\ stored = NoToken /\ \A o \in Op : QuietOp(o)
  BY <1>1 DEF NotYet
<1>3. ASSUME NEW o \in Op, Begins(o) \/ OpStep(o) \/ OpFails(o)
      PROVE  /\ UNCHANGED <<session, cache, stored>> /\ \A p \in Op : QuietOp(p)'
  <2>1. QuietOp(o)' /\ UNCHANGED <<session, cache, stored>>
    BY <1>1, <1>3, QuietStep
  <2>2. \A p \in Op \ {o} : QuietOp(p)'
    BY <1>2, <1>3, OthersStay DEF QuietOp
  <2> QED
    BY <2>1, <2>2
<1>4. CASE UserSignup \/ UNCHANGED vars
  BY <1>2, <1>4 DEF UserSignup, vars, browser, entries, QuietOp
<1>5. ~ \E s \in Session : EntryExpires(s) \/ SessionExpires(s)
  BY <1>2 DEF EntryExpires, SessionExpires, Live
<1> QED
  BY <1>2, <1>3, <1>4, <1>5 DEF Next

\* The invariant UnapprovedHasNoSession of the runs: whatever administrators decide and
\* logins try at the same time, an account that nobody approved has neither a session row
\* nor a cache entry.
THEOREM UnapprovedHaveNoSession == Spec => []UnapprovedHasNoSession
<1>1. Init => NotYet
  BY DEF Init, NotYet, QuietOp, Fresh, FreeOp
<1>2. TypeOK /\ NotYet /\ [Next]_vars => NotYet'
  BY NotYetStep
<1>3. NotYet => UnapprovedHasNoSession
  BY DEF NotYet, UnapprovedHasNoSession, Rows, Live
<1> QED
  BY <1>1, <1>2, <1>3, TypeCorrect, PTL DEF Spec

-----------------------------------------------------------------------------
(* The refresh token the browser holds.                                    *)

\* Which operations are where.
KindAt ==
    \A o \in Op :
        /\ op[o].pc \in {"lastLogin", "createRow"} => op[o].kind = "login"
        /\ op[o].pc \in {"rotate", "reject"} => op[o].kind = "refresh"
        /\ op[o].pc = "store" => op[o].kind \in {"login", "refresh"}
        /\ op[o].pc = "cache" => op[o].kind \in {"login", "refresh", "validate"}
        /\ op[o].kind = "login" => op[o].pc \in {"lastLogin", "createRow", "cache", "store", "done"}
        /\ op[o].kind = "refresh"
             => op[o].pc \in {"readRow", "rotate", "reject", "cache", "store", "deleteRow", "done"}

\* An operation that will hand its tokens to the browser.
Answering(o) == op[o].kind \in {"login", "refresh"} /\ op[o].pc \in {"cache", "store"}
LoggingIn(o) == op[o].kind = "login" /\ op[o].pc \in {"cache", "store"}
Exists(s) == s # None /\ session[s].row # "none"

\* What holds as long as the browser never refreshed twice at once: what an operation
\* answers is current, the session of a login is its own until it answered, and a token in
\* the storage that is not current is about to be replaced or cleared.
OneRefresh == \A o, p \in Op : Refreshing(o) /\ Refreshing(p) => o = p
AnswersExist == \A o \in Op : Answering(o) \/ Refreshing(o) => Exists(op[o].session)
AnswersCurrent == \A o \in Op : Answering(o) => session[op[o].session].token = op[o].token
LoginsApart ==
    \A o \in Op : LoggingIn(o) =>
        /\ stored.session # op[o].session
        /\ \A p \in Op \ {o} : Answering(p) \/ Refreshing(p) => op[p].session # op[o].session
StoredOwned ==
    stored # NoToken =>
        /\ Exists(stored.session)
        /\ \/ session[stored.session].token = stored.token
           \/ \E o \in Op : Refreshing(o) /\ op[o].session = stored.session
Orderly == OneRefresh /\ AnswersExist /\ AnswersCurrent /\ LoginsApart /\ StoredOwned

Current == ~contended /\ faults = 0 => Orderly

LEMMA KindAtStep ==
    ASSUME TypeOK, KindAt, [Next]_vars
    PROVE  KindAt'
<1>0. op \in [Op -> OpRecord]
  BY DEF TypeOK, OpRecord
<1>1. CASE op' = op
  BY <1>1 DEF KindAt
<1>2. ASSUME NEW o \in Op, Begins(o) \/ OpStep(o) \/ OpFails(o) PROVE KindAt'
  <2>1. /\ op'[o].pc \in {"lastLogin", "createRow"} => op'[o].kind = "login"
        /\ op'[o].pc \in {"rotate", "reject"} => op'[o].kind = "refresh"
        /\ op'[o].pc = "store" => op'[o].kind \in {"login", "refresh"}
        /\ op'[o].pc = "cache" => op'[o].kind \in {"login", "refresh", "validate"}
        /\ op'[o].kind = "login"
             => op'[o].pc \in {"lastLogin", "createRow", "cache", "store", "done"}
        /\ op'[o].kind = "refresh"
             => op'[o].pc \in {"readRow", "rotate", "reject", "cache", "store", "deleteRow", "done"}
    <3>1. CASE Refresh(o)
      <4>1. op'[o] = [FreeOp EXCEPT !.kind = "refresh", !.pc = "readRow",
                                    !.session = stored.session, !.token = stored.token]
        BY <1>0, <3>1 DEF Refresh
      <4> QED
        BY <4>1 DEF FreeOp
    <3>2. CASE Begins(o) /\ ~Refresh(o)
      BY <1>0, <3>2, OpReads DEF Begins, BeginStatus, Login, LogoutAll, DeleteAll, Validate, Logout,
         TerminateSession
    <3>3. CASE OpFails(o)
      BY <1>0, <3>3, OpReads DEF OpFails
    <3>4. ASSUME NEW s \in Session, CreateSession(o, s)
          PROVE  op[o].kind = "login" /\ op'[o].kind = "login" /\ op'[o].pc \in {"cache", "done"}
      <4>1. op[o].kind = "login"
        BY <3>4 DEF CreateSession, At, KindAt
      <4>2. CASE account = "deleted"
        BY <1>0, <3>4, <4>1, <4>2, OpReads DEF CreateSession
      <4>3. CASE account # "deleted"
        <5>1. op' = [op EXCEPT ![o] = [op[o] EXCEPT !.pc = "cache", !.session = s,
                                                    !.token = issued + 1]]
          BY <1>0, <3>4, <4>3 DEF CreateSession
        <5> QED
          BY <1>0, <4>1, <5>1 DEF OpRecord
      <4> QED
        BY <4>2, <4>3
    <3>5. ASSUME NEW s \in Session, ClearEntry(o, s)
          PROVE  op'[o].kind = op[o].kind /\ op'[o].pc \in {"clear", "done"} /\ op[o].pc = "clear"
      BY <1>0, <3>5, OpReads DEF ClearEntry, At, OpRecord
    <3>6. CASE Rotate(o)
      <4>1. op[o].kind = "refresh"
        BY <3>6 DEF Rotate, At, KindAt
      <4>2. \/ Goto(o, "reject")
            \/ op' = [op EXCEPT ![o] = [op[o] EXCEPT !.pc = "cache", !.token = issued + 1]]
        BY <1>0, <3>6 DEF Rotate
      <4>3. op'[o].kind = "refresh" /\ op'[o].pc \in {"reject", "cache"}
        <5>1. CASE Goto(o, "reject")
          BY <1>0, <4>1, <5>1, OpReads
        <5>2. CASE op' = [op EXCEPT ![o] = [op[o] EXCEPT !.pc = "cache", !.token = issued + 1]]
          BY <1>0, <4>1, <5>2 DEF OpRecord
        <5> QED
          BY <4>2, <5>1, <5>2
      <4> QED
        BY <4>3
    <3>7. CASE DeleteRow(o)
      <4>1. \/ op[o].kind = "refresh" /\ Goto(o, "reject")
            \/ op[o].kind = "logout" /\ op' = [op EXCEPT ![o] = [op[o] EXCEPT !.pc = "clear",
                                                                   !.found = {op[o].session}]]
            \/ Finish(o)
        BY <1>0, <3>7 DEF DeleteRow
      <4>3. CASE op' = [op EXCEPT ![o] = [op[o] EXCEPT !.pc = "clear", !.found = {op[o].session}]]
                 /\ op[o].kind = "logout"
        <5>1. op'[o].pc = "clear" /\ op'[o].kind = "logout"
          BY <1>0, <4>3 DEF OpRecord
        <5> QED
          BY <5>1
      <4>4. CASE op[o].kind = "refresh" /\ Goto(o, "reject")
        BY <1>0, <4>4, OpReads
      <4>5. CASE Finish(o)
        BY <1>0, <4>5, OpReads
      <4> QED
        BY <4>1, <4>3, <4>4, <4>5
    <3>8. CASE FindAll(o)
      <4>1. op' = [op EXCEPT ![o] = [op[o] EXCEPT !.pc = "deleteRows", !.found = Rows]]
        BY <1>0, <3>8 DEF FindAll
      <4> QED
        BY <1>0, <3>8, <4>1 DEF FindAll, At, KindAt, OpRecord
    <3>9. CASE \/ WriteStatus(o) \/ DeleteUser(o) \/ WriteLastLogin(o) \/ CacheSession(o)
               \/ SetTokens(o) \/ ReadForRefresh(o) \/ ClearTokens(o) \/ ReadForValidate(o)
               \/ DeleteRows(o)
      BY <1>0, <3>9, OpReads DEF WriteStatus, DeleteUser, WriteLastLogin, CacheSession, SetTokens,
         ReadForRefresh, ClearTokens, ReadForValidate, DeleteRows, At, KindAt
    <3> QED
      BY <1>2, <3>1, <3>2, <3>3, <3>4, <3>5, <3>6, <3>7, <3>8, <3>9 DEF OpStep, KindAt
  <2> QED
    BY <1>2, <2>1, OthersStay DEF KindAt
<1> QED
  BY <1>1, <1>2 DEF Next, UserSignup, EntryExpires, SessionExpires, vars

\* Tokens and sessions stay what they are, for a step that neither creates a session nor
\* rotates a token.
TokensStay ==
    \A s \in Session : /\ session'[s].token = session[s].token
                       /\ session[s].row # "none" => session'[s].row # "none"
\* The operation moves on with the session and the token it had, or ends otherwise.
MovesOn(o) ==
    /\ Refreshing(o)' <=> Refreshing(o)
    /\ Refreshing(o)' \/ Answering(o)' => op'[o].session = op[o].session
    /\ Answering(o)' => /\ Answering(o)
                        /\ op'[o].token = op[o].token /\ op'[o].kind = op[o].kind

LEMMA OrderlyCarries ==
    ASSUME TypeOK, Orderly, TokensStay, stored' = stored, \A o \in Op : MovesOn(o)
    PROVE  Orderly'
<1>1. \A s \in Session \cup {None} : Exists(s) => /\ Exists(s)' /\ s \in Session
                                                 /\ session'[s].token = session[s].token
  BY DEF Exists, TokensStay
<1>2. \A o \in Op : op[o].session \in Session \cup {None}
  BY DEF TypeOK
<1>3. \A o \in Op : LoggingIn(o)' => LoggingIn(o)
  BY DEF MovesOn, LoggingIn, Answering
<1>4. OneRefresh'
  BY DEF Orderly, OneRefresh, MovesOn
<1>5. AnswersExist'
  BY <1>1, <1>2 DEF Orderly, AnswersExist, MovesOn
<1>6. AnswersCurrent'
  <2> SUFFICES ASSUME NEW o \in Op, Answering(o)'
               PROVE  session'[op'[o].session].token = op'[o].token
    BY DEF AnswersCurrent
  <2>1. Answering(o) /\ op'[o].token = op[o].token /\ op'[o].session = op[o].session
    BY DEF MovesOn
  <2>2. Exists(op[o].session) /\ session[op[o].session].token = op[o].token
    BY <2>1 DEF Orderly, AnswersExist, AnswersCurrent
  <2> QED
    BY <1>1, <1>2, <2>1, <2>2
<1>7. LoginsApart'
  <2> SUFFICES ASSUME NEW o \in Op, LoggingIn(o)'
               PROVE  /\ stored'.session # op'[o].session
                      /\ \A p \in Op \ {o} : Answering(p)' \/ Refreshing(p)'
                                               => op'[p].session # op'[o].session
    BY DEF LoginsApart
  <2>1. LoggingIn(o) /\ op'[o].session = op[o].session
    BY <1>3 DEF MovesOn, LoggingIn, Answering
  <2>2. \A p \in Op : Answering(p)' \/ Refreshing(p)'
            => (Answering(p) \/ Refreshing(p)) /\ op'[p].session = op[p].session
    BY DEF MovesOn
  <2> QED
    BY <2>1, <2>2 DEF Orderly, LoginsApart
<1>8. StoredOwned'
  <2> SUFFICES ASSUME stored # NoToken
               PROVE  /\ Exists(stored.session)'
                      /\ \/ session'[stored.session].token = stored.token
                         \/ \E o \in Op : Refreshing(o)' /\ op'[o].session = stored.session
    BY DEF StoredOwned, NoToken
  <2>1. stored.session \in Session \cup {None} /\ Exists(stored.session)
    BY DEF TypeOK, Orderly, StoredOwned
  <2>2. \A o \in Op : Refreshing(o) => Refreshing(o)' /\ op'[o].session = op[o].session
    BY DEF MovesOn
  <2> QED
    BY <1>1, <2>1, <2>2 DEF Orderly, StoredOwned
<1> QED
  BY <1>4, <1>5, <1>6, <1>7, <1>8 DEF Orderly

\* The steps that touch neither the storage nor a token.
LEMMA MovesOnStep ==
    ASSUME TypeOK, KindAt, NEW o \in Op, Begins(o) \/ OpStep(o),
           ~Refresh(o), ~SetTokens(o), ~ClearTokens(o),
           Rotate(o) => ~Live(op[o].session),
           \A s \in Session : CreateSession(o, s) => account = "deleted"
    PROVE  TokensStay /\ stored' = stored /\ \A p \in Op : MovesOn(p)
<1>0. op \in [Op -> OpRecord] /\ session \in [Session -> SessionRecord]
  BY DEF TypeOK, OpRecord, SessionRecord
<1>1. ASSUME NEW these PROVE session' = Deleted(these) => TokensStay
  BY <1>0 DEF Deleted, TokensStay, SessionRecord
<1>2. session' = session => TokensStay
  BY DEF TokensStay
<1>3. TokensStay /\ stored' = stored
  BY <1>1, <1>2 DEF Begins, OpStep, BeginStatus, Login, LogoutAll, DeleteAll, Validate, Logout,
     TerminateSession,
     WriteStatus, DeleteUser, WriteLastLogin, CreateSession, ClearEntry, CacheSession,
     ReadForRefresh, Rotate, ReadForValidate, DeleteRow, FindAll, DeleteRows, browser, entries
<1>4. MovesOn(o)
  <2>1. CASE Begins(o)
    <3>1. op[o].kind # "refresh" /\ op[o].pc = "free"
      BY <2>1 DEF Begins, BeginStatus, Login, LogoutAll, DeleteAll, Validate, Logout,
         TerminateSession, Begin, At,
         KindAt
    <3>2. op'[o].kind # "refresh" /\ op'[o].pc \notin {"cache", "store"}
      BY <1>0, <2>1, OpReads DEF Begins, BeginStatus, Login, LogoutAll, DeleteAll, Validate, Logout,
         TerminateSession
    <3> QED
      BY <3>1, <3>2 DEF MovesOn, Refreshing, Answering
  <2>2. CASE OpStep(o)
    <3>1. ASSUME NEW s \in Session, CreateSession(o, s) PROVE MovesOn(o)
      <4>1. op[o].kind = "login" /\ Finish(o)
        BY <3>1 DEF CreateSession, At, KindAt
      <4> QED
        BY <1>0, <4>1, OpReads DEF MovesOn, Refreshing, Answering
    <3>2. ASSUME NEW s \in Session, ClearEntry(o, s) PROVE MovesOn(o)
      <4>1. op[o].pc = "clear" /\ op[o].kind # "refresh"
        BY <3>2 DEF ClearEntry, At, KindAt
      <4>2. op'[o].kind = op[o].kind /\ op'[o].pc \in {"clear", "done"}
        BY <1>0, <3>2, OpReads DEF ClearEntry, At, OpRecord
      <4> QED
        BY <4>1, <4>2 DEF MovesOn, Refreshing, Answering
    <3>3. CASE \/ WriteStatus(o) \/ DeleteUser(o) \/ WriteLastLogin(o) \/ DeleteRows(o)
      <4>1. op[o].kind # "refresh"
        BY <3>3 DEF WriteStatus, DeleteUser, WriteLastLogin, DeleteRows, At, KindAt
      <4>2. op'[o].kind = op[o].kind /\ op'[o].pc \notin {"cache", "store"}
        BY <1>0, <3>3, OpReads DEF WriteStatus, DeleteUser, WriteLastLogin, DeleteRows
      <4> QED
        BY <4>1, <4>2 DEF MovesOn, Refreshing, Answering
    <3>4. CASE CacheSession(o)
      BY <1>0, <3>4, OpReads DEF CacheSession, At, MovesOn, Refreshing, Answering
    <3>5. CASE ReadForRefresh(o)
      BY <1>0, <3>5, OpReads DEF ReadForRefresh, At, MovesOn, Refreshing, Answering
    <3>6. CASE Rotate(o)
      BY <1>0, <3>6, OpReads DEF Rotate, At, MovesOn, Refreshing, Answering
    <3>7. CASE ReadForValidate(o)
      BY <1>0, <3>7, OpReads DEF ReadForValidate, At, MovesOn, Refreshing, Answering
    <3>8. CASE DeleteRow(o)
      <4>1. CASE op[o].kind = "refresh"
        BY <1>0, <3>8, <4>1, OpReads DEF DeleteRow, At, MovesOn, Refreshing, Answering
      <4>2. CASE op[o].kind # "refresh"
        <5>1. \/ Finish(o)
              \/ op' = [op EXCEPT ![o] = [op[o] EXCEPT !.pc = "clear", !.found = {op[o].session}]]
          BY <1>0, <3>8, <4>2 DEF DeleteRow
        <5>2. op'[o].kind = op[o].kind /\ op'[o].pc \in {"clear", "done"}
          <6>1. CASE Finish(o)
            BY <1>0, <6>1, OpReads
          <6>2. CASE op' = [op EXCEPT ![o] = [op[o] EXCEPT !.pc = "clear",
                                                           !.found = {op[o].session}]]
            BY <1>0, <6>2 DEF OpRecord
          <6> QED
            BY <5>1, <6>1, <6>2
        <5> QED
          BY <4>2, <5>2 DEF MovesOn, Refreshing, Answering
      <4> QED
        BY <4>1, <4>2
    <3>9. CASE FindAll(o)
      <4>1. op' = [op EXCEPT ![o] = [op[o] EXCEPT !.pc = "deleteRows", !.found = Rows]]
            /\ op[o].kind # "refresh"
        BY <1>0, <3>9 DEF FindAll, At, KindAt
      <4>2. op'[o].kind = op[o].kind /\ op'[o].pc = "deleteRows"
        BY <1>0, <4>1 DEF OpRecord
      <4> QED
        BY <4>1, <4>2 DEF MovesOn, Refreshing, Answering
    <3> QED
      BY <2>2, <3>1, <3>2, <3>3, <3>4, <3>5, <3>6, <3>7, <3>8, <3>9 DEF OpStep
  <2> QED
    BY <2>1, <2>2
<1>5. \A p \in Op \ {o} : MovesOn(p)
  BY OthersStay DEF MovesOn, Refreshing, Answering
<1> QED
  BY <1>3, <1>4, <1>5

\* A second refresh would be contended, so this one is alone.
LEMMA RefreshStep ==
    ASSUME TypeOK, Orderly, NEW o \in Op, Refresh(o), ~contended'
    PROVE  Orderly'
<1>0. op \in [Op -> OpRecord]
  BY DEF TypeOK, OpRecord
<1>1. /\ \A p \in Op : ~Refreshing(p)
      /\ stored # NoToken /\ stored' = stored /\ session' = session /\ Exists(stored.session)
  BY DEF Refresh, Orderly, StoredOwned
<1>2. op'[o].kind = "refresh" /\ op'[o].pc = "readRow" /\ op'[o].session = stored.session
  <2>1. op'[o] = [FreeOp EXCEPT !.kind = "refresh", !.pc = "readRow", !.session = stored.session,
                                !.token = stored.token]
    BY <1>0 DEF Refresh
  <2> QED
    BY <2>1 DEF FreeOp
<1>3. \A p \in Op \ {o} : op'[p] = op[p]
  BY OthersStay DEF Begins
<1>4. ~Answering(o)' /\ Refreshing(o)' /\ \A p \in Op \ {o} : ~Refreshing(p)'
  BY <1>1, <1>2, <1>3 DEF Answering, Refreshing
<1>5. OneRefresh' /\ AnswersExist' /\ AnswersCurrent'
  BY <1>1, <1>2, <1>3, <1>4 DEF Orderly, OneRefresh, AnswersExist, AnswersCurrent, Answering,
     Refreshing, Exists
<1>6. LoginsApart'
  <2> SUFFICES ASSUME NEW p \in Op, LoggingIn(p)'
               PROVE  /\ stored.session # op'[p].session
                      /\ \A q \in Op \ {p} : Answering(q)' \/ Refreshing(q)'
                                               => op'[q].session # op'[p].session
    BY <1>1 DEF LoginsApart
  <2>1. p # o /\ LoggingIn(p)
    BY <1>3, <1>4 DEF LoggingIn, Answering
  <2>2. \A q \in Op \ {o} : Answering(q)' \/ Refreshing(q)' => Answering(q) \/ Refreshing(q)
    BY <1>3 DEF Answering, Refreshing
  <2> QED
    BY <1>2, <1>3, <2>1, <2>2 DEF Orderly, LoginsApart
<1>7. StoredOwned'
  BY <1>1, <1>2, <1>4 DEF StoredOwned, Exists
<1> QED
  BY <1>5, <1>6, <1>7 DEF Orderly

\* The answer goes to the storage, or the storage is cleared.
LEMMA StoreStep ==
    ASSUME TypeOK, Named, KindAt, Orderly, NEW o \in Op, SetTokens(o) \/ ClearTokens(o)
    PROVE  Orderly'
<1>0. op \in [Op -> OpRecord]
  BY DEF TypeOK, OpRecord
<1>1. session' = session /\ Finish(o)
  BY DEF SetTokens, ClearTokens
<1>2. ~Answering(o)' /\ ~Refreshing(o)'
  BY <1>0, <1>1, OpReads DEF Answering, Refreshing
<1>3. \A p \in Op \ {o} : op'[p] = op[p]
  BY OthersStay DEF OpStep
<1>4. OneRefresh' /\ AnswersExist' /\ AnswersCurrent'
  BY <1>1, <1>2, <1>3 DEF Orderly, OneRefresh, AnswersExist, AnswersCurrent, Answering,
     Refreshing, Exists
<1>5. CASE SetTokens(o)
  <2>1. Answering(o) /\ stored' = [session |-> op[o].session, token |-> op[o].token]
    BY <1>5 DEF SetTokens, At, KindAt, Answering
  <2>2. Exists(op[o].session) /\ session[op[o].session].token = op[o].token
    BY <2>1 DEF Orderly, AnswersExist, AnswersCurrent
  <2>3. StoredOwned'
    BY <1>1, <2>1, <2>2 DEF StoredOwned, Exists
  <2>4. LoginsApart'
    <3> SUFFICES ASSUME NEW p \in Op, LoggingIn(p)'
                 PROVE  /\ stored'.session # op'[p].session
                        /\ \A q \in Op \ {p} : Answering(q)' \/ Refreshing(q)'
                                                 => op'[q].session # op'[p].session
      BY DEF LoginsApart
    <3>1. p # o /\ LoggingIn(p) /\ op'[p] = op[p]
      BY <1>2, <1>3 DEF LoggingIn, Answering
    <3>2. \A q \in Op : Answering(q)' \/ Refreshing(q)'
                         => (Answering(q) \/ Refreshing(q)) /\ op'[q] = op[q]
      BY <1>2, <1>3 DEF Answering, Refreshing
    <3>3. op[o].session # op[p].session
      BY <2>1, <3>1 DEF Orderly, LoginsApart
    <3> QED
      BY <2>1, <3>1, <3>2, <3>3 DEF Orderly, LoginsApart
  <2> QED
    BY <1>4, <2>3, <2>4 DEF Orderly
<1>6. CASE ClearTokens(o)
  <2>1. stored' = NoToken
    BY <1>6 DEF ClearTokens
  <2>2. LoginsApart'
    <3> SUFFICES ASSUME NEW p \in Op, LoggingIn(p)'
                 PROVE  /\ stored'.session # op'[p].session
                        /\ \A q \in Op \ {p} : Answering(q)' \/ Refreshing(q)'
                                                 => op'[q].session # op'[p].session
      BY DEF LoginsApart
    <3>1. p # o /\ LoggingIn(p) /\ Answering(p) /\ op'[p] = op[p]
      BY <1>2, <1>3 DEF LoggingIn, Answering
    <3>2. \A q \in Op : Answering(q)' \/ Refreshing(q)'
                         => (Answering(q) \/ Refreshing(q)) /\ op'[q] = op[q]
      BY <1>2, <1>3 DEF Answering, Refreshing
    <3>3. op[p].session # None
      BY <3>1 DEF Named, Answering
    <3> QED
      BY <2>1, <3>1, <3>2, <3>3 DEF Orderly, LoginsApart, NoToken
  <2> QED
    BY <1>4, <2>1, <2>2 DEF Orderly, StoredOwned, NoToken
<1> QED
  BY <1>5, <1>6

\* A new session is nobody else's: nothing names a session that has no row yet.
LEMMA CreateStep ==
    ASSUME TypeOK, KindAt, Orderly, NEW o \in Op, NEW s \in Session, CreateSession(o, s),
           account # "deleted"
    PROVE  Orderly'
<1>0. op \in [Op -> OpRecord] /\ session \in [Session -> SessionRecord]
  BY DEF TypeOK, OpRecord, SessionRecord
<1>1. /\ stored' = stored /\ session[s].row = "none" /\ op[o].kind = "login"
      /\ session' = [session EXCEPT ![s] = [row |-> "live", expired |-> FALSE,
                                            token |-> issued + 1, late |-> account # "ACTIVE"]]
  BY DEF CreateSession, browser, entries, At, KindAt
<1>2. /\ op'[o].kind = "login" /\ op'[o].pc = "cache"
      /\ op'[o].session = s /\ op'[o].token = issued + 1
  <2>1. op' = [op EXCEPT ![o] = [op[o] EXCEPT !.pc = "cache", !.session = s, !.token = issued + 1]]
    BY <1>0 DEF CreateSession
  <2> QED
    BY <1>0, <1>1, <2>1 DEF OpRecord
<1>3. \A p \in Op \ {o} : op'[p] = op[p]
  BY OthersStay DEF OpStep
<1>4. session'[s].token = issued + 1 /\ session'[s].row = "live"
  BY <1>0, <1>1
<1>5. \A t \in Session \ {s} : session'[t] = session[t]
  BY <1>0, <1>1
<1>6. \A t \in Session \cup {None} :
          Exists(t) => t \in Session \ {s} /\ session'[t] = session[t] /\ Exists(t)'
  BY <1>1, <1>5 DEF Exists
<1>7. ~Refreshing(o) /\ ~Refreshing(o)' /\ LoggingIn(o)' /\ Answering(o)'
  BY <1>1, <1>2 DEF Refreshing, LoggingIn, Answering
<1>8. \A p \in Op : Answering(p)' \/ Refreshing(p)'
          => \/ p = o
             \/ /\ p # o /\ (Answering(p) \/ Refreshing(p)) /\ op'[p] = op[p]
                /\ Exists(op[p].session) /\ op[p].session \in Session \cup {None}
  BY <1>0, <1>3 DEF Answering, Refreshing, Orderly, AnswersExist, OpRecord
<1>9. OneRefresh'
  BY <1>3, <1>7 DEF Orderly, OneRefresh, Refreshing
<1>10. AnswersExist'
  BY <1>2, <1>4, <1>6, <1>8, NoneIsNoSession DEF AnswersExist, Exists
<1>11. AnswersCurrent'
  <2> SUFFICES ASSUME NEW p \in Op, Answering(p)'
               PROVE  session'[op'[p].session].token = op'[p].token
    BY DEF AnswersCurrent
  <2>1. CASE p = o
    BY <1>2, <1>4, <2>1
  <2>2. CASE p # o
    <3>1. Answering(p) /\ op'[p] = op[p]
      BY <1>3, <2>2 DEF Answering
    <3> QED
      BY <1>6, <1>8, <2>2, <3>1 DEF Orderly, AnswersCurrent
  <2> QED
    BY <2>1, <2>2
<1>12. stored # NoToken => Exists(stored.session) /\ stored.session \in Session \cup {None}
  BY DEF Orderly, StoredOwned, TypeOK
<1>13. LoginsApart'
  <2> SUFFICES ASSUME NEW p \in Op, LoggingIn(p)'
               PROVE  /\ stored.session # op'[p].session
                      /\ \A q \in Op \ {p} : Answering(q)' \/ Refreshing(q)'
                                               => op'[q].session # op'[p].session
    BY <1>1 DEF LoginsApart
  <2>1. CASE p = o
    <3>1. stored.session # s
      BY <1>6, <1>12, NoneIsNoSession DEF NoToken
    <3> QED
      BY <1>2, <1>6, <1>8, <2>1, <3>1
  <2>2. CASE p # o
    <3>1. LoggingIn(p) /\ Answering(p) /\ op'[p] = op[p]
      BY <1>3, <2>2 DEF LoggingIn, Answering
    <3>2. op[p].session \in Session \ {s}
      BY <1>0, <1>6, <3>1 DEF Orderly, AnswersExist, OpRecord
    <3> QED
      BY <1>2, <1>8, <3>1, <3>2 DEF Orderly, LoginsApart
  <2> QED
    BY <2>1, <2>2
<1>14. StoredOwned'
  <2> SUFFICES ASSUME stored # NoToken
               PROVE  /\ Exists(stored.session)'
                      /\ \/ session'[stored.session].token = stored.token
                         \/ \E p \in Op : Refreshing(p)' /\ op'[p].session = stored.session
    BY <1>1 DEF StoredOwned, NoToken
  <2>1. \A p \in Op : Refreshing(p) => Refreshing(p)' /\ op'[p] = op[p]
    BY <1>3, <1>7 DEF Refreshing
  <2> QED
    <3>1. CASE session[stored.session].token = stored.token
      BY <1>1, <1>6, <1>12, <3>1
    <3>2. ASSUME NEW p \in Op, Refreshing(p), op[p].session = stored.session
          PROVE  \E q \in Op : Refreshing(q)' /\ op'[q].session = stored.session
      BY <2>1, <3>2
    <3>3. Exists(stored.session)'
      BY <1>1, <1>6, <1>12
    <3> QED
      BY <3>1, <3>2, <3>3 DEF Orderly, StoredOwned
<1> QED
  BY <1>9, <1>10, <1>11, <1>13, <1>14 DEF Orderly

\* Only the one refresh writes the token of its session; the storage waits for its answer.
LEMMA RotateStep ==
    ASSUME TypeOK, KindAt, Orderly, NEW o \in Op, Rotate(o), Live(op[o].session)
    PROVE  Orderly'
<1>0. op \in [Op -> OpRecord] /\ session \in [Session -> SessionRecord]
  BY DEF TypeOK, OpRecord, SessionRecord
<1> DEFINE s == op[o].session
<1>1. /\ stored' = stored /\ op[o].kind = "refresh" /\ op[o].pc = "rotate" /\ s \in Session
      /\ session' = [session EXCEPT ![s] = [session[s] EXCEPT !.token = issued + 1,
                                                              !.expired = FALSE]]
  BY <1>0 DEF Rotate, browser, entries, At, KindAt, Live, OpRecord
<1>2. /\ op'[o].kind = "refresh" /\ op'[o].pc = "cache"
      /\ op'[o].session = s /\ op'[o].token = issued + 1
  <2>1. op' = [op EXCEPT ![o] = [op[o] EXCEPT !.pc = "cache", !.token = issued + 1]]
    BY <1>0 DEF Rotate
  <2> QED
    BY <1>0, <1>1, <2>1 DEF OpRecord
<1>3. \A p \in Op \ {o} : op'[p] = op[p]
  BY OthersStay DEF OpStep
<1>4. session'[s].token = issued + 1
  BY <1>0, <1>1 DEF SessionRecord
<1>5. \A t \in Session : session'[t].row = session[t].row
                        /\ (t # s => session'[t].token = session[t].token)
  BY <1>0, <1>1 DEF SessionRecord
<1>6. Refreshing(o) /\ Refreshing(o)' /\ \A p \in Op \ {o} : ~Refreshing(p) /\ ~Refreshing(p)'
  BY <1>1, <1>2, <1>3 DEF Refreshing, Orderly, OneRefresh
<1>7. \A p \in Op \ {o} : Answering(p)' => /\ LoggingIn(p) /\ Answering(p)
                                           /\ op'[p] = op[p] /\ op[p].session # s
  BY <1>3, <1>6 DEF Answering, LoggingIn, Refreshing, Orderly, LoginsApart
<1>8. \A t \in Session \cup {None} : Exists(t) => Exists(t)' /\ t \in Session
  BY <1>5 DEF Exists
<1>9. OneRefresh'
  BY <1>6 DEF OneRefresh
<1>10. AnswersExist'
  BY <1>0, <1>2, <1>6, <1>7, <1>8 DEF AnswersExist, Orderly, OpRecord
<1>11. AnswersCurrent'
  <2> SUFFICES ASSUME NEW p \in Op, Answering(p)'
               PROVE  session'[op'[p].session].token = op'[p].token
    BY DEF AnswersCurrent
  <2>1. CASE p = o
    BY <1>2, <1>4, <2>1
  <2>2. CASE p # o
    <3>1. op[p].session \in Session /\ session[op[p].session].token = op[p].token
      BY <1>0, <1>7, <1>8, <2>2 DEF Orderly, AnswersExist, AnswersCurrent, OpRecord
    <3> QED
      BY <1>5, <1>7, <2>2, <3>1
  <2> QED
    BY <2>1, <2>2
<1>12. LoginsApart'
  <2> SUFFICES ASSUME NEW p \in Op, LoggingIn(p)'
               PROVE  /\ stored.session # op'[p].session
                      /\ \A q \in Op \ {p} : Answering(q)' \/ Refreshing(q)'
                                               => op'[q].session # op'[p].session
    BY <1>1 DEF LoginsApart
  <2>1. p # o /\ Answering(p)' /\ LoggingIn(p) /\ op'[p] = op[p] /\ op[p].session # s
    BY <1>2, <1>7 DEF LoggingIn, Answering
  <2> QED
    BY <1>2, <1>6, <1>7, <2>1 DEF Orderly, LoginsApart
<1>13. StoredOwned'
  <2> SUFFICES ASSUME stored # NoToken
               PROVE  /\ Exists(stored.session)'
                      /\ \/ session'[stored.session].token = stored.token
                         \/ \E p \in Op : Refreshing(p)' /\ op'[p].session = stored.session
    BY <1>1 DEF StoredOwned, NoToken
  <2>1. stored.session \in Session \cup {None} /\ Exists(stored.session)
    BY DEF TypeOK, Orderly, StoredOwned
  <2> QED
    <3>1. Exists(stored.session)' /\ stored.session \in Session
      BY <1>1, <1>8, <2>1
    <3>2. CASE stored.session = s
      BY <1>2, <1>6, <3>1, <3>2
    <3>3. CASE stored.session # s
      <4>1. session[stored.session].token = stored.token
        BY <1>6, <3>3 DEF Orderly, StoredOwned
      <4> QED
        BY <1>5, <3>1, <3>3, <4>1
    <3> QED
      BY <3>2, <3>3
<1> QED
  BY <1>9, <1>10, <1>11, <1>12, <1>13 DEF Orderly

LEMMA CurrentStep ==
    ASSUME TypeOK, Named, KindAt, Current, [Next]_vars
    PROVE  Current'
<1> SUFFICES ASSUME ~contended', faults' = 0 PROVE Orderly'
  BY DEF Current
<1>1. faults = 0
  BY FaultsGrow, BoundsAreNats DEF TypeOK
<1>2. ~contended
  BY DEF Next, Begins, OpStep, OpFails, UserSignup, BeginStatus, Login, Refresh, LogoutAll,
     DeleteAll, Validate, Logout, TerminateSession, WriteStatus, DeleteUser, WriteLastLogin,
     CreateSession,
     ClearEntry, CacheSession, SetTokens, ReadForRefresh, Rotate, ClearTokens, ReadForValidate,
     DeleteRow, FindAll, DeleteRows, EntryExpires, SessionExpires, vars, browser, entries
<1>3. Orderly
  BY <1>1, <1>2 DEF Current
<1>4. ASSUME NEW o \in Op, Begins(o) \/ OpStep(o) PROVE Orderly'
  <2>1. CASE Refresh(o)
    BY <1>3, <2>1, RefreshStep
  <2>2. CASE SetTokens(o) \/ ClearTokens(o)
    BY <1>3, <2>2, StoreStep
  <2>3. CASE Rotate(o) /\ Live(op[o].session)
    BY <1>3, <2>3, RotateStep
  <2>4. ASSUME NEW s \in Session, CreateSession(o, s), account # "deleted" PROVE Orderly'
    BY <1>3, <2>4, CreateStep
  <2>5. CASE /\ ~Refresh(o) /\ ~SetTokens(o) /\ ~ClearTokens(o)
             /\ Rotate(o) => ~Live(op[o].session)
             /\ \A s \in Session : CreateSession(o, s) => account = "deleted"
    <3>1. TokensStay /\ stored' = stored /\ \A p \in Op : MovesOn(p)
      BY <1>4, <2>5, MovesOnStep
    <3> QED
      BY <1>3, <3>1, OrderlyCarries
  <2> QED
    BY <2>1, <2>2, <2>3, <2>4, <2>5
<1>5. ~ \E o \in Op : OpFails(o)
  BY <1>1, FaultsGrow, BoundsAreNats DEF TypeOK
<1>6. CASE \/ UserSignup \/ UNCHANGED vars
           \/ \E s \in Session : EntryExpires(s) \/ SessionExpires(s)
  <2>1. op' = op /\ stored' = stored
    BY <1>6 DEF UserSignup, EntryExpires, SessionExpires, vars, browser, entries
  <2>2. \A o \in Op : MovesOn(o)
    BY <2>1 DEF MovesOn, Refreshing, Answering
  <2>3. TokensStay
    <3>1. CASE session' = session
      BY <3>1 DEF TokensStay
    <3>2. ASSUME NEW s \in Session, SessionExpires(s) PROVE TokensStay
      BY <3>2 DEF SessionExpires, TokensStay, TypeOK
    <3> QED
      BY <1>6, <3>1, <3>2 DEF UserSignup, EntryExpires, vars
  <2> QED
    BY <1>3, <2>1, <2>2, <2>3, OrderlyCarries
<1> QED
  BY <1>4, <1>5, <1>6 DEF Next

\* The invariant StoredIsCurrent of the runs: as long as the browser never had two
\* refreshes under way at once and nothing failed, the refresh token in its storage is the
\* one of its session's row whenever no refresh is under way, whatever logins, logouts,
\* expiries and administrators come between.
THEOREM StoredTokenIsCurrent == Spec => []StoredIsCurrent
<1>1. Init => KindAt /\ Current
  BY DEF Init, KindAt, Current, Orderly, OneRefresh, AnswersExist, AnswersCurrent, LoginsApart,
     StoredOwned, Answering, LoggingIn, Refreshing, FreeOp
<1>2. TypeOK /\ Named /\ KindAt /\ Current /\ [Next]_vars => KindAt' /\ Current'
  BY KindAtStep, CurrentStep
<1>3. Current => StoredIsCurrent
  BY DEF Current, Orderly, StoredOwned, StoredIsCurrent, Live, NoToken
<1> QED
  BY <1>1, <1>2, <1>3, TypeCorrect, PTL DEF Spec

-----------------------------------------------------------------------------
(* What a logout leaves behind.                                            *)

\* What a logout found is what there is to delete, but for the sessions nobody will clear;
\* what it still has to clear is gone.
FoundKnown ==
    \A o \in Op, s \in Session : s \in op[o].found =>
        /\ op[o].pc = "deleteRows" => session[s].row # "none"
        /\ op[o].pc = "clear" => session[s].row = "gone"
RowsCovered ==
    \A o \in Op, s \in Session :
        op[o].pc = "deleteRows" /\ op[o].kind # "deleteAll" /\ session[s].row = "live"
            => s \in op[o].found \/ s \in leftover
EntriesCovered ==
    \A s \in cache : session[s].row = "gone" =>
        s \in leftover \/ \E o \in Op : op[o].pc = "clear" /\ s \in op[o].found
Covered == FoundKnown /\ RowsCovered /\ EntriesCovered

\* The steps of operations that are not at work on a logout, and what they may do to a row.
Aside(p) ==
    /\ op[p].pc = "clear" \/ op'[p].pc = "clear" => op'[p] = op[p]
    /\ op'[p].pc = "deleteRows" => \/ op'[p] = op[p]
                                   \/ op'[p].kind = "deleteAll" /\ op'[p].found = {}
RowStep(s) ==
    \/ session'[s].row = session[s].row
    \/ session[s].row = "live" /\ session'[s].row = "gone" /\ s \in leftover'
    \/ /\ session[s].row = "none" /\ session'[s].row = "live"
       /\ (\E p \in Op : op[p].pc = "deleteRows") => s \in leftover'

LEMMA CoveredCarries ==
    ASSUME TypeOK, Covered, leftover \subseteq leftover', cache' \subseteq Session,
           \A s \in cache' : s \in cache \/ s \in leftover' \/ session'[s].row # "gone",
           \A p \in Op : Aside(p), \A s \in Session : RowStep(s)
    PROVE  Covered'
<1>1. FoundKnown'
  <2> SUFFICES ASSUME NEW o \in Op, NEW s \in Session, s \in op'[o].found
               PROVE  /\ op'[o].pc = "deleteRows" => session'[s].row # "none"
                      /\ op'[o].pc = "clear" => session'[s].row = "gone"
    BY DEF FoundKnown
  <2>1. op'[o].pc \in {"deleteRows", "clear"} => op'[o] = op[o]
    BY DEF Aside
  <2> QED
    BY <2>1 DEF Covered, FoundKnown, RowStep
<1>2. RowsCovered'
  <2> SUFFICES ASSUME NEW o \in Op, NEW s \in Session, op'[o].pc = "deleteRows",
                      op'[o].kind # "deleteAll", session'[s].row = "live"
               PROVE  s \in op'[o].found \/ s \in leftover'
    BY DEF RowsCovered
  <2>1. op'[o] = op[o]
    BY DEF Aside
  <2> QED
    BY <2>1 DEF Covered, RowsCovered, RowStep
<1>3. EntriesCovered'
  <2> SUFFICES ASSUME NEW s \in cache', session'[s].row = "gone", s \notin leftover'
               PROVE  \E o \in Op : op'[o].pc = "clear" /\ s \in op'[o].found
    BY DEF EntriesCovered
  <2>1. s \in cache /\ s \in Session /\ session[s].row = "gone"
    BY DEF RowStep
  <2>2. PICK o \in Op : op[o].pc = "clear" /\ s \in op[o].found
    BY <2>1 DEF Covered, EntriesCovered
  <2> QED
    BY <2>2 DEF Aside
<1> QED
  BY <1>1, <1>2, <1>3 DEF Covered

\* The steps that neither look rows up for a logout nor work on what one found.
LEMMA AsideStep ==
    ASSUME TypeOK, Named, NEW o \in Op, Begins(o) \/ OpStep(o),
           ~FindAll(o), ~DeleteRows(o), \A s \in Session : ~ClearEntry(o, s),
           ~(DeleteRow(o) /\ op[o].kind = "logout" /\ Live(op[o].session))
    PROVE  \A p \in Op : Aside(p)
<1>0. op \in [Op -> OpRecord]
  BY DEF TypeOK, OpRecord
<1>1. CASE Refresh(o)
  <2>1. op'[o] = [FreeOp EXCEPT !.kind = "refresh", !.pc = "readRow", !.session = stored.session,
                                !.token = stored.token] /\ op[o].pc = "free"
    BY <1>0, <1>1 DEF Refresh, At
  <2>2. Aside(o)
    BY <2>1 DEF Aside, FreeOp
  <2> QED
    BY <2>2, OthersStay DEF Aside
<1>2. CASE Begins(o) /\ ~Refresh(o)
  <2>1. \E kind \in Kind, pc \in PC, s \in Session \cup {None} :
            /\ Begin(o, kind, pc, s) /\ pc # "clear"
            /\ pc = "deleteRows" => kind = "deleteAll"
    BY <1>2 DEF Begins, BeginStatus, Login, LogoutAll, DeleteAll, Validate, Logout,
       TerminateSession, Kind, PC
  <2>2. Aside(o)
    BY <1>0, <2>1, OpReads DEF Aside
  <2> QED
    BY <2>2, OthersStay DEF Aside
<1>3. CASE OpStep(o)
  <2>1. op[o].pc \notin {"clear", "deleteRows"}
    BY <1>3 DEF OpStep, WriteStatus, DeleteUser, WriteLastLogin, CreateSession, CacheSession,
       SetTokens, ReadForRefresh, Rotate, ClearTokens, ReadForValidate, DeleteRow, At
  <2>2. op'[o].pc \notin {"clear", "deleteRows"}
    <3>1. ASSUME NEW s \in Session, CreateSession(o, s), account # "deleted"
          PROVE  op'[o].pc = "cache"
      BY <1>0, <3>1 DEF CreateSession, OpRecord
    <3>2. CASE Rotate(o) /\ Live(op[o].session)
      BY <1>0, <3>2 DEF Rotate, OpRecord
    <3>3. CASE ~ \/ Rotate(o) /\ Live(op[o].session)
                 \/ account # "deleted" /\ \E s \in Session : CreateSession(o, s)
      <4>1. Finish(o) \/ \E pc \in PC \ {"clear", "deleteRows"} : Goto(o, pc)
        BY <1>3, <3>3 DEF OpStep, WriteStatus, DeleteUser, WriteLastLogin, CreateSession,
           CacheSession, SetTokens, ReadForRefresh, Rotate, ClearTokens, ReadForValidate,
           DeleteRow, PC
      <4> QED
        BY <1>0, <4>1, OpReads
    <3> QED
      BY <3>1, <3>2, <3>3
  <2> QED
    BY <2>1, <2>2, OthersStay DEF Aside
<1> QED
  BY <1>1, <1>2, <1>3

\* What they do to the rows, the entries and the history of them.
LEMMA AsideRows ==
    ASSUME TypeOK, Named, Covered, NEW o \in Op, Begins(o) \/ OpStep(o),
           ~FindAll(o), ~DeleteRows(o), \A s \in Session : ~ClearEntry(o, s),
           ~(DeleteRow(o) /\ op[o].kind = "logout" /\ Live(op[o].session))
    PROVE  /\ leftover \subseteq leftover' /\ cache' \subseteq Session
           /\ \A s \in cache' : s \in cache \/ s \in leftover' \/ session'[s].row # "gone"
           /\ \A s \in Session : RowStep(s)
<1>0. session \in [Session -> SessionRecord] /\ op \in [Op -> OpRecord] /\ cache \subseteq Session
  BY DEF TypeOK, SessionRecord, OpRecord
<1>1. CASE UNCHANGED <<session, entries>>
  BY <1>0, <1>1 DEF entries, RowStep
<1>2. CASE DeleteUser(o)
  BY <1>0, <1>2, NoneIsNoSession DEF DeleteUser, Deleted, Rows, Live, RowStep, SessionRecord
<1>3. ASSUME NEW s \in Session, CreateSession(o, s), account # "deleted"
      PROVE  /\ leftover \subseteq leftover' /\ cache' = cache
             /\ \A t \in Session : RowStep(t)
  <2>1. /\ session' = [session EXCEPT ![s] = [row |-> "live", expired |-> FALSE,
                                              token |-> issued + 1, late |-> account # "ACTIVE"]]
        /\ session[s].row = "none" /\ cache' = cache
        /\ leftover' = IF \E p \in Op : At(p, "deleteRows") THEN leftover \cup {s} ELSE leftover
    BY <1>3 DEF CreateSession
  <2> QED
    BY <1>0, <2>1 DEF RowStep, At
<1>4. CASE CacheSession(o)
  <2>1. op[o].session \in Session
    BY <1>0, <1>4 DEF CacheSession, At, Named, OpRecord
  <2> QED
    BY <1>0, <1>4, <2>1 DEF CacheSession, Live, RowStep
<1>5. CASE Rotate(o) /\ Live(op[o].session)
  <2>1. session' = [session EXCEPT ![op[o].session] =
                      [session[op[o].session] EXCEPT !.token = issued + 1, !.expired = FALSE]]
        /\ UNCHANGED entries
    BY <1>0, <1>5 DEF Rotate, Live, OpRecord
  <2>2. \A s \in Session : session'[s].row = session[s].row
    BY <1>0, <2>1 DEF SessionRecord
  <2> QED
    BY <1>0, <2>1, <2>2 DEF entries, RowStep
<1>6. CASE DeleteRow(o)
  <2> DEFINE s == op[o].session
  <2>1. /\ session' = Deleted({s}) /\ cache' = cache
        /\ leftover' = IF op[o].kind = "logout" THEN leftover ELSE leftover \cup ({s} \cap Rows)
    BY <1>6 DEF DeleteRow
  <2>2. ASSUME NEW t \in Session PROVE RowStep(t)
    <3>1. CASE t = s /\ session[t].row = "live"
      <4>1. Live(s) /\ op[o].kind # "logout"
        BY <1>6, <3>1, NoneIsNoSession DEF Live
      <4>2. t \in leftover'
        BY <2>1, <3>1, <4>1 DEF Rows
      <4> QED
        BY <1>0, <2>1, <3>1, <4>2 DEF Deleted, RowStep, SessionRecord
    <3>2. CASE ~(t = s /\ session[t].row = "live")
      BY <1>0, <2>1, <3>2 DEF Deleted, RowStep
    <3> QED
      BY <3>1, <3>2
  <2>3. leftover \subseteq leftover'
    BY <2>1
  <2> QED
    BY <1>0, <2>1, <2>2, <2>3
<1>7. \/ UNCHANGED <<session, entries>> \/ DeleteUser(o) \/ CacheSession(o) \/ DeleteRow(o)
      \/ Rotate(o) /\ Live(op[o].session)
      \/ \E s \in Session : CreateSession(o, s) /\ account # "deleted"
  BY DEF Begins, OpStep, BeginStatus, Login, Refresh, LogoutAll, DeleteAll, Validate, Logout,
     TerminateSession, WriteStatus, WriteLastLogin, CreateSession, SetTokens, ReadForRefresh,
     Rotate, ClearTokens, ReadForValidate, entries
<1>8. \A s \in cache' : (cache' = cache) => s \in cache
  OBVIOUS
<1> QED
  BY <1>0, <1>1, <1>2, <1>3, <1>4, <1>5, <1>6, <1>7, <1>8

\* The steps of a logout itself.
LEMMA LogoutStep ==
    ASSUME TypeOK, Covered, NEW o \in Op,
           \/ DeleteRow(o) /\ op[o].kind = "logout" /\ Live(op[o].session)
           \/ FindAll(o) \/ DeleteRows(o) \/ \E s \in Session : ClearEntry(o, s)
    PROVE  Covered'
<1>0. session \in [Session -> SessionRecord] /\ op \in [Op -> OpRecord] /\ cache \subseteq Session
  BY DEF TypeOK, SessionRecord, OpRecord
<1>1. \A p \in Op \ {o} : op'[p] = op[p]
  BY OthersStay DEF OpStep
<1>2. CASE DeleteRow(o) /\ op[o].kind = "logout" /\ Live(op[o].session)
  <2> DEFINE s == op[o].session
  <2>1. /\ op'[o].pc = "clear" /\ op'[o].found = {s} /\ s \in Session
        /\ cache' = cache /\ leftover' = leftover /\ op[o].pc = "deleteRow"
    <3>1. op' = [op EXCEPT ![o] = [op[o] EXCEPT !.pc = "clear", !.found = {s}]]
      BY <1>0, <1>2 DEF DeleteRow
    <3> QED
      BY <1>0, <1>2, <3>1 DEF DeleteRow, OpRecord, At, Live
  <2>2. /\ \A t \in Session \ {s} : session'[t] = session[t]
        /\ session[s].row = "live" /\ session'[s].row = "gone"
    BY <1>0, <1>2, <2>1 DEF DeleteRow, Deleted, Live, SessionRecord
  <2>3. FoundKnown'
    BY <1>1, <2>1, <2>2 DEF Covered, FoundKnown
  <2>4. RowsCovered'
    BY <1>1, <2>1, <2>2 DEF Covered, RowsCovered
  <2>5. EntriesCovered'
    <3> SUFFICES ASSUME NEW t \in cache, session'[t].row = "gone", t \notin leftover
                 PROVE  \E p \in Op : op'[p].pc = "clear" /\ t \in op'[p].found
      BY <2>1 DEF EntriesCovered
    <3>1. CASE t = s
      BY <2>1, <3>1
    <3>2. CASE t # s
      <4>1. PICK p \in Op : op[p].pc = "clear" /\ t \in op[p].found
        BY <1>0, <2>2, <3>2 DEF Covered, EntriesCovered
      <4> QED
        BY <1>1, <2>1, <4>1
    <3> QED
      BY <3>1, <3>2
  <2> QED
    BY <2>3, <2>4, <2>5 DEF Covered
<1>3. CASE FindAll(o)
  <2>1. /\ op'[o].pc = "deleteRows" /\ op'[o].found = Rows /\ op[o].pc = "findAll"
        /\ session' = session /\ cache' = cache /\ leftover' = leftover
    BY <1>0, <1>3 DEF FindAll, OpRecord, At, entries
  <2>2. \A s \in Session : s \in Rows <=> session[s].row = "live"
    BY NoneIsNoSession DEF Rows, Live
  <2> QED
    BY <1>1, <2>1, <2>2 DEF Covered, FoundKnown, RowsCovered, EntriesCovered
<1>4. CASE DeleteRows(o)
  <2>1. /\ op[o].pc = "deleteRows" /\ cache' = cache
        /\ leftover' = IF op[o].kind = "deleteAll" THEN leftover \cup Rows ELSE leftover
        /\ \/ op'[o].pc = "clear" /\ op'[o].found = op[o].found
           \/ op'[o].pc = "done" /\ op'[o].found = {} /\ op[o].found = {}
    BY <1>0, <1>4, OpReads DEF DeleteRows, At
  <2>2. \A s \in Session : /\ session[s].row = "none" => session'[s].row = "none"
                           /\ session[s].row # "none" => session'[s].row = "gone"
    BY <1>0, <1>4, NoneIsNoSession DEF DeleteRows, Deleted, SessionRecord
  <2>3. \A s \in Session : session[s].row = "live" => s \in op[o].found \/ s \in leftover'
    BY <2>1, NoneIsNoSession DEF Covered, RowsCovered, Rows, Live
  <2>4. FoundKnown'
    BY <1>1, <2>1, <2>2 DEF Covered, FoundKnown
  <2>5. RowsCovered'
    BY <2>2 DEF RowsCovered
  <2>6. EntriesCovered'
    <3> SUFFICES ASSUME NEW s \in cache, session'[s].row = "gone", s \notin leftover'
                 PROVE  \E p \in Op : op'[p].pc = "clear" /\ s \in op'[p].found
      BY <2>1 DEF EntriesCovered
    <3>1. s \in Session /\ session[s].row # "none" /\ s \notin leftover
      BY <1>0, <2>1, <2>2
    <3>2. CASE session[s].row = "live"
      BY <2>1, <2>3, <3>2, <3>1
    <3>3. CASE session[s].row = "gone"
      <4>1. PICK p \in Op : op[p].pc = "clear" /\ s \in op[p].found
        BY <3>1, <3>3 DEF Covered, EntriesCovered
      <4> QED
        BY <1>1, <2>1, <4>1
    <3> QED
      BY <1>0, <3>1, <3>2, <3>3 DEF SessionRecord
  <2> QED
    BY <2>4, <2>5, <2>6 DEF Covered
<1>5. ASSUME NEW s \in Session, ClearEntry(o, s) PROVE Covered'
  <2>1. /\ session' = session /\ cache' = cache \ {s} /\ leftover' = leftover \ {s}
        /\ op[o].pc = "clear" /\ s \in op[o].found
    BY <1>5 DEF ClearEntry, At
  <2>2. \/ op'[o].pc = "clear" /\ op'[o].found = op[o].found \ {s}
        \/ op'[o].pc = "done" /\ op'[o].found = {} /\ op[o].found = {s}
    <3>1. CASE op[o].found = {s}
      BY <1>0, <1>5, <3>1, OpReads DEF ClearEntry
    <3>2. CASE op[o].found # {s}
      BY <1>0, <1>5, <2>1, <3>2 DEF ClearEntry, OpRecord
    <3> QED
      BY <3>1, <3>2
  <2>3. session[s].row = "gone"
    BY <2>1 DEF Covered, FoundKnown
  <2>4. FoundKnown' /\ RowsCovered'
    BY <1>1, <2>1, <2>2, <2>3 DEF Covered, FoundKnown, RowsCovered
  <2>5. EntriesCovered'
    <3> SUFFICES ASSUME NEW t \in cache, t # s, session[t].row = "gone", t \notin leftover
                 PROVE  \E p \in Op : op'[p].pc = "clear" /\ t \in op'[p].found
      BY <2>1 DEF EntriesCovered
    <3>1. PICK p \in Op : op[p].pc = "clear" /\ t \in op[p].found
      BY DEF Covered, EntriesCovered
    <3> QED
      BY <1>1, <2>2, <3>1
  <2> QED
    BY <2>4, <2>5 DEF Covered
<1> QED
  BY <1>2, <1>3, <1>4, <1>5

LEMMA CoveredStep ==
    ASSUME TypeOK, Named, faults = 0 => Covered, [Next]_vars
    PROVE  faults' = 0 => Covered'
<1> SUFFICES ASSUME faults' = 0 PROVE Covered'
  OBVIOUS
<1>1. faults = 0 /\ Covered
  BY FaultsGrow, BoundsAreNats DEF TypeOK
<1>2. ASSUME NEW o \in Op, Begins(o) \/ OpStep(o) PROVE Covered'
  <2>1. CASE \/ DeleteRow(o) /\ op[o].kind = "logout" /\ Live(op[o].session)
             \/ FindAll(o) \/ DeleteRows(o) \/ \E s \in Session : ClearEntry(o, s)
    BY <1>1, <2>1, LogoutStep
  <2>2. CASE /\ ~(DeleteRow(o) /\ op[o].kind = "logout" /\ Live(op[o].session))
             /\ ~FindAll(o) /\ ~DeleteRows(o) /\ \A s \in Session : ~ClearEntry(o, s)
    BY <1>1, <1>2, <2>2, AsideStep, AsideRows, CoveredCarries
  <2> QED
    BY <2>1, <2>2
<1>3. ~ \E o \in Op : OpFails(o)
  BY <1>1, FaultsGrow, BoundsAreNats DEF TypeOK
<1>4. CASE \/ UserSignup \/ UNCHANGED vars
           \/ \E s \in Session : EntryExpires(s) \/ SessionExpires(s)
  <2>1. /\ op' = op /\ leftover' = leftover /\ cache' \subseteq cache
        /\ \A s \in Session : session'[s].row = session[s].row
    <3>1. ASSUME NEW s \in Session, SessionExpires(s)
          PROVE  \A t \in Session : session'[t].row = session[t].row
      BY <3>1 DEF SessionExpires, TypeOK
    <3> QED
      BY <1>4, <3>1 DEF UserSignup, EntryExpires, SessionExpires, vars, entries
  <2>2. cache \subseteq Session
    BY DEF TypeOK
  <2> QED
    BY <1>1, <2>1, <2>2 DEF Covered, FoundKnown, RowsCovered, EntriesCovered
<1> QED
  BY <1>2, <1>3, <1>4 DEF Next

\* The invariant LogoutForgets of the runs, for any number of sessions and operations: as
\* long as nothing fails, a logout, a logout of all sessions and a deactivation leave no
\* entry of a session they deleted, in whatever order they meet each other; what is left is
\* of a session that ended otherwise, or was created or cached behind their back.
THEOREM LogoutsForget == Spec => []LogoutForgets
<1>1. Init => (faults = 0 => Covered)
  BY DEF Init, Covered, FoundKnown, RowsCovered, EntriesCovered, FreeOp
<1>2. TypeOK /\ Named /\ (faults = 0 => Covered) /\ [Next]_vars => (faults = 0 => Covered)'
  BY CoveredStep
<1>3. (faults = 0 => Covered) => LogoutForgets
  BY DEF Covered, EntriesCovered, LogoutForgets, At
<1> QED
  BY <1>1, <1>2, <1>3, TypeCorrect, PTL DEF Spec
=============================================================================
