----------------------------- MODULE PagesProofs -----------------------------
(***************************************************************************)
(* Theorems about Pages, for any sets of workspaces, Facebook users,       *)
(* accounts, rows and operations.                                          *)
(***************************************************************************)
EXTENDS Pages, FiniteSetTheorems, TLAPS

-----------------------------------------------------------------------------
(* Type correctness.                                                       *)

LEMMA TypeInit ==
    ASSUME Init
    PROVE  TypeOK
BY DEF Init, TypeOK, NoAccount, NoPage, FreeOp, PC, Subscribing, Unsubscribing

Kind == Subscribing \cup Unsubscribing \cup {"none", "initiate", "callback"}

OpRecord == [kind: Kind, pc: PC, ws: Workspace \cup {None}, account: Account \cup {None},
             row: Row \cup {None}, flow: Op \cup {None}, told: BOOLEAN]

PageRecord == [ws: Workspace \cup {None}, account: Account \cup {None},
               active: BOOLEAN, hears: BOOLEAN]

\* What the type invariant says of the operations and the rows.
LEMMA TypeFacts ==
    ASSUME TypeOK
    PROVE  /\ op \in [Op -> OpRecord]
           /\ page \in [Row -> PageRecord]
           /\ account \in [Account -> [ws: Workspace \cup {None}, user: FbUser \cup {None}]]
           /\ state \in [Op -> Workspace \cup {None}]
BY DEF TypeOK, OpRecord, PageRecord, Kind

\* What an operation is after it begins, moves on or ends; the others stay.
LEMMA Begun ==
    ASSUME TypeOK, NEW o \in Op, NEW kind, NEW pc, NEW w, NEW a, NEW r, Begin(o, kind, pc, w, a, r)
    PROVE  /\ op'[o].kind = kind /\ op'[o].pc = pc /\ op'[o].ws = w /\ op'[o].account = a
           /\ op'[o].row = r /\ op'[o].flow = None /\ ~op'[o].told
           /\ op[o].pc = "free"
           /\ \A p \in Op \ {o} : op'[p] = op[p]
           /\ (kind \in Kind /\ pc \in PC /\ w \in Workspace \cup {None}
               /\ a \in Account \cup {None} /\ r \in Row \cup {None})
                  => op' \in [Op -> OpRecord]
<1>1. op \in [Op -> OpRecord]
  BY TypeFacts
<1>2. PICK new : /\ new = [FreeOp EXCEPT !.kind = kind, !.pc = pc, !.ws = w, !.account = a, !.row = r]
                 /\ op' = [op EXCEPT ![o] = new]
  BY DEF Begin
<1>3. new = [kind |-> kind, pc |-> pc, ws |-> w, account |-> a, row |-> r,
             flow |-> None, told |-> FALSE]
  BY <1>2 DEF FreeOp
<1>4. op'[o] = new /\ \A p \in Op \ {o} : op'[p] = op[p]
  BY <1>1, <1>2
<1>5. new \in OpRecord => op' \in [Op -> OpRecord]
  BY <1>1, <1>2
<1>6. /\ op'[o].kind = kind /\ op'[o].pc = pc /\ op'[o].ws = w /\ op'[o].account = a
      /\ op'[o].row = r /\ op'[o].flow = None /\ ~op'[o].told
  BY <1>3, <1>4
<1>7. (kind \in Kind /\ pc \in PC /\ w \in Workspace \cup {None}
       /\ a \in Account \cup {None} /\ r \in Row \cup {None}) => new \in OpRecord
  BY <1>3 DEF OpRecord
<1> QED
  BY <1>4, <1>5, <1>6, <1>7 DEF Begin, At

LEMMA Moved ==
    ASSUME TypeOK, NEW o \in Op, NEW pc \in PC, Goto(o, pc)
    PROVE  /\ op'[o].pc = pc
           /\ op'[o].kind = op[o].kind /\ op'[o].ws = op[o].ws /\ op'[o].account = op[o].account
           /\ op'[o].row = op[o].row /\ op'[o].flow = op[o].flow /\ op'[o].told = op[o].told
           /\ \A p \in Op \ {o} : op'[p] = op[p]
           /\ op' \in [Op -> OpRecord]
BY TypeFacts DEF Goto, OpRecord

LEMMA Finished ==
    ASSUME TypeOK, NEW o \in Op, Finish(o)
    PROVE  /\ op'[o] = FreeOp
           /\ \A p \in Op \ {o} : op'[p] = op[p]
           /\ op' \in [Op -> OpRecord]
BY TypeFacts DEF Finish, FreeOp, OpRecord, Kind, PC

LEMMA TypeOfParts ==
    ASSUME op' \in [Op -> OpRecord], page' \in [Row -> PageRecord],
           account' \in [Account -> [ws: Workspace \cup {None}, user: FbUser \cup {None}]],
           state' \in [Op -> Workspace \cup {None}],
           delivers' \in BOOLEAN, flowsCrossed' \in SUBSET Workspace, switchedOn' \in SUBSET Row,
           connectsRaced' \in BOOLEAN, disturbed' \in BOOLEAN
    PROVE  TypeOK'
BY DEF TypeOK, OpRecord, PageRecord, Kind

LEMMA OAuthType ==
    ASSUME TypeOK, NEW o \in Op,
           \/ SetState(o) \/ StateExpires(o) \/ DeleteState(o)
           \/ \E i \in Op : HandleCallback(o, i)
           \/ \E a \in Account, u \in FbUser : CreateAccount(o, a, u)
           \/ \E w \in Workspace : InitiateOAuth(o, w)
    PROVE  TypeOK'
<1> USE TypeFacts DEF history, marks
<1>1. CASE SetState(o)
  <2>1. op[o].ws \in Workspace \cup {None}
    BY DEF OpRecord
  <2> QED
    BY TypeOfParts, <1>1, <2>1, Finished DEF SetState, TypeOK
<1>2. CASE StateExpires(o)
  BY <1>2 DEF StateExpires, TypeOK
<1>3. CASE DeleteState(o)
  <2>1. "exchange" \in PC
    BY DEF PC
  <2> QED
    BY TypeOfParts, <1>3, <2>1, Moved DEF DeleteState, TypeOK
<1>4. ASSUME NEW i \in Op, HandleCallback(o, i)
      PROVE  TypeOK'
  <2>1. op' \in [Op -> OpRecord]
    BY <1>4 DEF HandleCallback, FreeOp, OpRecord, Kind, PC
  <2>2. flowsCrossed' \in SUBSET Workspace
    BY <1>4 DEF HandleCallback, TypeOK
  <2> QED
    BY TypeOfParts, <1>4, <2>1, <2>2 DEF HandleCallback, TypeOK
<1>5. ASSUME NEW a \in Account, NEW u \in FbUser, CreateAccount(o, a, u)
      PROVE  TypeOK'
  <2>1. op[o].ws \in Workspace \cup {None}
    BY DEF OpRecord
  <2>2. account' \in [Account -> [ws: Workspace \cup {None}, user: FbUser \cup {None}]]
    BY <1>5, <2>1 DEF CreateAccount
  <2> QED
    BY TypeOfParts, <1>5, <2>2, Finished DEF CreateAccount, TypeOK
<1>6. ASSUME NEW w \in Workspace, InitiateOAuth(o, w)
      PROVE  TypeOK'
  <2>1. "initiate" \in Kind /\ "setState" \in PC
    BY DEF Kind, PC
  <2>2. op' \in [Op -> OpRecord]
    BY <1>6, <2>1, Begun DEF InitiateOAuth
  <2>3. flowsCrossed' \in SUBSET Workspace /\ connectsRaced' \in BOOLEAN /\ disturbed' \in BOOLEAN
    BY <1>6 DEF InitiateOAuth, Begin, TypeOK
  <2> QED
    BY TypeOfParts, <1>6, <2>2, <2>3 DEF InitiateOAuth, TypeOK
<1> QED
  BY <1>1, <1>2, <1>3, <1>4, <1>5, <1>6

\* What writePage does to its row.
LEMMA WrittenPage ==
    ASSUME NEW o \in Op, WritePage(o)
    PROVE  \/ page' = page
           \/ page' = [page EXCEPT ![op[o].row].active = TRUE, ![op[o].row].hears = op[o].told]
           \/ page' = [page EXCEPT ![op[o].row].active = FALSE]
           \/ page' = [page EXCEPT ![op[o].row].active = FALSE, ![op[o].row].hears = op[o].told]
           \/ page' = [page EXCEPT ![op[o].row].hears = op[o].told]
<1>1. CASE op[o].kind = "reactivate"
  BY <1>1 DEF WritePage
<1>2. CASE op[o].kind = "disconnect"
  BY <1>2 DEF WritePage, Unsubscribing
<1>3. CASE op[o].kind \in Unsubscribing \ {"disconnect"}
  BY <1>3 DEF WritePage, Unsubscribing
<1>4. CASE op[o].kind \notin Unsubscribing \cup {"reactivate"}
  BY <1>4 DEF WritePage, Unsubscribing
<1> QED
  BY <1>1, <1>2, <1>3, <1>4

LEMMA PageType ==
    ASSUME TypeOK, NEW o \in Op,
           \/ SubscribePage(o) \/ UnsubscribePage(o) \/ WritePage(o) \/ DeleteAccount(o) \/ Fails(o)
           \/ \E r \in Row : StorePage(o, r) \/ StartOnPage(o, r)
           \/ \E w \in Workspace, a \in Account :
                  ConnectPage(o, w, a) \/ StartDisconnectAccount(o, w, a)
    PROVE  TypeOK'
<1> USE TypeFacts, TypeOfParts DEF TypeOK, history, marks
<1>1. CASE SubscribePage(o)
  <2>1. PICK takesEffect \in BOOLEAN, answered \in BOOLEAN :
          /\ delivers' = (delivers \/ takesEffect)
          /\ \/ Finish(o)
             \/ \E pc \in PC : op' = [op EXCEPT ![o].told = answered, ![o].pc = pc]
    BY <1>1 DEF SubscribePage, PC
  <2>2. op' \in [Op -> OpRecord]
    BY <2>1, Finished DEF OpRecord
  <2> QED
    BY <1>1, <2>1, <2>2 DEF SubscribePage
<1>2. CASE UnsubscribePage(o)
  <2>1. PICK pc \in PC : Goto(o, pc)
    BY <1>2 DEF UnsubscribePage, PC
  <2> QED
    BY <1>2, <2>1, Moved DEF UnsubscribePage
<1>3. CASE WritePage(o)
  <2>1. op[o].told \in BOOLEAN
    BY DEF OpRecord
  <2>2. page' \in [Row -> PageRecord]
    <3>0. PICK told \in BOOLEAN : told = op[o].told
      BY <2>1
    <3>1. PICK r : r = op[o].row
      OBVIOUS
    <3>2. page \in [Row -> PageRecord]
      OBVIOUS
    <3>3. [page EXCEPT ![r].active = TRUE, ![r].hears = told] \in [Row -> PageRecord]
      BY <3>2 DEF PageRecord
    <3>4. [page EXCEPT ![r].active = FALSE] \in [Row -> PageRecord]
      BY <3>2 DEF PageRecord
    <3>5. [page EXCEPT ![r].active = FALSE, ![r].hears = told] \in [Row -> PageRecord]
      BY <3>2 DEF PageRecord
    <3>6. [page EXCEPT ![r].hears = told] \in [Row -> PageRecord]
      BY <3>2 DEF PageRecord
    <3> QED
      BY <1>3, <3>0, <3>1, <3>2, <3>3, <3>4, <3>5, <3>6, WrittenPage
  <2>3. switchedOn' \in SUBSET Row
    BY <1>3 DEF WritePage
  <2> QED
    BY <1>3, <2>2, <2>3, Finished DEF WritePage
<1>4. CASE DeleteAccount(o)
  <2>1. NoPage \in PageRecord
        /\ NoAccount \in [ws: Workspace \cup {None}, user: FbUser \cup {None}]
    BY DEF NoPage, NoAccount, PageRecord
  <2>2. page' \in [Row -> PageRecord] /\ switchedOn' \in SUBSET Row
    BY <1>4, <2>1 DEF DeleteAccount
  <2>3. account' \in [Account -> [ws: Workspace \cup {None}, user: FbUser \cup {None}]]
    BY <1>4, <2>1 DEF DeleteAccount
  <2> QED
    BY <1>4, <2>2, <2>3, Finished DEF DeleteAccount
<1>5. CASE Fails(o)
  BY <1>5, Finished DEF Fails
<1>6. ASSUME NEW r \in Row, StorePage(o, r)
      PROVE  TypeOK'
  <2>1. /\ op[o].ws \in Workspace \cup {None} /\ op[o].account \in Account \cup {None}
        /\ op[o].told \in BOOLEAN
    BY DEF OpRecord
  <2>2. page' \in [Row -> PageRecord] /\ switchedOn' \in SUBSET Row
    <3>1. PICK new \in PageRecord :
             new = [ws |-> op[o].ws, account |-> op[o].account, active |-> TRUE,
                    hears |-> op[o].told]
      BY <2>1 DEF PageRecord
    <3>2. page' = page \/ page' = [page EXCEPT ![r] = new]
      BY <1>6, <3>1 DEF StorePage
    <3> QED
      BY <1>6, <3>2 DEF StorePage
  <2> QED
    BY <1>6, <2>2, Finished DEF StorePage
<1>7. ASSUME NEW r \in Row, StartOnPage(o, r)
      PROVE  TypeOK'
  <2>0. PICK w \in Workspace \cup {None} : w = page[r].ws
    BY DEF PageRecord
  <2>1. PICK kind \in Kind, pc \in PC : Begin(o, kind, pc, w, None, r)
    BY <1>7, <2>0 DEF StartOnPage, Kind, PC, Subscribing, Unsubscribing
  <2>2. op' \in [Op -> OpRecord]
    BY <2>1, Begun
  <2> QED
    BY <1>7, <2>1, <2>2 DEF StartOnPage, Begin
<1>8. ASSUME NEW w \in Workspace, NEW a \in Account,
             ConnectPage(o, w, a) \/ StartDisconnectAccount(o, w, a)
      PROVE  TypeOK'
  <2>1. PICK kind \in Kind, pc \in PC, r \in Row \cup {None} : Begin(o, kind, pc, w, a, r)
    <3>1. CASE ConnectPage(o, w, a)
      BY <3>1 DEF ConnectPage, Kind, PC, Subscribing, Pages
    <3>2. CASE StartDisconnectAccount(o, w, a)
      BY <3>2 DEF StartDisconnectAccount, Kind, PC, Unsubscribing
    <3> QED
      BY <1>8, <3>1, <3>2
  <2>2. op' \in [Op -> OpRecord]
    BY <2>1, Begun
  <2> QED
    BY <1>8, <2>1, <2>2 DEF ConnectPage, StartDisconnectAccount, Begin
<1> QED
  BY <1>1, <1>2, <1>3, <1>4, <1>5, <1>6, <1>7, <1>8

LEMMA TypeStep ==
    ASSUME TypeOK, [Next]_vars
    PROVE  TypeOK'
<1>1. ASSUME NEW r \in Row, UpdatePage(r)
      PROVE  TypeOK'
  <2>1. page' \in [Row -> PageRecord]
    BY <1>1, TypeFacts DEF UpdatePage, PageRecord
  <2>2. switchedOn' \in SUBSET Row
    BY <1>1 DEF UpdatePage, TypeOK
  <2> QED
    BY <1>1, <2>1, <2>2, TypeFacts, TypeOfParts DEF UpdatePage, TypeOK, marks
<1>2. CASE UNCHANGED vars
  BY <1>2 DEF vars, TypeOK
<1> QED
  BY <1>1, <1>2, OAuthType, PageType DEF Next

\* Every variable keeps its type in every behaviour.
THEOREM TypeCorrect == Spec => []TypeOK
BY TypeInit, TypeStep, PTL DEF Spec

-----------------------------------------------------------------------------
(* The shapes of operations and rows.                                      *)

\* An operation's step, and accounts that stay, go, or are new.
LEMMA OtherShapes ==
    ASSUME Shapes, NEW o \in Op, OpShape(o)',
           \A p \in Op \ {o} : op'[p] = op[p],
           \A a \in Account : \/ account'[a] = account[a] \/ account'[a].ws = None
                              \/ \A p \in Op : op[p].account # a
    PROVE  \A p \in Op : OpShape(p)'
<1> SUFFICES ASSUME NEW p \in Op, p # o
             PROVE  OpShape(p)'
  OBVIOUS
<1>1. OpShape(p) /\ op'[p] = op[p]
  BY DEF Shapes
<1>2. op[p].account \in Account =>
        account'[op[p].account].ws \in {None, account[op[p].account].ws}
  OBVIOUS
<1> QED
  BY <1>1, <1>2 DEF OpShape

\* No account changes, and no row changes hands.
LEMMA QuietShapes ==
    ASSUME Shapes, TypeOK', NEW o \in Op, OpShape(o)',
           \A p \in Op \ {o} : op'[p] = op[p],
           UNCHANGED account,
           \A r \in Row : page'[r].ws = page[r].ws /\ page'[r].account = page[r].account
    PROVE  Shapes'
<1>1. \A p \in Op : OpShape(p)'
  BY OtherShapes
<1>2. \A r \in Pages' : page'[r].account \in Account /\ r \in Pages
  BY DEF Pages, Shapes
<1>3. \A r \in Pages' : account'[page'[r].account].ws = page'[r].ws
  BY <1>2 DEF Pages, Shapes, PageBelongsToItsAccount
<1> QED
  BY <1>1, <1>2, <1>3 DEF Shapes, PageBelongsToItsAccount

LEMMA ShapesInit ==
    ASSUME Init
    PROVE  Shapes
BY TypeInit DEF Init, Shapes, OpShape, FreeOp, Pages, NoPage, PageBelongsToItsAccount

LEMMA OAuthShapes ==
    ASSUME Shapes, TypeOK', NEW o \in Op,
           \/ SetState(o) \/ StateExpires(o) \/ DeleteState(o)
           \/ \E i \in Op : HandleCallback(o, i)
           \/ \E a \in Account, u \in FbUser : CreateAccount(o, a, u)
           \/ \E w \in Workspace : InitiateOAuth(o, w)
    PROVE  Shapes'
<1>0. TypeOK /\ OpShape(o)
  BY DEF Shapes
<1> USE <1>0, TypeFacts
<1>1. CASE SetState(o)
  <2>1. OpShape(o)'
    BY <1>1, Finished DEF SetState, FreeOp, OpShape
  <2> QED
    BY <1>1, <2>1, Finished, QuietShapes DEF SetState
<1>2. CASE StateExpires(o)
  <2>1. OpShape(o)'
    BY <1>2 DEF StateExpires, OpShape
  <2> QED
    BY <1>2, <2>1, QuietShapes DEF StateExpires
<1>3. CASE DeleteState(o)
  <2>1. /\ op[o].kind = "callback" /\ op'[o].pc = "exchange" /\ op'[o].kind = op[o].kind
        /\ op'[o].ws = op[o].ws
        /\ \A p \in Op \ {o} : op'[p] = op[p]
    BY <1>3, Moved DEF DeleteState, At, OpShape, OpRecord, Kind, Subscribing, Unsubscribing, PC
  <2>2. OpShape(o)'
    BY <2>1 DEF OpShape
  <2> QED
    BY <1>3, <2>1, <2>2, QuietShapes DEF DeleteState
<1>4. ASSUME NEW i \in Op, HandleCallback(o, i)
      PROVE  Shapes'
  <2>1. /\ op'[o].kind = "callback" /\ op'[o].pc = "delState" /\ op'[o].ws = state[i]
        /\ \A p \in Op \ {o} : op'[p] = op[p]
    BY <1>4 DEF HandleCallback, FreeOp
  <2>2. OpShape(o)'
    BY <1>4, <2>1 DEF HandleCallback, OpShape
  <2> QED
    BY <1>4, <2>1, <2>2, QuietShapes DEF HandleCallback
<1>5. ASSUME NEW w \in Workspace, InitiateOAuth(o, w)
      PROVE  Shapes'
  <2>1. PICK kind \in Kind, pc \in PC : /\ kind = "initiate" /\ pc = "setState"
                                        /\ Begin(o, kind, pc, w, None, None)
    BY <1>5 DEF InitiateOAuth, Kind, PC
  <2>2. /\ op'[o].kind = "initiate" /\ op'[o].pc = "setState" /\ op'[o].ws = w
        /\ \A p \in Op \ {o} : op'[p] = op[p]
    BY <2>1, Begun
  <2>3. OpShape(o)'
    BY <2>2 DEF OpShape
  <2> QED
    BY <1>5, <2>2, <2>3, QuietShapes DEF InitiateOAuth
<1>6. ASSUME NEW a \in Account, NEW u \in FbUser, CreateAccount(o, a, u)
      PROVE  Shapes'
  <2>1. OpShape(o)' /\ \A p \in Op \ {o} : op'[p] = op[p]
    BY <1>6, Finished DEF CreateAccount, FreeOp, OpShape
  <2>2. account[a].ws = None /\ \A p \in Op : op[p].account # a
    BY <1>6 DEF CreateAccount, FreshAccount
  <2>3. \A b \in Account \ {a} : account'[b] = account[b]
    BY <1>6 DEF CreateAccount
  <2>4. \A p \in Op : OpShape(p)'
    BY <2>1, <2>2, <2>3, OtherShapes
  <2>5. \A r \in Pages : page[r].account \in Account \ {a}
    BY <2>2 DEF Shapes, PageBelongsToItsAccount, Pages
  <2> QED
    BY <1>6, <2>3, <2>4, <2>5 DEF Shapes, PageBelongsToItsAccount, Pages, CreateAccount
<1> QED
  BY <1>1, <1>2, <1>3, <1>4, <1>5, <1>6

\* An operation on a page belongs to one of these kinds.
LEMMA KindAtPC ==
    ASSUME Shapes, NEW o \in Op
    PROVE  /\ At(o, "store") => op[o].kind = "connect"
           /\ At(o, "subscribe") => op[o].kind \in Subscribing
           /\ At(o, "unsubscribe") => op[o].kind \in Unsubscribing
           /\ At(o, "delete") => op[o].kind = "disconnectAccount"
           /\ At(o, "write") => op[o].kind \in {"reactivate", "fixTrue", "fixFalse", "disconnect",
                                                "deactivate"}
           /\ At(o, "setState") => op[o].kind = "initiate"
           /\ At(o, "delState") \/ At(o, "exchange") => op[o].kind = "callback"
           /\ At(o, "free") => op[o].kind = "none"
<1>1. OpShape(o) /\ op[o].kind \in Kind
  BY TypeFacts DEF Shapes, OpRecord
<1> QED
  BY <1>1 DEF OpShape, At, Kind, Subscribing, Unsubscribing

\* What StartOnPage, ConnectPage and StartDisconnectAccount begin.
LEMMA StartOnPageBegins ==
    ASSUME Shapes, NEW o \in Op, NEW r \in Row, StartOnPage(o, r)
    PROVE  /\ r \in Pages /\ page[r].ws \in Workspace
           /\ \E kind \in {"disconnect", "deactivate", "reactivate", "fixTrue", "fixFalse"} :
                \E pc \in {"unsubscribe", "subscribe"} :
                  /\ pc = "unsubscribe" <=> kind \in {"disconnect", "deactivate"}
                  /\ Begin(o, kind, pc, page[r].ws, None, r)
<1>1. r \in Pages /\ page[r].ws \in Workspace
  BY TypeFacts DEF StartOnPage, Pages, Shapes, PageRecord
<1> QED
  BY <1>1 DEF StartOnPage

LEMMA ConnectPageBegins ==
    ASSUME NEW o \in Op, NEW w \in Workspace, NEW a \in Account, ConnectPage(o, w, a)
    PROVE  /\ account[a].ws = w
           /\ \E r \in Row \cup {None} :
                /\ r = None => Pages = {}
                /\ Begin(o, "connect", "subscribe", w, a, r)
<1>1. account[a].ws = w
  BY DEF ConnectPage, Accounts
<1>2. CASE Pages = {} /\ Begin(o, "connect", "subscribe", w, a, None)
  BY <1>1, <1>2
<1>3. ASSUME NEW r \in Pages, Begin(o, "connect", "subscribe", w, a, r)
      PROVE  \E q \in Row \cup {None} : /\ q = None => Pages = {}
                                        /\ Begin(o, "connect", "subscribe", w, a, q)
  <2>1. r \in Row /\ r # None
    BY NoneIsNoId DEF Pages
  <2> QED
    BY <1>3, <2>1
<1> QED
  BY <1>1, <1>2, <1>3 DEF ConnectPage

LEMMA SubscribePageMoves ==
    ASSUME Shapes, NEW o \in Op, SubscribePage(o)
    PROVE  /\ op[o].kind \in Subscribing
           /\ \E takesEffect, answered \in BOOLEAN :
                /\ answered => takesEffect
                /\ delivers' = (delivers \/ takesEffect)
                /\ \/ Finish(o) /\ op[o].kind # "connect"
                   \/ \E pc \in {"store", "write"} :
                        /\ pc = "store" <=> op[o].kind = "connect"
                        /\ op' = [op EXCEPT ![o].told = answered, ![o].pc = pc]
<1>1. op[o].kind \in Subscribing
  BY KindAtPC DEF SubscribePage
<1>2. PICK takesEffect \in BOOLEAN, answered \in BOOLEAN :
           /\ answered => takesEffect
           /\ delivers' = (delivers \/ takesEffect)
           /\ IF op[o].kind = IF answered THEN "fixTrue" ELSE "fixFalse"
                THEN Finish(o)
                ELSE op' = [op EXCEPT ![o].told = answered,
                       ![o].pc = IF op[o].kind = "connect" THEN "store" ELSE "write"]
  BY DEF SubscribePage
<1>3. PICK pc \in {"store", "write"} :
           /\ pc = IF op[o].kind = "connect" THEN "store" ELSE "write"
  OBVIOUS
<1>4. \/ Finish(o) /\ op[o].kind # "connect"
      \/ op' = [op EXCEPT ![o].told = answered, ![o].pc = pc]
  BY <1>2, <1>3
<1> QED
  BY <1>1, <1>2, <1>3, <1>4

LEMMA WrittenRow ==
    ASSUME Shapes, NEW o \in Op, WritePage(o)
    PROVE  /\ op[o].row \in Row
           /\ \A r \in Row : page'[r].ws = page[r].ws /\ page'[r].account = page[r].account
           /\ \A r \in Row \ {op[o].row} : page'[r] = page[r]
           /\ op[o].row \in Pages /\ op[o].kind \in Unsubscribing => ~page'[op[o].row].active
           /\ op[o].row \in Pages /\ op[o].kind \in Subscribing =>
                  page'[op[o].row].hears = op[o].told
           /\ op[o].kind \in Unsubscribing => UNCHANGED switchedOn
           /\ switchedOn \subseteq switchedOn' \cup {op[o].row} /\ switchedOn' \subseteq switchedOn
<1>1. /\ op[o].row \in Row
      /\ op[o].kind \in {"reactivate", "fixTrue", "fixFalse", "disconnect", "deactivate"}
  BY KindAtPC DEF WritePage, OpShape, Shapes
<1>2. PICK r \in Row : r = op[o].row
  BY <1>1
<1>3. PICK told : told = op[o].told
  OBVIOUS
<1>4. page \in [Row -> PageRecord]
  BY TypeFacts DEF Shapes
<1>5. switchedOn' \subseteq switchedOn /\ switchedOn \subseteq switchedOn' \cup {r}
  BY <1>2 DEF WritePage
<1>6. Unsubscribing \cap Subscribing = {}
  BY DEF Subscribing, Unsubscribing
<1>7. CASE page[r].ws = None
  BY <1>1, <1>2, <1>5, <1>7 DEF WritePage, Pages
<1>8. CASE page[r].ws # None /\ op[o].kind \in {"disconnect", "deactivate"}
  <2>1. \/ page' = [page EXCEPT ![r].active = FALSE]
        \/ page' = [page EXCEPT ![r].active = FALSE, ![r].hears = told]
    BY <1>2, <1>3, <1>8 DEF WritePage, Unsubscribing
  <2>2. UNCHANGED switchedOn /\ op[o].kind \in Unsubscribing
    BY <1>2, <1>6, <1>8 DEF WritePage, Unsubscribing
  <2>3. /\ \A q \in Row \ {r} : page'[q] = page[q]
        /\ ~page'[r].active
        /\ page'[r].ws = page[r].ws /\ page'[r].account = page[r].account
    BY <1>4, <2>1 DEF PageRecord
  <2> QED
    BY <1>1, <1>2, <1>6, <2>2, <2>3
<1>9. CASE page[r].ws # None /\ op[o].kind = "reactivate"
  <2>1. page' = [page EXCEPT ![r].active = TRUE, ![r].hears = told]
    <3>1. op[o].kind = "reactivate" /\ op[o].kind \notin Unsubscribing
      BY <1>9 DEF Unsubscribing
    <3> QED
      BY <1>2, <1>3, <1>9, <3>1 DEF WritePage
  <2>2. op[o].kind \in Subscribing
    BY <1>9 DEF Subscribing
  <2>3. /\ \A q \in Row \ {r} : page'[q] = page[q]
        /\ page'[r].hears = told
        /\ page'[r].ws = page[r].ws /\ page'[r].account = page[r].account
    BY <1>4, <2>1 DEF PageRecord
  <2> QED
    BY <1>1, <1>2, <1>3, <1>5, <1>6, <2>2, <2>3
<1>10. CASE page[r].ws # None /\ op[o].kind \in {"fixTrue", "fixFalse"}
  <2>1. page' = [page EXCEPT ![r].hears = told]
    BY <1>2, <1>3, <1>10 DEF WritePage, Unsubscribing
  <2>2. op[o].kind \in Subscribing
    BY <1>10 DEF Subscribing
  <2>3. /\ \A q \in Row \ {r} : page'[q] = page[q]
        /\ page'[r].hears = told
        /\ page'[r].ws = page[r].ws /\ page'[r].account = page[r].account
    BY <1>4, <2>1 DEF PageRecord
  <2> QED
    BY <1>1, <1>2, <1>3, <1>5, <1>6, <2>2, <2>3
<1> QED
  BY <1>1, <1>7, <1>8, <1>9, <1>10

LEMMA PageShapes ==
    ASSUME Shapes, TypeOK', NEW o \in Op,
           \/ SubscribePage(o) \/ UnsubscribePage(o) \/ WritePage(o) \/ DeleteAccount(o) \/ Fails(o)
           \/ \E r \in Row : StorePage(o, r) \/ StartOnPage(o, r)
           \/ \E w \in Workspace, a \in Account :
                  ConnectPage(o, w, a) \/ StartDisconnectAccount(o, w, a)
    PROVE  Shapes'
<1>0. TypeOK /\ OpShape(o)
  BY DEF Shapes
<1> USE <1>0
<1>a. op \in [Op -> OpRecord] /\ page \in [Row -> PageRecord]
  BY TypeFacts
<1>b. ASSUME Finish(o) PROVE OpShape(o)' /\ \A p \in Op \ {o} : op'[p] = op[p]
  BY <1>b, Finished DEF FreeOp, OpShape
<1>1. CASE SubscribePage(o)
  <2>1. op[o].kind \in Subscribing
    BY <1>1, SubscribePageMoves
  <2>2. CASE Finish(o)
    BY <1>1, <1>b, <2>2, QuietShapes DEF SubscribePage
  <2>3. CASE ~Finish(o)
    <3>1. PICK answered \in BOOLEAN, pc \in {"store", "write"} :
            /\ pc = "store" <=> op[o].kind = "connect"
            /\ op' = [op EXCEPT ![o].told = answered, ![o].pc = pc]
      BY <1>1, <2>3, SubscribePageMoves
    <3>2. /\ op'[o].kind = op[o].kind /\ op'[o].pc = pc /\ op'[o].ws = op[o].ws
          /\ op'[o].account = op[o].account /\ op'[o].row = op[o].row
          /\ \A p \in Op \ {o} : op'[p] = op[p]
      BY <1>a, <3>1 DEF OpRecord
    <3>3. OpShape(o)'
      BY <1>1, <2>1, <3>1, <3>2 DEF OpShape, Subscribing, SubscribePage
    <3> QED
      BY <1>1, <3>2, <3>3, QuietShapes DEF SubscribePage
  <2> QED
    BY <2>2, <2>3
<1>2. CASE UnsubscribePage(o)
  <2>1. op[o].kind \in Unsubscribing
    BY <1>2, KindAtPC DEF UnsubscribePage
  <2>2. PICK pc \in PC : /\ pc = IF op[o].kind = "disconnectAccount" THEN "delete" ELSE "write"
                         /\ Goto(o, pc)
    BY <1>2 DEF UnsubscribePage, PC
  <2>3. OpShape(o)'
    BY <1>2, <2>1, <2>2, Moved DEF OpShape, Unsubscribing, UnsubscribePage
  <2> QED
    BY <1>2, <2>2, <2>3, Moved, QuietShapes DEF UnsubscribePage
<1>3. CASE WritePage(o)
  <2>2. \A r \in Row : page'[r].ws = page[r].ws /\ page'[r].account = page[r].account
    BY <1>3, WrittenRow
  <2> QED
    BY <1>3, <1>b, <2>2, QuietShapes DEF WritePage
<1>4. CASE DeleteAccount(o)
  <2>1. op[o].account \in Account
    BY <1>4, KindAtPC DEF DeleteAccount, OpShape
  <2>2. /\ account'[op[o].account].ws = None
        /\ \A a \in Account \ {op[o].account} : account'[a] = account[a]
    BY <1>4, <2>1, TypeFacts DEF DeleteAccount, NoAccount
  <2>3. OpShape(o)' /\ \A p \in Op \ {o} : op'[p] = op[p]
    BY <1>4, <1>b DEF DeleteAccount
  <2>4. \A p \in Op : OpShape(p)'
    BY <2>2, <2>3, OtherShapes
  <2>5. \A r \in Pages' : r \in Pages /\ page'[r] = page[r] /\ page[r].account # op[o].account
    BY <1>4, <1>a DEF DeleteAccount, Pages, NoPage
  <2>6. \A r \in Pages : page[r].account \in Account /\ account[page[r].account].ws = page[r].ws
    BY DEF Shapes, PageBelongsToItsAccount
  <2> QED
    BY <2>2, <2>4, <2>5, <2>6 DEF Shapes, PageBelongsToItsAccount
<1>5. CASE Fails(o)
  BY <1>5, <1>b, QuietShapes DEF Fails
<1>6. ASSUME NEW r \in Row, StorePage(o, r)
      PROVE  Shapes'
  <2>1. CASE page' = page
    BY <1>6, <1>b, <2>1, QuietShapes DEF StorePage
  <2>2. CASE page' # page
    <3>1. /\ op[o].ws \in Workspace /\ op[o].account \in Account
          /\ account[op[o].account].ws \in {None, op[o].ws}
      BY <1>6, KindAtPC DEF StorePage, OpShape
    <3>2. account[op[o].account].ws = op[o].ws
      BY <1>6, <2>2, <3>1 DEF StorePage
    <3>3. PICK new : /\ new = [ws |-> op[o].ws, account |-> op[o].account, active |-> TRUE,
                               hears |-> op[o].told]
                     /\ page' = [page EXCEPT ![r] = new]
      BY <1>6, <2>2 DEF StorePage
    <3>4. /\ page'[r].ws = op[o].ws /\ page'[r].account = op[o].account
          /\ \A q \in Row \ {r} : page'[q] = page[q]
      BY <1>a, <3>3
    <3>5. OpShape(o)' /\ (\A p \in Op \ {o} : op'[p] = op[p]) /\ UNCHANGED account
      BY <1>6, <1>b DEF StorePage
    <3>6. \A p \in Op : OpShape(p)'
      BY <3>5, OtherShapes
    <3>7. \A q \in Pages' : /\ page'[q].account \in Account
                            /\ account[page'[q].account].ws = page'[q].ws
      BY <3>1, <3>2, <3>4 DEF Shapes, PageBelongsToItsAccount, Pages
    <3> QED
      BY <3>5, <3>6, <3>7 DEF Shapes, PageBelongsToItsAccount
  <2> QED
    BY <2>1, <2>2
<1>7. ASSUME NEW r \in Row, StartOnPage(o, r)
      PROVE  Shapes'
  <2>1. PICK w \in Workspace : w = page[r].ws
    BY <1>7, StartOnPageBegins
  <2>2. PICK kind \in {"disconnect", "deactivate", "reactivate", "fixTrue", "fixFalse"},
             pc \in {"unsubscribe", "subscribe"} :
           /\ pc = "unsubscribe" <=> kind \in {"disconnect", "deactivate"}
           /\ Begin(o, kind, pc, w, None, r)
    BY <1>7, <2>1, StartOnPageBegins
  <2>3. OpShape(o)' /\ \A p \in Op \ {o} : op'[p] = op[p]
    BY <2>2, Begun DEF OpShape
  <2> QED
    BY <1>7, <2>3, QuietShapes DEF StartOnPage
<1>8. ASSUME NEW w \in Workspace, NEW a \in Account, ConnectPage(o, w, a)
      PROVE  Shapes'
  <2>1. PICK r \in Row \cup {None} : Begin(o, "connect", "subscribe", w, a, r)
    BY <1>8, ConnectPageBegins
  <2>2. account[a].ws = w /\ UNCHANGED <<account, page>>
    BY <1>8, ConnectPageBegins DEF ConnectPage
  <2>3. /\ op'[o].kind = "connect" /\ op'[o].pc = "subscribe" /\ op'[o].ws = w
        /\ op'[o].account = a
        /\ \A p \in Op \ {o} : op'[p] = op[p]
    BY <2>1, Begun
  <2>4. OpShape(o)'
    BY <2>2, <2>3 DEF OpShape
  <2> QED
    BY <2>2, <2>3, <2>4, QuietShapes
<1>9. ASSUME NEW w \in Workspace, NEW a \in Account, StartDisconnectAccount(o, w, a)
      PROVE  Shapes'
  <2>1. PICK pc \in {"unsubscribe", "delete"} : Begin(o, "disconnectAccount", pc, w, a, None)
    BY <1>9 DEF StartDisconnectAccount
  <2>2. /\ op'[o].kind = "disconnectAccount" /\ op'[o].pc = pc /\ op'[o].account = a
        /\ \A p \in Op \ {o} : op'[p] = op[p]
    BY <2>1, Begun
  <2>3. OpShape(o)'
    BY <2>2 DEF OpShape
  <2> QED
    BY <1>9, <2>2, <2>3, QuietShapes DEF StartDisconnectAccount
<1> QED
  BY <1>1, <1>2, <1>3, <1>4, <1>5, <1>6, <1>7, <1>8, <1>9

LEMMA ShapesStep ==
    ASSUME Shapes, [Next]_vars
    PROVE  Shapes'
<1>0. TypeOK'
  BY TypeStep DEF Shapes
<1>1. ASSUME NEW r \in Row, UpdatePage(r)
      PROVE  Shapes'
  <2>1. page \in [Row -> PageRecord]
    BY TypeFacts DEF Shapes
  <2>2. \A q \in Row : page'[q].ws = page[q].ws /\ page'[q].account = page[q].account
    BY <1>1, <2>1 DEF UpdatePage, PageRecord
  <2>3. \A p \in Op : OpShape(p)'
    BY <1>1 DEF UpdatePage, Shapes, OpShape
  <2> QED
    BY <1>0, <1>1, <2>2, <2>3 DEF Shapes, PageBelongsToItsAccount, UpdatePage, Pages
<1>2. CASE UNCHANGED vars
  BY <1>0, <1>2 DEF vars, Shapes, OpShape, PageBelongsToItsAccount, Pages
<1> QED
  BY <1>0, <1>1, <1>2, OAuthShapes, PageShapes DEF Next

LEMMA ShapesInvariance == Spec => []Shapes
BY ShapesInit, ShapesStep, PTL DEF Spec

\* A row belongs to the workspace of its account, whoever took it over or disconnected.
THEOREM PagesBelong == Spec => []PageBelongsToItsAccount
<1>1. Shapes => PageBelongsToItsAccount
  BY DEF Shapes
<1> QED
  BY <1>1, ShapesInvariance, PTL

-----------------------------------------------------------------------------
(* One OAuth flow at a time, and one account.                              *)

\* A step that starts or moves no flow, and creates no account.
LEMMA QuietFlow ==
    ASSUME NEW w \in Workspace, OneFlow(w),
           \A p \in Op : op'[p].kind \in {"initiate", "callback"} /\ op'[p].ws = w => op'[p] = op[p],
           \A i \in Op : state'[i] = w => state[i] = w,
           \A a \in Account : account'[a].ws = w => account[a].ws = w
    PROVE  OneFlow(w)'
<1>1. /\ \A o \in Initiating(w)' : o \in Initiating(w)
      /\ \A o \in Returning(w)' : o \in Returning(w) /\ op'[o] = op[o]
      /\ \A i \in Awaited(w)' : i \in Awaited(w)
      /\ \A a \in Accounts(w)' : a \in Accounts(w)
  BY DEF Initiating, Returning, Awaited, Accounts
<1>2. Flow(w)' => Flow(w)
  BY DEF Flow
<1>3. \A o \in Returning(w), i \in Awaited(w) : At(o, "delState") /\ op[o].flow = i
  BY DEF OneFlow
<1>4. \A o \in Returning(w)', i \in Awaited(w)' : op'[o].pc = "delState" /\ op'[o].flow = i
  BY <1>1, <1>3 DEF At
<1>5. /\ \A o, p \in Initiating(w)' : o = p
      /\ \A o, p \in Returning(w)' : o = p
      /\ \A i, j \in Awaited(w)' : i = j
      /\ \A a, b \in Accounts(w)' : a = b
  BY <1>1 DEF OneFlow
<1>6. /\ Initiating(w)' # {} => Returning(w)' = {} /\ Awaited(w)' = {}
      /\ Flow(w)' => Accounts(w)' = {}
  BY <1>1, <1>2 DEF OneFlow
<1> QED
  BY <1>4, <1>5, <1>6 DEF OneFlow, At

LEMMA FlowsInit ==
    ASSUME Init
    PROVE  Flows
<1> SUFFICES ASSUME NEW w \in Workspace
             PROVE  OneFlow(w)
  BY DEF Flows
<1>1. w # None
  BY NoneIsNoId
<1>2. Initiating(w) = {} /\ Returning(w) = {} /\ Awaited(w) = {} /\ Accounts(w) = {}
  BY <1>1 DEF Init, FreeOp, NoAccount, Initiating, Returning, Awaited, Accounts
<1> QED
  BY <1>2 DEF OneFlow

\* A flow that meets another is counted as crossed.
LEMMA InitiateFlows ==
    ASSUME Shapes, Flows, NEW o \in Op, NEW w \in Workspace, InitiateOAuth(o, w)
    PROVE  Flows'
<1>0. /\ op'[o].kind = "initiate" /\ op'[o].pc = "setState" /\ op'[o].ws = w
      /\ \A p \in Op \ {o} : op'[p] = op[p]
  <2>1. TypeOK /\ Begin(o, "initiate", "setState", w, None, None)
    BY DEF InitiateOAuth, Shapes
  <2> QED
    BY <2>1, Begun
<1>1. /\ UNCHANGED <<state, account>> /\ Accounts(w) = {}
      /\ flowsCrossed' = IF Flow(w) THEN flowsCrossed \cup {w} ELSE flowsCrossed
  BY DEF InitiateOAuth
<1> SUFFICES ASSUME NEW z \in Workspace \ flowsCrossed'
             PROVE  OneFlow(z)'
  BY DEF Flows
<1>2. z \notin flowsCrossed /\ OneFlow(z)
  BY <1>1 DEF Flows
<1>3. CASE z # w
  BY <1>0, <1>1, <1>2, <1>3, QuietFlow
<1>4. CASE z = w
  <2>1. ~Flow(w)
    BY <1>1, <1>4
  <2>2. Initiating(w)' = {o} /\ Returning(w)' = {} /\ Awaited(w)' = {}
    BY <1>0, <1>1, <2>1 DEF Flow, Initiating, Returning, Awaited
  <2>3. Accounts(w)' = {}
    BY <1>1 DEF Accounts
  <2> QED
    BY <1>4, <2>2, <2>3 DEF OneFlow
<1> QED
  BY <1>3, <1>4

LEMMA SetStateFlows ==
    ASSUME Shapes, Flows, NEW o \in Op, SetState(o)
    PROVE  Flows'
<1>0. op'[o].kind = "none" /\ \A p \in Op \ {o} : op'[p] = op[p]
  BY Finished DEF SetState, Shapes, FreeOp
<1>1. PICK w \in Workspace : w = op[o].ws /\ op[o].kind = "initiate"
  BY KindAtPC DEF SetState, Shapes, OpShape
<1>2. UNCHANGED <<account, flowsCrossed>> /\ state' = [state EXCEPT ![o] = w]
  BY <1>1 DEF SetState, history
<1>3. state'[o] = w /\ \A i \in Op \ {o} : state'[i] = state[i]
  BY <1>2, TypeFacts DEF Shapes
<1> SUFFICES ASSUME NEW z \in Workspace \ flowsCrossed'
             PROVE  OneFlow(z)'
  BY DEF Flows
<1>4. z \notin flowsCrossed /\ OneFlow(z)
  BY <1>2 DEF Flows
<1>5. CASE z # w
  BY <1>0, <1>2, <1>3, <1>4, <1>5, QuietFlow
<1>6. CASE z = w
  <2>1. o \in Initiating(w) /\ Flow(w)
    BY <1>1 DEF Initiating, Flow
  <2>2. Initiating(w) = {o} /\ Returning(w) = {} /\ Awaited(w) = {} /\ Accounts(w) = {}
    BY <1>4, <1>6, <2>1 DEF OneFlow
  <2>3. Initiating(w)' = {} /\ Returning(w)' = {}
    BY <1>0, <2>2 DEF Initiating, Returning
  <2>4. Awaited(w)' = {o} /\ Accounts(w)' = {}
    BY <1>2, <1>3, <2>2 DEF Awaited, Accounts
  <2> QED
    BY <1>6, <2>3, <2>4 DEF OneFlow
<1> QED
  BY <1>5, <1>6

LEMMA CallbackFlows ==
    ASSUME Shapes, Flows, NEW o \in Op, NEW i \in Op, HandleCallback(o, i)
    PROVE  Flows'
<1>0. PICK w \in Workspace : w = state[i]
  BY TypeFacts DEF HandleCallback, Shapes
<1>1. /\ op'[o].kind = "callback" /\ op'[o].pc = "delState" /\ op'[o].ws = w /\ op'[o].flow = i
      /\ \A p \in Op \ {o} : op'[p] = op[p]
  BY <1>0, TypeFacts DEF HandleCallback, FreeOp, Shapes
<1>2. /\ UNCHANGED <<account, state>>
      /\ flowsCrossed' = IF \E p \in Op : op[p].kind = "callback" /\ op[p].ws = w
                         THEN flowsCrossed \cup {w} ELSE flowsCrossed
  BY <1>0 DEF HandleCallback
<1> SUFFICES ASSUME NEW z \in Workspace \ flowsCrossed'
             PROVE  OneFlow(z)'
  BY DEF Flows
<1>3. z \notin flowsCrossed /\ OneFlow(z)
  BY <1>2 DEF Flows
<1>4. CASE z # w
  BY <1>1, <1>2, <1>3, <1>4, QuietFlow
<1>5. CASE z = w
  <2>1. Returning(w) = {} /\ i \in Awaited(w) /\ Flow(w)
    BY <1>0, <1>2, <1>5 DEF Returning, Awaited, Flow
  <2>2. Initiating(w) = {} /\ Awaited(w) = {i} /\ Accounts(w) = {}
    BY <1>3, <1>5, <2>1 DEF OneFlow
  <2>3. Initiating(w)' = {} /\ Returning(w)' = {o}
    BY <1>1, <2>1, <2>2 DEF Initiating, Returning
  <2>4. Awaited(w)' = {i} /\ Accounts(w)' = {}
    BY <1>2, <2>2 DEF Awaited, Accounts
  <2>5. At(o, "delState")' /\ op'[o].flow = i
    BY <1>1 DEF At
  <2> QED
    BY <1>5, <2>3, <2>4, <2>5 DEF OneFlow
<1> QED
  BY <1>4, <1>5

LEMMA DeleteStateFlows ==
    ASSUME Shapes, Flows, NEW o \in Op, DeleteState(o)
    PROVE  Flows'
<1>0. /\ op'[o].kind = op[o].kind /\ op'[o].ws = op[o].ws
      /\ \A p \in Op \ {o} : op'[p] = op[p]
  <2>1. TypeOK /\ "exchange" \in PC /\ Goto(o, "exchange")
    BY DEF DeleteState, PC, Shapes
  <2> QED
    BY <2>1, Moved
<1>1. PICK w \in Workspace : w = op[o].ws /\ op[o].kind = "callback"
  BY KindAtPC DEF DeleteState, Shapes, OpShape
<1>2. PICK i : i = op[o].flow
  OBVIOUS
<1>3. UNCHANGED <<account, flowsCrossed>> /\ state' = [state EXCEPT ![i] = None]
  BY <1>2 DEF DeleteState, history
<1>4. /\ \A j \in Op : state'[j] = state[j] \/ state'[j] = None
      /\ i \in Op => state'[i] = None
  BY <1>3, TypeFacts DEF Shapes
<1> SUFFICES ASSUME NEW z \in Workspace \ flowsCrossed'
             PROVE  OneFlow(z)'
  BY DEF Flows
<1>5. z \notin flowsCrossed /\ OneFlow(z) /\ z # None
  BY <1>3, NoneIsNoId DEF Flows
<1>6. CASE z # w
  BY <1>0, <1>1, <1>3, <1>4, <1>5, <1>6, QuietFlow
<1>7. CASE z = w
  <2>1. o \in Returning(w) /\ Flow(w)
    BY <1>1 DEF Returning, Flow
  <2>2. /\ Initiating(w) = {} /\ Returning(w) = {o} /\ Accounts(w) = {}
        /\ \A j \in Awaited(w) : j = i
    BY <1>2, <1>5, <1>7, <2>1 DEF OneFlow
  <2>3. Initiating(w)' = {} /\ Returning(w)' = {o}
    BY <1>0, <1>1, <2>2 DEF Initiating, Returning
  <2>4. Awaited(w)' = {} /\ Accounts(w)' = {}
    BY <1>3, <1>4, <1>5, <1>7, <2>2 DEF Awaited, Accounts
  <2> QED
    BY <1>7, <2>3, <2>4 DEF OneFlow
<1> QED
  BY <1>6, <1>7

\* The flow ends with the workspace's only account.
LEMMA CreateAccountFlows ==
    ASSUME Shapes, Flows, NEW o \in Op, NEW a \in Account, NEW u \in FbUser, CreateAccount(o, a, u)
    PROVE  Flows'
<1>0. op'[o].kind = "none" /\ \A p \in Op \ {o} : op'[p] = op[p]
  BY Finished DEF CreateAccount, Shapes, FreeOp
<1>1. PICK w \in Workspace : w = op[o].ws /\ op[o].kind = "callback" /\ op[o].pc = "exchange"
  BY KindAtPC DEF CreateAccount, Shapes, OpShape, At
<1>2. UNCHANGED <<state, flowsCrossed>>
  BY DEF CreateAccount, history
<1>3. /\ \A b \in Account \ {a} : account'[b] = account[b]
      /\ account'[a].ws \in {account[a].ws, w}
  BY <1>1, TypeFacts DEF CreateAccount, Shapes
<1> SUFFICES ASSUME NEW z \in Workspace \ flowsCrossed'
             PROVE  OneFlow(z)'
  BY DEF Flows
<1>4. z \notin flowsCrossed /\ OneFlow(z)
  BY <1>2 DEF Flows
<1>5. CASE z # w
  BY <1>0, <1>2, <1>3, <1>4, <1>5, QuietFlow
<1>6. CASE z = w
  <2>1. o \in Returning(w) /\ Flow(w)
    BY <1>1 DEF Returning, Flow
  <2>2. Initiating(w) = {} /\ Returning(w) = {o} /\ Accounts(w) = {} /\ Awaited(w) = {}
    BY <1>1, <1>4, <1>6, <2>1 DEF OneFlow, At
  <2>3. Initiating(w)' = {} /\ Returning(w)' = {} /\ Awaited(w)' = {}
    BY <1>0, <1>2, <2>2 DEF Initiating, Returning, Awaited
  <2>4. \A b \in Accounts(w)' : b = a
    BY <1>3, <2>2 DEF Accounts
  <2>5. ~Flow(w)'
    BY <2>3 DEF Flow, Initiating, Returning, Awaited
  <2> QED
    BY <1>6, <2>3, <2>4, <2>5 DEF OneFlow
<1> QED
  BY <1>5, <1>6

\* The operations on pages start no flow.
LEMMA PageOpsKind ==
    ASSUME Shapes, NEW o \in Op,
           \/ SubscribePage(o) \/ UnsubscribePage(o) \/ WritePage(o) \/ DeleteAccount(o) \/ Fails(o)
           \/ \E r \in Row : StorePage(o, r) \/ StartOnPage(o, r)
           \/ \E w \in Workspace, a \in Account :
                  ConnectPage(o, w, a) \/ StartDisconnectAccount(o, w, a)
    PROVE  /\ op'[o].kind \notin {"initiate", "callback"}
           /\ \A p \in Op \ {o} : op'[p] = op[p]
           /\ UNCHANGED <<state, flowsCrossed>>
           /\ \A a \in Account : account'[a] = account[a] \/ account'[a].ws = None
<1>0. TypeOK /\ op \in [Op -> OpRecord]
  BY TypeFacts DEF Shapes
<1> USE <1>0
<1>a. ASSUME Finish(o)
      PROVE  op'[o].kind \notin {"initiate", "callback"} /\ \A p \in Op \ {o} : op'[p] = op[p]
  BY <1>a, Finished DEF FreeOp
<1>1. CASE SubscribePage(o)
  <2>1. op[o].kind \in Subscribing
    BY <1>1, SubscribePageMoves
  <2>2. CASE Finish(o)
    BY <1>1, <1>a, <2>2 DEF SubscribePage, history
  <2>3. CASE ~Finish(o)
    <3>1. PICK answered \in BOOLEAN, pc \in {"store", "write"} :
            op' = [op EXCEPT ![o].told = answered, ![o].pc = pc]
      BY <1>1, <2>3, SubscribePageMoves
    <3>2. op'[o].kind = op[o].kind /\ \A p \in Op \ {o} : op'[p] = op[p]
      BY <3>1 DEF OpRecord
    <3> QED
      BY <1>1, <2>1, <3>2 DEF Subscribing, SubscribePage, history
  <2> QED
    BY <2>2, <2>3
<1>2. CASE UnsubscribePage(o)
  <2>1. op[o].kind \in Unsubscribing
    BY <1>2, KindAtPC DEF UnsubscribePage
  <2>2. PICK pc \in PC : Goto(o, pc)
    BY <1>2 DEF UnsubscribePage, PC
  <2>3. op'[o].kind = op[o].kind /\ \A p \in Op \ {o} : op'[p] = op[p]
    BY <2>2, Moved
  <2> QED
    BY <1>2, <2>1, <2>3 DEF Unsubscribing, UnsubscribePage, history
<1>3. CASE WritePage(o)
  BY <1>3, <1>a DEF WritePage
<1>4. CASE DeleteAccount(o)
  BY <1>4, <1>a, TypeFacts DEF DeleteAccount, NoAccount
<1>5. CASE Fails(o)
  BY <1>5, <1>a DEF Fails
<1>6. ASSUME NEW r \in Row, StorePage(o, r)
      PROVE  /\ op'[o].kind \notin {"initiate", "callback"}
             /\ \A p \in Op \ {o} : op'[p] = op[p]
             /\ UNCHANGED <<state, flowsCrossed, account>>
  BY <1>6, <1>a DEF StorePage
<1>7. ASSUME NEW r \in Row, StartOnPage(o, r)
      PROVE  /\ op'[o].kind \notin {"initiate", "callback"}
             /\ \A p \in Op \ {o} : op'[p] = op[p]
             /\ UNCHANGED <<state, flowsCrossed, account>>
  <2>1. PICK w \in Workspace : w = page[r].ws
    BY <1>7, StartOnPageBegins
  <2>2. PICK kind \in {"disconnect", "deactivate", "reactivate", "fixTrue", "fixFalse"},
             pc \in {"unsubscribe", "subscribe"} : Begin(o, kind, pc, w, None, r)
    BY <1>7, <2>1, StartOnPageBegins
  <2>3. op'[o].kind = kind /\ \A p \in Op \ {o} : op'[p] = op[p]
    BY <2>2, Begun
  <2> QED
    BY <1>7, <2>3 DEF StartOnPage
<1>8. ASSUME NEW w \in Workspace, NEW a \in Account, ConnectPage(o, w, a)
      PROVE  /\ op'[o].kind \notin {"initiate", "callback"}
             /\ \A p \in Op \ {o} : op'[p] = op[p]
             /\ UNCHANGED <<state, flowsCrossed, account>>
  <2>1. PICK r \in Row \cup {None} : Begin(o, "connect", "subscribe", w, a, r)
    BY <1>8, ConnectPageBegins
  <2>2. op'[o].kind = "connect" /\ \A p \in Op \ {o} : op'[p] = op[p]
    BY <2>1, Begun
  <2> QED
    BY <1>8, <2>2 DEF ConnectPage
<1>9. ASSUME NEW w \in Workspace, NEW a \in Account, StartDisconnectAccount(o, w, a)
      PROVE  /\ op'[o].kind \notin {"initiate", "callback"}
             /\ \A p \in Op \ {o} : op'[p] = op[p]
             /\ UNCHANGED <<state, flowsCrossed, account>>
  <2>1. PICK pc \in {"unsubscribe", "delete"} : Begin(o, "disconnectAccount", pc, w, a, None)
    BY <1>9 DEF StartDisconnectAccount
  <2>2. op'[o].kind = "disconnectAccount" /\ \A p \in Op \ {o} : op'[p] = op[p]
    BY <2>1, Begun
  <2> QED
    BY <1>9, <2>2 DEF StartDisconnectAccount
<1> QED
  BY <1>1, <1>2, <1>3, <1>4, <1>5, <1>6, <1>7, <1>8, <1>9

LEMMA FlowsStep ==
    ASSUME Shapes, Flows, [Next]_vars
    PROVE  Flows'
<1>1. ASSUME NEW o \in Op, StateExpires(o)
      PROVE  Flows'
  <2> SUFFICES ASSUME NEW w \in Workspace \ flowsCrossed'
               PROVE  OneFlow(w)'
    BY DEF Flows
  <2>1. w # None /\ OneFlow(w)
    BY <1>1, NoneIsNoId DEF Flows, StateExpires, history
  <2>2. \A i \in Op : state'[i] = w => state[i] = w
    BY <1>1, <2>1, TypeFacts DEF StateExpires, Shapes
  <2> QED
    BY <1>1, <2>1, <2>2, QuietFlow DEF StateExpires
<1>2. ASSUME NEW o \in Op,
             /\ op'[o].kind \notin {"initiate", "callback"}
             /\ \A p \in Op \ {o} : op'[p] = op[p]
             /\ UNCHANGED <<state, flowsCrossed>>
             /\ \A a \in Account : account'[a] = account[a] \/ account'[a].ws = None
      PROVE  Flows'
  <2> SUFFICES ASSUME NEW w \in Workspace \ flowsCrossed'
               PROVE  OneFlow(w)'
    BY DEF Flows
  <2>1. w # None /\ OneFlow(w)
    BY <1>2, NoneIsNoId DEF Flows
  <2> QED
    BY <1>2, <2>1, QuietFlow
<1>3. CASE UNCHANGED <<account, state, op, flowsCrossed>>
  <2> SUFFICES ASSUME NEW w \in Workspace \ flowsCrossed'
               PROVE  OneFlow(w)'
    BY DEF Flows
  <2>1. OneFlow(w)
    BY <1>3 DEF Flows
  <2> QED
    BY <1>3, <2>1, QuietFlow
<1>4. ASSUME NEW r \in Row, UpdatePage(r)
      PROVE  Flows'
  BY <1>3, <1>4 DEF UpdatePage
<1>5. CASE UNCHANGED vars
  BY <1>3, <1>5 DEF vars
<1> QED
  BY <1>1, <1>2, <1>4, <1>5, PageOpsKind, InitiateFlows, SetStateFlows, CallbackFlows,
     DeleteStateFlows, CreateAccountFlows DEF Next

LEMMA AtMostOne ==
    ASSUME NEW S, \A x, y \in S : x = y
    PROVE  Cardinality(S) <= 1
<1>1. CASE S = {}
  BY <1>1, FS_EmptySet
<1>2. ASSUME NEW x \in S
      PROVE  Cardinality(S) <= 1
  <2>1. S = {x}
    OBVIOUS
  <2> QED
    BY <2>1, FS_Singleton
<1> QED
  BY <1>1, <1>2

\* A workspace has one Facebook account, unless two OAuth flows of it were under way at once.
THEOREM OneAccount == Spec => []OneAccountUnlessFlowsCross
<1>1. ASSUME Flows
      PROVE  OneAccountUnlessFlowsCross
  <2> SUFFICES ASSUME NEW w \in Workspace \ flowsCrossed
               PROVE  Cardinality(Accounts(w)) <= 1
    BY DEF OneAccountUnlessFlowsCross
  <2>1. \A a, b \in Accounts(w) : a = b
    BY <1>1 DEF Flows, OneFlow
  <2> QED
    BY <2>1, AtMostOne
<1>2. Init => Shapes /\ Flows
  BY ShapesInit, FlowsInit
<1>3. Shapes /\ Flows /\ [Next]_vars => Shapes' /\ Flows'
  BY ShapesStep, FlowsStep
<1> QED
  BY <1>1, <1>2, <1>3, PTL DEF Spec

-----------------------------------------------------------------------------
(* One row of the page, and its subscription.                              *)

\* A step that starts no connect and gives the page no row.
LEMMA ConnectKept ==
    ASSUME Rows, connectsRaced => connectsRaced',
           \A p \in Op : op'[p].kind = "connect" =>
                             op[p].kind = "connect" /\ op'[p].row = op[p].row,
           \A r \in Row : page'[r].ws # None => page[r].ws # None
    PROVE  connectsRaced' \/ OneConnect'
<1> SUFFICES ASSUME ~connectsRaced, OneConnect
             PROVE  OneConnect'
  BY DEF Rows
<1>1. /\ \A p \in Connecting' : p \in Connecting /\ op'[p].row = op[p].row
      /\ \A r \in Pages' : r \in Pages
  BY DEF Connecting, Pages
<1>2. /\ \A p, q \in Connecting' : p = q
      /\ \A q, r \in Pages' : q = r
  BY <1>1 DEF OneConnect
<1>3. \A p \in Connecting' : op'[p].row = None => Pages' = {}
  BY <1>1 DEF OneConnect
<1> QED
  BY <1>2, <1>3 DEF OneConnect

\* A step that moves no operation on the page.
LEMMA OAuthRows ==
    ASSUME Rows,
           \A p \in Op : op'[p].kind \in Subscribing \cup Unsubscribing => op'[p] = op[p],
           \A p \in Op : op[p].kind \in Subscribing \cup Unsubscribing => op'[p] = op[p],
           UNCHANGED <<page, delivers, switchedOn, connectsRaced>>,
           disturbed => disturbed'
    PROVE  Rows'
<1>1. \A p \in Op : op'[p].kind \in Subscribing \cup Unsubscribing => op'[p] = op[p]
  OBVIOUS
<1>2. connectsRaced' \/ OneConnect'
  BY <1>1, ConnectKept DEF Subscribing
<1>3. ASSUME ~disturbed'
      PROVE  Undisturbed'
  <2>0. Undisturbed
    BY <1>3 DEF Rows
  <2>1. ~connectsRaced' /\ ~(UnderWay(Subscribing)' /\ UnderWay(Unsubscribing)')
    BY <1>1, <2>0 DEF Undisturbed, UnderWay
  <2>2. \A p \in Op : op'[p].kind \in Subscribing /\ op'[p].told => delivers'
    BY <1>1, <2>0 DEF Undisturbed
  <2>3. \A p \in Op : op'[p].kind \in {"disconnect", "deactivate"} => Pages' \subseteq {op'[p].row}
    BY <1>1, <2>0 DEF Undisturbed, Unsubscribing, Pages
  <2>4. \A p \in Op : op'[p].kind = "disconnectAccount" /\ At(p, "unsubscribe")' =>
            \A r \in Pages' : page'[r].account = op'[p].account
    BY <1>1, <2>0 DEF Undisturbed, Unsubscribing, Pages, At
  <2>5. \A p \in Op, r \in Row : TakesDown(p, r) => TakesDown(p, r)'
    BY DEF TakesDown, Unsubscribing
  <2>6. \A r \in Pages' \ switchedOn' :
            page'[r].active /\ page'[r].hears /\ ~delivers' => \E p \in Op : TakesDown(p, r)'
    BY <2>0, <2>5 DEF Undisturbed, Pages
  <2> QED
    BY <2>1, <2>2, <2>3, <2>4, <2>6 DEF Undisturbed
<1> QED
  BY <1>2, <1>3 DEF Rows

\* An operation on the page begins.
LEMMA BegunRows ==
    ASSUME Shapes, Rows, NEW o \in Op, NEW kind \in Subscribing \cup Unsubscribing, NEW pc,
           NEW w, NEW a, NEW r, Begin(o, kind, pc, w, a, r),
           kind = "connect" /\ r = None => Pages = {},
           kind \in {"disconnect", "deactivate"} => r \in Pages,
           kind = "disconnectAccount" /\ pc = "unsubscribe" =>
               \E q \in Pages : page[q].account = a,
           UNCHANGED <<page, delivers, switchedOn>>
    PROVE  Rows'
<1>1. /\ op'[o].kind = kind /\ op'[o].pc = pc /\ op'[o].account = a /\ op'[o].row = r
      /\ ~op'[o].told
      /\ op[o].kind = "none"
      /\ \A p \in Op \ {o} : op'[p] = op[p]
  BY Begun, KindAtPC DEF Shapes, At
<1>2. /\ connectsRaced' = (connectsRaced \/ (kind = "connect" /\ UnderWay({"connect"})))
      /\ ~disturbed' => /\ ~disturbed /\ ~connectsRaced'
                        /\ ~(kind \in Subscribing /\ UnderWay(Unsubscribing))
                        /\ ~(kind \in Unsubscribing /\ UnderWay(Subscribing))
  BY DEF Begin
<1>3. ASSUME ~connectsRaced'
      PROVE  OneConnect'
  <2>1. OneConnect
    BY <1>2, <1>3 DEF Rows
  <2>2. CASE kind = "connect"
    <3>1. Connecting = {}
      BY <1>2, <1>3, <2>2 DEF UnderWay, Connecting
    <3>2. Connecting' = {o} /\ Pages' = Pages
      BY <1>1, <2>2, <3>1 DEF Connecting, Pages
    <3> QED
      BY <1>1, <2>1, <2>2, <3>2 DEF OneConnect
  <2>3. CASE kind # "connect"
    <3>1. \A p \in Op : op'[p].kind = "connect" =>
              op[p].kind = "connect" /\ op'[p].row = op[p].row
      BY <1>1, <2>3
    <3> QED
      BY <1>2, <1>3, <3>1, ConnectKept
  <2> QED
    BY <2>2, <2>3
<1>4. ASSUME ~disturbed'
      PROVE  Undisturbed'
  <2>0. Undisturbed /\ OneConnect
    BY <1>2, <1>4 DEF Rows
  <2>a. Subscribing \cap Unsubscribing = {} /\ "none" \notin Subscribing \cup Unsubscribing
        /\ {"disconnect", "deactivate", "disconnectAccount"} \subseteq Unsubscribing
    BY DEF Subscribing, Unsubscribing
  <2>1. ~connectsRaced' /\ ~(UnderWay(Subscribing)' /\ UnderWay(Unsubscribing)')
    BY <1>1, <1>2, <1>4, <2>0, <2>a DEF Undisturbed, UnderWay
  <2>2. \A p \in Op : op'[p].kind \in Subscribing /\ op'[p].told => delivers'
    BY <1>1, <2>0 DEF Undisturbed
  <2>3. \A p \in Op : op'[p].kind \in {"disconnect", "deactivate"} => Pages' \subseteq {op'[p].row}
    <3>1. Pages' = Pages
      BY DEF Pages
    <3>2. kind \in {"disconnect", "deactivate"} => Pages \subseteq {r}
      BY <2>0 DEF OneConnect
    <3> QED
      BY <1>1, <2>0, <3>1, <3>2 DEF Undisturbed
  <2>4. \A p \in Op : op'[p].kind = "disconnectAccount" /\ At(p, "unsubscribe")' =>
            \A q \in Pages' : page'[q].account = op'[p].account
    <3>1. Pages' = Pages
      BY DEF Pages
    <3>2. kind = "disconnectAccount" /\ pc = "unsubscribe" => \A q \in Pages : page[q].account = a
      BY <2>0 DEF OneConnect
    <3> QED
      BY <1>1, <2>0, <3>1, <3>2 DEF Undisturbed, At
  <2>5. \A p \in Op, q \in Row : TakesDown(p, q) => TakesDown(p, q)'
    BY <1>1 DEF TakesDown
  <2>6. \A q \in Pages' \ switchedOn' :
            page'[q].active /\ page'[q].hears /\ ~delivers' => \E p \in Op : TakesDown(p, q)'
    BY <2>0, <2>5 DEF Undisturbed, Pages
  <2> QED
    BY <2>1, <2>2, <2>3, <2>4, <2>6 DEF Undisturbed
<1> QED
  BY <1>3, <1>4 DEF Rows

LEMMA BeginsRows ==
    ASSUME Shapes, Rows, NEW o \in Op,
           \/ \E r \in Row : StartOnPage(o, r)
           \/ \E w \in Workspace, a \in Account :
                  ConnectPage(o, w, a) \/ StartDisconnectAccount(o, w, a)
    PROVE  Rows'
<1>1. ASSUME NEW r \in Row, StartOnPage(o, r)
      PROVE  Rows'
  <2>1. PICK w \in Workspace : w = page[r].ws
    BY <1>1, StartOnPageBegins
  <2>2. PICK kind \in {"disconnect", "deactivate", "reactivate", "fixTrue", "fixFalse"},
             pc \in {"unsubscribe", "subscribe"} : Begin(o, kind, pc, w, None, r)
    BY <1>1, <2>1, StartOnPageBegins
  <2>3. kind \in Subscribing \cup Unsubscribing /\ r \in Pages
    BY <1>1, StartOnPageBegins DEF Subscribing, Unsubscribing
  <2> QED
    BY <1>1, <2>2, <2>3, BegunRows DEF StartOnPage
<1>2. ASSUME NEW w \in Workspace, NEW a \in Account, ConnectPage(o, w, a)
      PROVE  Rows'
  <2>1. PICK r \in Row \cup {None} : /\ r = None => Pages = {}
                                     /\ Begin(o, "connect", "subscribe", w, a, r)
    BY <1>2, ConnectPageBegins
  <2>2. "connect" \in Subscribing
    BY DEF Subscribing
  <2> QED
    BY <1>2, <2>1, <2>2, BegunRows DEF ConnectPage
<1>3. ASSUME NEW w \in Workspace, NEW a \in Account, StartDisconnectAccount(o, w, a)
      PROVE  Rows'
  <2>1. PICK pc \in {"unsubscribe", "delete"} :
          /\ pc = "unsubscribe" => \E q \in Pages : page[q].account = a
          /\ Begin(o, "disconnectAccount", pc, w, a, None)
    BY <1>3 DEF StartDisconnectAccount
  <2>2. "disconnectAccount" \in Unsubscribing
    BY DEF Unsubscribing
  <2> QED
    BY <1>3, <2>1, <2>2, BegunRows DEF StartDisconnectAccount
<1> QED
  BY <1>1, <1>2, <1>3

LEMMA SubscribeRows ==
    ASSUME Shapes, Rows, NEW o \in Op, SubscribePage(o)
    PROVE  Rows'
<1>0. TypeOK /\ op \in [Op -> OpRecord]
  BY TypeFacts DEF Shapes
<1>1. op[o].kind \in Subscribing /\ op[o].kind \notin Unsubscribing
  BY SubscribePageMoves DEF Subscribing, Unsubscribing
<1>2. PICK takesEffect \in BOOLEAN, answered \in BOOLEAN :
        /\ answered => takesEffect
        /\ delivers' = (delivers \/ takesEffect)
        /\ \/ Finish(o)
           \/ \E pc \in {"store", "write"} : op' = [op EXCEPT ![o].told = answered, ![o].pc = pc]
  BY SubscribePageMoves
<1>3. /\ \/ op'[o].kind = "none"
         \/ op'[o].kind = op[o].kind /\ op'[o].row = op[o].row /\ op'[o].told = answered
      /\ \A p \in Op \ {o} : op'[p] = op[p]
  <2>1. CASE Finish(o)
    BY <1>0, <2>1, Finished DEF FreeOp
  <2>2. CASE \E pc \in {"store", "write"} : op' = [op EXCEPT ![o].told = answered, ![o].pc = pc]
    BY <1>0, <2>2 DEF OpRecord
  <2> QED
    BY <1>2, <2>1, <2>2
<1>4. UNCHANGED <<page, connectsRaced, disturbed, switchedOn>>
  BY DEF SubscribePage, history
<1>5. connectsRaced' \/ OneConnect'
  BY <1>3, <1>4, ConnectKept
<1>6. ASSUME ~disturbed'
      PROVE  Undisturbed'
  <2>0. Undisturbed
    BY <1>4, <1>6 DEF Rows
  <2>a. "none" \notin Subscribing \cup Unsubscribing
        /\ {"disconnect", "deactivate", "disconnectAccount"} \subseteq Unsubscribing
    BY DEF Subscribing, Unsubscribing
  <2>1. ~connectsRaced' /\ ~(UnderWay(Subscribing)' /\ UnderWay(Unsubscribing)')
    BY <1>1, <1>3, <1>4, <2>0, <2>a DEF Undisturbed, UnderWay
  <2>2. \A p \in Op : op'[p].kind \in Subscribing /\ op'[p].told => delivers'
    BY <1>2, <1>3, <2>0, <2>a DEF Undisturbed
  <2>b. \A p \in Op : op'[p].kind \in Unsubscribing => op'[p] = op[p]
    BY <1>1, <1>3, <2>a
  <2>3. \A p \in Op : op'[p].kind \in {"disconnect", "deactivate"} => Pages' \subseteq {op'[p].row}
    BY <1>4, <2>0, <2>a, <2>b DEF Undisturbed, Pages
  <2>4. \A p \in Op : op'[p].kind = "disconnectAccount" /\ At(p, "unsubscribe")' =>
            \A q \in Pages' : page'[q].account = op'[p].account
    BY <1>4, <2>0, <2>a, <2>b DEF Undisturbed, At, Pages
  <2>5. \A p \in Op, q \in Row : TakesDown(p, q) => TakesDown(p, q)'
    BY <1>1, <1>3, <1>4, <2>a DEF TakesDown
  <2>6. \A q \in Pages' \ switchedOn' :
            page'[q].active /\ page'[q].hears /\ ~delivers' => \E p \in Op : TakesDown(p, q)'
    BY <1>2, <1>4, <2>0, <2>5 DEF Undisturbed, Pages
  <2> QED
    BY <2>1, <2>2, <2>3, <2>4, <2>6 DEF Undisturbed
<1> QED
  BY <1>5, <1>6 DEF Rows

\* The row that is left active and unheard is the one the operation takes down.
LEMMA UnsubscribeRows ==
    ASSUME Shapes, Rows, NEW o \in Op, UnsubscribePage(o)
    PROVE  Rows'
<1>0. TypeOK /\ OpShape(o) /\ op[o].pc = "unsubscribe"
  BY DEF Shapes, UnsubscribePage, At
<1>1. op[o].kind \in Unsubscribing /\ op[o].kind \notin Subscribing
  BY <1>0, KindAtPC DEF Subscribing, Unsubscribing, At
<1>2. PICK pc \in {"delete", "write"} : Goto(o, pc)
  BY DEF UnsubscribePage
<1>3. /\ op'[o].kind = op[o].kind /\ op'[o].row = op[o].row /\ op'[o].account = op[o].account
      /\ op'[o].pc = pc
      /\ \A p \in Op \ {o} : op'[p] = op[p]
  <2>1. pc \in PC
    BY DEF PC
  <2> QED
    BY <1>0, <1>2, <2>1, Moved
<1>4. UNCHANGED <<page, connectsRaced, disturbed, switchedOn>> /\ (delivers' => delivers)
  BY DEF UnsubscribePage, history
<1>5. connectsRaced' \/ OneConnect'
  BY <1>3, <1>4, ConnectKept
<1>6. ASSUME ~disturbed'
      PROVE  Undisturbed'
  <2>0. Undisturbed
    BY <1>4, <1>6 DEF Rows
  <2>1. ~connectsRaced' /\ ~(UnderWay(Subscribing)' /\ UnderWay(Unsubscribing)')
    BY <1>3, <1>4, <2>0 DEF Undisturbed, UnderWay
  <2>2. \A p \in Op : op'[p].kind \in Subscribing /\ op'[p].told => delivers'
    BY <1>1, <1>3, <2>0 DEF Undisturbed, UnderWay
  <2>3. \A p \in Op : op'[p].kind \in {"disconnect", "deactivate"} => Pages' \subseteq {op'[p].row}
    BY <1>3, <1>4, <2>0 DEF Undisturbed, Pages
  <2>4. \A p \in Op : op'[p].kind = "disconnectAccount" /\ At(p, "unsubscribe")' =>
            \A q \in Pages' : page'[q].account = op'[p].account
    BY <1>3, <1>4, <2>0 DEF Undisturbed, At, Pages
  <2>5. \A q \in Pages : TakesDown(o, q)'
    <3>1. CASE op[o].kind \in {"disconnect", "deactivate"}
      BY <1>3, <2>0, <3>1 DEF Undisturbed, TakesDown
    <3>2. CASE op[o].kind = "disconnectAccount"
      BY <1>0, <1>3, <1>4, <2>0, <3>2 DEF Undisturbed, TakesDown, At
    <3> QED
      BY <1>1, <3>1, <3>2 DEF Unsubscribing
  <2>6. \A q \in Pages' \ switchedOn' :
            page'[q].active /\ page'[q].hears /\ ~delivers' => \E p \in Op : TakesDown(p, q)'
    BY <1>4, <2>5 DEF Pages
  <2> QED
    BY <2>1, <2>2, <2>3, <2>4, <2>6 DEF Undisturbed
<1> QED
  BY <1>5, <1>6 DEF Rows

\* An operation ends with what it wrote to rows and accounts.
LEMMA EndedRows ==
    ASSUME Shapes, Rows, NEW o \in Op, Finish(o),
           UNCHANGED <<delivers, connectsRaced, disturbed>>,
           \A r \in Pages' : r \in Pages /\ page'[r].account = page[r].account,
           \A r \in Pages' \ switchedOn' : page'[r].active /\ page'[r].hears =>
               \/ ~disturbed => delivers
               \/ ~TakesDown(o, r) /\ r \notin switchedOn /\ page[r].active /\ page[r].hears
    PROVE  Rows'
<1>1. op'[o].kind = "none" /\ \A p \in Op \ {o} : op'[p] = op[p]
  BY Finished DEF Shapes, FreeOp
<1>2. connectsRaced' \/ OneConnect'
  BY <1>1, ConnectKept DEF Pages
<1>3. ASSUME ~disturbed'
      PROVE  Undisturbed'
  <2>0. Undisturbed
    BY <1>3 DEF Rows
  <2>a. "none" \notin Subscribing \cup Unsubscribing
    BY DEF Subscribing, Unsubscribing
  <2>1. ~connectsRaced' /\ ~(UnderWay(Subscribing)' /\ UnderWay(Unsubscribing)')
    BY <1>1, <2>0, <2>a DEF Undisturbed, UnderWay
  <2>2. \A p \in Op : op'[p].kind \in Subscribing /\ op'[p].told => delivers'
    BY <1>1, <2>0, <2>a DEF Undisturbed
  <2>3. \A p \in Op : op'[p].kind \in {"disconnect", "deactivate"} => Pages' \subseteq {op'[p].row}
    BY <1>1, <2>0 DEF Undisturbed
  <2>4. \A p \in Op : op'[p].kind = "disconnectAccount" /\ At(p, "unsubscribe")' =>
            \A q \in Pages' : page'[q].account = op'[p].account
    BY <1>1, <2>0 DEF Undisturbed, At
  <2>5. \A p \in Op \ {o}, q \in Pages' : TakesDown(p, q) => TakesDown(p, q)'
    BY <1>1 DEF TakesDown
  <2>6. ASSUME NEW q \in Pages' \ switchedOn', page'[q].active, page'[q].hears, ~delivers'
        PROVE  \E p \in Op : TakesDown(p, q)'
    <3>1. ~TakesDown(o, q) /\ q \in Pages \ switchedOn /\ page[q].active /\ page[q].hears
      BY <1>3, <2>6
    <3>2. PICK p \in Op : TakesDown(p, q)
      BY <2>0, <2>6, <3>1 DEF Undisturbed
    <3> QED
      BY <2>5, <3>1, <3>2
  <2> QED
    BY <2>1, <2>2, <2>3, <2>4, <2>6 DEF Undisturbed
<1> QED
  BY <1>2, <1>3 DEF Rows

LEMMA WritePageRows ==
    ASSUME Shapes, Rows, NEW o \in Op, WritePage(o)
    PROVE  Rows'
<1>1. UNCHANGED <<delivers, connectsRaced, disturbed>> /\ Finish(o)
  BY DEF WritePage, marks
<1>2. op[o].kind \in {"reactivate", "fixTrue", "fixFalse", "disconnect", "deactivate"}
  BY KindAtPC DEF WritePage
<1>3. \A r \in Pages' : r \in Pages /\ page'[r].account = page[r].account
  BY WrittenRow DEF Pages
<1>4. ASSUME NEW r \in Pages' \ switchedOn', page'[r].active, page'[r].hears
      PROVE  \/ ~disturbed => delivers
             \/ ~TakesDown(o, r) /\ r \notin switchedOn /\ page[r].active /\ page[r].hears
  <2>1. CASE r = op[o].row
    <3>1. op[o].kind \in Subscribing /\ op[o].told
      BY <1>2, <1>3, <1>4, <2>1, WrittenRow DEF Subscribing, Unsubscribing
    <3> QED
      BY <3>1 DEF Rows, Undisturbed
  <2>2. CASE r # op[o].row
    <3>1. r \in Row /\ r \notin switchedOn /\ page'[r] = page[r]
      BY <1>4, <2>2, WrittenRow DEF Pages
    <3> QED
      BY <1>2, <1>4, <2>2, <3>1 DEF TakesDown
  <2> QED
    BY <2>1, <2>2
<1> QED
  BY <1>1, <1>3, <1>4, EndedRows

LEMMA DeleteAccountRows ==
    ASSUME Shapes, Rows, NEW o \in Op, DeleteAccount(o)
    PROVE  Rows'
<1>1. UNCHANGED <<delivers, connectsRaced, disturbed>> /\ Finish(o)
  BY DEF DeleteAccount, marks
<1>2. op[o].kind = "disconnectAccount"
  BY KindAtPC DEF DeleteAccount
<1>3. \A r \in Pages' : r \in Pages /\ page'[r] = page[r] /\ page[r].account # op[o].account
  BY DEF DeleteAccount, Pages, NoPage
<1>4. \A r \in Pages' \ switchedOn' : ~TakesDown(o, r) /\ r \notin switchedOn
  BY <1>2, <1>3 DEF DeleteAccount, TakesDown
<1> QED
  BY <1>1, <1>3, <1>4, EndedRows

\* A connect stores a subscription that Facebook confirmed, into the page's only row.
LEMMA StorePageRows ==
    ASSUME Shapes, Rows, NEW o \in Op, NEW r \in Row, StorePage(o, r)
    PROVE  Rows'
<1>0. TypeOK /\ page \in [Row -> PageRecord] /\ OpShape(o)
  BY TypeFacts DEF Shapes
<1>1. UNCHANGED <<delivers, connectsRaced, disturbed>> /\ Finish(o)
  BY DEF StorePage, marks
<1>2. /\ op[o].kind = "connect" /\ op[o].kind \in Subscribing
      /\ op[o].kind \notin {"disconnect", "deactivate", "disconnectAccount"}
  BY KindAtPC DEF StorePage, Subscribing
<1>3. op'[o].kind = "none" /\ \A p \in Op \ {o} : op'[p] = op[p]
  BY <1>0, <1>1, Finished DEF FreeOp
<1>4. CASE page' = page /\ switchedOn' = switchedOn
  <2>1. \A q \in Row : ~TakesDown(o, q)
    BY <1>2 DEF TakesDown
  <2> QED
    BY <1>1, <1>4, <2>1, EndedRows DEF Pages
<1>5. CASE ~(page' = page /\ switchedOn' = switchedOn)
  <2>1. PICK new : /\ new = [ws |-> op[o].ws, account |-> op[o].account, active |-> TRUE,
                             hears |-> op[o].told]
                   /\ page' = [page EXCEPT ![r] = new]
    BY <1>5 DEF StorePage
  <2>2. /\ page'[r].hears = op[o].told
        /\ \A q \in Row \ {r} : page'[q] = page[q]
        /\ switchedOn' = switchedOn \ {r}
    BY <1>0, <1>5, <2>1 DEF StorePage
  <2>3. ASSUME ~connectsRaced'
        PROVE  OneConnect'
    <3>1. OneConnect /\ o \in Connecting
      BY <1>1, <1>2, <2>3 DEF Rows, Connecting
    <3>2. Connecting' = {}
      BY <1>3, <3>1 DEF OneConnect, Connecting
    <3>3. CASE op[o].row = None
      <4>1. Pages = {}
        BY <3>1, <3>3 DEF OneConnect
      <4>2. \A q \in Pages' : q = r
        BY <2>2, <4>1 DEF Pages
      <4> QED
        BY <3>2, <4>2 DEF OneConnect
    <3>4. CASE op[o].row # None
      <4>1. r \in Pages
        BY <1>5, <3>4 DEF StorePage, Pages
      <4>2. \A q \in Pages' : q \in Pages
        BY <2>2, <4>1 DEF Pages
      <4> QED
        BY <3>1, <3>2, <4>2 DEF OneConnect
    <3> QED
      BY <3>3, <3>4
  <2>4. ASSUME ~disturbed'
        PROVE  Undisturbed'
    <3>0. Undisturbed
      BY <1>1, <2>4 DEF Rows
    <3>1. \A p \in Op : op[p].kind \notin Unsubscribing
      BY <1>2, <3>0 DEF Undisturbed, UnderWay
    <3>2. \A p \in Op : op'[p].kind \notin Unsubscribing
      BY <1>3, <3>1 DEF Unsubscribing
    <3>3. \A p \in Op : op'[p].kind \in Subscribing /\ op'[p].told => delivers'
      BY <1>1, <1>3, <3>0 DEF Undisturbed, Subscribing
    <3>4. ASSUME NEW q \in Pages' \ switchedOn', page'[q].active, page'[q].hears
          PROVE  delivers'
      <4>1. CASE q = r
        BY <1>1, <1>2, <2>2, <3>0, <3>4, <4>1 DEF Undisturbed
      <4>2. CASE q # r
        <5>1. q \in Pages \ switchedOn /\ page[q].active /\ page[q].hears
          BY <2>2, <3>4, <4>2 DEF Pages
        <5>2. \A p \in Op : ~TakesDown(p, q)
          BY <3>1 DEF TakesDown, Unsubscribing
        <5> QED
          BY <1>1, <3>0, <5>1, <5>2 DEF Undisturbed
      <4> QED
        BY <4>1, <4>2
    <3>5. ~connectsRaced' /\ ~UnderWay(Unsubscribing)'
      BY <1>1, <3>0, <3>2 DEF Undisturbed, UnderWay
    <3>6. \A p \in Op : op'[p].kind \notin {"disconnect", "deactivate", "disconnectAccount"}
      BY <3>2 DEF Unsubscribing
    <3> QED
      BY <3>3, <3>4, <3>5, <3>6 DEF Undisturbed
  <2> QED
    BY <2>3, <2>4 DEF Rows
<1> QED
  BY <1>4, <1>5

LEMMA FailsRows ==
    ASSUME Shapes, Rows, NEW o \in Op, Fails(o)
    PROVE  Rows'
<1>1. op'[o].kind = "none" /\ \A p \in Op \ {o} : op'[p] = op[p]
  BY Finished DEF Fails, FreeOp, Shapes
<1>2. /\ UNCHANGED <<page, delivers, connectsRaced, switchedOn>>
      /\ disturbed' = (disturbed \/ op[o].kind \in Subscribing \cup Unsubscribing)
  BY DEF Fails
<1>3. CASE op[o].kind \in Subscribing \cup Unsubscribing
  <2>1. connectsRaced' \/ OneConnect'
    BY <1>1, <1>2, ConnectKept
  <2> QED
    BY <1>2, <1>3, <2>1 DEF Rows
<1>4. CASE op[o].kind \notin Subscribing \cup Unsubscribing
  <2>1. op'[o].kind \notin Subscribing \cup Unsubscribing
    BY <1>1 DEF Subscribing, Unsubscribing
  <2> QED
    BY <1>1, <1>2, <1>4, <2>1, OAuthRows
<1> QED
  BY <1>3, <1>4

\* A row that update sets active without asking Facebook is a row switched on.
LEMMA UpdatePageRows ==
    ASSUME Shapes, Rows, NEW r \in Row, UpdatePage(r)
    PROVE  Rows'
<1>0. page \in [Row -> PageRecord]
  BY TypeFacts DEF Shapes
<1>1. PICK active \in BOOLEAN :
        /\ page' = [page EXCEPT ![r].active = active]
        /\ switchedOn' = IF ~disturbed /\ active /\ ~page[r].active THEN switchedOn \cup {r}
                                                                   ELSE switchedOn
  BY DEF UpdatePage
<1>2. UNCHANGED <<delivers, op, connectsRaced, disturbed>>
  BY DEF UpdatePage, marks
<1>3. \A q \in Row : /\ page'[q].ws = page[q].ws /\ page'[q].account = page[q].account
                     /\ page'[q].hears = page[q].hears
                     /\ q # r => page'[q].active = page[q].active
  BY <1>0, <1>1 DEF PageRecord
<1>4. page'[r].active = active
  BY <1>0, <1>1 DEF PageRecord
<1>5. Pages' = Pages
  BY <1>3 DEF Pages
<1>6. connectsRaced' \/ OneConnect'
  BY <1>2, <1>3, ConnectKept
<1>7. ASSUME ~disturbed'
      PROVE  Undisturbed'
  <2>0. Undisturbed
    BY <1>2, <1>7 DEF Rows
  <2>1. ~connectsRaced' /\ ~(UnderWay(Subscribing)' /\ UnderWay(Unsubscribing)')
    BY <1>2, <2>0 DEF Undisturbed, UnderWay
  <2>2. \A p \in Op : op'[p].kind \in Subscribing /\ op'[p].told => delivers'
    BY <1>2, <2>0 DEF Undisturbed
  <2>3. \A p \in Op : op'[p].kind \in {"disconnect", "deactivate"} => Pages' \subseteq {op'[p].row}
    BY <1>2, <1>5, <2>0 DEF Undisturbed
  <2>4. \A p \in Op : op'[p].kind = "disconnectAccount" /\ At(p, "unsubscribe")' =>
            \A q \in Pages' : page'[q].account = op'[p].account
    BY <1>2, <1>3, <1>5, <2>0 DEF Undisturbed, At, Pages
  <2>5. \A p \in Op, q \in Row : TakesDown(p, q) => TakesDown(p, q)'
    BY <1>2, <1>3 DEF TakesDown
  <2>6. ASSUME NEW q \in Pages' \ switchedOn', page'[q].active, page'[q].hears, ~delivers'
        PROVE  \E p \in Op : TakesDown(p, q)'
    <3>1. q \in Row /\ q \in Pages \ switchedOn /\ page[q].active /\ page[q].hears
      BY <1>1, <1>2, <1>3, <1>4, <1>5, <1>7, <2>6 DEF Pages
    <3> QED
      BY <1>2, <2>0, <2>5, <2>6, <3>1 DEF Undisturbed
  <2> QED
    BY <2>1, <2>2, <2>3, <2>4, <2>6 DEF Undisturbed
<1> QED
  BY <1>6, <1>7 DEF Rows

LEMMA RowsInit ==
    ASSUME Init
    PROVE  Rows
<1>1. \A o \in Op : op[o].kind = "none" /\ ~op[o].told
  BY DEF Init, FreeOp
<1>2. Pages = {} /\ ~connectsRaced
  BY DEF Init, Pages, NoPage
<1>3. "none" \notin Subscribing \cup Unsubscribing
  BY DEF Subscribing, Unsubscribing
<1>4. OneConnect
  BY <1>1, <1>2 DEF OneConnect, Connecting
<1>5. Undisturbed
  BY <1>1, <1>2, <1>3 DEF Undisturbed, UnderWay
<1> QED
  BY <1>4, <1>5 DEF Rows

\* The steps of an OAuth flow are on no page.
LEMMA OAuthOpsKind ==
    ASSUME Shapes, NEW o \in Op,
           \/ SetState(o) \/ StateExpires(o) \/ DeleteState(o)
           \/ \E i \in Op : HandleCallback(o, i)
           \/ \E a \in Account, u \in FbUser : CreateAccount(o, a, u)
           \/ \E w \in Workspace : InitiateOAuth(o, w)
    PROVE  /\ \A p \in Op : op'[p].kind \in Subscribing \cup Unsubscribing => op'[p] = op[p]
           /\ \A p \in Op : op[p].kind \in Subscribing \cup Unsubscribing => op'[p] = op[p]
           /\ UNCHANGED <<page, delivers, switchedOn, connectsRaced>>
           /\ disturbed => disturbed'
<1>0. TypeOK /\ {"none", "initiate", "callback"} \cap (Subscribing \cup Unsubscribing) = {}
  BY DEF Shapes, Subscribing, Unsubscribing
<1> USE <1>0
<1>1. CASE SetState(o)
  <2>1. op[o].kind = "initiate" /\ op'[o].kind = "none" /\ \A p \in Op \ {o} : op'[p] = op[p]
    BY <1>1, KindAtPC, Finished DEF SetState, FreeOp
  <2> QED
    BY <1>1, <2>1 DEF SetState, history
<1>2. CASE StateExpires(o)
  BY <1>2 DEF StateExpires, history
<1>3. CASE DeleteState(o)
  <2>1. PICK pc \in PC : Goto(o, pc)
    BY <1>3 DEF DeleteState, PC
  <2>2. /\ op[o].kind = "callback" /\ op'[o].kind = "callback"
        /\ \A p \in Op \ {o} : op'[p] = op[p]
    BY <1>3, <2>1, KindAtPC, Moved DEF DeleteState
  <2> QED
    BY <1>3, <2>2 DEF DeleteState, history
<1>4. ASSUME NEW i \in Op, HandleCallback(o, i)
      PROVE  /\ \A p \in Op : op'[p].kind \in Subscribing \cup Unsubscribing => op'[p] = op[p]
             /\ \A p \in Op : op[p].kind \in Subscribing \cup Unsubscribing => op'[p] = op[p]
             /\ UNCHANGED <<page, delivers, switchedOn, connectsRaced, disturbed>>
  <2>1. op[o].kind = "none" /\ op'[o].kind = "callback" /\ \A p \in Op \ {o} : op'[p] = op[p]
    BY <1>4, KindAtPC, TypeFacts DEF HandleCallback, FreeOp
  <2> QED
    BY <1>4, <2>1 DEF HandleCallback, marks
<1>5. ASSUME NEW a \in Account, NEW u \in FbUser, CreateAccount(o, a, u)
      PROVE  /\ \A p \in Op : op'[p].kind \in Subscribing \cup Unsubscribing => op'[p] = op[p]
             /\ \A p \in Op : op[p].kind \in Subscribing \cup Unsubscribing => op'[p] = op[p]
             /\ UNCHANGED <<page, delivers, switchedOn, connectsRaced, disturbed>>
  <2>1. op[o].kind = "callback" /\ op'[o].kind = "none" /\ \A p \in Op \ {o} : op'[p] = op[p]
    BY <1>5, KindAtPC, Finished DEF CreateAccount, FreeOp
  <2> QED
    BY <1>5, <2>1 DEF CreateAccount, history
<1>6. ASSUME NEW w \in Workspace, InitiateOAuth(o, w)
      PROVE  /\ \A p \in Op : op'[p].kind \in Subscribing \cup Unsubscribing => op'[p] = op[p]
             /\ \A p \in Op : op[p].kind \in Subscribing \cup Unsubscribing => op'[p] = op[p]
             /\ UNCHANGED <<page, delivers, switchedOn, connectsRaced>>
             /\ disturbed => disturbed'
  <2>1. Begin(o, "initiate", "setState", w, None, None)
    BY <1>6 DEF InitiateOAuth
  <2>2. op[o].kind = "none" /\ op'[o].kind = "initiate" /\ \A p \in Op \ {o} : op'[p] = op[p]
    BY <2>1, KindAtPC, Begun DEF At
  <2>3. connectsRaced' = connectsRaced /\ (disturbed => disturbed')
    BY <2>1 DEF Begin, TypeOK
  <2> QED
    BY <1>6, <2>2, <2>3 DEF InitiateOAuth
<1> QED
  BY <1>1, <1>2, <1>3, <1>4, <1>5, <1>6

LEMMA RowsStep ==
    ASSUME Shapes, Rows, [Next]_vars
    PROVE  Rows'
<1>1. ASSUME NEW o \in Op,
             \/ SetState(o) \/ StateExpires(o) \/ DeleteState(o)
             \/ \E i \in Op : HandleCallback(o, i)
             \/ \E a \in Account, u \in FbUser : CreateAccount(o, a, u)
             \/ \E w \in Workspace : InitiateOAuth(o, w)
      PROVE  Rows'
  BY <1>1, OAuthOpsKind, OAuthRows
<1>2. CASE UNCHANGED vars
  <2>1. UNCHANGED <<page, delivers, op, connectsRaced, disturbed, switchedOn>>
    BY <1>2 DEF vars
  <2> QED
    BY <2>1 DEF Rows, OneConnect, Undisturbed, Connecting, Pages, UnderWay, TakesDown, At
<1> QED
  BY <1>1, <1>2, BeginsRows, SubscribeRows, UnsubscribeRows, WritePageRows, DeleteAccountRows,
     StorePageRows, FailsRows, UpdatePageRows DEF Next

THEOREM PagesInvariance == Spec => []IInv
<1>1. Init => IInv
  BY ShapesInit, FlowsInit, RowsInit DEF IInv
<1>2. IInv /\ [Next]_vars => IInv'
  BY ShapesStep, FlowsStep, RowsStep DEF IInv
<1> QED
  BY <1>1, <1>2, PTL DEF Spec

\* A page has one row, unless two connects of it were under way at once.
THEOREM OneRow == Spec => []OneRowUnlessConnectsRace
<1>1. ASSUME IInv
      PROVE  OneRowUnlessConnectsRace
  <2> SUFFICES ASSUME ~connectsRaced
               PROVE  Cardinality(Pages) <= 1
    BY DEF OneRowUnlessConnectsRace
  <2>1. \A q, r \in Pages : q = r
    BY <1>1 DEF IInv, Rows, OneConnect
  <2> QED
    BY <2>1, AtMostOne
<1> QED
  BY <1>1, PagesInvariance, PTL

\* An active page that says it is subscribed is delivered, when all is quiet and nothing
\* disturbed.
THEOREM SubscribedPagesHear == Spec => []SubscribedPageHears
<1>1. ASSUME IInv
      PROVE  SubscribedPageHears
  <2> SUFFICES ASSUME Quiet, ~disturbed, NEW r \in Pages \ switchedOn,
                      page[r].active, page[r].hears
               PROVE  delivers
    BY DEF SubscribedPageHears
  <2>1. \A o \in Op : ~TakesDown(o, r)
    BY DEF Quiet, TakesDown, Unsubscribing
  <2> QED
    BY <1>1, <2>1 DEF IInv, Rows, Undisturbed
<1> QED
  BY <1>1, PagesInvariance, PTL
==============================================================================
