--------------------------------- MODULE Pages ---------------------------------
(***************************************************************************)
(* Facebook accounts and pages: the OAuth flow that gives a workspace its  *)
(* account, and what connects, disconnects, activates and repairs a page   *)
(* (FacebookService, PagesService).  There is one Facebook page; Facebook  *)
(* delivers its messages to the application or does not, whichever         *)
(* workspace asked last.                                                   *)
(*                                                                         *)
(* An operation reads its rows, calls the Graph API, and writes.  The      *)
(* Graph API client returns false where a call fails; an OAuth exchange    *)
(* throws.  The id of a row that is gone is taken for a new one when no    *)
(* operation remembers it.                                                 *)
(***************************************************************************)
EXTENDS Integers, FiniteSets

CONSTANTS
    Workspace,
    FbUser,        \* people whose Facebook account may be connected
    Account,       \* ids of facebookAccount rows
    Row,           \* ids of page rows
    Op,            \* bound: operations under way at once
    None

ASSUME NoneIsNoId == None \notin Workspace \cup FbUser \cup Account \cup Row \cup Op

VARIABLES
    account,       \* facebookAccount rows: workspace and Facebook user
    page,          \* rows of the page: workspace, account, isActive, webhookSubscribed
    delivers,      \* does Facebook deliver the page's messages to the application
    state,         \* OAuth states in Redis: the initiating operation's, with the workspace
    op,            \* where each operation is
    flowsCrossed,  \* history: workspaces with two OAuth flows under way at once
    connectsRaced, \* history: two operations that connect the page were under way at once
    disturbed,     \* history: so were one that subscribes and one that unsubscribes, or two
                   \* connects, or an operation on the page failed
    switchedOn     \* history: rows set active by update since they were last subscribed,
                   \* as long as nothing disturbed

vars == <<account, page, delivers, state, op, flowsCrossed, connectsRaced, disturbed, switchedOn>>

NoAccount == [ws |-> None, user |-> None]
NoPage == [ws |-> None, account |-> None, active |-> FALSE, hears |-> FALSE]
FreeOp == [kind |-> "none", pc |-> "free", ws |-> None, account |-> None, row |-> None,
           flow |-> None, told |-> FALSE]

Subscribing == {"connect", "reactivate", "fixTrue", "fixFalse"}
Unsubscribing == {"disconnect", "deactivate", "disconnectAccount"}
PC == {"free", "setState", "delState", "exchange", "subscribe", "store", "unsubscribe", "write",
       "delete"}

TypeOK ==
    /\ account \in [Account -> [ws: Workspace \cup {None}, user: FbUser \cup {None}]]
    /\ page \in [Row -> [ws: Workspace \cup {None}, account: Account \cup {None},
                         active: BOOLEAN, hears: BOOLEAN]]
    /\ delivers \in BOOLEAN
    /\ state \in [Op -> Workspace \cup {None}]
    /\ op \in [Op -> [kind: Subscribing \cup Unsubscribing \cup {"none", "initiate", "callback"},
                      pc: PC, ws: Workspace \cup {None}, account: Account \cup {None},
                      row: Row \cup {None}, flow: Op \cup {None}, told: BOOLEAN]]
    /\ flowsCrossed \in SUBSET Workspace
    /\ switchedOn \in SUBSET Row
    /\ connectsRaced \in BOOLEAN
    /\ disturbed \in BOOLEAN

Init ==
    /\ account = [a \in Account |-> NoAccount]
    /\ page = [r \in Row |-> NoPage]
    /\ delivers = FALSE
    /\ state = [o \in Op |-> None]
    /\ op = [o \in Op |-> FreeOp]
    /\ flowsCrossed = {}
    /\ connectsRaced = FALSE
    /\ disturbed = FALSE
    /\ switchedOn = {}

FreshState(i) == state[i] = None /\ \A o \in Op : op[o].flow # i
FreshAccount(a) == account[a].ws = None /\ \A o \in Op : op[o].account # a
FreshRow(r) == page[r].ws = None /\ \A o \in Op : op[o].row # r
Accounts(w) == {a \in Account : account[a].ws = w}
Pages == {r \in Row : page[r].ws # None}
At(o, pc) == op[o].pc = pc
Goto(o, pc) == op' = [op EXCEPT ![o].pc = pc]
Finish(o) == op' = [op EXCEPT ![o] = FreeOp]
UnderWay(kinds) == \E o \in Op : op[o].kind \in kinds
Begin(o, kind, pc, w, a, r) ==
    /\ At(o, "free")
    /\ op' = [op EXCEPT ![o] = [FreeOp EXCEPT !.kind = kind, !.pc = pc, !.ws = w,
                                    !.account = a, !.row = r]]
    /\ connectsRaced' = (connectsRaced \/ (kind = "connect" /\ UnderWay({"connect"})))
    /\ disturbed' = \/ disturbed
                    \/ connectsRaced'
                    \/ kind \in Subscribing /\ UnderWay(Unsubscribing)
                    \/ kind \in Unsubscribing /\ UnderWay(Subscribing)

history == <<flowsCrossed, connectsRaced, disturbed, switchedOn>>
marks == <<connectsRaced, disturbed>>

-----------------------------------------------------------------------------
(* OAuth.                                                                  *)

Flow(w) == \/ \E o \in Op : op[o].kind \in {"initiate", "callback"} /\ op[o].ws = w
           \/ \E o \in Op : state[o] = w

\* Mutant: a workspace that has an account is not turned away.
InitiateAnyway(o, w) ==
    /\ FreshState(o)
    /\ Begin(o, "initiate", "setState", w, None, None)
    /\ flowsCrossed' = IF Flow(w) THEN flowsCrossed \cup {w} ELSE flowsCrossed
    /\ UNCHANGED <<account, page, delivers, state, switchedOn>>

InitiateOAuth(o, w) ==
    /\ Accounts(w) = {}
    /\ FreshState(o)
    /\ Begin(o, "initiate", "setState", w, None, None)
    /\ flowsCrossed' = IF Flow(w) THEN flowsCrossed \cup {w} ELSE flowsCrossed
    /\ UNCHANGED <<account, page, delivers, state, switchedOn>>

SetState(o) ==
    /\ At(o, "setState")
    /\ state' = [state EXCEPT ![o] = op[o].ws]
    /\ Finish(o)
    /\ UNCHANGED <<account, page, delivers, history>>

StateExpires(o) ==
    /\ state[o] # None
    /\ state' = [state EXCEPT ![o] = None]
    /\ UNCHANGED <<account, page, delivers, op, history>>

\* The browser comes back with the state of operation i, perhaps twice.
HandleCallback(o, i) ==
    /\ state[i] # None
    /\ At(o, "free")
    /\ op' = [op EXCEPT ![o] = [FreeOp EXCEPT !.kind = "callback", !.pc = "delState",
                                    !.ws = state[i], !.flow = i]]
    /\ flowsCrossed' = IF \E p \in Op : op[p].kind = "callback" /\ op[p].ws = state[i]
                       THEN flowsCrossed \cup {state[i]} ELSE flowsCrossed
    /\ UNCHANGED <<account, page, delivers, state, marks, switchedOn>>

DeleteState(o) ==
    /\ At(o, "delState")
    /\ state' = [state EXCEPT ![op[o].flow] = None]
    /\ Goto(o, "exchange")
    /\ UNCHANGED <<account, page, delivers, history>>

\* A Facebook user has one account row in a workspace: a second is an error.
CreateAccount(o, a, u) ==
    /\ At(o, "exchange")
    /\ FreshAccount(a)
    /\ account' = IF \E b \in Accounts(op[o].ws) : account[b].user = u THEN account
                  ELSE [account EXCEPT ![a] = [ws |-> op[o].ws, user |-> u]]
    /\ Finish(o)
    /\ UNCHANGED <<page, delivers, state, history>>

-----------------------------------------------------------------------------
(* Connecting.  The page's row is looked for whatever its workspace.       *)

\* Mutant: only the workspace's own row is looked for.
ConnectOwnPage(o, w, a) ==
    /\ a \in Accounts(w)
    /\ LET own == {r \in Pages : page[r].ws = w}
       IN  \/ own = {} /\ Begin(o, "connect", "subscribe", w, a, None)
           \/ \E r \in own : ~page[r].active /\ Begin(o, "connect", "subscribe", w, a, r)
    /\ UNCHANGED <<account, page, delivers, state, flowsCrossed, switchedOn>>

ConnectPage(o, w, a) ==
    /\ a \in Accounts(w)
    /\ \/ Pages = {} /\ Begin(o, "connect", "subscribe", w, a, None)
       \/ \E r \in Pages : ~page[r].active /\ Begin(o, "connect", "subscribe", w, a, r)
    /\ UNCHANGED <<account, page, delivers, state, flowsCrossed, switchedOn>>

\* The call may take effect and its answer still be lost.  checkAndFixWebhook writes only
\* an answer that differs from what it read.
SubscribePage(o) ==
    /\ At(o, "subscribe")
    /\ \E takesEffect, answered \in BOOLEAN :
           /\ answered => takesEffect
           /\ delivers' = (delivers \/ takesEffect)
           /\ IF op[o].kind = IF answered THEN "fixTrue" ELSE "fixFalse"
                THEN Finish(o)
                ELSE op' = [op EXCEPT ![o].told = answered,
                       ![o].pc = IF op[o].kind = "connect" THEN "store" ELSE "write"]
    /\ UNCHANGED <<account, page, state, history>>

\* Mutant: a row that is used again keeps its account.
StoreKeepsAccount(o, r) ==
    /\ At(o, "store")
    /\ IF op[o].row = None THEN FreshRow(r) ELSE r = op[o].row
    /\ page' = [page EXCEPT ![r] = [ws |-> op[o].ws, active |-> TRUE, hears |-> op[o].told,
                                    account |-> IF op[o].row = None THEN op[o].account
                                                ELSE page[r].account]]
    /\ Finish(o)
    /\ UNCHANGED <<account, delivers, state, history>>

\* The write fails if the account or the row is gone, or the workspace has another row.
StorePage(o, r) ==
    /\ At(o, "store")
    /\ IF op[o].row = None THEN FreshRow(r) ELSE r = op[o].row
    /\ IF \/ account[op[o].account].ws = None
          \/ op[o].row # None /\ page[r].ws = None
          \/ \E q \in Pages \ {r} : page[q].ws = op[o].ws
         THEN UNCHANGED <<page, switchedOn>>
         ELSE /\ page' = [page EXCEPT ![r] = [ws |-> op[o].ws, account |-> op[o].account,
                                              active |-> TRUE, hears |-> op[o].told]]
              /\ switchedOn' = switchedOn \ {r}
    /\ Finish(o)
    /\ UNCHANGED <<account, delivers, state, flowsCrossed, marks>>

-----------------------------------------------------------------------------
(* Disconnecting, deactivating, reactivating and repairing a row.          *)

StartOnPage(o, r) ==
    /\ r \in Pages
    /\ \/ Begin(o, "disconnect", "unsubscribe", page[r].ws, None, r)
       \/ Begin(o, "deactivate", "unsubscribe", page[r].ws, None, r)
       \/ ~page[r].active /\ Begin(o, "reactivate", "subscribe", page[r].ws, None, r)
       \/ Begin(o, IF page[r].hears THEN "fixTrue" ELSE "fixFalse", "subscribe", page[r].ws,
                None, r)
    /\ UNCHANGED <<account, page, delivers, state, flowsCrossed, switchedOn>>

\* disconnectAccount unsubscribes the account's active pages first.
StartDisconnectAccount(o, w, a) ==
    /\ a \in Accounts(w)
    /\ IF \E r \in Pages : page[r].account = a /\ page[r].active
         THEN Begin(o, "disconnectAccount", "unsubscribe", w, a, None)
         ELSE Begin(o, "disconnectAccount", "delete", w, a, None)
    /\ UNCHANGED <<account, page, delivers, state, flowsCrossed, switchedOn>>

UnsubscribePage(o) ==
    /\ At(o, "unsubscribe")
    /\ \E takesEffect \in BOOLEAN : delivers' = (delivers /\ ~takesEffect)
    /\ Goto(o, IF op[o].kind = "disconnectAccount" THEN "delete" ELSE "write")
    /\ UNCHANGED <<account, page, state, history>>

\* Mutant: a subscription is believed whatever Facebook answered.
WriteSubscribed(o) ==
    /\ At(o, "write")
    /\ LET r == op[o].row
       IN  page' = [page EXCEPT ![r].active = op[o].kind \in Subscribing,
                                ![r].hears = op[o].kind \in Subscribing]
    /\ Finish(o)
    /\ UNCHANGED <<account, delivers, state, history>>

\* A row that is gone is an error.  Only a deactivation resets webhookSubscribed.
WritePage(o) ==
    /\ At(o, "write")
    /\ LET r == op[o].row
           kind == op[o].kind
       IN  IF page[r].ws = None
             THEN UNCHANGED <<page, switchedOn>>
             ELSE /\ page' = [page EXCEPT
                        ![r].active = CASE kind = "reactivate" -> TRUE
                                        [] kind \in Unsubscribing -> FALSE
                                        [] OTHER -> @,
                        ![r].hears = IF kind = "disconnect" THEN @ ELSE op[o].told]
                  /\ switchedOn' = IF kind \in Subscribing THEN switchedOn \ {r} ELSE switchedOn
    /\ Finish(o)
    /\ UNCHANGED <<account, delivers, state, flowsCrossed, marks>>

\* PagesService.update sets isActive and asks Facebook nothing.
UpdatePage(r) ==
    /\ r \in Pages
    /\ \E active \in BOOLEAN :
           /\ page' = [page EXCEPT ![r].active = active]
           /\ switchedOn' = IF ~disturbed /\ active /\ ~page[r].active THEN switchedOn \cup {r} ELSE switchedOn
    /\ UNCHANGED <<account, delivers, state, op, flowsCrossed, marks>>

\* The rows of the account go with it.
DeleteAccount(o) ==
    /\ At(o, "delete")
    /\ account' = [account EXCEPT ![op[o].account] = NoAccount]
    /\ page' = [r \in Row |-> IF page[r].account = op[o].account
                                THEN NoPage ELSE page[r]]
    /\ switchedOn' = {r \in switchedOn : page[r].account # op[o].account}
    /\ Finish(o)
    /\ UNCHANGED <<delivers, state, flowsCrossed, marks>>

-----------------------------------------------------------------------------
\* An await rejects, or the process dies in the middle.
Fails(o) ==
    /\ ~At(o, "free")
    /\ disturbed' = (disturbed \/ op[o].kind \in Subscribing \cup Unsubscribing)
    /\ Finish(o)
    /\ UNCHANGED <<account, page, delivers, state, flowsCrossed, connectsRaced, switchedOn>>

Next ==
    \/ \E o \in Op :
           \/ SetState(o) \/ StateExpires(o) \/ DeleteState(o)
           \/ SubscribePage(o) \/ UnsubscribePage(o) \/ WritePage(o) \/ DeleteAccount(o)
           \/ Fails(o)
           \/ \E i \in Op : HandleCallback(o, i)
           \/ \E a \in Account, u \in FbUser : CreateAccount(o, a, u)
           \/ \E r \in Row : StorePage(o, r) \/ StartOnPage(o, r)
           \/ \E w \in Workspace :
                  \/ InitiateOAuth(o, w)
                  \/ \E a \in Account : ConnectPage(o, w, a) \/ StartDisconnectAccount(o, w, a)
    \/ \E r \in Row : UpdatePage(r)

Spec == Init /\ [][Next]_vars

-----------------------------------------------------------------------------
Quiet == \A o \in Op : op[o].kind \notin Subscribing \cup Unsubscribing

\* A workspace has one Facebook account, unless two OAuth flows of it were under way at
\* once: initiateOAuth looks, and handleCallback creates without looking again
\* (facebook.service.ts:129).
OneAccountUnlessFlowsCross ==
    \A w \in Workspace \ flowsCrossed : Cardinality(Accounts(w)) <= 1

\* A page has one row, whatever workspaces it went through, unless two connects of it were
\* under way at once: the unique key is per workspace (facebook.service.ts:214).
OneRowUnlessConnectsRace ==
    connectsRaced \/ Cardinality(Pages) <= 1

\* A row belongs to the workspace of its account, also when another workspace took it over
\* or the account is disconnected in the middle (facebook.service.ts, connectPage).
PageBelongsToItsAccount ==
    \A r \in Pages : account[page[r].account].ws = page[r].ws

\* An active page that says webhookSubscribed gets its messages, after any sequence of
\* operations, unless a subscription crossed an unsubscription, connects raced, something
\* failed, or update switched the page on without asking Facebook (pages.service.ts:71:
\* disconnectPage leaves webhookSubscribed as it was).
SubscribedPageHears ==
    Quiet /\ ~disturbed =>
        \A r \in Pages \ switchedOn : page[r].active /\ page[r].hears => delivers

-----------------------------------------------------------------------------
(* The inductive invariant behind these properties.                        *)

\* What an operation remembers at each of its awaits.  The account that a connect read may
\* be gone, and has not become another workspace's.
OpShape(o) ==
    LET kind == op[o].kind
        pc == op[o].pc
        ws == op[o].ws
        a == op[o].account
    IN  /\ kind = "none" => pc = "free"
        /\ kind = "initiate" => pc = "setState" /\ ws \in Workspace
        /\ kind = "callback" => pc \in {"delState", "exchange"} /\ ws \in Workspace
        /\ kind = "connect" => /\ pc \in {"subscribe", "store"}
                               /\ ws \in Workspace /\ a \in Account
                               /\ account[a].ws \in {None, ws}
        /\ kind \in {"reactivate", "fixTrue", "fixFalse"} =>
               pc \in {"subscribe", "write"} /\ op[o].row \in Row
        /\ kind \in {"disconnect", "deactivate"} =>
               pc \in {"unsubscribe", "write"} /\ op[o].row \in Row
        /\ kind = "disconnectAccount" => pc \in {"unsubscribe", "delete"} /\ a \in Account

\* Where a workspace's OAuth flow is: between the two requests, in Redis, or in the callback.
Initiating(w) == {o \in Op : op[o].kind = "initiate" /\ op[o].ws = w}
Returning(w) == {o \in Op : op[o].kind = "callback" /\ op[o].ws = w}
Awaited(w) == {i \in Op : state[i] = w}

OneFlow(w) ==
    /\ \A o, p \in Initiating(w) : o = p
    /\ \A o, p \in Returning(w) : o = p
    /\ \A i, j \in Awaited(w) : i = j
    /\ Initiating(w) # {} => Returning(w) = {} /\ Awaited(w) = {}
    /\ \A o \in Returning(w), i \in Awaited(w) : At(o, "delState") /\ op[o].flow = i
    /\ Flow(w) => Accounts(w) = {}
    /\ \A a, b \in Accounts(w) : a = b

Connecting == {o \in Op : op[o].kind = "connect"}

\* While one operation connects the page, no other gives it a row.
OneConnect ==
    /\ \A o, p \in Connecting : o = p
    /\ \A q, r \in Pages : q = r
    /\ \A o \in Connecting : op[o].row = None => Pages = {}

\* An operation that is about to switch the row off, or to delete it.
TakesDown(o, r) ==
    \/ op[o].kind \in {"disconnect", "deactivate"} /\ op[o].row = r
    \/ op[o].kind = "disconnectAccount" /\ op[o].account = page[r].account

\* A row that is active and says it is subscribed while Facebook does not deliver is taken
\* down by the operation that unsubscribed it.
Undisturbed ==
    /\ ~connectsRaced
    /\ ~(UnderWay(Subscribing) /\ UnderWay(Unsubscribing))
    /\ \A o \in Op : op[o].kind \in Subscribing /\ op[o].told => delivers
    /\ \A o \in Op : op[o].kind \in {"disconnect", "deactivate"} => Pages \subseteq {op[o].row}
    /\ \A o \in Op : op[o].kind = "disconnectAccount" /\ At(o, "unsubscribe") =>
           \A r \in Pages : page[r].account = op[o].account
    /\ \A r \in Pages \ switchedOn :
           page[r].active /\ page[r].hears /\ ~delivers => \E o \in Op : TakesDown(o, r)

\* The shapes of operations and rows, on which the other three parts rest.
Shapes ==
    /\ TypeOK
    /\ \A o \in Op : OpShape(o)
    /\ \A r \in Pages : page[r].account \in Account
    /\ PageBelongsToItsAccount

Flows == \A w \in Workspace \ flowsCrossed : OneFlow(w)

Rows == (connectsRaced \/ OneConnect) /\ (disturbed \/ Undisturbed)

IInv == Shapes /\ Flows /\ Rows
=============================================================================
