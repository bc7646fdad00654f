------------------------------- MODULE Sessions -------------------------------
(***************************************************************************)
(* Accounts and sessions: one user account and what administrators do to   *)
(* its status, the rows of the sessions table, the Redis cache that        *)
(* validateSession asks before the table, and the browser whose requests   *)
(* share one stored refresh token (AuthService, UsersService, JwtStrategy  *)
(* and the api-client of the frontend).                                    *)
(*                                                                         *)
(* An operation runs one await at a time.  An operation that its first     *)
(* read rejects is not a step, except in the browser, which then clears    *)
(* its tokens.  Admin sessions behave alike and are not kept apart.        *)
(***************************************************************************)
EXTENDS Integers, FiniteSets

CONSTANTS
    Session,       \* ids of session rows; a login takes a fresh one
    Op,            \* the operations ever started
    None,          \* no session
    MaxTokens,     \* bound: refresh tokens ever issued
    MaxFaults      \* bound: errors and crashes

ASSUME NoneIsNoSession == None \notin Session
ASSUME BoundsAreNats == MaxTokens \in Nat /\ MaxFaults \in Nat

VARIABLES
    account,       \* the user's status
    session,       \* rows: whether there is one, whether it expired, its refresh token,
                   \* and whether it was created when the user was not active (history)
    cache,         \* which sessions Redis has an entry of
    leftover,      \* sessions whose entry no logout will clear (history, see LogoutForgets)
    op,            \* where each operation is
    stored,        \* the refresh token in the browser's local storage
    issued,        \* refresh tokens issued so far
    contended,     \* two refreshes of the browser were under way at once
    faults

vars == <<account, session, cache, leftover, op, stored, issued, contended, faults>>

entries == <<cache, leftover>>

Account == {"absent", "PENDING", "ACTIVE", "INACTIVE", "deleted"}
Kind == {"none", "approve", "reject", "deactivate", "reactivate", "login", "refresh",
         "validate", "logout", "logoutAll", "terminate", "deleteAll"}
PC == {"free", "status", "deleteUser", "lastLogin", "createRow", "cache", "store", "readRow",
       "rotate", "reject", "findAll", "deleteRow", "deleteRows", "clear", "done"}
NoToken == [session |-> None, token |-> 0]
Fresh == [row |-> "none", expired |-> FALSE, token |-> 0, late |-> FALSE]
FreeOp == [kind |-> "none", pc |-> "free", session |-> None, token |-> 0, found |-> {}]

TypeOK ==
    /\ account \in Account
    /\ session \in [Session -> [row: {"none", "live", "gone"}, expired: BOOLEAN,
                                token: 0..MaxTokens, late: BOOLEAN]]
    /\ cache \in SUBSET Session
    /\ leftover \in SUBSET Session
    /\ op \in [Op -> [kind: Kind, pc: PC, session: Session \cup {None}, token: 0..MaxTokens,
                      found: SUBSET Session]]
    /\ stored \in [session: Session \cup {None}, token: 0..MaxTokens]
    /\ issued \in 0..MaxTokens
    /\ contended \in BOOLEAN
    /\ faults \in 0..MaxFaults

Init ==
    /\ account \in Account \ {"deleted"}
    /\ session = [s \in Session |-> Fresh]
    /\ cache = {}
    /\ leftover = {}
    /\ op = [o \in Op |-> FreeOp]
    /\ stored = NoToken
    /\ issued = 0
    /\ contended = FALSE
    /\ faults = 0

Live(s) == s # None /\ session[s].row = "live"
Rows == {s \in Session : Live(s)}
Deleted(these) == [s \in Session |-> IF s \in these /\ session[s].row = "live"
                                       THEN [session[s] EXCEPT !.row = "gone"] ELSE session[s]]
At(o, pc) == op[o].pc = pc
Goto(o, pc) == op' = [op EXCEPT ![o].pc = pc]
Finish(o) == op' = [op EXCEPT ![o] = [FreeOp EXCEPT !.kind = op[o].kind, !.pc = "done"]]
Begin(o, kind, pc, s) ==
    /\ At(o, "free")
    /\ op' = [op EXCEPT ![o] = [FreeOp EXCEPT !.kind = kind, !.pc = pc, !.session = s]]

browser == <<stored, contended>>

-----------------------------------------------------------------------------
(* The account.                                                            *)

UserSignup ==
    /\ account = "absent"
    /\ account' = "PENDING"
    /\ UNCHANGED <<session, entries, op, issued, browser, faults>>

\* Each reads the status, and writes it later whatever it has become.
BeginStatus(o) ==
    /\ \/ account \in {"PENDING", "INACTIVE"} /\ Begin(o, "approve", "status", None)
       \/ account = "PENDING" /\ Begin(o, "reject", "deleteUser", None)
       \/ account \in {"PENDING", "ACTIVE", "INACTIVE"} /\ Begin(o, "deactivate", "status", None)
       \/ account = "INACTIVE" /\ Begin(o, "reactivate", "status", None)
    /\ UNCHANGED <<account, session, entries, issued, browser, faults>>

\* Mutant: the sessions are left alone.
WriteStatusOnly(o) ==
    /\ At(o, "status")
    /\ account' = IF account = "deleted" THEN account
                  ELSE IF op[o].kind = "deactivate" THEN "INACTIVE" ELSE "ACTIVE"
    /\ Finish(o)
    /\ UNCHANGED <<session, entries, issued, browser, faults>>

WriteStatus(o) ==
    /\ At(o, "status")
    /\ IF account = "deleted"
         THEN UNCHANGED account /\ Finish(o)
         ELSE /\ account' = IF op[o].kind = "deactivate" THEN "INACTIVE" ELSE "ACTIVE"
              /\ IF op[o].kind = "deactivate" THEN Goto(o, "findAll") ELSE Finish(o)
    /\ UNCHANGED <<session, entries, issued, browser, faults>>

\* The sessions of the user go with the row; their cache entries do not.
DeleteUser(o) ==
    /\ At(o, "deleteUser")
    /\ account' = "deleted"
    /\ session' = Deleted(Session)
    /\ leftover' = leftover \cup Rows
    /\ Finish(o)
    /\ UNCHANGED <<cache, issued, browser, faults>>

-----------------------------------------------------------------------------
(* A login, from the browser.                                              *)

\* Mutant: the status is not looked at.
LoginAnyone(o) ==
    /\ account \in {"PENDING", "ACTIVE", "INACTIVE"}
    /\ Begin(o, "login", "lastLogin", None)
    /\ UNCHANGED <<account, session, entries, issued, browser, faults>>

Login(o) ==
    /\ account = "ACTIVE"
    /\ Begin(o, "login", "lastLogin", None)
    /\ UNCHANGED <<account, session, entries, issued, browser, faults>>

WriteLastLogin(o) ==
    /\ At(o, "lastLogin")
    /\ IF account = "deleted" THEN Finish(o) ELSE Goto(o, "createRow")
    /\ UNCHANGED <<account, session, entries, issued, browser, faults>>

CreateSession(o, s) ==
    /\ At(o, "createRow")
    /\ session[s].row = "none"
    /\ issued < MaxTokens
    /\ IF account = "deleted"
         THEN UNCHANGED <<session, leftover, issued>> /\ Finish(o)
         ELSE /\ issued' = issued + 1
              /\ leftover' = IF \E p \in Op : At(p, "deleteRows") THEN leftover \cup {s}
                                                                 ELSE leftover
              /\ session' = [session EXCEPT ![s] = [row |-> "live", expired |-> FALSE,
                                                    token |-> issued + 1,
                                                    late |-> account # "ACTIVE"]]
              /\ op' = [op EXCEPT ![o].pc = "cache", ![o].session = s, ![o].token = issued + 1]
    /\ UNCHANGED <<account, cache, browser, faults>>

\* setJson, at the end of createSession and of refreshTokens, whether or not the row is
\* still there; the answer goes to the browser.
CacheSession(o) ==
    /\ At(o, "cache")
    /\ cache' = cache \cup {op[o].session}
    /\ leftover' = IF Live(op[o].session) THEN leftover ELSE leftover \cup {op[o].session}
    /\ IF op[o].kind = "validate" THEN Finish(o) ELSE Goto(o, "store")
    /\ UNCHANGED <<account, session, issued, browser, faults>>

\* Mutant: the browser stores the access token only.
KeepOldToken(o) ==
    /\ At(o, "store")
    /\ stored' = IF op[o].kind = "login" THEN [session |-> op[o].session, token |-> op[o].token]
                                         ELSE stored
    /\ Finish(o)
    /\ UNCHANGED <<account, session, entries, issued, contended, faults>>

SetTokens(o) ==
    /\ At(o, "store")
    /\ stored' = [session |-> op[o].session, token |-> op[o].token]
    /\ Finish(o)
    /\ UNCHANGED <<account, session, entries, issued, contended, faults>>

-----------------------------------------------------------------------------
(* Every request that is answered 401 refreshes on its own, with the token *)
(* it finds in the storage.                                                *)

Refreshing(o) == op[o].kind = "refresh" /\ op[o].pc # "done"

Refresh(o) ==
    /\ At(o, "free")
    /\ stored # NoToken
    /\ op' = [op EXCEPT ![o] = [FreeOp EXCEPT !.kind = "refresh", !.pc = "readRow",
                                  !.session = stored.session, !.token = stored.token]]
    /\ contended' = (contended \/ \E p \in Op : Refreshing(p))
    /\ UNCHANGED <<account, session, entries, stored, issued, faults>>

ReadForRefresh(o) ==
    LET s == op[o].session IN
    /\ At(o, "readRow") /\ op[o].kind = "refresh"
    /\ Goto(o, CASE Live(s) /\ session[s].expired -> "deleteRow"
                 [] Live(s) /\ session[s].token = op[o].token -> "rotate"
                 [] OTHER -> "reject")
    /\ UNCHANGED <<account, session, entries, issued, browser, faults>>

\* Writes a new token over whatever token the row has by now.
Rotate(o) ==
    LET s == op[o].session IN
    /\ At(o, "rotate")
    /\ issued < MaxTokens
    /\ IF Live(s)
         THEN /\ issued' = issued + 1
              /\ session' = [session EXCEPT ![s].token = issued + 1, ![s].expired = FALSE]
              /\ op' = [op EXCEPT ![o].pc = "cache", ![o].token = issued + 1]
         ELSE UNCHANGED <<issued, session>> /\ Goto(o, "reject")
    /\ UNCHANGED <<account, entries, browser, faults>>

\* A refresh that failed for any reason logs the browser out.
ClearTokens(o) ==
    /\ At(o, "reject")
    /\ stored' = NoToken
    /\ Finish(o)
    /\ UNCHANGED <<account, session, entries, issued, contended, faults>>

-----------------------------------------------------------------------------
(* A request with an access token: JwtStrategy.validate.                   *)

\* An entry of the cache answers alone, and is no step of the model.
Accepts(s) == s \in cache /\ ~session[s].expired

Validate(o, s) ==
    /\ session[s].row # "none"
    /\ ~Accepts(s)
    /\ Begin(o, "validate", "readRow", s)
    /\ UNCHANGED <<account, session, entries, issued, browser, faults>>

ReadForValidate(o) ==
    LET s == op[o].session IN
    /\ At(o, "readRow") /\ op[o].kind = "validate"
    /\ CASE ~Live(s) -> Finish(o)
         [] Live(s) /\ session[s].expired -> Goto(o, "deleteRow")
         [] OTHER -> Goto(o, "cache")
    /\ UNCHANGED <<account, session, entries, issued, browser, faults>>

-----------------------------------------------------------------------------
(* The ends of sessions.                                                   *)

\* logout, and the terminateSession of AuthService, delete the row and then its entry; a
\* row that is gone throws, and its entry stays.
Logout(o, s) ==
    /\ Live(s)
    /\ Begin(o, "logout", "deleteRow", s)
    /\ UNCHANGED <<account, session, entries, issued, browser, faults>>

\* The terminateSession of UsersService deletes the row and leaves the entry alone.
TerminateSession(o, s) ==
    /\ Live(s)
    /\ Begin(o, "terminate", "deleteRow", s)
    /\ UNCHANGED <<account, session, entries, issued, browser, faults>>

\* Of a logout, of that terminateSession, and of a request that found the row expired.
DeleteRow(o) ==
    LET s == op[o].session IN
    /\ At(o, "deleteRow")
    /\ session' = Deleted({s})
    /\ CASE op[o].kind = "refresh" -> Goto(o, "reject")
         [] op[o].kind = "logout" /\ Live(s) ->
              op' = [op EXCEPT ![o].pc = "clear", ![o].found = {s}]
         [] OTHER -> Finish(o)
    /\ leftover' = IF op[o].kind = "logout" THEN leftover ELSE leftover \cup ({s} \cap Rows)
    /\ UNCHANGED <<account, cache, issued, browser, faults>>

\* changePassword ends with logoutAllSessions; deactivateUser does, too.
LogoutAll(o) ==
    /\ account \in {"PENDING", "ACTIVE", "INACTIVE"}
    /\ Begin(o, "logoutAll", "findAll", None)
    /\ UNCHANGED <<account, session, entries, issued, browser, faults>>

\* Mutant: only the sessions that have not expired are looked up, as getActiveSessions does.
FindUnexpired(o) ==
    /\ At(o, "findAll")
    /\ op' = [op EXCEPT ![o].pc = "deleteRows", ![o].found = {s \in Rows : ~session[s].expired}]
    /\ UNCHANGED <<account, session, entries, issued, browser, faults>>

FindAll(o) ==
    /\ At(o, "findAll")
    /\ op' = [op EXCEPT ![o].pc = "deleteRows", ![o].found = Rows]
    /\ UNCHANGED <<account, session, entries, issued, browser, faults>>

\* UsersService.resetPassword and terminateAllSessions delete the rows and leave the
\* cache alone.
DeleteAll(o) ==
    /\ account \in {"PENDING", "ACTIVE", "INACTIVE"}
    /\ Begin(o, "deleteAll", "deleteRows", None)
    /\ UNCHANGED <<account, session, entries, issued, browser, faults>>

DeleteRows(o) ==
    /\ At(o, "deleteRows")
    /\ session' = Deleted(Session)
    /\ leftover' = IF op[o].kind = "deleteAll" THEN leftover \cup Rows ELSE leftover
    /\ IF op[o].found = {} THEN Finish(o) ELSE Goto(o, "clear")
    /\ UNCHANGED <<account, cache, issued, browser, faults>>

ClearEntry(o, s) ==
    /\ At(o, "clear")
    /\ s \in op[o].found
    /\ cache' = cache \ {s}
    /\ leftover' = leftover \ {s}
    /\ IF op[o].found = {s} THEN Finish(o)
                            ELSE op' = [op EXCEPT ![o].found = @ \ {s}]
    /\ UNCHANGED <<account, session, issued, browser, faults>>

-----------------------------------------------------------------------------
(* Time and faults.                                                        *)

\* Mutant: entries are set without a time to live.
EntryStays(s) == s \in cache /\ UNCHANGED vars

EntryExpires(s) ==
    /\ s \in cache
    /\ cache' = cache \ {s}
    /\ UNCHANGED <<account, session, leftover, op, issued, browser, faults>>

SessionExpires(s) ==
    /\ Live(s) /\ ~session[s].expired
    /\ session' = [session EXCEPT ![s].expired = TRUE]
    /\ UNCHANGED <<account, entries, op, issued, browser, faults>>

Fault == faults < MaxFaults /\ faults' = faults + 1

\* An await of the server rejects, or its answer is lost: a refresh fails in the browser.
OpFails(o) ==
    /\ op[o].pc \notin {"free", "done", "store", "reject"}
    /\ Fault
    /\ IF op[o].kind = "refresh" THEN Goto(o, "reject") ELSE Finish(o)
    /\ UNCHANGED <<account, session, entries, issued, browser>>

-----------------------------------------------------------------------------
Begins(o) ==
    \/ BeginStatus(o) \/ Login(o) \/ Refresh(o) \/ LogoutAll(o) \/ DeleteAll(o)
    \/ \E s \in Session : Validate(o, s) \/ Logout(o, s) \/ TerminateSession(o, s)

OpStep(o) ==
    \/ WriteStatus(o)
    \/ DeleteUser(o)
    \/ WriteLastLogin(o)
    \/ \E s \in Session : CreateSession(o, s) \/ ClearEntry(o, s)
    \/ CacheSession(o)
    \/ SetTokens(o)
    \/ ReadForRefresh(o)
    \/ Rotate(o)
    \/ ClearTokens(o)
    \/ ReadForValidate(o)
    \/ DeleteRow(o)
    \/ FindAll(o)
    \/ DeleteRows(o)

Next ==
    \/ UserSignup
    \/ \E o \in Op : Begins(o) \/ OpStep(o) \/ OpFails(o)
    \/ \E s \in Session : EntryExpires(s) \/ SessionExpires(s)

Spec == Init /\ [][Next]_vars

\* An operation under way goes on, and Redis expires its entries.
Fairness ==
    /\ \A o \in Op : WF_vars(OpStep(o))
    /\ \A s \in Session : WF_vars(EntryExpires(s))

FairSpec == Spec /\ Fairness

-----------------------------------------------------------------------------
(* Properties.                                                             *)

\* Nobody is logged in before the account was approved: while it is absent or pending
\* it has no session row and no entry, whatever operations of administrators and logins
\* overlap (validateUser, approveUser, rejectUser).
UnapprovedHasNoSession ==
    account \in {"absent", "PENDING"} => Rows = {} /\ cache = {}

\* A deactivation ends the sessions: when none is under way, a live session of an
\* inactive user was created after the user ceased to be active, by a login that had read
\* the status before (deactivateUser with logoutAllSessions, against logins, approvals
\* and reactivations in between).
DeactivationEndsSessions ==
    (/\ account = "INACTIVE" /\ faults = 0
     /\ \A o \in Op : op[o].kind = "deactivate" => op[o].pc \in {"done", "clear"})
        => \A s \in Rows : session[s].late

\* The browser is not locked out by its own requests: as long as no two of them
\* refreshed at once and nothing failed, the token in its storage is the one its session
\* has, while that session lives and no refresh is under way (api-client's interceptor
\* with refreshTokens).
StoredIsCurrent ==
    (/\ ~contended /\ faults = 0
     /\ Live(stored.session)
     /\ \A o \in Op : ~Refreshing(o))
        => session[stored.session].token = stored.token

\* A logout leaves nothing behind: as long as nothing failed, a session whose row is gone
\* has an entry only until the logout at work on it clears it, or because no logout ever
\* will.  Those are the sessions that another deletion ended (deleteUser, resetPassword, the
\* two of UsersService, an expired row), that a login created between the findMany and the
\* deleteMany of logoutAllSessions, or whose entry a validation, login or refresh wrote
\* after the row was gone.
LogoutForgets ==
    faults = 0 =>
        \A s \in cache : session[s].row = "gone" =>
            s \in leftover \/ \E o \in Op : At(o, "clear") /\ s \in op[o].found

\* An ended session is forgotten: once its row is gone there is in the end no entry that
\* still lets its access token in, although logouts leave some behind and validations
\* that read the row before fill the cache after.
EndedIsForgotten ==
    \A s \in Session : [](session[s].row = "gone" => <>[](s \notin cache))
=============================================================================
