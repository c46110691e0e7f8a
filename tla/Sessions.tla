------------------------------ MODULE Sessions ------------------------------
(***************************************************************************)
(* Accounts and sessions (security/service.py, repository.py): login,      *)
(* refresh, logout, the first administrator and what administrators change *)
(* of other accounts.                                                      *)
(*                                                                         *)
(* Every operation is one READ COMMITTED transaction.  A row that it locks *)
(* (FOR UPDATE, UPDATE, INSERT) stays locked to its end and is read when   *)
(* the lock is got; counts and lists of accounts take no lock.  What it    *)
(* writes is seen by the others when it commits.                           *)
(***************************************************************************)
EXTENDS Naturals

CONSTANTS
    Workers,            \* threads that serve a request
    Accounts, Sessions, \* rows of app.user_account, app.access_session
    Roles,              \* known roles, among them "TI"
    Founders,           \* administrators of a system in use
    NoWorker, NoAccount, NoSession,
    Boot,               \* advisory lock of the first administrator
    MaxChanges,         \* bound: administrative operations and refreshes
    MaxFailures         \* bound: transactions that a failure rolls back

ASSUME SessionsConstants ==
    /\ NoWorker \notin Workers /\ NoAccount \notin Accounts /\ NoSession \notin Sessions
    /\ Accounts \cap Sessions = {} /\ Boot \notin Accounts \cup Sessions
    /\ "TI" \in Roles /\ Founders \subseteq Accounts
    /\ MaxChanges \in Nat /\ MaxFailures \in Nat

VARIABLES
    account, session,
    lock,           \* who holds each row, and the advisory lock
    pc, txn,        \* the transaction of each worker
    budget,         \* what is left of the two bounds
    reported,       \* sessions with a SESSION_INVALIDATION event
    closedBy,       \* history: kind of the operation that invalidated a session
    begun,          \* history: secret and roles of its account when it began
    founded, overlap    \* history: an administrator existed; two left at once

history == <<closedBy, begun, founded, overlap>>
vars == <<account, session, lock, pc, txn, budget, reported, history>>

-----------------------------------------------------------------------------
(* Values *)

Rows == Accounts \cup Sessions \cup {Boot}
Account == [state : {"ABSENT", "ACTIVE", "DISABLED"}, av : Nat, roles : SUBSET Roles, secret : Nat]
Session == [state : {"FREE", "ACTIVE", "INVALIDATED", "LOGGED_OUT"},
            owner : Accounts \cup {NoAccount}, av : Nat, token : Nat, expired : BOOLEAN]
Changes == {"DISABLE", "ACTIVATE", "RESET", "ASSIGN", "CREATE", "GRANT", "EXCEPTION"}
Kind == Changes \cup {"NONE", "LOGIN", "REFRESH", "LOGOUT", "REQUEST", "BOOTSTRAP"}
Txn == [kind : Kind, by : Sessions \cup {NoSession}, target : Accounts \cup {NoAccount},
        roles : SUBSET Roles, number : Nat,
        impacted : SUBSET Accounts, listed : SUBSET Sessions]
Where == {"idle", "entering", "locking", "counting", "writing", "choosing", "listing", "closing",
          "committing", "verifying", "issuing", "rotating", "rotated", "leaving", "founding"}
Budget == [changes : Nat, failures : Nat]

NoTxn == [kind |-> "NONE", by |-> NoSession, target |-> NoAccount, roles |-> {}, number |-> 0,
          impacted |-> {}, listed |-> {}]
NoRow == [state |-> "ABSENT", av |-> 0, roles |-> {}, secret |-> 0]
Administrator == [state |-> "ACTIVE", av |-> 0, roles |-> {"TI"}, secret |-> 0]
FreeSession == [state |-> "FREE", owner |-> NoAccount, av |-> 0, token |-> 0, expired |-> FALSE]
Unknown == [secret |-> 0, roles |-> {}]

ActiveTi == {a \in Accounts : account[a].state = "ACTIVE" /\ "TI" \in account[a].roles}
OpenSessions(A) == {s \in Sessions : session[s].state = "ACTIVE" /\ session[s].owner \in A}
Actor(w) == session[txn[w].by].owner

(* Definitions marked "faulty" are slips that a property must notice.      *)
AccountIsActive(s) ==                                   \* faulty: the session is not looked at
    session[s].state # "FREE" /\ account[session[s].owner].state = "ACTIVE"
Valid(s) ==
    /\ session[s].state = "ACTIVE" /\ ~session[s].expired
    /\ account[session[s].owner].state = "ACTIVE"
    /\ session[s].av = account[session[s].owner].av

NeverLast(a) == FALSE                                   \* faulty: nobody counts
LastActiveTi(a) ==
    /\ \E b \in Accounts : ActiveTi = {b}
    /\ "TI" \in account[a].roles

VersionBack(t, row) == row.av - 1                       \* faulty: counted down
NextVersion(t, row) == row.av + 1

Closed(t) == OpenSessions(t.impacted)

Rewritten(t, row) ==
    CASE t.kind = "DISABLE" -> [row EXCEPT !.state = "DISABLED"]
      [] t.kind = "ACTIVATE" -> [row EXCEPT !.state = "ACTIVE"]
      [] t.kind = "RESET" -> [row EXCEPT !.secret = @ + 1]
      [] t.kind = "ASSIGN" -> [row EXCEPT !.roles = t.roles]
      [] OTHER -> row

NotLocked(w) == {}                                      \* faulty: no FOR UPDATE
PrincipalRows(w) == {Actor(w), txn[w].by}
TokenRows(w) ==
    IF session[txn[w].by].token = txn[w].number THEN {Actor(w), txn[w].by} ELSE {}
TargetRow(w) == {txn[w].target}
AdvisoryLock(w) == {Boot}

(* What the next statement of w locks.                                     *)
Needs(w) ==
    CASE pc[w] = "entering" -> PrincipalRows(w)
      [] pc[w] \in {"locking", "verifying"} -> {txn[w].target}
      [] pc[w] = "writing" -> TargetRow(w)
      [] pc[w] = "rotating" -> TokenRows(w)
      [] pc[w] = "listing" -> OpenSessions(txn[w].impacted)
      [] pc[w] = "closing" -> txn[w].impacted \cup OpenSessions(txn[w].impacted)
      [] pc[w] = "founding" -> AdvisoryLock(w)
      [] OTHER -> {}

Holders(w) == {lock[r] : r \in Needs(w)} \ {w, NoWorker}
Taken(w) == [r \in Rows |-> IF r \in Needs(w) THEN w ELSE lock[r]]

-----------------------------------------------------------------------------
(* What the actions share *)

TypeOK ==
    /\ account \in [Accounts -> Account] /\ session \in [Sessions -> Session]
    /\ \A s \in Sessions : session[s].state # "FREE" => session[s].owner \in Accounts
    /\ lock \in [Rows -> Workers \cup {NoWorker}]
    /\ pc \in [Workers -> Where] /\ txn \in [Workers -> Txn] /\ budget \in Budget
    /\ reported \subseteq Sessions /\ closedBy \in [Sessions -> Kind]
    /\ begun \in [Sessions -> [secret : Nat, roles : SUBSET Roles]]
    /\ founded \in BOOLEAN /\ overlap \in BOOLEAN

Init ==
    /\ \E F \in {{}, Founders} :
         /\ account = [a \in Accounts |-> IF a \in F THEN Administrator ELSE NoRow]
         /\ founded = (F # {})
    /\ session = [s \in Sessions |-> FreeSession]
    /\ lock = [r \in Rows |-> NoWorker]
    /\ pc = [w \in Workers |-> "idle"] /\ txn = [w \in Workers |-> NoTxn]
    /\ budget = [changes |-> MaxChanges, failures |-> MaxFailures]
    /\ reported = {} /\ closedBy = [s \in Sessions |-> "NONE"]
    /\ begun = [s \in Sessions |-> Unknown] /\ overlap = FALSE

(* The transaction of w ends, committed or rolled back.                    *)
End(w) ==
    /\ pc' = [pc EXCEPT ![w] = "idle"]
    /\ txn' = [txn EXCEPT ![w] = NoTxn]
    /\ lock' = [r \in Rows |-> IF lock[r] = w THEN NoWorker ELSE lock[r]]

Opens(w, t, where) ==
    /\ pc[w] = "idle"
    /\ pc' = [pc EXCEPT ![w] = where]
    /\ txn' = [txn EXCEPT ![w] = t]
    /\ UNCHANGED <<account, session, lock, reported, history>>

(* A statement that waits until the rows it needs are free, and locks them.*)
Locks(w, where) ==
    /\ Holders(w) = {}
    /\ lock' = Taken(w)
    /\ pc' = [pc EXCEPT ![w] = where]
    /\ UNCHANGED <<account, session, budget, reported, history>>

RollsBack(w) ==
    /\ End(w)
    /\ UNCHANGED <<account, session, budget, reported, history>>

-----------------------------------------------------------------------------
(* Administration *)

(* The routes have authenticated the session and required the permission,  *)
(* in transactions of their own.                                           *)
Administer(w, s, kind, a, R) ==
    /\ Valid(s) /\ "TI" \in account[session[s].owner].roles
    /\ kind = "ASSIGN" => session[s].owner # a
    /\ kind = "GRANT" => session[s].owner = a
    /\ kind = "EXCEPTION" => account[a].state # "ABSENT"
    /\ R # {} => kind \in {"ASSIGN", "CREATE", "GRANT"}
    /\ kind \in {"ASSIGN", "CREATE", "GRANT"} => R # {}
    /\ budget.changes > 0
    /\ budget' = [budget EXCEPT !.changes = @ - 1]
    /\ Opens(w, [NoTxn EXCEPT !.kind = kind, !.by = s, !.target = a, !.roles = R], "entering")

(* What every protected route does first, with the token of any session.   *)
Request(w, s) ==
    /\ session[s].state # "FREE"
    /\ Opens(w, [NoTxn EXCEPT !.kind = "REQUEST", !.by = s], "entering")
    /\ UNCHANGED budget

Logout(w, s) ==
    /\ Valid(s)
    /\ Opens(w, [NoTxn EXCEPT !.kind = "LOGOUT", !.by = s], "entering")
    /\ UNCHANGED budget

(* _authoritative_principal: account and session stay locked to the end.   *)
Authorised(w) ==
    Valid(txn[w].by) /\ (txn[w].kind \in Changes => "TI" \in account[Actor(w)].roles)

Enter(w) ==
    /\ pc[w] = "entering" /\ Authorised(w)
    /\ Locks(w, CASE txn[w].kind \in {"REQUEST", "LOGOUT"} -> "leaving"
                  [] txn[w].kind = "DISABLE" -> "counting"
                  [] txn[w].kind = "ASSIGN" -> "locking"
                  [] txn[w].kind \in {"GRANT", "EXCEPTION"} -> "choosing"
                  [] OTHER -> "writing")
    /\ UNCHANGED txn

DenyActor(w) ==
    /\ pc[w] = "entering" /\ ~Authorised(w)
    /\ Holders(w) = {}
    /\ RollsBack(w)

LockTarget(w) ==
    /\ pc[w] = "locking" /\ account[txn[w].target].state # "ABSENT"
    /\ Locks(w, IF "TI" \in txn[w].roles THEN "writing" ELSE "counting")
    /\ UNCHANGED txn

NoTarget(w) ==
    /\ pc[w] = "locking" /\ account[txn[w].target].state = "ABSENT"
    /\ RollsBack(w)

Count(w) ==
    /\ pc[w] = "counting" /\ ~LastActiveTi(txn[w].target)
    /\ Locks(w, "writing")
    /\ UNCHANGED txn

KeepLast(w) ==
    /\ pc[w] = "counting" /\ LastActiveTi(txn[w].target)
    /\ RollsBack(w)

(* The states in which the statement finds its row (rowcount = 1).         *)
Finds(t) ==
    account[t.target].state \in
        CASE t.kind \in {"DISABLE", "RESET"} -> {"ACTIVE"}
          [] t.kind = "ACTIVATE" -> {"DISABLED"}
          [] t.kind \in {"CREATE", "BOOTSTRAP"} -> {"ABSENT"}
          [] OTHER -> {"ACTIVE", "DISABLED"}

Write(w) ==
    /\ pc[w] = "writing" /\ Finds(txn[w])
    /\ IF txn[w].kind \in {"CREATE", "BOOTSTRAP"}
         THEN Locks(w, "committing") /\ UNCHANGED txn
         ELSE /\ Locks(w, "listing")
              /\ txn' = [txn EXCEPT ![w].impacted = {txn[w].target}]

NoRowFound(w) ==
    /\ pc[w] = "writing" /\ ~Finds(txn[w])
    /\ RollsBack(w)

(* A grant concerns the active accounts of a role, an exception one.       *)
Choose(w) ==
    /\ pc[w] = "choosing"
    /\ Locks(w, "listing")
    /\ txn' = [txn EXCEPT ![w].impacted =
           IF txn[w].kind = "EXCEPTION" THEN {txn[w].target}
           ELSE {a \in Accounts : account[a].state = "ACTIVE"
                                  /\ account[a].roles \cap txn[w].roles # {}}]

(* invalidate_sessions: the sessions to report, the accounts, and whatever *)
(* sessions are open by then.                                              *)
List(w) ==
    /\ pc[w] = "listing"
    /\ Locks(w, "closing")
    /\ txn' = [txn EXCEPT ![w].listed = OpenSessions(txn[w].impacted)]

Close(w) ==
    /\ pc[w] = "closing"
    /\ Locks(w, "committing")
    /\ UNCHANGED txn

LeavesWith(w) ==
    \E v \in Workers \ {w} :
        /\ txn[v].kind = "DISABLE" /\ txn[v].target = Actor(v)
        /\ pc[v] \in {"writing", "listing", "closing", "committing"}

Commit(w) ==
    LET t == txn[w]
    IN  /\ pc[w] = "committing" /\ t.kind \notin {"CREATE", "BOOTSTRAP"}
        /\ account' = [a \in Accounts |->
               IF a \notin t.impacted THEN account[a]
               ELSE LET row == IF a = t.target THEN Rewritten(t, account[a]) ELSE account[a]
                    IN  [row EXCEPT !.av = NextVersion(t, account[a])]]
        /\ session' = [s \in Sessions |->
               IF s \in Closed(t) THEN [session[s] EXCEPT !.state = "INVALIDATED"] ELSE session[s]]
        /\ reported' = reported \cup t.listed
        /\ closedBy' = [s \in Sessions |-> IF s \in Closed(t) THEN t.kind ELSE closedBy[s]]
        /\ overlap' = (overlap \/ (t.kind = "DISABLE" /\ t.target = Actor(w) /\ LeavesWith(w)))
        /\ End(w)
        /\ UNCHANGED <<budget, begun, founded>>

CommitAccount(w) ==
    LET t == txn[w]
    IN  /\ pc[w] = "committing" /\ t.kind \in {"CREATE", "BOOTSTRAP"}
        /\ account' = [account EXCEPT ![t.target] =
               [state |-> "ACTIVE", av |-> 0, roles |-> t.roles, secret |-> 0]]
        /\ founded' = TRUE
        /\ End(w)
        /\ UNCHANGED <<session, budget, reported, closedBy, begun, overlap>>

Answer(w) ==
    /\ pc[w] = "leaving" /\ txn[w].kind = "REQUEST"
    /\ RollsBack(w)

CommitLogout(w) ==
    /\ pc[w] = "leaving" /\ txn[w].kind = "LOGOUT"
    /\ session' = [session EXCEPT ![txn[w].by].state = "LOGGED_OUT"]
    /\ End(w)
    /\ UNCHANGED <<account, budget, reported, history>>

-----------------------------------------------------------------------------
(* Login, refresh and the first administrator *)

(* The client sends the secret that is good when it sends it; the id of    *)
(* the session is new.                                                     *)
Login(w, a, s) ==
    /\ account[a].state # "ABSENT"
    /\ session[s].state = "FREE" /\ \A v \in Workers : txn[v].by # s
    /\ Opens(w, [NoTxn EXCEPT !.kind = "LOGIN", !.by = s, !.target = a,
                             !.number = account[a].secret],
             "verifying")
    /\ UNCHANGED budget

Credentials(w) ==
    LET row == account[txn[w].target]
    IN  row.state = "ACTIVE" /\ row.secret = txn[w].number

Verify(w) ==
    /\ pc[w] = "verifying" /\ Credentials(w)
    /\ Locks(w, "issuing")
    /\ UNCHANGED txn

DenyLogin(w) ==
    /\ pc[w] = "verifying" /\ ~Credentials(w)
    /\ Holders(w) = {}
    /\ RollsBack(w)

Issue(w) ==
    LET a == txn[w].target
        s == txn[w].by
    IN  /\ pc[w] = "issuing"
        /\ session' = [session EXCEPT ![s] =
               [state |-> "ACTIVE", owner |-> a, av |-> account[a].av, token |-> 0,
                expired |-> FALSE]]
        /\ begun' = [begun EXCEPT ![s] = [secret |-> txn[w].number, roles |-> account[a].roles]]
        /\ End(w)
        /\ UNCHANGED <<account, budget, reported, closedBy, founded, overlap>>

Refresh(w, s) ==
    /\ session[s].state # "FREE" /\ budget.changes > 0
    /\ budget' = [budget EXCEPT !.changes = @ - 1]
    /\ Opens(w, [NoTxn EXCEPT !.kind = "REFRESH", !.by = s, !.number = session[s].token], "rotating")

Rotate(w) ==
    /\ pc[w] = "rotating" /\ session[txn[w].by].token = txn[w].number /\ Valid(txn[w].by)
    /\ Locks(w, "rotated")
    /\ UNCHANGED txn

DenyRefresh(w) ==
    /\ pc[w] = "rotating"
    /\ session[txn[w].by].token # txn[w].number \/ ~Valid(txn[w].by)
    /\ Holders(w) = {}
    /\ RollsBack(w)

CommitRefresh(w) ==
    /\ pc[w] = "rotated"
    /\ session' = [session EXCEPT ![txn[w].by].token = @ + 1]
    /\ End(w)
    /\ UNCHANGED <<account, budget, reported, history>>

Bootstrap(w, a) ==
    /\ account[a].state = "ABSENT"
    /\ Opens(w, [NoTxn EXCEPT !.kind = "BOOTSTRAP", !.target = a, !.roles = {"TI"}], "founding")
    /\ UNCHANGED budget

Found(w) ==
    /\ pc[w] = "founding" /\ ActiveTi = {}
    /\ Locks(w, "writing")
    /\ UNCHANGED txn

AlreadyFounded(w) ==
    /\ pc[w] = "founding" /\ ActiveTi # {}
    /\ Holders(w) = {}
    /\ RollsBack(w)

-----------------------------------------------------------------------------
(* What happens around a transaction *)

(* A statement or the process fails and the transaction is rolled back.    *)
Fail(w) ==
    /\ pc[w] # "idle" /\ budget.failures > 0
    /\ budget' = [budget EXCEPT !.failures = @ - 1]
    /\ End(w)
    /\ UNCHANGED <<account, session, reported, history>>

Deadlocked(w) ==
    \E S \in SUBSET Workers : w \in S /\ \A v \in S : Holders(v) \cap S # {}

DeadlockAbort(w) ==
    /\ Deadlocked(w)
    /\ End(w)
    /\ UNCHANGED <<account, session, budget, reported, history>>

(* Eight hours after the login.                                            *)
Expire(s) ==
    /\ session[s].state = "ACTIVE" /\ ~session[s].expired
    /\ session' = [session EXCEPT ![s].expired = TRUE]
    /\ UNCHANGED <<account, lock, pc, txn, budget, reported, history>>

Begins(w) ==
    \/ \E s \in Sessions, kind \in Changes, a \in Accounts, R \in {{}} \cup {{r} : r \in Roles} :
         Administer(w, s, kind, a, R)
    \/ \E s \in Sessions :
         \/ Request(w, s) \/ Logout(w, s) \/ Refresh(w, s)
         \/ \E a \in Accounts : Login(w, a, s)
    \/ \E a \in Accounts : Bootstrap(w, a)

Works(w) ==
    \/ Enter(w) \/ DenyActor(w) \/ LockTarget(w) \/ NoTarget(w) \/ Count(w) \/ KeepLast(w)
    \/ Write(w) \/ NoRowFound(w) \/ Choose(w) \/ List(w) \/ Close(w)
    \/ Commit(w) \/ CommitAccount(w) \/ Answer(w) \/ CommitLogout(w)
    \/ Verify(w) \/ DenyLogin(w) \/ Rotate(w) \/ DenyRefresh(w) \/ CommitRefresh(w)
    \/ Found(w) \/ AlreadyFounded(w)
    \/ Issue(w) \/ DeadlockAbort(w)

Next ==
    \/ \E w \in Workers : Begins(w) \/ Works(w) \/ Fail(w)
    \/ \E s \in Sessions : Expire(s)

Spec == Init /\ [][Next]_vars

-----------------------------------------------------------------------------
(* Properties *)

(* What the check asks of a session, its eight hours aside.                *)
Stands(s) ==
    /\ session[s].state = "ACTIVE" /\ account[session[s].owner].state = "ACTIVE"
    /\ session[s].av = account[session[s].owner].av

(* A session that the check lets through was begun with the present secret *)
(* and roles of its account: whoever changes them closes what was begun    *)
(* before, logins in progress included.                                    *)
ValidSessionIsCurrent ==
    \A s \in Sessions : Valid(s) =>
        /\ begun[s].secret = account[session[s].owner].secret
        /\ begun[s].roles = account[session[s].owner].roles

(* A closed session stays closed, even if its account is activated again,  *)
(* and even if a transaction that had found it open goes on.               *)
ClosedStaysClosed ==
    [][\A s \in Sessions :
         (session[s].state # "FREE" /\ ~Valid(s)) => ~Valid(s)']_vars

(* An administrative change commits while its author is an administrator   *)
(* with an open session, whatever other administrators do meanwhile.       *)
AuthorityAtCommit ==
    [][\A w \in Workers :
         (pc[w] = "committing" /\ pc'[w] = "idle" /\ account' # account
          /\ txn[w].kind \in Changes) =>
             Stands(txn[w].by) /\ "TI" \in account[Actor(w)].roles]_vars

(* A refresh token is exchanged once: the one a transaction exchanges is   *)
(* still the current one when it commits.                                  *)
TokenExchangedOnce ==
    [][\A w \in Workers :
         (pc[w] = "rotated" /\ pc'[w] = "idle" /\ session' # session) =>
            session[txn[w].by].token = txn[w].number /\ Stands(txn[w].by)]_vars

(* Once there was one, an active administrator remains, unless the last    *)
(* ones disable themselves at the same time: the count takes no lock, but  *)
(* whoever changes another account stays locked and active meanwhile.      *)
AdministratorRemains == (founded /\ ~overlap) => ActiveTi # {}

(* The first administrator is created once: bootstraps are serialised and  *)
(* look at what the one before committed.                                  *)
BootstrapOnlyWithout ==
    [][\A w \in Workers :
         (pc[w] = "committing" /\ txn[w].kind = "BOOTSTRAP" /\ account' # account
          /\ pc'[w] = "idle") => ActiveTi = {}]_vars

(* What a transaction read before it wrote still holds when it commits.    *)
GroundHoldsAtCommit == AuthorityAtCommit /\ TokenExchangedOnce /\ BootstrapOnlyWithout

(* The sessions that a change of an account closes are those it reports;   *)
(* a login may come between the two statements only of a change of grants, *)
(* which holds no account when it lists them.                              *)
ClosedIsReported ==
    \A s \in Sessions : session[s].state = "INVALIDATED" =>
        s \in reported \/ closedBy[s] \in {"GRANT", "EXCEPTION"}
=============================================================================
