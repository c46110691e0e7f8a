--------------------------- MODULE SessionsProofs ---------------------------
(***************************************************************************)
(* The inductive invariant of Sessions and the safety properties it gives, *)
(* for any number of workers, accounts, sessions, roles and changes.       *)
(*                                                                         *)
(* The argument.  A transaction that has authorised its author holds the   *)
(* rows of the author to its end (AuthorHeld), and what it closes is held  *)
(* when it commits (ClosedHeld); so nobody takes from another what it read *)
(* (OthersHold).  A login holds its account from the verification on       *)
(* (LoginHeld): no session of an account appears while a change holds the  *)
(* account.  A change raises the version of the accounts it concerns, and  *)
(* a session is never ahead of its account (VersionInv): what was begun    *)
(* before cannot match again.  An administrator who disables himself       *)
(* leaves another one, or the other one leaves with him (Remaining).       *)
(***************************************************************************)
EXTENDS Sessions, TLAPS

USE SessionsConstants

-----------------------------------------------------------------------------
(* The inductive invariant *)

Changing == {"locking", "counting", "writing", "choosing", "listing", "closing", "committing"}
OfAccount == {"DISABLE", "ACTIVATE", "RESET", "ASSIGN"}

(* What kind of transaction is at each place.                              *)
Kinds(place) ==
    CASE place = "idle" -> {"NONE"}
      [] place = "entering" -> Changes \cup {"REQUEST", "LOGOUT"}
      [] place = "locking" -> {"ASSIGN"}
      [] place = "counting" -> {"DISABLE", "ASSIGN"}
      [] place = "writing" -> OfAccount \cup {"CREATE", "BOOTSTRAP"}
      [] place = "choosing" -> {"GRANT", "EXCEPTION"}
      [] place \in {"listing", "closing"} -> OfAccount \cup {"GRANT", "EXCEPTION"}
      [] place = "committing" -> Changes \cup {"BOOTSTRAP"}
      [] place \in {"verifying", "issuing"} -> {"LOGIN"}
      [] place \in {"rotating", "rotated"} -> {"REFRESH"}
      [] place = "leaving" -> {"REQUEST", "LOGOUT"}
      [] OTHER -> {"BOOTSTRAP"}

(* The accounts a transaction names.                                       *)
Shape(w) ==
    /\ txn[w].kind \in Kinds(pc[w])
    /\ txn[w].kind \in Changes \cup {"LOGIN", "BOOTSTRAP"} => txn[w].target \in Accounts
    /\ txn[w].kind = "BOOTSTRAP" => txn[w].roles = {"TI"}
    /\ (txn[w].kind \in OfAccount /\ pc[w] \in {"listing", "closing", "committing"}) =>
          txn[w].impacted = {txn[w].target}

(* A transaction is of a session that exists, a login of one nobody else   *)
(* knows; nobody assigns roles to himself.                                 *)
Subject(w) ==
    /\ txn[w].kind \notin {"NONE", "BOOTSTRAP"} => txn[w].by \in Sessions
    /\ txn[w].kind \in Changes \cup {"REQUEST", "LOGOUT", "REFRESH"} =>
          session[txn[w].by].state # "FREE"
    /\ txn[w].kind = "LOGIN" =>
          /\ session[txn[w].by].state = "FREE"
          /\ \A v \in Workers \ {w} : txn[v].by # txn[w].by
    /\ txn[w].kind = "ASSIGN" => Actor(w) # txn[w].target

(* What a transaction holds, and what it read of it.                       *)
AuthorHeld(w) ==
    (pc[w] \in Changing /\ txn[w].kind \in Changes) =>
        /\ lock[txn[w].by] = w /\ lock[Actor(w)] = w
        /\ Stands(txn[w].by) /\ "TI" \in account[Actor(w)].roles

TargetHeld(w) ==
    (pc[w] \in {"listing", "closing", "committing"} /\ txn[w].kind \in OfAccount) =>
        lock[txn[w].target] = w

NewAccountHeld(w) ==
    (pc[w] = "committing" /\ txn[w].kind \in {"CREATE", "BOOTSTRAP"}) =>
        lock[txn[w].target] = w /\ account[txn[w].target].state = "ABSENT"

ClosedHeld(w) ==
    (pc[w] = "committing" /\ txn[w].kind \notin {"CREATE", "BOOTSTRAP"}) =>
        /\ \A a \in txn[w].impacted : lock[a] = w
        /\ \A s \in OpenSessions(txn[w].impacted) : lock[s] = w

LoginHeld(w) ==
    pc[w] = "issuing" =>
        /\ lock[txn[w].target] = w /\ account[txn[w].target].state = "ACTIVE"
        /\ account[txn[w].target].secret = txn[w].number

TokenHeld(w) ==
    pc[w] = "rotated" =>
        /\ lock[txn[w].by] = w /\ lock[Actor(w)] = w
        /\ session[txn[w].by].token = txn[w].number /\ Stands(txn[w].by)

LogoutHeld(w) == pc[w] = "leaving" => lock[txn[w].by] = w

(* A change of an account has listed whatever it will close.               *)
ListedFirst(w) ==
    (pc[w] \in {"closing", "committing"} /\ txn[w].kind \in OfAccount) =>
        OpenSessions(txn[w].impacted) \subseteq txn[w].listed

Held(w) ==
    /\ AuthorHeld(w) /\ TargetHeld(w) /\ NewAccountHeld(w) /\ ClosedHeld(w)
    /\ LoginHeld(w) /\ TokenHeld(w) /\ LogoutHeld(w) /\ ListedFirst(w)

(* A bootstrap that goes on is alone, and there is no administrator.       *)
Founding(w) ==
    (pc[w] \in {"writing", "committing"} /\ txn[w].kind = "BOOTSTRAP") =>
        lock[Boot] = w /\ ActiveTi = {}

(* Who disables himself leaves another administrator, or left with him.    *)
Remaining(w) ==
    (/\ pc[w] \in {"writing", "listing", "closing", "committing"}
     /\ txn[w].kind = "DISABLE" /\ txn[w].target = Actor(w)) =>
        overlap \/ \E b \in ActiveTi : b # Actor(w)

WorkersInv ==
    \A w \in Workers : Shape(w) /\ Subject(w) /\ Held(w) /\ Founding(w) /\ Remaining(w)

(* A session is of an account that exists and never ahead of it, and one   *)
(* that stands was begun with what the account has now.                    *)
VersionInv ==
    \A s \in Sessions : session[s].state # "FREE" =>
        /\ account[session[s].owner].state # "ABSENT"
        /\ session[s].av \leq account[session[s].owner].av
        /\ Stands(s) =>
              /\ begun[s].secret = account[session[s].owner].secret
              /\ begun[s].roles = account[session[s].owner].roles

IInv == TypeOK /\ WorkersInv /\ VersionInv /\ AdministratorRemains /\ ClosedIsReported

-----------------------------------------------------------------------------
(* Types *)

LEMMA InitType == Init => TypeOK
  <1> SUFFICES ASSUME Init
               PROVE  TypeOK
    OBVIOUS
  <1>1. PICK F \in {{}, Founders} :
          /\ account = [a \in Accounts |-> IF a \in F THEN Administrator ELSE NoRow]
          /\ founded = (F # {})
    BY DEF Init
  <1>2. Administrator \in Account /\ NoRow \in Account /\ FreeSession \in Session
    BY DEF Administrator, NoRow, FreeSession, Account, Session
  <1>3. NoTxn \in Txn /\ Unknown \in [secret : Nat, roles : SUBSET Roles]
    BY DEF NoTxn, Txn, Kind, Unknown
  <1>4. account \in [Accounts -> Account] /\ session \in [Sessions -> Session]
    BY <1>1, <1>2 DEF Init
  <1>5. founded \in BOOLEAN
    BY <1>1, Zenon
  <1>6. \A s \in Sessions : session[s].state = "FREE"
    BY DEF Init, FreeSession
  <1>7. pc \in [Workers -> Where] /\ txn \in [Workers -> Txn] /\ budget \in Budget
    BY <1>3 DEF Init, Where, Budget
  <1> QED
    BY <1>3, <1>4, <1>5, <1>6, <1>7 DEF Init, TypeOK, Kind

(* A transaction that ends leaves only types behind.                       *)
LEMMA EndType ==
  ASSUME TypeOK, NEW w \in Workers, End(w)
  PROVE  /\ pc' \in [Workers -> Where] /\ txn' \in [Workers -> Txn]
         /\ lock' \in [Rows -> Workers \cup {NoWorker}]
  BY DEF TypeOK, End, Where, Txn, NoTxn, Kind

LEMMA LocksType ==
  ASSUME TypeOK, NEW w \in Workers, NEW where \in Where, Locks(w, where)
  PROVE  /\ pc' \in [Workers -> Where]
         /\ lock' \in [Rows -> Workers \cup {NoWorker}]
  BY DEF TypeOK, Locks, Taken

LEMMA OpensType ==
  ASSUME TypeOK, NEW w \in Workers, NEW t \in Txn, NEW where \in Where, Opens(w, t, where)
  PROVE  pc' \in [Workers -> Where] /\ txn' \in [Workers -> Txn]
  BY DEF TypeOK, Opens

LEMMA RewrittenType ==
  ASSUME NEW t \in Txn, NEW row \in Account
  PROVE  /\ Rewritten(t, row) \in Account
         /\ NextVersion(t, row) \in Nat /\ NextVersion(t, row) > row.av
  BY DEF Rewritten, NextVersion, Txn, Account

(* The ways in which the row of a session changes.                         *)
LEMMA SessionRow ==
  ASSUME NEW row \in Session
  PROVE  /\ \A x \in {"FREE", "ACTIVE", "INVALIDATED", "LOGGED_OUT"} :
              /\ [row EXCEPT !.state = x] \in Session
              /\ [row EXCEPT !.state = x].owner = row.owner
              /\ [row EXCEPT !.state = x].av = row.av
              /\ [row EXCEPT !.state = x].token = row.token
              /\ [row EXCEPT !.state = x].state = x
         /\ [row EXCEPT !.token = @ + 1] \in Session
         /\ [row EXCEPT !.token = @ + 1].owner = row.owner
         /\ [row EXCEPT !.expired = TRUE] \in Session
         /\ [row EXCEPT !.expired = TRUE].owner = row.owner
  <1>1. ASSUME NEW x \in {"FREE", "ACTIVE", "INVALIDATED", "LOGGED_OUT"}
        PROVE  [row EXCEPT !.state = x] \in Session
    BY DEF Session
  <1>2. ASSUME NEW x \in {"FREE", "ACTIVE", "INVALIDATED", "LOGGED_OUT"}
        PROVE  /\ [row EXCEPT !.state = x].owner = row.owner
               /\ [row EXCEPT !.state = x].av = row.av
               /\ [row EXCEPT !.state = x].token = row.token
               /\ [row EXCEPT !.state = x].state = x
    BY DEF Session
  <1>3. [row EXCEPT !.token = @ + 1] \in Session /\ [row EXCEPT !.token = @ + 1].owner = row.owner
    BY DEF Session
  <1>4. [row EXCEPT !.expired = TRUE] \in Session /\ [row EXCEPT !.expired = TRUE].owner = row.owner
    BY DEF Session
  <1> QED BY <1>1, <1>2, <1>3, <1>4

LEMMA BeginsType ==
  ASSUME TypeOK, NEW w \in Workers, Begins(w)
  PROVE  TypeOK'
  <1>1. CASE \E s \in Sessions, kind \in Changes, a \in Accounts,
                R \in {{}} \cup {{r} : r \in Roles} : Administer(w, s, kind, a, R)
    <2>1. PICK s \in Sessions, kind \in Changes, a \in Accounts,
               R \in {{}} \cup {{r} : r \in Roles} : Administer(w, s, kind, a, R)
      BY <1>1
    <2>2. [NoTxn EXCEPT !.kind = kind, !.by = s, !.target = a, !.roles = R] \in Txn
      BY DEF NoTxn, Txn, Kind
    <2>3. budget' \in Budget
      BY <2>1 DEF Administer, TypeOK, Budget
    <2>4. pc' \in [Workers -> Where] /\ txn' \in [Workers -> Txn]
      BY <2>1, <2>2, OpensType DEF Administer, Where
    <2> QED
      BY <2>1, <2>3, <2>4 DEF Administer, Opens, TypeOK, history
  <1>2. CASE \E s \in Sessions : Request(w, s) \/ Logout(w, s) \/ Refresh(w, s)
    <2>1. PICK s \in Sessions : Request(w, s) \/ Logout(w, s) \/ Refresh(w, s)
      BY <1>2
    <2>2. session[s].token \in Nat
      BY DEF TypeOK, Session
    <2>3. /\ [NoTxn EXCEPT !.kind = "REQUEST", !.by = s] \in Txn
          /\ [NoTxn EXCEPT !.kind = "LOGOUT", !.by = s] \in Txn
          /\ [NoTxn EXCEPT !.kind = "REFRESH", !.by = s, !.number = session[s].token] \in Txn
      BY <2>2 DEF NoTxn, Txn, Kind
    <2> QED
      BY <2>1, <2>3, OpensType
         DEF Request, Logout, Refresh, Opens, TypeOK, Where, Budget, history
  <1>3. CASE \E s \in Sessions, a \in Accounts : Login(w, a, s)
    <2>1. PICK s \in Sessions, a \in Accounts : Login(w, a, s)
      BY <1>3
    <2>2. account[a].secret \in Nat
      BY DEF TypeOK, Account
    <2>3. [NoTxn EXCEPT !.kind = "LOGIN", !.by = s, !.target = a,
                        !.number = account[a].secret] \in Txn
      BY <2>2 DEF NoTxn, Txn, Kind
    <2> QED
      BY <2>1, <2>3, OpensType DEF Login, Opens, TypeOK, Where, history
  <1>4. CASE \E a \in Accounts : Bootstrap(w, a)
    <2>1. PICK a \in Accounts : Bootstrap(w, a)
      BY <1>4
    <2>2. [NoTxn EXCEPT !.kind = "BOOTSTRAP", !.target = a, !.roles = {"TI"}] \in Txn
      BY DEF NoTxn, Txn, Kind
    <2> QED
      BY <2>1, <2>2, OpensType DEF Bootstrap, Opens, TypeOK, Where, history
  <1> QED
    BY <1>1, <1>2, <1>3, <1>4 DEF Begins

(* The steps that change no account and no session.                        *)
LEMMA LockingType ==
  ASSUME TypeOK, WorkersInv, NEW w \in Workers,
         \/ Enter(w) \/ LockTarget(w) \/ Count(w) \/ Write(w) \/ Choose(w) \/ List(w) \/ Close(w)
         \/ Verify(w) \/ Rotate(w) \/ Found(w)
  PROVE  TypeOK'
  <1>1. PICK where \in Where : Locks(w, where)
    BY DEF Enter, LockTarget, Count, Write, Choose, List, Close, Verify, Rotate, Found, Where
  <1>2. txn' \in [Workers -> Txn]
    <2>1. txn[w] \in Txn
      BY DEF TypeOK
    <2>2. CASE UNCHANGED txn
      BY <2>2 DEF TypeOK
    <2>3. CASE Write(w) /\ txn' = [txn EXCEPT ![w].impacted = {txn[w].target}]
      <3>1. txn[w].target \in Accounts
        <4>1. pc[w] = "writing"
          BY <2>3 DEF Write
        <4>2. txn[w].kind \in OfAccount \cup {"CREATE", "BOOTSTRAP"}
          BY <4>1 DEF WorkersInv, Shape, Kinds
        <4> QED BY <4>2 DEF WorkersInv, Shape, OfAccount, Changes
      <3> QED BY <2>1, <2>3, <3>1 DEF TypeOK, Txn
    <2>4. CASE Choose(w)
      <3>1. txn[w].kind = "EXCEPTION" => txn[w].target \in Accounts
        BY DEF WorkersInv, Shape, Changes
      <3> QED BY <2>1, <2>4, <3>1 DEF Choose, TypeOK, Txn
    <2>5. CASE List(w)
      BY <2>1, <2>5 DEF List, OpenSessions, TypeOK, Txn
    <2> QED
      BY <2>2, <2>3, <2>4, <2>5
         DEF Enter, LockTarget, Count, Write, Close, Verify, Rotate, Found
  <1> QED
    BY <1>1, <1>2, LocksType DEF TypeOK, Locks, history

LEMMA EndingType ==
  ASSUME TypeOK, NEW w \in Workers,
         RollsBack(w) \/ Fail(w) \/ DeadlockAbort(w)
  PROVE  TypeOK'
  <1>1. End(w)
    BY DEF RollsBack, Fail, DeadlockAbort
  <1> QED
    BY <1>1, EndType DEF RollsBack, Fail, DeadlockAbort, TypeOK, Budget, history

LEMMA CommitType ==
  ASSUME TypeOK, WorkersInv, NEW w \in Workers, Commit(w)
  PROVE  TypeOK'
  <1> DEFINE t == txn[w]
  <1>1. t \in Txn
    BY DEF TypeOK
  <1>2. End(w)
    BY DEF Commit
  <1>3. account' \in [Accounts -> Account]
    <2>1. ASSUME NEW a \in Accounts, NEW row \in Account
          PROVE  [row EXCEPT !.av = NextVersion(t, account[a])] \in Account
      BY <1>1, RewrittenType DEF TypeOK, Account
    <2>2. \A a \in Accounts : account[a] \in Account /\ Rewritten(t, account[a]) \in Account
      BY <1>1, RewrittenType DEF TypeOK
    <2> QED BY <2>1, <2>2 DEF Commit
  <1>4. /\ session' \in [Sessions -> Session]
        /\ \A s \in Sessions : session'[s].owner = session[s].owner
                               /\ (session[s].state = "FREE" => session'[s].state = "FREE")
    <2>1. ASSUME NEW s \in Sessions
          PROVE  /\ session[s] \in Session
                 /\ [session[s] EXCEPT !.state = "INVALIDATED"] \in Session
                 /\ [session[s] EXCEPT !.state = "INVALIDATED"].owner = session[s].owner
      BY SessionRow DEF TypeOK
    <2>2. \A s \in Sessions :
             session'[s] \in {session[s], [session[s] EXCEPT !.state = "INVALIDATED"]}
             /\ (session'[s] # session[s] => session[s].state = "ACTIVE")
      BY DEF Commit, Closed, OpenSessions
    <2>3. DOMAIN session' = Sessions /\ session' = [s \in Sessions |-> session'[s]]
      BY DEF Commit
    <2>4. \A s \in Sessions : session'[s] \in Session /\ session'[s].owner = session[s].owner
      BY <2>1, <2>2
    <2>5. session' \in [Sessions -> Session]
      BY <2>3, <2>4
    <2>6. \A s \in Sessions : session[s].state = "FREE" => session'[s].state = "FREE"
      BY <2>2
    <2> QED BY <2>4, <2>5, <2>6
  <1>5. reported' \subseteq Sessions /\ closedBy' \in [Sessions -> Kind]
    BY <1>1 DEF Commit, TypeOK, Txn
  <1>6. overlap' \in BOOLEAN
    BY Zenon DEF Commit
  <1> QED
    BY <1>2, <1>3, <1>4, <1>5, <1>6, EndType DEF Commit, TypeOK

LEMMA FinishingType ==
  ASSUME TypeOK, WorkersInv, NEW w \in Workers,
         CommitAccount(w) \/ CommitLogout(w) \/ Issue(w) \/ CommitRefresh(w)
  PROVE  TypeOK'
  <1>1. End(w) /\ txn[w] \in Txn
    BY DEF CommitAccount, CommitLogout, Issue, CommitRefresh, TypeOK
  <1>2. CASE CommitAccount(w)
    <2>1. [state |-> "ACTIVE", av |-> 0, roles |-> txn[w].roles, secret |-> 0] \in Account
      BY <1>1 DEF Txn, Account
    <2> QED
      BY <1>1, <1>2, <2>1, EndType DEF CommitAccount, TypeOK
  <1>3. CASE CommitLogout(w)
    <2>1. txn[w].by \in Sessions /\ session[txn[w].by].state # "FREE"
      BY <1>3 DEF CommitLogout, WorkersInv, Subject
    <2>2. session' = [session EXCEPT ![txn[w].by] = [session[txn[w].by] EXCEPT !.state = "LOGGED_OUT"]]
      BY <1>3, <2>1 DEF CommitLogout, TypeOK
    <2>3. /\ session[txn[w].by] \in Session
          /\ [session[txn[w].by] EXCEPT !.state = "LOGGED_OUT"] \in Session
          /\ [session[txn[w].by] EXCEPT !.state = "LOGGED_OUT"].owner = session[txn[w].by].owner
      BY <2>1, SessionRow DEF TypeOK
    <2> QED
      BY <1>1, <1>3, <2>1, <2>2, <2>3, EndType DEF CommitLogout, TypeOK, history
  <1>4. CASE Issue(w)
    <2>1. pc[w] = "issuing" => txn[w].kind = "LOGIN" /\ txn[w].target \in Accounts
      BY DEF WorkersInv, Shape, Kinds
    <2>2. txn[w].target \in Accounts /\ account[txn[w].target] \in Account
      BY <1>4, <2>1 DEF Issue, TypeOK
    <2>3. [state |-> "ACTIVE", owner |-> txn[w].target, av |-> account[txn[w].target].av,
           token |-> 0, expired |-> FALSE] \in Session
      BY <2>2 DEF Account, Session
    <2>4. [secret |-> txn[w].number, roles |-> account[txn[w].target].roles]
             \in [secret : Nat, roles : SUBSET Roles]
      BY <1>1, <2>2 DEF Txn, Account
    <2> QED
      BY <1>1, <1>4, <2>2, <2>3, <2>4, EndType DEF Issue, TypeOK
  <1>5. CASE CommitRefresh(w)
    <2>1. txn[w].kind = "REFRESH"
      BY <1>5 DEF CommitRefresh, WorkersInv, Shape, Kinds
    <2>2. txn[w].by \in Sessions /\ session[txn[w].by].state # "FREE"
      BY <2>1 DEF WorkersInv, Subject
    <2>3. session' = [session EXCEPT ![txn[w].by] = [session[txn[w].by] EXCEPT !.token = @ + 1]]
      BY <1>5, <2>2 DEF CommitRefresh, TypeOK
    <2>4. /\ session[txn[w].by] \in Session
          /\ [session[txn[w].by] EXCEPT !.token = @ + 1] \in Session
          /\ [session[txn[w].by] EXCEPT !.token = @ + 1].owner = session[txn[w].by].owner
      BY <2>2, SessionRow DEF TypeOK
    <2> QED
      BY <1>1, <1>5, <2>2, <2>3, <2>4, EndType DEF CommitRefresh, TypeOK, history
  <1> QED
    BY <1>2, <1>3, <1>4, <1>5

LEMMA ExpireType ==
  ASSUME TypeOK, NEW s \in Sessions, Expire(s)
  PROVE  TypeOK'
  <1>1. session' = [session EXCEPT ![s] = [session[s] EXCEPT !.expired = TRUE]]
    BY DEF Expire, TypeOK
  <1>2. session[s] \in Session /\ [session[s] EXCEPT !.expired = TRUE] \in Session
        /\ [session[s] EXCEPT !.expired = TRUE].owner = session[s].owner
    BY SessionRow DEF TypeOK
  <1> QED
    BY <1>1, <1>2 DEF Expire, TypeOK, history

(* The three ways in which a transaction ends without a commit.            *)
LEMMA NoCommit ==
  ASSUME NEW w \in Workers,
         \/ DenyActor(w) \/ NoTarget(w) \/ KeepLast(w) \/ NoRowFound(w) \/ Answer(w)
         \/ DenyLogin(w) \/ DenyRefresh(w) \/ AlreadyFounded(w)
  PROVE  RollsBack(w)
  BY DEF DenyActor, NoTarget, KeepLast, NoRowFound, Answer, DenyLogin, DenyRefresh, AlreadyFounded

-----------------------------------------------------------------------------
(* Row locks *)

(* A worker touches its own transaction only, and no lock of another.      *)
Local(w) ==
    \A v \in Workers \ {w} :
        /\ pc'[v] = pc[v] /\ txn'[v] = txn[v]
        /\ \A r \in Rows : lock[r] = v => lock'[r] = v

LEMMA LocksTaken ==
  ASSUME TypeOK, NEW w \in Workers, NEW where, Locks(w, where)
  PROVE  /\ \A r \in Rows : r \in Needs(w) => lock'[r] = w /\ lock[r] \in {w, NoWorker}
         /\ \A r \in Rows : lock[r] = w => lock'[r] = w
         /\ \A v \in Workers \ {w} : \A r \in Rows : lock[r] = v => lock'[r] = v
         /\ pc'[w] = where
  <1>1. \A r \in Rows : r \in Needs(w) => lock[r] \in {w, NoWorker}
    BY DEF Locks, Holders
  <1>2. \A r \in Rows : lock'[r] = IF r \in Needs(w) THEN w ELSE lock[r]
    BY DEF Locks, Taken
  <1> QED
    BY <1>1, <1>2 DEF Locks, TypeOK

LEMMA LocksLocal ==
  ASSUME TypeOK, NEW w \in Workers, NEW where, Locks(w, where),
         \A v \in Workers \ {w} : txn'[v] = txn[v]
  PROVE  Local(w)
  <1>1. \A v \in Workers \ {w} : pc'[v] = pc[v]
    BY DEF Locks, TypeOK
  <1> QED
    BY <1>1, LocksTaken DEF Local

LEMMA EndLocal ==
  ASSUME TypeOK, NEW w \in Workers, End(w)
  PROVE  Local(w) /\ pc'[w] = "idle" /\ txn'[w] = NoTxn
  BY DEF TypeOK, End, Local

LEMMA OpensLocal ==
  ASSUME TypeOK, NEW w \in Workers, NEW t, NEW where, Opens(w, t, where)
  PROVE  Local(w) /\ pc'[w] = where /\ txn'[w] = t /\ pc[w] = "idle"
  BY DEF TypeOK, Opens, Local

(* An idle worker satisfies what is asked of workers.                      *)
LEMMA IdleWorker ==
  ASSUME TypeOK, NEW w \in Workers, pc'[w] = "idle", txn'[w] = NoTxn
  PROVE  (Shape(w) /\ Subject(w) /\ Held(w) /\ Founding(w) /\ Remaining(w))'
  BY DEF Shape, Subject, Held, Founding, Remaining, NoTxn, Kinds, Changes, OfAccount, Changing,
         AuthorHeld, TargetHeld, NewAccountHeld, ClosedHeld, LoginHeld, TokenHeld, LogoutHeld,
         ListedFirst

-----------------------------------------------------------------------------
(* Steps of others *)

(* What w leaves of the accounts and sessions that another worker holds,   *)
(* and of the sessions that others are about to begin.                     *)
Spares(w) ==
    /\ \A a \in Accounts : lock[a] \in Workers \ {w} => account'[a] = account[a]
    /\ \A s \in Sessions : session[s].state # "FREE" =>
          /\ session'[s].state # "FREE" /\ session'[s].owner = session[s].owner
          /\ lock[s] \in Workers \ {w} =>
                /\ session'[s].state = session[s].state /\ session'[s].av = session[s].av
                /\ session'[s].token = session[s].token
    /\ \A s \in Sessions : session'[s].state = "ACTIVE" =>
          session[s].state = "ACTIVE" \/ lock[session'[s].owner] = w
    /\ \A v \in Workers \ {w} : txn[v].kind = "LOGIN" =>
          session'[txn[v].by].state = "FREE" /\ txn'[w].by # txn[v].by

(* What a worker knows of what it holds is still true after a step of      *)
(* another.                                                                *)
LEMMA OthersHold ==
  ASSUME TypeOK, WorkersInv, NEW w \in Workers, Local(w), Spares(w), NEW v \in Workers \ {w}
  PROVE  (Shape(v) /\ Subject(v) /\ Held(v))'
  <1> v \in Workers /\ v # NoWorker
    OBVIOUS
  <1>1. pc'[v] = pc[v] /\ txn'[v] = txn[v]
    BY DEF Local
  <1>2. \A r \in Rows : lock[r] = v => lock'[r] = v
    BY DEF Local
  <1>3. Shape(v) /\ Subject(v) /\ Held(v)
    BY DEF WorkersInv
  <1>4. Shape(v)'
    BY <1>1, <1>3 DEF Shape
  <1>5. (txn[v].kind \in Changes \cup {"REQUEST", "LOGOUT", "REFRESH"}) =>
           /\ txn[v].by \in Sessions /\ session[txn[v].by].state # "FREE"
           /\ session'[txn[v].by].state # "FREE" /\ Actor(v)' = Actor(v)
           /\ Actor(v) \in Accounts
    <2>1. (txn[v].kind \in Changes \cup {"REQUEST", "LOGOUT", "REFRESH"}) =>
             txn[v].by \in Sessions /\ session[txn[v].by].state # "FREE"
      BY <1>3 DEF Subject, Changes
    <2> QED BY <1>1, <2>1 DEF Spares, Actor, TypeOK
  <1>6. \A a \in Accounts : lock[a] = v => account'[a] = account[a] /\ lock'[a] = v
    BY <1>2 DEF Spares, Rows
  <1>7. \A s \in Sessions : lock[s] = v => lock'[s] = v
    BY <1>2 DEF Rows
  <1>8. \A s \in Sessions : (session[s].state # "FREE" /\ lock[s] = v) =>
           /\ session'[s].state = session[s].state /\ session'[s].av = session[s].av
           /\ session'[s].token = session[s].token
    BY DEF Spares
  <1>9. \A s \in Sessions :
           (/\ txn[v].kind \in Changes \cup {"REFRESH"} /\ s = txn[v].by
            /\ lock[s] = v /\ lock[session[s].owner] = v /\ Stands(s)) => Stands(s)'
    BY <1>5, <1>6, <1>8 DEF Stands, Actor, Spares, TypeOK
  <1>10. Subject(v)'
    <2>1. CASE txn[v].kind = "LOGIN"
      <3>1. \A u \in Workers \ {v} : txn'[u].by # txn[v].by
        BY <1>3, <2>1 DEF Subject, Spares, Local
      <3> QED BY <1>1, <1>3, <2>1, <3>1 DEF Subject, Spares, Changes
    <2>2. CASE txn[v].kind # "LOGIN"
      BY <1>1, <1>3, <1>5, <2>2 DEF Subject, Changes
    <2> QED BY <2>1, <2>2
  <1>11. AuthorHeld(v)'
    BY <1>1, <1>3, <1>5, <1>6, <1>7, <1>9 DEF Held, AuthorHeld, Actor, Changing
  <1>12. TargetHeld(v)'
    BY <1>1, <1>3, <1>6 DEF Held, TargetHeld, Shape, OfAccount, Changes
  <1>13. NewAccountHeld(v)'
    BY <1>1, <1>3, <1>6 DEF Held, NewAccountHeld, Shape, Changes
  <1>14. LoginHeld(v)'
    BY <1>1, <1>3, <1>6 DEF Held, LoginHeld, Shape, Kinds
  <1>15. TokenHeld(v)'
    <2>1. pc[v] = "rotated" => txn[v].kind = "REFRESH"
      BY <1>3 DEF Shape, Kinds
    <2> QED
      BY <1>1, <1>3, <1>5, <1>6, <1>7, <1>8, <1>9, <2>1 DEF Held, TokenHeld, Actor
  <1>16. LogoutHeld(v)'
    <2>1. pc[v] = "leaving" => txn[v].kind \in {"REQUEST", "LOGOUT"}
      BY <1>3 DEF Shape, Kinds
    <2> QED BY <1>1, <1>3, <1>5, <1>7, <2>1 DEF Held, LogoutHeld
  <1>17. ASSUME NEW A \in SUBSET Accounts, \A a \in A : lock[a] = v
         PROVE  OpenSessions(A)' \subseteq OpenSessions(A)
    <2> SUFFICES ASSUME NEW s \in Sessions, session'[s].state = "ACTIVE", session'[s].owner \in A
                 PROVE  session[s].state = "ACTIVE" /\ session[s].owner \in A
      BY DEF OpenSessions
    <2>1. lock[session'[s].owner] # w
      BY <1>17
    <2> QED BY <2>1 DEF Spares
  <1>18. txn[v].impacted \in SUBSET Accounts
    BY DEF TypeOK, Txn
  <1>19. ClosedHeld(v)'
    BY <1>1, <1>3, <1>6, <1>7, <1>17, <1>18 DEF Held, ClosedHeld, OpenSessions
  <1>20. ListedFirst(v)'
    BY <1>1, <1>3, <1>17, <1>18 DEF Held, ListedFirst, TargetHeld, Shape
  <1> QED
    BY <1>4, <1>10, <1>11, <1>12, <1>13, <1>14, <1>15, <1>16, <1>19, <1>20 DEF Held

(* Identifiers that a worker may come to name in a step.                   *)
LEMMA LoginsDiffer ==
  ASSUME TypeOK, WorkersInv, NEW v \in Workers, txn[v].kind = "LOGIN"
  PROVE  /\ txn[v].by \in Sessions /\ txn[v].by # NoSession /\ session[txn[v].by].state = "FREE"
         /\ \A w \in Workers \ {v} : txn[w].by # txn[v].by
  BY DEF WorkersInv, Subject

(* A step that changes no account and no session preserves the invariant   *)
(* once it holds of the worker that takes it.                              *)
LEMMA QuietStep ==
  ASSUME IInv, TypeOK', NEW w \in Workers, Local(w),
         UNCHANGED <<account, session, reported, history>>,
         \A v \in Workers \ {w} : txn[v].kind = "LOGIN" => txn'[w].by # txn[v].by,
         (Shape(w) /\ Subject(w) /\ Held(w) /\ Founding(w) /\ Remaining(w))'
  PROVE  IInv'
  <1>1. Spares(w)
    BY LoginsDiffer DEF Spares, IInv
  <1>2. \A v \in Workers \ {w} : (Shape(v) /\ Subject(v) /\ Held(v))'
    BY <1>1, OthersHold DEF IInv
  <1>3. ActiveTi' = ActiveTi
    BY DEF ActiveTi
  <1>4. \A v \in Workers \ {w} : Founding(v)'
    BY <1>3 DEF IInv, WorkersInv, Founding, Local, Rows
  <1>5. \A v \in Workers \ {w} : Remaining(v)'
    BY <1>3 DEF IInv, WorkersInv, Remaining, Local, Actor, history
  <1>6. WorkersInv'
    BY <1>2, <1>4, <1>5 DEF WorkersInv
  <1>7. VersionInv'
    BY DEF IInv, VersionInv, Stands, history
  <1>8. (AdministratorRemains /\ ClosedIsReported)'
    BY <1>3 DEF IInv, AdministratorRemains, ClosedIsReported, history
  <1> QED
    BY <1>6, <1>7, <1>8 DEF IInv

LEMMA EndingStep ==
  ASSUME IInv, NEW w \in Workers, RollsBack(w) \/ Fail(w) \/ DeadlockAbort(w)
  PROVE  IInv'
  <1>1. End(w) /\ UNCHANGED <<account, session, reported, history>>
    BY DEF RollsBack, Fail, DeadlockAbort
  <1>2. TypeOK'
    BY EndingType DEF IInv
  <1>3. Local(w) /\ pc'[w] = "idle" /\ txn'[w] = NoTxn
    BY <1>1, EndLocal DEF IInv
  <1>4. \A v \in Workers \ {w} : txn[v].kind = "LOGIN" => txn'[w].by # txn[v].by
    BY <1>3, LoginsDiffer DEF IInv, NoTxn
  <1> QED
    BY <1>1, <1>2, <1>3, <1>4, IdleWorker, QuietStep DEF IInv

(* What a transaction that begins knows.                                   *)
LEMMA BeginsStep ==
  ASSUME IInv, NEW w \in Workers, Begins(w)
  PROVE  IInv'
  <1>1. TypeOK'
    BY BeginsType DEF IInv
  <1>2. ASSUME NEW t \in Txn, NEW where \in {"entering", "verifying", "rotating", "founding"},
               Opens(w, t, where),
               t.kind \in Kinds(where),
               t.kind \in Changes \cup {"LOGIN", "BOOTSTRAP"} => t.target \in Accounts,
               t.kind = "BOOTSTRAP" => t.roles = {"TI"} /\ t.by = NoSession,
               t.kind # "BOOTSTRAP" => t.by \in Sessions,
               t.kind \in Changes \cup {"REQUEST", "LOGOUT", "REFRESH"} =>
                  session[t.by].state # "FREE",
               t.kind = "LOGIN" =>
                  session[t.by].state = "FREE" /\ \A v \in Workers : txn[v].by # t.by,
               t.kind = "ASSIGN" => session[t.by].owner # t.target
        PROVE  IInv'
    <2>1. Local(w) /\ pc'[w] = where /\ txn'[w] = t
      BY <1>2, OpensLocal DEF IInv
    <2>2. UNCHANGED <<account, session, reported, history>>
      BY <1>2 DEF Opens
    <2>3. Shape(w)'
      BY <1>2, <2>1 DEF Shape, Kinds
    <2>4. Subject(w)'
      <3>1. t.kind = "LOGIN" => \A v \in Workers \ {w} : txn'[v].by # t.by
        BY <1>2, <2>1 DEF Local
      <3> QED BY <1>2, <2>1, <2>2, <3>1 DEF Subject, Actor
    <2>5. Held(w)' /\ Founding(w)' /\ Remaining(w)'
      BY <2>1 DEF Held, Founding, Remaining, Changing, AuthorHeld, TargetHeld, NewAccountHeld,
                  ClosedHeld, LoginHeld, TokenHeld, LogoutHeld, ListedFirst
    <2>6. t.kind \in Changes \cup {"REQUEST", "LOGOUT", "REFRESH", "LOGIN", "BOOTSTRAP"}
      BY <1>2 DEF Kinds, Changes
    <2>7. \A v \in Workers \ {w} : txn[v].kind = "LOGIN" => txn'[w].by # txn[v].by
      BY <1>2, <2>1, <2>6, LoginsDiffer DEF IInv
    <2> QED
      BY <1>1, <2>1, <2>2, <2>3, <2>4, <2>5, <2>7, QuietStep
  <1>3. CASE \E s \in Sessions, kind \in Changes, a \in Accounts,
                R \in {{}} \cup {{r} : r \in Roles} : Administer(w, s, kind, a, R)
    <2>1. PICK s \in Sessions, kind \in Changes, a \in Accounts,
               R \in {{}} \cup {{r} : r \in Roles} : Administer(w, s, kind, a, R)
      BY <1>3
    <2> DEFINE t == [NoTxn EXCEPT !.kind = kind, !.by = s, !.target = a, !.roles = R]
    <2>2. t \in Txn /\ t.kind = kind /\ t.by = s /\ t.target = a
      BY DEF NoTxn, Txn, Kind
    <2>3. session[s].state # "FREE" /\ (kind = "ASSIGN" => session[s].owner # a)
          /\ Opens(w, t, "entering")
      BY <2>1 DEF Administer, Valid
    <2>4. t.kind \in Kinds("entering") /\ t.kind \notin {"LOGIN", "BOOTSTRAP"}
      BY <2>2 DEF Kinds, Changes
    <2> HIDE DEF t
    <2> QED
      BY <1>2, <2>2, <2>3, <2>4
  <1>4. CASE \E s \in Sessions : Request(w, s) \/ Logout(w, s) \/ Refresh(w, s)
    <2>1. PICK s \in Sessions : Request(w, s) \/ Logout(w, s) \/ Refresh(w, s)
      BY <1>4
    <2>2. session[s].state # "FREE" /\ session[s].token \in Nat
      BY <2>1 DEF Request, Logout, Refresh, Valid, IInv, TypeOK, Session
    <2> DEFINE q == [NoTxn EXCEPT !.kind = "REQUEST", !.by = s]
               l == [NoTxn EXCEPT !.kind = "LOGOUT", !.by = s]
               f == [NoTxn EXCEPT !.kind = "REFRESH", !.by = s, !.number = session[s].token]
    <2>3. /\ q \in Txn /\ q.kind = "REQUEST" /\ q.by = s
          /\ l \in Txn /\ l.kind = "LOGOUT" /\ l.by = s
          /\ f \in Txn /\ f.kind = "REFRESH" /\ f.by = s
      BY <2>2 DEF NoTxn, Txn, Kind
    <2>4. Opens(w, q, "entering") \/ Opens(w, l, "entering") \/ Opens(w, f, "rotating")
      BY <2>1 DEF Request, Logout, Refresh
    <2>5. q.kind \in Kinds("entering") /\ l.kind \in Kinds("entering") /\ f.kind \in Kinds("rotating")
      BY <2>3 DEF Kinds
    <2> HIDE DEF q, l, f
    <2>6. CASE Opens(w, q, "entering")
      BY <1>2, <2>2, <2>3, <2>5, <2>6 DEF Changes
    <2>7. CASE Opens(w, l, "entering")
      BY <1>2, <2>2, <2>3, <2>5, <2>7 DEF Changes
    <2>8. CASE Opens(w, f, "rotating")
      BY <1>2, <2>2, <2>3, <2>5, <2>8 DEF Changes
    <2> QED
      BY <2>4, <2>6, <2>7, <2>8
  <1>5. CASE \E s \in Sessions, a \in Accounts : Login(w, a, s)
    <2>1. PICK s \in Sessions, a \in Accounts : Login(w, a, s)
      BY <1>5
    <2> DEFINE t == [NoTxn EXCEPT !.kind = "LOGIN", !.by = s, !.target = a,
                                  !.number = account[a].secret]
    <2>2. account[a].secret \in Nat
      BY DEF IInv, TypeOK, Account
    <2>3. t \in Txn /\ t.kind = "LOGIN" /\ t.by = s /\ t.target = a
      BY <2>2 DEF NoTxn, Txn, Kind
    <2>4. session[s].state = "FREE" /\ (\A v \in Workers : txn[v].by # s) /\ Opens(w, t, "verifying")
      BY <2>1 DEF Login
    <2>5. t.kind \in Kinds("verifying")
      BY <2>3 DEF Kinds
    <2> HIDE DEF t
    <2> QED
      BY <1>2, <2>3, <2>4, <2>5 DEF Changes
  <1>6. CASE \E a \in Accounts : Bootstrap(w, a)
    <2>1. PICK a \in Accounts : Bootstrap(w, a)
      BY <1>6
    <2> DEFINE t == [NoTxn EXCEPT !.kind = "BOOTSTRAP", !.target = a, !.roles = {"TI"}]
    <2>2. t \in Txn /\ t.kind = "BOOTSTRAP" /\ t.by = NoSession /\ t.target = a /\ t.roles = {"TI"}
      BY DEF NoTxn, Txn, Kind
    <2>3. Opens(w, t, "founding")
      BY <2>1 DEF Bootstrap
    <2>4. t.kind \in Kinds("founding")
      BY <2>2 DEF Kinds
    <2> HIDE DEF t
    <2> QED
      BY <1>2, <2>2, <2>3, <2>4 DEF Changes
  <1> QED
    BY <1>3, <1>4, <1>5, <1>6 DEF Begins

-----------------------------------------------------------------------------
(* Statements that lock *)

(* A statement that locks rows preserves the invariant once it holds of    *)
(* the worker whose statement it is.                                       *)
LEMMA LockingStep ==
  ASSUME IInv, NEW w \in Workers, NEW where, Locks(w, where), TypeOK',
         \A v \in Workers \ {w} : txn'[v] = txn[v],
         txn'[w].by = txn[w].by,
         (Shape(w) /\ Subject(w) /\ Held(w) /\ Founding(w) /\ Remaining(w))'
  PROVE  IInv'
  <1>1. Local(w)
    BY LocksLocal DEF IInv
  <1>2. \A v \in Workers \ {w} : txn[v].kind = "LOGIN" => txn'[w].by # txn[v].by
    BY LoginsDiffer DEF IInv
  <1> QED
    BY <1>1, <1>2, QuietStep DEF Locks

(* What the worker itself keeps: its subject, the rows it has locked and   *)
(* the author it has authorised.                                           *)
LEMMA OwnKept ==
  ASSUME IInv, NEW w \in Workers, NEW where, Locks(w, where),
         \A v \in Workers \ {w} : txn'[v] = txn[v],
         txn'[w].by = txn[w].by, txn'[w].kind = txn[w].kind,
         txn'[w].target = txn[w].target, txn'[w].roles = txn[w].roles
  PROVE  /\ pc'[w] = where /\ Subject(w)'
         /\ \A r \in Rows : lock[r] = w => lock'[r] = w
         /\ \A r \in Rows : r \in Needs(w) => lock'[r] = w
         /\ (pc[w] \in Changing /\ txn[w].kind \in Changes) => AuthorHeld(w)'
  <1>1. /\ pc'[w] = where
        /\ \A r \in Rows : lock[r] = w => lock'[r] = w
        /\ \A r \in Rows : r \in Needs(w) => lock'[r] = w
    BY LocksTaken DEF IInv
  <1>2. Subject(w)'
    BY DEF IInv, WorkersInv, Subject, Locks, Actor
  <1>3. ASSUME pc[w] \in Changing, txn[w].kind \in Changes
        PROVE  AuthorHeld(w)'
    <2>1. txn[w].by \in Sessions /\ session[txn[w].by].state # "FREE"
      BY <1>3 DEF IInv, WorkersInv, Subject, Changes
    <2>2. Actor(w) \in Accounts
      BY <2>1 DEF Actor, IInv, TypeOK
    <2>3. AuthorHeld(w)
      BY DEF IInv, WorkersInv, Held
    <2> QED
      BY <1>1, <1>3, <2>1, <2>2, <2>3 DEF AuthorHeld, Actor, Locks, Stands, Rows
  <1> QED
    BY <1>1, <1>2, <1>3

LEMMA EnterStep ==
  ASSUME IInv, NEW w \in Workers, Enter(w)
  PROVE  IInv'
  <1>1. PICK where \in {"leaving", "counting", "locking", "choosing", "writing"} :
           /\ Locks(w, where)
           /\ txn[w].kind \in {"REQUEST", "LOGOUT"} <=> where = "leaving"
           /\ txn[w].kind = "DISABLE" <=> where = "counting"
           /\ txn[w].kind = "ASSIGN" <=> where = "locking"
           /\ txn[w].kind \in {"GRANT", "EXCEPTION"} <=> where = "choosing"
    BY DEF Enter
  <1>2. UNCHANGED txn /\ pc[w] = "entering" /\ Authorised(w)
    BY DEF Enter
  <1>3. TypeOK'
    BY LockingType DEF IInv
  <1>4. txn[w].kind \in Changes \cup {"REQUEST", "LOGOUT"}
    BY <1>2 DEF IInv, WorkersInv, Shape, Kinds
  <1>5. txn[w].by \in Sessions /\ session[txn[w].by].state # "FREE" /\ Actor(w) \in Accounts
    BY <1>4 DEF IInv, WorkersInv, Subject, TypeOK, Actor, Changes
  <1>6. pc'[w] = where /\ Subject(w)' /\ (\A r \in Rows : r \in Needs(w) => lock'[r] = w)
    BY <1>1, <1>2, OwnKept
  <1>7. lock'[txn[w].by] = w /\ lock'[Actor(w)] = w
    BY <1>2, <1>5, <1>6 DEF Needs, PrincipalRows, Rows
  <1>8. Shape(w)'
    BY <1>1, <1>2, <1>4, <1>6 DEF IInv, WorkersInv, Shape, Kinds, OfAccount, Changes
  <1>9. AuthorHeld(w)'
    BY <1>1, <1>2, <1>7 DEF AuthorHeld, Actor, Authorised, Valid, Stands, Locks
  <1>10. Held(w)'
    BY <1>2, <1>6, <1>7, <1>9 DEF Held, TargetHeld, NewAccountHeld,
       ClosedHeld, LoginHeld, TokenHeld, LogoutHeld, ListedFirst
  <1>11. Founding(w)' /\ Remaining(w)'
    BY <1>1, <1>2, <1>4, <1>6 DEF Founding, Remaining, Changes
  <1> QED
    BY <1>1, <1>2, <1>3, <1>6, <1>8, <1>10, <1>11, LockingStep

LEMMA LockTargetStep ==
  ASSUME IInv, NEW w \in Workers, LockTarget(w)
  PROVE  IInv'
  <1>1. PICK where \in {"writing", "counting"} : Locks(w, where)
    BY DEF LockTarget
  <1>2. UNCHANGED txn /\ pc[w] = "locking"
    BY DEF LockTarget
  <1>3. TypeOK'
    BY LockingType DEF IInv
  <1>4. txn[w].kind = "ASSIGN"
    BY <1>2 DEF IInv, WorkersInv, Shape, Kinds
  <1>5. pc'[w] = where /\ Subject(w)' /\ AuthorHeld(w)'
    BY <1>1, <1>2, <1>4, OwnKept DEF Changing, Changes
  <1>6. Shape(w)'
    BY <1>2, <1>4, <1>5 DEF IInv, WorkersInv, Shape, Kinds, OfAccount, Changes
  <1>7. Held(w)' /\ Founding(w)' /\ Remaining(w)'
    BY <1>2, <1>4, <1>5 DEF Held, TargetHeld, NewAccountHeld,
       ClosedHeld, LoginHeld, TokenHeld, LogoutHeld, ListedFirst, Founding, Remaining
  <1> QED
    BY <1>1, <1>2, <1>3, <1>5, <1>6, <1>7, LockingStep

(* Who counts himself and goes on has seen another administrator.          *)
LEMMA CountStep ==
  ASSUME IInv, NEW w \in Workers, Count(w)
  PROVE  IInv'
  <1>1. Locks(w, "writing") /\ UNCHANGED txn /\ pc[w] = "counting" /\ ~LastActiveTi(txn[w].target)
    BY DEF Count
  <1>2. TypeOK'
    BY LockingType DEF IInv
  <1>3. txn[w].kind \in {"DISABLE", "ASSIGN"}
    BY <1>1 DEF IInv, WorkersInv, Shape, Kinds
  <1>4. pc'[w] = "writing" /\ Subject(w)' /\ AuthorHeld(w)'
    BY <1>1, <1>3, OwnKept DEF Changing, Changes
  <1>5. Shape(w)'
    BY <1>1, <1>3, <1>4 DEF IInv, WorkersInv, Shape, Kinds, OfAccount, Changes
  <1>6. Held(w)' /\ Founding(w)'
    BY <1>1, <1>3, <1>4 DEF Held, TargetHeld, NewAccountHeld,
       ClosedHeld, LoginHeld, TokenHeld, LogoutHeld, ListedFirst, Founding
  <1>7. Remaining(w)'
    <2> SUFFICES ASSUME txn[w].target = Actor(w)
                 PROVE  \E b \in ActiveTi : b # Actor(w)
      BY <1>1 DEF Remaining, Locks, Actor, ActiveTi
    <2>1. AuthorHeld(w) /\ txn[w].kind \in Changes
      BY <1>3 DEF IInv, WorkersInv, Held, Changes
    <2>2. Stands(txn[w].by) /\ "TI" \in account[Actor(w)].roles
      BY <1>1, <2>1 DEF AuthorHeld, Changing
    <2>3. Actor(w) \in Accounts
      BY <2>1 DEF IInv, WorkersInv, Shape
    <2>4. Actor(w) \in ActiveTi
      BY <2>2, <2>3 DEF Stands, ActiveTi, Actor
    <2>5. ActiveTi # {Actor(w)}
      BY <1>1, <2>2, <2>3 DEF LastActiveTi
    <2> QED BY <2>4, <2>5
  <1> QED
    BY <1>1, <1>2, <1>4, <1>5, <1>6, <1>7, LockingStep

LEMMA WriteStep ==
  ASSUME IInv, NEW w \in Workers, Write(w)
  PROVE  IInv'
  <1>1. pc[w] = "writing" /\ Finds(txn[w]) /\ TypeOK'
    BY LockingType DEF Write, IInv
  <1>2. txn[w].kind \in OfAccount \cup {"CREATE", "BOOTSTRAP"} /\ txn[w].target \in Accounts
    BY <1>1 DEF IInv, WorkersInv, Shape, Kinds, OfAccount, Changes
  <1>3. CASE txn[w].kind \in {"CREATE", "BOOTSTRAP"}
    <2>1. Locks(w, "committing") /\ UNCHANGED txn
      BY <1>3 DEF Write
    <2>2. /\ pc'[w] = "committing" /\ Subject(w)'
          /\ \A r \in Rows : lock[r] = w => lock'[r] = w
          /\ \A r \in Rows : r \in Needs(w) => lock'[r] = w
      BY <2>1, OwnKept
    <2>3. txn[w].kind = "CREATE" => AuthorHeld(w)'
      BY <1>1, <2>1, OwnKept DEF Changing, Changes
    <2>4. AuthorHeld(w)'
      BY <1>3, <2>1, <2>3 DEF AuthorHeld, Changes
    <2>5. lock'[txn[w].target] = w
      BY <1>1, <1>2, <2>2 DEF Needs, TargetRow, Rows
    <2>6. NewAccountHeld(w)'
      BY <1>1, <1>3, <2>1, <2>5 DEF NewAccountHeld, Finds, Locks
    <2>7. Held(w)'
      BY <1>3, <2>1, <2>2, <2>4, <2>6 DEF Held, TargetHeld, OfAccount,
         ClosedHeld, LoginHeld, TokenHeld, LogoutHeld, ListedFirst
    <2>8. Founding(w)'
      BY <1>1, <2>1, <2>2 DEF IInv, WorkersInv, Founding, Rows, ActiveTi, Locks
    <2>9. Shape(w)' /\ Remaining(w)'
      BY <1>2, <1>3, <2>1, <2>2 DEF IInv, WorkersInv, Shape, Kinds, OfAccount, Changes, Remaining
    <2> QED
      BY <1>1, <2>1, <2>2, <2>7, <2>8, <2>9, LockingStep
  <1>4. CASE txn[w].kind \in OfAccount
    <2>1. Locks(w, "listing") /\ txn' = [txn EXCEPT ![w].impacted = {txn[w].target}]
      BY <1>4 DEF Write, OfAccount
    <2>2. txn[w] \in Txn
      BY DEF IInv, TypeOK
    <2>3. /\ txn'[w].by = txn[w].by /\ txn'[w].kind = txn[w].kind
          /\ txn'[w].target = txn[w].target /\ txn'[w].roles = txn[w].roles
          /\ txn'[w].impacted = {txn[w].target}
          /\ \A v \in Workers \ {w} : txn'[v] = txn[v]
      BY <2>1, <2>2 DEF IInv, TypeOK, Txn
    <2>4. /\ pc'[w] = "listing" /\ Subject(w)'
          /\ \A r \in Rows : r \in Needs(w) => lock'[r] = w
      BY <2>1, <2>3, OwnKept
    <2>5. AuthorHeld(w)'
      BY <1>1, <1>4, <2>1, <2>3, OwnKept DEF Changing, Changes, OfAccount
    <2>6. lock'[txn[w].target] = w
      BY <1>1, <1>2, <2>4 DEF Needs, TargetRow, Rows
    <2>7. Held(w)'
      BY <2>3, <2>4, <2>5, <2>6 DEF Held, TargetHeld, NewAccountHeld,
         ClosedHeld, LoginHeld, TokenHeld, LogoutHeld, ListedFirst
    <2>8. Shape(w)' /\ Founding(w)'
      BY <1>2, <1>4, <2>3, <2>4 DEF IInv, WorkersInv, Shape, Kinds, OfAccount, Changes, Founding
    <2>9. Remaining(w)'
      BY <1>1, <2>1, <2>3 DEF IInv, WorkersInv, Remaining, Actor, ActiveTi, Locks, history
    <2> QED
      BY <1>1, <2>1, <2>3, <2>4, <2>7, <2>8, <2>9, LockingStep
  <1> QED
    BY <1>2, <1>3, <1>4

LEMMA ChooseStep ==
  ASSUME IInv, NEW w \in Workers, Choose(w)
  PROVE  IInv'
  <1>1. pc[w] = "choosing" /\ Locks(w, "listing") /\ TypeOK'
    BY LockingType DEF Choose, IInv
  <1>2. txn[w].kind \in {"GRANT", "EXCEPTION"}
    BY <1>1 DEF IInv, WorkersInv, Shape, Kinds
  <1>3. txn[w] \in Txn
    BY DEF IInv, TypeOK
  <1>4. /\ txn'[w].by = txn[w].by /\ txn'[w].kind = txn[w].kind
        /\ txn'[w].target = txn[w].target /\ txn'[w].roles = txn[w].roles
        /\ \A v \in Workers \ {w} : txn'[v] = txn[v]
    BY <1>3 DEF IInv, TypeOK, Txn, Choose
  <1>5. pc'[w] = "listing" /\ Subject(w)' /\ AuthorHeld(w)'
    BY <1>1, <1>2, <1>4, OwnKept DEF Changing, Changes
  <1>6. Held(w)' /\ Shape(w)' /\ Founding(w)' /\ Remaining(w)'
    BY <1>2, <1>4, <1>5 DEF Held, TargetHeld, NewAccountHeld, OfAccount, IInv, WorkersInv,
       ClosedHeld, LoginHeld, TokenHeld, LogoutHeld, ListedFirst, Shape, Kinds, Changes,
       Founding, Remaining
  <1> QED
    BY <1>1, <1>4, <1>5, <1>6, LockingStep

LEMMA ListStep ==
  ASSUME IInv, NEW w \in Workers, List(w)
  PROVE  IInv'
  <1>1. pc[w] = "listing" /\ Locks(w, "closing") /\ TypeOK'
    BY LockingType DEF List, IInv
  <1>2. txn[w].kind \in OfAccount \cup {"GRANT", "EXCEPTION"} /\ txn[w].target \in Accounts
    BY <1>1 DEF IInv, WorkersInv, Shape, Kinds, Changes, OfAccount
  <1>3. txn[w] \in Txn
    BY DEF IInv, TypeOK
  <1>4. /\ txn'[w].by = txn[w].by /\ txn'[w].kind = txn[w].kind
        /\ txn'[w].target = txn[w].target /\ txn'[w].roles = txn[w].roles
        /\ txn'[w].impacted = txn[w].impacted
        /\ txn'[w].listed = OpenSessions(txn[w].impacted)
        /\ \A v \in Workers \ {w} : txn'[v] = txn[v]
    BY <1>3 DEF IInv, TypeOK, Txn, List
  <1>5. /\ pc'[w] = "closing" /\ Subject(w)' /\ AuthorHeld(w)'
        /\ \A r \in Rows : lock[r] = w => lock'[r] = w
    BY <1>1, <1>2, <1>4, OwnKept DEF Changing, Changes, OfAccount
  <1>6. TargetHeld(w)'
    BY <1>1, <1>2, <1>4, <1>5 DEF TargetHeld, IInv, WorkersInv, Held, Rows
  <1>7. ListedFirst(w)'
    BY <1>1, <1>4 DEF ListedFirst, OpenSessions, Locks
  <1>8. Held(w)'
    BY <1>5, <1>6, <1>7 DEF Held, NewAccountHeld, ClosedHeld, LoginHeld, TokenHeld, LogoutHeld
  <1>9. Shape(w)' /\ Founding(w)'
    BY <1>1, <1>2, <1>4, <1>5 DEF IInv, WorkersInv, Shape, Kinds, OfAccount, Changes, Founding
  <1>10. Remaining(w)'
    BY <1>1, <1>4 DEF IInv, WorkersInv, Remaining, Actor, ActiveTi, Locks, history
  <1> QED
    BY <1>1, <1>4, <1>5, <1>8, <1>9, <1>10, LockingStep

LEMMA CloseStep ==
  ASSUME IInv, NEW w \in Workers, Close(w)
  PROVE  IInv'
  <1>1. pc[w] = "closing" /\ Locks(w, "committing") /\ TypeOK' /\ UNCHANGED txn
    BY LockingType DEF Close, IInv
  <1>2. txn[w].kind \in OfAccount \cup {"GRANT", "EXCEPTION"} /\ txn[w].target \in Accounts
    BY <1>1 DEF IInv, WorkersInv, Shape, Kinds, Changes, OfAccount
  <1>3. txn[w].impacted \subseteq Accounts
    BY DEF IInv, TypeOK, Txn
  <1>4. /\ pc'[w] = "committing" /\ Subject(w)' /\ AuthorHeld(w)'
        /\ \A r \in Rows : lock[r] = w => lock'[r] = w
        /\ \A r \in Rows : r \in Needs(w) => lock'[r] = w
    BY <1>1, <1>2, OwnKept DEF Changing, Changes, OfAccount
  <1>5. Needs(w) = txn[w].impacted \cup OpenSessions(txn[w].impacted)
    BY <1>1 DEF Needs
  <1>6. ClosedHeld(w)'
    BY <1>1, <1>3, <1>4, <1>5 DEF ClosedHeld, OpenSessions, Rows, Locks
  <1>7. TargetHeld(w)'
    BY <1>1, <1>2, <1>4 DEF TargetHeld, IInv, WorkersInv, Held, Rows
  <1>8. ListedFirst(w)'
    BY <1>1 DEF ListedFirst, OpenSessions, Locks, IInv, WorkersInv, Held
  <1>9. Held(w)'
    BY <1>1, <1>2, <1>4, <1>6, <1>7, <1>8
       DEF Held, NewAccountHeld, LoginHeld, TokenHeld, LogoutHeld, OfAccount
  <1>10. Shape(w)' /\ Founding(w)'
    BY <1>1, <1>2, <1>4 DEF IInv, WorkersInv, Shape, Kinds, OfAccount, Changes, Founding
  <1>11. Remaining(w)'
    BY <1>1 DEF IInv, WorkersInv, Remaining, Actor, ActiveTi, Locks, history
  <1> QED
    BY <1>1, <1>4, <1>9, <1>10, <1>11, LockingStep

LEMMA VerifyStep ==
  ASSUME IInv, NEW w \in Workers, Verify(w)
  PROVE  IInv'
  <1>1. pc[w] = "verifying" /\ Locks(w, "issuing") /\ TypeOK' /\ UNCHANGED txn /\ Credentials(w)
    BY LockingType DEF Verify, IInv
  <1>2. txn[w].kind = "LOGIN" /\ txn[w].target \in Accounts
    BY <1>1 DEF IInv, WorkersInv, Shape, Kinds
  <1>3. /\ pc'[w] = "issuing" /\ Subject(w)'
        /\ \A r \in Rows : r \in Needs(w) => lock'[r] = w
    BY <1>1, OwnKept
  <1>4. lock'[txn[w].target] = w
    BY <1>1, <1>2, <1>3 DEF Needs, Rows
  <1>5. LoginHeld(w)'
    BY <1>1, <1>4 DEF LoginHeld, Credentials, Locks
  <1>6. Held(w)' /\ Shape(w)' /\ Founding(w)' /\ Remaining(w)'
    BY <1>1, <1>2, <1>3, <1>5 DEF Held, AuthorHeld, TargetHeld, NewAccountHeld, OfAccount, IInv,
       ClosedHeld, TokenHeld, LogoutHeld, ListedFirst, Shape, Kinds, Changes, Changing,
       Founding, Remaining
  <1> QED
    BY <1>1, <1>3, <1>6, LockingStep

LEMMA RotateStep ==
  ASSUME IInv, NEW w \in Workers, Rotate(w)
  PROVE  IInv'
  <1>1. /\ pc[w] = "rotating" /\ Locks(w, "rotated") /\ TypeOK' /\ UNCHANGED txn
        /\ session[txn[w].by].token = txn[w].number /\ Valid(txn[w].by)
    BY LockingType DEF Rotate, IInv
  <1>2. txn[w].kind = "REFRESH"
    BY <1>1 DEF IInv, WorkersInv, Shape, Kinds
  <1>3. txn[w].by \in Sessions /\ Actor(w) \in Accounts
    BY <1>2 DEF IInv, WorkersInv, Subject, TypeOK, Actor
  <1>4. /\ pc'[w] = "rotated" /\ Subject(w)'
        /\ \A r \in Rows : r \in Needs(w) => lock'[r] = w
    BY <1>1, OwnKept
  <1>5. lock'[txn[w].by] = w /\ lock'[Actor(w)] = w
    BY <1>1, <1>3, <1>4 DEF Needs, TokenRows, Rows
  <1>6. TokenHeld(w)'
    BY <1>1, <1>5 DEF TokenHeld, Actor, Stands, Valid, Locks
  <1>7. Held(w)' /\ Shape(w)' /\ Founding(w)' /\ Remaining(w)'
    BY <1>1, <1>2, <1>4, <1>6 DEF Held, AuthorHeld, TargetHeld, NewAccountHeld, OfAccount, IInv,
       ClosedHeld, LoginHeld, LogoutHeld, ListedFirst, Shape, Kinds, Changes, Changing,
       Founding, Remaining
  <1> QED
    BY <1>1, <1>4, <1>7, LockingStep

LEMMA FoundStep ==
  ASSUME IInv, NEW w \in Workers, Found(w)
  PROVE  IInv'
  <1>1. /\ pc[w] = "founding" /\ Locks(w, "writing") /\ TypeOK' /\ UNCHANGED txn
        /\ ActiveTi = {}
    BY LockingType DEF Found, IInv
  <1>2. txn[w].kind = "BOOTSTRAP"
    BY <1>1 DEF IInv, WorkersInv, Shape, Kinds
  <1>3. /\ pc'[w] = "writing" /\ Subject(w)'
        /\ \A r \in Rows : r \in Needs(w) => lock'[r] = w
    BY <1>1, OwnKept
  <1>4. Founding(w)'
    BY <1>1, <1>3 DEF Founding, Needs, AdvisoryLock, Rows, ActiveTi, Locks
  <1>5. Held(w)' /\ Shape(w)' /\ Remaining(w)'
    BY <1>1, <1>2, <1>3 DEF Held, AuthorHeld, TargetHeld, NewAccountHeld, OfAccount, IInv,
       ClosedHeld, LoginHeld, TokenHeld, LogoutHeld, ListedFirst, Shape, Kinds, Changes, Changing,
       WorkersInv, Remaining
  <1> QED
    BY <1>1, <1>3, <1>4, <1>5, LockingStep

-----------------------------------------------------------------------------
(* Steps that change an account or a session *)

(* A commit preserves the invariant if it spares the others, and the facts *)
(* about all of the state.                                                 *)
LEMMA CommittingStep ==
  ASSUME IInv, TypeOK', NEW w \in Workers, End(w), Spares(w),
         VersionInv', AdministratorRemains', ClosedIsReported',
         \A v \in Workers \ {w} : Founding(v)' /\ Remaining(v)'
  PROVE  IInv'
  <1>1. Local(w) /\ pc'[w] = "idle" /\ txn'[w] = NoTxn
    BY EndLocal DEF IInv
  <1>2. \A v \in Workers \ {w} : (Shape(v) /\ Subject(v) /\ Held(v))'
    BY <1>1, OthersHold DEF IInv
  <1>3. (Shape(w) /\ Subject(w) /\ Held(w) /\ Founding(w) /\ Remaining(w))'
    BY <1>1, IdleWorker DEF IInv
  <1>4. WorkersInv'
    BY <1>2, <1>3 DEF WorkersInv
  <1> QED
    BY <1>4 DEF IInv

(* While a change goes on there is an administrator, its author, whom      *)
(* nobody else holds.                                                      *)
LEMMA AuthorStands ==
  ASSUME IInv, NEW w \in Workers, pc[w] \in Changing, txn[w].kind \in Changes
  PROVE  /\ txn[w].by \in Sessions /\ Actor(w) \in Accounts
         /\ Actor(w) \in ActiveTi /\ lock[Actor(w)] = w /\ lock[txn[w].by] = w
         /\ Stands(txn[w].by) /\ "TI" \in account[Actor(w)].roles
  <1>1. txn[w].by \in Sessions /\ session[txn[w].by].state # "FREE" /\ AuthorHeld(w)
    BY DEF IInv, WorkersInv, Subject, Held, Changes
  <1>2. Actor(w) \in Accounts
    BY <1>1 DEF IInv, TypeOK, Actor
  <1> QED
    BY <1>1, <1>2 DEF AuthorHeld, ActiveTi, Stands, Actor

LEMMA CommitAccountStep ==
  ASSUME IInv, NEW w \in Workers, CommitAccount(w)
  PROVE  IInv'
  <1> DEFINE a == txn[w].target
  <1>1. /\ pc[w] = "committing" /\ txn[w].kind \in {"CREATE", "BOOTSTRAP"} /\ End(w)
        /\ account' = [account EXCEPT ![a] =
               [state |-> "ACTIVE", av |-> 0, roles |-> txn[w].roles, secret |-> 0]]
        /\ UNCHANGED <<session, reported, closedBy, begun, overlap>> /\ TypeOK'
    BY FinishingType DEF CommitAccount, IInv
  <1>2. a \in Accounts /\ lock[a] = w /\ account[a].state = "ABSENT"
    BY <1>1 DEF IInv, WorkersInv, Shape, Held, NewAccountHeld, Changes
  <1>3. \A b \in Accounts \ {a} : account'[b] = account[b]
    BY <1>1, <1>2 DEF IInv, TypeOK
  <1>4. account'[a].state = "ACTIVE" /\ account'[a].roles = txn[w].roles
    BY <1>1, <1>2 DEF IInv, TypeOK
  <1>5. \A s \in Sessions : session[s].state # "FREE" =>
           session[s].owner \in Accounts \ {a}
    BY <1>2 DEF IInv, VersionInv, TypeOK
  <1>6. Spares(w)
    <2>1. txn'[w].by = NoSession
      BY <1>1, EndLocal DEF IInv, NoTxn
    <2> QED BY <1>1, <1>2, <1>3, <2>1, LoginsDiffer DEF Spares, IInv
  <1>7. VersionInv'
    BY <1>1, <1>3, <1>5 DEF IInv, VersionInv, Stands
  <1>8. ActiveTi \subseteq ActiveTi'
    BY <1>2, <1>3 DEF ActiveTi
  <1>9. AdministratorRemains'
    <2>1. CASE txn[w].kind = "CREATE"
      BY <1>1, <1>8, <2>1, AuthorStands DEF AdministratorRemains, Changing, Changes
    <2>2. CASE txn[w].kind = "BOOTSTRAP"
      <3>1. txn[w].roles = {"TI"}
        BY <2>2 DEF IInv, WorkersInv, Shape
      <3>2. a \in ActiveTi'
        BY <1>2, <1>4, <3>1 DEF ActiveTi
      <3> QED BY <3>2 DEF AdministratorRemains
    <2> QED BY <1>1, <2>1, <2>2
  <1>10. ClosedIsReported'
    BY <1>1 DEF IInv, ClosedIsReported
  <1>11. ASSUME NEW v \in Workers \ {w}
         PROVE  Founding(v)' /\ Remaining(v)'
    <2>1. pc'[v] = pc[v] /\ txn'[v] = txn[v] /\ Actor(v)' = Actor(v)
      BY <1>1, EndLocal DEF Local, IInv, Actor
    <2>2. ~(pc[v] \in {"writing", "committing"} /\ txn[v].kind = "BOOTSTRAP")
      <3> SUFFICES ASSUME pc[v] \in {"writing", "committing"}, txn[v].kind = "BOOTSTRAP"
                   PROVE  FALSE
        OBVIOUS
      <3>1. lock[Boot] = v /\ ActiveTi = {}
        BY DEF IInv, WorkersInv, Founding
      <3>2. txn[w].kind = "BOOTSTRAP" => lock[Boot] = w
        BY <1>1 DEF IInv, WorkersInv, Founding
      <3>3. txn[w].kind = "CREATE" => ActiveTi # {}
        BY <1>1, AuthorStands DEF Changing, Changes
      <3> QED BY <1>1, <3>1, <3>2, <3>3
    <2>3. Founding(v)'
      BY <2>1, <2>2 DEF Founding
    <2>4. Remaining(v)'
      BY <1>1, <1>8, <2>1 DEF IInv, WorkersInv, Remaining
    <2> QED BY <2>3, <2>4
  <1> QED
    BY <1>1, <1>6, <1>7, <1>9, <1>10, <1>11, CommittingStep

(* The steps that change one session only.                                 *)
LEMMA SessionStep ==
  ASSUME IInv, TypeOK', NEW w \in Workers, End(w), Spares(w), VersionInv', ClosedIsReported',
         UNCHANGED <<account, founded, overlap>>,
         \A s \in Sessions : session[s].state # "FREE" => session'[s].owner = session[s].owner
  PROVE  IInv'
  <1>1. ActiveTi' = ActiveTi
    BY DEF ActiveTi
  <1>2. AdministratorRemains'
    BY <1>1 DEF IInv, AdministratorRemains
  <1>3. ASSUME NEW v \in Workers \ {w}
        PROVE  Founding(v)' /\ Remaining(v)'
    <2>1. pc'[v] = pc[v] /\ txn'[v] = txn[v] /\ (lock[Boot] = v => lock'[Boot] = v)
      BY EndLocal DEF Local, IInv, Rows
    <2>2. txn[v].kind = "DISABLE" => Actor(v)' = Actor(v)
      BY <2>1 DEF IInv, WorkersInv, Subject, Changes, Actor
    <2> QED
      BY <1>1, <2>1, <2>2 DEF IInv, WorkersInv, Founding, Remaining
  <1> QED
    BY <1>2, <1>3, CommittingStep

LEMMA CommitLogoutStep ==
  ASSUME IInv, NEW w \in Workers, CommitLogout(w)
  PROVE  IInv'
  <1> DEFINE s == txn[w].by
  <1>1. /\ pc[w] = "leaving" /\ txn[w].kind = "LOGOUT" /\ End(w) /\ TypeOK'
        /\ session' = [session EXCEPT ![s].state = "LOGGED_OUT"]
        /\ UNCHANGED <<account, reported, history>>
    BY FinishingType DEF CommitLogout, IInv
  <1>2. s \in Sessions /\ session[s].state # "FREE" /\ lock[s] = w
    BY <1>1 DEF IInv, WorkersInv, Subject, Held, LogoutHeld
  <1>3. session[s] \in Session
    BY <1>2 DEF IInv, TypeOK
  <1>4. session' = [session EXCEPT ![s] = [session[s] EXCEPT !.state = "LOGGED_OUT"]]
    BY <1>1, <1>2 DEF IInv, TypeOK
  <1>5. /\ session'[s].state = "LOGGED_OUT" /\ session'[s].owner = session[s].owner
        /\ session'[s].av = session[s].av
        /\ \A q \in Sessions \ {s} : session'[q] = session[q]
    BY <1>2, <1>3, <1>4, SessionRow DEF IInv, TypeOK
  <1>6. txn'[w].by = NoSession
    BY <1>1, EndLocal DEF IInv, NoTxn
  <1> HIDE DEF s
  <1>7. Spares(w)
    BY <1>1, <1>2, <1>5, <1>6, LoginsDiffer DEF Spares, IInv
  <1>8. VersionInv'
    BY <1>1, <1>2, <1>5 DEF IInv, VersionInv, Stands, history
  <1>9. ClosedIsReported'
    BY <1>1, <1>5 DEF IInv, ClosedIsReported, history
  <1> QED
    BY <1>1, <1>5, <1>7, <1>8, <1>9, SessionStep DEF history

LEMMA CommitRefreshStep ==
  ASSUME IInv, NEW w \in Workers, CommitRefresh(w)
  PROVE  IInv'
  <1> DEFINE s == txn[w].by
  <1>1. /\ pc[w] = "rotated" /\ End(w) /\ TypeOK'
        /\ session' = [session EXCEPT ![s].token = @ + 1]
        /\ UNCHANGED <<account, reported, history>>
    BY FinishingType DEF CommitRefresh, IInv
  <1>2. txn[w].kind = "REFRESH"
    BY <1>1 DEF IInv, WorkersInv, Shape, Kinds
  <1>3. s \in Sessions /\ session[s].state # "FREE" /\ lock[s] = w
    BY <1>1, <1>2 DEF IInv, WorkersInv, Subject, Held, TokenHeld
  <1>4. session[s] \in Session
    BY <1>3 DEF IInv, TypeOK
  <1>5. session' = [session EXCEPT ![s] = [session[s] EXCEPT !.token = @ + 1]]
    BY <1>1, <1>3 DEF IInv, TypeOK
  <1>6. /\ session'[s].state = session[s].state /\ session'[s].owner = session[s].owner
        /\ session'[s].av = session[s].av
        /\ \A q \in Sessions \ {s} : session'[q] = session[q]
    BY <1>3, <1>4, <1>5 DEF IInv, TypeOK, Session
  <1>7. txn'[w].by = NoSession
    BY <1>1, EndLocal DEF IInv, NoTxn
  <1> HIDE DEF s
  <1>8. Spares(w)
    BY <1>1, <1>3, <1>6, <1>7, LoginsDiffer DEF Spares, IInv
  <1>9. VersionInv'
    BY <1>1, <1>6 DEF IInv, VersionInv, Stands, history
  <1>10. ClosedIsReported'
    BY <1>1, <1>6 DEF IInv, ClosedIsReported, history
  <1> QED
    BY <1>1, <1>3, <1>6, <1>8, <1>9, <1>10, SessionStep DEF history

(* A session begins with the secret and the roles that its account has at  *)
(* that moment: the login has held the account since it verified them.     *)
LEMMA IssueStep ==
  ASSUME IInv, NEW w \in Workers, Issue(w)
  PROVE  IInv'
  <1> DEFINE s == txn[w].by
             a == txn[w].target
  <1>1. /\ pc[w] = "issuing" /\ End(w) /\ TypeOK'
        /\ session' = [session EXCEPT ![s] =
               [state |-> "ACTIVE", owner |-> a, av |-> account[a].av, token |-> 0,
                expired |-> FALSE]]
        /\ begun' = [begun EXCEPT ![s] = [secret |-> txn[w].number, roles |-> account[a].roles]]
        /\ UNCHANGED <<account, reported, closedBy, founded, overlap>>
    BY FinishingType DEF Issue, IInv
  <1>2. txn[w].kind = "LOGIN" /\ a \in Accounts
    BY <1>1 DEF IInv, WorkersInv, Shape, Kinds
  <1>3. s \in Sessions /\ session[s].state = "FREE"
    BY <1>2, LoginsDiffer DEF IInv
  <1>4. lock[a] = w /\ account[a].state = "ACTIVE" /\ account[a].secret = txn[w].number
        /\ account[a].av \in Nat
    BY <1>1, <1>2 DEF IInv, WorkersInv, Held, LoginHeld, TypeOK, Account
  <1>5. /\ session'[s].state = "ACTIVE" /\ session'[s].owner = a /\ session'[s].av = account[a].av
        /\ begun'[s].secret = account[a].secret /\ begun'[s].roles = account[a].roles
        /\ \A q \in Sessions \ {s} : session'[q] = session[q] /\ begun'[q] = begun[q]
    BY <1>1, <1>3, <1>4 DEF IInv, TypeOK
  <1>6. txn'[w].by = NoSession
    BY <1>1, EndLocal DEF IInv, NoTxn
  <1>7. \A v \in Workers \ {w} : txn[v].kind = "LOGIN" => txn[v].by \in Sessions \ {s}
    BY LoginsDiffer DEF IInv
  <1> HIDE DEF s, a
  <1>8. Spares(w)
    BY <1>1, <1>3, <1>4, <1>5, <1>6, <1>7, LoginsDiffer DEF Spares, IInv
  <1>9. VersionInv'
    BY <1>1, <1>4, <1>5 DEF IInv, VersionInv, Stands
  <1>10. ClosedIsReported'
    BY <1>1, <1>5 DEF IInv, ClosedIsReported
  <1> QED
    BY <1>1, <1>3, <1>5, <1>8, <1>9, <1>10, SessionStep

(* What the commit of a change does, row by row.                           *)
LEMMA CommitFacts ==
  ASSUME IInv, NEW w \in Workers, Commit(w)
  PROVE  /\ txn[w].kind \in OfAccount \cup {"GRANT", "EXCEPTION"} /\ pc[w] = "committing"
         /\ txn[w].target \in Accounts
         /\ \A a \in Accounts \ txn[w].impacted : account'[a] = account[a]
         /\ \A a \in txn[w].impacted :
               /\ a \in Accounts /\ lock[a] = w
               /\ account'[a].av = account[a].av + 1 /\ account[a].av \in Nat
               /\ account[a].state # "ABSENT" => account'[a].state # "ABSENT"
         /\ \A a \in Accounts :
               (a \in ActiveTi /\ (a = txn[w].target => txn[w].kind \notin {"DISABLE", "ASSIGN"})) =>
                  a \in ActiveTi'
         /\ \A s \in Closed(txn[w]) :
               /\ s \in Sessions /\ lock[s] = w /\ session[s].state = "ACTIVE"
               /\ session[s].owner \in txn[w].impacted /\ session'[s].state = "INVALIDATED"
               /\ session'[s].owner = session[s].owner /\ session'[s].av = session[s].av
         /\ \A s \in Sessions \ Closed(txn[w]) : session'[s] = session[s]
  <1> DEFINE t == txn[w]
  <1>1. /\ pc[w] = "committing" /\ t.kind \notin {"CREATE", "BOOTSTRAP"} /\ t \in Txn
    BY DEF Commit, IInv, TypeOK
  <1>2. t.kind \in OfAccount \cup {"GRANT", "EXCEPTION"} /\ t.target \in Accounts
    BY <1>1 DEF IInv, WorkersInv, Shape, Kinds, Changes, OfAccount
  <1>3. /\ \A a \in t.impacted : a \in Accounts /\ lock[a] = w
        /\ \A s \in Closed(t) : lock[s] = w
    BY <1>1 DEF IInv, WorkersInv, Held, ClosedHeld, Closed, Txn
  <1>4. \A a \in Accounts \ t.impacted : account'[a] = account[a]
    BY DEF Commit
  <1>5. ASSUME NEW a \in t.impacted
        PROVE  /\ account[a] \in Account
               /\ account'[a].av = account[a].av + 1
               /\ account'[a].state \in {account[a].state, "DISABLED", "ACTIVE"}
               /\ (a # t.target \/ t.kind # "DISABLE") =>
                     account'[a].state \in {account[a].state, "ACTIVE"}
               /\ (a # t.target \/ t.kind # "ASSIGN") => account'[a].roles = account[a].roles
    <2>1. a \in Accounts /\ account[a] \in Account
      BY <1>3, <1>5 DEF IInv, TypeOK
    <2> DEFINE row == IF a = t.target THEN Rewritten(t, account[a]) ELSE account[a]
    <2>2. row \in Account
      BY <1>1, <2>1, RewrittenType
    <2>3. /\ row.state \in {account[a].state, "DISABLED", "ACTIVE"}
          /\ (a # t.target \/ t.kind # "DISABLE") => row.state \in {account[a].state, "ACTIVE"}
          /\ (a # t.target \/ t.kind # "ASSIGN") => row.roles = account[a].roles
      BY <2>1 DEF Rewritten, Account
    <2>4. account'[a] = [row EXCEPT !.av = account[a].av + 1]
      BY <1>5, <2>1 DEF Commit, NextVersion
    <2> HIDE DEF row
    <2>5. /\ account'[a].av = account[a].av + 1 /\ account'[a].state = row.state
          /\ account'[a].roles = row.roles
      BY <2>2, <2>4 DEF Account
    <2> QED BY <2>1, <2>3, <2>5
  <1>6. \A a \in Accounts :
           (a \in ActiveTi /\ (a = t.target => t.kind \notin {"DISABLE", "ASSIGN"})) =>
              a \in ActiveTi'
    BY <1>4, <1>5 DEF ActiveTi
  <1>7. \A s \in Closed(t) :
           /\ s \in Sessions /\ session[s].state = "ACTIVE" /\ session[s].owner \in t.impacted
           /\ session'[s].state = "INVALIDATED"
           /\ session'[s].owner = session[s].owner /\ session'[s].av = session[s].av
    <2> SUFFICES ASSUME NEW s \in Closed(t)
                 PROVE  /\ s \in Sessions /\ session[s].state = "ACTIVE"
                        /\ session[s].owner \in t.impacted /\ session'[s].state = "INVALIDATED"
                        /\ session'[s].owner = session[s].owner /\ session'[s].av = session[s].av
      OBVIOUS
    <2>1. s \in Sessions /\ session[s].state = "ACTIVE" /\ session[s].owner \in t.impacted
      BY DEF Closed, OpenSessions
    <2>2. session'[s] = [session[s] EXCEPT !.state = "INVALIDATED"] /\ session[s] \in Session
      BY <2>1 DEF Commit, IInv, TypeOK
    <2> QED BY <2>1, <2>2, SessionRow
  <1>8. \A s \in Sessions \ Closed(t) : session'[s] = session[s]
    BY DEF Commit
  <1>9. \A a \in t.impacted : account[a].av \in Nat
    BY <1>5 DEF Account
  <1> QED
    BY <1>1, <1>2, <1>3, <1>4, <1>5, <1>6, <1>7, <1>8, <1>9

LEMMA CommitVersions ==
  ASSUME IInv, NEW w \in Workers, Commit(w)
  PROVE  VersionInv'
  <1> SUFFICES ASSUME NEW s \in Sessions, session'[s].state # "FREE"
               PROVE  (/\ account[session[s].owner].state # "ABSENT"
                       /\ session[s].av \leq account[session[s].owner].av
                       /\ Stands(s) =>
                             /\ begun[s].secret = account[session[s].owner].secret
                             /\ begun[s].roles = account[session[s].owner].roles)'
    BY DEF VersionInv
  <1>1. /\ session[s].state # "FREE" /\ session'[s].owner = session[s].owner
        /\ session'[s].av = session[s].av
        /\ session'[s].state = "ACTIVE" => session[s].state = "ACTIVE"
    BY CommitFacts
  <1>2. /\ session[s].owner \in Accounts /\ session[s].av \in Nat
        /\ account[session[s].owner].av \in Nat
    BY <1>1 DEF IInv, TypeOK, Session, Account
  <1>3. begun' = begun
    BY DEF Commit
  <1>4. CASE session[s].owner \in txn[w].impacted
    BY <1>1, <1>2, <1>4, CommitFacts DEF IInv, VersionInv, Stands
  <1>5. CASE session[s].owner \notin txn[w].impacted
    <2>1. account'[session[s].owner] = account[session[s].owner]
      BY <1>2, <1>5, CommitFacts
    <2> QED BY <1>1, <1>3, <2>1 DEF IInv, VersionInv, Stands
  <1> QED
    BY <1>4, <1>5

(* An administrator is left: the author, or who the author left behind.    *)
LEMMA CommitRemains ==
  ASSUME IInv, NEW w \in Workers, Commit(w)
  PROVE  /\ AdministratorRemains'
         /\ \A v \in Workers \ {w} : Founding(v)' /\ Remaining(v)'
  <1>1. /\ txn[w].kind \in OfAccount \cup {"GRANT", "EXCEPTION"} /\ pc[w] = "committing"
        /\ txn[w].kind \in Changes /\ pc[w] \in Changing
    BY CommitFacts DEF OfAccount, Changes, Changing
  <1>2. Actor(w) \in Accounts /\ Actor(w) \in ActiveTi /\ lock[Actor(w)] = w
    BY <1>1, AuthorStands
  <1>3. txn[w].kind = "ASSIGN" => Actor(w) # txn[w].target
    BY DEF IInv, WorkersInv, Subject
  <1>4. overlap => overlap'
    BY DEF Commit
  <1>5. CASE txn[w].kind = "DISABLE" /\ txn[w].target = Actor(w)
    <2>1. overlap \/ \E b \in ActiveTi : b # Actor(w)
      BY <1>1, <1>5 DEF IInv, WorkersInv, Remaining
    <2>2. \A b \in ActiveTi : b # Actor(w) => b \in ActiveTi'
      BY <1>5, CommitFacts DEF ActiveTi
    <2>3. AdministratorRemains'
      BY <1>4, <2>1, <2>2 DEF AdministratorRemains
    <2>4. ASSUME NEW v \in Workers \ {w}
          PROVE  Founding(v)' /\ Remaining(v)'
      <3>1. pc'[v] = pc[v] /\ txn'[v] = txn[v]
        BY EndLocal DEF Local, IInv, Commit
      <3>2. Founding(v)'
        BY <1>2, <3>1 DEF Founding, IInv, WorkersInv
      <3>3. txn[v].kind = "DISABLE" => Actor(v)' = Actor(v)
        <4>1. txn[v].kind = "DISABLE" => txn[v].by \in Sessions
          BY DEF IInv, WorkersInv, Subject
        <4> QED BY <3>1, <4>1, CommitFacts DEF Actor
      <3>4. Remaining(v)'
        <4> SUFFICES ASSUME pc[v] \in {"writing", "listing", "closing", "committing"},
                            txn[v].kind = "DISABLE", txn[v].target = Actor(v)
                     PROVE  overlap'
          BY <3>1, <3>3 DEF Remaining
        <4>1. LeavesWith(w)
          BY DEF LeavesWith
        <4> QED BY <1>5, <4>1 DEF Commit
      <3> QED BY <3>2, <3>4
    <2> QED BY <2>3, <2>4
  <1>6. CASE ~(txn[w].kind = "DISABLE" /\ txn[w].target = Actor(w))
    <2>1. Actor(w) \in ActiveTi'
      BY <1>2, <1>3, <1>6, CommitFacts
    <2>2. AdministratorRemains'
      BY <2>1 DEF AdministratorRemains
    <2>3. ASSUME NEW v \in Workers \ {w}
          PROVE  Founding(v)' /\ Remaining(v)'
      <3>1. pc'[v] = pc[v] /\ txn'[v] = txn[v]
        BY EndLocal DEF Local, IInv, Commit
      <3>2. Founding(v)'
        BY <1>2, <3>1 DEF Founding, IInv, WorkersInv
      <3>3. (pc[v] \in Changing /\ txn[v].kind \in Changes) =>
               Actor(v)' = Actor(v) /\ lock[Actor(v)] = v
        <4>1. (pc[v] \in Changing /\ txn[v].kind \in Changes) =>
                 txn[v].by \in Sessions /\ lock[Actor(v)] = v
          BY AuthorStands
        <4> QED BY <3>1, <4>1, CommitFacts DEF Actor
      <3>4. Remaining(v)'
        BY <1>2, <2>1, <3>1, <3>3 DEF Remaining, Changing, Changes
      <3> QED BY <3>2, <3>4
    <2> QED BY <2>2, <2>3
  <1> QED
    BY <1>5, <1>6

LEMMA CommitReports ==
  ASSUME IInv, NEW w \in Workers, Commit(w)
  PROVE  ClosedIsReported'
  <1> SUFFICES ASSUME NEW s \in Sessions, session'[s].state = "INVALIDATED"
               PROVE  s \in reported' \/ closedBy'[s] \in {"GRANT", "EXCEPTION"}
    BY DEF ClosedIsReported
  <1>1. CASE s \in Closed(txn[w])
    <2>1. closedBy'[s] = txn[w].kind
      BY <1>1 DEF Commit
    <2>2. txn[w].kind \in OfAccount => s \in txn[w].listed
      BY <1>1, CommitFacts DEF IInv, WorkersInv, Held, ListedFirst, Closed
    <2> QED BY <2>1, <2>2, CommitFacts DEF Commit
  <1>2. CASE s \notin Closed(txn[w])
    BY <1>2, CommitFacts DEF Commit, IInv, ClosedIsReported
  <1> QED
    BY <1>1, <1>2

LEMMA CommitStep ==
  ASSUME IInv, NEW w \in Workers, Commit(w)
  PROVE  IInv'
  <1>1. End(w) /\ TypeOK'
    BY CommitType DEF Commit, IInv
  <1>2. txn'[w].by = NoSession
    BY <1>1, EndLocal DEF IInv, NoTxn
  <1>3. \A a \in Accounts : lock[a] \in Workers \ {w} => account'[a] = account[a]
    BY CommitFacts
  <1>4. \A s \in Sessions :
           /\ session'[s] = session[s] \/ (/\ lock[s] = w /\ session[s].state = "ACTIVE"
                                           /\ session'[s].state = "INVALIDATED"
                                           /\ session'[s].owner = session[s].owner)
    BY CommitFacts
  <1>5. Spares(w)
    BY <1>2, <1>3, <1>4, LoginsDiffer DEF Spares, IInv
  <1> QED
    BY <1>1, <1>5, CommitVersions, CommitRemains, CommitReports, CommittingStep

(* The end of the eight hours concerns nothing that a transaction holds.   *)
LEMMA ExpireStep ==
  ASSUME IInv, NEW s \in Sessions, Expire(s)
  PROVE  IInv'
  <1>1. TypeOK' /\ UNCHANGED <<account, lock, pc, txn, budget, reported, history>>
    BY ExpireType DEF IInv, Expire
  <1>2. session' = [session EXCEPT ![s] = [session[s] EXCEPT !.expired = TRUE]]
        /\ session[s] \in Session
    BY DEF Expire, IInv, TypeOK
  <1>3. \A q \in Sessions :
           /\ session'[q].state = session[q].state /\ session'[q].owner = session[q].owner
           /\ session'[q].av = session[q].av /\ session'[q].token = session[q].token
    BY <1>2 DEF IInv, TypeOK, Session
  <1>4. /\ \A q \in Sessions : Stands(q)' = Stands(q)
        /\ \A A : OpenSessions(A)' = OpenSessions(A)
        /\ ActiveTi' = ActiveTi
    BY <1>1, <1>3 DEF Stands, OpenSessions, ActiveTi
  <1>5. ASSUME NEW w \in Workers
        PROVE  (Shape(w) /\ Subject(w) /\ Held(w) /\ Founding(w) /\ Remaining(w))'
    <2>1. Shape(w) /\ Subject(w) /\ Held(w) /\ Founding(w) /\ Remaining(w)
      BY DEF IInv, WorkersInv
    <2>2. pc'[w] = pc[w] /\ txn'[w] = txn[w] /\ lock' = lock /\ account' = account
          /\ overlap' = overlap
      BY <1>1 DEF history
    <2>3. txn[w].by \in Sessions => Actor(w)' = Actor(w)
      BY <1>3, <2>2 DEF Actor
    <2>4. Shape(w)'
      BY <2>1, <2>2 DEF Shape
    <2>5. Subject(w)'
      <3>1. \A v \in Workers : txn'[v] = txn[v]
        BY <1>1
      <3> QED BY <1>3, <2>1, <2>3, <3>1 DEF Subject, Changes
    <2>6. AuthorHeld(w)'
      <3>1. txn[w].kind \in Changes => txn[w].by \in Sessions
        BY <2>1 DEF Subject, Changes
      <3> QED BY <1>4, <2>1, <2>2, <2>3, <3>1 DEF Held, AuthorHeld
    <2>7. TokenHeld(w)'
      <3>1. pc[w] = "rotated" => txn[w].by \in Sessions
        BY <2>1 DEF Subject, Shape, Kinds
      <3> QED BY <1>3, <1>4, <2>1, <2>2, <2>3, <3>1 DEF Held, TokenHeld
    <2>8. Held(w)'
      BY <1>4, <2>1, <2>2, <2>6, <2>7 DEF Held, TargetHeld, NewAccountHeld, ClosedHeld, LoginHeld,
         LogoutHeld, ListedFirst
    <2>9. Founding(w)'
      BY <1>4, <2>1, <2>2 DEF Founding
    <2>10. Remaining(w)'
      <3>1. txn[w].kind = "DISABLE" => txn[w].by \in Sessions
        BY <2>1 DEF Subject
      <3> QED BY <1>4, <2>1, <2>2, <2>3, <3>1 DEF Remaining
    <2> QED BY <2>4, <2>5, <2>8, <2>9, <2>10
  <1>6. VersionInv'
    BY <1>1, <1>3, <1>4 DEF IInv, VersionInv, history
  <1>7. (AdministratorRemains /\ ClosedIsReported)'
    BY <1>1, <1>3, <1>4 DEF IInv, AdministratorRemains, ClosedIsReported, history
  <1> QED
    BY <1>1, <1>5, <1>6, <1>7 DEF IInv, WorkersInv

-----------------------------------------------------------------------------
(* The invariant *)

LEMMA InitInv == Init => IInv
  <1> SUFFICES ASSUME Init
               PROVE  IInv
    OBVIOUS
  <1>1. TypeOK
    BY InitType
  <1>2. \A s \in Sessions : session[s].state = "FREE"
    BY DEF Init, FreeSession
  <1>3. \A w \in Workers : pc[w] = "idle" /\ txn[w].kind = "NONE"
    BY DEF Init, NoTxn
  <1>4. WorkersInv
    BY <1>3 DEF WorkersInv, Shape, Subject, Held, Founding, Remaining, Kinds, Changes, OfAccount,
       Changing, AuthorHeld, TargetHeld, NewAccountHeld, ClosedHeld, LoginHeld, TokenHeld,
       LogoutHeld, ListedFirst
  <1>5. AdministratorRemains
    <2>1. PICK F \in {{}, Founders} :
            /\ account = [a \in Accounts |-> IF a \in F THEN Administrator ELSE NoRow]
            /\ founded = (F # {})
      BY DEF Init
    <2>2. \A a \in F : a \in ActiveTi
      BY <2>1 DEF ActiveTi, Administrator
    <2>3. founded => F # {}
      BY <2>1, Zenon
    <2> QED BY <2>2, <2>3 DEF AdministratorRemains
  <1> QED
    BY <1>1, <1>2, <1>4, <1>5 DEF IInv, VersionInv, ClosedIsReported

LEMMA NextInv == IInv /\ [Next]_vars => IInv'
  <1> SUFFICES ASSUME IInv, [Next]_vars
               PROVE  IInv'
    OBVIOUS
  <1>1. CASE UNCHANGED vars
    <2>1. /\ UNCHANGED <<account, session, lock, pc, txn, budget, reported>>
          /\ UNCHANGED <<closedBy, begun, founded, overlap>>
      BY <1>1 DEF vars, history
    <2>2. TypeOK'
      BY <2>1 DEF IInv, TypeOK
    <2>3. \A w \in Workers : (Shape(w) /\ Subject(w) /\ Held(w) /\ Founding(w) /\ Remaining(w))'
      BY <2>1 DEF IInv, WorkersInv, Shape, Subject, Held, Founding, Remaining, AuthorHeld,
         TargetHeld, NewAccountHeld, ClosedHeld, LoginHeld, TokenHeld, LogoutHeld, ListedFirst,
         Actor, Stands, OpenSessions, ActiveTi
    <2>4. (VersionInv /\ AdministratorRemains /\ ClosedIsReported)'
      BY <2>1 DEF IInv, VersionInv, AdministratorRemains, ClosedIsReported, Stands, ActiveTi
    <2> QED BY <2>2, <2>3, <2>4 DEF IInv, WorkersInv
  <1>2. ASSUME NEW w \in Workers, Begins(w)
        PROVE  IInv'
    BY <1>2, BeginsStep
  <1>3. ASSUME NEW w \in Workers, Fail(w)
        PROVE  IInv'
    BY <1>3, EndingStep
  <1>4. ASSUME NEW w \in Workers, Works(w)
        PROVE  IInv'
    <2>1. CASE \/ DenyActor(w) \/ NoTarget(w) \/ KeepLast(w) \/ NoRowFound(w) \/ Answer(w)
               \/ DenyLogin(w) \/ DenyRefresh(w) \/ AlreadyFounded(w)
      BY <2>1, NoCommit, EndingStep
    <2>2. CASE DeadlockAbort(w)
      BY <2>2, EndingStep
    <2>3. CASE \/ Enter(w) \/ LockTarget(w) \/ Count(w) \/ Write(w) \/ Choose(w) \/ List(w)
               \/ Close(w) \/ Verify(w) \/ Rotate(w) \/ Found(w)
      BY <2>3, EnterStep, LockTargetStep, CountStep, WriteStep, ChooseStep, ListStep, CloseStep,
         VerifyStep, RotateStep, FoundStep
    <2>4. CASE Commit(w) \/ CommitAccount(w) \/ CommitLogout(w) \/ Issue(w) \/ CommitRefresh(w)
      BY <2>4, CommitStep, CommitAccountStep, CommitLogoutStep, IssueStep, CommitRefreshStep
    <2> QED
      BY <1>4, <2>1, <2>2, <2>3, <2>4 DEF Works
  <1>5. ASSUME NEW s \in Sessions, Expire(s)
        PROVE  IInv'
    BY <1>5, ExpireStep
  <1> QED
    BY <1>1, <1>2, <1>3, <1>4, <1>5 DEF Next

(* What every state of a behaviour satisfies.                              *)
THEOREM Invariance == Spec => []IInv
  BY InitInv, NextInv, PTL DEF Spec

(* The state of the accounts, the sessions and the transactions is typed.  *)
THEOREM Typing == Spec => []TypeOK
  <1>1. IInv => TypeOK
    BY DEF IInv
  <1> QED BY <1>1, Invariance, PTL

(* However many accounts are changed while however many logins are in      *)
(* progress: the check never lets through a session that was begun with    *)
(* another secret or other roles than its account has (service.authenticate*)
(* compares the version the session was issued with).                      *)
THEOREM CurrentSessions == Spec => []ValidSessionIsCurrent
  <1>1. IInv => ValidSessionIsCurrent
    BY DEF IInv, VersionInv, ValidSessionIsCurrent, Valid, Stands
  <1> QED BY <1>1, Invariance, PTL

(* The system keeps an active administrator, unless two disable themselves *)
(* at the same time, although the count of the last one takes no lock.     *)
THEOREM AdministratorStays == Spec => []AdministratorRemains
  <1>1. IInv => AdministratorRemains
    BY DEF IInv
  <1> QED BY <1>1, Invariance, PTL

(* A change of an account reports every session that it closes.            *)
THEOREM ClosuresReported == Spec => []ClosedIsReported
  <1>1. IInv => ClosedIsReported
    BY DEF IInv
  <1> QED BY <1>1, Invariance, PTL

-----------------------------------------------------------------------------
(* Action properties *)

(* What a step may do to a session that has begun, and to its account.     *)
LEMMA SessionLife ==
  ASSUME IInv, [Next]_vars, NEW s \in Sessions, session[s].state # "FREE"
  PROVE  /\ session'[s].owner = session[s].owner /\ session'[s].av = session[s].av
         /\ session'[s].state = "ACTIVE" => session[s].state = "ACTIVE"
         /\ session[s].expired => session'[s].expired
         /\ \/ account'[session[s].owner] = account[session[s].owner]
            \/ account'[session[s].owner].av = account[session[s].owner].av + 1
  <1>1. session[s] \in Session /\ session[s].owner \in Accounts
    BY DEF IInv, TypeOK
  <1>2. CASE UNCHANGED <<account, session>>
    BY <1>2
  <1>3. ASSUME NEW w \in Workers, Commit(w)
        PROVE  /\ session'[s].owner = session[s].owner /\ session'[s].av = session[s].av
               /\ session'[s].state = "ACTIVE" => session[s].state = "ACTIVE"
               /\ session[s].expired => session'[s].expired
               /\ \/ account'[session[s].owner] = account[session[s].owner]
                  \/ account'[session[s].owner].av = account[session[s].owner].av + 1
    <2>1. session'[s] \in {session[s], [session[s] EXCEPT !.state = "INVALIDATED"]}
      BY <1>3 DEF Commit
    <2>2. session[s].expired => session'[s].expired
      BY <1>1, <2>1 DEF Session
    <2>3. /\ session'[s].owner = session[s].owner /\ session'[s].av = session[s].av
          /\ session'[s].state = "ACTIVE" => session[s].state = "ACTIVE"
      BY <1>3, CommitFacts
    <2>4. \/ account'[session[s].owner] = account[session[s].owner]
          \/ account'[session[s].owner].av = account[session[s].owner].av + 1
      BY <1>1, <1>3, CommitFacts
    <2> QED BY <2>2, <2>3, <2>4
  <1>4. ASSUME NEW w \in Workers, CommitAccount(w)
        PROVE  session' = session /\ account'[session[s].owner] = account[session[s].owner]
    <2>1. pc[w] = "committing" /\ txn[w].kind \in {"CREATE", "BOOTSTRAP"}
      BY <1>4 DEF CommitAccount
    <2>2. txn[w].target \in Accounts /\ account[txn[w].target].state = "ABSENT"
      BY <2>1 DEF IInv, WorkersInv, Shape, Held, NewAccountHeld, Changes
    <2>3. session[s].owner # txn[w].target
      BY <2>2 DEF IInv, VersionInv
    <2> QED BY <1>1, <1>4, <2>2, <2>3 DEF CommitAccount, IInv, TypeOK
  <1>5. ASSUME NEW w \in Workers, Issue(w)
        PROVE  session'[s] = session[s] /\ account' = account
    <2>1. txn[w].kind = "LOGIN"
      BY <1>5 DEF Issue, IInv, WorkersInv, Shape, Kinds
    <2>2. txn[w].by # s
      BY <2>1, LoginsDiffer DEF IInv
    <2> QED BY <1>5, <2>2 DEF Issue, IInv, TypeOK
  <1>6. ASSUME account' = account,
               \E q : \/ session' = [session EXCEPT ![q].state = "LOGGED_OUT"]
                      \/ session' = [session EXCEPT ![q].token = @ + 1]
                      \/ session' = [session EXCEPT ![q].expired = TRUE]
        PROVE  /\ session'[s].owner = session[s].owner /\ session'[s].av = session[s].av
               /\ session'[s].state = "ACTIVE" => session[s].state = "ACTIVE"
               /\ session[s].expired => session'[s].expired
    <2>1. session'[s] \in {session[s], [session[s] EXCEPT !.state = "LOGGED_OUT"],
                           [session[s] EXCEPT !.token = @ + 1], [session[s] EXCEPT !.expired = TRUE]}
      BY <1>6 DEF IInv, TypeOK
    <2>2. CASE session'[s] = session[s]
      BY <2>2
    <2>3. CASE session'[s] = [session[s] EXCEPT !.state = "LOGGED_OUT"]
      BY <1>1, <2>3 DEF Session
    <2>4. CASE session'[s] = [session[s] EXCEPT !.token = @ + 1]
      BY <1>1, <2>4 DEF Session
    <2>5. CASE session'[s] = [session[s] EXCEPT !.expired = TRUE]
      BY <1>1, <2>5 DEF Session
    <2> QED BY <2>1, <2>2, <2>3, <2>4, <2>5
  <1>7. ASSUME NEW w \in Workers, CommitLogout(w) \/ CommitRefresh(w)
        PROVE  account' = account /\ \E q : \/ session' = [session EXCEPT ![q].state = "LOGGED_OUT"]
                      \/ session' = [session EXCEPT ![q].token = @ + 1]
                      \/ session' = [session EXCEPT ![q].expired = TRUE]
    BY <1>7 DEF CommitLogout, CommitRefresh
  <1>8. ASSUME NEW q \in Sessions, Expire(q)
        PROVE  account' = account /\ session' = [session EXCEPT ![q].expired = TRUE]
    BY <1>8 DEF Expire
  <1>9. ASSUME NEW w \in Workers, Begins(w) \/ Fail(w)
        PROVE  UNCHANGED <<account, session>>
    BY <1>9 DEF Begins, Administer, Request, Logout, Login, Refresh, Bootstrap, Opens, Fail
  <1>10. ASSUME NEW w \in Workers, Works(w),
                ~(Commit(w) \/ CommitAccount(w) \/ CommitLogout(w) \/ Issue(w) \/ CommitRefresh(w))
         PROVE  UNCHANGED <<account, session>>
    BY <1>10, NoCommit DEF Works, RollsBack, Locks, Enter, LockTarget, Count, Write, Choose, List,
       Close, Verify, Rotate, Found, DeadlockAbort
  <1>11. CASE UNCHANGED vars
    BY <1>11 DEF vars
  <1> QED
    BY <1>2, <1>3, <1>4, <1>5, <1>6, <1>7, <1>8, <1>9, <1>10, <1>11 DEF Next

(* A session that the check has once refused is never let through again:   *)
(* the version of an account only grows, and no session is reopened.       *)
THEOREM ClosedForGood == Spec => ClosedStaysClosed
  <1>1. IInv /\ [Next]_vars =>
           [\A s \in Sessions : (session[s].state # "FREE" /\ ~Valid(s)) => ~Valid(s)']_vars
    <2> SUFFICES ASSUME IInv, [Next]_vars, NEW s \in Sessions,
                        session[s].state # "FREE", ~Valid(s), Valid(s)'
                 PROVE  FALSE
      OBVIOUS
    <2>1. /\ session'[s].owner = session[s].owner /\ session'[s].av = session[s].av
          /\ session'[s].state = "ACTIVE" => session[s].state = "ACTIVE"
          /\ session[s].expired => session'[s].expired
          /\ \/ account'[session[s].owner] = account[session[s].owner]
             \/ account'[session[s].owner].av = account[session[s].owner].av + 1
      BY SessionLife
    <2>2. /\ session[s].av \in Nat /\ account[session[s].owner].av \in Nat
          /\ session[s].av \leq account[session[s].owner].av
      BY DEF IInv, VersionInv, TypeOK, Session, Account
    <2>3. session[s].state = "ACTIVE" /\ ~session[s].expired
      BY <2>1 DEF Valid
    <2>4. account'[session[s].owner] = account[session[s].owner]
      BY <2>1, <2>2 DEF Valid
    <2> QED BY <2>1, <2>3, <2>4 DEF Valid
  <1> QED
    BY <1>1, Invariance, PTL DEF Spec, ClosedStaysClosed

(* What a transaction has read before it writes still holds at its commit: *)
(* its author is an administrator with an open session, the token it       *)
(* exchanges is the current one, a bootstrap finds no administrator.       *)
THEOREM GroundHolds == Spec => GroundHoldsAtCommit
  <1>1. IInv /\ [Next]_vars =>
           [\A w \in Workers :
              (pc[w] = "committing" /\ pc'[w] = "idle" /\ account' # account
               /\ txn[w].kind \in Changes) =>
                  Stands(txn[w].by) /\ "TI" \in account[Actor(w)].roles]_vars
    BY AuthorStands DEF Changing
  <1>2. IInv /\ [Next]_vars =>
           [\A w \in Workers :
              (pc[w] = "rotated" /\ pc'[w] = "idle" /\ session' # session) =>
                 session[txn[w].by].token = txn[w].number /\ Stands(txn[w].by)]_vars
    BY DEF IInv, WorkersInv, Held, TokenHeld
  <1>3. IInv /\ [Next]_vars =>
           [\A w \in Workers :
              (pc[w] = "committing" /\ txn[w].kind = "BOOTSTRAP" /\ account' # account
               /\ pc'[w] = "idle") => ActiveTi = {}]_vars
    BY DEF IInv, WorkersInv, Founding
  <1>4. Spec => AuthorityAtCommit
    BY <1>1, Invariance, PTL DEF Spec, AuthorityAtCommit
  <1>5. Spec => TokenExchangedOnce
    BY <1>2, Invariance, PTL DEF Spec, TokenExchangedOnce
  <1>6. Spec => BootstrapOnlyWithout
    BY <1>3, Invariance, PTL DEF Spec, BootstrapOnlyWithout
  <1> QED
    BY <1>4, <1>5, <1>6 DEF GroundHoldsAtCommit
=============================================================================
