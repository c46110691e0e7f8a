------------------------------ MODULE RagQuery ------------------------------
(***************************************************************************)
(* The queries of one account over the corpus (rag/service.py, retrieval,  *)
(* provider, operation_repository).  A query reads what the account may    *)
(* see, asks an external provider and stores one terminal row, all of it   *)
(* while administrators change what the account may see and documents      *)
(* enter and leave the corpus.                                             *)
(*                                                                         *)
(* Whoever reads a scope holds the account row to the end of his           *)
(* transaction; retrieval reads in autocommit and holds nothing.  The      *)
(* advisory lock of an operation is held only while its row is stored.     *)
(***************************************************************************)
EXTENDS Naturals, FiniteSets

CONSTANTS
    Calls,          \* requests, each made once
    Key,            \* the operation of the calls with the idempotency key
    Queries,        \* canonical texts, with their context references
    Sessions,       \* of the account
    Fragments,      \* certified fragments, each of a document of its own
    NoCall, NoSession, NoQuery,
    MaxChanges,     \* bound: changes of permissions, sessions and corpus
    MaxFailures     \* bound: failing statements and encoders

ASSUME RagConstants ==
    /\ NoCall \notin Calls /\ Key \notin Calls
    /\ NoSession \notin Sessions /\ NoQuery \notin Queries
    /\ IsFiniteSet(Calls) /\ MaxChanges \in Nat /\ MaxFailures \in Nat

VARIABLES
    open, opened,   \* valid sessions, and those that ever were
    granted,        \* fragments whose family is granted to a role of the account
    exception,      \* the exception of the document of each fragment
    corpus,         \* fragments of the versions in force
    accountLock, operationLock,
    row,            \* the stored operations
    call,           \* the local state of each call
    budget          \* what is left of the two bounds

world == <<open, opened, granted, exception, corpus>>
stored == <<accountLock, operationLock, row>>
vars == <<world, stored, call, budget>>

-----------------------------------------------------------------------------
(* Values *)

Ops == Calls \cup {Key}
Evidence == {"EVIDENCIA_SUFICIENTE", "EVIDENCIA_INSUFICIENTE", "SIN_EVIDENCIA", "SIN_AUTORIZACION"}
Exceptions == {"NONE", "ALLOW", "DENY"}
Row == [session : Sessions \cup {NoSession}, query : Queries \cup {NoQuery},
        state : Evidence \cup {"NONE", "ABSENT"}, operation : {"COMPLETED", "FAILED"},
        generation : {"NOT_REQUESTED", "SUCCEEDED", "FAILED"},
        cause : BOOLEAN, response : BOOLEAN, fragments : SUBSET Fragments]
NoRow == [session |-> NoSession, query |-> NoQuery, state |-> "ABSENT", operation |-> "FAILED",
          generation |-> "FAILED", cause |-> FALSE, response |-> FALSE, fragments |-> {}]

Where == {"new", "finding", "revalidating", "scoping", "comparing", "encoding", "vector",
          "lexical", "confirming", "checking", "sending", "locking", "deciding", "storing",
          "presenting", "materialising", "denying", "answered"}
(* withdrawn: what was not permitted when the attempt began; denials: the  *)
(* events AUTHORIZATION_DENIED the call has left.                          *)
Call == [pc : Where, op : Ops, session : Sessions \cup {NoSession}, query : Queries \cup {NoQuery},
         readings : 0 .. 4, scope : SUBSET Fragments, fragments : SUBSET Fragments,
         attempt : 0 .. 3, withdrawn : SUBSET Fragments,
         state : Evidence \cup {"NONE"}, cause : BOOLEAN, response : BOOLEAN,
         created : BOOLEAN, denials : 0 .. 2,
         answer : {"NONE", "200", "401", "403", "409", "ERROR", "503"}, shown : SUBSET Fragments]
NewCall == [pc |-> "new", op |-> Key, session |-> NoSession, query |-> NoQuery,
            readings |-> 0, scope |-> {}, fragments |-> {}, attempt |-> 0, withdrawn |-> {},
            state |-> "NONE", cause |-> FALSE, response |-> FALSE,
            created |-> FALSE, denials |-> 0, answer |-> "NONE", shown |-> {}]

Valid(c) == call[c].session \in open
(* Families as they were read and exceptions as they are: database_predicate.*)
Allowed(scope) ==
    {f \in Fragments : exception[f] = "ALLOW" \/ (exception[f] = "NONE" /\ f \in scope)}
Permitted == Allowed(granted)
Visible(scope) == corpus \cap Allowed(scope)

(* Definitions marked "faulty" are slips that a property must notice.      *)
OncePerCall(c) ==                                       \* faulty: only before the first send
    call[c].attempt > 1 \/ (Valid(c) /\ call[c].fragments \subseteq Visible(granted))
MayUse(c) == Valid(c) /\ call[c].fragments \subseteq Visible(granted)

NeverLast(n) == FALSE                                   \* faulty: off by one
LastAttempt(n) == n = 3

Unlocked(c) == NoCall                                   \* faulty: no lock is taken
AccountHolder(c) == c
OperationHolder(c) == c

Always(c) == TRUE                                       \* faulty: reported twice
AuditsDenial(c) == ~(call[c].created /\ call[c].state = "SIN_AUTORIZACION")

Matches(c) ==
    /\ row[call[c].op].session = call[c].session
    /\ row[call[c].op].query = call[c].query

(* ck_rag_operation_lifecycle_consistency *)
Lifecycle(r) ==
    \/ /\ r.state = "NONE" /\ r.operation = "FAILED" /\ r.generation = "NOT_REQUESTED"
       /\ r.cause /\ ~r.response
    \/ /\ r.state = "EVIDENCIA_SUFICIENTE" /\ r.operation = "COMPLETED"
       /\ r.generation = "SUCCEEDED" /\ ~r.cause /\ r.response
    \/ /\ r.state = "EVIDENCIA_SUFICIENTE" /\ r.operation = "FAILED" /\ r.generation = "FAILED"
       /\ r.cause /\ ~r.response
    \/ /\ r.state \in Evidence \ {"EVIDENCIA_SUFICIENTE"} /\ r.operation = "COMPLETED"
       /\ r.generation = "NOT_REQUESTED" /\ ~r.cause /\ ~r.response

-----------------------------------------------------------------------------

TypeOK ==
    /\ open \subseteq opened /\ opened \subseteq Sessions
    /\ granted \subseteq Fragments /\ corpus \subseteq Fragments
    /\ exception \in [Fragments -> Exceptions]
    /\ accountLock \in Calls \cup {NoCall} /\ operationLock \in [Ops -> Calls \cup {NoCall}]
    /\ row \in [Ops -> Row] /\ call \in [Calls -> Call]
    /\ budget \in [changes : Nat, failures : Nat]

Init ==
    /\ open = {} /\ opened = {} /\ granted \in SUBSET Fragments /\ corpus = Fragments
    /\ exception = [f \in Fragments |-> "NONE"]
    /\ accountLock = NoCall /\ operationLock = [o \in Ops |-> NoCall]
    /\ row = [o \in Ops |-> NoRow] /\ call = [c \in Calls |-> NewCall]
    /\ budget = [changes |-> MaxChanges, failures |-> MaxFailures]

At(c, where) == call[c].pc = where
Becomes(c, local) == call' = [call EXCEPT ![c] = local]
Goes(c, where) == Becomes(c, [call[c] EXCEPT !.pc = where])
Answers(c, code) ==
    Becomes(c, [NewCall EXCEPT !.pc = "answered", !.answer = code, !.denials = call[c].denials])

(* The call stores a terminal row next; a denial drops what it had.        *)
Finalises(c, l) ==
    Becomes(c, [l EXCEPT !.pc = "locking", !.readings = 0, !.scope = {},
                         !.attempt = 0, !.withdrawn = {}])

Denied(c) ==
    [call[c] EXCEPT !.state = "SIN_AUTORIZACION", !.fragments = {}, !.response = FALSE,
                    !.cause = FALSE]

(* An attempt to send begins.                                              *)
Attempts(c, n) ==
    Becomes(c, [call[c] EXCEPT !.pc = "checking", !.state = "EVIDENCIA_SUFICIENTE",
                               !.attempt = n, !.withdrawn = Fragments \ Permitted])

Reads == UNCHANGED <<world, stored, budget>>

-----------------------------------------------------------------------------
(* execute: identity, retry and retrieval *)

(* The route has authenticated the session; a call without a key has an    *)
(* operation of its own.                                                   *)
Request(c, s, q, o) ==
    /\ At(c, "new") /\ s \in open /\ o \in {Key, c}
    /\ Becomes(c, [NewCall EXCEPT !.pc = IF o = Key THEN "finding" ELSE "revalidating",
                                  !.op = o, !.session = s, !.query = q])
    /\ Reads

FindNone(c) ==
    /\ At(c, "finding") /\ row[call[c].op].state = "ABSENT"
    /\ Goes(c, "revalidating")
    /\ Reads

FindExisting(c) ==
    /\ At(c, "finding") /\ row[call[c].op].state # "ABSENT"
    /\ IF Matches(c) THEN Goes(c, "presenting") ELSE Answers(c, "409")
    /\ Reads

Revalidate(c) ==
    /\ At(c, "revalidating") /\ accountLock = NoCall
    /\ IF Valid(c) THEN Goes(c, "scoping") ELSE Answers(c, "401")
    /\ Reads

(* authorized_document_scope in autocommit: the account, then its families.*)
ReadAccount(c) ==
    /\ At(c, "scoping") /\ accountLock = NoCall
    /\ IF Valid(c) THEN Goes(c, "comparing") ELSE Answers(c, "401")
    /\ Reads

ReadFamilies(c) ==
    /\ At(c, "comparing") /\ call[c].readings < 3
    /\ call[c].readings = 0 \/ granted = call[c].scope
    /\ Becomes(c, [call[c] EXCEPT !.readings = @ + 1, !.scope = granted,
           !.pc = CASE call[c].readings = 0 -> "encoding"
                    [] call[c].readings = 1 -> "vector"
                    [] call[c].readings = 2 -> "confirming"])
    /\ Reads

ScopeChanged(c) ==
    /\ At(c, "comparing") /\ call[c].readings > 0 /\ granted # call[c].scope
    /\ Finalises(c, Denied(c))
    /\ Reads

Encode(c) ==
    /\ At(c, "encoding")
    /\ Goes(c, "scoping")
    /\ Reads

(* vector_top10 and bm25_top10, each on its own snapshot of the corpus.    *)
Search(c) ==
    /\ call[c].pc \in {"vector", "lexical"}
    /\ \E F \in SUBSET Visible(call[c].scope) :
         Becomes(c, [call[c] EXCEPT !.fragments = @ \cup F,
                                    !.pc = IF At(c, "vector") THEN "lexical" ELSE "scoping"])
    /\ Reads

Confirm(c) ==
    /\ At(c, "confirming")
    /\ IF call[c].fragments \subseteq Visible(call[c].scope) THEN Goes(c, "scoping")
       ELSE Finalises(c, Denied(c))
    /\ Reads

(* The last reading of the scope, and what the evidence is worth.          *)
Deliver(c) ==
    /\ At(c, "comparing") /\ call[c].readings = 3 /\ granted = call[c].scope
    /\ \/ call[c].fragments # {} /\ Attempts(c, 1)
       \/ Finalises(c, [call[c] EXCEPT
              !.state = IF call[c].fragments = {} THEN "SIN_EVIDENCIA" ELSE "EVIDENCIA_INSUFICIENTE"])
    /\ Reads

(* The encoder or a search fails: a terminal failure without a state.      *)
RetrievalFails(c) ==
    /\ call[c].pc \in {"encoding", "vector", "lexical", "confirming"} /\ budget.failures > 0
    /\ budget' = [budget EXCEPT !.failures = @ - 1]
    /\ Finalises(c, [call[c] EXCEPT !.cause = TRUE, !.fragments = {}])
    /\ UNCHANGED <<world, stored>>

-----------------------------------------------------------------------------
(* The provider *)

(* before_send, in a transaction of its own before each POST.              *)
CheckSend(c) ==
    /\ At(c, "checking") /\ accountLock = NoCall
    /\ IF MayUse(c) THEN Goes(c, "sending") ELSE Finalises(c, Denied(c))
    /\ Reads

Respond(c) ==
    /\ At(c, "sending")
    /\ Finalises(c, [call[c] EXCEPT !.response = TRUE])
    /\ Reads

(* No key or too long a prompt, before anything is sent; any failure but   *)
(* 429; an answer whose citations are not valid.                           *)
ProviderFails(c) ==
    /\ At(c, "sending") \/ (At(c, "checking") /\ call[c].attempt = 1)
    /\ Finalises(c, [call[c] EXCEPT !.cause = TRUE])
    /\ Reads

RateLimited(c) ==
    /\ At(c, "sending")
    /\ IF LastAttempt(call[c].attempt)
         THEN Finalises(c, [call[c] EXCEPT !.cause = TRUE])
         ELSE Attempts(c, call[c].attempt + 1)
    /\ Reads

-----------------------------------------------------------------------------
(* _finalize and _present *)

LockOperation(c) ==
    /\ At(c, "locking") /\ operationLock[call[c].op] = NoCall
    /\ operationLock' = [operationLock EXCEPT ![call[c].op] = OperationHolder(c)]
    /\ Goes(c, "deciding")
    /\ UNCHANGED <<world, accountLock, row, budget>>

Released(c) ==
    /\ operationLock' = [o \in Ops |-> IF operationLock[o] = c THEN NoCall ELSE operationLock[o]]
    /\ accountLock' = IF accountLock = c THEN NoCall ELSE accountLock

Loses(c) ==
    /\ At(c, "deciding") /\ row[call[c].op].state # "ABSENT"
    /\ IF Matches(c) THEN Goes(c, "presenting") ELSE Answers(c, "409")
    /\ Released(c)
    /\ UNCHANGED <<world, row, budget>>

(* _authorize_final inside the transaction: the account stays locked.      *)
Decide(c) ==
    /\ At(c, "deciding") /\ row[call[c].op].state = "ABSENT"
    /\ IF call[c].state = "SIN_AUTORIZACION"
         THEN Goes(c, "storing") /\ UNCHANGED accountLock
         ELSE /\ accountLock = NoCall
              /\ accountLock' = AccountHolder(c)
              /\ Becomes(c, [(IF MayUse(c) THEN call[c] ELSE Denied(c)) EXCEPT !.pc = "storing"])
    /\ UNCHANGED <<world, operationLock, row, budget>>

Terminal(c) ==
    LET l == call[c]
        failed == l.state = "NONE" \/ l.cause
        asked == l.state = "EVIDENCIA_SUFICIENTE"
    IN  [session |-> l.session, query |-> l.query, state |-> l.state,
         operation |-> IF failed THEN "FAILED" ELSE "COMPLETED",
         generation |-> IF ~asked THEN "NOT_REQUESTED" ELSE IF failed THEN "FAILED" ELSE "SUCCEEDED",
         cause |-> l.cause, response |-> l.response, fragments |-> l.fragments]

(* The row, its fragments and its event, or an error of a constraint.      *)
Store(c) ==
    LET o == call[c].op
    IN  /\ At(c, "storing")
        /\ Released(c)
        /\ IF row[o].state = "ABSENT" /\ Lifecycle(Terminal(c))
             THEN /\ row' = [row EXCEPT ![o] = Terminal(c)]
                  /\ Becomes(c, [call[c] EXCEPT !.pc = "presenting", !.created = TRUE,
                         !.denials = IF call[c].state = "SIN_AUTORIZACION" THEN 1 ELSE 0])
             ELSE Answers(c, "ERROR") /\ UNCHANGED row
        /\ UNCHANGED <<world, budget>>

(* The stored row under today's authorisation; the account stays locked    *)
(* until the text is read.                                                 *)
Present(c) ==
    LET r == row[call[c].op]
    IN  /\ At(c, "presenting") /\ accountLock = NoCall
        /\ \/ ~Valid(c) /\ Answers(c, "401") /\ UNCHANGED accountLock
           \/ /\ Valid(c) /\ r.state # "SIN_AUTORIZACION"
              /\ r.fragments \subseteq Visible(granted)
              /\ accountLock' = AccountHolder(c)
              /\ Goes(c, "materialising")
           \/ /\ Valid(c)
              /\ r.state = "SIN_AUTORIZACION" \/ ~(r.fragments \subseteq Visible(granted))
              /\ IF AuditsDenial(c) THEN Goes(c, "denying") ELSE Answers(c, "403")
              /\ UNCHANGED accountLock
        /\ UNCHANGED <<world, operationLock, row, budget>>

Materialise(c) ==
    LET r == row[call[c].op]
    IN  /\ At(c, "materialising")
        /\ Becomes(c, [NewCall EXCEPT !.pc = "answered", !.shown = r.fragments,
               !.denials = call[c].denials, !.answer = IF r.operation = "FAILED" THEN "503" ELSE "200"])
        /\ Released(c)
        /\ UNCHANGED <<world, row, budget>>

(* _audit_denied_retry, in a transaction of its own.                       *)
AuditDenial(c) ==
    /\ At(c, "denying")
    /\ Becomes(c, [NewCall EXCEPT !.pc = "answered", !.answer = "403",
                                  !.denials = call[c].denials + 1])
    /\ Reads

-----------------------------------------------------------------------------
(* What happens around the calls *)

(* A statement fails: the transaction is rolled back, the caller gets 503. *)
Fail(c) ==
    /\ call[c].pc \notin {"new", "answered", "encoding", "vector", "lexical", "confirming", "sending"}
    /\ budget.failures > 0
    /\ budget' = [budget EXCEPT !.failures = @ - 1]
    /\ Answers(c, "ERROR")
    /\ Released(c)
    /\ UNCHANGED <<world, row>>

Spends ==
    /\ budget.changes > 0
    /\ budget' = [budget EXCEPT !.changes = @ - 1]
    /\ UNCHANGED <<stored, call>>

Login(s) ==
    /\ s \in Sessions \ opened /\ accountLock = NoCall
    /\ open' = open \cup {s} /\ opened' = opened \cup {s}
    /\ UNCHANGED <<granted, exception, corpus, stored, call, budget>>

Toggled(S, f) == (S \ {f}) \cup ({f} \ S)

(* A grant or an exception commits with the end of the account's sessions. *)
ChangeGrant(f) ==
    /\ Spends /\ accountLock = NoCall
    /\ granted' = Toggled(granted, f) /\ open' = {}
    /\ UNCHANGED <<opened, exception, corpus>>

ChangeException(f, e) ==
    /\ Spends /\ accountLock = NoCall
    /\ exception' = [exception EXCEPT ![f] = e] /\ open' = {}
    /\ UNCHANGED <<opened, granted, corpus>>

Logout(s) ==
    /\ Spends /\ accountLock = NoCall
    /\ s \in open /\ open' = open \ {s}
    /\ UNCHANGED <<opened, granted, exception, corpus>>

(* Activation, invalidation or quarantine of a document: no account waits. *)
ChangeCorpus(f) ==
    /\ Spends
    /\ corpus' = Toggled(corpus, f)
    /\ UNCHANGED <<open, opened, granted, exception>>

Step(c) ==
    \/ FindNone(c) \/ FindExisting(c) \/ Revalidate(c) \/ ReadAccount(c) \/ ReadFamilies(c)
    \/ ScopeChanged(c) \/ Encode(c) \/ Search(c) \/ Confirm(c) \/ Deliver(c)
    \/ CheckSend(c) \/ Respond(c) \/ ProviderFails(c) \/ RateLimited(c)
    \/ LockOperation(c) \/ Loses(c) \/ Decide(c) \/ Store(c)
    \/ Present(c) \/ Materialise(c) \/ AuditDenial(c)

Next ==
    \/ \E c \in Calls :
         \/ \E s \in Sessions, q \in Queries, o \in Ops : Request(c, s, q, o)
         \/ Step(c) \/ RetrievalFails(c) \/ Fail(c)
    \/ \E s \in Sessions : Login(s) \/ Logout(s)
    \/ \E f \in Fragments :
         \/ ChangeGrant(f) \/ ChangeCorpus(f)
         \/ \E e \in Exceptions : ChangeException(f, e)

Spec == Init /\ [][Next]_vars

-----------------------------------------------------------------------------
(* Properties *)

(* Nothing is shown or stored after its permission was withdrawn: when the *)
(* text is read, and when a row with fragments commits, the session is     *)
(* open and every fragment is permitted, not only was when it was checked. *)
ReadUnderPermission ==
    [][\A c \in Calls :
         (call'[c].shown # call[c].shown
            \/ (row' # row /\ At(c, "storing") /\ call'[c].created
                           /\ row'[call[c].op].fragments # {})) =>
             Valid(c) /\ row'[call[c].op].fragments \subseteq Permitted]_vars

(* Fragments withdrawn before an attempt began are not sent to the         *)
(* provider by that attempt, retries after a 429 included.                 *)
SentUnderPermission ==
    \A c \in Calls : At(c, "sending") => call[c].fragments \cap call[c].withdrawn = {}

(* Every answer 403 leaves exactly one denial event, whether the call      *)
(* stored the denial, found it stored, or was denied a stored answer.      *)
DenialAuditedOnce ==
    \A c \in Calls : call[c].answer = "403" => call[c].denials = 1

(* A call fails only if a statement fails: whoever loses a race for an     *)
(* operation is answered from its row, and no row is refused by the        *)
(* constraint on its life cycle, however late its permission went.         *)
OnlyFailuresFail ==
    Cardinality({c \in Calls : call[c].answer = "ERROR"}) <= MaxFailures - budget.failures
=============================================================================
