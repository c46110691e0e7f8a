# Dashboard de Indicadores de Riesgo Legal: TLA+ specifications

TLA+ models of the backend of the dashboard (`src/backend/app`, Python, FastAPI
over PostgreSQL), the TLC configurations that check them on small instances and
the theorems about them that TLAPS checks.

    tlc -workers 2 -config MCDispatch.cfg MCDispatch     # one run
    tlapm DispatchSafety.tla                             # one module of proofs

`PROJECT.json` lists every run, its properties, a mutation of the code that
breaks each of them, the source lines each definition translates, the hazards
and the theorems.

## 1. The system

A legal department drops files (CSV, XLSX, PDF, DOCX) in controlled sources. A
daily Airflow DAG posts them to the backend and asks for the downstream
processing of each; analysts correct quarantined records, query the documents
and read indicators. The backend is stateless: every handler is a synchronous
function in a thread of its own, and what it must remember is a row of
PostgreSQL. There is no queue and no scheduler inside. All concurrency is
between transactions (READ COMMITTED, and REPEATABLE READ in Analytics),
between the short transactions of one call and whatever happens in the gaps,
and between a call and the retry of a caller that did not see its answer.

| Component | State it keeps | Operations |
|---|---|---|
| Ingestion (`ingestion/`) | `ingest_file`, `stored_object`, `source_record`, files under the storage root | stage, detect, extract, deduplicate, number the revision, persist, reject, quarantine |
| Coordination, dispatch (`coordination/service.py`) | `coordination_dispatch` | dispatch, claim, complete, fail, recover stale |
| Coordination, KPI (`kpi_integration.py`) | `job_run` (KPI_RECALCULATION) | project, reinject, final OCR, schedule, resume, execute |
| Coordination, proactive (`proactive_integration.py`) | `job_run` (PROACTIVE_ANALYSIS), an advisory lock | schedule, execute, finalize, reconcile |
| Runners (`runners.py`, `reconstruction.py`) | none | rebuild the input from the tables, call the domain |
| Validation, quarantine (`validation/`) | `quarantine_item`, `quarantine_transition` | validate, reinject, keep pending, discard |
| Projection (`projection/`) | the analytic entities, `record_application` | project a record: INCORPORADO, IDEMPOTENTE, CONFLICTO |
| Analytics (`analytics/`) | `analytic_run`, `kpi_observation`, proactive snapshots, evaluations, findings | recalculate, record failure; freeze, evaluate, finalize; read-only queries |
| Documents (`documents/`) | `document`, `document_version`, `ocr_run` | create candidate, reject, activate, invalidate |
| OCR (`ocr/`) | none | rasterize, recognise, consolidate, aggregate confidence |
| RAG indexing (`rag/indexing.py`, `index_repository.py`) | chunks, terms, receipts, `document_index_certificate` | chunk, embed, persist and certify |
| RAG queries (`rag/service.py`, ...) | `rag_operation`, `rag_final_fragment` | authorize, retrieve, send, finalize, present |
| Security (`security/`) | accounts, roles, grants, `access_session` | login, refresh, logout, revalidate, disable, assign roles |
| Audit (`audit/`) | `audit_event` (append-only) | write inside the caller's transaction, query |
| Embeddings, corpus, storage, config | none of their own | wrappers, path checks, settings |
| Airflow DAG | task states of Airflow | ingestion, then KPI schedule, then proactive schedule; one retry each |
| Frontend, smoke script, provisioning | none | presentation and tooling |

How they interact. The DAG calls Ingestion and then, for every result with a
target, `dispatch`. Dispatch claims the row of the file in one short
transaction, runs a runner with no transaction open, and closes the row in
another. The runner asks `resume` whether the operation already has its durable
job; if not it runs Validation (tabular) or Documents, OCR and RAG indexing
(documents), and hands the result to the KPI integration, which commits the
projected data together with the job that asks for their recalculation, and
then executes the job through Analytics. The proactive job reads the
observations that Analytics keeps. Every operation revalidates its principal
with Security and writes Audit events on its own transaction.

What is hard here:

* **idempotence across calls**: one `operation_id` is generated once per file
  and everything downstream is deduplicated by it, so it has to survive
  retries, rollbacks, crashes and takeovers;
* **claims without fencing**: `complete` and `fail` look at the state of the row,
  not at the attempt, and no heartbeat is sent;
* **locks released between the steps of one operation**: the advisory lock of a
  KPI job is taken four times, so two callers may execute it at once;
* **last writer by date**: observations of one month are overwritten by runs of
  different operations in any order, guarded by a calendar day;
* **optimistic activation**: the active version of a document is read before
  minutes of embedding and compared after it;
* **snapshots older than the table lock**: the proactive core works in REPEATABLE
  READ under an advisory lock that its connection may lose;
* **permissions read, then used**: a query takes seconds during which grants,
  sessions and documents change;
* **bytes and rows that are not one transaction**: an object is renamed into
  place before its receipt commits;
* **two layers that read the same cell with rules of their own**;
* **audit written on a transaction that is rolled back**.

What makes each part correct: a file is processed once unless a claim was
overdue, and is eventually processed; data never commits without the job that
counts it, a completed job has its runs, observations never lose a fact; one
correction per quarantined item; the active version of a document is certified
and not stale; one answer per RAG operation and never one without current
authorization; a closed session never acts and an administrator always remains.

## 2. Plan and state

| Module | Models | Promise | Checked by | Proved in |
|---|---|---|---|---|
| `Dispatch` | durable dispatch | one execution of a file whose claims were never overdue; every file settles | `dispatch`, `dispatch_denial` | `DispatchSafety` |
| `KpiJob` | KPI jobs over the recalculation | a committed fact is counted once its job is COMPLETED | `kpi`, `kpi_midnight` | `KpiJobSafety` |
| `DocumentVersion` | process_candidate, certificate, activation, invalidation | implements `VersionLife` | `documents`, `documents_retry` | `DocumentProofs` |
| `VersionLife` | the abstract life of the versions of a document | a version gets one text, becomes ready after it, only a ready one is put in force | `documents` (`LivesAsPromised`) | `DocumentProofs` |
| `Sessions` | login, refresh, logout, administration | a session acts only under what it was begun with; an administrator remains | `sessions` | `SessionsProofs` |
| `RagQuery` | one query: scope, retrieval, provider, terminal row, presentation | nothing is shown, stored or sent after its permission went | `rag` | `RagProofs` |
| `ProactiveJob` | schedule, freeze, evaluate, finalize, reconcile | one run per job, over one frozen input, said by the job | `proactive` | `ProactiveProofs` |
| `Intake` | upload, validation, projection, corrections | objects, receipts, records, items and entities agree | `intake` | `IntakeProofs` |
| `ProactiveRules` | closure, evaluation and finding of a series | the frozen input is enough and says what it covers | `rules` | `RulesProofs` |
| `Chunking` | structural windows of a text | the fragments cover the text in order | `rules` | `RulesProofs` |
| `IndexCertificate` | tables and triggers of the index, indexers and other writers | a certificate stays true | `rules` | `RulesProofs` |
| `TabularRules` | sample of a CSV, contract of a row, what projection can represent | the layers agree on a row | `rules`, `rules_absent` | `RulesProofs` |

The `MC...` modules give the constants their values. Two modules compose:
`DocumentVersion` instantiates `VersionLife` under a refinement mapping, and
`MCRules` runs the four small machines of the last rows side by side. The
other interfaces are contracts: `Dispatch` treats the runner as a step that returns
or raises, and `KpiJob`, `DocumentVersion` and `Intake` begin where the runner
begins, with callers that repeat a call that was not answered; `DocumentVersion`
ends where the KPI job is stored and `Intake` where data and job commit, which is
where `KpiJob` begins; `RagQuery` takes from `Sessions` that a change of a grant ends
the sessions of the account; `DocumentVersion` takes from `IndexCertificate` that a
certified text is immutable. A product of these machines is out of TLC's reach
at bounds where anything happens.

Order of the work: what every file goes through first, then the component with the
longest gap between read and use, then the rest. What is left, in order: the
structural rules of headers and the relationships between entities in `Intake`;
liveness of `ProactiveJob` under an advisory lock that holds.

## 3. Dispatch

`Dispatch.tla` models `CoordinationService.dispatch` and `recover_stale` over
`app.coordination_dispatch`.

| Model | Code |
|---|---|
| `dispatch[f]` | committed row of the pair (file, target); the target is a function of two columns nobody updates, so the pair is the file |
| `lock[f]`, `recovered[w]` | row locks and uncommitted FAILED rows of an open transaction |
| `overdue`, `seen[w]` | rows past the threshold now, and at the CURRENT_TIMESTAMP of the transaction of `w` |
| `pc, file, op, attempt, result` | the locals of a call |
| `Begin`, `Skip`, `Deny`, `LeaveDenied` | first transaction up to the target; the denied path |
| `Upsert` | `get_or_create_dispatch` (INSERT .. ON CONFLICT DO UPDATE waits for the row lock) |
| `ReturnCompleted`, `StartRecovery`, `RecoverRow`, `Conflict`, `Claim` | the rest of the first transaction and its commit |
| `StartMaintenance`, `CommitMaintenance` | `recover_stale` on its own |
| `RunnerReturns`, `RunnerRaises`, `Complete`, `Fail` | downstream and the closing transaction |
| `Crash`, `Expire`, `DeadlockAbort` | death of a process, passing of the threshold, PostgreSQL's deadlock detector |

`op` is a number: `gen_random_uuid()` is "the next unused one", and what an INSERT
that is rolled back drew is lost, as in the code. An insert not yet committed is
visible to no other transaction: `StateInTx` gives the row as its own
transaction sees it. The row lock is an explicit variable, since the answer and the
recovery depend on who waits for whom; a conflicting statement re-reads the
version that the lock holder leaves (`Pending` reads `dispatch` when it is evaluated).

Runs

* `dispatch` (46 726 states, safety and liveness together). The run resumes a system in
  one of two states, so that what takes many steps to set up need not be explored.
  In `OneIsNew` a new tabular file stands beside a document that is done and
  a file that ingestion rejected, with one raise, one crash, one live claim past the
  threshold and one denial: a zombie, its successor and a retry of
  either meet, with two calls at a time because a dead process frees its caller. In
  `TwoAreStale` the processes of two dispatches died long ago: two recoveries
  visit each other's rows in opposite orders, deadlock included. Both are states that
  `Init` reaches with more calls and faults, up to the answers of calls that are gone; the theorems of section 12 are about every behaviour from `Init`.
* `dispatch_denial`: see Findings.

Fairness, and why the code justifies it: a live thread runs on and its runner
ends (the runners have no unbounded wait but the OCR, embedding and SQL calls);
a statement waiting for a row lock is queued by PostgreSQL in order of arrival
(strong fairness of the statements that wait); time passes; and every routed file
is dispatched again and again, since the DAG posts the controlled sources
each day and dispatches every result, the duplicates included. Crashes, denials,
and the maintenance call get no fairness. `RunnerRaises` is bounded and shares
its fairness with `RunnerReturns`: a downstream that fails for ever settles
nothing, by design. A claim may be overdue once: with one overdue at
every attempt two executions could take turns for ever.

What the properties say (`ExecutionsAreSound` and `RowsMoveSoundly` are conjunctions of the ones
named here): an execution always carries the stored identity of
its row and an attempt number of its own (`DurableIdentity`, `DistinctAttempts`),
nobody takes away a claim that is not overdue (`FreshClaimIsKept`), rows only
advance and a COMPLETED one is final (`RowsOnlyAdvance`). For a file none of whose
claims was ever overdue there is one execution at a time
(`NoOverlapUnlessOverdue`) and an answer COMPLETED is what is stored
(`ReportedIsDurable`). The history variable `everOverdue` is there because both are
false without it: that is the missing fencing.

The model has no heartbeat because the code sends none: `coordination/service.py:5` speaks of a
heartbeat transaction, and `repository.heartbeat` has no caller. A claim is overdue
`stale_threshold_seconds` after it was made, whatever its execution does.

## 4. KpiJob

`KpiJob.tla` models `KpiIntegrationService` over `KPIRecalculationService`.

| Model | Code |
|---|---|
| `job[o]`, `run[o][m]` | `job_run` by operation, `analytic_run` by the identity derived from operation and request |
| `origin[r]` | the operation that incorporated a record (`record_application` INCORPORADO, or the final OCR) |
| `obs[c]` | `kpi_observation` by logical key: its cut and, for its value, the set of records that were counted |
| `item[i]` | `quarantine_item.state` |
| `opLock`, `runLock` | `pg_advisory_xact_lock` of the operation, `LOCK TABLE analytic_run` |
| `Begin`, `Resume`, `RecordOcr`, `OpenTransaction` | the runner before the job |
| `Acquire`, `FoundJob`, `CreateJob`, `RefuseReinjection`, `Raise` | the materialising transaction |
| `Check`, `StartRun`, `FinishRun`, `RunRaises`, `RecordFailure`, `LoseFailure`, `FailJob`, `CompleteJob` | `_execute_if_needed` and `recalculate` |
| `Crash`, `Discard`, `NextDay` | death of a process, `ValidationService.discard`, midnight |

A transaction that holds the operation's lock is one step at its commit, since
what it reads and writes is protected by that lock or by row locks it keeps
until then (`FOR UPDATE` of the item, unique keys of the entities). The run is two steps,
`StartRun` (table lock, then snapshot) and `FinishRun` (upserts and commit), because
data commits in between. An indicator's arithmetic is replaced by the facts it
counts: a wrong value is one that misses a committed fact.
Which month a record counts in, and which cells, are constants; one record that counts in
two months makes a job with two runs. Kinds of operation that share a request per month
share its run identity. The proactive snapshot that pins `analytic_run_id` of an
observation changes a reference, not its value: see `ProactiveJob`.

Runs

* `kpi` (527 249 states, safety and liveness together). Two callers, a
  correction of one quarantined item whose record counts in two months, a scanned document
  of the current month, one exception, one crash, a discard and one midnight. Two
  callers suffice for every pair of steps of one job or of two jobs; the two operations share
  a cell, and the job of the correction has two runs. Tabular
  projection differs from the correction only in the absence of an item. Two corrections
  of one item are in `intake`, and the theorem `OneReinjection` is
  about any number of them (`ItemIsReinjectedOnce`).
* `kpi_midnight`: see Findings.

Fairness: as in Dispatch; the runs are started again because a dispatch that was not
answered COMPLETED is posted again and its runner begins with `resume`. The calls
that nobody repeats (reinjection, schedule) get none, and the property is only
about operations that are dispatched.

What the properties say (the first two are `JobsAreBacked`): data commits with the job that asks for every cell they
count in (`DataComesWithItsJob`); COMPLETED implies that all the runs are
(`CompletedJobHasItsRuns`), with two callers executing, failing and finishing one job; one
reinjection per item (`ItemIsReinjectedOnce`); observations never lose a fact and cuts
never go back (`ObservationsOnlyGrow`), which needs the table lock before the snapshot;
and a completed job's facts are counted (`ReflectedOnItsDay`) unless they were committed
on a later day than their cut (`spanned`).

`FailJob` writes FAILED without looking at the state, as the code does: a caller
that loses can take a COMPLETED job back to FAILED, and if the dispatch is COMPLETED
already nobody resumes it. Nothing in the repository promises otherwise, and its
data are counted, so no property is about it; `JobsSettle` says that the job was
settled, not that it stays so.

## 5. DocumentVersion

`DocumentVersion.tla` models `process_candidate` for the versions of one document, with
the index certificate, the activation, the invalidation and the manual reprocess.

| Model | Code |
|---|---|
| `version[o]` | row of `document_version` of operation `o` (unique column) with its `ocr_run`; PENDIENTE never outlives its transaction and the code never writes FALLIDA |
| `cert[o]` | `document_index_certificate` and the fragments: the text they were cut from |
| `active`, `invalidated` | `document.active_version_id`, `invalidated_at is not null` |
| `activations[o]` | audit events DOCUMENT_VERSION_ACTIVATED of the version |
| `jobs` | operations whose KPI job is stored (module KpiJob has its life) |
| `requestLock[o]` | session advisory lock of a manual reprocess |
| `engine`, `Reading` | the OCR engine installed and what it reads in the file |
| `pc, op, reading, expected` | the locals of a call |
| `Dispatch`, `Request`, `Lock`, `Refuse`, `Answer`, `Verify` | how a call begins: runner and `resume`, or `http_service.reprocess` |
| `Recognise` | OCR, outside any transaction |
| `RefuseMismatch`, `Reject`, `RefuseTerminal`, `Propose` | the four ends of the candidate transaction |
| `Certify`, `SourceChanged` | `persist_certified_index` |
| `CheckActive`, `NotReady`, `Activate`, `StaleWrite`, `Converge`, `GiveUp` | from `version_is_active` to the answer |
| `FinalOcr` | `process_final_ocr`: the job is stored |
| `Fail`, `Invalidate`, `Upgrade` | an exception or the death of a process, `DocumentsService.invalidate`, another engine |

Each transaction is one step. The candidate transaction, the activation and the invalidation
hold the lock of the document row from their first read; the certificate holds that of
the version row, which the candidate transaction takes too, and a certified text is
immutable by trigger. `version_is_active` is one SELECT. What happens between them
(minutes of OCR and of embedding) is a gap in which every other action is enabled. A text is
a model value; the OCR result "Pendiente" (no confidence at all) is folded into the rejected
one, from which the code does not tell it apart. `resume` at the beginning of a dispatched call
is the guard of `Dispatch`. The calls of `_authorize` before each transaction raise
like any other failure. The number of a version decides nothing and is left out.
`Eligible` leaves out the conditions on the file (COMPLETADO, ACCEPTED, no pending quarantine),
which hold of a file that has been dispatched as a document.

A dispatched operation may be served by several calls at once: module Dispatch
shows that an overdue claim is given to a second execution. Manual operations have their
own lock.

Runs

* `documents` (255 994 states, safety, liveness and refinement together). Two callers, the
  dispatch and two manual reprocesses of its version, four engines (one text; another
  text with and without confidence; none) and one change between them, two failures, one
  invalidation. Two callers let an attempt of the dispatch race with a second
  one or with a reprocess that moves the pointer under it; the failures give an
  attempt that breaks off and a retry that breaks off again; the change of engine lets a
  version that one call is certifying be rejected by another.
* `documents_retry`: see Findings.

All runs use a file with pages that need OCR: without them `Eligible` is false and the
model is a part of this one. The theorems hold for both.

Fairness: a live thread goes on (`WF` of `Works`), and a dispatch that was not answered
is repeated for ever, while a thread is free again and again (`SF` of `Dispatch`).
Manual requests get none. An engine that
reads another text than the one stored makes every retry fail (`RefuseMismatch`), since the stored text of
the operation is never rewritten: `DispatchSettles` is stated up to `AtOdds`. The code offers no way
out of that but a manual reprocess, and this only if the OCR result was not good.

What the properties say (`ActivationsAreSound` and `LateCallsAreRefused` are conjunctions): what is in force is what the retrieval can use
(`ActiveIsSearchable`), an activation replaces what its candidate had read
(`NoLostActivation`, until the first invalidation), races and retries put a version in force
once (`ActivatedOnce`, likewise) and at least once if it was dispatched
(`DispatchedIsActivated`), a rejection is final (`RejectedStaysOut`) and a repeated dispatch
ends (`DispatchSettles`). `LivesAsPromised` is the refinement: under the mapping of the rows to
the variables of `VersionLife`, every step of a call is a step or a stutter of it.

What the code does and no property states, because nothing promises otherwise: an
invalidation made while a candidate is being processed is undone by its activation; a
manual reprocess that broke off between LISTA and the activation is answered by its
retry without activating (`Verify` goes to `finishing`); an engine that reads the same text
with less confidence turns the active version into RECHAZADA and leaves it in force, where
no query finds it. `ActiveIsSearchable` says so: RECHAZADA in force means that some engine reads its
text without confidence (`ReadWithoutConfidence`).

## 6. Sessions

`Sessions.tla` models `security/service.py` and `security/repository.py`: the accounts, their roles
and sessions, and every transaction that reads them to decide or changes them.

| Model | Code |
|---|---|
| `account[a]` | `user_account` with its roles: state, `authorization_version`, and a number for the password |
| `session[s]` | `access_session`: state, owner, the version it was issued for, a number for the refresh hash |
| `lock` | row locks of both tables, and the advisory lock of the bootstrap (`Boot`) |
| `txn[w]`, `pc[w]` | one transaction: its kind, its author, what it has read |
| `Administer`, `Enter`, `DenyActor` | an administrative route; `_authoritative_principal` with its `FOR UPDATE` of account and session |
| `LockTarget`, `Count`, `KeepLast`, `Write`, `NoRowFound` | the guards and the UPDATE of disable, activate, reset, assign, create |
| `Choose`, `List`, `Close`, `Commit` | the accounts of a grant or exception; `invalidate_sessions` in its three statements |
| `Login`, `Verify`, `Issue`; `Refresh`, `Rotate`, `CommitRefresh`; `Logout`; `Request` | the operations of a user |
| `Bootstrap`, `Found`, `AlreadyFounded` | the first administrator |
| `Fail`, `DeadlockAbort`, `Expire` | a rollback, PostgreSQL's deadlock detector, eight hours |

A statement that locks rows is one step, enabled when they are free, and reads them as the last commit
left them; counts and lists of accounts take no lock. What a transaction writes appears at its
commit. Tokens and passwords are numbers: what matters is whether one is still the current one.

Run `sessions` (548 946 states): two requests at a time over two accounts and two sessions, from an
empty system and from one with two administrators, with any two changes or refreshes, logins,
logouts, bootstraps, expiry and one rollback. Two transactions are the least for a race, two
changes let one undo what the other relied on, two accounts are the least for "the last
administrator". Safety only: nothing here has to happen.

What the properties say: a session that the check lets through was begun with the present password
and roles of its account, logins in progress included (`ValidSessionIsCurrent`); a closed one never
comes back, though its account does (`ClosedStaysClosed`); an administrative change commits while its
author is an administrator with an open session, a refresh token is exchanged once, and a
bootstrap commits only without an administrator (`GroundHoldsAtCommit`, a conjunction); an
active administrator remains (`AdministratorRemains`); and the sessions that a change closes are
those it reports (`ClosedIsReported`).

Two of them name an exception. `is_last_active_ti` counts without a lock, so two
administrators that disable *themselves* at once leave none (`overlap`); that of two who disable each
other one is refused needs the lock of the author's row. And a grant or an exception lists
the sessions before it locks the accounts: a session committed in between is closed without an event,
although `security/service.py:100` speaks of an event for each. `is_last_active_ti` also
answers "the last" for a DISABLED account that kept its TI role while one other TI is active; the
action is then refused, which no property is about.

## 7. RagQuery

`RagQuery.tla` models the queries of one account: `rag/service.py`, `retrieval.py`, `provider.py` and
`operation_repository.py`, while administrators and documents move around them.

| Model | Code |
|---|---|
| `open`, `granted`, `exception`, `corpus` | valid sessions, families of the roles, exceptions of documents, versions in force |
| `row[o]` | `rag_operation` with its final fragments, by key or by call |
| `accountLock`, `operationLock` | the account row held by whoever reads a scope; the advisory lock of the operation |
| `Request`, `FindNone`, `FindExisting`, `Revalidate` | identity and retry of a query |
| `ReadAccount`, `ReadFamilies`, `ScopeChanged`, `Encode`, `Search`, `Confirm`, `Deliver` | retrieval, which reads the scope four times, in autocommit |
| `CheckSend`, `Respond`, `ProviderFails`, `RateLimited` | the attempts of the provider, `before_send` before each |
| `LockOperation`, `Loses`, `Decide`, `Store` | `_finalize`: the terminal row, under today's authorisation |
| `Present`, `Materialise`, `AuditDenial` | `_present` and `_audit_denied_retry` |
| `Fail`, `RetrievalFails` | a failing statement, a failing encoder or search |
| `Login`, `Logout`, `ChangeGrant`, `ChangeException`, `ChangeCorpus` | the rest of the system; a change of grants ends the sessions of the account, as `Sessions` shows |

Ranking and fusion are a choice among the visible fragments: the properties are about which fragments
may be used, not which are best. A query is its canonical text with its context references.

Run `rag` (1 683 571 states): two calls, each with the idempotency key or without, two fragments, any
initial grants, two sessions, one change and one failing statement at any moment. One change
is the least that withdraws a permission, and it can fall into every gap of both calls. A call is made once, so the
run ends (deadlock is not checked); nothing is claimed to happen eventually, since a provider may not answer.

What the properties say: text is shown, and a row with fragments commits, only while the session is open
and every fragment permitted (`ReadUnderPermission`); what was withdrawn before an
attempt is not sent by it, the second and third after a 429 included (`SentUnderPermission`);
an answer 403 has left one denial event, on either path (`DenialAuditedOnce`); and a call ends
in an error only if a statement failed, so that who loses the race for a key is answered from the row, and
no downgraded row is refused by `ck_rag_operation_lifecycle_consistency` (`OnlyFailuresFail`).

What the code does and no property states: a document that leaves the corpus while its query is
answered stores SIN_AUTORIZACION under the key, and every retry with that key is denied for ever, even if
the document returns.

## 8. ProactiveJob

`ProactiveJob.tla` models `ProactiveIntegrationService` over `ProactiveAnalysisService`, with the
unique keys, foreign keys and triggers of migration 0013.

| Model | Code |
|---|---|
| `obs[c]` | `kpi_observation` of the month of a series: its run and a revision that stands for its value |
| `job[o]`, `runs[o]`, `latest` | `job_run`, `analytic_run` with its frozen rows, the fingerprint of the last completed run |
| `execLock`, `jobLock`, `runLock` | the advisory lock of the execution (a connection of its own), row locks |
| `view[w]`, `changed[w]` | the snapshot of a REPEATABLE READ transaction, and which rows it reads changed since |
| `Schedule`, `Enter`, `Open`, `Close`, `Reconcile`, `HandlerRaises` | the integration: `schedule`, `execution_lock`, `_execute_locked`, `_finalize_result`, `_reconcile_failure` |
| `Freeze`, `FindRun`, `FindNothingNew`, `FindWork`, `CreateRun` | `_freeze` |
| `Finalize`, `LockRun`, `CompleteRun`, `RecordFailure`, `LoseFailure` | `_finalize` and `_record_proactive_failure` |
| `Serialization` | a serialization failure: three attempts |
| `FreezeRaises`, `FinalizeRaises`, `Crash`, `LoseLock`, `Recalculate` | exceptions, death, a lost connection, `KPIRecalculationService` |

A fingerprint is the set of rows it hashes, and derived identifiers are injective. `Depth` of the model stands for
the five or six months of the closure, of which `ProactiveRules` says that they are enough.

Run `proactive` (2 156 550 states): two workers, two intervals, two months, two values of
each, one exception, and one process that dies or one lock that is lost. Two workers with one lost lock
give two executions of one job at once; two intervals let the second find the first's
fingerprint; two revisions give a recalculation before and after the snapshot. Safety only: the DAG retries
once, which is no fairness.

What the properties say: a job has one run and no recalculation takes the pair (observation,
run) from under a frozen row (`RunsOwnTheirInput`); COMPLETED carries the fingerprint of a run completed and
audited once, NO_RELEVANT_WORK owns no frozen row (`JobTellsItsRun`); what a run froze never changes, a
completed run is never failed, and while the advisory lock holds a finished job is never opened, failed or
audited again (`SettledStaysSettled`).

The last clause needs its condition: an execution whose lock was lost may turn a job that
another one has ended as NO_RELEVANT_WORK to FAILED. `OneRunPerJob` depends on the closures of two
snapshots having a month in common: with a lost lock *and* a series that advanced by the whole depth
between them both runs would be stored, and `linked_core_run` would raise. `TwoRuns` (section 12) says that nothing
less gives a second run. Five months do not pass between two attempts of a call. Stated nowhere, so not a property: a run frozen on old
input and retried after a newer one was completed becomes the "latest"; two
intervals that overlap may analyse the same fingerprint; failures are audited as often as they happen.

## 9. Intake

`Intake.tla` models the way from a file to the entities: `IngestionService.ingest_stream`,
`ValidationService`, `ProjectionService` and the runner that chains them.

| Model | Code |
|---|---|
| `stage[u]`, `answer[u]`, `object`, `receipt[u]` | a call of `ingest_stream`; the object store; `ingest_file` with its revision |
| `sourceLock`, `itemLock`, `fileLock` | `lock_source`, `FOR UPDATE` of an item, the advisory lock of the operation |
| `item[i]` | `quarantine_item`, of a file, of an invalid row or of a conflict |
| `transitions[i]` | its rows of `quarantine_transition` that leave Pendiente |
| `applied`, `entity[e]`, `job` | `record_application`, the entity rows, the files whose operation has its job |
| `inserted[w]`, `results[w]` | what the open transaction of a worker has inserted: others that would insert the same key wait |
| `Stage`, `LookUp`, `FindExisting`, `InsertFile`, `CollideFile` | staging, then the transaction under the lock of the source |
| `Deny`, `LeaveDenied`, `LoseDenial`, `FailUpload`, `LoseCommit`, `CrashUpload` | its failures, each with what it does to the object |
| `StartValidation`, `FinishValidation`, `CollideItem` | `validate` |
| `FindJob`, `StartProjection`, `Project`, `Repeat`, `Mismatch`, `CommitProjection` | `project_records`, target by target |
| `Reinject`, `Discard` | corrections; a reinjection goes through the same projection |
| `Transition` | `insert_transition`, in the commit that settles an item |
| `DeadlockAbort`, `Abort` | PostgreSQL's deadlock detector, an exception or a crash |

A row is an entity, a payload and whether it obeys its contract; which rows do is
`TabularRules`. A row has one target here, where the code has up to three, in a fixed order. A file
without rows gets no job.

Run `intake` (441 844 states): two uploads of one file of the daily source; two with one manual key, one of them above
the limit; two workers, two files that declare two entities in opposite orders and disagree on one, an
invalid row, two corrections that any item may be sent, one of which disagrees too, and one fault. It is the least in which dedup, key, revision,
conflict and deadlock all occur together. An upload is made once, so deadlock is not checked. Files that go to quarantine whole, malformed
headers and repeated row numbers (`CUARENTENA`, `Malformed`, `Ambiguous`) are in the module
and not in this instance.

What the properties say: receipts and objects agree, uploads of one source create one receipt with the next
revision (`UploadsAreSound`); once a file has its job, every valid row has its application and every
invalid one its item (`EveryRecordIsAccounted`); one record incorporated each entity, whoever waited
for whom, and every other agrees or is a conflict with an item of its own
(`EntityIsItsIncorporation`); an item has one transition out of Pendiente if it is settled and none otherwise, so that of two corrections, or
of a correction and a discard, one commits (`ItemsSettleOnce`). A correction that breaks the contract keeps
its item Pendiente; its transition is left out.

`ObjectsMatchReceipts` names in `excused` where they part. The object is unlinked on any
exception of the transaction, a commit included that the server executed and the caller did
not learn of, and then a committed receipt has no object; a denial whose commit fails, or a
crash between the rename and the commit, leaves an object without a receipt.
`UploadsNeverCollide` excepts a manual key that was spent on a file above the limit: its
receipt has no digest, so a later upload with the key either breaks the unique index or raises
when it compares.

What the code does and no property states: two sheets of one workbook may repeat a row
number, and such a file raises in validation each time; the item of a conflict that is reinjected unchanged
becomes Reinyectado though nothing new is incorporated; a controlled file above the limit gets a new revision
every day; a litigation that is projected before its contract keeps a NULL relation.

## 10. Four small machines

`ProactiveRules`, `Chunking`, `TabularRules` and `IndexCertificate` are each a machine of its own. `MCRules` puts
them side by side: a behaviour moves one of them, so the run `rules` (676 500 states) has the
sum of their states. Deadlock is not checked, since a text is cut once and a row edited a bounded number of times.

**ProactiveRules** (`analytics/proactive_rules.py`) has the observations of a series, written
in any order by `Recalculate`, and the closure, evaluation, recurrence, trend and finding as
operators. A month is a number, a reading a value, `Missing` (NO_DISPONIBLE) or `Absent`. With seven months
and three values every case of both kinds of rule occurs, and the month before the longest closure.
`FrozenInputSuffices`: what a run freezes is evaluated like the whole history, and its declared window
covers it. `RecurrenceIsCounted`: the recurrence is the number of the last four months whose own
analysis would have signalled, though the code has two functions for it.

**Chunking** (`rag/indexing.py`, `corpus/chunker.py`): one action per turn of the loop of
`structural_chunk_text`. `FragmentsCoverText`: no token is left out, every fragment reaches beyond
the one before, fits the window and starts within the overlap, labels follow the
text, and a text without marks is cut as `chunk_text` cuts it. The instance has a window of 4 and an
overlap of 1, and every marking of texts with 0, 3 and 7 tokens (none, less than a window,
more than two).

**IndexCertificate** (migration 0014, `rag/index_repository.py`): the rows of the index of one version,
any SQL statement of two sessions through the triggers, and indexers that embed first and persist
later. `CertifiedIndexIsKept`: a committed certificate stays true of the text, the fragments, the embeddings and
the receipts, and what `persist_certified_index` returned stays indexed. With four statements
and two fragments each session can write, be overtaken and meet what the other left. The variable `late` names
the one way past the triggers: the INSERT of a term whose fragment is not yet visible finds no
version to lock and no certificate, and passes; its foreign key is looked at when the
statement ends, and finds the fragment that was committed, with its certificate, meanwhile. The term is
then part of a certified fragment, though 0014 says "certified chunk terms are immutable", and a
later indexer of the version refuses it. No code of the application inserts terms that way.
The content of a fragment is not looked at by the triggers, only that it is embedded.

**TabularRules** (`ingestion/detection.py`, `csv_policy.py`, `validation/`, `projection/service.py`):
the forms that a cell can have, what validation says of a row, which targets
projection makes of it and whether it can represent them, and what the sample of a CSV shows. The instance has
every row of the four families with two cells in another form, and every sample of CSVs up to three by three.
`PortableRowsAreIncorporated`: a row of forms that both layers read, which validation lets through, is
incorporated as something. `RegularCsvIsRead`: exactly which samples refuse a correct
CSV, namely one that ends inside a character, or short of the last field of a row below the first; a
file within `csv_sample_bytes` is always read.

Outside the portable forms the layers disagree, and each such row fails the dispatch of its whole file:
dates with slashes or spaces, numbers in text columns, "1,500" and "Infinity" pass validation and
raise in projection; "NaN" raises in validation itself; the columns of an incident or a matter in a file of another
family are projected and never validated; a date cell of a workbook becomes a string
with a time and is always INVALID_DATE. Only one of these contradicts what the repository says: see the
last finding.

## 11. Findings

1. **A denied dispatch leaves no audit event** (`dispatch_denial`). `_authorize`
   writes the event and re-raises inside the transaction that the exception rolls back.
   Ingestion, for one, leaves its transaction normally first and raises after it
   (`ingestion/service.py:254`).
2. **Midnight** (`kpi_midnight`). The cut of a recalculation is the day its transaction
   *began*. If it commits after another operation has recalculated the same
   observation with the cut of the new day, its run finds
   `EXCLUDED.as_of_date >= as_of_date` false and writes nothing: the job is COMPLETED and its
   facts are not counted, until the schedule of that month runs again.
3. **A retry undoes an invalidation** (`documents_retry`). `documents/processing.py:226` says that a
   retry after the activation repeats neither the mutation nor its event. If the document was
   invalidated in between, `version_is_active` is false, the expected pointer read by the
   retry is NULL, and the version is activated and audited again.
4. **Blank is absent, and then it is not** (`rules_absent`). `validation/records.py` takes a blank or
   empty optional cell for absent and lets the row through; projection parses it
   and raises. The exception leaves the whole file without projection, and every retry of its
   dispatch meets the same cell.

## 12. Proofs

`DispatchSafety.tla` proves `Spec => []TypeOK` (`TypeCorrect`), one step per
action, and every safety property of the run `dispatch`, for any
number of calls and files and any bounds. It assumes only `DispatchConstants`, which
states the types of the constants and that the null values are not elements.

None of those properties is inductive. The invariant `IInv` is the conjunction of:

* `LocksInv`: who holds which row lock; a transaction past the upsert holds its own
  row and every row it recovered, and executions hold none;
* `StaleInv`: `seen` and `overdue` lie in `everOverdue`, and what a transaction
  recovered was IN_PROGRESS and seen overdue. It is what makes "never overdue" exclude recovery;
* `IdentityInv`: stored identities are distinct and below `nextOp`, and an identity
  held by a transaction that inserts is fresh and nobody else's;
* `ExecutionInv`: attempts of executions are between 1 and the stored count, two
  executions of one file differ in them;
* `OwnerInv`: for a file never overdue, an execution in flight means that the row is
  IN_PROGRESS with its attempt: there is one owner;
* `ReportInv` and `ReportedIsDurable`: answers match rows.

The proof that a step keeps `IInv` has one lemma per conjunct, one step per action
under it, and three effect lemmas (`CloseEffect`, `RecoveryEffect`, `ClaimEffect`) that say once
what the compound actions do to the rows. The action properties follow from
`IInv` and the same effects. TLC checked `IInv` as an invariant of two
instances before it was proved.

`KpiJobSafety.tla` proves `Spec => []TypeOK` for KpiJob and every
safety property of the run `kpi`, for any callers, operations, records, cells and months and any
number of days, exceptions and crashes. It assumes `KpiJobConstants`: the types of
the constants, and that a month does not end before it begins (without it a cut
could go back). Its `IInv` is the conjunction of:

* `CallerInv`: a caller knows its operation, the day of its transaction has come, and
  only the holder of the table lock calculates;
* `JobInv`: an operation without a job has no completed run, and a final OCR is
  recorded before its job is asked for;
* `ExecutionInv`: of the requests of its job, the executing caller has completed all but
  `todo`. Other callers can only help, since COMPLETED runs stay so;
* `RequestInv`: one request per month, for cells of that month, with a cut that has come;
* `SnapshotInv`: what is counted anywhere is in the snapshot of whoever calculates.
  It holds because the table lock precedes the snapshot and observations are written
  under it, and it is why an observation never loses a fact;
* `CutInv`: for data committed on the day of its cut, a calculation or an observation with a
  later cut has the data. At the commit no later cut exists; one that appears
  afterwards comes from a request of a later day, whose calculation starts after the
  commit and sees the data;
* `CountedInv`: a COMPLETED run left the facts of its operation counted, itself or (by
  `CutInv`) through the observation it gave way to;
* `OriginInv`, `ItemInv`, and the four state properties themselves.

The proof has one lemma for the steps that only move a caller (`QuietStep`, from what
they do to it, `QuietEffect`), one for those that only change the state of a job or a
run (`StateOnlyStep`), and one per remaining action with a step per conjunct.
`ReflectedOnItsDay` follows from `DataComesWithItsJob`, `CompletedJobHasItsRuns` and `CountedInv`.
None of the conjuncts mentions the advisory lock: what the lock gives is that the
materialising transaction can be one step, which is how it is modelled.

`DocumentProofs.tla` proves every safety property of DocumentVersion for any callers,
operations, engines and bounds. Its `IInv` is the conjunction of:

* `CallInv`: a caller knows its operation and what it read is what some engine reads;
* `TextInv`: a stored text is one that some engine reads with confidence;
* `CertInv`: a certificate covers the text of its version, which is LISTA or was
  rejected afterwards, and a LISTA version has one. The comparison of the stored text
  (`Mismatch`) and of the source (`Certifiable`) keep it;
* `ActiveInv`: the pointer names a version that was activated and is certified;
* `EndInv`: a dispatched operation at its end is rejected or was activated. It is inductive
  because `CheckActive` and `Converge` only skip the activation of the version in force.

`RejectedIsFinal` is an action property from `IInv`. `LifeIsImplemented` is the refinement: the
initial states map to initial states, and every step to a step of `VersionLife` or a stutter.

`OneActivation` and `NothingIsLost` need the history of the pointer. The code compares
pointers, and two equal pointers mean that nothing happened in between only if no version is
put in force twice; that in turn depends on the comparison. `HInv` adds to `IInv`, together:

* `OcrInv`: a version that exists has its OCR result, a good one if it is processed;
* `ReprocessInv`: if a manual operation runs or left a version, the reading of the dispatch
  was rejected (at the beginning of its chain of sources);
* `ActivatedInv`: a version that was put in force keeps its good result. With
  `ReprocessInv` it follows that the version of the dispatch, once in force, is never replaced
  by a reprocess;
* `LockInv`, `FirstInv`: the session lock leaves one caller to a manual operation, and it
  activates only what was not yet ready when it began;
* `ExpectedInv`, `PointerInv`: an expected version was activated, the dispatched one stays in
  force, and no caller that expects it goes on to activate it again (`VersionIsActive`);
* `BaseInv`: a caller whose expected version is the active one has seen every change.

`FirstActivation` concludes that without an invalidation `Activate` finds no earlier activation of
its version. TLC checked `HInv` on two instances before it was proved.

`RulesProofs.tla` proves the two properties of ProactiveRules for any finite or infinite set of
months and values. The rules read a bounded number of months before the current one, so the
proofs are about two readings of one month: `ClosureIsEnough` shows that every month an evaluation reads lies in the
closure (the recurrence of a rule over three months reads six), `RecurrenceIsSound` that
`_terminal_signal` of a month is the signal of the evaluation cut at that month, and `WindowIsWide` that
a signal needs all the months its finding tells of. They need `TypeOK` only (`Typing`).

It also proves `CertifiedIndexIsKept` for any number of sessions, fragments and statements
(`CertifiedIsKept`). Its `IInv` is the conjunction of the property and:

* `WorkInv`: without a holder of the version row nobody has uncommitted rows, and once the
  version is certified its holder can only have changed the state;
* `PersistInv`: before its commit an indexer sees exactly what it made of the text. This is
  what the assertions after ON CONFLICT DO NOTHING are for;
* `ReferenceInv`: a term that waits for its commit is in nobody's copy, so that committing it
  changes one fragment by one term, which `LateInv` accounts for;
* `SubjectInv`: what the locals of a session range over.

The third part proves `FragmentsCoverText` for any text, marks, window and overlap smaller than it
(`TextIsCovered`). `CInv` is the conjunction of `LoopInv` (where the next fragment starts,
relative to the last), `FragmentsInv` (of each fragment and of two that follow each other) and `PlainInv`
(without marks the stride is constant). The loop makes progress because the minimum leaves one token more
than the overlap.

The last part is about `TabularRules`, for rows with any number of edited cells and CSV files and samples of any
size. `PortableRowsFit` goes from a verdict to the cells: a row that conforms passes every field of
each contract it has a value of (`EveryContractPasses`, `EveryFieldPasses`: the code reports the first cause, a
`CHOOSE` of the least index), and what passes a field is read by projection (`PortableReads`), also by its second reader
(`SecondReader`). `SampleDiffers` is arithmetic: a sample of n half fields ends n modulo two rows' worth
of half fields into a row (`EndInRow`).

`SessionsProofs.tla` proves every safety property of the run `sessions` for any workers, accounts,
sessions, roles, founders and number of changes. It assumes `SessionsConstants`: the types of the constants and
that the null values are not elements. Its `IInv` is the conjunction of:

* `Shape`, `Subject`: which kind of transaction is at each place, of whose session, and that a login writes
  a session nobody else knows;
* `Held`: the rows that a transaction holds and what it read of them. The author of a change is held, and stands,
  from the authorization to the commit (`AuthorHeld`); what it closes is held when it commits (`ClosedHeld`); a login
  holds its account from the verification on (`LoginHeld`), which is why no session appears between the list of
  an account's sessions and their closing (`ListedFirst`);
* `Founding`: a bootstrap past its check is alone and there is no administrator;
* `Remaining`: who disables himself leaves another administrator or `overlap` was set. Who is disabled by another needs
  nothing: that other is an administrator, and held (`AuthorHeld`);
* `VersionInv`: a session is not ahead of its account, and one that stands was begun under its
  present secret and roles. A change that concerns it raises the version, so equality cannot come back.

One lemma says what a transaction that touches only rows it holds leaves to the others
(`OthersHold`); each action then owes its own conjuncts and `VersionInv`. `ClosedStaysClosed` and `GroundHoldsAtCommit` are
action properties from `IInv`.

`RagProofs.tla` proves every safety property of the run `rag` for any finite set of calls and any sessions, operations, queries,
fragments and bounds. Its `IInv` is the conjunction of:

* `Progress`: the state, cause and response that a call brings to its transaction at each place, which is why the
  constraint of the life cycle never refuses its row (`OnlyFailuresFail`, itself a conjunct);
* `Denials`: the events that a call has left so far are those of its own denied row;
* `Held`: the operation lock keeps the row absent until its holder has stored it, and the account lock keeps a valid
  session valid and the evidence permitted until the row is stored or its text read. A call about to
  send has dropped what was withdrawn before the attempt: a change ends every session of the account,
  and no session is opened twice, so that with the session still open nothing withdrawn came back.

`IntakeProofs.tla` proves every safety property of the run `intake` for any uploads, sources, keys, contents,
rows, workers, entities and faults. Its `IInv` is the conjunction of:

* `Upload`: where the object of an upload is at each stage, and that the one about to insert holds the lock of its
  source, so that the revision and the absence of duplicates it looked up are still so;
* `Revisions`: the receipts of a source are finitely many and their revisions are 1..n;
* `FileItems`, `ConflictsApplied`, `EveryRecordIsAccounted`: items have a receipt or an application behind them;
* `Entry`: an entity has the payload of its one incorporation, and any other application of it agrees
  with the payload or is a conflict with an item;
* `Duty`: what a worker owes. A valid row of the file it projects is either still to do or has its application, in
  the table or in the open transaction; a correction holds the row of its item, which therefore is Pendiente;
* `Writes`, `Apart`: what an open transaction inserted is the only row of its entity and its results agree with what the
  entity will be (`Final`), and no two open transactions inserted the same entity or the same application. It is
  what the unique indexes give: whoever waits for one sees the other's outcome.

`RecordsAccounted`, for one, is not inductive without `Duty` (a commit must have served every row) and that is not
without `Apart` (a commit of another must not serve it twice). `SettledOnce` counts: a step that writes a transition
out of Pendiente finds the item Pendiente, at the commit of a correction because of `Duty`, and leaves it settled (`SettlesOnce`).

`ProactiveProofs.tla` proves `TypeOK` (`ProactiveTypes`), `FrozenStaysBound` (`FrozenIsBound`) and
`SettledStaysSettled` (`SettledIsSettled`) of ProactiveJob for any workers, operations, months and
bounds. Its `IInv` is the conjunction of:

* `LocalInv`: a call knows its operation and counts its attempts;
* `ExclusiveInv`: while the advisory lock of an operation was not lost its holder is the only one
  that executes it, and what it executes is not finished. It is why a finished job is not touched;
* `RunsInv`: runs of a job differ in their input, and the one that is being evaluated is not
  complete and its row is locked. It is why a completed run is not failed or completed again;
* `FrozenStaysBound`: by the CASE of the upsert (`BoundTo`) and, for a row that is frozen
  later than it was read, by the foreign key (`KeyChanged`).

A second invariant, `JInv`, inductive together with the first, is about how many runs a job has and what
the job says of them. TLC checked it and `TwoRuns` on two instances, one of which has two runs of a job:

* `SnapshotsInv`: an observation is never removed, so of two snapshots the later has every month of the earlier;
* `ViewInv`: while the lock holds, a transaction of the core has seen all runs of its job; a run it saw
  COMPLETED is still that run;
* `FrozenInv`: a run froze the closure of its print, and two runs of a job share no month, because the freeze
  that would repeat one fails (`UnseenRun`); a second run needs a lost lock, because the first is seen otherwise;
* `TellInv`: who closes a job as COMPLETED has a completed run for it, a job that ended as NO_RELEVANT_WORK has no run,
  and the SUCCESS events of a job are as many as its completed runs. It is listed on its own (`JobsAreGrounded`): it
  holds whichever locks were lost.

Two closures that share no month, of snapshots where one has the months of the other, lie the whole `Depth`
apart: `RunsFarApart` states `TwoRuns`, with no condition on the constants. `RunsOwnTheirInput` and
`JobTellsItsRun` themselves are false without one (two cells further apart than `Depth` and a lost lock give
TLC a second run), so `RunsOwnInput` and `JobTells` state them under `Near`: no advisory lock was lost, or no two
months lie `Depth` apart, which is what the run's instance satisfies (two months, `Depth` = 2).

Several properties of the runs are conjunctions, so that one run says one thing about one hazard;
the theorems `SoundExecutions`, `SoundMoves`, `JobsBacked`, `SoundActivations`, `LateCallsRefused` and
`FrozenInputIsEnough` put the theorems about their parts together.

Only model-checked: the liveness properties `EveryFileSettles`, `JobsSettle` and `DispatchSettles` (fairness
and ENABLED are out of TLAPS's reach). Every invariant and every other action property of the passing runs
is stated by a theorem, two of them under the condition `Near`.

## 13. Not modelled, and why

Components without a module: the read-only queries of the dashboard and of Audit, OCR and embedding
engines with their wrappers (arithmetic over images and vectors; what an engine reads is the constant
`Reading` of `DocumentVersion`), storage paths and settings, provisioning and smoke scripts, the
browser. None of them changes the state that the properties are about.

Left out of components that have one: the structural rules of a file's headers (`validation/structural.py`),
of which `Malformed` is the outcome; reading workbooks, PDF and DOCX, of which `Verdict` is the outcome;
the relationships between entities; what a grant or an exception contains, and display
names; the page ranges of fragments and the normalisation of lexemes; the arithmetic of each
indicator; `upgrade` and `downgrade` of the migrations, which run once on a system at rest.
The Airflow DAG is the fairness of `Dispatch` and `KpiJob`: a caller that insists every day.

Hazards without a property, because the code promises nothing about them: `kpi_integration.py:219` writes
FAILED whatever the state is (end of section 4); a manual reprocess that broke off between LISTA
and the activation is answered by its retry without activating (`documents/http_service.py:141`,
`:154`); the timeout of the DAG's call (`ingestion_runtime.py:55`) is shorter than a long runner, so that its retry
finds the dispatch in progress.

Inside the modules: correlation identifiers, timestamps other than the two
that decide something (heartbeat, cut), causes and messages, and the rows that are only
written (audit events other than the ones a property counts). In `Dispatch`, `KpiJob` and `DocumentVersion` a
second call of the same account waits for the first on the account row during its first transaction; the models
let every call run freely, which has all of those behaviours and more.
