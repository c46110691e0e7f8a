-------------------------- MODULE IndexCertificate --------------------------
(***************************************************************************)
(* The certificate of the index of one document version: the triggers of    *)
(* migration 0014_rag_index_certificate, and persist_certified_index of     *)
(* rag/index_repository.py against every other writer of the same tables.   *)
(*                                                                         *)
(* The tables are one record: the text and state of the version and, by     *)
(* ordinal (the identity of a fragment is derived from it), the fragment,   *)
(* its terms and its receipt.  Every trigger takes the row of the version   *)
(* FOR UPDATE, so what a transaction has written is the copy "work" of the  *)
(* one that holds it.  The only isolation that the triggers admit is READ   *)
(* COMMITTED: each statement reads what is committed by then.  A refusal    *)
(* raises and ends in Rollback, as a deadlock over a fragment does.         *)
(***************************************************************************)
EXTENDS Integers, FiniteSets

CONSTANTS
    Sessions,           \* database sessions: SQL writers and indexers
    NoOne,
    MaxFragments,       \* the text number n is cut into n fragments
    MaxStatements       \* SQL statements in all

ASSUME IndexConstants ==
    /\ NoOne \notin Sessions
    /\ MaxFragments \in Nat \ {0} /\ MaxStatements \in Nat

VARIABLES
    index,              \* what is committed
    holder, work,       \* who holds the row of the version, and what it sees
    doing,              \* of a session: see Steps
    subject,            \* the text it embedded, or the term it inserts unseen
    returned,           \* the text of its last persist_certified_index, 0: none
    late,               \* terms that reached a certified fragment unseen
    statements

indexVars == <<index, holder, work, doing, subject, returned, late, statements>>

Contents == 1..MaxFragments
Ordinals == 0..(MaxFragments - 1)
Lexemes == {"own", "other"}
States == {"PROCESANDO", "LISTA", "RECHAZADA"}

Steps == {"IDLE", "EMBEDDED", "PERSISTED", "UNSEEN", "REFERENCED"}

NoFragment == [of |-> 0, embedded |-> FALSE]
NoReceipt == -1
NoCertificate == [of |-> 0, count |-> 0, zero |-> 0]
Nothing == [ordinal |-> 0, lexeme |-> "own"]

-----------------------------------------------------------------------------
(* What the indexer makes of a text: even ordinals have one lexeme, odd     *)
(* ones none.                                                               *)

OrdinalsOf(t) == 0..(t - 1)
FragmentOf(t, o) == [of |-> t, embedded |-> TRUE]
TermsOf(o) == IF o % 2 = 0 THEN {"own"} ELSE {}
CertificateOf(t) ==
    [of |-> t, count |-> t, zero |-> Cardinality({o \in OrdinalsOf(t) : TermsOf(o) = {}})]

(* _assert_existing_chunks; persist_certified_index asserts the same of     *)
(* every fragment after its ON CONFLICT DO NOTHING.                         *)
Matches(db, t) ==
    \A o \in OrdinalsOf(t) :
        /\ db.fragment[o] = FragmentOf(t, o) /\ db.terms[o] = TermsOf(o)
        /\ db.receipt[o] = Cardinality(TermsOf(o))

Stored(db) == {o \in Ordinals : db.fragment[o] # NoFragment}
Certified(db) == db.certificate # NoCertificate

(* Definitions marked "faulty" are slips that a property must notice.       *)
Unasked(db) == TRUE                                 \* faulty: no look at the certificate
Open(db) == ~Certified(db)

Gapless(db, c) ==
    /\ Cardinality(Stored(db)) = c.count
    /\ 0 \in Stored(db) /\ c.count - 1 \in Stored(db)
    /\ \A o \in Stored(db) : o <= c.count - 1

(* validate_document_index_certificate, with the checks of its table.       *)
Valid(db) ==
    LET c == db.certificate
    IN  /\ c.count > 0 /\ c.zero \in 0..c.count
        /\ c.of = db.text /\ db.state = "LISTA"
        /\ Gapless(db, c)
        /\ \A o \in Stored(db) : db.fragment[o].embedded
        /\ \A o \in Stored(db) : db.receipt[o] = Cardinality(db.terms[o])
        /\ Cardinality({o \in Stored(db) : db.receipt[o] = 0}) = c.zero

-----------------------------------------------------------------------------
IndexInit ==
    /\ \E state \in {"PROCESANDO", "LISTA"} :      \* LISTA: before migration 0014
          index = [text |-> 1, state |-> state,
                   fragment |-> [o \in Ordinals |-> NoFragment],
                   terms |-> [o \in Ordinals |-> {}],
                   receipt |-> [o \in Ordinals |-> NoReceipt],
                   certificate |-> NoCertificate]
    /\ holder = NoOne /\ work = index
    /\ doing = [s \in Sessions |-> "IDLE"] /\ subject = [s \in Sessions |-> Nothing]
    /\ returned = [s \in Sessions |-> 0]
    /\ late = {} /\ statements = 0

(* lock_document_index_version: the statements of one transaction, each on  *)
(* what the transaction sees.                                               *)
Seen(s) == IF holder = s THEN work ELSE index

Statement(s, db) ==
    /\ doing[s] = "IDLE" /\ holder \in {s, NoOne} /\ statements < MaxStatements
    /\ holder' = s /\ work' = db /\ statements' = statements + 1
    /\ UNCHANGED <<index, doing, subject, returned, late>>

(* Nobody else has the fragment, by the reference of a term of his.         *)
Unreferenced(s, o) ==
    \A p \in Sessions \ {s} : doing[p] = "REFERENCED" => subject[p].ordinal # o

(* prevent_certified_document_chunk_mutation: INSERT, UPDATE.               *)
WriteFragment(s, o, t, embedded) ==
    /\ Open(Seen(s))
    /\ Statement(s, [Seen(s) EXCEPT !.fragment[o] = [of |-> t, embedded |-> embedded]])

(* DELETE, as far as the foreign keys of terms and receipts restrict it.    *)
DeleteFragment(s, o) ==
    /\ Open(Seen(s)) /\ Unreferenced(s, o)
    /\ Seen(s).fragment[o] # NoFragment
    /\ Seen(s).terms[o] = {} /\ Seen(s).receipt[o] = NoReceipt
    /\ Statement(s, [Seen(s) EXCEPT !.fragment[o] = NoFragment])

(* prevent_certified_chunk_term_mutation, on a fragment that is seen.       *)
InsertTerm(s, o, x) ==
    /\ Open(Seen(s)) /\ Unreferenced(s, o)
    /\ Seen(s).fragment[o] # NoFragment /\ x \notin Seen(s).terms[o]
    /\ \A p \in Sessions : doing[p] = "UNSEEN" => subject[p] # [ordinal |-> o, lexeme |-> x]
    /\ Statement(s, [Seen(s) EXCEPT !.terms[o] = @ \cup {x}])

DeleteTerm(s, o, x) ==
    /\ Open(Seen(s)) /\ Unreferenced(s, o) /\ x \in Seen(s).terms[o]
    /\ Statement(s, [Seen(s) EXCEPT !.terms[o] = @ \ {x}])

(* prevent_document_chunk_index_receipt_mutation                            *)
InsertReceipt(s, o, n) ==
    /\ Open(Seen(s)) /\ Unreferenced(s, o)
    /\ Seen(s).fragment[o] # NoFragment /\ Seen(s).receipt[o] = NoReceipt
    /\ Statement(s, [Seen(s) EXCEPT !.receipt[o] = n])

(* prevent_certified_document_source_mutation                               *)
ChangeText(s, t) ==
    /\ Open(Seen(s)) /\ t # Seen(s).text
    /\ Statement(s, [Seen(s) EXCEPT !.text = t])

ChangeState(s, state) ==
    /\ state # Seen(s).state
    /\ Statement(s, [Seen(s) EXCEPT !.state = state])

(* lock_document_index_certificate_insert; the primary key.                 *)
InsertCertificate(s, c) ==
    /\ ~Certified(Seen(s))
    /\ Statement(s, [Seen(s) EXCEPT !.certificate = c])

Released(s) == /\ holder' = NoOne /\ work' = index'

(* The deferred trigger looks at a certificate that the transaction wrote.  *)
Commit(s) ==
    /\ holder = s
    /\ Certified(work) /\ ~Certified(index) => Valid(work)
    /\ index' = work /\ Released(s)
    /\ doing' = [doing EXCEPT ![s] = "IDLE"]
    /\ returned' = [returned EXCEPT ![s] = IF doing[s] = "PERSISTED" THEN subject[s].ordinal ELSE @]
    /\ subject' = [subject EXCEPT ![s] = Nothing]
    /\ UNCHANGED <<late, statements>>

Rollback(s) ==
    /\ holder = s
    /\ UNCHANGED index /\ Released(s)
    /\ doing' = [doing EXCEPT ![s] = "IDLE"] /\ subject' = [subject EXCEPT ![s] = Nothing]
    /\ UNCHANGED <<returned, late, statements>>

-----------------------------------------------------------------------------
(* The indexer: the text is read and embedded before the transaction.       *)
Embed(s) ==
    /\ doing[s] = "IDLE" /\ holder # s
    /\ doing' = [doing EXCEPT ![s] = "EMBEDDED"]
    /\ subject' = [subject EXCEPT ![s] = [ordinal |-> index.text, lexeme |-> "own"]]
    /\ UNCHANGED <<index, holder, work, returned, late, statements>>

(* What ON CONFLICT DO NOTHING leaves of the rows of a text.                *)
Merged(t) ==
    [index EXCEPT
        !.fragment = [o \in Ordinals |->
            IF o \in OrdinalsOf(t) /\ @[o] = NoFragment THEN FragmentOf(t, o) ELSE @[o]],
        !.terms = [o \in Ordinals |-> IF o \in OrdinalsOf(t) THEN @[o] \cup TermsOf(o) ELSE @[o]],
        !.receipt = [o \in Ordinals |->
            IF o \in OrdinalsOf(t) /\ @[o] = NoReceipt THEN Cardinality(TermsOf(o)) ELSE @[o]]]

SourceKept(t) == index.text = t /\ index.state \in {"PROCESANDO", "LISTA"}

(* persist_certified_index up to its commit.                                *)
Persist(s) ==
    LET t == subject[s].ordinal
    IN  /\ doing[s] = "EMBEDDED" /\ holder = NoOne /\ SourceKept(t)
        /\ ~Certified(index) /\ Matches(Merged(t), t)
        /\ \A o \in OrdinalsOf(t) : Unreferenced(s, o)
        /\ \A p \in Sessions : doing[p] = "UNSEEN" =>
              subject[p].ordinal \notin OrdinalsOf(t) \/ subject[p].lexeme \notin TermsOf(subject[p].ordinal)
        /\ holder' = s
        /\ work' = [Merged(t) EXCEPT !.state = "LISTA", !.certificate = CertificateOf(t)]
        /\ doing' = [doing EXCEPT ![s] = "PERSISTED"]
        /\ UNCHANGED <<index, subject, returned, late, statements>>

(* The certificate is there: compared and reused.                           *)
Reuse(s) ==
    LET t == subject[s].ordinal
    IN  /\ doing[s] = "EMBEDDED" /\ holder = NoOne /\ SourceKept(t)
        /\ index.certificate = CertificateOf(t) /\ Matches(index, t)
        /\ Cardinality(Stored(index)) = t
        /\ returned' = [returned EXCEPT ![s] = t]
        /\ doing' = [doing EXCEPT ![s] = "IDLE"] /\ subject' = [subject EXCEPT ![s] = Nothing]
        /\ UNCHANGED <<index, holder, work, late, statements>>

(* IndexingInvariantError, or the embedding failed.                         *)
GiveUp(s) ==
    /\ doing[s] = "EMBEDDED"
    /\ doing' = [doing EXCEPT ![s] = "IDLE"] /\ subject' = [subject EXCEPT ![s] = Nothing]
    /\ UNCHANGED <<index, holder, work, returned, late, statements>>

-----------------------------------------------------------------------------
(* An INSERT of a term whose trigger does not see the fragment: it finds no *)
(* version to lock and no certificate, and passes.                          *)
InsertUnseen(s, o, x) ==
    /\ doing[s] = "IDLE" /\ holder # s /\ statements < MaxStatements
    /\ index.fragment[o] = NoFragment
    /\ doing' = [doing EXCEPT ![s] = "UNSEEN"]
    /\ subject' = [subject EXCEPT ![s] = [ordinal |-> o, lexeme |-> x]]
    /\ statements' = statements + 1
    /\ UNCHANGED <<index, holder, work, returned, late>>

(* The triggers of the one that holds the version took the fragment.        *)
Taken(o) ==
    \/ work.terms[o] # index.terms[o] \/ work.receipt[o] # index.receipt[o]
    \/ \E s \in Sessions : doing[s] = "PERSISTED" /\ o \in OrdinalsOf(subject[s].ordinal)

(* The foreign key is looked at when the statement ends, on what is         *)
(* committed by then; the fragment and the keys of others make it wait.     *)
FindReference(s) ==
    LET o == subject[s].ordinal x == subject[s].lexeme
    IN  /\ doing[s] = "UNSEEN"
        /\ index.fragment[o] # NoFragment /\ work.fragment[o] # NoFragment /\ ~Taken(o)
        /\ x \notin index.terms[o] /\ x \notin work.terms[o]
        /\ \A p \in Sessions \ {s} : doing[p] = "REFERENCED" => subject[p] # subject[s]
        /\ doing' = [doing EXCEPT ![s] = "REFERENCED"]
        /\ UNCHANGED <<index, holder, work, subject, returned, late, statements>>

CommitTerm(s) ==
    LET o == subject[s].ordinal x == subject[s].lexeme
    IN  /\ doing[s] = "REFERENCED"
        /\ index' = [index EXCEPT !.terms[o] = @ \cup {x}]
        /\ work' = [work EXCEPT !.terms[o] = @ \cup {x}]
        /\ late' = IF Certified(index) THEN late \cup {subject[s]} ELSE late
        /\ doing' = [doing EXCEPT ![s] = "IDLE"] /\ subject' = [subject EXCEPT ![s] = Nothing]
        /\ UNCHANGED <<holder, returned, statements>>

(* Its fragment is not there, or its transaction is rolled back.            *)
DropTerm(s) ==
    /\ doing[s] \in {"UNSEEN", "REFERENCED"}
    /\ doing' = [doing EXCEPT ![s] = "IDLE"] /\ subject' = [subject EXCEPT ![s] = Nothing]
    /\ UNCHANGED <<index, holder, work, returned, late, statements>>

-----------------------------------------------------------------------------
Write(s) ==
    \/ \E o \in Ordinals, t \in Contents, e \in BOOLEAN : WriteFragment(s, o, t, e)
    \/ \E o \in Ordinals : DeleteFragment(s, o)
    \/ \E o \in Ordinals, x \in Lexemes : InsertTerm(s, o, x) \/ DeleteTerm(s, o, x)
    \/ \E o \in Ordinals, n \in 0..Cardinality(Lexemes) : InsertReceipt(s, o, n)
    \/ \E t \in Contents : ChangeText(s, t)
    \/ \E state \in States : ChangeState(s, state)
    \/ \E t \in Contents, n \in Contents, z \in 0..MaxFragments :
          InsertCertificate(s, [of |-> t, count |-> n, zero |-> z])

IndexNext ==
    \E s \in Sessions :
        \/ Write(s) \/ Commit(s) \/ Rollback(s)
        \/ Embed(s) \/ Persist(s) \/ Reuse(s) \/ GiveUp(s)
        \/ \E o \in Ordinals, x \in Lexemes : InsertUnseen(s, o, x)
        \/ FindReference(s) \/ CommitTerm(s) \/ DropTerm(s)

IndexSpec == IndexInit /\ [][IndexNext]_indexVars

-----------------------------------------------------------------------------
Database ==
    [text : Contents, state : States,
     fragment : [Ordinals -> [of : 0..MaxFragments, embedded : BOOLEAN]],
     terms : [Ordinals -> SUBSET Lexemes], receipt : [Ordinals -> Int],
     certificate : [of : 0..MaxFragments, count : 0..MaxFragments, zero : Nat]]

Subjects == [ordinal : 0..MaxFragments, lexeme : Lexemes]

IndexTypeOK ==
    /\ index \in Database /\ work \in Database
    /\ holder \in Sessions \cup {NoOne}
    /\ doing \in [Sessions -> Steps] /\ subject \in [Sessions -> Subjects]
    /\ returned \in [Sessions -> 0..MaxFragments]
    /\ late \subseteq Subjects /\ statements \in Nat

(* The terms of a fragment without those that came unseen when it was       *)
(* certified, which the triggers let through.                               *)
Counted(o) == {x \in index.terms[o] : [ordinal |-> o, lexeme |-> x] \notin late}

(* The certificate of a version stays true of what retrieval will read,     *)
(* whatever is written around it and in whichever order it commits: its     *)
(* text is the text of the version, the fragments are exactly the first of  *)
(* it, all embedded, and every receipt counts the terms of its fragment.    *)
CertificateStaysTrue ==
    Certified(index) =>
        /\ index.certificate.of = index.text
        /\ Stored(index) = OrdinalsOf(index.certificate.count)
        /\ \A o \in Stored(index) :
              /\ index.fragment[o].embedded
              /\ index.receipt[o] = Cardinality(Counted(o))

(* What an indexer was told is indexed stays so: the fragments and terms    *)
(* are those that it made of the text, though it embedded an older text,    *)
(* met the rows of others or lost the race for the certificate.             *)
ReturnedStaysIndexed ==
    \A s \in Sessions : returned[s] # 0 =>
        /\ index.text = returned[s] /\ index.certificate = CertificateOf(returned[s])
        /\ \A o \in OrdinalsOf(returned[s]) :
              index.fragment[o] = FragmentOf(returned[s], o) /\ Counted(o) = TermsOf(o)

CertifiedIndexIsKept == CertificateStaysTrue /\ ReturnedStaysIndexed

=============================================================================
