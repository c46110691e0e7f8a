----------------------------- MODULE RagProofs ------------------------------
(***************************************************************************)
(* The inductive invariant of RagQuery and the safety properties it gives, *)
(* for any number of calls, sessions, fragments, changes and failures.     *)
(*                                                                         *)
(* The argument.  A call brings to its transaction a combination of state, *)
(* cause and response that the constraint on the life cycle admits         *)
(* (Progress).  The operation lock keeps the row absent until the call     *)
(* that holds it has stored it, and the account lock keeps what was        *)
(* authorised authorised until the text is stored or read (Held): only the *)
(* corpus changes meanwhile.  A change of grants or exceptions ends every  *)
(* session and no session is opened twice, so that whatever was withdrawn  *)
(* before an attempt began is still withdrawn when it is sent, as long as  *)
(* the session is open.                                                    *)
(***************************************************************************)
EXTENDS RagQuery, FiniteSetTheorems, TLAPS

USE RagConstants

-----------------------------------------------------------------------------
(* The inductive invariant *)

Retrieving == {"finding", "revalidating", "scoping", "comparing", "encoding", "vector",
               "lexical", "confirming"}
Finalising == {"locking", "deciding", "storing"}
Presenting == {"presenting", "materialising", "denying"}

(* What a call has made of itself at each place.                           *)
Progress(c) ==
    /\ call[c].pc = "new" => call[c] = NewCall
    /\ call[c].pc # "answered" => call[c].shown = {} /\ call[c].answer = "NONE"
    /\ call[c].pc \notin {"new", "answered"} => call[c].session \in opened
    /\ call[c].created => call[c].pc \in Presenting
    /\ call[c].pc \in Retrieving =>
          call[c].state = "NONE" /\ ~call[c].cause /\ ~call[c].response
    /\ call[c].pc \in {"checking", "sending"} =>
          call[c].state = "EVIDENCIA_SUFICIENTE" /\ ~call[c].cause /\ ~call[c].response
    /\ call[c].pc \in Finalising =>
          /\ Lifecycle(Terminal(c))
          /\ call[c].state = "SIN_AUTORIZACION" => call[c].fragments = {}

(* The denial that a call stored is the one event it has left so far.      *)
Denials(c) ==
    /\ call[c].pc # "answered" =>
          call[c].denials = IF call[c].created /\ call[c].state = "SIN_AUTORIZACION" THEN 1 ELSE 0
    /\ call[c].pc = "denying" => AuditsDenial(c)
    /\ call[c].answer = "403" => call[c].denials = 1

(* What a call relies on: the locks it holds and what they protect.        *)
Held(c) ==
    /\ call[c].pc \in {"deciding", "storing"} => operationLock[call[c].op] = c
    /\ call[c].pc = "storing" =>
          /\ row[call[c].op].state = "ABSENT"
          /\ call[c].state # "SIN_AUTORIZACION" =>
                accountLock = c /\ Valid(c) /\ call[c].fragments \subseteq Permitted
    /\ call[c].pc \in Presenting => row[call[c].op].state # "ABSENT"
    /\ call[c].pc = "materialising" =>
          accountLock = c /\ Valid(c) /\ row[call[c].op].fragments \subseteq Permitted
    /\ call[c].pc = "checking" => (Valid(c) => call[c].withdrawn \cap Permitted = {})
    /\ call[c].pc = "sending" => call[c].fragments \cap call[c].withdrawn = {}

CallsInv == \A c \in Calls : Progress(c) /\ Denials(c) /\ Held(c)

IInv == TypeOK /\ CallsInv /\ OnlyFailuresFail

-----------------------------------------------------------------------------
(* Types, and what a step changes *)

LEMMA NewCallType == NewCall \in Call
  BY DEF NewCall, Call, Where, Ops, Evidence

LEMMA BecomesFacts ==
  ASSUME TypeOK, NEW c \in Calls, NEW l \in Call, Becomes(c, l)
  PROVE  /\ call' \in [Calls -> Call] /\ call'[c] = l
         /\ \A d \in Calls \ {c} : call'[d] = call[d]
  BY DEF TypeOK, Becomes

(* The fields of a call that is answered at once.                          *)
LEMMA AnswersFacts ==
  ASSUME TypeOK, NEW c \in Calls,
         NEW code \in {"NONE", "200", "401", "403", "409", "ERROR", "503"}, Answers(c, code)
  PROVE  /\ call' \in [Calls -> Call]
         /\ \A d \in Calls \ {c} : call'[d] = call[d]
         /\ call'[c].pc = "answered" /\ call'[c].answer = code
         /\ call'[c].denials = call[c].denials /\ call'[c].shown = {} /\ ~call'[c].created
  <1> DEFINE l == [NewCall EXCEPT !.pc = "answered", !.answer = code, !.denials = call[c].denials]
  <1>0. call[c].denials \in 0 .. 2
    BY DEF TypeOK, Call
  <1>1. l \in Call
    BY <1>0, NewCallType DEF Call, Where
  <1>2. /\ l.pc = "answered" /\ l.answer = code
        /\ l.denials = call[c].denials /\ l.shown = {} /\ ~l.created
    BY DEF NewCall
  <1>3. Becomes(c, l)
    BY DEF Answers
  <1> HIDE DEF l
  <1> QED
    BY <1>1, <1>2, <1>3, BecomesFacts

LEMMA GoesFacts ==
  ASSUME TypeOK, NEW c \in Calls, NEW where \in Where, Goes(c, where)
  PROVE  /\ call' \in [Calls -> Call]
         /\ \A d \in Calls \ {c} : call'[d] = call[d]
         /\ call'[c] = [call[c] EXCEPT !.pc = where] /\ call'[c].pc = where
         /\ call'[c].op = call[c].op /\ call'[c].session = call[c].session
         /\ call'[c].query = call[c].query /\ call'[c].fragments = call[c].fragments
         /\ call'[c].attempt = call[c].attempt /\ call'[c].withdrawn = call[c].withdrawn
         /\ call'[c].state = call[c].state /\ (call'[c].cause <=> call[c].cause)
         /\ (call'[c].response <=> call[c].response) /\ (call'[c].created <=> call[c].created)
         /\ call'[c].denials = call[c].denials /\ call'[c].answer = call[c].answer
         /\ call'[c].shown = call[c].shown
  <1>1. call[c] \in Call
    BY DEF TypeOK
  <1>2. [call[c] EXCEPT !.pc = where] \in Call
    BY <1>1 DEF Call
  <1>3. call' \in [Calls -> Call] /\ call'[c] = [call[c] EXCEPT !.pc = where]
        /\ \A d \in Calls \ {c} : call'[d] = call[d]
    BY <1>2, BecomesFacts DEF Goes
  <1> QED
    BY <1>1, <1>3 DEF Call

(* What a call brings to its transaction.                                  *)
LEMMA FinalisesFacts ==
  ASSUME TypeOK, NEW c \in Calls, NEW l \in Call, Finalises(c, l)
  PROVE  /\ call' \in [Calls -> Call]
         /\ \A d \in Calls \ {c} : call'[d] = call[d]
         /\ call'[c].pc = "locking"
         /\ call'[c].op = l.op /\ call'[c].session = l.session
         /\ call'[c].query = l.query /\ call'[c].fragments = l.fragments
         /\ call'[c].state = l.state /\ (call'[c].cause <=> l.cause)
         /\ (call'[c].response <=> l.response) /\ (call'[c].created <=> l.created)
         /\ call'[c].denials = l.denials /\ call'[c].answer = l.answer
         /\ call'[c].shown = l.shown
  <1> DEFINE m == [l EXCEPT !.pc = "locking", !.readings = 0, !.scope = {},
                         !.attempt = 0, !.withdrawn = {}]
  <1>0. 0 \in 0 .. 4 /\ 0 \in 0 .. 3
    OBVIOUS
  <1>1. m \in Call
    <2> DEFINE m1 == [l EXCEPT !.pc = "locking", !.scope = {}, !.withdrawn = {}]
    <2>1. m1 \in Call
      BY DEF Call, Where
    <2>2. m = [m1 EXCEPT !.readings = 0, !.attempt = 0]
      BY DEF Call
    <2> HIDE DEF m1, m
    <2>3. [m1 EXCEPT !.readings = 0, !.attempt = 0] \in Call
      BY <1>0, <2>1 DEF Call
    <2> QED BY <2>2, <2>3
  <1>2. call' \in [Calls -> Call] /\ call'[c] = m
        /\ \A d \in Calls \ {c} : call'[d] = call[d]
    BY <1>1, BecomesFacts DEF Finalises
  <1> QED
    BY <1>2 DEF Call

LEMMA DeniedFacts ==
  ASSUME TypeOK, NEW c \in Calls
  PROVE  /\ Denied(c) \in Call
         /\ Denied(c).state = "SIN_AUTORIZACION" /\ Denied(c).fragments = {}
         /\ ~Denied(c).response /\ ~Denied(c).cause
         /\ Denied(c).op = call[c].op /\ Denied(c).session = call[c].session
         /\ Denied(c).query = call[c].query /\ (Denied(c).created <=> call[c].created)
         /\ Denied(c).denials = call[c].denials /\ Denied(c).answer = call[c].answer
         /\ Denied(c).shown = call[c].shown
  <1>1. call[c] \in Call
    BY DEF TypeOK
  <1> QED
    BY <1>1 DEF Denied, Call, Evidence

LEMMA AttemptsFacts ==
  ASSUME TypeOK, NEW c \in Calls, NEW n \in 0 .. 3, Attempts(c, n)
  PROVE  /\ call' \in [Calls -> Call]
         /\ \A d \in Calls \ {c} : call'[d] = call[d]
         /\ call'[c].pc = "checking" /\ call'[c].state = "EVIDENCIA_SUFICIENTE"
         /\ call'[c].withdrawn = Fragments \ Permitted
         /\ call'[c].op = call[c].op /\ call'[c].session = call[c].session
         /\ (call'[c].cause <=> call[c].cause)
         /\ (call'[c].response <=> call[c].response) /\ (call'[c].created <=> call[c].created)
         /\ call'[c].denials = call[c].denials /\ call'[c].answer = call[c].answer
         /\ call'[c].shown = call[c].shown
  <1>1. call[c] \in Call
    BY DEF TypeOK
  <1> DEFINE m == [call[c] EXCEPT !.pc = "checking", !.state = "EVIDENCIA_SUFICIENTE",
                                  !.attempt = n, !.withdrawn = Fragments \ Permitted]
  <1>2. m \in Call
    BY <1>1 DEF Call, Where, Evidence
  <1>3. call' \in [Calls -> Call] /\ call'[c] = m
        /\ \A d \in Calls \ {c} : call'[d] = call[d]
    BY <1>2, BecomesFacts DEF Attempts
  <1> QED
    BY <1>1, <1>3 DEF Call

(* What a step of a call leaves to the others.                             *)
Tame(c) ==
    /\ UNCHANGED world
    /\ \A d \in Calls \ {c} : call'[d] = call[d]
    /\ \A d \in Calls \ {c} : accountLock = d => accountLock' = d
    /\ \A d \in Calls \ {c} : \A o \in Ops : operationLock[o] = d => operationLock'[o] = d
    /\ \A o \in Ops : row'[o] = row[o] \/ (/\ row[o].state = "ABSENT" /\ row'[o].state # "ABSENT"
                                           /\ operationLock[o] = c)

LEMMA ReadsTame ==
  ASSUME NEW c \in Calls, \A d \in Calls \ {c} : call'[d] = call[d],
         UNCHANGED <<world, stored>>
  PROVE  Tame(c)
  BY DEF Tame, stored

LEMMA OthersHold ==
  ASSUME TypeOK, CallsInv, NEW c \in Calls, Tame(c), NEW d \in Calls \ {c}
  PROVE  (Progress(d) /\ Denials(d) /\ Held(d))'
  <1>1. call'[d] = call[d] /\ call[d] \in Call /\ call[d].op \in Ops /\ d # c /\ c # NoCall
    BY DEF Tame, TypeOK, Call
  <1>2. Progress(d) /\ Denials(d) /\ Held(d)
    BY DEF CallsInv
  <1>3. open' = open /\ opened' = opened /\ Permitted' = Permitted
    BY DEF Tame, world, Permitted, Allowed
  <1>4. Progress(d)'
    BY <1>1, <1>2, <1>3 DEF Progress, Terminal
  <1>5. Denials(d)'
    BY <1>1, <1>2 DEF Denials, AuditsDenial
  <1>6. Valid(d)' = Valid(d)
    BY <1>1, <1>3 DEF Valid
  <1>7. row[call[d].op].state # "ABSENT" => row'[call[d].op] = row[call[d].op]
    BY <1>1 DEF Tame
  <1>8. operationLock[call[d].op] = d =>
           operationLock'[call[d].op] = d /\ row'[call[d].op] = row[call[d].op]
    BY <1>1 DEF Tame
  <1>9. Held(d)'
    BY <1>1, <1>2, <1>3, <1>6, <1>7, <1>8 DEF Held, Tame, Presenting
  <1> QED
    BY <1>4, <1>5, <1>9

-----------------------------------------------------------------------------
(* Calls that failed *)

Errors == {c \in Calls : call[c].answer = "ERROR"}

LEMMA NoNewError ==
  ASSUME TypeOK, OnlyFailuresFail, NEW c \in Calls,
         \A d \in Calls \ {c} : call'[d] = call[d],
         call'[c].answer # "ERROR",
         budget' = budget \/ budget'.failures = budget.failures - 1
  PROVE  OnlyFailuresFail'
  <1>1. IsFiniteSet(Errors) /\ Errors' \subseteq Errors
    BY FS_Subset DEF Errors
  <1>2. /\ Cardinality(Errors) \in Nat /\ Cardinality(Errors') \in Nat
        /\ Cardinality(Errors') <= Cardinality(Errors)
    BY <1>1, FS_Subset, FS_CardinalityType
  <1>3. Cardinality(Errors) <= MaxFailures - budget.failures
    BY DEF OnlyFailuresFail, Errors
  <1>4. budget.failures \in Nat /\ budget'.failures \in Int /\ budget'.failures <= budget.failures
    BY DEF TypeOK
  <1>5. Cardinality(Errors') <= MaxFailures - budget'.failures
    BY <1>2, <1>3, <1>4
  <1> QED
    BY <1>5 DEF OnlyFailuresFail, Errors

LEMMA OneError ==
  ASSUME TypeOK, OnlyFailuresFail, NEW c \in Calls,
         \A d \in Calls \ {c} : call'[d] = call[d],
         budget'.failures = budget.failures - 1
  PROVE  OnlyFailuresFail'
  <1>1. IsFiniteSet(Errors) /\ IsFiniteSet(Errors \cup {c}) /\ Errors' \subseteq Errors \cup {c}
    BY FS_Subset, FS_AddElement DEF Errors
  <1>2. /\ Cardinality(Errors) \in Nat /\ Cardinality(Errors') \in Nat
        /\ Cardinality(Errors \cup {c}) <= Cardinality(Errors) + 1
        /\ Cardinality(Errors \cup {c}) \in Nat
        /\ Cardinality(Errors') <= Cardinality(Errors \cup {c})
    BY <1>1, FS_Subset, FS_AddElement, FS_CardinalityType
  <1>3. Cardinality(Errors) <= MaxFailures - budget.failures
    BY DEF OnlyFailuresFail, Errors
  <1>4. Cardinality(Errors') <= MaxFailures - budget'.failures
    BY <1>2, <1>3 DEF TypeOK
  <1> QED
    BY <1>4 DEF OnlyFailuresFail, Errors

-----------------------------------------------------------------------------
(* Steps of a call *)

(* A step of a call preserves the invariant once it holds of the call.     *)
LEMMA OwnStep ==
  ASSUME IInv, NEW c \in Calls, Tame(c), TypeOK', OnlyFailuresFail',
         (Progress(c) /\ Denials(c) /\ Held(c))'
  PROVE  IInv'
  <1>1. \A d \in Calls \ {c} : (Progress(d) /\ Denials(d) /\ Held(d))'
    BY OthersHold DEF IInv
  <1> QED
    BY <1>1 DEF IInv, CallsInv

(* A step that only reads.                                                 *)
LEMMA ReadStep ==
  ASSUME IInv, NEW c \in Calls, call' \in [Calls -> Call],
         \A d \in Calls \ {c} : call'[d] = call[d],
         Reads, call'[c].answer # "ERROR",
         (Progress(c) /\ Denials(c) /\ Held(c))'
  PROVE  IInv'
  <1>1. Tame(c) /\ TypeOK'
    BY ReadsTame DEF Reads, IInv, TypeOK, world, stored
  <1>2. OnlyFailuresFail'
    BY NoNewError DEF IInv, Reads
  <1> QED
    BY <1>1, <1>2, OwnStep

(* A call that is answered has nothing left to keep.                       *)
LEMMA AnsweredCall ==
  ASSUME NEW c \in Calls, call'[c].pc = "answered", ~call'[c].created,
         call'[c].answer = "403" => call'[c].denials = 1
  PROVE  (Progress(c) /\ Denials(c) /\ Held(c))'
  BY DEF Progress, Denials, Held, Retrieving, Finalising, Presenting

(* A call that has something to store next.                                *)
LEMMA FinalisingCall ==
  ASSUME IInv, NEW c \in Calls, call[c].pc \notin {"new", "answered"} \cup Presenting,
         NEW l \in Call, Finalises(c, l), opened' = opened,
         l.session = call[c].session, l.created <=> call[c].created, l.answer = call[c].answer,
         l.denials = call[c].denials, l.shown = call[c].shown,
         \/ l.state = "NONE" /\ l.cause /\ ~l.response
         \/ l.state = "EVIDENCIA_SUFICIENTE" /\ ~l.cause /\ l.response
         \/ l.state = "EVIDENCIA_SUFICIENTE" /\ l.cause /\ ~l.response
         \/ l.state \in Evidence \ {"EVIDENCIA_SUFICIENTE"} /\ ~l.cause /\ ~l.response,
         l.state = "SIN_AUTORIZACION" => l.fragments = {}
  PROVE  /\ call' \in [Calls -> Call] /\ (\A d \in Calls \ {c} : call'[d] = call[d])
         /\ call'[c].answer # "ERROR" /\ (Progress(c) /\ Denials(c) /\ Held(c))'
  <1>1. /\ call' \in [Calls -> Call]
        /\ \A d \in Calls \ {c} : call'[d] = call[d]
        /\ call'[c].pc = "locking"
        /\ call'[c].session = l.session /\ call'[c].fragments = l.fragments
        /\ call'[c].state = l.state /\ (call'[c].cause <=> l.cause)
        /\ (call'[c].response <=> l.response) /\ (call'[c].created <=> l.created)
        /\ call'[c].denials = l.denials /\ call'[c].answer = l.answer
        /\ call'[c].shown = l.shown
    BY FinalisesFacts DEF IInv
  <1>2. /\ call[c].shown = {} /\ call[c].answer = "NONE" /\ call[c].session \in opened
        /\ ~call[c].created /\ call[c].denials = 0
    BY DEF IInv, CallsInv, Progress, Denials
  <1>3. Lifecycle(Terminal(c))'
    <2>1. Terminal(c)'.state = l.state /\ (Terminal(c)'.cause <=> l.cause)
          /\ (Terminal(c)'.response <=> l.response)
          /\ Terminal(c)'.operation = (IF l.state = "NONE" \/ l.cause THEN "FAILED" ELSE "COMPLETED")
          /\ Terminal(c)'.generation =
                (IF l.state # "EVIDENCIA_SUFICIENTE" THEN "NOT_REQUESTED"
                 ELSE IF l.state = "NONE" \/ l.cause THEN "FAILED" ELSE "SUCCEEDED")
      BY <1>1 DEF Terminal
    <2> QED BY <2>1 DEF Lifecycle, Evidence
  <1>4. Progress(c)'
    BY <1>1, <1>2, <1>3 DEF Progress, Retrieving, Finalising, Presenting
  <1>5. Denials(c)'
    BY <1>1, <1>2 DEF Denials
  <1>6. Held(c)'
    BY <1>1 DEF Held, Presenting
  <1> QED
    BY <1>1, <1>2, <1>4, <1>5, <1>6

(* A call that goes on reading.                                            *)
LEMMA RequestStep ==
  ASSUME IInv, NEW c \in Calls, NEW s \in Sessions, NEW q \in Queries, NEW o \in Ops,
         Request(c, s, q, o)
  PROVE  IInv'
  <1> DEFINE l == [NewCall EXCEPT !.pc = IF o = Key THEN "finding" ELSE "revalidating",
                                  !.op = o, !.session = s, !.query = q]
  <1>1. l \in Call
    BY NewCallType DEF Call, Where
  <1>2. /\ l.pc \in {"finding", "revalidating"} /\ l.session = s /\ l.shown = {}
        /\ l.answer = "NONE" /\ ~l.created /\ l.state = "NONE" /\ ~l.cause /\ ~l.response
        /\ l.denials = 0
    BY DEF NewCall
  <1>3. Becomes(c, l) /\ s \in opened /\ Reads
    BY DEF Request, IInv, TypeOK
  <1> HIDE DEF l
  <1>4. call' \in [Calls -> Call] /\ call'[c] = l /\ \A d \in Calls \ {c} : call'[d] = call[d]
    BY <1>1, <1>3, BecomesFacts DEF IInv
  <1>5. Progress(c)' /\ Denials(c)' /\ Held(c)'
    BY <1>2, <1>3, <1>4 DEF Progress, Denials, Held, Retrieving, Finalising, Presenting, Reads, world
  <1> QED
    BY <1>2, <1>3, <1>4, <1>5, ReadStep

(* A call that only moves on while it retrieves.                           *)
LEMMA RetrievingCall ==
  ASSUME IInv, NEW c \in Calls, call[c].pc \in Retrieving, Reads,
         NEW l \in Call, Becomes(c, l), l.pc \in Retrieving,
         l.session = call[c].session, l.created <=> call[c].created, l.answer = call[c].answer,
         l.denials = call[c].denials, l.shown = call[c].shown,
         l.state = call[c].state, l.cause <=> call[c].cause, l.response <=> call[c].response
  PROVE  IInv'
  <1>1. call' \in [Calls -> Call] /\ call'[c] = l /\ \A d \in Calls \ {c} : call'[d] = call[d]
    BY BecomesFacts DEF IInv
  <1>2. /\ call[c].shown = {} /\ call[c].answer = "NONE" /\ call[c].session \in opened
        /\ ~call[c].created /\ call[c].denials = 0
        /\ call[c].state = "NONE" /\ ~call[c].cause /\ ~call[c].response
    BY DEF IInv, CallsInv, Progress, Denials, Retrieving, Presenting
  <1>3. Progress(c)' /\ Denials(c)' /\ Held(c)'
    BY <1>1, <1>2 DEF Progress, Denials, Held, Retrieving, Finalising, Presenting, Reads, world
  <1> QED
    BY <1>1, <1>2, <1>3, ReadStep

LEMMA RetrievingGoes ==
  ASSUME IInv, NEW c \in Calls, call[c].pc \in Retrieving, Reads,
         NEW where \in Retrieving, Goes(c, where)
  PROVE  IInv'
  <1>1. call[c] \in Call /\ where \in Where
    BY DEF IInv, TypeOK, Retrieving, Where
  <1> DEFINE l == [call[c] EXCEPT !.pc = where]
  <1>2. /\ l \in Call /\ l.pc = where
        /\ l.session = call[c].session /\ (l.created <=> call[c].created)
        /\ l.answer = call[c].answer
        /\ l.denials = call[c].denials /\ l.shown = call[c].shown
        /\ l.state = call[c].state /\ (l.cause <=> call[c].cause)
        /\ (l.response <=> call[c].response)
    BY <1>1 DEF Call
  <1>3. Becomes(c, l)
    BY DEF Goes
  <1> HIDE DEF l
  <1> QED
    BY <1>2, <1>3, RetrievingCall

(* A call that is answered without having stored or read a row.            *)
LEMMA AnswersStep ==
  ASSUME IInv, NEW c \in Calls, Reads, NEW code \in {"401", "409"}, Answers(c, code)
  PROVE  IInv'
  <1>1. /\ call' \in [Calls -> Call]
        /\ \A d \in Calls \ {c} : call'[d] = call[d]
        /\ call'[c].pc = "answered" /\ call'[c].answer = code /\ ~call'[c].created
    BY AnswersFacts DEF IInv
  <1> QED
    BY <1>1, AnsweredCall, ReadStep

LEMMA FindStep ==
  ASSUME IInv, NEW c \in Calls, FindNone(c) \/ FindExisting(c)
  PROVE  IInv'
  <1>1. call[c].pc = "finding" /\ Reads
    BY DEF FindNone, FindExisting, At
  <1>2. CASE FindNone(c)
    BY <1>1, <1>2, RetrievingGoes DEF FindNone, Retrieving
  <1>3. CASE FindExisting(c) /\ Answers(c, "409")
    BY <1>1, <1>3, AnswersStep
  <1>4. CASE FindExisting(c) /\ Goes(c, "presenting")
    <2>1. /\ call' \in [Calls -> Call]
          /\ \A d \in Calls \ {c} : call'[d] = call[d]
          /\ call'[c].pc = "presenting"
          /\ call'[c].op = call[c].op /\ call'[c].session = call[c].session
          /\ call'[c].state = call[c].state /\ (call'[c].created <=> call[c].created)
          /\ call'[c].denials = call[c].denials /\ call'[c].answer = call[c].answer
          /\ call'[c].shown = call[c].shown
      BY <1>4, GoesFacts DEF IInv, Where
    <2>2. /\ call[c].shown = {} /\ call[c].answer = "NONE" /\ call[c].session \in opened
          /\ ~call[c].created /\ call[c].denials = 0
      BY <1>1 DEF IInv, CallsInv, Progress, Denials, Presenting
    <2>3. row'[call[c].op].state # "ABSENT"
      BY <1>1, <1>4 DEF FindExisting, Reads, stored
    <2>4. Progress(c)' /\ Denials(c)' /\ Held(c)'
      BY <1>1, <2>1, <2>2, <2>3
         DEF Progress, Denials, Held, Retrieving, Finalising, Presenting, Reads, world
    <2> QED
      BY <1>1, <2>1, <2>2, <2>4, ReadStep
  <1> QED
    BY <1>2, <1>3, <1>4 DEF FindExisting

LEMMA ScopeStep ==
  ASSUME IInv, NEW c \in Calls, Revalidate(c) \/ ReadAccount(c) \/ Encode(c)
  PROVE  IInv'
  <1>1. call[c].pc \in Retrieving /\ Reads
    BY DEF Revalidate, ReadAccount, Encode, At, Retrieving
  <1>2. CASE \E where \in Retrieving : Goes(c, where)
    BY <1>1, <1>2, RetrievingGoes
  <1>3. CASE Answers(c, "401")
    BY <1>1, <1>3, AnswersStep
  <1> QED
    BY <1>2, <1>3 DEF Revalidate, ReadAccount, Encode, Retrieving

LEMMA FamiliesStep ==
  ASSUME IInv, NEW c \in Calls, ReadFamilies(c)
  PROVE  IInv'
  <1>1. call[c].pc \in Retrieving /\ Reads /\ call[c] \in Call /\ call[c].readings < 3
    BY DEF ReadFamilies, At, Retrieving, IInv, TypeOK
  <1> DEFINE where == CASE call[c].readings = 0 -> "encoding"
                        [] call[c].readings = 1 -> "vector"
                        [] call[c].readings = 2 -> "confirming"
             l == [call[c] EXCEPT !.readings = @ + 1, !.scope = granted, !.pc = where]
  <1>2. call[c].readings \in 0 .. 4 /\ call[c].readings + 1 \in 0 .. 4
    BY <1>1 DEF Call
  <1>3. where \in Retrieving /\ where \in Where
    BY <1>1, <1>2 DEF Retrieving, Where
  <1>4. Becomes(c, l)
    BY DEF ReadFamilies
  <1> HIDE DEF where
  <1>5. granted \in SUBSET Fragments
    BY DEF IInv, TypeOK
  <1>6. /\ l \in Call /\ l.pc = where
        /\ l.session = call[c].session /\ (l.created <=> call[c].created)
        /\ l.answer = call[c].answer
        /\ l.denials = call[c].denials /\ l.shown = call[c].shown
        /\ l.state = call[c].state /\ (l.cause <=> call[c].cause)
        /\ (l.response <=> call[c].response)
    BY <1>1, <1>2, <1>3, <1>5 DEF Call
  <1> HIDE DEF l
  <1> QED
    BY <1>1, <1>3, <1>4, <1>6, RetrievingCall

LEMMA SearchStep ==
  ASSUME IInv, NEW c \in Calls, Search(c)
  PROVE  IInv'
  <1>1. call[c].pc \in Retrieving /\ Reads /\ call[c] \in Call
    BY DEF Search, Retrieving, IInv, TypeOK
  <1>2. PICK F \in SUBSET Visible(call[c].scope) :
         Becomes(c, [call[c] EXCEPT !.fragments = @ \cup F,
                                    !.pc = IF At(c, "vector") THEN "lexical" ELSE "scoping"])
    BY DEF Search
  <1> DEFINE where == IF At(c, "vector") THEN "lexical" ELSE "scoping"
             l == [call[c] EXCEPT !.fragments = @ \cup F, !.pc = where]
  <1>3. where \in Retrieving /\ where \in Where
    BY DEF Retrieving, Where
  <1>4. Becomes(c, l)
    BY <1>2
  <1> HIDE DEF where
  <1>5. F \in SUBSET Fragments
    BY DEF IInv, TypeOK, Visible
  <1>6. /\ l \in Call /\ l.pc = where
        /\ l.session = call[c].session /\ (l.created <=> call[c].created)
        /\ l.answer = call[c].answer
        /\ l.denials = call[c].denials /\ l.shown = call[c].shown
        /\ l.state = call[c].state /\ (l.cause <=> call[c].cause)
        /\ (l.response <=> call[c].response)
    BY <1>1, <1>3, <1>5 DEF Call
  <1> HIDE DEF l
  <1> QED
    BY <1>1, <1>3, <1>4, <1>6, RetrievingCall

(* A denial on the way: what the call had is dropped.                      *)
LEMMA DeniedStep ==
  ASSUME IInv, NEW c \in Calls, call[c].pc \in Retrieving \cup {"checking", "sending"}, Reads,
         Finalises(c, Denied(c))
  PROVE  IInv'
  <1>1. call[c].pc \notin {"new", "answered"} \cup Presenting
    BY DEF Retrieving, Presenting
  <1>2. opened' = opened
    BY DEF Reads, world
  <1>3. /\ call' \in [Calls -> Call] /\ (\A d \in Calls \ {c} : call'[d] = call[d])
        /\ call'[c].answer # "ERROR" /\ (Progress(c) /\ Denials(c) /\ Held(c))'
    <2>1. /\ Denied(c) \in Call
          /\ Denied(c).state = "SIN_AUTORIZACION" /\ Denied(c).fragments = {}
          /\ ~Denied(c).response /\ ~Denied(c).cause
          /\ Denied(c).session = call[c].session
          /\ (Denied(c).created <=> call[c].created)
          /\ Denied(c).denials = call[c].denials /\ Denied(c).answer = call[c].answer
          /\ Denied(c).shown = call[c].shown
      BY DeniedFacts DEF IInv
    <2>2. Denied(c).state \in Evidence \ {"EVIDENCIA_SUFICIENTE"}
      BY <2>1 DEF Evidence
    <2> QED BY <1>1, <1>2, <2>1, <2>2, FinalisingCall
  <1> QED
    BY <1>3, ReadStep

LEMMA ConfirmStep ==
  ASSUME IInv, NEW c \in Calls, ScopeChanged(c) \/ Confirm(c)
  PROVE  IInv'
  <1>1. call[c].pc \in Retrieving /\ Reads
    BY DEF ScopeChanged, Confirm, At, Retrieving
  <1>2. CASE Finalises(c, Denied(c))
    BY <1>1, <1>2, DeniedStep
  <1>3. CASE Goes(c, "scoping")
    BY <1>1, <1>3, RetrievingGoes DEF Retrieving
  <1> QED
    BY <1>2, <1>3 DEF ScopeChanged, Confirm

(* An attempt to send begins: what is not permitted now counts as          *)
(* withdrawn.                                                              *)
LEMMA AttemptStep ==
  ASSUME IInv, NEW c \in Calls, call[c].pc \in Retrieving \cup {"checking", "sending"}, Reads,
         NEW n \in 0 .. 3, Attempts(c, n)
  PROVE  IInv'
  <1>1. /\ call' \in [Calls -> Call]
        /\ \A d \in Calls \ {c} : call'[d] = call[d]
        /\ call'[c].pc = "checking" /\ call'[c].state = "EVIDENCIA_SUFICIENTE"
        /\ call'[c].withdrawn = Fragments \ Permitted
        /\ call'[c].session = call[c].session
        /\ (call'[c].cause <=> call[c].cause)
        /\ (call'[c].response <=> call[c].response) /\ (call'[c].created <=> call[c].created)
        /\ call'[c].denials = call[c].denials /\ call'[c].answer = call[c].answer
        /\ call'[c].shown = call[c].shown
    BY AttemptsFacts DEF IInv
  <1>2. /\ call[c].shown = {} /\ call[c].answer = "NONE" /\ call[c].session \in opened
        /\ ~call[c].created /\ call[c].denials = 0
        /\ ~call[c].cause /\ ~call[c].response
    BY DEF IInv, CallsInv, Progress, Denials, Retrieving, Presenting
  <1>3. Progress(c)' /\ Denials(c)'
    BY <1>1, <1>2 DEF Progress, Denials, Retrieving, Finalising, Presenting, Reads, world
  <1>4. Permitted' = Permitted
    BY DEF Reads, world, Permitted, Allowed
  <1>5. Held(c)'
    BY <1>1, <1>4 DEF Held, Presenting
  <1> QED
    BY <1>1, <1>2, <1>3, <1>5, ReadStep

LEMMA DeliverStep ==
  ASSUME IInv, NEW c \in Calls, Deliver(c)
  PROVE  IInv'
  <1>1. call[c].pc = "comparing" /\ Reads /\ call[c] \in Call
    BY DEF Deliver, At, IInv, TypeOK
  <1>2. CASE Attempts(c, 1)
    BY <1>1, <1>2, AttemptStep DEF Retrieving
  <1> DEFINE found == IF call[c].fragments = {} THEN "SIN_EVIDENCIA" ELSE "EVIDENCIA_INSUFICIENTE"
             l == [call[c] EXCEPT !.state = found]
  <1>3. CASE Finalises(c, l)
    <2>1. found \in Evidence \ {"EVIDENCIA_SUFICIENTE"} /\ found # "SIN_AUTORIZACION"
      BY DEF Evidence
    <2> HIDE DEF found
    <2>2. /\ l \in Call /\ l.state = found
          /\ l.session = call[c].session /\ (l.created <=> call[c].created)
          /\ l.answer = call[c].answer
          /\ l.denials = call[c].denials /\ l.shown = call[c].shown
          /\ (l.cause <=> call[c].cause) /\ (l.response <=> call[c].response)
      BY <1>1, <2>1 DEF Call
    <2>3. ~call[c].cause /\ ~call[c].response
      BY <1>1 DEF IInv, CallsInv, Progress, Retrieving
    <2> HIDE DEF l
    <2>4. call[c].pc \notin {"new", "answered"} \cup Presenting /\ opened' = opened
      BY <1>1 DEF Presenting, Reads, world
    <2>5. /\ call' \in [Calls -> Call] /\ (\A d \in Calls \ {c} : call'[d] = call[d])
          /\ call'[c].answer # "ERROR" /\ (Progress(c) /\ Denials(c) /\ Held(c))'
      BY <1>3, <2>1, <2>2, <2>3, <2>4, FinalisingCall
    <2> QED BY <1>1, <2>5, ReadStep
  <1> QED
    BY <1>2, <1>3 DEF Deliver

(* The call as it is, with a cause of failure or a response.               *)
LEMMA OutcomeFacts ==
  ASSUME TypeOK, NEW c \in Calls
  PROVE  /\ \A F \in {{}, call[c].fragments} :
               LET l == [call[c] EXCEPT !.cause = TRUE, !.fragments = F]
               IN  /\ l \in Call /\ l.cause /\ (l.response <=> call[c].response)
                   /\ l.session = call[c].session /\ (l.created <=> call[c].created)
                   /\ l.answer = call[c].answer /\ l.state = call[c].state
                   /\ l.denials = call[c].denials /\ l.shown = call[c].shown
                   /\ l.fragments = F
         /\ [call[c] EXCEPT !.cause = TRUE] =
               [call[c] EXCEPT !.cause = TRUE, !.fragments = call[c].fragments]
         /\ LET l == [call[c] EXCEPT !.response = TRUE]
            IN  /\ l \in Call /\ l.response /\ (l.cause <=> call[c].cause)
                /\ l.session = call[c].session /\ (l.created <=> call[c].created)
                /\ l.answer = call[c].answer /\ l.state = call[c].state
                /\ l.denials = call[c].denials /\ l.shown = call[c].shown
  <1>1. call[c] \in Call
    BY DEF TypeOK
  <1> QED
    BY <1>1 DEF Call

LEMMA RetrievalFailsStep ==
  ASSUME IInv, NEW c \in Calls, RetrievalFails(c)
  PROVE  IInv'
  <1>1. /\ call[c].pc \in {"encoding", "vector", "lexical", "confirming"}
        /\ budget' = [budget EXCEPT !.failures = @ - 1] /\ budget.failures > 0
        /\ UNCHANGED <<world, stored>>
    BY DEF RetrievalFails
  <1> DEFINE l == [call[c] EXCEPT !.cause = TRUE, !.fragments = {}]
  <1>2. Finalises(c, l)
    BY DEF RetrievalFails
  <1>3. /\ l \in Call /\ l.cause /\ (l.response <=> call[c].response)
        /\ l.session = call[c].session /\ (l.created <=> call[c].created)
        /\ l.answer = call[c].answer /\ l.state = call[c].state
        /\ l.denials = call[c].denials /\ l.shown = call[c].shown
    BY OutcomeFacts DEF IInv
  <1>4. call[c].state = "NONE" /\ ~call[c].response
    BY <1>1 DEF IInv, CallsInv, Progress, Retrieving
  <1> HIDE DEF l
  <1>5. call[c].pc \notin {"new", "answered"} \cup Presenting /\ opened' = opened
    BY <1>1 DEF Presenting, world
  <1>6. /\ call' \in [Calls -> Call] /\ (\A d \in Calls \ {c} : call'[d] = call[d])
        /\ call'[c].answer # "ERROR" /\ (Progress(c) /\ Denials(c) /\ Held(c))'
    BY <1>2, <1>3, <1>4, <1>5, FinalisingCall
  <1>7. /\ budget' \in [changes : Nat, failures : Nat]
        /\ budget'.failures = budget.failures - 1
    BY <1>1 DEF IInv, TypeOK
  <1>8. TypeOK' /\ Tame(c)
    BY <1>1, <1>6, <1>7, ReadsTame DEF IInv, TypeOK, world, stored
  <1>9. OnlyFailuresFail'
    BY <1>6, <1>7, NoNewError DEF IInv
  <1> QED
    BY <1>6, <1>8, <1>9, OwnStep

-----------------------------------------------------------------------------
(* The provider *)

(* Whoever still has an open session had it when the attempt began, and no *)
(* permission has changed since.                                           *)
LEMMA CheckSendStep ==
  ASSUME IInv, NEW c \in Calls, CheckSend(c)
  PROVE  IInv'
  <1>1. call[c].pc = "checking" /\ Reads
    BY DEF CheckSend, At
  <1>2. CASE Finalises(c, Denied(c))
    BY <1>1, <1>2, DeniedStep
  <1>3. CASE MayUse(c) /\ Goes(c, "sending")
    <2>1. /\ call' \in [Calls -> Call]
          /\ \A d \in Calls \ {c} : call'[d] = call[d]
          /\ call'[c].pc = "sending"
          /\ call'[c].session = call[c].session
          /\ call'[c].fragments = call[c].fragments /\ call'[c].withdrawn = call[c].withdrawn
          /\ call'[c].state = call[c].state /\ (call'[c].cause <=> call[c].cause)
          /\ (call'[c].response <=> call[c].response) /\ (call'[c].created <=> call[c].created)
          /\ call'[c].denials = call[c].denials /\ call'[c].answer = call[c].answer
          /\ call'[c].shown = call[c].shown
      BY <1>3, GoesFacts DEF IInv, Where
    <2>2. Valid(c) /\ call[c].fragments \subseteq Permitted
      BY <1>3 DEF MayUse, Visible, Permitted
    <2>3. call[c].fragments \cap call[c].withdrawn = {}
      BY <1>1, <2>2 DEF IInv, CallsInv, Held
    <2>4. call[c].answer = "NONE" /\ Progress(c)' /\ Denials(c)' /\ Held(c)'
      BY <1>1, <2>1, <2>3 DEF IInv, CallsInv, Progress, Denials, Held, Retrieving, Finalising,
         Presenting, Reads, world
    <2> QED
      BY <1>1, <2>1, <2>4, ReadStep
  <1> QED
    BY <1>2, <1>3 DEF CheckSend

LEMMA ProviderStep ==
  ASSUME IInv, NEW c \in Calls, Respond(c) \/ ProviderFails(c) \/ RateLimited(c)
  PROVE  IInv'
  <1>1. call[c].pc \in {"checking", "sending"} /\ Reads
    BY DEF Respond, ProviderFails, RateLimited, At
  <1>2. /\ call[c].state = "EVIDENCIA_SUFICIENTE" /\ ~call[c].cause /\ ~call[c].response
        /\ call[c].pc \notin {"new", "answered"} \cup Presenting /\ opened' = opened
    BY <1>1 DEF IInv, CallsInv, Progress, Presenting, Reads, world
  <1>3. CASE Finalises(c, [call[c] EXCEPT !.response = TRUE])
    <2> DEFINE l == [call[c] EXCEPT !.response = TRUE]
    <2>1. /\ l \in Call /\ l.response /\ (l.cause <=> call[c].cause)
          /\ l.session = call[c].session /\ (l.created <=> call[c].created)
          /\ l.answer = call[c].answer /\ l.state = call[c].state
          /\ l.denials = call[c].denials /\ l.shown = call[c].shown
      BY OutcomeFacts DEF IInv
    <2>2. Finalises(c, l)
      BY <1>3
    <2> HIDE DEF l
    <2> QED BY <1>1, <1>2, <2>1, <2>2, FinalisingCall, ReadStep
  <1>4. CASE Finalises(c, [call[c] EXCEPT !.cause = TRUE])
    <2> DEFINE l == [call[c] EXCEPT !.cause = TRUE, !.fragments = call[c].fragments]
    <2>1. /\ l \in Call /\ l.cause /\ (l.response <=> call[c].response)
          /\ l.session = call[c].session /\ (l.created <=> call[c].created)
          /\ l.answer = call[c].answer /\ l.state = call[c].state
          /\ l.denials = call[c].denials /\ l.shown = call[c].shown
      BY OutcomeFacts DEF IInv
    <2>2. Finalises(c, l)
      BY <1>4, OutcomeFacts DEF IInv
    <2> HIDE DEF l
    <2> QED BY <1>1, <1>2, <2>1, <2>2, FinalisingCall, ReadStep
  <1>5. CASE Attempts(c, call[c].attempt + 1) /\ ~LastAttempt(call[c].attempt)
    <2>1. call[c].attempt + 1 \in 0 .. 3
      BY <1>5 DEF IInv, TypeOK, Call, LastAttempt
    <2> QED BY <1>1, <1>5, <2>1, AttemptStep
  <1> QED
    BY <1>3, <1>4, <1>5 DEF Respond, ProviderFails, RateLimited

-----------------------------------------------------------------------------
(* The transaction that stores, and the one that presents *)

LEMMA ReleasedFacts ==
  ASSUME TypeOK, NEW c \in Calls, Released(c)
  PROVE  /\ accountLock' \in Calls \cup {NoCall}
         /\ operationLock' \in [Ops -> Calls \cup {NoCall}]
         /\ \A d \in Calls \ {c} : accountLock = d => accountLock' = d
         /\ \A d \in Calls \ {c} : \A o \in Ops : operationLock[o] = d => operationLock'[o] = d
  BY DEF TypeOK, Released

LEMMA LockOperationStep ==
  ASSUME IInv, NEW c \in Calls, LockOperation(c)
  PROVE  IInv'
  <1>1. /\ call[c].pc = "locking" /\ operationLock[call[c].op] = NoCall
        /\ operationLock' = [operationLock EXCEPT ![call[c].op] = c]
        /\ Goes(c, "deciding")
        /\ UNCHANGED <<world, accountLock, row, budget>>
    BY DEF LockOperation, At, OperationHolder
  <1>2. call[c].op \in Ops
    BY DEF IInv, TypeOK, Call
  <1>3. /\ call' \in [Calls -> Call]
        /\ \A d \in Calls \ {c} : call'[d] = call[d]
        /\ call'[c].pc = "deciding"
        /\ call'[c].op = call[c].op /\ call'[c].session = call[c].session
        /\ call'[c].query = call[c].query /\ call'[c].fragments = call[c].fragments
        /\ call'[c].state = call[c].state /\ (call'[c].cause <=> call[c].cause)
        /\ (call'[c].response <=> call[c].response) /\ (call'[c].created <=> call[c].created)
        /\ call'[c].denials = call[c].denials /\ call'[c].answer = call[c].answer
        /\ call'[c].shown = call[c].shown /\ call'[c] = [call[c] EXCEPT !.pc = "deciding"]
    BY <1>1, GoesFacts DEF IInv, Where
  <1>4. operationLock' \in [Ops -> Calls \cup {NoCall}] /\ operationLock'[call[c].op] = c
        /\ \A o \in Ops \ {call[c].op} : operationLock'[o] = operationLock[o]
    BY <1>1, <1>2 DEF IInv, TypeOK
  <1>5. TypeOK' /\ Tame(c)
    BY <1>1, <1>3, <1>4 DEF IInv, TypeOK, Tame, world
  <1>6. OnlyFailuresFail'
    BY <1>1, <1>3, NoNewError DEF IInv, CallsInv, Progress
  <1>7. Terminal(c)' = Terminal(c)
    BY <1>3 DEF Terminal, IInv, TypeOK, Call
  <1>8. Progress(c)'
    BY <1>1, <1>3, <1>7 DEF IInv, CallsInv, Progress, Retrieving, Finalising, Presenting, world,
       Lifecycle
  <1>9. Denials(c)' /\ Held(c)'
    BY <1>1, <1>3, <1>4 DEF IInv, CallsInv, Denials, Held, Presenting
  <1> QED
    BY <1>5, <1>6, <1>8, <1>9, OwnStep

LEMMA LosesStep ==
  ASSUME IInv, NEW c \in Calls, Loses(c)
  PROVE  IInv'
  <1>1. /\ call[c].pc = "deciding" /\ row[call[c].op].state # "ABSENT" /\ Released(c)
        /\ UNCHANGED <<world, row, budget>>
    BY DEF Loses, At
  <1>2. CASE Answers(c, "409")
    <2>1. /\ call' \in [Calls -> Call]
          /\ \A d \in Calls \ {c} : call'[d] = call[d]
          /\ call'[c].pc = "answered" /\ call'[c].answer = "409" /\ ~call'[c].created
      BY <1>2, AnswersFacts DEF IInv
    <2>2. TypeOK' /\ Tame(c)
      BY <1>1, <2>1, ReleasedFacts DEF IInv, TypeOK, Tame, world
    <2>3. OnlyFailuresFail'
      BY <1>1, <2>1, NoNewError DEF IInv
    <2> QED BY <2>1, <2>2, <2>3, AnsweredCall, OwnStep
  <1>3. CASE Goes(c, "presenting")
    <2>1. /\ call' \in [Calls -> Call]
          /\ \A d \in Calls \ {c} : call'[d] = call[d]
          /\ call'[c].pc = "presenting"
          /\ call'[c].op = call[c].op /\ call'[c].session = call[c].session
          /\ call'[c].state = call[c].state /\ (call'[c].created <=> call[c].created)
          /\ call'[c].denials = call[c].denials /\ call'[c].answer = call[c].answer
          /\ call'[c].shown = call[c].shown
      BY <1>3, GoesFacts DEF IInv, Where
    <2>2. TypeOK' /\ Tame(c)
      BY <1>1, <2>1, ReleasedFacts DEF IInv, TypeOK, Tame, world
    <2>3. call[c].answer = "NONE"
      BY <1>1 DEF IInv, CallsInv, Progress
    <2>4. OnlyFailuresFail'
      BY <1>1, <2>1, <2>3, NoNewError DEF IInv
    <2>5. Progress(c)' /\ Denials(c)' /\ Held(c)'
      BY <1>1, <2>1 DEF IInv, CallsInv, Progress, Denials, Held, Retrieving, Finalising,
         Presenting, world
    <2> QED BY <2>2, <2>4, <2>5, OwnStep
  <1> QED
    BY <1>2, <1>3 DEF Loses

(* What is stored next has been authorised, and the account is locked; or  *)
(* it is a denial.                                                         *)
LEMMA DecideStep ==
  ASSUME IInv, NEW c \in Calls, Decide(c)
  PROVE  IInv'
  <1>1. /\ call[c].pc = "deciding" /\ row[call[c].op].state = "ABSENT"
        /\ UNCHANGED <<world, operationLock, row, budget>> /\ call[c] \in Call
    BY DEF Decide, At, IInv, TypeOK
  <1>2. Permitted' = Permitted /\ open' = open /\ opened' = opened
    BY <1>1 DEF world, Permitted, Allowed
  <1>3. /\ call[c].shown = {} /\ call[c].answer = "NONE" /\ call[c].session \in opened
        /\ ~call[c].created /\ call[c].denials = 0 /\ operationLock[call[c].op] = c
        /\ Lifecycle(Terminal(c))
        /\ (call[c].state = "SIN_AUTORIZACION" => call[c].fragments = {})
    BY <1>1 DEF IInv, CallsInv, Progress, Denials, Held, Finalising, Presenting
  <1>4. ASSUME NEW base \in {call[c], Denied(c)},
               call' = [call EXCEPT ![c] = [base EXCEPT !.pc = "storing"]],
               accountLock' \in {c, accountLock}, accountLock \in {NoCall, accountLock'},
               base = call[c] => (call[c].state = "SIN_AUTORIZACION"
                                    \/ (accountLock' = c /\ MayUse(c)))
        PROVE  IInv'
    <2>1. base \in Call
      BY <1>1, DeniedFacts DEF IInv
    <2> DEFINE l == [base EXCEPT !.pc = "storing"]
    <2>2. l \in Call
      BY <2>1 DEF Call, Where
    <2>3. /\ l.pc = "storing" /\ l.op = base.op /\ l.session = base.session
          /\ l.query = base.query /\ l.fragments = base.fragments
          /\ l.state = base.state /\ (l.cause <=> base.cause)
          /\ (l.response <=> base.response) /\ (l.created <=> base.created)
          /\ l.denials = base.denials /\ l.answer = base.answer /\ l.shown = base.shown
      BY <2>1 DEF Call
    <2>4. Becomes(c, l)
      BY <1>4 DEF Becomes
    <2> HIDE DEF l
    <2>5. call' \in [Calls -> Call] /\ call'[c] = l /\ \A d \in Calls \ {c} : call'[d] = call[d]
      BY <2>2, <2>4, BecomesFacts DEF IInv
    <2>6. /\ base.op = call[c].op /\ base.session = call[c].session
          /\ (base.created <=> call[c].created) /\ base.denials = call[c].denials
          /\ base.answer = call[c].answer /\ base.shown = call[c].shown
      BY <1>4, DeniedFacts DEF IInv
    <2>7. TypeOK' /\ Tame(c)
      BY <1>1, <1>4, <2>5 DEF IInv, TypeOK, Tame, world
    <2>8. OnlyFailuresFail'
      BY <1>1, <1>3, <2>3, <2>5, <2>6, NoNewError DEF IInv
    <2>9. Lifecycle(Terminal(c))' /\ (l.state = "SIN_AUTORIZACION" => l.fragments = {})
      <3>1. CASE base = call[c]
        <4>1. Terminal(c)'.state = Terminal(c).state /\ (Terminal(c)'.cause <=> Terminal(c).cause)
              /\ (Terminal(c)'.response <=> Terminal(c).response)
              /\ Terminal(c)'.operation = Terminal(c).operation
              /\ Terminal(c)'.generation = Terminal(c).generation
          BY <2>3, <2>5, <3>1 DEF Terminal
        <4> QED BY <1>3, <2>3, <3>1, <4>1 DEF Lifecycle
      <3>2. CASE base = Denied(c)
        <4>1. l.state = "SIN_AUTORIZACION" /\ ~l.response /\ ~l.cause /\ l.fragments = {}
          BY <2>3, <3>2, DeniedFacts DEF IInv
        <4>2. Terminal(c)'.state = "SIN_AUTORIZACION" /\ ~Terminal(c)'.cause
              /\ ~Terminal(c)'.response
              /\ Terminal(c)'.operation = "COMPLETED" /\ Terminal(c)'.generation = "NOT_REQUESTED"
          BY <2>5, <4>1 DEF Terminal
        <4> QED BY <4>1, <4>2 DEF Lifecycle, Evidence
      <3> QED BY <3>1, <3>2
    <2>10. Progress(c)'
      BY <1>2, <1>3, <2>3, <2>5, <2>6, <2>9 DEF Progress, Retrieving, Finalising, Presenting
    <2>11. Denials(c)'
      BY <1>3, <2>3, <2>5, <2>6 DEF Denials
    <2>12. l.state # "SIN_AUTORIZACION" =>
              accountLock' = c /\ call[c].session \in open /\ l.fragments \subseteq Permitted
      <3>1. base = Denied(c) => l.state = "SIN_AUTORIZACION"
        BY <2>3, DeniedFacts DEF IInv
      <3> QED BY <1>4, <2>3, <3>1 DEF MayUse, Valid, Visible, Permitted
    <2>13. Held(c)'
      BY <1>1, <1>2, <1>3, <2>3, <2>5, <2>6, <2>12 DEF Held, Presenting, Valid
    <2> QED
      BY <2>7, <2>8, <2>10, <2>11, <2>13, OwnStep
  <1>5. CASE call[c].state = "SIN_AUTORIZACION"
    <2>1. call' = [call EXCEPT ![c] = [call[c] EXCEPT !.pc = "storing"]] /\ accountLock' = accountLock
      BY <1>5 DEF Decide, Goes, Becomes
    <2> QED BY <1>4, <1>5, <2>1
  <1>6. CASE call[c].state # "SIN_AUTORIZACION" /\ MayUse(c)
    <2>1. call' = [call EXCEPT ![c] = [call[c] EXCEPT !.pc = "storing"]]
          /\ accountLock = NoCall /\ accountLock' = c
      BY <1>6 DEF Decide, Becomes, AccountHolder
    <2> QED BY <1>4, <1>6, <2>1
  <1>7. CASE call[c].state # "SIN_AUTORIZACION" /\ ~MayUse(c)
    <2>1. call' = [call EXCEPT ![c] = [Denied(c) EXCEPT !.pc = "storing"]]
          /\ accountLock = NoCall /\ accountLock' = c
      BY <1>7 DEF Decide, Becomes, AccountHolder
    <2>2. Denied(c) # call[c]
      BY <1>7, DeniedFacts DEF IInv
    <2> QED BY <1>4, <2>1, <2>2
  <1> QED
    BY <1>5, <1>6, <1>7

LEMMA TerminalFacts ==
  ASSUME TypeOK, NEW c \in Calls
  PROVE  /\ Terminal(c) \in Row
         /\ Terminal(c).state = call[c].state /\ Terminal(c).fragments = call[c].fragments
         /\ call[c].state \in Evidence \cup {"NONE"} /\ call[c].state # "ABSENT"
  <1>1. call[c] \in Call
    BY DEF TypeOK
  <1>2. Terminal(c) \in Row
    BY <1>1 DEF Terminal, Row, Call
  <1>3. call[c].state \in Evidence \cup {"NONE"} /\ call[c].state # "ABSENT"
    BY <1>1 DEF Call, Evidence
  <1> QED
    BY <1>2, <1>3 DEF Terminal

(* The row of an operation that the call has locked is still absent, and   *)
(* the constraint admits what the call stores.                             *)
LEMMA StoreStep ==
  ASSUME IInv, NEW c \in Calls, Store(c)
  PROVE  IInv'
  <1> DEFINE o == call[c].op
             l == [call[c] EXCEPT !.pc = "presenting", !.created = TRUE,
                         !.denials = IF call[c].state = "SIN_AUTORIZACION" THEN 1 ELSE 0]
  <1>1. /\ call[c].pc = "storing" /\ Released(c) /\ UNCHANGED <<world, budget>>
        /\ call[c] \in Call /\ o \in Ops
    BY DEF Store, At, IInv, TypeOK, Call
  <1>2. /\ row[o].state = "ABSENT" /\ operationLock[o] = c /\ Lifecycle(Terminal(c))
        /\ call[c].shown = {} /\ call[c].answer = "NONE" /\ call[c].session \in opened
    BY <1>1 DEF IInv, CallsInv, Progress, Held, Finalising
  <1>3. row' = [row EXCEPT ![o] = Terminal(c)] /\ Becomes(c, l)
    BY <1>2 DEF Store
  <1>4. /\ l \in Call /\ l.pc = "presenting" /\ l.op = o /\ l.session = call[c].session
        /\ l.created /\ l.denials = (IF call[c].state = "SIN_AUTORIZACION" THEN 1 ELSE 0)
        /\ l.state = call[c].state /\ l.answer = call[c].answer /\ l.shown = call[c].shown
    <2> DEFINE n == IF call[c].state = "SIN_AUTORIZACION" THEN 1 ELSE 0
    <2>1. n \in 0 .. 2
      OBVIOUS
    <2>2. l = [call[c] EXCEPT !.pc = "presenting", !.created = TRUE, !.denials = n]
      OBVIOUS
    <2> HIDE DEF n, l
    <2>3. [call[c] EXCEPT !.pc = "presenting", !.created = TRUE, !.denials = n] \in Call
      BY <1>1, <2>1 DEF Call, Where
    <2>4. /\ l.pc = "presenting" /\ l.op = o /\ l.session = call[c].session
          /\ l.created /\ l.denials = n
          /\ l.state = call[c].state /\ l.answer = call[c].answer /\ l.shown = call[c].shown
      BY <1>1, <2>2 DEF Call
    <2> QED BY <2>2, <2>3, <2>4 DEF n
  <1> HIDE DEF l, o
  <1>5. call' \in [Calls -> Call] /\ call'[c] = l /\ \A d \in Calls \ {c} : call'[d] = call[d]
    BY <1>3, <1>4, BecomesFacts DEF IInv
  <1>6. /\ row' \in [Ops -> Row] /\ row'[o].state # "ABSENT"
        /\ \A p \in Ops \ {o} : row'[p] = row[p]
    BY <1>1, <1>3, TerminalFacts DEF IInv, TypeOK
  <1>7. TypeOK' /\ Tame(c)
    BY <1>1, <1>2, <1>5, <1>6, ReleasedFacts DEF IInv, TypeOK, Tame, world
  <1>8. OnlyFailuresFail'
    BY <1>1, <1>2, <1>4, <1>5, NoNewError DEF IInv
  <1>9. Progress(c)' /\ Denials(c)' /\ Held(c)'
    BY <1>1, <1>2, <1>4, <1>5, <1>6 DEF Progress, Denials, Held, Retrieving, Finalising,
       Presenting, world
  <1> QED
    BY <1>7, <1>8, <1>9, OwnStep

LEMMA PresentStep ==
  ASSUME IInv, NEW c \in Calls, Present(c)
  PROVE  IInv'
  <1> DEFINE r == row[call[c].op]
  <1>1. /\ call[c].pc = "presenting" /\ accountLock = NoCall
        /\ UNCHANGED <<world, operationLock, row, budget>>
        /\ call[c] \in Call /\ call[c].op \in Ops
    BY DEF Present, At, IInv, TypeOK, Call
  <1>2. /\ call[c].shown = {} /\ call[c].answer = "NONE" /\ call[c].session \in opened
        /\ call[c].denials = (IF call[c].created /\ call[c].state = "SIN_AUTORIZACION" THEN 1 ELSE 0)
        /\ r.state # "ABSENT"
    BY <1>1 DEF IInv, CallsInv, Progress, Denials, Held, Presenting
  <1>3. Permitted' = Permitted /\ open' = open /\ opened' = opened
    BY <1>1 DEF world, Permitted, Allowed
  <1>4. CASE UNCHANGED accountLock /\ (Answers(c, "401") \/ (Answers(c, "403") /\ ~AuditsDenial(c)))
    <2>1. PICK code \in {"401", "403"} : Answers(c, code) /\ (code = "403" => ~AuditsDenial(c))
      BY <1>4
    <2>2. /\ call' \in [Calls -> Call]
          /\ \A d \in Calls \ {c} : call'[d] = call[d]
          /\ call'[c].pc = "answered" /\ call'[c].answer = code /\ ~call'[c].created
          /\ call'[c].denials = call[c].denials
      BY <2>1, AnswersFacts DEF IInv
    <2>3. code = "403" => call'[c].denials = 1
      BY <1>2, <2>1, <2>2 DEF AuditsDenial
    <2>4. TypeOK' /\ Tame(c)
      BY <1>1, <1>4, <2>2 DEF IInv, TypeOK, Tame, world
    <2>5. OnlyFailuresFail'
      BY <1>1, <2>2, NoNewError DEF IInv
    <2> QED BY <2>2, <2>3, <2>4, <2>5, AnsweredCall, OwnStep
  <1>5. ASSUME NEW where \in {"materialising", "denying"}, Goes(c, where),
               accountLock' \in {c, NoCall},
               where = "denying" => AuditsDenial(c),
               where = "materialising" =>
                  accountLock' = c /\ Valid(c) /\ r.fragments \subseteq Permitted
        PROVE  IInv'
    <2>1. /\ call' \in [Calls -> Call]
          /\ \A d \in Calls \ {c} : call'[d] = call[d]
          /\ call'[c].pc = where
          /\ call'[c].op = call[c].op /\ call'[c].session = call[c].session
          /\ call'[c].state = call[c].state /\ (call'[c].created <=> call[c].created)
          /\ call'[c].denials = call[c].denials /\ call'[c].answer = call[c].answer
          /\ call'[c].shown = call[c].shown
      BY <1>5, GoesFacts DEF IInv, Where
    <2>2. TypeOK' /\ Tame(c)
      BY <1>1, <1>5, <2>1 DEF IInv, TypeOK, Tame, world
    <2>3. OnlyFailuresFail'
      BY <1>1, <1>2, <2>1, NoNewError DEF IInv
    <2>4. Progress(c)' /\ Denials(c)'
      BY <1>2, <1>3, <1>5, <2>1 DEF Progress, Denials, AuditsDenial, Retrieving, Finalising,
         Presenting
    <2>5. Held(c)'
      BY <1>1, <1>2, <1>3, <1>5, <2>1 DEF Held, Valid
    <2> QED BY <2>2, <2>3, <2>4, <2>5, OwnStep
  <1>6. CASE /\ Valid(c) /\ r.fragments \subseteq Visible(granted)
             /\ accountLock' = c /\ Goes(c, "materialising")
    <2>1. r.fragments \subseteq Permitted
      BY <1>6 DEF Visible, Permitted
    <2> QED BY <1>5, <1>6, <2>1
  <1>7. CASE AuditsDenial(c) /\ Goes(c, "denying") /\ UNCHANGED accountLock
    BY <1>1, <1>5, <1>7
  <1> QED
    BY <1>4, <1>6, <1>7 DEF Present, AccountHolder

(* The last two ways in which a call is answered.                          *)
LEMMA MaterialiseStep ==
  ASSUME IInv, NEW c \in Calls, Materialise(c)
  PROVE  IInv'
  <1> DEFINE r == row[call[c].op]
             code == IF r.operation = "FAILED" THEN "503" ELSE "200"
             l == [NewCall EXCEPT !.pc = "answered", !.shown = r.fragments,
                                  !.denials = call[c].denials, !.answer = code]
  <1>1. /\ Released(c) /\ UNCHANGED <<world, row, budget>> /\ Becomes(c, l)
        /\ call[c] \in Call /\ r \in Row
    BY DEF Materialise, IInv, TypeOK, Call
  <1>2. r.fragments \in SUBSET Fragments /\ call[c].denials \in 0 .. 2
    BY <1>1 DEF Row, Call
  <1>3. code \in {"503", "200"}
    OBVIOUS
  <1> HIDE DEF code, r
  <1>4. /\ l \in Call /\ l.pc = "answered" /\ l.answer = code /\ ~l.created
    <2>1. NewCall \in Call
      BY NewCallType
    <2>2. l \in Call
      BY <1>2, <1>3, <2>1 DEF Call, Where
    <2>3. l.pc = "answered" /\ l.answer = code /\ ~l.created
      BY DEF NewCall
    <2> QED BY <2>2, <2>3
  <1> HIDE DEF l
  <1>5. call' \in [Calls -> Call] /\ call'[c] = l /\ \A d \in Calls \ {c} : call'[d] = call[d]
    BY <1>1, <1>4, BecomesFacts DEF IInv
  <1>6. TypeOK' /\ Tame(c)
    BY <1>1, <1>5, ReleasedFacts DEF IInv, TypeOK, Tame, world
  <1>7. OnlyFailuresFail'
    BY <1>1, <1>3, <1>4, <1>5, NoNewError DEF IInv
  <1> QED
    BY <1>3, <1>4, <1>5, <1>6, <1>7, AnsweredCall, OwnStep

LEMMA AuditDenialStep ==
  ASSUME IInv, NEW c \in Calls, AuditDenial(c)
  PROVE  IInv'
  <1>1. call[c].pc = "denying" /\ Reads
    BY DEF AuditDenial, At
  <1>2. call[c].denials = 0
    BY <1>1 DEF IInv, CallsInv, Denials, AuditsDenial
  <1> DEFINE l == [NewCall EXCEPT !.pc = "answered", !.answer = "403",
                                  !.denials = call[c].denials + 1]
  <1>3. l \in Call /\ l.pc = "answered" /\ l.answer = "403" /\ ~l.created /\ l.denials = 1
    <2>1. 0 + 1 = 1 /\ 1 \in 0 .. 2
      OBVIOUS
    <2>2. l = [NewCall EXCEPT !.pc = "answered", !.answer = "403", !.denials = 1]
      BY <1>2, <2>1
    <2> HIDE DEF l
    <2>3. l \in Call
      BY <2>1, <2>2, NewCallType DEF Call, Where
    <2>4. l.pc = "answered" /\ l.answer = "403" /\ ~l.created /\ l.denials = 1
      BY <2>2 DEF NewCall
    <2> QED BY <2>3, <2>4
  <1>4. Becomes(c, l)
    BY DEF AuditDenial
  <1> HIDE DEF l
  <1>5. call' \in [Calls -> Call] /\ call'[c] = l /\ \A d \in Calls \ {c} : call'[d] = call[d]
    BY <1>3, <1>4, BecomesFacts DEF IInv
  <1> QED
    BY <1>1, <1>3, <1>5, AnsweredCall, ReadStep

LEMMA FailStep ==
  ASSUME IInv, NEW c \in Calls, Fail(c)
  PROVE  IInv'
  <1>1. /\ budget' = [budget EXCEPT !.failures = @ - 1] /\ budget.failures > 0
        /\ Answers(c, "ERROR") /\ Released(c) /\ UNCHANGED <<world, row>>
    BY DEF Fail
  <1>2. /\ call' \in [Calls -> Call]
        /\ \A d \in Calls \ {c} : call'[d] = call[d]
        /\ call'[c].pc = "answered" /\ call'[c].answer = "ERROR" /\ ~call'[c].created
    BY <1>1, AnswersFacts DEF IInv
  <1>3. /\ budget' \in [changes : Nat, failures : Nat]
        /\ budget'.failures = budget.failures - 1
    BY <1>1 DEF IInv, TypeOK
  <1>4. TypeOK' /\ Tame(c)
    BY <1>1, <1>2, <1>3, ReleasedFacts DEF IInv, TypeOK, Tame, world
  <1>5. OnlyFailuresFail'
    BY <1>2, <1>3, OneError DEF IInv
  <1> QED
    BY <1>2, <1>4, <1>5, AnsweredCall, OwnStep

-----------------------------------------------------------------------------
(* Administrators and documents *)

(* A change of what the account may see ends its sessions and waits for    *)
(* whoever holds the account; what the corpus holds protects nothing.      *)
LEMMA WorldStep ==
  ASSUME IInv, UNCHANGED <<stored, call>>, TypeOK',
         opened \subseteq opened', \A s \in opened : s \in open' => s \in open,
         \/ UNCHANGED <<open, granted, exception>>
         \/ accountLock = NoCall /\ UNCHANGED <<granted, exception>>
         \/ accountLock = NoCall /\ open' = {},
         budget'.failures = budget.failures
  PROVE  IInv'
  <1>1. UNCHANGED <<granted, exception>> => Permitted' = Permitted
    BY DEF Permitted, Allowed
  <1>2. ASSUME NEW c \in Calls
        PROVE  Progress(c)' /\ Denials(c)' /\ Held(c)'
    <2>1. Progress(c) /\ Denials(c) /\ Held(c) /\ call' = call /\ call[c] \in Call /\ c # NoCall
      BY DEF IInv, CallsInv, TypeOK
    <2>2. Progress(c)'
      BY <2>1 DEF Progress, Terminal
    <2>3. Denials(c)'
      BY <2>1 DEF Denials, AuditsDenial
    <2>4. call[c].pc = "checking" => (Valid(c)' => Valid(c) /\ Permitted' = Permitted)
      <3>1. call[c].pc = "checking" => call[c].session \in opened
        BY <2>1 DEF Progress
      <3> QED BY <1>1, <2>1, <3>1 DEF Valid
    <2>5. accountLock = c => Valid(c)' = Valid(c) /\ Permitted' = Permitted
      BY <1>1, <2>1 DEF Valid
    <2>6. row' = row /\ accountLock' = accountLock /\ operationLock' = operationLock
      BY DEF stored
    <2>7. Held(c)'
      BY <2>1, <2>4, <2>5, <2>6 DEF Held
    <2> QED BY <2>2, <2>3, <2>7
  <1>3. OnlyFailuresFail'
    BY DEF IInv, OnlyFailuresFail
  <1> QED
    BY <1>2, <1>3 DEF IInv, CallsInv

LEMMA WorldSteps ==
  ASSUME IInv,
         \/ \E s \in Sessions : Login(s) \/ Logout(s)
         \/ \E f \in Fragments :
              \/ ChangeGrant(f) \/ ChangeCorpus(f)
              \/ \E e \in Exceptions : ChangeException(f, e)
  PROVE  IInv'
  <1>1. ASSUME Spends
        PROVE  /\ budget' \in [changes : Nat, failures : Nat]
               /\ budget'.failures = budget.failures /\ UNCHANGED <<stored, call>>
    BY <1>1 DEF Spends, IInv, TypeOK
  <1>2. ASSUME NEW s \in Sessions, Login(s)
        PROVE  IInv'
    <2>1. TypeOK'
      BY <1>2 DEF Login, IInv, TypeOK, stored
    <2> QED BY <1>2, <2>1, WorldStep DEF Login
  <1>3. ASSUME NEW s \in Sessions, Logout(s)
        PROVE  IInv'
    <2>1. TypeOK'
      BY <1>1, <1>3 DEF Logout, IInv, TypeOK, stored
    <2> QED BY <1>1, <1>3, <2>1, WorldStep DEF Logout
  <1>4. ASSUME NEW f \in Fragments, ChangeGrant(f)
        PROVE  IInv'
    <2>1. TypeOK'
      BY <1>1, <1>4 DEF ChangeGrant, Toggled, IInv, TypeOK, stored
    <2> QED BY <1>1, <1>4, <2>1, WorldStep DEF ChangeGrant
  <1>5. ASSUME NEW f \in Fragments, ChangeCorpus(f)
        PROVE  IInv'
    <2>1. TypeOK'
      BY <1>1, <1>5 DEF ChangeCorpus, Toggled, IInv, TypeOK, stored
    <2> QED BY <1>1, <1>5, <2>1, WorldStep DEF ChangeCorpus
  <1>6. ASSUME NEW f \in Fragments, NEW e \in Exceptions, ChangeException(f, e)
        PROVE  IInv'
    <2>1. TypeOK'
      BY <1>1, <1>6 DEF ChangeException, IInv, TypeOK, stored
    <2> QED BY <1>1, <1>6, <2>1, WorldStep DEF ChangeException
  <1> QED
    BY <1>2, <1>3, <1>4, <1>5, <1>6

-----------------------------------------------------------------------------
(* The invariant *)

LEMMA InitInv == Init => IInv
  <1> SUFFICES ASSUME Init
               PROVE  IInv
    OBVIOUS
  <1>1. TypeOK
    BY NewCallType DEF Init, TypeOK, NoRow, Row, Exceptions, Evidence
  <1>2. \A c \in Calls :
           /\ call[c] = NewCall /\ call[c].pc = "new" /\ call[c].answer = "NONE"
           /\ call[c].shown = {} /\ ~call[c].created /\ call[c].denials = 0
    BY DEF Init, NewCall
  <1>3. CallsInv
    BY <1>2 DEF CallsInv, Progress, Denials, Held, Retrieving, Finalising, Presenting
  <1>4. OnlyFailuresFail
    <2>1. Errors = {}
      BY <1>2 DEF Errors
    <2>2. Cardinality(Errors) = 0
      BY <2>1, FS_EmptySet
    <2>3. budget.failures = MaxFailures
      BY DEF Init
    <2>4. Cardinality(Errors) <= MaxFailures - budget.failures
      BY <2>2, <2>3
    <2> QED BY <2>4 DEF OnlyFailuresFail, Errors
  <1> QED
    BY <1>1, <1>3, <1>4 DEF IInv

LEMMA StepInv ==
  ASSUME IInv, NEW c \in Calls, Step(c)
  PROVE  IInv'
  BY FindStep, ScopeStep, FamiliesStep, SearchStep, ConfirmStep, DeliverStep, CheckSendStep,
     ProviderStep, LockOperationStep, LosesStep, DecideStep, StoreStep, PresentStep,
     MaterialiseStep, AuditDenialStep
     DEF Step

LEMMA NextInv == IInv /\ [Next]_vars => IInv'
  <1> SUFFICES ASSUME IInv, [Next]_vars
               PROVE  IInv'
    OBVIOUS
  <1>1. CASE UNCHANGED vars
    <2>1. UNCHANGED <<world, stored, call, budget>>
      BY <1>1 DEF vars
    <2>2. TypeOK'
      BY <2>1 DEF IInv, TypeOK, world, stored
    <2> QED BY <2>1, <2>2, WorldStep DEF world
  <1>2. CASE \E c \in Calls : \/ \E s \in Sessions, q \in Queries, o \in Ops : Request(c, s, q, o)
                              \/ Step(c) \/ RetrievalFails(c) \/ Fail(c)
    BY <1>2, RequestStep, StepInv, RetrievalFailsStep, FailStep
  <1>3. CASE \/ \E s \in Sessions : Login(s) \/ Logout(s)
             \/ \E f \in Fragments :
                  \/ ChangeGrant(f) \/ ChangeCorpus(f)
                  \/ \E e \in Exceptions : ChangeException(f, e)
    BY <1>3, WorldSteps
  <1> QED
    BY <1>1, <1>2, <1>3 DEF Next

(* What every state of a behaviour satisfies.                              *)
THEOREM Invariance == Spec => []IInv
  BY InitInv, NextInv, PTL DEF Spec

(* The calls, the stored rows and what the account may see are typed.      *)
THEOREM Typing == Spec => []TypeOK
  <1>1. IInv => TypeOK
    BY DEF IInv
  <1> QED BY <1>1, Invariance, PTL

(* A fragment that was withdrawn before an attempt to send began does not  *)
(* reach the provider in that attempt, however many times a 429 is retried *)
(* and permissions come and go meanwhile.                                  *)
THEOREM SentPermitted == Spec => []SentUnderPermission
  <1>1. IInv => SentUnderPermission
    BY DEF IInv, CallsInv, Held, SentUnderPermission, At
  <1> QED BY <1>1, Invariance, PTL

(* Every answer 403 has left one AUTHORIZATION_DENIED event.               *)
THEOREM DenialsAudited == Spec => []DenialAuditedOnce
  <1>1. IInv => DenialAuditedOnce
    BY DEF IInv, CallsInv, Denials, DenialAuditedOnce
  <1> QED BY <1>1, Invariance, PTL

(* No more calls fail than statements: no race, and no permission that     *)
(* goes while a call is under way, makes the constraint refuse its row.    *)
THEOREM OnlyStatementsFail == Spec => []OnlyFailuresFail
  <1>1. IInv => OnlyFailuresFail
    BY DEF IInv
  <1> QED BY <1>1, Invariance, PTL

-----------------------------------------------------------------------------
(* Action property *)

(* A call shows something only when it reads the row that it presents:     *)
(* what else it does leaves what is shown alone.                           *)
LEMMA ShownKept ==
  ASSUME TypeOK, NEW c \in Calls, NEW l, Becomes(c, l),
         l.shown = call[c].shown
  PROVE  call'[c].shown = call[c].shown
  BY DEF TypeOK, Becomes

LEMMA ShownOnce ==
  ASSUME IInv, [Next]_vars, NEW c \in Calls, call'[c].shown # call[c].shown
  PROVE  Materialise(c)
  <1>1. call \in [Calls -> Call] /\ call[c] \in Call /\ TypeOK
    BY DEF IInv, TypeOK
  <1>2. NewCall.shown = {}
    BY DEF NewCall
  <1>3. call[c].pc # "answered" => call[c].shown = {}
    BY DEF IInv, CallsInv, Progress
  <1>4. ASSUME NEW where, Goes(c, where)
        PROVE  FALSE
    <2>1. [call[c] EXCEPT !.pc = where].shown = call[c].shown
      BY <1>1 DEF Call
    <2> QED BY <1>1, <1>4, <2>1, ShownKept DEF Goes
  <1>5. ASSUME NEW code, Answers(c, code), call[c].pc # "answered"
        PROVE  FALSE
    <2>1. [NewCall EXCEPT !.pc = "answered", !.answer = code, !.denials = call[c].denials].shown = {}
      BY <1>2 DEF NewCall
    <2> QED BY <1>1, <1>3, <1>5, <2>1, ShownKept DEF Answers
  <1>6. ASSUME NEW l \in Call, Finalises(c, l), l.shown = call[c].shown
        PROVE  FALSE
    BY <1>1, <1>6, FinalisesFacts
  <1>7. ASSUME NEW n, Attempts(c, n)
        PROVE  FALSE
    <2>1. [call[c] EXCEPT !.pc = "checking", !.state = "EVIDENCIA_SUFICIENTE",
                          !.attempt = n, !.withdrawn = Fragments \ Permitted].shown = call[c].shown
      BY <1>1 DEF Call
    <2> QED BY <1>1, <1>7, <2>1, ShownKept DEF Attempts
  <1>8. Denied(c) \in Call /\ Denied(c).shown = call[c].shown
    BY <1>1, DeniedFacts
  <1>9. ASSUME NEW s \in Sessions, NEW q \in Queries, NEW o \in Ops, Request(c, s, q, o)
        PROVE  FALSE
    <2> DEFINE l == [NewCall EXCEPT !.pc = IF o = Key THEN "finding" ELSE "revalidating",
                                    !.op = o, !.session = s, !.query = q]
    <2>1. l.shown = {}
      BY DEF NewCall
    <2>2. Becomes(c, l) /\ call[c].pc # "answered"
      BY <1>9 DEF Request, At
    <2> QED BY <1>1, <1>3, <2>1, <2>2, ShownKept
  <1>10. ASSUME \/ FindNone(c) \/ FindExisting(c) \/ Revalidate(c) \/ ReadAccount(c) \/ Encode(c)
                \/ LockOperation(c) \/ Loses(c) \/ Present(c)
         PROVE  FALSE
    <2>1. call[c].pc # "answered"
      BY <1>10 DEF FindNone, FindExisting, Revalidate, ReadAccount, Encode, LockOperation, Loses,
         Present, At
    <2> QED
      BY <1>4, <1>5, <1>10, <2>1 DEF FindNone, FindExisting, Revalidate, ReadAccount, Encode,
         LockOperation, Loses, Present
  <1>11. ASSUME \/ ScopeChanged(c) \/ Confirm(c) \/ CheckSend(c)
         PROVE  FALSE
    BY <1>4, <1>6, <1>8, <1>11 DEF ScopeChanged, Confirm, CheckSend
  <1>12. ASSUME \/ Deliver(c) \/ Respond(c) \/ ProviderFails(c) \/ RateLimited(c) \/ RetrievalFails(c)
         PROVE  FALSE
    <2>1. /\ [call[c] EXCEPT !.response = TRUE] \in Call
          /\ [call[c] EXCEPT !.response = TRUE].shown = call[c].shown
          /\ [call[c] EXCEPT !.cause = TRUE] \in Call
          /\ [call[c] EXCEPT !.cause = TRUE].shown = call[c].shown
          /\ [call[c] EXCEPT !.cause = TRUE, !.fragments = {}] \in Call
          /\ [call[c] EXCEPT !.cause = TRUE, !.fragments = {}].shown = call[c].shown
      BY <1>1 DEF Call
    <2>2. ASSUME NEW x \in Evidence
          PROVE  /\ [call[c] EXCEPT !.state = x] \in Call
                 /\ [call[c] EXCEPT !.state = x].shown = call[c].shown
      BY <1>1 DEF Call
    <2>3. (IF call[c].fragments = {} THEN "SIN_EVIDENCIA" ELSE "EVIDENCIA_INSUFICIENTE") \in Evidence
      BY DEF Evidence
    <2>4. CASE Deliver(c)
      BY <1>6, <1>7, <2>2, <2>3, <2>4 DEF Deliver
    <2> QED
      BY <1>6, <1>7, <1>12, <2>1, <2>4 DEF Respond, ProviderFails, RateLimited, RetrievalFails
  <1>13. ASSUME ReadFamilies(c)
         PROVE  FALSE
    <2> DEFINE where == CASE call[c].readings = 0 -> "encoding"
                          [] call[c].readings = 1 -> "vector"
                          [] call[c].readings = 2 -> "confirming"
               l == [call[c] EXCEPT !.readings = @ + 1, !.scope = granted, !.pc = where]
    <2>1. Becomes(c, l)
      BY <1>13 DEF ReadFamilies
    <2>2. l.shown = call[c].shown
      BY <1>1 DEF Call
    <2> QED BY <1>1, <2>1, <2>2, ShownKept
  <1>14. ASSUME Search(c)
         PROVE  FALSE
    <2>1. PICK F \in SUBSET Visible(call[c].scope) :
            Becomes(c, [call[c] EXCEPT !.fragments = @ \cup F,
                                       !.pc = IF At(c, "vector") THEN "lexical" ELSE "scoping"])
      BY <1>14 DEF Search
    <2>2. [call[c] EXCEPT !.fragments = @ \cup F,
             !.pc = IF At(c, "vector") THEN "lexical" ELSE "scoping"].shown = call[c].shown
      BY <1>1 DEF Call
    <2> QED BY <1>1, <2>1, <2>2, ShownKept
  <1>15. ASSUME Decide(c)
         PROVE  FALSE
    <2>1. PICK l \in Call : l.shown = call[c].shown /\ Becomes(c, [l EXCEPT !.pc = "storing"])
      BY <1>1, <1>8, <1>15 DEF Decide, Goes
    <2>2. [l EXCEPT !.pc = "storing"].shown = l.shown
      BY DEF Call
    <2> QED BY <1>1, <2>1, <2>2, ShownKept
  <1>16. ASSUME Store(c)
         PROVE  FALSE
    <2> DEFINE n == IF call[c].state = "SIN_AUTORIZACION" THEN 1 ELSE 0
    <2>1. \/ Becomes(c, [call[c] EXCEPT !.pc = "presenting", !.created = TRUE, !.denials = n])
          \/ Answers(c, "ERROR") /\ call[c].pc # "answered"
      BY <1>16 DEF Store, At
    <2>2. [call[c] EXCEPT !.pc = "presenting", !.created = TRUE, !.denials = n].shown
             = call[c].shown
      BY <1>1 DEF Call
    <2> QED BY <1>1, <1>5, <2>1, <2>2, ShownKept
  <1>17. ASSUME AuditDenial(c)
         PROVE  FALSE
    <2> DEFINE l == [NewCall EXCEPT !.pc = "answered", !.answer = "403",
                                    !.denials = call[c].denials + 1]
    <2>1. l.shown = {}
      BY DEF NewCall
    <2>2. Becomes(c, l) /\ call[c].pc # "answered"
      BY <1>17 DEF AuditDenial, At
    <2> QED BY <1>1, <1>3, <2>1, <2>2, ShownKept
  <1>18. ASSUME Fail(c)
         PROVE  FALSE
    BY <1>5, <1>18 DEF Fail
  <1>19. Step(c) => Materialise(c)
    BY <1>10, <1>11, <1>12, <1>13, <1>14, <1>15, <1>16, <1>17 DEF Step
  <1>20. ASSUME NEW d \in Calls, Step(d)
         PROVE  d = c
    <2>1. PICK l : Becomes(d, l)
      BY <1>20 DEF Step, FindNone, FindExisting, Revalidate, ReadAccount, ReadFamilies,
         ScopeChanged, Encode, Search, Confirm, Deliver, CheckSend, Respond, ProviderFails,
         RateLimited, LockOperation, Loses, Decide, Store, Present, Materialise, AuditDenial,
         Goes, Answers, Finalises, Attempts
    <2> QED BY <1>1, <2>1 DEF Becomes
  <1>21. ASSUME NEW d \in Calls,
                \/ \E s \in Sessions, q \in Queries, o \in Ops : Request(d, s, q, o)
                \/ RetrievalFails(d) \/ Fail(d)
         PROVE  d = c
    <2>1. PICK l : Becomes(d, l)
      BY <1>21 DEF Request, RetrievalFails, Fail, Answers, Finalises
    <2> QED BY <1>1, <2>1 DEF Becomes
  <1>22. call' # call
    OBVIOUS
  <1>23. ~ UNCHANGED vars
    BY <1>22 DEF vars
  <1>24. ~ (\/ \E s \in Sessions : Login(s) \/ Logout(s)
            \/ \E f \in Fragments :
                 \/ ChangeGrant(f) \/ ChangeCorpus(f)
                 \/ \E e \in Exceptions : ChangeException(f, e))
    BY <1>22 DEF Login, Logout, ChangeGrant, ChangeCorpus, ChangeException, Spends
  <1>25. PICK d \in Calls : \/ \E s \in Sessions, q \in Queries, o \in Ops : Request(d, s, q, o)
                            \/ Step(d) \/ RetrievalFails(d) \/ Fail(d)
    BY <1>23, <1>24 DEF Next
  <1>26. d = c
    BY <1>20, <1>21, <1>25
  <1> QED
    BY <1>9, <1>12, <1>18, <1>19, <1>25, <1>26

(* A row that is stored with what its call had is stored by that call.     *)
LEMMA StoredOnce ==
  ASSUME IInv, [Next]_vars, NEW c \in Calls, At(c, "storing"), row' # row, call'[c].created
  PROVE  Store(c)
  <1>1. call \in [Calls -> Call] /\ call[c] \in Call /\ ~call[c].created /\ TypeOK
    BY DEF IInv, TypeOK, CallsInv, Progress, Presenting, At
  <1>2. PICK d \in Calls : Store(d)
    BY DEF Next, vars, Step, FindNone, FindExisting, Revalidate, ReadAccount, ReadFamilies,
       ScopeChanged, Encode, Search, Confirm, Deliver, CheckSend, Respond, ProviderFails,
       RateLimited, LockOperation, Loses, Decide, Present, Materialise, AuditDenial,
       Request, RetrievalFails, Fail, Reads, stored, Spends, Login, Logout, ChangeGrant,
       ChangeCorpus, ChangeException
  <1>3. PICK l : Becomes(d, l)
    BY <1>2 DEF Store, Answers
  <1>4. d # c => call'[c] = call[c]
    BY <1>1, <1>3 DEF Becomes
  <1> QED
    BY <1>1, <1>2, <1>4

(* Nothing is shown, and nothing is stored with fragments, once the        *)
(* session is over or a fragment is withdrawn: the account lock keeps what *)
(* was authorised until the text is read and until the row commits.        *)
THEOREM ReadPermitted == Spec => ReadUnderPermission
  <1> DEFINE A == \A c \in Calls :
                    (call'[c].shown # call[c].shown
                       \/ (row' # row /\ At(c, "storing") /\ call'[c].created
                                      /\ row'[call[c].op].fragments # {})) =>
                        Valid(c) /\ row'[call[c].op].fragments \subseteq Permitted
  <1>1. IInv /\ [Next]_vars => A
    <2> SUFFICES ASSUME IInv, [Next]_vars, NEW c \in Calls,
                        \/ call'[c].shown # call[c].shown
                        \/ row' # row /\ At(c, "storing") /\ call'[c].created
                                      /\ row'[call[c].op].fragments # {}
                 PROVE  Valid(c) /\ row'[call[c].op].fragments \subseteq Permitted
      OBVIOUS
    <2>1. Held(c) /\ call[c] \in Call /\ Progress(c)
      BY DEF IInv, CallsInv, TypeOK
    <2>2. CASE call'[c].shown # call[c].shown
      <3>1. Materialise(c)
        BY <2>2, ShownOnce
      <3> QED BY <2>1, <3>1 DEF Materialise, At, Held
    <2>3. CASE row' # row /\ At(c, "storing") /\ call'[c].created
               /\ row'[call[c].op].fragments # {}
      <3>1. Store(c)
        BY <2>3, StoredOnce
      <3>2. row' = [row EXCEPT ![call[c].op] = Terminal(c)]
        BY <2>3, <3>1 DEF Store
      <3>3. row'[call[c].op].fragments = call[c].fragments
        BY <2>1, <3>2 DEF IInv, TypeOK, Call, Terminal
      <3>4. call[c].state # "SIN_AUTORIZACION"
        BY <2>1, <2>3, <3>3 DEF Progress, Finalising, At
      <3> QED BY <2>1, <2>3, <3>3, <3>4 DEF Held, At
    <2> QED BY <2>2, <2>3
  <1> QED
    BY <1>1, Invariance, PTL DEF Spec, ReadUnderPermission
=============================================================================
