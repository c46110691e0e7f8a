--------------------------- MODULE DocumentProofs ---------------------------
(***************************************************************************)
(* Theorems of DocumentVersion, for any number of callers, operations,     *)
(* engines, failures, upgrades and invalidations.                          *)
(***************************************************************************)
EXTENDS DocumentVersion, TLAPS

USE DocumentVersionConstants

-----------------------------------------------------------------------------
(* Invariants *)

(* A caller in a call knows its operation, a manual one until it runs, and *)
(* what it read is what some engine reads.                                 *)
CallInv ==
    \A w \in Callers :
        /\ pc[w] # "idle" => op[w] \in Ops
        /\ pc[w] \in {"requesting", "verifying"} => op[w] \in Manual
        /\ pc[w] \in {"proposing", "embedding"} => \E e \in Engines : reading[w] = Reading[e]

(* The text of a version is one that an engine could read with confidence. *)
TextInv ==
    \A o \in Ops : version[o].text # NoText =>
        \E e \in Engines : Reading[e].text = version[o].text /\ ~Unusable(Reading[e])

(* A certificate covers the text of its version and a ready version has it.*)
CertInv ==
    \A o \in Ops :
        /\ cert[o] # NoText => /\ cert[o] = version[o].text
                               /\ version[o].state \in {"LISTA", "RECHAZADA"}
        /\ version[o].state = "LISTA" => cert[o] # NoText

(* The pointer names a version that was activated and is certified.        *)
ActiveInv == active # NoOp => activations[active] > 0 /\ cert[active] # NoText

(* A dispatched operation comes to its end rejected or activated.          *)
EndInv ==
    \A o \in Dispatched :
        (o \in jobs \/ \E w \in Callers : pc[w] = "finishing" /\ op[w] = o) =>
            version[o].state = "RECHAZADA" \/ activations[o] > 0

IInv == TypeOK /\ CallInv /\ TextInv /\ CertInv /\ ActiveInv /\ EndInv

-----------------------------------------------------------------------------
(* Types *)

LEMMA FinishType ==
  ASSUME TypeOK, NEW w \in Callers, Finish(w)
  PROVE  /\ pc' \in [Callers -> Where] /\ op' \in [Callers -> Ops \cup {NoOp}]
         /\ reading' \in [Callers -> ReadingType \cup {NoReading}]
         /\ expected' \in [Callers -> Ops \cup {NoOp}]
         /\ base' \in [Callers -> Nat]
         /\ requestLock' \in [Ops -> Callers \cup {NoCaller}]
  BY DEF TypeOK, Finish, Where

LEMMA RaisesType ==
  ASSUME TypeOK, NEW w \in Callers, Raises(w)
  PROVE  TypeOK'
  BY FinishType DEF TypeOK, Raises, document

LEMMA GoesType ==
  ASSUME TypeOK, NEW w \in Callers, NEW where \in Where, Goes(w, where)
  PROVE  /\ pc' \in [Callers -> Where] /\ op' \in [Callers -> Ops \cup {NoOp}]
         /\ reading' \in [Callers -> ReadingType \cup {NoReading}]
         /\ expected' \in [Callers -> Ops \cup {NoOp}]
         /\ base' \in [Callers -> Nat]
         /\ requestLock' \in [Ops -> Callers \cup {NoCaller}]
  BY DEF TypeOK, Goes

(* The three changes of a version keep its fields typed.                   *)
LEMMA VersionType ==
  ASSUME NEW v \in Version, NEW r \in ReadingType
  PROVE  /\ Proposed(v, r) \in Version
         /\ [v EXCEPT !.state = "RECHAZADA", !.ocr = OcrResult(v, r)] \in Version
         /\ v.text # NoText => [v EXCEPT !.state = "LISTA"] \in Version
  <1>1. OcrResult(v, r) \in OcrState
    BY DEF OcrResult, OcrState, Version
  <1>2. r.text \in Texts /\ r.text # NoText
    BY DEF ReadingType
  <1>3. Proposed(v, r) \in Version
    BY <1>1, <1>2 DEF Proposed, Version, State
  <1>4. [v EXCEPT !.state = "RECHAZADA", !.ocr = OcrResult(v, r)] \in Version
    BY <1>1 DEF Version, State
  <1>5. v.text # NoText => [v EXCEPT !.state = "LISTA"] \in Version
    BY DEF Version, State
  <1> QED BY <1>3, <1>4, <1>5

LEMMA InitInv == Init => IInv
  <1> SUFFICES ASSUME Init PROVE IInv
    OBVIOUS
  <1>1. TypeOK
    BY DEF Init, TypeOK, NoVersion, Version, State, OcrState, Where, NoReading, Budget
  <1>2. \A o \in Ops : version[o].state = "ABSENT" /\ version[o].text = NoText /\ cert[o] = NoText
    BY DEF Init, NoVersion
  <1>3. \A w \in Callers : pc[w] = "idle"
    BY DEF Init
  <1>4. active = NoOp /\ jobs = {}
    BY DEF Init
  <1> QED BY <1>1, <1>2, <1>3, <1>4 DEF IInv, CallInv, TextInv, CertInv, ActiveInv, EndInv

LEMMA TypeStep == TypeOK /\ CallInv /\ [Next]_vars => TypeOK'
  <1> SUFFICES ASSUME TypeOK, CallInv, [Next]_vars PROVE TypeOK'
    OBVIOUS
  <1>o. \A w \in Callers : pc[w] # "idle" => op[w] \in Ops
    BY DEF CallInv
  <1>r. \A w \in Callers : pc[w] \in {"proposing", "embedding"} => reading[w] \in ReadingType
    BY DEF CallInv
  <1>1. ASSUME NEW w \in Callers, NEW o \in Ops, Dispatch(w, o)
        PROVE  TypeOK'
    BY <1>1 DEF Dispatch, TypeOK, Where, document, history
  <1>2. ASSUME NEW w \in Callers, NEW o \in Ops, Request(w, o)
        PROVE  TypeOK'
    BY <1>2 DEF Request, TypeOK, Where, document, history
  <1>3. ASSUME NEW w \in Callers, Lock(w)
        PROVE  TypeOK'
    BY <1>3 DEF Lock, TypeOK, Where, document, history
  <1>4. ASSUME NEW w \in Callers, Refuse(w)
        PROVE  TypeOK'
    BY <1>4, RaisesType DEF Refuse
  <1>5. ASSUME NEW w \in Callers, Answer(w)
        PROVE  TypeOK'
    BY <1>5, FinishType DEF Answer, TypeOK, document
  <1>6. ASSUME NEW w \in Callers, Verify(w)
        PROVE  TypeOK'
    BY <1>6, GoesType DEF Verify, TypeOK, Where, document
  <1>7. ASSUME NEW w \in Callers, Recognise(w)
        PROVE  TypeOK'
    BY <1>7 DEF Recognise, TypeOK, Where, document, history
  <1>8. ASSUME NEW w \in Callers, RefuseMismatch(w)
        PROVE  TypeOK'
    BY <1>8, RaisesType DEF RefuseMismatch
  <1>9. ASSUME NEW w \in Callers, Reject(w)
        PROVE  TypeOK'
    <2>1. version[op[w]] \in Version /\ reading[w] \in ReadingType
      BY <1>9, <1>o, <1>r DEF Reject, TypeOK
    <2>2. version' \in [Ops -> Version]
      BY <1>9, <2>1, VersionType DEF Reject, TypeOK
    <2>3. "finishing" \in Where
      BY DEF Where
    <2>4. Goes(w, "finishing")
      BY <1>9 DEF Reject
    <2> QED BY <1>9, <2>2, <2>3, <2>4, GoesType DEF Reject, TypeOK
  <1>10. ASSUME NEW w \in Callers, RefuseTerminal(w)
         PROVE  TypeOK'
    BY <1>10, RaisesType DEF RefuseTerminal
  <1>11. ASSUME NEW w \in Callers, Propose(w)
         PROVE  TypeOK'
    <2>1. version[op[w]] \in Version /\ reading[w] \in ReadingType
      BY <1>11, <1>o, <1>r DEF Propose, TypeOK
    <2>2. version' \in [Ops -> Version]
      BY <1>11, <2>1, VersionType DEF Propose, TypeOK
    <2> QED BY <1>11, <2>2 DEF Propose, TypeOK, Where
  <1>12. ASSUME NEW w \in Callers, Certify(w)
         PROVE  TypeOK'
    <2>1. version[op[w]] \in Version /\ reading[w] \in ReadingType
      BY <1>12, <1>o, <1>r DEF Certify, TypeOK
    <2>2. version[op[w]].text = reading[w].text /\ reading[w].text \in Texts
      BY <1>12, <2>1 DEF Certify, Certifiable, ReadingType
    <2>3. [version[op[w]] EXCEPT !.state = "LISTA"] \in Version
      BY <2>1, <2>2, VersionType
    <2>4. version' \in [Ops -> Version] /\ cert' \in [Ops -> Texts \cup {NoText}]
      BY <1>12, <2>2, <2>3 DEF Certify, TypeOK
    <2>5. Goes(w, "checking") /\ "checking" \in Where
      BY <1>12 DEF Certify, AfterIndexing, Where
    <2> QED BY <1>12, <2>4, <2>5, GoesType DEF Certify, TypeOK
  <1>13. ASSUME NEW w \in Callers, SourceChanged(w)
         PROVE  TypeOK'
    BY <1>13, RaisesType DEF SourceChanged
  <1>14. ASSUME NEW w \in Callers, CheckActive(w)
         PROVE  TypeOK'
    BY <1>14, GoesType DEF CheckActive, TypeOK, Where, document
  <1>15. ASSUME NEW w \in Callers, NotReady(w)
         PROVE  TypeOK'
    BY <1>15, RaisesType DEF NotReady
  <1>16. ASSUME NEW w \in Callers, Activate(w)
         PROVE  TypeOK'
    <2>1. op[w] \in Ops
      BY <1>16, <1>o DEF Activate
    <2>2. activations' \in [Ops -> Nat] /\ changes' \in Nat
      BY <1>16, <2>1 DEF Activate, TypeOK
    <2>3. Goes(w, "finishing") /\ "finishing" \in Where
      BY <1>16 DEF Activate, Where
    <2> QED BY <1>16, <2>1, <2>2, <2>3, GoesType DEF Activate, TypeOK
  <1>17. ASSUME NEW w \in Callers, StaleWrite(w)
         PROVE  TypeOK'
    BY <1>17, GoesType DEF StaleWrite, TypeOK, Where, document
  <1>18. ASSUME NEW w \in Callers, Converge(w)
         PROVE  TypeOK'
    BY <1>18, GoesType DEF Converge, TypeOK, Where, document
  <1>19. ASSUME NEW w \in Callers, GiveUp(w)
         PROVE  TypeOK'
    BY <1>19, RaisesType DEF GiveUp
  <1>20. ASSUME NEW w \in Callers, FinalOcr(w)
         PROVE  TypeOK'
    BY <1>20, <1>o, FinishType DEF FinalOcr, TypeOK
  <1>21. ASSUME NEW w \in Callers, Fail(w)
         PROVE  TypeOK'
    BY <1>21, FinishType DEF Fail, TypeOK, Budget, document
  <1>22. CASE Invalidate
    BY <1>22 DEF Invalidate, TypeOK, Budget
  <1>23. ASSUME NEW e \in Engines, Upgrade(e)
         PROVE  TypeOK'
    BY <1>23 DEF Upgrade, TypeOK, Budget, document, history
  <1>24. CASE UNCHANGED vars
    BY <1>24 DEF vars, document, history, TypeOK
  <1> QED
    BY <1>1, <1>2, <1>3, <1>4, <1>5, <1>6, <1>7, <1>8, <1>9, <1>10, <1>11, <1>12, <1>13,
       <1>14, <1>15, <1>16, <1>17, <1>18, <1>19, <1>20, <1>21, <1>22, <1>23, <1>24
       DEF Next, Begins, Works

-----------------------------------------------------------------------------
(* Steps *)

(* What most actions do: the row of the document, the versions, the        *)
(* certificates and the jobs stay, and one caller moves.                   *)
Rows == <<version, cert, active, invalidated, activations, jobs>>

LEMMA CallStep == TypeOK /\ CallInv /\ [Next]_vars => CallInv'
  <1> SUFFICES ASSUME TypeOK, CallInv, [Next]_vars PROVE CallInv'
    OBVIOUS
  <1> USE DEF CallInv, TypeOK
  <1>1. ASSUME NEW w \in Callers, NEW o \in Ops, Dispatch(w, o)
        PROVE  CallInv'
    BY <1>1 DEF Dispatch
  <1>2. ASSUME NEW w \in Callers, NEW o \in Ops, Request(w, o)
        PROVE  CallInv'
    BY <1>2 DEF Request, Manual
  <1>3. ASSUME NEW w \in Callers, Lock(w)
        PROVE  CallInv'
    BY <1>3 DEF Lock
  <1>4. ASSUME NEW w \in Callers, Refuse(w)
        PROVE  CallInv'
    BY <1>4 DEF Refuse, Raises, Finish
  <1>5. ASSUME NEW w \in Callers, Answer(w)
        PROVE  CallInv'
    BY <1>5 DEF Answer, Finish
  <1>6. ASSUME NEW w \in Callers, Verify(w)
        PROVE  CallInv'
    BY <1>6 DEF Verify, Goes
  <1>7. ASSUME NEW w \in Callers, Recognise(w)
        PROVE  CallInv'
    BY <1>7 DEF Recognise
  <1>8. ASSUME NEW w \in Callers, RefuseMismatch(w)
        PROVE  CallInv'
    BY <1>8 DEF RefuseMismatch, Raises, Finish
  <1>9. ASSUME NEW w \in Callers, Reject(w)
        PROVE  CallInv'
    BY <1>9 DEF Reject, Goes
  <1>10. ASSUME NEW w \in Callers, RefuseTerminal(w)
         PROVE  CallInv'
    BY <1>10 DEF RefuseTerminal, Raises, Finish
  <1>11. ASSUME NEW w \in Callers, Propose(w)
         PROVE  CallInv'
    BY <1>11 DEF Propose
  <1>12. ASSUME NEW w \in Callers, Certify(w)
         PROVE  CallInv'
    BY <1>12 DEF Certify, Goes, AfterIndexing
  <1>13. ASSUME NEW w \in Callers, SourceChanged(w)
         PROVE  CallInv'
    BY <1>13 DEF SourceChanged, Raises, Finish
  <1>14. ASSUME NEW w \in Callers, CheckActive(w)
         PROVE  CallInv'
    BY <1>14 DEF CheckActive, Goes
  <1>15. ASSUME NEW w \in Callers, NotReady(w)
         PROVE  CallInv'
    BY <1>15 DEF NotReady, Raises, Finish
  <1>16. ASSUME NEW w \in Callers, Activate(w)
         PROVE  CallInv'
    BY <1>16 DEF Activate, Goes
  <1>17. ASSUME NEW w \in Callers, StaleWrite(w)
         PROVE  CallInv'
    BY <1>17 DEF StaleWrite, Goes
  <1>18. ASSUME NEW w \in Callers, Converge(w)
         PROVE  CallInv'
    BY <1>18 DEF Converge, Goes
  <1>19. ASSUME NEW w \in Callers, GiveUp(w)
         PROVE  CallInv'
    BY <1>19 DEF GiveUp, Raises, Finish
  <1>20. ASSUME NEW w \in Callers, FinalOcr(w)
         PROVE  CallInv'
    BY <1>20 DEF FinalOcr, Finish
  <1>21. ASSUME NEW w \in Callers, Fail(w)
         PROVE  CallInv'
    BY <1>21 DEF Fail, Finish
  <1>22. CASE Invalidate
    BY <1>22 DEF Invalidate
  <1>23. ASSUME NEW e \in Engines, Upgrade(e)
         PROVE  CallInv'
    BY <1>23 DEF Upgrade
  <1>24. CASE UNCHANGED vars
    BY <1>24 DEF vars
  <1> QED
    BY <1>1, <1>2, <1>3, <1>4, <1>5, <1>6, <1>7, <1>8, <1>9, <1>10, <1>11, <1>12,
       <1>13, <1>14, <1>15, <1>16, <1>17, <1>18, <1>19, <1>20, <1>21, <1>22, <1>23,
       <1>24
       DEF Next, Begins, Works

LEMMA RowsStep ==
  ASSUME [Next]_vars
  PROVE  \/ UNCHANGED Rows
         \/ \E w \in Callers : Reject(w) \/ Propose(w) \/ Certify(w) \/ Activate(w) \/ FinalOcr(w)
         \/ Invalidate
  <1> USE DEF Rows, document
  <1>1. ASSUME NEW w \in Callers, Begins(w) \/ Fail(w)
        PROVE  UNCHANGED Rows
    BY <1>1 DEF Begins, Dispatch, Request, Fail
  <1>2. ASSUME NEW w \in Callers,
               Lock(w) \/ Answer(w) \/ Verify(w) \/ Recognise(w) \/ CheckActive(w)
               \/ StaleWrite(w) \/ Converge(w)
        PROVE  UNCHANGED Rows
    BY <1>2 DEF Lock, Answer, Verify, Recognise, CheckActive, StaleWrite, Converge
  <1>3. ASSUME NEW w \in Callers,
               Refuse(w) \/ RefuseMismatch(w) \/ RefuseTerminal(w) \/ SourceChanged(w)
               \/ NotReady(w) \/ GiveUp(w)
        PROVE  UNCHANGED Rows
    BY <1>3 DEF Refuse, RefuseMismatch, RefuseTerminal, SourceChanged, NotReady, GiveUp, Raises
  <1>4. ASSUME NEW e \in Engines, Upgrade(e)
        PROVE  UNCHANGED Rows
    BY <1>4 DEF Upgrade
  <1>5. CASE UNCHANGED vars
    BY <1>5 DEF vars
  <1> QED BY <1>1, <1>2, <1>3, <1>4, <1>5 DEF Next, Works

(* The row of the version of a caller, as each of its transactions leaves  *)
(* it; the other versions stay.                                            *)
Touches(w) ==
    /\ op[w] \in Ops
    /\ \A o \in Ops : o # op[w] => version'[o] = version[o] /\ cert'[o] = cert[o]

LEMMA RejectEffect ==
  ASSUME TypeOK, CallInv, NEW w \in Callers, Reject(w)
  PROVE  /\ Touches(w) /\ cert' = cert
         /\ version'[op[w]].state = "RECHAZADA" /\ version'[op[w]].text = version[op[w]].text
         /\ version[op[w]].text # NoText => version[op[w]].text = reading[w].text
         /\ Unusable(reading[w])
  <1>1. op[w] \in Ops /\ version[op[w]] \in Version
    BY DEF Reject, CallInv, TypeOK
  <1>2. version'[op[w]] = [version[op[w]] EXCEPT !.state = "RECHAZADA",
                                                 !.ocr = OcrResult(version[op[w]], reading[w])]
    BY <1>1 DEF Reject, TypeOK
  <1>3. version'[op[w]].state = "RECHAZADA" /\ version'[op[w]].text = version[op[w]].text
    BY <1>1, <1>2 DEF Version
  <1> QED BY <1>1, <1>3 DEF Reject, TypeOK, Touches, Mismatch

LEMMA ProposeEffect ==
  ASSUME TypeOK, CallInv, NEW w \in Callers, Propose(w)
  PROVE  /\ Touches(w) /\ cert' = cert
         /\ version[op[w]].state \in {"ABSENT", "PROCESANDO", "LISTA"}
         /\ version[op[w]].state = "LISTA" => /\ version'[op[w]].state = "LISTA"
                                              /\ version'[op[w]].text = version[op[w]].text
         /\ version[op[w]].state # "LISTA" => /\ version'[op[w]].state = "PROCESANDO"
                                              /\ version'[op[w]].text = reading[w].text
         /\ ~Unusable(reading[w])
  <1>1. op[w] \in Ops /\ version[op[w]] \in Version
    BY DEF Propose, CallInv, TypeOK
  <1>2. version'[op[w]] = Proposed(version[op[w]], reading[w])
    BY <1>1 DEF Propose, TypeOK
  <1>3. version[op[w]].state = "LISTA" =>
           version'[op[w]].state = "LISTA" /\ version'[op[w]].text = version[op[w]].text
    BY <1>1, <1>2 DEF Version, Proposed
  <1>4. version[op[w]].state # "LISTA" =>
           version'[op[w]].state = "PROCESANDO" /\ version'[op[w]].text = reading[w].text
    BY <1>1, <1>2 DEF Version, Proposed
  <1>5. version[op[w]].state \in {"ABSENT", "PROCESANDO", "LISTA"}
    BY <1>1 DEF Propose, Terminal, Version, State
  <1> QED BY <1>1, <1>3, <1>4, <1>5 DEF Propose, TypeOK, Touches

LEMMA CertifyEffect ==
  ASSUME TypeOK, CallInv, CertInv, NEW w \in Callers, Certify(w)
  PROVE  /\ Touches(w)
         /\ version[op[w]].state \in {"PROCESANDO", "LISTA"}
         /\ version'[op[w]].text = version[op[w]].text /\ version'[op[w]].state = "LISTA"
         /\ cert'[op[w]] = version[op[w]].text /\ cert'[op[w]] # NoText
  <1>1. op[w] \in Ops /\ version[op[w]] \in Version
    BY DEF Certify, CallInv, TypeOK
  <1>2. reading[w].text \in Texts /\ reading[w].text = version[op[w]].text
    BY DEF Certify, CallInv, Certifiable, ReadingType
  <1>3. version[op[w]].state \in {"PROCESANDO", "LISTA"}
    BY DEF Certify, Certifiable
  <1>4. CASE cert[op[w]] = NoText
    <2>1. version'[op[w]] = [version[op[w]] EXCEPT !.state = "LISTA"] /\ cert'[op[w]] = reading[w].text
      BY <1>1, <1>4 DEF Certify, TypeOK
    <2>2. version'[op[w]].text = version[op[w]].text /\ version'[op[w]].state = "LISTA"
      BY <1>1, <2>1 DEF Version
    <2> QED BY <1>1, <1>2, <1>3, <1>4, <2>1, <2>2 DEF Certify, Touches, TypeOK
  <1>5. CASE cert[op[w]] # NoText
    <2>1. version' = version /\ cert' = cert
      BY <1>5 DEF Certify
    <2>2. cert[op[w]] = version[op[w]].text /\ version[op[w]].state = "LISTA"
      BY <1>1, <1>3, <1>5 DEF CertInv
    <2> QED BY <1>1, <1>3, <1>5, <2>1, <2>2 DEF Touches
  <1> QED BY <1>4, <1>5

LEMMA ActivateEffect ==
  ASSUME TypeOK, CallInv, NEW w \in Callers, Activate(w)
  PROVE  /\ op[w] \in Ops /\ version[op[w]].state = "LISTA" /\ active' = op[w]
         /\ version' = version /\ cert' = cert /\ jobs' = jobs
         /\ \A o \in Ops : activations'[o] >= activations[o]
         /\ activations'[op[w]] > 0
  BY DEF Activate, CallInv, TypeOK

(* The text and the certificate of a version.                              *)
LEMMA EvidenceStep ==
  ASSUME IInv, [Next]_vars
  PROVE  TextInv' /\ CertInv'
  <1>i. TypeOK /\ CallInv /\ TextInv /\ CertInv
    BY DEF IInv
  <1>1. CASE UNCHANGED <<version, cert>>
    BY <1>i, <1>1 DEF TextInv, CertInv
  <1>2. ASSUME NEW w \in Callers, Reject(w)
        PROVE  TextInv' /\ CertInv'
    <2>1. CertInv'
      BY <1>2, <1>i, RejectEffect DEF CertInv, Touches
    <2>2. \A o \in Ops : version'[o].text = version[o].text
      BY <1>2, <1>i, RejectEffect DEF Touches
    <2> QED BY <1>i, <2>1, <2>2 DEF TextInv
  <1>3. ASSUME NEW w \in Callers, Propose(w)
        PROVE  TextInv' /\ CertInv'
    <2>1. CertInv'
      BY <1>3, <1>i, ProposeEffect DEF CertInv, Touches
    <2>2. PICK e \in Engines : reading[w] = Reading[e]
      BY <1>3, <1>i DEF Propose, CallInv
    <2>3. \A o \in Ops : version'[o].text = version[o].text \/ version'[o].text = Reading[e].text
      BY <1>3, <1>i, <2>2, ProposeEffect DEF Touches
    <2>4. ~Unusable(Reading[e])
      BY <1>3, <1>i, <2>2, ProposeEffect
    <2>5. TextInv'
      BY <1>i, <2>3, <2>4 DEF TextInv
    <2> QED BY <2>1, <2>5
  <1>4. ASSUME NEW w \in Callers, Certify(w)
        PROVE  TextInv' /\ CertInv'
    <2>1. CertInv'
      BY <1>4, <1>i, CertifyEffect DEF CertInv, Touches
    <2>2. \A o \in Ops : version'[o].text = version[o].text
      BY <1>4, <1>i, CertifyEffect DEF Touches
    <2> QED BY <1>i, <2>1, <2>2 DEF TextInv
  <1>5. ASSUME NEW w \in Callers, Activate(w) \/ FinalOcr(w)
        PROVE  UNCHANGED <<version, cert>>
    BY <1>5 DEF Activate, FinalOcr
  <1>6. CASE Invalidate
    BY <1>1, <1>6 DEF Invalidate
  <1> QED BY <1>1, <1>2, <1>3, <1>4, <1>5, <1>6, RowsStep DEF Rows

LEMMA ActiveStep ==
  ASSUME IInv, [Next]_vars
  PROVE  ActiveInv'
  <1>i. TypeOK /\ CallInv /\ CertInv /\ ActiveInv
    BY DEF IInv
  <1>a. active # NoOp => active \in Ops
    BY <1>i DEF TypeOK
  <1>1. CASE UNCHANGED Rows
    BY <1>i, <1>1 DEF ActiveInv, Rows
  <1>2. ASSUME NEW w \in Callers, Reject(w)
        PROVE  ActiveInv'
    BY <1>2, <1>i DEF Reject, ActiveInv
  <1>3. ASSUME NEW w \in Callers, Propose(w)
        PROVE  ActiveInv'
    BY <1>3, <1>i DEF Propose, ActiveInv
  <1>4. ASSUME NEW w \in Callers, Certify(w)
        PROVE  ActiveInv'
    <2>1. \A o \in Ops : cert[o] # NoText => cert'[o] # NoText
      BY <1>4, <1>i, CertifyEffect DEF Touches
    <2>2. active' = active /\ activations' = activations
      BY <1>4 DEF Certify
    <2> QED BY <1>i, <1>a, <2>1, <2>2 DEF ActiveInv
  <1>5. ASSUME NEW w \in Callers, Activate(w)
        PROVE  ActiveInv'
    BY <1>5, <1>i, ActivateEffect DEF ActiveInv, CertInv
  <1>6. ASSUME NEW w \in Callers, FinalOcr(w)
        PROVE  ActiveInv'
    BY <1>6, <1>i DEF FinalOcr, ActiveInv
  <1>7. CASE Invalidate
    BY <1>7 DEF Invalidate, ActiveInv
  <1> QED BY <1>1, <1>2, <1>3, <1>4, <1>5, <1>6, <1>7, RowsStep

(* A rejected version stays so, and nothing puts it in force.              *)
LEMMA RejectedStep ==
  ASSUME TypeOK, CallInv, CertInv, [Next]_vars, NEW o \in Ops, version[o].state = "RECHAZADA"
  PROVE  version'[o].state = "RECHAZADA" /\ (active' = o => active = o)
  <1>1. CASE UNCHANGED Rows
    BY <1>1 DEF Rows
  <1>2. ASSUME NEW w \in Callers, Reject(w)
        PROVE  version'[o].state = "RECHAZADA" /\ (active' = o => active = o)
    BY <1>2, RejectEffect DEF Touches, Reject
  <1>3. ASSUME NEW w \in Callers, Propose(w)
        PROVE  version'[o].state = "RECHAZADA" /\ (active' = o => active = o)
    BY <1>3, ProposeEffect DEF Touches, Propose
  <1>4. ASSUME NEW w \in Callers, Certify(w)
        PROVE  version'[o].state = "RECHAZADA" /\ (active' = o => active = o)
    BY <1>4, CertifyEffect DEF Touches, Certify
  <1>5. ASSUME NEW w \in Callers, Activate(w)
        PROVE  version'[o].state = "RECHAZADA" /\ (active' = o => active = o)
    BY <1>5, ActivateEffect
  <1>6. ASSUME NEW w \in Callers, FinalOcr(w)
        PROVE  version'[o].state = "RECHAZADA" /\ (active' = o => active = o)
    BY <1>6 DEF FinalOcr
  <1>7. CASE Invalidate
    BY <1>7 DEF Invalidate
  <1> QED BY <1>1, <1>2, <1>3, <1>4, <1>5, <1>6, <1>7, RowsStep

(* Activations are only added, and a job only by a caller at its end.      *)
LEMMA EventsStep ==
  ASSUME TypeOK, CallInv, [Next]_vars, NEW o \in Ops
  PROVE  /\ activations[o] > 0 => activations'[o] > 0
         /\ o \in jobs' => o \in jobs \/ \E w \in Callers : pc[w] = "finishing" /\ op[w] = o
  <1>1. CASE UNCHANGED Rows
    BY <1>1 DEF Rows
  <1>2. ASSUME NEW w \in Callers, Reject(w) \/ Propose(w) \/ Certify(w)
        PROVE  activations' = activations /\ jobs' = jobs
    BY <1>2 DEF Reject, Propose, Certify
  <1>3. ASSUME NEW w \in Callers, Activate(w)
        PROVE  jobs' = jobs /\ activations'[o] >= activations[o]
    BY <1>3, ActivateEffect
  <1>4. ASSUME NEW w \in Callers, FinalOcr(w)
        PROVE  /\ activations' = activations
               /\ o \in jobs' => o \in jobs \/ (pc[w] = "finishing" /\ op[w] = o)
    BY <1>4 DEF FinalOcr
  <1>5. CASE Invalidate
    BY <1>5 DEF Invalidate
  <1>6. activations[o] \in Nat
    BY DEF TypeOK
  <1>7. ASSUME NEW w \in Callers, Activate(w)
        PROVE  activations[o] > 0 => activations'[o] > 0
    <2>1. activations'[o] \in Nat
      BY TypeStep DEF TypeOK
    <2> QED BY <1>3, <1>6, <1>7, <2>1
  <1> QED BY <1>1, <1>2, <1>3, <1>4, <1>5, <1>7, RowsStep

(* The steps that bring a caller to its end, or leave it there.            *)
Arrives(x) ==
    \/ pc[x] = "finishing"
    \/ Verify(x) \/ Reject(x) \/ (CheckActive(x) /\ VersionIsActive(op[x]))
    \/ Activate(x) \/ Converge(x)

LEMMA ArrivalStep ==
  ASSUME TypeOK, CallInv, [Next]_vars, NEW x \in Callers, pc'[x] = "finishing"
  PROVE  Arrives(x) /\ op'[x] = op[x]
  <1> USE DEF TypeOK, Arrives
  <1>1. ASSUME NEW w \in Callers, NEW o \in Ops, Dispatch(w, o)
        PROVE  Arrives(x) /\ op'[x] = op[x]
    BY <1>1 DEF Dispatch
  <1>2. ASSUME NEW w \in Callers, NEW o \in Ops, Request(w, o)
        PROVE  Arrives(x) /\ op'[x] = op[x]
    BY <1>2 DEF Request
  <1>3. ASSUME NEW w \in Callers, Lock(w)
        PROVE  Arrives(x) /\ op'[x] = op[x]
    BY <1>3 DEF Lock
  <1>4. ASSUME NEW w \in Callers, Refuse(w)
        PROVE  Arrives(x) /\ op'[x] = op[x]
    BY <1>4 DEF Refuse, Raises, Finish
  <1>5. ASSUME NEW w \in Callers, Answer(w)
        PROVE  Arrives(x) /\ op'[x] = op[x]
    BY <1>5 DEF Answer, Finish
  <1>6. ASSUME NEW w \in Callers, Recognise(w)
        PROVE  Arrives(x) /\ op'[x] = op[x]
    BY <1>6 DEF Recognise
  <1>7. ASSUME NEW w \in Callers, RefuseMismatch(w)
        PROVE  Arrives(x) /\ op'[x] = op[x]
    BY <1>7 DEF RefuseMismatch, Raises, Finish
  <1>8. ASSUME NEW w \in Callers, RefuseTerminal(w)
        PROVE  Arrives(x) /\ op'[x] = op[x]
    BY <1>8 DEF RefuseTerminal, Raises, Finish
  <1>9. ASSUME NEW w \in Callers, Propose(w)
        PROVE  Arrives(x) /\ op'[x] = op[x]
    BY <1>9 DEF Propose
  <1>10. ASSUME NEW w \in Callers, Certify(w)
         PROVE  Arrives(x) /\ op'[x] = op[x]
    BY <1>10 DEF Certify, Goes, AfterIndexing
  <1>11. ASSUME NEW w \in Callers, SourceChanged(w)
         PROVE  Arrives(x) /\ op'[x] = op[x]
    BY <1>11 DEF SourceChanged, Raises, Finish
  <1>12. ASSUME NEW w \in Callers, NotReady(w)
         PROVE  Arrives(x) /\ op'[x] = op[x]
    BY <1>12 DEF NotReady, Raises, Finish
  <1>13. ASSUME NEW w \in Callers, StaleWrite(w)
         PROVE  Arrives(x) /\ op'[x] = op[x]
    BY <1>13 DEF StaleWrite, Goes
  <1>14. ASSUME NEW w \in Callers, GiveUp(w)
         PROVE  Arrives(x) /\ op'[x] = op[x]
    BY <1>14 DEF GiveUp, Raises, Finish
  <1>15. ASSUME NEW w \in Callers, FinalOcr(w)
         PROVE  Arrives(x) /\ op'[x] = op[x]
    BY <1>15 DEF FinalOcr, Finish
  <1>16. ASSUME NEW w \in Callers, Fail(w)
         PROVE  Arrives(x) /\ op'[x] = op[x]
    BY <1>16 DEF Fail, Finish
  <1>17. ASSUME NEW w \in Callers, Verify(w) \/ Reject(w) \/ Activate(w) \/ Converge(w)
         PROVE  Arrives(x) /\ op'[x] = op[x]
    <2>1. op' = op /\ \A y \in Callers : y # w => pc'[y] = pc[y]
      BY <1>17 DEF Verify, Reject, Activate, Converge, Goes
    <2>2. CASE x = w
      BY <1>17, <2>1, <2>2
    <2>3. CASE x # w
      BY <2>1, <2>3
    <2> QED BY <2>2, <2>3
  <1>18. ASSUME NEW w \in Callers, CheckActive(w)
         PROVE  Arrives(x) /\ op'[x] = op[x]
    BY <1>18 DEF CheckActive, Goes
  <1>19. CASE Invalidate
    BY <1>19 DEF Invalidate
  <1>20. ASSUME NEW e \in Engines, Upgrade(e)
         PROVE  Arrives(x) /\ op'[x] = op[x]
    BY <1>20 DEF Upgrade
  <1>21. CASE UNCHANGED vars
    BY <1>21 DEF vars
  <1> QED
    BY <1>1, <1>2, <1>3, <1>4, <1>5, <1>6, <1>7, <1>8, <1>9, <1>10, <1>11, <1>12, <1>13, <1>14,
       <1>15, <1>16, <1>17, <1>18, <1>19, <1>20, <1>21
       DEF Next, Begins, Works

LEMMA EndStep ==
  ASSUME IInv, [Next]_vars
  PROVE  EndInv'
  <1>i. TypeOK /\ CallInv /\ CertInv /\ ActiveInv /\ EndInv
    BY DEF IInv
  <1> SUFFICES ASSUME NEW o \in Dispatched,
                      o \in jobs' \/ \E x \in Callers : pc'[x] = "finishing" /\ op'[x] = o
               PROVE  version'[o].state = "RECHAZADA" \/ activations'[o] > 0
    BY DEF EndInv
  <1>o. o \in Ops
    OBVIOUS
  <1>1. ASSUME version[o].state = "RECHAZADA" \/ activations[o] > 0
        PROVE  version'[o].state = "RECHAZADA" \/ activations'[o] > 0
    BY <1>i, <1>o, <1>1, RejectedStep, EventsStep
  <1>2. CASE o \in jobs'
    <2>1. o \in jobs \/ \E w \in Callers : pc[w] = "finishing" /\ op[w] = o
      BY <1>i, <1>o, <1>2, EventsStep
    <2> QED BY <1>i, <1>1, <2>1 DEF EndInv
  <1>3. ASSUME NEW x \in Callers, pc'[x] = "finishing", op'[x] = o
        PROVE  version'[o].state = "RECHAZADA" \/ activations'[o] > 0
    <2>1. Arrives(x) /\ op[x] = o
      BY <1>i, <1>3, ArrivalStep
    <2>2. CASE pc[x] = "finishing"
      BY <1>i, <1>1, <2>1, <2>2 DEF EndInv
    <2>3. CASE Verify(x)
      <3>1. op[x] \in Manual
        BY <1>i, <2>3 DEF Verify, CallInv
      <3> QED BY <2>1, <3>1 DEF Manual
    <2>4. CASE Reject(x)
      BY <1>i, <2>1, <2>4, RejectEffect
    <2>5. CASE (CheckActive(x) \/ Converge(x)) /\ VersionIsActive(op[x])
      <3>1. activations[o] > 0
        BY <1>i, <1>o, <2>1, <2>5 DEF VersionIsActive, ActiveInv
      <3> QED BY <1>1, <3>1
    <2>6. CASE Activate(x)
      BY <1>i, <2>1, <2>6, ActivateEffect
    <2> QED BY <2>1, <2>2, <2>3, <2>4, <2>5, <2>6 DEF Arrives, Converge
  <1> QED BY <1>2, <1>3

LEMMA InvStep == IInv /\ [Next]_vars => IInv'
  BY TypeStep, CallStep, EvidenceStep, ActiveStep, EndStep DEF IInv

LEMMA Invariance == Spec => []IInv
  BY InitInv, InvStep, PTL DEF Spec

-----------------------------------------------------------------------------
(* Theorems *)

(* Every variable keeps its type: among others, no version is being        *)
(* processed or ready without the text it was built from.                  *)
THEOREM TypeCorrect == Spec => []TypeOK
  <1>1. IInv => TypeOK
    BY DEF IInv
  <1> QED BY <1>1, Invariance, PTL

(* Whatever attempts of its dispatch failed, were repeated or ran at once, *)
(* an operation that is over with a ready version put it in force.         *)
THEOREM DispatchedWasActivated == Spec => []DispatchedIsActivated
  <1>1. IInv => DispatchedIsActivated
    BY DEF IInv, EndInv, DispatchedIsActivated
  <1> QED BY <1>1, Invariance, PTL

(* A version rejected by one call is out for the other calls of its        *)
(* operation too, wherever they are.                                       *)
THEOREM RejectedIsFinal == Spec => RejectedStaysOut
  <1>1. ASSUME IInv, [Next]_vars
        PROVE  [\A o \in Ops : version[o].state = "RECHAZADA" =>
                  /\ version'[o].state = "RECHAZADA"
                  /\ active' = o => active = o]_vars
    BY <1>1, RejectedStep DEF IInv
  <1>2. RejectedStaysOut <=> [][\A o \in Ops : version[o].state = "RECHAZADA" =>
                                  /\ version'[o].state = "RECHAZADA"
                                  /\ active' = o => active = o]_vars
    BY DEF RejectedStaysOut
  <1> QED BY <1>1, <1>2, Invariance, PTL DEF Spec

(* The active version is one the retrieval can use, or one that an engine  *)
(* without confidence in the same text rejected while it was in force.     *)
THEOREM ActiveIsUsable == Spec => []ActiveIsSearchable
  <1>1. Init => ActiveIsSearchable
    BY DEF Init, ActiveIsSearchable
  <1>2. ASSUME IInv, ActiveIsSearchable, [Next]_vars
        PROVE  ActiveIsSearchable'
    <2>i. TypeOK /\ CallInv /\ TextInv /\ CertInv /\ ActiveInv
      BY <1>2 DEF IInv
    <2>a. active # NoOp => active \in Ops
      BY <2>i DEF TypeOK
    <2>1. CertInv' /\ TypeOK'
      BY <1>2, EvidenceStep, InvStep DEF IInv
    <2>2. ASSUME active' \in Ops, version'[active'].state = "LISTA"
          PROVE  ActiveIsSearchable'
      BY <2>1, <2>2 DEF CertInv, ActiveIsSearchable
    <2>3. CASE UNCHANGED Rows
      BY <1>2, <2>3 DEF Rows, ActiveIsSearchable, ReadWithoutConfidence
    <2>4. ASSUME NEW w \in Callers, Reject(w)
          PROVE  ActiveIsSearchable'
      <3>1. active' = active
        BY <2>4 DEF Reject
      <3>2. CASE active # NoOp /\ active # op[w]
        <4>1. version'[active] = version[active] /\ cert'[active] = cert[active]
          BY <2>4, <2>a, <2>i, <3>2, RejectEffect DEF Touches
        <4> QED BY <1>2, <3>1, <3>2, <4>1 DEF ActiveIsSearchable, ReadWithoutConfidence
      <3>3. CASE active # NoOp /\ active = op[w]
        <4>1. version[op[w]].text # NoText /\ cert[active] = version[active].text
          BY <1>2, <3>3 DEF ActiveIsSearchable
        <4>2. PICK e \in Engines : reading[w] = Reading[e]
          BY <2>4, <2>i DEF CallInv, Reject
        <4>3. /\ version[op[w]].text = reading[w].text /\ Unusable(Reading[e])
              /\ version'[active].text = version[active].text
              /\ version'[active].state = "RECHAZADA" /\ cert' = cert
          BY <2>4, <2>a, <2>i, <3>3, <4>1, <4>2 DEF Reject, Mismatch, TypeOK, Version
        <4> QED BY <3>1, <3>3, <4>1, <4>2, <4>3 DEF ActiveIsSearchable, ReadWithoutConfidence
      <3> QED BY <3>1, <3>2, <3>3 DEF ActiveIsSearchable
    <2>5. ASSUME NEW w \in Callers, Propose(w)
          PROVE  ActiveIsSearchable'
      <3>1. active' = active
        BY <2>5 DEF Propose
      <3>2. CASE active = op[w] /\ active # NoOp
        <4>1. version'[active].state = "LISTA"
          BY <1>2, <2>5, <2>a, <2>i, <3>2, ProposeEffect DEF Propose, Terminal, ActiveIsSearchable
        <4> QED BY <2>2, <2>a, <3>1, <3>2, <4>1
      <3>3. CASE active # op[w] /\ active # NoOp
        <4>1. version'[active] = version[active] /\ cert' = cert
          BY <2>5, <2>a, <2>i, <3>3 DEF Propose, TypeOK
        <4> QED BY <1>2, <3>1, <3>3, <4>1 DEF ActiveIsSearchable, ReadWithoutConfidence
      <3> QED BY <3>1, <3>2, <3>3 DEF ActiveIsSearchable
    <2>6. ASSUME NEW w \in Callers, Certify(w)
          PROVE  ActiveIsSearchable'
      <3>1. active' = active
        BY <2>6 DEF Certify
      <3>2. CASE active = op[w] /\ active # NoOp
        <4>1. version'[active].state = "LISTA"
          BY <1>2, <2>6, <2>a, <2>i, <3>2, CertifyEffect DEF Certify, Certifiable, ActiveIsSearchable
        <4> QED BY <2>2, <2>a, <3>1, <3>2, <4>1
      <3>3. CASE active # op[w] /\ active # NoOp
        <4>1. version'[active] = version[active] /\ cert'[active] = cert[active]
          BY <2>6, <2>a, <2>i, <3>3 DEF Certify, TypeOK
        <4> QED BY <1>2, <3>1, <3>3, <4>1 DEF ActiveIsSearchable, ReadWithoutConfidence
      <3> QED BY <3>1, <3>2, <3>3 DEF ActiveIsSearchable
    <2>7. ASSUME NEW w \in Callers, Activate(w)
          PROVE  ActiveIsSearchable'
      BY <2>2, <2>7, <2>i, ActivateEffect
    <2>8. ASSUME NEW w \in Callers, FinalOcr(w)
          PROVE  ActiveIsSearchable'
      BY <1>2, <2>8 DEF FinalOcr, ActiveIsSearchable, ReadWithoutConfidence
    <2>9. CASE Invalidate
      BY <2>9 DEF Invalidate, ActiveIsSearchable
    <2> QED BY <1>2, <2>3, <2>4, <2>5, <2>6, <2>7, <2>8, <2>9, RowsStep
  <1> QED BY <1>1, <1>2, Invariance, PTL DEF Spec

-----------------------------------------------------------------------------
(* The history of the pointer.  Without an invalidation no version is put  *)
(* in force twice, so comparing pointers is comparing histories.           *)

(* The OCR result is written with the version, and only a good one lets it *)
(* be processed.                                                           *)
OcrInv ==
    \A o \in Ops :
        /\ version[o].state = "ABSENT" => version[o].ocr = "NONE"
        /\ (NeedsOcr /\ version[o].state # "ABSENT") => version[o].ocr # "NONE"
        /\ (NeedsOcr /\ version[o].state \in {"PROCESANDO", "LISTA"}) =>
              version[o].ocr = "Exitoso"

(* A reprocess that runs, or ran, had a rejected reading of the dispatch   *)
(* at the beginning of its chain of sources.                               *)
Running(w) == pc[w] \notin {"idle", "requesting", "verifying"}
ReprocessInv ==
    (\E o \in Manual : version[o].state # "ABSENT" \/ \E w \in Callers : op[w] = o /\ Running(w)) =>
        NeedsOcr /\ \E o \in Dispatched : version[o].state # "ABSENT" /\ version[o].ocr # "Exitoso"

LockInv ==
    \A w \in Callers : (pc[w] \notin {"idle", "requesting"} /\ op[w] \in Manual) =>
        requestLock[op[w]] = w

(* What was activated has a good OCR result and does not run again by hand.*)
ActivatedInv ==
    \A o \in Ops : activations[o] > 0 =>
        /\ version[o].state \in {"LISTA", "RECHAZADA"}
        /\ NeedsOcr => version[o].ocr = "Exitoso"

Before(w) ==
    pc[w] \in {"reading", "proposing", "embedding", "checking", "activating", "converging"}
FirstInv ==
    \A w \in Callers : (op[w] \in Manual /\ Before(w)) => activations[op[w]] = 0

Comparing(w) == pc[w] \in {"embedding", "checking", "activating"}
ExpectedInv ==
    \A w \in Callers : (Comparing(w) /\ expected[w] # NoOp) => activations[expected[w]] > 0

(* Once the version of the dispatch is in force it stays, and no caller    *)
(* that expects it tries to activate it again.                             *)
PointerInv ==
    ~everInvalidated =>
        /\ ~invalidated
        /\ \A o \in Dispatched :
              /\ activations[o] > 0 => active = o
              /\ \A w \in Callers : (op[w] = o /\ pc[w] = "activating") => expected[w] # o

BaseInv ==
    ~everInvalidated =>
        \A w \in Callers : (Comparing(w) /\ expected[w] = active) => base[w] = changes

HInv ==
    /\ IInv /\ OcrInv /\ ReprocessInv /\ LockInv /\ ActivatedInv /\ FirstInv /\ ExpectedInv
    /\ PointerInv /\ BaseInv /\ ActivatedOnce

LEMMA InitHistory == Init => HInv
  <1> SUFFICES ASSUME Init PROVE HInv
    OBVIOUS
  <1>1. \A o \in Ops : /\ version[o].state = "ABSENT" /\ version[o].ocr = "NONE"
                       /\ activations[o] = 0
    BY DEF Init, NoVersion
  <1>2. \A w \in Callers : pc[w] = "idle"
    BY DEF Init
  <1>3. active = NoOp /\ ~invalidated
    BY DEF Init
  <1>4. OcrInv /\ ReprocessInv /\ ActivatedInv
    BY <1>1, <1>2 DEF OcrInv, ReprocessInv, ActivatedInv, Running, Manual
  <1>5. LockInv /\ FirstInv /\ ExpectedInv /\ PointerInv /\ BaseInv
    BY <1>1, <1>2, <1>3 DEF LockInv, FirstInv, ExpectedInv, PointerInv, BaseInv, Before, Comparing
  <1>6. ActivatedOnce
    BY <1>1 DEF ActivatedOnce
  <1> QED BY <1>4, <1>5, <1>6, InitInv DEF HInv

(* What a step may do to the locals of a caller.                           *)
Unmoved(x) ==
    /\ pc'[x] = pc[x] /\ op'[x] = op[x] /\ expected'[x] = expected[x] /\ base'[x] = base[x]

LocalStep(x) ==
    \/ Unmoved(x)
    \/ pc'[x] \in {"idle", "requesting", "verifying"}
    \/ pc'[x] = "finishing" /\ op'[x] = op[x] /\ (Running(x) \/ Verify(x))
    \/ pc'[x] = "reading" /\ op'[x] \in Dispatched
    \/ /\ op'[x] = op[x] /\ expected'[x] = expected[x] /\ base'[x] = base[x]
       /\ \/ pc'[x] = "reading" /\ Verify(x)
          \/ pc[x] = "reading" /\ pc'[x] = "proposing"
          \/ pc[x] = "embedding" /\ pc'[x] = "checking"
          \/ pc[x] = "checking" /\ pc'[x] = "activating" /\ ~VersionIsActive(op[x])
          \/ pc[x] = "activating" /\ pc'[x] = "converging"
    \/ /\ pc[x] = "proposing" /\ pc'[x] = "embedding" /\ op'[x] = op[x]
       /\ expected'[x] = active /\ base'[x] = changes

LEMMA LocalSteps ==
  ASSUME TypeOK, [Next]_vars, NEW x \in Callers
  PROVE  LocalStep(x)
  <1> USE DEF TypeOK, LocalStep, Unmoved, Running
  <1>1. ASSUME NEW w \in Callers, NEW o \in Ops, Dispatch(w, o)
        PROVE  LocalStep(x)
    BY <1>1 DEF Dispatch, history
  <1>2. ASSUME NEW w \in Callers, NEW o \in Ops, Request(w, o)
        PROVE  LocalStep(x)
    BY <1>2 DEF Request, history
  <1>3. ASSUME NEW w \in Callers, Lock(w)
        PROVE  LocalStep(x)
    BY <1>3 DEF Lock, history
  <1>4. ASSUME NEW w \in Callers, Refuse(w)
        PROVE  LocalStep(x)
    BY <1>4 DEF Refuse, Raises, Finish
  <1>5. ASSUME NEW w \in Callers, Answer(w)
        PROVE  LocalStep(x)
    BY <1>5 DEF Answer, Finish
  <1>6. ASSUME NEW w \in Callers, Verify(w)
        PROVE  LocalStep(x)
    <2>1. CASE x = w
      <3>1. Verify(x)
        BY <1>6, <2>1, Zenon
      <3>2. op'[x] = op[x] /\ expected'[x] = expected[x] /\ base'[x] = base[x]
        BY <1>6 DEF Verify, Goes
      <3>3. pc'[x] \in {"finishing", "reading"}
        BY <1>6, <2>1 DEF Verify, Goes
      <3> QED BY <3>1, <3>2, <3>3
    <2>2. CASE x # w
      BY <1>6, <2>2 DEF Verify, Goes
    <2> QED BY <2>1, <2>2
  <1>7. ASSUME NEW w \in Callers, Recognise(w)
        PROVE  LocalStep(x)
    BY <1>7 DEF Recognise, history
  <1>8. ASSUME NEW w \in Callers, RefuseMismatch(w)
        PROVE  LocalStep(x)
    BY <1>8 DEF RefuseMismatch, Raises, Finish
  <1>9. ASSUME NEW w \in Callers, Reject(w)
        PROVE  LocalStep(x)
    BY <1>9 DEF Reject, Goes
  <1>10. ASSUME NEW w \in Callers, RefuseTerminal(w)
         PROVE  LocalStep(x)
    BY <1>10 DEF RefuseTerminal, Raises, Finish
  <1>11. ASSUME NEW w \in Callers, Propose(w)
         PROVE  LocalStep(x)
    BY <1>11 DEF Propose
  <1>12. ASSUME NEW w \in Callers, Certify(w)
         PROVE  LocalStep(x)
    BY <1>12 DEF Certify, Goes, AfterIndexing
  <1>13. ASSUME NEW w \in Callers, SourceChanged(w)
         PROVE  LocalStep(x)
    BY <1>13 DEF SourceChanged, Raises, Finish
  <1>14. ASSUME NEW w \in Callers, CheckActive(w)
         PROVE  LocalStep(x)
    BY <1>14 DEF CheckActive, Goes
  <1>15. ASSUME NEW w \in Callers, NotReady(w)
         PROVE  LocalStep(x)
    BY <1>15 DEF NotReady, Raises, Finish
  <1>16. ASSUME NEW w \in Callers, Activate(w)
         PROVE  LocalStep(x)
    BY <1>16 DEF Activate, Goes
  <1>17. ASSUME NEW w \in Callers, StaleWrite(w)
         PROVE  LocalStep(x)
    BY <1>17 DEF StaleWrite, Goes
  <1>18. ASSUME NEW w \in Callers, Converge(w)
         PROVE  LocalStep(x)
    BY <1>18 DEF Converge, Goes
  <1>19. ASSUME NEW w \in Callers, GiveUp(w)
         PROVE  LocalStep(x)
    BY <1>19 DEF GiveUp, Raises, Finish
  <1>20. ASSUME NEW w \in Callers, FinalOcr(w)
         PROVE  LocalStep(x)
    BY <1>20 DEF FinalOcr, Finish
  <1>21. ASSUME NEW w \in Callers, Fail(w)
         PROVE  LocalStep(x)
    BY <1>21 DEF Fail, Finish
  <1>22. CASE Invalidate
    BY <1>22 DEF Invalidate
  <1>23. ASSUME NEW e \in Engines, Upgrade(e)
         PROVE  LocalStep(x)
    BY <1>23 DEF Upgrade, history
  <1>24. CASE UNCHANGED vars
    BY <1>24 DEF vars, history
  <1> QED
    BY <1>1, <1>2, <1>3, <1>4, <1>5, <1>6, <1>7, <1>8, <1>9, <1>10, <1>11, <1>12, <1>13, <1>14,
       <1>15, <1>16, <1>17, <1>18, <1>19, <1>20, <1>21, <1>22, <1>23, <1>24
       DEF Next, Begins, Works

(* Who changes the pointer.                                                *)
Pointer == <<active, invalidated, activations, changes, everInvalidated>>

LEMMA PointerStep ==
  ASSUME [Next]_vars
  PROVE  UNCHANGED Pointer \/ (\E w \in Callers : Activate(w)) \/ Invalidate
  <1> USE DEF Pointer, document, history
  <1>1. ASSUME NEW w \in Callers, Begins(w) \/ Fail(w)
        PROVE  UNCHANGED Pointer
    BY <1>1 DEF Begins, Dispatch, Request, Fail
  <1>2. ASSUME NEW w \in Callers,
               Lock(w) \/ Answer(w) \/ Verify(w) \/ Recognise(w) \/ CheckActive(w)
               \/ StaleWrite(w) \/ Converge(w)
        PROVE  UNCHANGED Pointer
    BY <1>2 DEF Lock, Answer, Verify, Recognise, CheckActive, StaleWrite, Converge
  <1>3. ASSUME NEW w \in Callers,
               Refuse(w) \/ RefuseMismatch(w) \/ RefuseTerminal(w) \/ SourceChanged(w)
               \/ NotReady(w) \/ GiveUp(w)
        PROVE  UNCHANGED Pointer
    BY <1>3 DEF Refuse, RefuseMismatch, RefuseTerminal, SourceChanged, NotReady, GiveUp, Raises
  <1>4. ASSUME NEW w \in Callers, Reject(w) \/ Propose(w) \/ Certify(w) \/ FinalOcr(w)
        PROVE  UNCHANGED Pointer
    BY <1>4 DEF Reject, Propose, Certify, FinalOcr
  <1>5. ASSUME NEW e \in Engines, Upgrade(e)
        PROVE  UNCHANGED Pointer
    BY <1>5 DEF Upgrade
  <1>6. CASE UNCHANGED vars
    BY <1>6 DEF vars
  <1> QED BY <1>1, <1>2, <1>3, <1>4, <1>5, <1>6 DEF Next, Works

LEMMA OthersStay ==
  ASSUME TypeOK, NEW w \in Callers, Activate(w), NEW x \in Callers, x # w
  PROVE  Unmoved(x)
  BY DEF Activate, Goes, Unmoved, TypeOK

LEMMA FinishKeepsLock ==
  ASSUME TypeOK, LockInv, NEW w \in Callers, Finish(w)
  PROVE  LockInv'
  <1> SUFFICES ASSUME NEW x \in Callers, pc'[x] \notin {"idle", "requesting"}, op'[x] \in Manual
               PROVE  requestLock'[op'[x]] = x
    BY DEF LockInv
  <1>1. x # w
    BY DEF Finish, TypeOK
  <1>2. pc'[x] = pc[x] /\ op'[x] = op[x]
    BY <1>1 DEF Finish, TypeOK
  <1>3. requestLock[op[x]] = x /\ op[x] \in Ops
    BY <1>2 DEF LockInv, Manual
  <1> QED BY <1>1, <1>2, <1>3 DEF Finish

LEMMA LockStep == ASSUME TypeOK, LockInv, [Next]_vars PROVE LockInv'
  <1> USE DEF LockInv, TypeOK
  <1>1. ASSUME NEW w \in Callers, NEW o \in Ops, Dispatch(w, o)
        PROVE  LockInv'
    BY <1>1 DEF Dispatch, Manual
  <1>2. ASSUME NEW w \in Callers, NEW o \in Ops, Request(w, o)
        PROVE  LockInv'
    BY <1>2 DEF Request, history
  <1>3. ASSUME NEW w \in Callers, Lock(w)
        PROVE  LockInv'
    <2> SUFFICES ASSUME NEW x \in Callers, pc'[x] \notin {"idle", "requesting"}, op'[x] \in Manual
                 PROVE  requestLock'[op'[x]] = x
      OBVIOUS
    <2>1. op' = op /\ op[x] \in Ops
      BY <1>3 DEF Lock, Manual
    <2>2. CASE x = w
      BY <1>3, <2>1, <2>2 DEF Lock
    <2>3. CASE x # w
      <3>1. requestLock[op[x]] = x
        BY <1>3, <2>1, <2>3 DEF Lock
      <3>2. op[x] # op[w]
        BY <1>3, <3>1 DEF Lock
      <3> QED BY <1>3, <2>1, <3>1, <3>2 DEF Lock
    <2> QED BY <2>2, <2>3
  <1>4. ASSUME NEW w \in Callers, Refuse(w)
        PROVE  LockInv'
    BY <1>4, FinishKeepsLock DEF Refuse, Raises
  <1>5. ASSUME NEW w \in Callers, Answer(w)
        PROVE  LockInv'
    BY <1>5, FinishKeepsLock DEF Answer
  <1>6. ASSUME NEW w \in Callers, Verify(w)
        PROVE  LockInv'
    BY <1>6 DEF Verify, Goes
  <1>7. ASSUME NEW w \in Callers, Recognise(w)
        PROVE  LockInv'
    BY <1>7 DEF Recognise, history
  <1>8. ASSUME NEW w \in Callers, RefuseMismatch(w)
        PROVE  LockInv'
    BY <1>8, FinishKeepsLock DEF RefuseMismatch, Raises
  <1>9. ASSUME NEW w \in Callers, Reject(w)
        PROVE  LockInv'
    BY <1>9 DEF Reject, Goes
  <1>10. ASSUME NEW w \in Callers, RefuseTerminal(w)
         PROVE  LockInv'
    BY <1>10, FinishKeepsLock DEF RefuseTerminal, Raises
  <1>11. ASSUME NEW w \in Callers, Propose(w)
         PROVE  LockInv'
    BY <1>11 DEF Propose
  <1>12. ASSUME NEW w \in Callers, Certify(w)
         PROVE  LockInv'
    BY <1>12 DEF Certify, Goes, AfterIndexing
  <1>13. ASSUME NEW w \in Callers, SourceChanged(w)
         PROVE  LockInv'
    BY <1>13, FinishKeepsLock DEF SourceChanged, Raises
  <1>14. ASSUME NEW w \in Callers, CheckActive(w)
         PROVE  LockInv'
    BY <1>14 DEF CheckActive, Goes
  <1>15. ASSUME NEW w \in Callers, NotReady(w)
         PROVE  LockInv'
    BY <1>15, FinishKeepsLock DEF NotReady, Raises
  <1>16. ASSUME NEW w \in Callers, Activate(w)
         PROVE  LockInv'
    BY <1>16 DEF Activate, Goes
  <1>17. ASSUME NEW w \in Callers, StaleWrite(w)
         PROVE  LockInv'
    BY <1>17 DEF StaleWrite, Goes
  <1>18. ASSUME NEW w \in Callers, Converge(w)
         PROVE  LockInv'
    BY <1>18 DEF Converge, Goes
  <1>19. ASSUME NEW w \in Callers, GiveUp(w)
         PROVE  LockInv'
    BY <1>19, FinishKeepsLock DEF GiveUp, Raises
  <1>20. ASSUME NEW w \in Callers, FinalOcr(w)
         PROVE  LockInv'
    BY <1>20, FinishKeepsLock DEF FinalOcr
  <1>21. ASSUME NEW w \in Callers, Fail(w)
         PROVE  LockInv'
    BY <1>21, FinishKeepsLock DEF Fail
  <1>22. CASE Invalidate
    BY <1>22 DEF Invalidate
  <1>23. ASSUME NEW e \in Engines, Upgrade(e)
         PROVE  LockInv'
    BY <1>23 DEF Upgrade
  <1>24. CASE UNCHANGED vars
    BY <1>24 DEF vars
  <1> QED
    BY <1>1, <1>2, <1>3, <1>4, <1>5, <1>6, <1>7, <1>8, <1>9, <1>10, <1>11, <1>12, <1>13, <1>14,
       <1>15, <1>16, <1>17, <1>18, <1>19, <1>20, <1>21, <1>22, <1>23, <1>24
       DEF Next, Begins, Works

-----------------------------------------------------------------------------
(* The OCR result of a version.                                            *)

(* A version that exists stays, with its result, and a caller that runs    *)
(* created it.                                                             *)
VersionStays(o) ==
    /\ version[o].state # "ABSENT" =>
          /\ version'[o].state # "ABSENT"
          /\ NeedsOcr => version'[o].ocr = version[o].ocr
    /\ (version[o].state = "ABSENT" /\ version'[o].state # "ABSENT") =>
          \E w \in Callers : op[w] = o /\ Running(w)

LEMMA OcrStep ==
  ASSUME IInv, OcrInv, [Next]_vars
  PROVE  OcrInv' /\ \A o \in Ops : VersionStays(o)
  <1>i. TypeOK /\ CallInv /\ CertInv
    BY DEF IInv
  <1>1. CASE version' = version
    BY <1>1 DEF OcrInv, VersionStays
  <1>2. ASSUME NEW w \in Callers, Reject(w) \/ Propose(w)
        PROVE  OcrInv' /\ \A o \in Ops : VersionStays(o)
    <2>1. op[w] \in Ops /\ version[op[w]] \in Version /\ Running(w)
      BY <1>2, <1>i DEF Reject, Propose, CallInv, TypeOK, Running
    <2>2. version'[op[w]].ocr = OcrResult(version[op[w]], reading[w])
      <3>1. CASE Reject(w)
        BY <1>i, <2>1, <3>1 DEF Reject, TypeOK, Version
      <3>2. ASSUME Propose(w)
            PROVE  version'[op[w]] = Proposed(version[op[w]], reading[w])
        BY <1>i, <2>1, <3>2 DEF Propose, TypeOK
      <3>3. Proposed(version[op[w]], reading[w]).ocr = OcrResult(version[op[w]], reading[w])
        BY <2>1 DEF Proposed, Version
      <3> QED BY <1>2, <3>1, <3>2, <3>3
    <2>3. /\ \A o \in Ops : o # op[w] => version'[o] = version[o]
          /\ version'[op[w]].state \in {"RECHAZADA", "PROCESANDO", "LISTA"}
          /\ version'[op[w]].state # "RECHAZADA" => ~Unusable(reading[w])
          /\ version'[op[w]].state = "LISTA" => version[op[w]].state = "LISTA"
          /\ version'[op[w]].state = "PROCESANDO" =>
                version[op[w]].state \in {"ABSENT", "PROCESANDO"}
      BY <1>2, <1>i, RejectEffect, ProposeEffect DEF Touches
    <2>4. reading[w] \in ReadingType
      BY <1>2, <1>i DEF CallInv, Reject, Propose
    <2>5. VersionStays(op[w])
      BY <2>1, <2>2, <2>3 DEF VersionStays, OcrInv, OcrResult
    <2>6. NeedsOcr => version'[op[w]].ocr # "NONE"
      BY <2>2 DEF OcrResult
    <2>7. (NeedsOcr /\ version'[op[w]].state \in {"PROCESANDO", "LISTA"}) =>
             version'[op[w]].ocr = "Exitoso"
      BY <2>1, <2>2, <2>3, <2>4 DEF OcrInv, OcrResult, Unusable, ReadingType
    <2> QED BY <2>3, <2>5, <2>6, <2>7 DEF OcrInv, VersionStays
  <1>3. ASSUME NEW w \in Callers, Certify(w)
        PROVE  OcrInv' /\ \A o \in Ops : VersionStays(o)
    <2>1. op[w] \in Ops /\ version[op[w]] \in Version
      BY <1>3, <1>i DEF Certify, CallInv, TypeOK
    <2>2. version'[op[w]].ocr = version[op[w]].ocr
      BY <1>3, <1>i, <2>1 DEF Certify, TypeOK, Version
    <2>3. /\ \A o \in Ops : o # op[w] => version'[o] = version[o]
          /\ version[op[w]].state \in {"PROCESANDO", "LISTA"} /\ version'[op[w]].state = "LISTA"
      BY <1>3, <1>i, CertifyEffect DEF Touches
    <2> QED BY <2>1, <2>2, <2>3 DEF OcrInv, VersionStays
  <1> QED
    BY <1>1, <1>2, <1>3, RowsStep DEF Rows, Activate, FinalOcr, Invalidate

LEMMA ReprocessStep ==
  ASSUME IInv, OcrInv, ReprocessInv, [Next]_vars
  PROVE  ReprocessInv'
  <1>i. TypeOK
    BY DEF IInv
  <1>s. \A o \in Ops : VersionStays(o)
    BY OcrStep
  <1>1. (NeedsOcr /\ \E o \in Dispatched : version[o].state # "ABSENT" /\ version[o].ocr # "Exitoso") =>
           ReprocessInv'
    BY <1>s DEF VersionStays, ReprocessInv
  <1>2. ASSUME NEW o \in Manual, version[o].state # "ABSENT" \/ \E w \in Callers : op[w] = o /\ Running(w)
        PROVE  ReprocessInv'
    BY <1>1, <1>2 DEF ReprocessInv
  <1>3. ASSUME NEW o \in Manual, version'[o].state # "ABSENT"
        PROVE  ReprocessInv'
    BY <1>2, <1>3, <1>s DEF VersionStays, Manual
  <1>4. ASSUME NEW x \in Callers, Verify(x), op[x] \in Manual
        PROVE  ReprocessInv'
    <2>1. Source[op[x]] \in Ops
      BY <1>4
    <2>2. /\ NeedsOcr /\ version[Source[op[x]]].state # "ABSENT"
          /\ version[Source[op[x]]].ocr # "Exitoso"
      BY <1>4 DEF Verify, Eligible
    <2>3. CASE Source[op[x]] \in Dispatched
      BY <1>1, <2>2, <2>3
    <2>4. CASE Source[op[x]] \in Manual
      BY <1>2, <2>2, <2>4
    <2> QED BY <2>1, <2>3, <2>4 DEF Manual
  <1>5. ASSUME NEW o \in Manual, NEW x \in Callers, op'[x] = o, Running(x)'
        PROVE  ReprocessInv'
    <2>1. (op[x] = o /\ Running(x)) \/ (op[x] = o /\ Verify(x))
      BY <1>5, <1>i, LocalSteps DEF LocalStep, Unmoved, Running, Manual, Verify, Goes
    <2> QED BY <1>2, <1>4, <2>1
  <1> QED BY <1>3, <1>5 DEF ReprocessInv

-----------------------------------------------------------------------------
(* Activations *)

LEMMA ActivatedStep ==
  ASSUME IInv, OcrInv, ActivatedInv, [Next]_vars
  PROVE  ActivatedInv'
  <1>i. TypeOK /\ CallInv /\ CertInv
    BY DEF IInv
  <1>s. \A o \in Ops : VersionStays(o)
    BY OcrStep
  <1>0. \A o \in Ops : (activations[o] > 0 /\ NeedsOcr) => version'[o].ocr = "Exitoso"
    BY <1>s DEF VersionStays, ActivatedInv
  <1>1. CASE UNCHANGED <<version, activations>>
    BY <1>1 DEF ActivatedInv
  <1>2. ASSUME NEW w \in Callers, Reject(w) \/ Propose(w) \/ Certify(w)
        PROVE  ActivatedInv'
    <2>1. activations' = activations
      BY <1>2 DEF Reject, Propose, Certify
    <2>2. \A o \in Ops : version[o].state \in {"LISTA", "RECHAZADA"} =>
             version'[o].state \in {"LISTA", "RECHAZADA"}
      BY <1>2, <1>i, RejectEffect, ProposeEffect, CertifyEffect DEF Touches
    <2> QED BY <1>0, <2>1, <2>2 DEF ActivatedInv
  <1>3. ASSUME NEW w \in Callers, Activate(w)
        PROVE  ActivatedInv'
    <2>1. op[w] \in Ops /\ version[op[w]].state = "LISTA" /\ version' = version
      BY <1>3, <1>i, ActivateEffect
    <2>2. \A o \in Ops : o # op[w] => activations'[o] = activations[o]
      BY <1>3, <1>i DEF Activate, TypeOK
    <2> QED BY <2>1, <2>2 DEF ActivatedInv, OcrInv
  <1> QED
    BY <1>1, <1>2, <1>3, RowsStep DEF Rows, FinalOcr, Invalidate

LEMMA FirstStep ==
  ASSUME IInv, LockInv, ActivatedInv, FirstInv, [Next]_vars
  PROVE  FirstInv'
  <1>i. TypeOK
    BY DEF IInv
  <1> SUFFICES ASSUME NEW x \in Callers, op'[x] \in Manual, Before(x)'
               PROVE  activations'[op'[x]] = 0
    BY DEF FirstInv
  <1>1. op'[x] = op[x] /\ (Before(x) \/ (Verify(x) /\ pc'[x] = "reading"))
    BY <1>i, LocalSteps DEF LocalStep, Unmoved, Before, Manual, Verify, Goes
  <1>2. ASSUME Verify(x), pc'[x] = "reading"
        PROVE  version[op[x]].state \notin {"LISTA", "RECHAZADA"}
    BY <1>2, <1>i DEF Verify, Goes, TypeOK
  <1>3. activations[op[x]] = 0
    BY <1>1, <1>2, <1>i DEF FirstInv, ActivatedInv, Manual, TypeOK
  <1>4. CASE activations' = activations
    BY <1>1, <1>3, <1>4
  <1>5. ASSUME NEW w \in Callers, Activate(w)
        PROVE  activations'[op[x]] = 0
    <2>1. x # w
      BY <1>5, <1>i DEF Activate, Goes, Before, TypeOK
    <2>2. Before(x)
      BY <1>1, <1>5, <1>i, <2>1, OthersStay DEF Unmoved, Verify, Before
    <2>3. op[x] # op[w]
      BY <1>1, <1>5, <2>1, <2>2 DEF LockInv, Before, Activate
    <2> QED BY <1>1, <1>3, <1>5, <1>i, <2>3 DEF Activate, TypeOK, Manual
  <1> QED BY <1>1, <1>4, <1>5, PointerStep DEF Pointer, Invalidate

LEMMA ExpectedStep ==
  ASSUME IInv, ExpectedInv, [Next]_vars
  PROVE  ExpectedInv'
  <1>i. TypeOK /\ CallInv /\ ActiveInv
    BY DEF IInv
  <1> SUFFICES ASSUME NEW x \in Callers, Comparing(x)', expected'[x] # NoOp
               PROVE  activations'[expected'[x]] > 0
    BY DEF ExpectedInv
  <1>1. \/ Comparing(x) /\ expected'[x] = expected[x]
        \/ expected'[x] = active
    BY <1>i, LocalSteps DEF LocalStep, Unmoved, Comparing, Verify, Goes
  <1>2. expected'[x] \in Ops /\ activations[expected'[x]] > 0
    BY <1>1, <1>i DEF ExpectedInv, ActiveInv, TypeOK
  <1>3. activations'[expected'[x]] >= activations[expected'[x]]
    <2>1. CASE activations' = activations
      BY <1>2, <1>i, <2>1 DEF TypeOK
    <2>2. ASSUME NEW w \in Callers, Activate(w)
          PROVE  activations'[expected'[x]] >= activations[expected'[x]]
      BY <1>2, <1>i, <2>2, ActivateEffect
    <2> QED BY <2>1, <2>2, PointerStep DEF Pointer, Invalidate
  <1>4. activations' \in [Ops -> Nat]
    BY <1>i, TypeStep DEF TypeOK
  <1> QED BY <1>2, <1>3, <1>4, <1>i DEF TypeOK

(* Nobody activates a version again while nobody invalidates.              *)
LEMMA FirstActivation ==
  ASSUME HInv, ~everInvalidated, NEW w \in Callers, Activate(w)
  PROVE  op[w] \in Ops /\ activations[op[w]] = 0
  <1>i. TypeOK /\ CallInv
    BY DEF HInv, IInv
  <1>1. op[w] \in Ops /\ activations[op[w]] \in Nat
    BY <1>i DEF Activate, CallInv, TypeOK
  <1>2. CASE op[w] \in Manual
    <2>1. FirstInv
      BY DEF HInv
    <2>2. Before(w)
      BY DEF Activate, Before
    <2> QED BY <1>1, <1>2, <2>1, <2>2 DEF FirstInv
  <1>3. CASE op[w] \in Dispatched
    BY <1>1, <1>3 DEF HInv, PointerInv, Activate, ExpectedActive
  <1> QED BY <1>1, <1>2, <1>3 DEF Manual

LEMMA PointerInvStep ==
  ASSUME HInv, [Next]_vars
  PROVE  PointerInv'
  <1>i. TypeOK /\ CallInv /\ ActiveInv /\ PointerInv
    BY DEF HInv, IInv
  <1> SUFFICES ASSUME ~everInvalidated'
               PROVE  /\ ~invalidated'
                      /\ \A o \in Dispatched :
                            /\ activations'[o] > 0 => active' = o
                            /\ \A w \in Callers :
                                  (op'[w] = o /\ pc'[w] = "activating") => expected'[w] # o
    BY DEF PointerInv
  <1>1. ~Invalidate
    BY DEF Invalidate
  <1>2. ~everInvalidated
    BY <1>1, PointerStep DEF Pointer, Activate
  <1>3. ~invalidated'
    BY <1>1, <1>2, <1>i, PointerStep DEF Pointer, Activate, PointerInv
  <1>4. ASSUME NEW o \in Dispatched, activations'[o] > 0
        PROVE  active' = o
    <2>1. CASE UNCHANGED Pointer
      BY <1>2, <1>4, <1>i, <2>1 DEF Pointer, PointerInv
    <2>2. ASSUME NEW w \in Callers, Activate(w), op[w] # o
          PROVE  FALSE
      <3>1. op[w] \in Manual
        BY <1>i, <2>2, ActivateEffect DEF Manual
      <3>2. Running(w)
        BY <2>2 DEF Activate, Running
      <3>3. NeedsOcr /\ version[o].ocr # "Exitoso"
        BY <3>1, <3>2 DEF HInv, ReprocessInv
      <3>4. o \in Ops /\ activations[o] > 0
        BY <1>4, <1>i, <2>2 DEF Activate, TypeOK
      <3> QED BY <3>3, <3>4 DEF HInv, ActivatedInv
    <2>3. ASSUME NEW w \in Callers, Activate(w)
          PROVE  active' = o
      BY <2>2, <2>3 DEF Activate
    <2> QED BY <1>1, <2>1, <2>3, PointerStep
  <1>5. ASSUME NEW o \in Dispatched, NEW x \in Callers, op'[x] = o, pc'[x] = "activating"
        PROVE  expected'[x] # o
    <2>1. /\ op[x] = o /\ expected'[x] = expected[x]
          /\ \/ pc[x] = "activating"
             \/ pc[x] = "checking" /\ ~VersionIsActive(o)
      BY <1>5, <1>i, LocalSteps DEF LocalStep, Unmoved
    <2>2. CASE pc[x] = "activating"
      BY <1>2, <1>i, <2>1, <2>2 DEF PointerInv
    <2>3. ASSUME pc[x] = "checking", ~VersionIsActive(o), expected[x] = o
          PROVE  FALSE
      <3>1. o \in Ops /\ o # NoOp
        OBVIOUS
      <3>2. activations[o] > 0
        BY <2>3, <3>1 DEF HInv, ExpectedInv, Comparing
      <3>3. active = o /\ ~invalidated
        BY <1>2, <1>i, <3>2 DEF PointerInv
      <3>4. cert[o] # NoText
        BY <1>i, <3>1, <3>3 DEF ActiveInv
      <3> QED BY <2>3, <3>3, <3>4 DEF VersionIsActive
    <2> QED BY <2>1, <2>2, <2>3
  <1> QED BY <1>3, <1>4, <1>5

LEMMA BaseStep ==
  ASSUME HInv, [Next]_vars
  PROVE  BaseInv'
  <1>i. TypeOK
    BY DEF HInv, IInv
  <1> SUFFICES ASSUME ~everInvalidated', NEW x \in Callers, Comparing(x)', expected'[x] = active'
               PROVE  base'[x] = changes'
    BY DEF BaseInv
  <1>1. ~Invalidate
    BY DEF Invalidate
  <1>2. ~everInvalidated
    BY <1>1, PointerStep DEF Pointer, Activate
  <1>3. CASE UNCHANGED Pointer
    <2>1. \/ Comparing(x) /\ expected'[x] = expected[x] /\ base'[x] = base[x]
          \/ base'[x] = changes
      BY <1>i, LocalSteps DEF LocalStep, Unmoved, Comparing, Verify, Goes
    <2> QED BY <1>2, <1>3, <2>1 DEF Pointer, HInv, BaseInv
  <1>4. ASSUME NEW w \in Callers, Activate(w)
        PROVE  FALSE
    <2>1. x # w
      BY <1>4, <1>i DEF Activate, Goes, Comparing, TypeOK
    <2>2. Comparing(x) /\ expected[x] = op[w]
      BY <1>4, <1>i, <2>1, OthersStay DEF Unmoved, Comparing, Activate
    <2>3. op[w] \in Ops /\ activations[op[w]] = 0
      BY <1>2, <1>4, FirstActivation
    <2> QED BY <2>2, <2>3 DEF HInv, ExpectedInv
  <1> QED BY <1>1, <1>3, <1>4, PointerStep

LEMMA OnceStep ==
  ASSUME HInv, [Next]_vars
  PROVE  ActivatedOnce'
  <1>i. TypeOK /\ ActivatedOnce
    BY DEF HInv, IInv
  <1>1. CASE UNCHANGED Pointer
    BY <1>1, <1>i DEF Pointer, ActivatedOnce
  <1>2. CASE Invalidate
    BY <1>2 DEF Invalidate, ActivatedOnce
  <1>3. ASSUME NEW w \in Callers, Activate(w)
        PROVE  ActivatedOnce'
    <2> SUFFICES ASSUME ~everInvalidated', NEW o \in Ops
                 PROVE  activations'[o] <= 1
      BY DEF ActivatedOnce
    <2>1. ~everInvalidated
      BY <1>3 DEF Activate
    <2>2. op[w] \in Ops /\ activations[op[w]] = 0
      BY <1>3, <2>1, FirstActivation
    <2>3. activations' = [activations EXCEPT ![op[w]] = @ + 1]
      BY <1>3 DEF Activate
    <2> QED BY <1>i, <2>1, <2>2, <2>3 DEF TypeOK, ActivatedOnce
  <1> QED BY <1>1, <1>2, <1>3, PointerStep

LEMMA HistoryStep == HInv /\ [Next]_vars => HInv'
  <1> SUFFICES ASSUME HInv, [Next]_vars PROVE HInv'
    OBVIOUS
  <1>i. IInv /\ OcrInv /\ ReprocessInv /\ LockInv /\ ActivatedInv /\ FirstInv /\ ExpectedInv
    BY DEF HInv
  <1>1. IInv'
    BY <1>i, InvStep
  <1>2. OcrInv' /\ ReprocessInv' /\ ActivatedInv'
    BY <1>i, OcrStep, ReprocessStep, ActivatedStep
  <1>3. LockInv' /\ FirstInv' /\ ExpectedInv'
    BY <1>i, LockStep, FirstStep, ExpectedStep DEF IInv
  <1>4. PointerInv' /\ BaseInv' /\ ActivatedOnce'
    BY PointerInvStep, BaseStep, OnceStep
  <1> QED BY <1>1, <1>2, <1>3, <1>4 DEF HInv

(* Retries, takeovers and races put a version in force once.               *)
THEOREM OneActivation == Spec => []ActivatedOnce
  <1>1. HInv => ActivatedOnce
    BY DEF HInv
  <1> QED BY <1>1, InitHistory, HistoryStep, PTL DEF Spec

(* An activation replaces the version that its candidate had read.         *)
THEOREM NothingIsLost == Spec => NoLostActivation
  <1>1. ASSUME HInv, [Next]_vars, NEW w \in Callers, pc[w] = "activating",
               activations' # activations, pc'[w] = "finishing", ~everInvalidated
        PROVE  base[w] = changes
    <2>1. PICK z \in Callers : Activate(z)
      BY <1>1, PointerStep DEF Pointer, Invalidate
    <2>2. z = w
      BY <1>1, <2>1, OthersStay DEF Unmoved, HInv, IInv
    <2> QED BY <1>1, <2>1, <2>2 DEF HInv, BaseInv, Comparing, Activate, ExpectedActive
  <1>2. HInv /\ [Next]_vars =>
           [\A w \in Callers :
              (pc[w] = "activating" /\ activations' # activations /\ pc'[w] = "finishing") =>
                 (base[w] = changes \/ everInvalidated)]_vars
    BY <1>1
  <1> QED BY <1>2, InitHistory, HistoryStep, PTL DEF Spec, NoLostActivation

(* Every call, at whatever point it fails or is overtaken, looks like a    *)
(* step of VersionLife.                                                    *)
THEOREM LifeIsImplemented == Spec => LivesAsPromised
  <1>1. Init => Life!Init
    BY DEF Init, NoVersion, Life!Init
  <1>2. ASSUME IInv, [Next]_vars
        PROVE  [Life!Next]_Life!vars
    <2> DEFINE stage == [o \in Ops |-> version[o].state]
               text == [o \in Ops |-> version[o].text]
    <2>i. TypeOK /\ CallInv /\ TextInv /\ CertInv /\ ActiveInv
      BY <1>2 DEF IInv
    <2>t. \A o \in Ops : version[o] \in Version
      BY <2>i DEF TypeOK
    <2>1. CASE UNCHANGED Rows
      BY <2>1 DEF Rows, Life!vars
    <2>2. ASSUME NEW w \in Callers, Reject(w)
          PROVE  Life!Next
      <3>1. Touches(w) /\ active' = active
        BY <2>2, <2>i, RejectEffect DEF Reject
      <3>2. stage' = [stage EXCEPT ![op[w]] = "RECHAZADA"]
        BY <2>2, <2>i, <3>1, RejectEffect DEF Touches
      <3>3. text' = text
        BY <2>2, <2>i, <3>1, RejectEffect DEF Touches
      <3> QED BY <3>1, <3>2, <3>3 DEF Touches, Life!Next, Life!Reject
    <2>3. ASSUME NEW w \in Callers, Propose(w)
          PROVE  [Life!Next]_Life!vars
      <3>1. Touches(w) /\ active' = active
        BY <2>3, <2>i, ProposeEffect DEF Propose
      <3>2. CASE version[op[w]].state = "ABSENT"
        <4>1. stage' = [stage EXCEPT ![op[w]] = "PROCESANDO"]
          BY <2>3, <2>i, <3>1, <3>2, ProposeEffect DEF Touches
        <4>2. text' = [text EXCEPT ![op[w]] = reading[w].text]
          BY <2>3, <2>i, <3>1, <3>2, ProposeEffect DEF Touches
        <4>3. reading[w].text \in Texts
          BY <2>3, <2>i DEF Propose, CallInv, ReadingType
        <4> QED BY <3>1, <3>2, <4>1, <4>2, <4>3 DEF Touches, Life!Next, Life!Propose
      <3>3. CASE version[op[w]].state # "ABSENT"
        <4>1. version'[op[w]].state = version[op[w]].state
          BY <2>3, <2>i, <3>3, ProposeEffect
        <4>2. version'[op[w]].text = version[op[w]].text
          <5>1. version[op[w]].state = "PROCESANDO" => version[op[w]].text = reading[w].text
            BY <2>3, <2>t, <3>1 DEF Touches, Propose, Mismatch, Version
          <5> QED BY <2>3, <2>i, <3>3, <5>1, ProposeEffect
        <4> QED BY <3>1, <4>1, <4>2 DEF Touches, Life!vars
      <3> QED BY <3>2, <3>3
    <2>4. ASSUME NEW w \in Callers, Certify(w)
          PROVE  [Life!Next]_Life!vars
      <3>1. Touches(w) /\ active' = active
        BY <2>4, <2>i, CertifyEffect DEF Certify
      <3>2. text' = text
        BY <2>4, <2>i, <3>1, CertifyEffect DEF Touches
      <3>3. stage' = [stage EXCEPT ![op[w]] = "LISTA"]
        BY <2>4, <2>i, <3>1, CertifyEffect DEF Touches
      <3>4. version[op[w]].state = "LISTA" => stage' = stage
        BY <2>4, <2>i, <3>1, CertifyEffect DEF Touches
      <3> QED BY <2>4, <2>i, <3>1, <3>2, <3>3, <3>4, CertifyEffect
                 DEF Touches, Life!Next, Life!Prepare, Life!vars
    <2>5. ASSUME NEW w \in Callers, Activate(w)
          PROVE  Life!Next
      BY <2>5, <2>i, ActivateEffect DEF Life!Next, Life!PutInForce
    <2>6. ASSUME NEW w \in Callers, FinalOcr(w)
          PROVE  UNCHANGED Life!vars
      BY <2>6 DEF FinalOcr, Life!vars
    <2>7. CASE Invalidate
      BY <2>7 DEF Invalidate, Life!Next, Life!Withdraw
    <2> QED BY <1>2, <2>1, <2>2, <2>3, <2>4, <2>5, <2>6, <2>7, RowsStep
  <1> QED BY <1>1, <1>2, Invariance, PTL DEF Spec, LivesAsPromised, Life!Spec

(* What is in force is searchable, and every dispatch put it there once.   *)
THEOREM SoundActivations == Spec => []ActivationsAreSound
  <1>1. ActiveIsSearchable /\ ActivatedOnce /\ DispatchedIsActivated => ActivationsAreSound
    BY DEF ActivationsAreSound
  <1> QED BY <1>1, ActiveIsUsable, OneActivation, DispatchedWasActivated, PTL

(* A call that comes late undoes no newer activation and no rejection.     *)
THEOREM LateCallsRefused == Spec => LateCallsAreRefused
  BY NothingIsLost, RejectedIsFinal DEF LateCallsAreRefused

===========================================================================
