---------------------------- MODULE RulesProofs -----------------------------
(***************************************************************************)
(* Proofs about the small machines.  The rules of the proactive analysis   *)
(* for every history of a series: what they read lies in the closure, and  *)
(* the two ways in which the code detects a signal agree.  The index of a  *)
(* document version: its certificate (IndexCertificate) and the cut of its *)
(* text (Chunking).  The cells of a row, as validation and projection read *)
(* them, and the sample of a CSV (TabularRules).                           *)
(***************************************************************************)
EXTENDS ProactiveRules, IndexCertificate, Chunking, TabularRules,
        FiniteSetTheorems, WellFoundedInduction, TLAPS

-----------------------------------------------------------------------------
(* ProactiveRules *)

(* The history is a reading of every month.                                 *)
THEOREM Typing == Spec => []TypeOK
<1> USE RulesConstants
<1>1. Init => TypeOK
  BY DEF Init, TypeOK, Reading
<1>2. TypeOK /\ [Next]_vars => TypeOK'
  BY DEF TypeOK, Next, Recalculate, vars, Reading
<1> QED
  BY <1>1, <1>2, PTL DEF Spec

(* Two histories that agree on the months a rule requires signal alike.     *)
LEMMA SignalsAlike ==
    ASSUME NEW k \in Kinds, NEW g \in [Months -> Reading], NEW h \in [Months -> Reading],
           NEW m \in Int,
           \A r \in Required(k, m) \cap Months : g[r] = h[r]
    PROVE  /\ Evaluated(k, g, m) <=> Evaluated(k, h, m)
           /\ Evaluated(k, h, m) => (Signal(k, g, m) <=> Signal(k, h, m))
           /\ TerminalSignal(k, g, m) <=> TerminalSignal(k, h, m)
<1>1. \A r \in Required(k, m) : Available(g, r) <=> Available(h, r)
  BY DEF Available
<1>2. Evaluated(k, g, m) <=> Evaluated(k, h, m)
  BY <1>1 DEF Evaluated
<1>3. Evaluated(k, h, m) => \A r \in Required(k, m) : g[r] = h[r]
  BY DEF Evaluated, Available
<1>4. Evaluated(k, h, m) => (Signal(k, g, m) <=> Signal(k, h, m))
  <2>1. k = "TWO" => {m, m - 1} \subseteq Required(k, m)
    BY DEF Required
  <2>2. k # "TWO" => {m, m - 1, m - 2} \subseteq Required(k, m)
    BY DEF Required
  <2> QED
    BY <1>3, <2>1, <2>2 DEF Signal
<1> QED
  BY <1>2, <1>4 DEF TerminalSignal, Evaluated

(* What is required of a month of the recurrence lies in the closure.       *)
LEMMA RequiredInClosure ==
    ASSUME NEW k \in Kinds, NEW c \in Months, NEW m \in LastMonths(c),
           NEW r \in Required(k, m)
    PROVE  r \in Int /\ m \in Int /\ c - Depth(k) < r /\ r <= c
  BY RulesConstants DEF Kinds, LastMonths, Required, Depth

LEMMA SnapshotAgrees ==
    ASSUME NEW k \in Kinds, NEW h \in [Months -> Reading], NEW c \in Months
    PROVE  /\ Snapshot(k, h, c) \in [Months -> Reading]
           /\ \A r \in Months :
                 c - Depth(k) < r /\ r <= c => Snapshot(k, h, c)[r] = h[r]
  BY DEF Snapshot, Reading

(* The evaluation of the closure is that of the history.                    *)
LEMMA SameEvaluation ==
    ASSUME NEW k \in Kinds, NEW h \in [Months -> Reading], NEW c \in Months
    PROVE  Evaluation(k, Snapshot(k, h, c), c) = Evaluation(k, h, c)
<1> DEFINE s == Snapshot(k, h, c)
<1> USE RulesConstants
<1>1. s \in [Months -> Reading]
  BY SnapshotAgrees
<1>2. \A r \in Months : c - Depth(k) < r /\ r <= c => s[r] = h[r]
  BY SnapshotAgrees
<1>3. \A m \in LastMonths(c) : TerminalSignal(k, s, m) <=> TerminalSignal(k, h, m)
  <2> SUFFICES ASSUME NEW m \in LastMonths(c)
               PROVE  TerminalSignal(k, s, m) <=> TerminalSignal(k, h, m)
    OBVIOUS
  <2>1. \A r \in Required(k, m) \cap Months : s[r] = h[r]
    BY <1>2, RequiredInClosure
  <2>2. m \in Int
    BY DEF LastMonths
  <2> HIDE DEF s
  <2> QED
    BY <1>1, <2>1, <2>2, SignalsAlike
<1>4. Recurrence(k, s, c) = Recurrence(k, h, c)
  <2>1. {m \in LastMonths(c) : TerminalSignal(k, s, m)}
          = {m \in LastMonths(c) : TerminalSignal(k, h, m)}
    BY <1>3
  <2> QED
    BY <2>1 DEF Recurrence
<1>5. \A r \in {c, c - 1, c - 2} \cap Months : s[r] = h[r]
  BY <1>2 DEF Depth
<1> HIDE DEF s
<1>6. /\ Evaluated(k, s, c) <=> Evaluated(k, h, c)
      /\ Evaluated(k, h, c) => (Signal(k, s, c) <=> Signal(k, h, c))
  <2>1. Required(k, c) \subseteq {c, c - 1, c - 2}
    BY DEF Required
  <2>2. c \in Int
    OBVIOUS
  <2> QED
    BY <1>1, <1>5, <2>1, <2>2, SignalsAlike
<1>7. Available(s, c) <=> Available(h, c)
  BY <1>5 DEF Available
<1>8. Available(s, c - 1) <=> Available(h, c - 1)
  BY <1>5 DEF Available
<1>9. Available(s, c - 2) <=> Available(h, c - 2)
  BY <1>5 DEF Available
<1>10. ASSUME Evaluated(k, h, c)
       PROVE  Evaluation(k, s, c) = Evaluation(k, h, c)
  <2>1. c - 1 \in Months /\ c \in Months
    BY <1>10 DEF Evaluated, Required, Available
  <2>2. s[c] = h[c] /\ s[c - 1] = h[c - 1]
    BY <2>1, <1>5
  <2>3. Trend(s, c) = Trend(h, c)
    <3>1. CASE Available(h, c - 2)
      <4>1. s[c - 2] = h[c - 2]
        BY <3>1, <1>5 DEF Available
      <4> QED
        BY <4>1, <2>2, <3>1, <1>9 DEF Trend
    <3>2. CASE ~Available(h, c - 2)
      BY <3>2, <1>9 DEF Trend
    <3> QED
      BY <3>1, <3>2
  <2>4. Signal(k, s, c) = Signal(k, h, c)
    <3>1. Signal(k, s, c) \in BOOLEAN /\ Signal(k, h, c) \in BOOLEAN
      BY DEF Signal
    <3> QED
      BY <3>1, <1>6, <1>10
  <2>5. Evaluated(k, s, c)
    BY <1>6, <1>10
  <2> QED
    BY ONLY <1>10, <1>4, <2>2, <2>3, <2>4, <2>5, Zenon DEF Evaluation
<1>11. ASSUME ~Evaluated(k, h, c)
       PROVE  Evaluation(k, s, c) = Evaluation(k, h, c)
  <2>1. (IF Available(s, c) THEN s[c] ELSE Absent) = (IF Available(h, c) THEN h[c] ELSE Absent)
    BY <1>5, <1>7
  <2>2. (IF Available(s, c - 1) THEN s[c - 1] ELSE Absent)
          = (IF Available(h, c - 1) THEN h[c - 1] ELSE Absent)
    BY <1>5, <1>8 DEF Available
  <2>3. ~Evaluated(k, s, c)
    BY <1>6, <1>11
  <2> QED
    BY ONLY <1>11, <2>1, <2>2, <2>3, Zenon DEF Evaluation
<1>12. Evaluation(k, s, c) = Evaluation(k, h, c)
  BY <1>10, <1>11
<1> QED
  BY <1>12 DEF s

(* ClosureSuffices for every history: five months for the rules that look   *)
(* at two, six for those that look at three.                                *)
THEOREM ClosureIsEnough == Spec => []ClosureSuffices
<1>1. TypeOK => ClosureSuffices
  BY SameEvaluation DEF TypeOK, ClosureSuffices
<1> QED
  BY <1>1, Typing, PTL

(* The history up to a month, and the analysis that it had.                 *)
LEMMA AnalysisThen ==
    ASSUME NEW k \in Kinds, NEW h \in [Months -> Reading], NEW m \in Int
    PROVE  TerminalSignal(k, h, m)
             <=> /\ m \in Months /\ IsCurrent(UpTo(h, m), m)
                 /\ Evaluation(k, UpTo(h, m), m).signal
<1> DEFINE u == UpTo(h, m)
<1> USE RulesConstants
<1>1. u \in [Months -> Reading] /\ \A r \in Months : r <= m => u[r] = h[r]
  BY DEF UpTo, Reading
<1>2. \A r \in Required(k, m) \cap Months : u[r] = h[r]
  BY <1>1 DEF Required
<1>3. m \in Months => (IsCurrent(u, m) <=> h[m] # Absent)
  BY DEF IsCurrent, Observed, UpTo
<1> HIDE DEF u
<1>4. TerminalSignal(k, u, m) <=> TerminalSignal(k, h, m)
  BY <1>1, <1>2, SignalsAlike
<1>5. Evaluation(k, u, m).signal <=> TerminalSignal(k, u, m)
  <2>1. CASE Evaluated(k, u, m)
    BY <2>1 DEF Evaluation, TerminalSignal, Evaluated
  <2>2. CASE ~Evaluated(k, u, m)
    BY <2>2 DEF Evaluation, TerminalSignal, Evaluated
  <2> QED
    BY <2>1, <2>2
<1>6. TerminalSignal(k, h, m) => m \in Months /\ h[m] # Absent
  BY DEF TerminalSignal, Required, Available
<1>7. TerminalSignal(k, h, m)
        <=> m \in Months /\ IsCurrent(u, m) /\ Evaluation(k, u, m).signal
  BY <1>3, <1>4, <1>5, <1>6
<1> QED
  BY <1>7 DEF u

(* RecurrenceIsCounted for every history: _terminal_signal finds a month    *)
(* exactly when the analysis of that month would have signalled.            *)
THEOREM RecurrenceIsSound == Spec => []RecurrenceIsCounted
<1>1. TypeOK => RecurrenceIsCounted
  <2> SUFFICES ASSUME TypeOK, NEW c \in Months, IsCurrent(history, c),
                      Evaluated(kind, history, c)
               PROVE  Evaluation(kind, history, c).recurrence = Cardinality(WouldSignal(c))
    BY DEF RecurrenceIsCounted
  <2>1. {m \in LastMonths(c) : TerminalSignal(kind, history, m)} = WouldSignal(c)
    <3>1. ASSUME NEW m \in LastMonths(c), TerminalSignal(kind, history, m)
          PROVE  m \in WouldSignal(c)
      <4>1. m \in Int /\ c - 4 < m /\ m <= c
        BY RulesConstants DEF LastMonths
      <4> QED
        BY <3>1, <4>1, AnalysisThen DEF TypeOK, WouldSignal
    <3>2. ASSUME NEW m \in WouldSignal(c)
          PROVE  m \in LastMonths(c) /\ TerminalSignal(kind, history, m)
      <4>1. m \in Months /\ c - 4 < m /\ m <= c
        BY DEF WouldSignal
      <4>2. m \in Int /\ m \in LastMonths(c)
        BY <4>1, RulesConstants DEF LastMonths
      <4> QED
        BY <4>2, AnalysisThen DEF TypeOK, WouldSignal
    <3> QED
      BY <3>1, <3>2
  <2> QED
    BY <2>1 DEF Evaluation, Recurrence
<1> QED
  BY <1>1, Typing, PTL

(* WindowCoversInput for every history: the two tables of depths agree.     *)
THEOREM WindowIsWide == Spec => []WindowCoversInput
<1>1. TypeOK => WindowCoversInput
  <2> SUFFICES ASSUME TypeOK, NEW c \in Months, IsCurrent(history, c)
               PROVE  /\ Observed(Snapshot(kind, history, c)) \subseteq Window(kind, c)
                      /\ LET e == Evaluation(kind, history, c) IN
                            e.signal => Finding(kind, e).start..Finding(kind, e).end
                                            \subseteq Observed(Snapshot(kind, history, c))
    BY DEF WindowCoversInput
  <2> USE RulesConstants
  <2>1. Observed(Snapshot(kind, history, c)) \subseteq Window(kind, c)
    <3>1. \A m \in Observed(Snapshot(kind, history, c)) :
             m \in Months /\ c - Depth(kind) < m /\ m <= c
      BY DEF Observed, Snapshot
    <3>2. c \in Int /\ Months \subseteq Int
      OBVIOUS
    <3> SUFFICES ASSUME NEW m \in Observed(Snapshot(kind, history, c))
                 PROVE  m \in Window(kind, c)
      OBVIOUS
    <3>3. m \in Int /\ c - Depth(kind) < m /\ m <= c
      BY <3>1, <3>2
    <3>4. CASE kind = "TWO"
      BY <3>2, <3>3, <3>4 DEF Window, WindowStart, Depth
    <3>5. CASE kind # "TWO"
      BY <3>2, <3>3, <3>5 DEF Window, WindowStart, Depth
    <3> QED
      BY <3>4, <3>5
  <2>2. ASSUME Evaluation(kind, history, c).signal
        PROVE  Finding(kind, Evaluation(kind, history, c)).start
                 ..Finding(kind, Evaluation(kind, history, c)).end
                   \subseteq Observed(Snapshot(kind, history, c))
    <3>1. Evaluated(kind, history, c)
      BY <2>2 DEF Evaluation
    <3>2. Evaluation(kind, history, c).period = c
      BY <3>1 DEF Evaluation
    <3>3. \A r \in Required(kind, c) : r \in Observed(Snapshot(kind, history, c))
      <4>1. \A r \in Required(kind, c) : r \in Months /\ history[r] # Absent
        BY <3>1 DEF Evaluated, Available
      <4>2. \A r \in Required(kind, c) : c - Depth(kind) < r /\ r <= c
        BY DEF Required, Depth
      <4> QED
        BY <4>1, <4>2 DEF Observed, Snapshot
    <3>4. CASE kind = "TWO"
      <4>1. (c - 1)..c = {c - 1, c}
        OBVIOUS
      <4> QED
        BY <3>2, <3>3, <3>4, <4>1 DEF Finding, Required
    <3>5. CASE kind # "TWO"
      <4>1. (c - 2)..c = {c - 2, c - 1, c}
        OBVIOUS
      <4> QED
        BY <3>2, <3>3, <3>5, <4>1 DEF Finding, Required
    <3> QED
      BY <3>4, <3>5
  <2> QED
    BY <2>1, <2>2
<1> QED
  BY <1>1, Typing, PTL

(* The frozen input decides the analysis and covers what it tells of.      *)
THEOREM FrozenInputIsEnough == Spec => []FrozenInputSuffices
<1>1. ClosureSuffices /\ WindowCoversInput => FrozenInputSuffices
  BY DEF FrozenInputSuffices
<1> QED
  BY <1>1, ClosureIsEnough, WindowIsWide, PTL



-----------------------------------------------------------------------------
(* The inductive invariant of IndexCertificate.                             *)

(* What a session embedded is a text, and an unseen term is of a fragment.  *)
SubjectInv ==
    \A s \in Sessions :
        /\ doing[s] \in {"EMBEDDED", "PERSISTED"} => subject[s].ordinal \in Contents
        /\ doing[s] \in {"UNSEEN", "REFERENCED"} => subject[s].ordinal \in Ordinals

(* Nobody's copy is the committed one, and once the version is certified    *)
(* its holder can only have changed the state.                              *)
WorkInv ==
    /\ holder = NoOne => work = index
    /\ Certified(index) => work = [index EXCEPT !.state = work.state]

(* A term that waits for its commit is not there, and nobody else adds it.  *)
ReferenceInv ==
    \A s \in Sessions : doing[s] = "REFERENCED" =>
        /\ subject[s].lexeme \notin index.terms[subject[s].ordinal]
        /\ subject[s].lexeme \notin work.terms[subject[s].ordinal]
        /\ \A p \in Sessions \ {s} : doing[p] = "REFERENCED" => subject[p] # subject[s]

(* Before its commit the indexer sees exactly what it made of the text.     *)
PersistInv ==
    \A s \in Sessions : doing[s] = "PERSISTED" =>
        LET t == subject[s].ordinal
        IN  /\ holder = s /\ ~Certified(index)
            /\ work.text = t /\ work.certificate = CertificateOf(t)
            /\ \A o \in OrdinalsOf(t) :
                  work.fragment[o] = FragmentOf(t, o) /\ work.terms[o] = TermsOf(o)
            /\ \A p \in Sessions : doing[p] = "REFERENCED" =>
                  subject[p].ordinal \notin OrdinalsOf(t)

LateInv == ~Certified(index) => late = {}

IInv ==
    /\ IndexTypeOK /\ SubjectInv /\ WorkInv /\ ReferenceInv /\ PersistInv /\ LateInv
    /\ CertificateStaysTrue /\ ReturnedStaysIndexed

-----------------------------------------------------------------------------
(* Facts about the operators of the model.                                  *)

(* A fragment has at most one lexeme, and so a number of terms.             *)
LEMMA TermsFacts ==
    ASSUME NEW o \in Int
    PROVE  /\ TermsOf(o) \subseteq Lexemes /\ IsFiniteSet(TermsOf(o))
           /\ Cardinality(TermsOf(o)) \in Nat
  <1>1. IsFiniteSet({"own"}) /\ IsFiniteSet({})
    BY FS_Singleton, FS_EmptySet
  <1>2. IsFiniteSet(TermsOf(o)) /\ TermsOf(o) \subseteq Lexemes
    BY <1>1 DEF TermsOf, Lexemes
  <1> QED
    BY <1>2, FS_CardinalityType

(* The certificate of a text is one, and counts what it promises.           *)
LEMMA CertificateFacts ==
    ASSUME NEW t \in Contents
    PROVE  /\ CertificateOf(t) \in [of : 0..MaxFragments, count : 0..MaxFragments, zero : Nat]
           /\ CertificateOf(t) # NoCertificate
           /\ CertificateOf(t).of = t /\ CertificateOf(t).count = t
  <1> DEFINE Z == {o \in OrdinalsOf(t) : TermsOf(o) = {}}
  <1>1. t \in Int /\ t >= 1 /\ t <= MaxFragments
    BY IndexConstants DEF Contents
  <1>2. IsFiniteSet(OrdinalsOf(t))
    BY <1>1, FS_Interval DEF OrdinalsOf
  <1>3. IsFiniteSet(Z)
    BY <1>2, FS_Subset
  <1>4. Cardinality(Z) \in Nat
    BY <1>3, FS_CardinalityType
  <1>5. CertificateOf(t) = [of |-> t, count |-> t, zero |-> Cardinality(Z)]
    BY DEF CertificateOf
  <1> HIDE DEF Z
  <1> QED
    BY <1>1, <1>4, <1>5, IndexConstants DEF NoCertificate

(* The first ordinals without a gap are all the ordinals of a text.         *)
LEMMA GaplessMeansAll ==
    ASSUME NEW db \in Database, NEW c,
           c.count \in Int, c.count > 0, Gapless(db, c)
    PROVE  Stored(db) = OrdinalsOf(c.count)
  <1>1. Stored(db) \subseteq OrdinalsOf(c.count)
    BY DEF Gapless, Stored, OrdinalsOf, Ordinals
  <1> DEFINE n == c.count - 1
  <1>a. n \in Int /\ 0 <= n
    OBVIOUS
  <1>b. IsFiniteSet(0..n) /\ Cardinality(0..n) = n + 1
    <2> HIDE DEF n
    <2> QED
      BY <1>a, FS_Interval
  <1>2. IsFiniteSet(0..(c.count - 1)) /\ Cardinality(0..(c.count - 1)) = c.count
    BY <1>b
  <1>3. Cardinality(Stored(db)) = Cardinality(OrdinalsOf(c.count))
    BY <1>2 DEF Gapless, OrdinalsOf
  <1> QED
    BY <1>1, <1>2, <1>3, FS_Subset DEF OrdinalsOf

(* A database with a fragment written is a database.                        *)
LEMMA FragmentWritten ==
    ASSUME NEW db \in Database, NEW o \in Ordinals, NEW t \in 0..MaxFragments, NEW e \in BOOLEAN
    PROVE  LET new == [db EXCEPT !.fragment[o] = [of |-> t, embedded |-> e]]
           IN  new \in Database /\ new.terms = db.terms /\ new.certificate = db.certificate
  <1> DEFINE F == [of : 0..MaxFragments, embedded : BOOLEAN]
             f == [of |-> t, embedded |-> e]
  <1>1. f \in F
    OBVIOUS
  <1>2. db.fragment \in [Ordinals -> F]
    BY DEF Database
  <1>3. [db.fragment EXCEPT ![o] = f] \in [Ordinals -> F]
    BY <1>1, <1>2, Zenon
  <1>4. [db EXCEPT !.fragment = [db.fragment EXCEPT ![o] = f]] \in Database
    <2> DEFINE g == [db.fragment EXCEPT ![o] = f]
    <2>1. g \in [Ordinals -> F]
      BY <1>3
    <2> HIDE DEF g
    <2>2. [db EXCEPT !.fragment = g] \in Database
      BY <2>1 DEF Database
    <2> QED
      BY <2>2 DEF g
  <1> QED
    BY <1>4 DEF Database

(* A session that is certified to has a certificate to look at.             *)
LEMMA ReturnedMeansCertified ==
    ASSUME IInv, NEW s \in Sessions, returned[s] # 0
    PROVE  Certified(index) /\ returned[s] \in Contents
  <1>1. returned[s] \in Contents
    BY IndexConstants DEF IInv, IndexTypeOK, Contents
  <1>2. index.certificate = CertificateOf(returned[s])
    BY DEF IInv, ReturnedStaysIndexed
  <1> QED
    BY <1>1, <1>2, CertificateFacts DEF Certified

-----------------------------------------------------------------------------
(* Steps that leave what is committed alone.                                *)

(* What is said of a certified index holds on while nobody changes it.      *)
LEMMA CommittedKept ==
    ASSUME IInv, index' = index, late' = late, returned' = returned
    PROVE  LateInv' /\ CertificateStaysTrue' /\ ReturnedStaysIndexed'
  BY DEF IInv, LateInv, CertificateStaysTrue, ReturnedStaysIndexed, Certified, Stored, Counted

(* A statement that writes nothing but the state of a certified version,    *)
(* and adds no term that another transaction is adding.                     *)
LEMMA StatementKeeps ==
    ASSUME IInv, NEW s \in Sessions, NEW db \in Database, Statement(s, db),
           Certified(index) => db = [index EXCEPT !.state = db.state],
           \A p \in Sessions : doing[p] = "REFERENCED" =>
               subject[p].lexeme \notin db.terms[subject[p].ordinal]
    PROVE  IInv'
  <1>1. /\ doing[s] = "IDLE" /\ holder \in {s, NoOne}
        /\ holder' = s /\ work' = db /\ statements' = statements + 1
        /\ index' = index /\ doing' = doing /\ subject' = subject
        /\ returned' = returned /\ late' = late
    BY DEF Statement
  <1>2. IndexTypeOK'
    BY <1>1 DEF IInv, IndexTypeOK
  <1>3. SubjectInv'
    BY <1>1 DEF IInv, SubjectInv
  <1>4. WorkInv'
    BY <1>1, IndexConstants DEF WorkInv, Certified
  <1>5. ReferenceInv'
    BY <1>1 DEF IInv, ReferenceInv
  <1>6. PersistInv'
    <2>1. \A p \in Sessions : doing[p] # "PERSISTED"
      BY <1>1, IndexConstants DEF IInv, PersistInv
    <2> QED
      BY <1>1, <2>1 DEF PersistInv
  <1>7. LateInv' /\ CertificateStaysTrue' /\ ReturnedStaysIndexed'
    BY <1>1, CommittedKept
  <1> QED
    BY <1>2, <1>3, <1>4, <1>5, <1>6, <1>7 DEF IInv

(* What a transaction sees is a database, and no term that another waits    *)
(* to commit is in it.                                                      *)
LEMMA SeenFacts ==
    ASSUME IInv, NEW s \in Sessions
    PROVE  /\ Seen(s) \in Database
           /\ Certified(index) =>
                 Certified(Seen(s)) /\ Seen(s) = [index EXCEPT !.state = Seen(s).state]
           /\ \A p \in Sessions : doing[p] = "REFERENCED" =>
                 /\ subject[p].ordinal \in Ordinals
                 /\ subject[p].lexeme \notin Seen(s).terms[subject[p].ordinal]
  <1>1. Seen(s) \in Database
    BY DEF IInv, IndexTypeOK, Seen
  <1>2. ASSUME Certified(index)
        PROVE  Certified(Seen(s)) /\ Seen(s) = [index EXCEPT !.state = Seen(s).state]
    <2>1. work = [index EXCEPT !.state = work.state]
      BY <1>2 DEF IInv, WorkInv
    <2>2. work.certificate = index.certificate
      BY <2>1 DEF IInv, IndexTypeOK, Database
    <2>3. index = [index EXCEPT !.state = index.state]
      BY DEF IInv, IndexTypeOK, Database
    <2> QED
      BY <1>2, <2>1, <2>2, <2>3 DEF Seen, Certified
  <1>3. \A p \in Sessions : doing[p] = "REFERENCED" =>
          /\ subject[p].ordinal \in Ordinals
          /\ subject[p].lexeme \notin Seen(s).terms[subject[p].ordinal]
    BY DEF IInv, SubjectInv, ReferenceInv, Seen
  <1> QED
    BY <1>1, <1>2, <1>3

(* The statements of a writer of SQL.                                       *)
LEMMA WriteKeeps ==
    ASSUME IInv, NEW s \in Sessions, Write(s)
    PROVE  IInv'
  <1> DEFINE db == Seen(s)
  <1>0. /\ db \in Database
        /\ Certified(index) => Certified(db) /\ db = [index EXCEPT !.state = db.state]
        /\ \A p \in Sessions : doing[p] = "REFERENCED" =>
              /\ subject[p].ordinal \in Ordinals
              /\ subject[p].lexeme \notin db.terms[subject[p].ordinal]
    BY SeenFacts
  <1>s. \A p \in Sessions : subject[p] \in Subjects
    BY DEF IInv, IndexTypeOK
  <1>1. ASSUME NEW o \in Ordinals, NEW t \in Contents, NEW e \in BOOLEAN,
               WriteFragment(s, o, t, e)
        PROVE  IInv'
    <2> DEFINE new == [db EXCEPT !.fragment[o] = [of |-> t, embedded |-> e]]
    <2>1. new \in Database /\ new.terms = db.terms
      BY <1>0, FragmentWritten, IndexConstants DEF Contents
    <2>2. ~Certified(index) /\ Statement(s, new)
      BY <1>0, <1>1 DEF WriteFragment, Open
    <2> HIDE DEF new, db
    <2> QED
      BY <1>0, <2>1, <2>2, StatementKeeps
  <1>2. ASSUME NEW o \in Ordinals, DeleteFragment(s, o)
        PROVE  IInv'
    <2> DEFINE new == [db EXCEPT !.fragment[o] = [of |-> 0, embedded |-> FALSE]]
    <2>0. 0 \in 0..MaxFragments
      BY IndexConstants
    <2>1. new \in Database /\ new.terms = db.terms
      <3> HIDE DEF db
      <3> QED
        BY <1>0, <2>0, FragmentWritten
    <2>2. ~Certified(index) /\ Statement(s, new)
      BY <1>0, <1>2 DEF DeleteFragment, Open, NoFragment
    <2> HIDE DEF new, db
    <2> QED
      BY <1>0, <2>1, <2>2, StatementKeeps
  <1>3. ASSUME NEW o \in Ordinals, NEW x \in Lexemes, InsertTerm(s, o, x)
        PROVE  IInv'
    <2> DEFINE new == [db EXCEPT !.terms[o] = @ \cup {x}]
    <2>1. new \in Database
      BY <1>0 DEF Database
    <2>2. ~Certified(index) /\ Statement(s, new)
      BY <1>0, <1>3 DEF InsertTerm, Open
    <2>3. \A p \in Sessions : doing[p] = "REFERENCED" =>
              subject[p].lexeme \notin new.terms[subject[p].ordinal]
      <3>1. doing[s] = "IDLE"
        BY <2>2 DEF Statement
      <3>2. \A p \in Sessions : doing[p] = "REFERENCED" => subject[p].ordinal # o
        BY <1>3, <3>1 DEF InsertTerm, Unreferenced
      <3>3. \A q \in Ordinals : q # o => new.terms[q] = db.terms[q]
        BY <1>0 DEF Database
      <3> HIDE DEF new, db
      <3> QED
        BY <1>0, <3>2, <3>3
    <2> HIDE DEF new, db
    <2> QED
      BY <2>1, <2>2, <2>3, StatementKeeps
  <1>4. ASSUME NEW o \in Ordinals, NEW x \in Lexemes, DeleteTerm(s, o, x)
        PROVE  IInv'
    <2> DEFINE new == [db EXCEPT !.terms[o] = @ \ {x}]
    <2>1. new \in Database /\ \A q \in Ordinals : new.terms[q] \subseteq db.terms[q]
      BY <1>0 DEF Database
    <2>2. ~Certified(index) /\ Statement(s, new)
      BY <1>0, <1>4 DEF DeleteTerm, Open
    <2> HIDE DEF new, db
    <2> QED
      BY <1>0, <2>1, <2>2, StatementKeeps
  <1>5. ASSUME NEW o \in Ordinals, NEW n \in Int, InsertReceipt(s, o, n)
        PROVE  IInv'
    <2> DEFINE new == [db EXCEPT !.receipt[o] = n]
    <2>1. new \in Database /\ new.terms = db.terms
      BY <1>0 DEF Database
    <2>2. ~Certified(index) /\ Statement(s, new)
      BY <1>0, <1>5 DEF InsertReceipt, Open
    <2> HIDE DEF new, db
    <2> QED
      BY <1>0, <2>1, <2>2, StatementKeeps
  <1>6. ASSUME NEW t \in Contents, ChangeText(s, t)
        PROVE  IInv'
    <2> DEFINE new == [db EXCEPT !.text = t]
    <2>1. new \in Database /\ new.terms = db.terms
      BY <1>0 DEF Database
    <2>2. ~Certified(index) /\ Statement(s, new)
      BY <1>0, <1>6 DEF ChangeText, Open
    <2> HIDE DEF new, db
    <2> QED
      BY <1>0, <2>1, <2>2, StatementKeeps
  <1>7. ASSUME NEW state \in States, ChangeState(s, state)
        PROVE  IInv'
    <2> DEFINE new == [db EXCEPT !.state = state]
    <2>1. new \in Database /\ new.terms = db.terms
      BY <1>0 DEF Database
    <2>2. Statement(s, new)
      BY <1>7 DEF ChangeState
    <2>3. Certified(index) => new = [index EXCEPT !.state = new.state]
      <3>1. index \in Database
        BY DEF IInv, IndexTypeOK
      <3> QED
        BY <1>0, <3>1 DEF Database
    <2> HIDE DEF new, db
    <2> QED
      BY <1>0, <2>1, <2>2, <2>3, StatementKeeps
  <1>8. ASSUME NEW t \in Contents, NEW n \in Contents, NEW z \in 0..MaxFragments,
               InsertCertificate(s, [of |-> t, count |-> n, zero |-> z])
        PROVE  IInv'
    <2> DEFINE new == [db EXCEPT !.certificate = [of |-> t, count |-> n, zero |-> z]]
    <2>1. new \in Database /\ new.terms = db.terms
      BY <1>0, IndexConstants DEF Database, Contents
    <2>2. ~Certified(index) /\ Statement(s, new)
      BY <1>0, <1>8 DEF InsertCertificate
    <2> HIDE DEF new, db
    <2> QED
      BY <1>0, <2>1, <2>2, StatementKeeps
  <1>9. 0..Cardinality(Lexemes) \subseteq Int
    OBVIOUS
  <1> HIDE DEF db
  <1> QED
    BY <1>1, <1>2, <1>3, <1>4, <1>5, <1>6, <1>7, <1>8, <1>9 DEF Write

(* A session that turns to something else, with a subject of its kind.      *)
LEMMA TurnKeeps ==
    ASSUME IInv, NEW s \in Sessions, NEW d \in Steps \ {"PERSISTED", "REFERENCED"},
           NEW u \in Subjects,
           d = "EMBEDDED" => u.ordinal \in Contents,
           d = "UNSEEN" => u.ordinal \in Ordinals,
           doing' = [doing EXCEPT ![s] = d], subject' = [subject EXCEPT ![s] = u],
           index' = index, work' = work, holder' = holder,
           returned' = returned, late' = late, statements' \in Nat
    PROVE  IInv'
  <1>1. /\ doing' \in [Sessions -> Steps] /\ subject' \in [Sessions -> Subjects]
        /\ doing'[s] = d /\ subject'[s] = u
        /\ \A p \in Sessions \ {s} : doing'[p] = doing[p] /\ subject'[p] = subject[p]
    BY DEF IInv, IndexTypeOK
  <1>2. IndexTypeOK'
    BY <1>1 DEF IInv, IndexTypeOK
  <1>3. SubjectInv'
    BY <1>1 DEF IInv, SubjectInv
  <1>4. WorkInv'
    BY DEF IInv, WorkInv, Certified
  <1>5. ReferenceInv'
    BY <1>1 DEF IInv, ReferenceInv
  <1>6. PersistInv'
    <2> SUFFICES ASSUME NEW q \in Sessions, doing'[q] = "PERSISTED"
                 PROVE  LET t == subject'[q].ordinal
                        IN  /\ holder = q /\ ~Certified(index)
                            /\ work.text = t /\ work.certificate = CertificateOf(t)
                            /\ \A o \in OrdinalsOf(t) :
                                  work.fragment[o] = FragmentOf(t, o) /\ work.terms[o] = TermsOf(o)
                            /\ \A p \in Sessions : doing'[p] = "REFERENCED" =>
                                  subject'[p].ordinal \notin OrdinalsOf(t)
      BY DEF PersistInv, Certified
    <2>1. q # s /\ doing[q] = "PERSISTED" /\ subject'[q] = subject[q]
      BY <1>1
    <2>2. \A p \in Sessions : doing'[p] = "REFERENCED" =>
              doing[p] = "REFERENCED" /\ subject'[p] = subject[p]
      BY <1>1
    <2> QED
      BY <2>1, <2>2 DEF IInv, PersistInv
  <1>7. LateInv' /\ CertificateStaysTrue' /\ ReturnedStaysIndexed'
    BY CommittedKept
  <1> QED
    BY <1>2, <1>3, <1>4, <1>5, <1>6, <1>7 DEF IInv

(* Embed, GiveUp, InsertUnseen and DropTerm turn to something else.         *)
LEMMA QuietKeeps ==
    ASSUME IInv, NEW s \in Sessions,
           \/ Embed(s) \/ GiveUp(s) \/ DropTerm(s)
           \/ \E o \in Ordinals, x \in Lexemes : InsertUnseen(s, o, x)
    PROVE  IInv'
  <1>0. /\ Nothing \in Subjects /\ statements \in Nat
        /\ index.text \in Contents /\ Contents \subseteq 0..MaxFragments
        /\ Ordinals \subseteq 0..MaxFragments
    <2>1. index.text \in Contents /\ statements \in Nat
      BY DEF IInv, IndexTypeOK, Database
    <2>2. Contents \subseteq 0..MaxFragments /\ Ordinals \subseteq 0..MaxFragments
      BY IndexConstants DEF Contents, Ordinals
    <2>3. Nothing \in Subjects
      BY IndexConstants DEF Nothing, Subjects, Lexemes
    <2> QED
      BY <2>1, <2>2, <2>3
  <1>1. CASE Embed(s)
    <2> DEFINE u == [ordinal |-> index.text, lexeme |-> "own"]
    <2>1. u \in Subjects /\ u.ordinal \in Contents
      BY <1>0 DEF Subjects, Lexemes
    <2> HIDE DEF u
    <2> QED
      BY <1>0, <1>1, <2>1, TurnKeeps DEF Embed, Steps, u
  <1>2. CASE GiveUp(s) \/ DropTerm(s)
    BY <1>0, <1>2, TurnKeeps DEF GiveUp, DropTerm, Steps
  <1>3. ASSUME NEW o \in Ordinals, NEW x \in Lexemes, InsertUnseen(s, o, x)
        PROVE  IInv'
    <2> DEFINE u == [ordinal |-> o, lexeme |-> x]
    <2>1. u \in Subjects /\ u.ordinal \in Ordinals
      BY <1>0 DEF Subjects
    <2>2. /\ doing' = [doing EXCEPT ![s] = "UNSEEN"] /\ subject' = [subject EXCEPT ![s] = u]
          /\ statements' \in Nat
          /\ UNCHANGED <<index, holder, work, returned, late>>
      BY <1>0, <1>3 DEF InsertUnseen
    <2> HIDE DEF u
    <2> QED
      BY <2>1, <2>2, TurnKeeps DEF Steps
  <1> QED
    BY <1>1, <1>2, <1>3

(* Rollback: the copy of the holder is dropped.                             *)
LEMMA RollbackKeeps ==
    ASSUME IInv, NEW s \in Sessions, Rollback(s)
    PROVE  IInv'
  <1>0. Nothing \in Subjects
    BY IndexConstants DEF Nothing, Subjects, Lexemes
  <1>1. /\ holder = s /\ holder' = NoOne /\ index' = index /\ work' = index
        /\ returned' = returned /\ late' = late /\ statements' = statements
        /\ doing' = [doing EXCEPT ![s] = "IDLE"] /\ subject' = [subject EXCEPT ![s] = Nothing]
    BY DEF Rollback, Released
  <1>2. /\ doing' \in [Sessions -> Steps] /\ subject' \in [Sessions -> Subjects]
        /\ doing'[s] = "IDLE"
        /\ \A p \in Sessions \ {s} : doing'[p] = doing[p] /\ subject'[p] = subject[p]
    BY <1>0, <1>1 DEF IInv, IndexTypeOK, Steps
  <1>3. IndexTypeOK'
    BY <1>1, <1>2 DEF IInv, IndexTypeOK
  <1>4. SubjectInv'
    BY <1>2 DEF IInv, SubjectInv
  <1>5. WorkInv'
    <2>1. index = [index EXCEPT !.state = index.state]
      BY DEF IInv, IndexTypeOK, Database
    <2> QED
      BY <1>1, <2>1 DEF WorkInv, Certified
  <1>6. ReferenceInv'
    BY <1>1, <1>2 DEF IInv, ReferenceInv
  <1>7. PersistInv'
    <2>1. \A p \in Sessions : doing'[p] # "PERSISTED"
      BY <1>1, <1>2 DEF IInv, PersistInv
    <2> QED
      BY <2>1 DEF PersistInv
  <1>8. LateInv' /\ CertificateStaysTrue' /\ ReturnedStaysIndexed'
    BY <1>1, CommittedKept
  <1> QED
    BY <1>3, <1>4, <1>5, <1>6, <1>7, <1>8 DEF IInv

(* FindReference: the key does not see what the triggers would refuse.      *)
LEMMA FindReferenceKeeps ==
    ASSUME IInv, NEW s \in Sessions, FindReference(s)
    PROVE  IInv'
  <1>1. /\ doing[s] = "UNSEEN" /\ ~Taken(subject[s].ordinal)
        /\ subject[s].lexeme \notin index.terms[subject[s].ordinal]
        /\ subject[s].lexeme \notin work.terms[subject[s].ordinal]
        /\ \A p \in Sessions \ {s} : doing[p] = "REFERENCED" => subject[p] # subject[s]
        /\ doing' = [doing EXCEPT ![s] = "REFERENCED"]
        /\ UNCHANGED <<index, holder, work, subject, returned, late, statements>>
    BY DEF FindReference
  <1>2. /\ doing' \in [Sessions -> Steps] /\ doing'[s] = "REFERENCED"
        /\ \A p \in Sessions \ {s} : doing'[p] = doing[p]
    BY <1>1 DEF IInv, IndexTypeOK, Steps
  <1>3. IndexTypeOK'
    BY <1>1, <1>2 DEF IInv, IndexTypeOK
  <1>4. SubjectInv'
    BY <1>1, <1>2 DEF IInv, SubjectInv
  <1>5. WorkInv'
    BY <1>1 DEF IInv, WorkInv, Certified
  <1>6. ReferenceInv'
    BY <1>1, <1>2 DEF IInv, ReferenceInv
  <1>7. PersistInv'
    <2>1. \A q \in Sessions : doing'[q] = "PERSISTED" => doing[q] = "PERSISTED"
      BY <1>2
    <2>2. \A q \in Sessions : doing[q] = "PERSISTED" =>
              subject[s].ordinal \notin OrdinalsOf(subject[q].ordinal)
      BY <1>1 DEF Taken
    <2>3. \A p \in Sessions : doing'[p] = "REFERENCED" => doing[p] = "REFERENCED" \/ p = s
      BY <1>2
    <2> QED
      BY <1>1, <2>1, <2>2, <2>3 DEF IInv, PersistInv, Certified
  <1>8. LateInv' /\ CertificateStaysTrue' /\ ReturnedStaysIndexed'
    BY <1>1, CommittedKept
  <1> QED
    BY <1>3, <1>4, <1>5, <1>6, <1>7, <1>8 DEF IInv

-----------------------------------------------------------------------------
(* Steps that change what is committed, or what is said of it.              *)

(* CommitTerm: the key of a term that nobody saw is not among the counted.  *)
LEMMA CommitTermKeeps ==
    ASSUME IInv, NEW s \in Sessions, CommitTerm(s)
    PROVE  IInv'
  <1> DEFINE o == subject[s].ordinal
             x == subject[s].lexeme
  <1>0. /\ Nothing \in Subjects /\ subject[s] \in Subjects
        /\ o \in Ordinals /\ x \in Lexemes /\ doing[s] = "REFERENCED"
    BY IndexConstants DEF IInv, IndexTypeOK, SubjectInv, CommitTerm, Nothing, Subjects, Lexemes
  <1>1. /\ index' = [index EXCEPT !.terms[o] = @ \cup {x}]
        /\ work' = [work EXCEPT !.terms[o] = @ \cup {x}]
        /\ late' = (IF Certified(index) THEN late \cup {subject[s]} ELSE late)
        /\ doing' = [doing EXCEPT ![s] = "IDLE"] /\ subject' = [subject EXCEPT ![s] = Nothing]
        /\ holder' = holder /\ returned' = returned /\ statements' = statements
    BY DEF CommitTerm
  <1>2. /\ doing' \in [Sessions -> Steps] /\ subject' \in [Sessions -> Subjects]
        /\ doing'[s] = "IDLE"
        /\ \A p \in Sessions \ {s} : doing'[p] = doing[p] /\ subject'[p] = subject[p]
    BY <1>0, <1>1 DEF IInv, IndexTypeOK, Steps
  <1>3. index \in Database /\ work \in Database
    BY DEF IInv, IndexTypeOK
  <1>4. /\ index' \in Database /\ work' \in Database
        /\ \A q \in Ordinals : index'.terms[q] = index.terms[q] \cup (IF q = o THEN {x} ELSE {})
        /\ \A q \in Ordinals : work'.terms[q] = work.terms[q] \cup (IF q = o THEN {x} ELSE {})
        /\ index'.text = index.text /\ index'.fragment = index.fragment
        /\ index'.receipt = index.receipt /\ index'.certificate = index.certificate
        /\ work'.text = work.text /\ work'.fragment = work.fragment
        /\ work'.certificate = work.certificate
    BY <1>0, <1>1, <1>3 DEF Database
  <1>5. IndexTypeOK'
    BY <1>0, <1>1, <1>2, <1>4 DEF IInv, IndexTypeOK
  <1>6. SubjectInv'
    BY <1>2 DEF IInv, SubjectInv
  <1>7. WorkInv'
    <2>1. holder = NoOne => work' = index'
      BY <1>1 DEF IInv, WorkInv
    <2>2. ASSUME Certified(index)
          PROVE  work' = [index' EXCEPT !.state = work'.state]
      <3>1. work = [index EXCEPT !.state = work.state]
        BY <2>2 DEF IInv, WorkInv
      <3> QED
        BY <1>0, <1>1, <1>3, <3>1 DEF Database
    <2> QED
      BY <1>1, <1>4, <2>1, <2>2 DEF WorkInv, Certified
  <1>8. ReferenceInv'
    <2> SUFFICES ASSUME NEW p \in Sessions, doing'[p] = "REFERENCED"
                 PROVE  /\ subject'[p].lexeme \notin index'.terms[subject'[p].ordinal]
                        /\ subject'[p].lexeme \notin work'.terms[subject'[p].ordinal]
                        /\ \A q \in Sessions \ {p} :
                              doing'[q] = "REFERENCED" => subject'[q] # subject'[p]
      BY DEF ReferenceInv
    <2>1. p # s /\ doing[p] = "REFERENCED" /\ subject'[p] = subject[p]
      BY <1>2
    <2>2. subject[p] # subject[s] /\ subject[p] \in Subjects /\ subject[p].ordinal \in Ordinals
      BY <1>0, <2>1 DEF IInv, IndexTypeOK, ReferenceInv, SubjectInv
    <2>3. subject[p].ordinal # o \/ subject[p].lexeme # x
      BY <1>0, <2>2 DEF Subjects
    <2>4. /\ subject[p].lexeme \notin index.terms[subject[p].ordinal]
          /\ subject[p].lexeme \notin work.terms[subject[p].ordinal]
      BY <2>1 DEF IInv, ReferenceInv
    <2>5. \A q \in Sessions \ {p} : doing'[q] = "REFERENCED" => subject'[q] # subject'[p]
      BY <1>2, <2>1 DEF IInv, ReferenceInv
    <2> HIDE DEF o, x
    <2> QED
      BY <1>4, <2>1, <2>2, <2>3, <2>4, <2>5
  <1>9. PersistInv'
    <2> SUFFICES ASSUME NEW q \in Sessions, doing'[q] = "PERSISTED"
                 PROVE  LET t == subject'[q].ordinal
                        IN  /\ holder' = q /\ ~Certified(index)'
                            /\ work'.text = t /\ work'.certificate = CertificateOf(t)
                            /\ \A k \in OrdinalsOf(t) :
                                  work'.fragment[k] = FragmentOf(t, k) /\ work'.terms[k] = TermsOf(k)
                            /\ \A p \in Sessions : doing'[p] = "REFERENCED" =>
                                  subject'[p].ordinal \notin OrdinalsOf(t)
      BY DEF PersistInv
    <2> DEFINE t == subject[q].ordinal
    <2>1. q # s /\ doing[q] = "PERSISTED" /\ subject'[q] = subject[q]
      BY <1>2
    <2>2. /\ holder = q /\ ~Certified(index)
          /\ work.text = t /\ work.certificate = CertificateOf(t)
          /\ \A k \in OrdinalsOf(t) :
                work.fragment[k] = FragmentOf(t, k) /\ work.terms[k] = TermsOf(k)
          /\ \A p \in Sessions : doing[p] = "REFERENCED" =>
                subject[p].ordinal \notin OrdinalsOf(t)
      BY <2>1 DEF IInv, PersistInv
    <2>3. t \in Contents /\ OrdinalsOf(t) \subseteq Ordinals
      BY <2>1, IndexConstants DEF IInv, SubjectInv, OrdinalsOf, Ordinals, Contents
    <2>4. o \notin OrdinalsOf(t)
      BY <1>0, <2>2
    <2>5. \A p \in Sessions : doing'[p] = "REFERENCED" =>
              doing[p] = "REFERENCED" /\ subject'[p] = subject[p]
      BY <1>2
    <2> HIDE DEF t, o, x
    <2>6. \A k \in OrdinalsOf(t) : work'.terms[k] = TermsOf(k)
      BY <1>4, <2>2, <2>3, <2>4
    <2> QED
      BY <1>1, <1>4, <2>1, <2>2, <2>5, <2>6 DEF t, Certified
  <1>10. LateInv'
    BY <1>1, <1>4 DEF IInv, LateInv, Certified
  <1>11. ASSUME Certified(index), NEW k \in Ordinals
         PROVE  Counted(k)' = Counted(k)
    <2>1. x \notin index.terms[o]
      BY <1>0 DEF IInv, ReferenceInv
    <2>2. subject[s] = [ordinal |-> o, lexeme |-> x]
      BY <1>0 DEF Subjects
    <2>3. late' = late \cup {[ordinal |-> o, lexeme |-> x]}
      BY <1>1, <1>11, <2>2
    <2>4. \A y \in index.terms[k] : ([ordinal |-> k, lexeme |-> y] \in late')
                                      <=> ([ordinal |-> k, lexeme |-> y] \in late)
      <3> HIDE DEF o, x
      <3> SUFFICES ASSUME NEW y \in index.terms[k],
                          [ordinal |-> k, lexeme |-> y] = [ordinal |-> o, lexeme |-> x]
                   PROVE  FALSE
        BY <2>3
      <3>1. k = o /\ y = x
        OBVIOUS
      <3> QED
        BY <2>1, <3>1
    <2>5. index'.terms[k] = index.terms[k] \cup (IF k = o THEN {x} ELSE {})
      BY <1>4
    <2> HIDE DEF o, x
    <2>6. k = o => [ordinal |-> k, lexeme |-> x] \in late'
      BY <2>3
    <2> QED
      BY <2>4, <2>5, <2>6 DEF Counted
  <1>12. CertificateStaysTrue'
    <2>1. Stored(index)' = Stored(index) /\ Stored(index) \subseteq Ordinals
      BY <1>4 DEF Stored
    <2> QED
      BY <1>4, <1>11, <2>1 DEF IInv, CertificateStaysTrue, Certified
  <1>13. ReturnedStaysIndexed'
    <2> SUFFICES ASSUME NEW q \in Sessions, returned[q] # 0
                 PROVE  /\ index'.text = returned[q]
                        /\ index'.certificate = CertificateOf(returned[q])
                        /\ \A k \in OrdinalsOf(returned[q]) :
                              /\ index'.fragment[k] = FragmentOf(returned[q], k)
                              /\ Counted(k)' = TermsOf(k)
      BY <1>1 DEF ReturnedStaysIndexed
    <2>1. Certified(index) /\ returned[q] \in Contents
      BY ReturnedMeansCertified
    <2>2. OrdinalsOf(returned[q]) \subseteq Ordinals
      BY <2>1, IndexConstants DEF OrdinalsOf, Ordinals, Contents
    <2> QED
      BY <1>4, <1>11, <2>1, <2>2 DEF IInv, ReturnedStaysIndexed
  <1> QED
    BY <1>5, <1>6, <1>7, <1>8, <1>9, <1>10, <1>12, <1>13 DEF IInv

(* Reuse: a certificate that still matches what the session embedded.       *)
LEMMA ReuseKeeps ==
    ASSUME IInv, NEW s \in Sessions, Reuse(s)
    PROVE  IInv'
  <1> DEFINE t == subject[s].ordinal
  <1>0. Nothing \in Subjects
    BY IndexConstants DEF Nothing, Subjects, Lexemes
  <1>1. /\ doing[s] = "EMBEDDED" /\ index.text = t
        /\ index.certificate = CertificateOf(t) /\ Matches(index, t)
        /\ returned' = [returned EXCEPT ![s] = t]
        /\ doing' = [doing EXCEPT ![s] = "IDLE"] /\ subject' = [subject EXCEPT ![s] = Nothing]
        /\ UNCHANGED <<index, holder, work, late, statements>>
    BY DEF Reuse, SourceKept
  <1>2. t \in Contents /\ t \in 0..MaxFragments /\ t # 0 /\ t \in Int
    BY <1>1, IndexConstants DEF IInv, SubjectInv, Contents
  <1>3. /\ doing' \in [Sessions -> Steps] /\ subject' \in [Sessions -> Subjects]
        /\ returned' \in [Sessions -> 0..MaxFragments]
        /\ doing'[s] = "IDLE" /\ returned'[s] = t
        /\ \A p \in Sessions \ {s} :
              doing'[p] = doing[p] /\ subject'[p] = subject[p] /\ returned'[p] = returned[p]
    BY <1>0, <1>1, <1>2 DEF IInv, IndexTypeOK, Steps
  <1>4. Certified(index)
    BY <1>1, <1>2, CertificateFacts DEF Certified
  <1>5. IndexTypeOK'
    BY <1>1, <1>3 DEF IInv, IndexTypeOK
  <1>6. SubjectInv'
    BY <1>3 DEF IInv, SubjectInv
  <1>7. WorkInv'
    BY <1>1 DEF IInv, WorkInv, Certified
  <1>8. ReferenceInv'
    BY <1>1, <1>3 DEF IInv, ReferenceInv
  <1>9. PersistInv'
    <2>1. \A p \in Sessions : doing'[p] # "PERSISTED"
      BY <1>3, <1>4 DEF IInv, PersistInv
    <2> QED
      BY <2>1 DEF PersistInv
  <1>10. LateInv' /\ CertificateStaysTrue'
    BY <1>1 DEF IInv, LateInv, CertificateStaysTrue, Certified, Stored, Counted
  <1>11. \A o \in OrdinalsOf(t) :
            index.fragment[o] = FragmentOf(t, o) /\ Counted(o) = TermsOf(o)
    <2> SUFFICES ASSUME NEW o \in OrdinalsOf(t)
                 PROVE  index.fragment[o] = FragmentOf(t, o) /\ Counted(o) = TermsOf(o)
      OBVIOUS
    <2>1. /\ index.fragment[o] = FragmentOf(t, o) /\ index.terms[o] = TermsOf(o)
          /\ index.receipt[o] = Cardinality(TermsOf(o))
      BY <1>1 DEF Matches
    <2>2. o \in Int /\ IsFiniteSet(TermsOf(o))
      BY <1>2, TermsFacts DEF OrdinalsOf
    <2>3. o \in Stored(index)
      BY <1>1, <1>2, <1>4, CertificateFacts DEF IInv, CertificateStaysTrue
    <2>4. index.receipt[o] = Cardinality(Counted(o))
      BY <1>4, <2>3 DEF IInv, CertificateStaysTrue
    <2>5. Counted(o) \subseteq TermsOf(o)
      BY <2>1 DEF Counted
    <2>6. Counted(o) = TermsOf(o)
      BY <2>1, <2>2, <2>4, <2>5, FS_Subset
    <2> QED
      BY <2>1, <2>6
  <1>12. \A o \in Int : Counted(o)' = Counted(o)
    BY <1>1 DEF Counted
  <1>13. ReturnedStaysIndexed'
    <2> SUFFICES ASSUME NEW q \in Sessions, returned'[q] # 0
                 PROVE  /\ index.text = returned'[q] /\ index.certificate = CertificateOf(returned'[q])
                        /\ \A o \in OrdinalsOf(returned'[q]) :
                              /\ index.fragment[o] = FragmentOf(returned'[q], o)
                              /\ Counted(o) = TermsOf(o)
      BY <1>1 DEF ReturnedStaysIndexed, Counted
    <2>1. CASE q = s
      BY <1>1, <1>3, <1>11, <2>1
    <2>2. CASE q # s
      BY <1>3, <2>2 DEF IInv, ReturnedStaysIndexed
    <2> QED
      BY <2>1, <2>2
  <1> QED
    BY <1>5, <1>6, <1>7, <1>8, <1>9, <1>10, <1>13 DEF IInv

(* Persist: the rows that the indexer leaves are what it made of the text.  *)
LEMMA PersistKeeps ==
    ASSUME IInv, NEW s \in Sessions, Persist(s)
    PROVE  IInv'
  <1> DEFINE t == subject[s].ordinal
             m == Merged(t)
  <1>1. /\ doing[s] = "EMBEDDED" /\ holder = NoOne /\ index.text = t
        /\ ~Certified(index) /\ Matches(m, t)
        /\ \A o \in OrdinalsOf(t) : Unreferenced(s, o)
        /\ holder' = s
        /\ work' = [m EXCEPT !.state = "LISTA", !.certificate = CertificateOf(t)]
        /\ doing' = [doing EXCEPT ![s] = "PERSISTED"]
        /\ UNCHANGED <<index, subject, returned, late, statements>>
    BY DEF Persist, SourceKept
  <1>2. t \in Contents /\ OrdinalsOf(t) \subseteq Ordinals /\ index \in Database
    BY <1>1, IndexConstants DEF IInv, IndexTypeOK, SubjectInv, Contents, OrdinalsOf, Ordinals
  <1>3. /\ doing' \in [Sessions -> Steps] /\ doing'[s] = "PERSISTED"
        /\ \A p \in Sessions \ {s} : doing'[p] = doing[p]
    BY <1>1 DEF IInv, IndexTypeOK, Steps
  <1>4. CertificateOf(t) \in [of : 0..MaxFragments, count : 0..MaxFragments, zero : Nat]
    BY <1>2, CertificateFacts
  <1>5. m \in Database /\ m.text = index.text
        /\ \A o \in Ordinals \ OrdinalsOf(t) : m.terms[o] = index.terms[o]
    <2> DEFINE F == [o \in Ordinals |->
                        IF o \in OrdinalsOf(t) /\ index.fragment[o] = NoFragment
                        THEN FragmentOf(t, o) ELSE index.fragment[o]]
               T == [o \in Ordinals |->
                        IF o \in OrdinalsOf(t) THEN index.terms[o] \cup TermsOf(o)
                        ELSE index.terms[o]]
               R == [o \in Ordinals |->
                        IF o \in OrdinalsOf(t) /\ index.receipt[o] = NoReceipt
                        THEN Cardinality(TermsOf(o)) ELSE index.receipt[o]]
    <2>1. F \in [Ordinals -> [of : 0..MaxFragments, embedded : BOOLEAN]]
      BY <1>2, IndexConstants DEF Database, FragmentOf, Contents
    <2>2. T \in [Ordinals -> SUBSET Lexemes]
      <3>1. \A o \in Ordinals : TermsOf(o) \subseteq Lexemes
        BY TermsFacts DEF Ordinals
      <3> QED
        BY <1>2, <3>1 DEF Database
    <2>3. R \in [Ordinals -> Int]
      <3>1. \A o \in Ordinals : Cardinality(TermsOf(o)) \in Int
        BY TermsFacts DEF Ordinals
      <3> QED
        BY <1>2, <3>1 DEF Database
    <2>4. m = [index EXCEPT !.fragment = F, !.terms = T, !.receipt = R]
      BY <1>2 DEF Merged, Database
    <2>5. \A o \in Ordinals \ OrdinalsOf(t) : T[o] = index.terms[o]
      OBVIOUS
    <2> HIDE DEF F, T, R, m
    <2> QED
      BY <1>2, <2>1, <2>2, <2>3, <2>4, <2>5 DEF Database
  <1> HIDE DEF m
  <1>6. /\ work' \in Database /\ work'.text = t /\ work'.certificate = CertificateOf(t)
        /\ work'.fragment = m.fragment /\ work'.terms = m.terms
    <2>1. "LISTA" \in States
      BY DEF States
    <2> QED
      BY <1>1, <1>4, <1>5, <2>1 DEF Database
  <1>7. IndexTypeOK'
    BY <1>1, <1>3, <1>6 DEF IInv, IndexTypeOK
  <1>8. SubjectInv'
    BY <1>1, <1>2, <1>3 DEF IInv, SubjectInv
  <1>9. WorkInv'
    BY <1>1, IndexConstants DEF WorkInv, Certified
  <1>10. \A p \in Sessions : doing'[p] = "REFERENCED" =>
            /\ doing[p] = "REFERENCED" /\ subject[p].ordinal \in Ordinals \ OrdinalsOf(t)
    BY <1>1, <1>3 DEF IInv, SubjectInv, Unreferenced
  <1>11. ReferenceInv'
    BY <1>1, <1>5, <1>6, <1>10 DEF IInv, ReferenceInv
  <1>12. PersistInv'
    <2>1. \A q \in Sessions : doing'[q] = "PERSISTED" => q = s
      BY <1>1, <1>3, IndexConstants DEF IInv, PersistInv
    <2>2. \A o \in OrdinalsOf(t) :
              work'.fragment[o] = FragmentOf(t, o) /\ work'.terms[o] = TermsOf(o)
      BY <1>1, <1>6 DEF Matches
    <2> QED
      BY <1>1, <1>6, <1>10, <2>1, <2>2 DEF PersistInv, Certified
  <1>13. LateInv' /\ CertificateStaysTrue' /\ ReturnedStaysIndexed'
    BY <1>1, CommittedKept
  <1> QED
    BY <1>7, <1>8, <1>9, <1>11, <1>12, <1>13 DEF IInv

(* Commit, without a certificate or with one that is there already.         *)
LEMMA PlainCommitKeeps ==
    ASSUME IInv, NEW s \in Sessions, Commit(s), Certified(work) => Certified(index)
    PROVE  CertificateStaysTrue' /\ ReturnedStaysIndexed' /\ LateInv'
  <1>1. holder = s /\ index' = work /\ late' = late
    BY DEF Commit
  <1>2. doing[s] # "PERSISTED"
    <2> SUFFICES ASSUME doing[s] = "PERSISTED"
                 PROVE  FALSE
      OBVIOUS
    <2>1. /\ ~Certified(index) /\ work.certificate = CertificateOf(subject[s].ordinal)
          /\ subject[s].ordinal \in Contents
      BY DEF IInv, PersistInv, SubjectInv
    <2> QED
      BY <2>1, CertificateFacts DEF Certified
  <1>3. returned' = returned
    BY <1>2 DEF Commit, IInv, IndexTypeOK
  <1>4. CASE Certified(index)
    <2>1. work = [index EXCEPT !.state = work.state] /\ index \in Database
      BY <1>4 DEF IInv, WorkInv, IndexTypeOK
    <2>2. /\ index'.text = index.text /\ index'.fragment = index.fragment
          /\ index'.terms = index.terms /\ index'.receipt = index.receipt
          /\ index'.certificate = index.certificate
      BY <1>1, <2>1 DEF Database
    <2> QED
      BY <1>1, <1>3, <1>4, <2>2
      DEF IInv, LateInv, CertificateStaysTrue, ReturnedStaysIndexed, Certified, Stored, Counted
  <1>5. CASE ~Certified(index)
    <2>1. ~Certified(index') /\ late' = {}
      BY <1>1, <1>5 DEF IInv, LateInv
    <2>2. \A q \in Sessions : returned'[q] = 0
      BY <1>3, <1>5, ReturnedMeansCertified
    <2> QED
      BY <2>1, <2>2 DEF LateInv, CertificateStaysTrue, ReturnedStaysIndexed, Certified
  <1> QED
    BY <1>4, <1>5

(* Commit of a certificate that the deferred trigger looked at.             *)
LEMMA CertifyingCommitKeeps ==
    ASSUME IInv, NEW s \in Sessions, Commit(s), Certified(work), ~Certified(index)
    PROVE  CertificateStaysTrue' /\ ReturnedStaysIndexed' /\ LateInv'
  <1>1. /\ holder = s /\ index' = work /\ late' = late /\ Valid(work)
        /\ returned' = [returned EXCEPT ![s] =
                           IF doing[s] = "PERSISTED" THEN subject[s].ordinal ELSE @]
    BY DEF Commit
  <1>2. late' = {}
    BY <1>1 DEF IInv, LateInv
  <1>3. \A o \in Int : Counted(o)' = work.terms[o]
    BY <1>1, <1>2 DEF Counted
  <1>4. /\ work \in Database /\ work.certificate.count \in Int /\ work.certificate.count > 0
        /\ Gapless(work, work.certificate) /\ work.certificate.of = work.text
        /\ \A o \in Stored(work) :
              work.fragment[o].embedded /\ work.receipt[o] = Cardinality(work.terms[o])
    BY <1>1, IndexConstants DEF IInv, IndexTypeOK, Database, Valid
  <1>5. Stored(work) = OrdinalsOf(work.certificate.count)
    BY <1>4, GaplessMeansAll
  <1>6. \A o \in Stored(work) : o \in Int
    BY DEF Stored, Ordinals
  <1>7. CertificateStaysTrue'
    BY <1>1, <1>3, <1>4, <1>5, <1>6 DEF CertificateStaysTrue, Stored, Counted
  <1>8. \A q \in Sessions : returned[q] = 0
    BY ReturnedMeansCertified
  <1>9. ReturnedStaysIndexed'
    <2> SUFFICES ASSUME NEW q \in Sessions, returned'[q] # 0
                 PROVE  /\ index'.text = returned'[q]
                        /\ index'.certificate = CertificateOf(returned'[q])
                        /\ \A o \in OrdinalsOf(returned'[q]) :
                              /\ index'.fragment[o] = FragmentOf(returned'[q], o)
                              /\ Counted(o)' = TermsOf(o)
      BY DEF ReturnedStaysIndexed
    <2>1. q = s /\ doing[s] = "PERSISTED" /\ returned'[q] = subject[s].ordinal
      BY <1>1, <1>8 DEF IInv, IndexTypeOK
    <2>2. /\ work.text = subject[s].ordinal
          /\ work.certificate = CertificateOf(subject[s].ordinal)
          /\ \A o \in OrdinalsOf(subject[s].ordinal) :
                work.fragment[o] = FragmentOf(subject[s].ordinal, o) /\ work.terms[o] = TermsOf(o)
      BY <2>1 DEF IInv, PersistInv
    <2>3. \A o \in OrdinalsOf(subject[s].ordinal) : o \in Int
      BY DEF OrdinalsOf
    <2> QED
      BY <1>1, <1>3, <2>1, <2>2, <2>3
  <1>10. LateInv'
    BY <1>2 DEF LateInv
  <1> QED
    BY <1>7, <1>9, <1>10

LEMMA CommitKeeps ==
    ASSUME IInv, NEW s \in Sessions, Commit(s)
    PROVE  IInv'
  <1>0. /\ Nothing \in Subjects /\ subject[s] \in Subjects
        /\ \A u \in Subjects : u.ordinal \in 0..MaxFragments
    BY IndexConstants DEF IInv, IndexTypeOK, Nothing, Subjects, Lexemes
  <1>1. /\ holder = s /\ holder' = NoOne /\ index' = work /\ work' = work
        /\ late' = late /\ statements' = statements
        /\ doing' = [doing EXCEPT ![s] = "IDLE"] /\ subject' = [subject EXCEPT ![s] = Nothing]
        /\ returned' = [returned EXCEPT ![s] =
                           IF doing[s] = "PERSISTED" THEN subject[s].ordinal ELSE @]
    BY DEF Commit, Released
  <1>2. /\ doing' \in [Sessions -> Steps] /\ subject' \in [Sessions -> Subjects]
        /\ doing'[s] = "IDLE"
        /\ \A p \in Sessions \ {s} : doing'[p] = doing[p] /\ subject'[p] = subject[p]
    BY <1>0, <1>1 DEF IInv, IndexTypeOK, Steps
  <1>3. returned' \in [Sessions -> 0..MaxFragments]
    BY <1>0, <1>1 DEF IInv, IndexTypeOK
  <1>4. IndexTypeOK'
    BY <1>1, <1>2, <1>3 DEF IInv, IndexTypeOK
  <1>5. SubjectInv'
    BY <1>2 DEF IInv, SubjectInv
  <1>6. WorkInv'
    <2>1. work = [work EXCEPT !.state = work.state]
      BY DEF IInv, IndexTypeOK, Database
    <2> QED
      BY <1>1, <2>1 DEF WorkInv, Certified
  <1>7. ReferenceInv'
    BY <1>1, <1>2 DEF IInv, ReferenceInv
  <1>8. PersistInv'
    <2>1. \A p \in Sessions : doing'[p] # "PERSISTED"
      BY <1>1, <1>2 DEF IInv, PersistInv
    <2> QED
      BY <2>1 DEF PersistInv
  <1>9. CertificateStaysTrue' /\ ReturnedStaysIndexed' /\ LateInv'
    BY PlainCommitKeeps, CertifyingCommitKeeps
  <1> QED
    BY <1>4, <1>5, <1>6, <1>7, <1>8, <1>9 DEF IInv

-----------------------------------------------------------------------------
LEMMA IndexInitInv == IndexInit => IInv
  <1> SUFFICES ASSUME IndexInit
               PROVE  IInv
    OBVIOUS
  <1>1. PICK state \in {"PROCESANDO", "LISTA"} :
            index = [text |-> 1, state |-> state,
                     fragment |-> [o \in Ordinals |-> NoFragment],
                     terms |-> [o \in Ordinals |-> {}],
                     receipt |-> [o \in Ordinals |-> NoReceipt],
                     certificate |-> NoCertificate]
    BY DEF IndexInit
  <1>2. /\ holder = NoOne /\ work = index
        /\ doing = [s \in Sessions |-> "IDLE"] /\ subject = [s \in Sessions |-> Nothing]
        /\ returned = [s \in Sessions |-> 0] /\ late = {} /\ statements = 0
    BY DEF IndexInit
  <1>3. /\ 1 \in Contents /\ 0 \in 0..MaxFragments /\ state \in States
        /\ NoReceipt \in Int /\ "own" \in Lexemes
        /\ NoFragment \in [of : 0..MaxFragments, embedded : BOOLEAN]
        /\ NoCertificate \in [of : 0..MaxFragments, count : 0..MaxFragments, zero : Nat]
    BY IndexConstants DEF Contents, States, NoReceipt, Lexemes, NoFragment, NoCertificate
  <1>4. /\ [o \in Ordinals |-> NoFragment] \in [Ordinals -> [of : 0..MaxFragments, embedded : BOOLEAN]]
        /\ [o \in Ordinals |-> {}] \in [Ordinals -> SUBSET Lexemes]
        /\ [o \in Ordinals |-> NoReceipt] \in [Ordinals -> Int]
    BY <1>3, Zenon
  <1>5. index \in Database
    BY ONLY <1>1, <1>3, <1>4, Zenon DEF Database
  <1>6. Nothing \in Subjects
    BY <1>3 DEF Nothing, Subjects
  <1>7. IndexTypeOK
    BY <1>2, <1>3, <1>5, <1>6 DEF IndexTypeOK, Steps
  <1>8. index.certificate = NoCertificate
    BY <1>1
  <1>9. ~Certified(index)
    BY <1>8 DEF Certified
  <1>10. \A s \in Sessions : doing[s] = "IDLE" /\ returned[s] = 0
    BY <1>2
  <1> QED
    BY <1>2, <1>7, <1>9, <1>10
    DEF IInv, SubjectInv, WorkInv, ReferenceInv, PersistInv, LateInv,
        CertificateStaysTrue, ReturnedStaysIndexed

LEMMA IndexNextInv == IInv /\ [IndexNext]_indexVars => IInv'
  <1> SUFFICES ASSUME IInv, [IndexNext]_indexVars
               PROVE  IInv'
    OBVIOUS
  <1>1. ASSUME NEW s \in Sessions,
               \/ Write(s) \/ Commit(s) \/ Rollback(s)
               \/ Embed(s) \/ Persist(s) \/ Reuse(s) \/ GiveUp(s)
               \/ \E o \in Ordinals, x \in Lexemes : InsertUnseen(s, o, x)
               \/ FindReference(s) \/ CommitTerm(s) \/ DropTerm(s)
        PROVE  IInv'
    BY <1>1, WriteKeeps, CommitKeeps, RollbackKeeps, QuietKeeps, PersistKeeps, ReuseKeeps,
       FindReferenceKeeps, CommitTermKeeps
  <1>2. CASE UNCHANGED indexVars
    BY <1>2
    DEF indexVars, IInv, IndexTypeOK, SubjectInv, WorkInv, ReferenceInv, PersistInv, LateInv,
        CertificateStaysTrue, ReturnedStaysIndexed, Certified, Stored, Counted
  <1> QED
    BY <1>1, <1>2 DEF IndexNext

(* What is written, by whom and in which order, keeps the types: the model  *)
(* of migration 0014 and of persist_certified_index.                        *)
THEOREM IndexTypes == IndexSpec => []IndexTypeOK
  <1>1. IndexSpec => []IInv
    BY IndexInitInv, IndexNextInv, PTL DEF IndexSpec
  <1>2. IInv => IndexTypeOK
    BY DEF IInv
  <1> QED
    BY <1>1, <1>2, PTL

(* However many sessions write around each other, a certificate stays true  *)
(* of the rows that retrieval reads, and what an indexer was told is        *)
(* indexed stays indexed.                                                   *)
THEOREM CertifiedIsKept == IndexSpec => []CertifiedIndexIsKept
  <1>1. IndexSpec => []IInv
    BY IndexInitInv, IndexNextInv, PTL DEF IndexSpec
  <1>2. IInv => CertifiedIndexIsKept
    BY DEF IInv, CertifiedIndexIsKept
  <1> QED
    BY <1>1, <1>2, PTL

-----------------------------------------------------------------------------
(* The cut of a text.                                                       *)

(* A set of naturals that is not empty has a least element.                 *)
LEMMA LeastExists ==
    ASSUME NEW T \in SUBSET Nat, T # {}
    PROVE  \E m \in T : \A n \in T : m <= n
  <1>1. IsWellFoundedOn(OpToRel(<, Nat), Nat)
    BY NatLessThanWellFounded
  <1>2. PICK m \in T : \A n \in T : ~(<<n, m>> \in OpToRel(<, Nat))
    BY <1>1, WFMin
  <1>3. \A n \in T : ~(n < m)
    BY <1>2 DEF OpToRel
  <1> QED
    BY <1>3

(* A bounded one has a greatest element.                                    *)
LEMMA GreatestExists ==
    ASSUME NEW b \in Nat, NEW T \in SUBSET (0..b), T # {}
    PROVE  \E m \in T : \A n \in T : n <= m
  <1> DEFINE U == {b - x : x \in T}
  <1>1. U \in SUBSET Nat /\ U # {}
    <2>1. PICK y \in T : TRUE
      OBVIOUS
    <2>2. b - y \in U
      BY <2>1
    <2>3. \A x \in T : b - x \in Nat
      OBVIOUS
    <2> QED
      BY <2>2, <2>3
  <1>2. PICK u \in U : \A v \in U : u <= v
    <2> HIDE DEF U
    <2> QED
      BY <1>1, LeastExists
  <1>3. PICK m \in T : u = b - m
    OBVIOUS
  <1>4. \A n \in T : b - n \in U
    OBVIOUS
  <1>5. ASSUME NEW n \in T
        PROVE  n <= m
    <2>1. u <= b - n
      <3> HIDE DEF U
      <3> QED
        BY <1>2, <1>4
    <2> QED
      BY <1>3, <2>1
  <1> QED
    BY <1>5

(* Products with a stride.                                                  *)
LEMMA Distribute ==
    ASSUME NEW a \in Int, NEW s \in Int
    PROVE  (a + 1) * s = a * s + s /\ (a - 1) * s = a * s - s /\ a * s \in Int
  BY SMT

(* The quotient that the plain cut rounds up.                               *)
LEMMA Ceiling ==
    ASSUME NEW x \in Nat, NEW s \in Nat \ {0}, NEW k \in Nat, NEW y \in Int, y = k * s,
           y >= x, y - s < x
    PROVE  (x + s - 1) \div s = k
  <1>1. (x + s - 1) = k * s + (x + s - 1 - y) /\ 0 <= x + s - 1 - y /\ x + s - 1 - y < s
    OBVIOUS
  <1> QED
    BY <1>1, SMT

(* The end of a fragment lies after its beginning, within the window and    *)
(* the text, and unless it ends the text the next one begins further on.    *)
LEMMA EndFacts ==
    ASSUME ChunkingTypeOK, NEW s \in Nat, s < length
    PROVE  /\ End(s) \in Nat /\ s < End(s)
           /\ End(s) <= s + MaxTokens /\ End(s) <= length
           /\ End(s) < length => End(s) >= s + Overlap + 1
  <1> DEFINE h == HardEnd(s)
             m == Minimum(s, h)
  <1>0. /\ length \in Nat /\ MaxTokens \in Nat /\ Overlap \in Nat /\ Overlap < MaxTokens
    BY ChunkingConstants DEF ChunkingTypeOK
  <1>1. /\ h \in Nat /\ s < h /\ h <= s + MaxTokens /\ h <= length
        /\ h < length => h = s + MaxTokens
    BY <1>0 DEF HardEnd, Smaller
  <1>2. /\ m \in Nat /\ s < m /\ m <= h
        /\ h < length => m = s + Overlap + 1
    BY <1>0, <1>1 DEF Minimum, Smaller
  <1>3. ASSUME NEW k, Ends(s, h, k) # {}
        PROVE  LastEnd(s, h, k) \in m..h
    <2>1. Ends(s, h, k) \in SUBSET (0..h)
      BY <1>2 DEF Ends
    <2>2. \E e \in Ends(s, h, k) : \A f \in Ends(s, h, k) : f <= e
      <3> HIDE DEF h
      <3> QED
        BY <1>1, <1>3, <2>1, GreatestExists
    <2>3. LastEnd(s, h, k) \in Ends(s, h, k)
      BY <2>2 DEF LastEnd
    <2> QED
      BY <2>3 DEF Ends
  <1>4. End(s) \in m..h
    <2>1. h \in m..h
      BY <1>1, <1>2
    <2> QED
      BY <1>3, <2>1 DEF End, PreferredEnd
  <1>5. h >= length => End(s) = h
    BY DEF End, PreferredEnd
  <1> HIDE DEF h, m
  <1> QED
    BY <1>0, <1>1, <1>2, <1>4, <1>5

(* Without marks the window is filled.                                      *)
Unmarked == \A e \in 1..(length - 1) : mark[e] = "NONE"

LEMMA PlainEnd ==
    ASSUME ChunkingTypeOK, Unmarked, NEW s \in Nat, s < length
    PROVE  End(s) = Smaller(s + MaxTokens, length)
  <1> DEFINE h == HardEnd(s)
  <1>0. /\ length \in Nat /\ MaxTokens \in Nat /\ Overlap \in Nat /\ Overlap < MaxTokens
    BY ChunkingConstants DEF ChunkingTypeOK
  <1>1. h = Smaller(s + MaxTokens, length) /\ h \in Nat
    BY <1>0 DEF HardEnd, Smaller
  <1>2. CASE h >= length
    BY <1>1, <1>2 DEF End, PreferredEnd
  <1>3. CASE h < length
    <2>1. Minimum(s, h) >= 1 /\ Minimum(s, h) \in Nat
      BY <1>0, <1>1 DEF Minimum, Smaller, HardEnd
    <2>2. \A e \in Minimum(s, h)..h : mark[e] = "NONE"
      BY <1>0, <1>1, <1>3, <2>1 DEF Unmarked
    <2>3. /\ Ends(s, h, "HEADING") = {} /\ Ends(s, h, "PARAGRAPH") = {}
          /\ Ends(s, h, "SENTENCE") = {}
      BY <2>2 DEF Ends
    <2> QED
      BY <1>1, <2>3 DEF End, PreferredEnd
  <1> QED
    BY <1>0, <1>1, <1>2, <1>3

(* The heading a fragment is filed under.                                   *)
LEMMA LabelFacts ==
    ASSUME ChunkingTypeOK, NEW from \in Nat, NEW to \in Nat
    PROVE  /\ Label(from, to) \in Int
           /\ \/ /\ Label(from, to) \in Headings
                 /\ from <= Label(from, to) /\ Label(from, to) < to
                 /\ \A g \in Headings : from <= g /\ g < to => Label(from, to) <= g
              \/ /\ \A g \in Headings : ~(from <= g /\ g < to)
                 /\ \/ /\ Label(from, to) \in Headings /\ Label(from, to) < from
                       /\ \A g \in Headings : g < from => g <= Label(from, to)
                    \/ /\ Label(from, to) = NoHeading
                       /\ \A g \in Headings : ~(g < from)
  <1> DEFINE inside == {h \in Headings : from <= h /\ h < to}
             before == {h \in Headings : h < from}
  <1>0. \A g \in Headings : g \in Nat /\ g \in Int
    BY ChunkingConstants DEF ChunkingTypeOK, Headings
  <1>1. Label(from, to) =
            IF inside # {} THEN CHOOSE h \in inside : \A g \in inside : h <= g
            ELSE IF before # {} THEN CHOOSE h \in before : \A g \in before : g <= h
            ELSE NoHeading
    BY DEF Label
  <1>2. CASE inside # {}
    <2>1. inside \in SUBSET Nat
      BY <1>0
    <2>2. \E h \in inside : \A g \in inside : h <= g
      <3> HIDE DEF inside
      <3> QED
        BY <1>2, <2>1, LeastExists
    <2>3. Label(from, to) \in inside /\ \A g \in inside : Label(from, to) <= g
      <3> HIDE DEF inside, before
      <3> QED
        BY <1>1, <1>2, <2>2
    <2>4. /\ Label(from, to) \in Headings
          /\ from <= Label(from, to) /\ Label(from, to) < to
      BY <2>3
    <2>5. \A g \in Headings : from <= g /\ g < to => Label(from, to) <= g
      BY <2>3
    <2>6. Label(from, to) \in Int
      BY <1>0, <2>4
    <2> QED
      BY <2>4, <2>5, <2>6
  <1>3. CASE inside = {} /\ before # {}
    <2>0. \A g \in before : g \in Nat /\ g < from
      BY <1>0
    <2>1. before \in SUBSET (0..from)
      BY <2>0
    <2>2. \E h \in before : \A g \in before : g <= h
      <3> HIDE DEF before
      <3> QED
        BY <1>3, <2>1, GreatestExists
    <2>3. Label(from, to) \in before /\ \A g \in before : g <= Label(from, to)
      <3> HIDE DEF inside, before
      <3> QED
        BY <1>1, <1>3, <2>2
    <2>4. Label(from, to) \in Headings /\ Label(from, to) < from
      BY <2>3
    <2>5. \A g \in Headings : g < from => g <= Label(from, to)
      BY <2>3
    <2>6. \A g \in Headings : ~(from <= g /\ g < to)
      BY <1>3
    <2>7. Label(from, to) \in Int
      BY <1>0, <2>4
    <2> QED
      BY <2>4, <2>5, <2>6, <2>7
  <1>4. CASE inside = {} /\ before = {}
    BY <1>1, <1>4 DEF NoHeading
  <1> QED
    BY <1>2, <1>3, <1>4

(* Labels of fragments that advance do not go back.                         *)
LEMMA LabelsAscend ==
    ASSUME ChunkingTypeOK, NEW a \in Nat, NEW b \in Nat, NEW c \in Nat, NEW d \in Nat,
           a < c, b < d, c <= b
    PROVE  Label(a, b) <= Label(c, d)
  <1> DEFINE p == Label(a, b)
             q == Label(c, d)
  <1>0. Headings \subseteq Nat
    BY ChunkingConstants DEF ChunkingTypeOK, Headings
  <1>1. /\ p \in Int
        /\ \/ /\ p \in Headings /\ a <= p /\ p < b
              /\ \A g \in Headings : a <= g /\ g < b => p <= g
           \/ /\ \A g \in Headings : ~(a <= g /\ g < b)
              /\ \/ /\ p \in Headings /\ p < a
                    /\ \A g \in Headings : g < a => g <= p
                 \/ p = NoHeading /\ \A g \in Headings : ~(g < a)
    BY LabelFacts
  <1>2. /\ q \in Int
        /\ \/ /\ q \in Headings /\ c <= q /\ q < d
              /\ \A g \in Headings : c <= g /\ g < d => q <= g
           \/ /\ \A g \in Headings : ~(c <= g /\ g < d)
              /\ \/ /\ q \in Headings /\ q < c
                    /\ \A g \in Headings : g < c => g <= q
                 \/ q = NoHeading /\ \A g \in Headings : ~(g < c)
    BY LabelFacts
  <1> HIDE DEF p, q
  <1>3. p <= q
    BY <1>0, <1>1, <1>2 DEF NoHeading
  <1> QED
    BY <1>3 DEF p, q

-----------------------------------------------------------------------------
CountOf == Len(fragments)

(* Where the loop stands after so many fragments.                           *)
LoopInv ==
    /\ fragments = <<>> => start = 0 /\ (cut <=> length = 0)
    /\ ~cut => start < length
    /\ fragments # <<>> /\ ~cut =>
          /\ fragments[CountOf].to < length /\ fragments[CountOf].from < start
          /\ start <= fragments[CountOf].to /\ start >= fragments[CountOf].to - Overlap
    /\ fragments # <<>> /\ cut => fragments[CountOf].to = length

(* What holds of each fragment, and of two that follow each other.          *)
FragmentsInv ==
    /\ \A i \in 1..CountOf :
          /\ fragments[i].from < fragments[i].to
          /\ fragments[i].to <= fragments[i].from + MaxTokens
          /\ fragments[i].label = Label(fragments[i].from, fragments[i].to)
    /\ fragments # <<>> => fragments[1].from = 0
    /\ \A i \in 1..(CountOf - 1) :
          /\ fragments[i].to < fragments[i + 1].to
          /\ fragments[i].from < fragments[i + 1].from
          /\ fragments[i + 1].from <= fragments[i].to
          /\ fragments[i + 1].from >= fragments[i].to - Overlap

(* A text without marks is cut with a constant stride.                      *)
PlainInv ==
    Unmarked =>
        /\ \A i \in 1..CountOf :
              /\ fragments[i].from = (i - 1) * Stride
              /\ fragments[i].to = Smaller((i - 1) * Stride + MaxTokens, length)
        /\ ~cut => start = CountOf * Stride
        /\ \A i \in 1..(CountOf - 1) : (i - 1) * Stride + MaxTokens < length

CInv == ChunkingTypeOK /\ LoopInv /\ FragmentsInv /\ PlainInv

LEMMA ChunkingInitInv == ChunkingInit => CInv
  <1> SUFFICES ASSUME ChunkingInit
               PROVE  CInv
    OBVIOUS
  <1>1. /\ length \in Nat /\ start = 0 /\ fragments = <<>> /\ cut = (length = 0)
        /\ CountOf = 0
    BY ChunkingConstants DEF ChunkingInit, CountOf
  <1>2. ChunkingTypeOK
    <2>1. cut \in BOOLEAN /\ start \in Nat /\ fragments \in Seq([from : Nat, to : Nat, label : Int])
      BY <1>1
    <2> QED
      BY <2>1 DEF ChunkingInit, ChunkingTypeOK
  <1>3. LoopInv
    <2>1. cut <=> length = 0
      BY <1>1
    <2> QED
      BY <1>1, <2>1 DEF LoopInv
  <1>4. FragmentsInv
    BY <1>1 DEF FragmentsInv
  <1>5. PlainInv
    <2>1. Stride \in Int
      BY ChunkingConstants DEF Stride
    <2>2. 0 * Stride = 0
      BY <2>1
    <2> QED
      BY <1>1, <2>2 DEF PlainInv
  <1> QED
    BY <1>2, <1>3, <1>4, <1>5 DEF CInv

LEMMA CutInv ==
    ASSUME CInv, CutFragment
    PROVE  CInv'
  <1> DEFINE n == CountOf
             e == End(start)
             f == [from |-> start, to |-> e, label |-> Label(start, e)]
  <1>0. /\ length \in Nat /\ MaxTokens \in Nat /\ Overlap \in Nat /\ Overlap < MaxTokens
        /\ start \in Nat /\ ~cut /\ start < length /\ n \in Nat
        /\ fragments \in Seq([from : Nat, to : Nat, label : Int])
    BY ChunkingConstants DEF CInv, ChunkingTypeOK, LoopInv, CutFragment, CountOf
  <1>1. /\ fragments' = Append(fragments, f)
        /\ cut' = (e >= length)
        /\ start' = (IF e >= length THEN start ELSE Larger(start + 1, e - Overlap))
        /\ length' = length /\ mark' = mark /\ opens' = opens
    BY DEF CutFragment, text
  <1>2. /\ e \in Nat /\ start < e /\ e <= start + MaxTokens /\ e <= length
        /\ e < length => e >= start + Overlap + 1
    BY <1>0, EndFacts DEF CInv
  <1>3. f \in [from : Nat, to : Nat, label : Int]
    <2>1. Label(start, e) \in Int
      BY <1>0, <1>2, LabelFacts DEF CInv
    <2> QED
      BY <1>0, <1>2, <2>1
  <1>4. /\ f.from = start /\ f.to = e /\ f.label = Label(start, e)
    OBVIOUS
  <1> HIDE DEF e, f
  <1>5. /\ CountOf' = n + 1 /\ fragments' # <<>> /\ fragments'[n + 1] = f
        /\ \A i \in 1..n : fragments'[i] = fragments[i]
        /\ fragments' \in Seq([from : Nat, to : Nat, label : Int])
        /\ fragments = <<>> <=> n = 0
    BY <1>0, <1>1, <1>3 DEF CountOf
  <1>6. cut' <=> e >= length
    BY <1>1
  <1>7. ~cut' => start' = e - Overlap
    BY <1>0, <1>1, <1>2, <1>6 DEF Larger
  <1>8. ChunkingTypeOK'
    <2>1. cut' \in BOOLEAN
      BY <1>1
    <2>2. start' \in Nat
      BY <1>0, <1>1, <1>2 DEF Larger
    <2> QED
      BY <1>1, <1>5, <2>1, <2>2 DEF CInv, ChunkingTypeOK
  <1>9. LoopInv'
    <2>1. fragments'[CountOf'] = f
      BY <1>5
    <2>2. CASE e >= length
      <3>1. cut' /\ e = length
        BY <1>0, <1>2, <1>6, <2>2
      <3> QED
        BY <1>1, <1>4, <1>5, <2>1, <3>1 DEF LoopInv
    <2>3. CASE ~(e >= length)
      <3>1. /\ ~cut' /\ e < length /\ start' = e - Overlap
            /\ start' \in Int /\ start < start' /\ start' <= e /\ start' >= e - Overlap
            /\ start' < length
        BY <1>0, <1>2, <1>6, <1>7, <2>3
      <3> QED
        BY <1>1, <1>4, <1>5, <2>1, <3>1 DEF LoopInv
    <2> QED
      BY <2>2, <2>3
  <1>10. FragmentsInv'
    <2>0. \A a, b : Label(a, b)' = Label(a, b)
      <3>1. Headings' = Headings
        BY <1>1 DEF Headings
      <3> QED
        BY <3>1 DEF Label
    <2>1. \A i \in 1..n : fragments[i] \in [from : Nat, to : Nat, label : Int]
      <3> DEFINE F == [from : Nat, to : Nat, label : Int]
      <3>1. fragments \in Seq(F) /\ n = Len(fragments)
        BY <1>0 DEF CountOf
      <3> HIDE DEF F, n
      <3>2. \A i \in 1..n : fragments[i] \in F
        BY <3>1
      <3> QED
        BY <3>2 DEF F
    <2>2. \A i \in 1..(n + 1) :
              /\ fragments'[i].from < fragments'[i].to
              /\ fragments'[i].to <= fragments'[i].from + MaxTokens
              /\ fragments'[i].label = Label(fragments'[i].from, fragments'[i].to)
      <3> SUFFICES ASSUME NEW i \in 1..(n + 1)
                   PROVE  /\ fragments'[i].from < fragments'[i].to
                          /\ fragments'[i].to <= fragments'[i].from + MaxTokens
                          /\ fragments'[i].label = Label(fragments'[i].from, fragments'[i].to)
        OBVIOUS
      <3>1. CASE i = n + 1
        BY <1>2, <1>4, <1>5, <3>1
      <3>2. CASE i # n + 1
        <4>1. i \in 1..n
          BY <1>0, <3>2
        <4> QED
          BY <1>5, <4>1 DEF CInv, FragmentsInv
      <3> QED
        BY <3>1, <3>2
    <2>3. fragments'[1].from = 0
      <3>1. CASE n = 0
        BY <1>4, <1>5, <3>1 DEF CInv, LoopInv
      <3>2. CASE n # 0
        BY <1>0, <1>5, <3>2 DEF CInv, FragmentsInv
      <3> QED
        BY <3>1, <3>2
    <2>4. \A i \in 1..n :
              /\ fragments'[i].to < fragments'[i + 1].to
              /\ fragments'[i].from < fragments'[i + 1].from
              /\ fragments'[i + 1].from <= fragments'[i].to
              /\ fragments'[i + 1].from >= fragments'[i].to - Overlap
      <3> SUFFICES ASSUME NEW i \in 1..n
                   PROVE  /\ fragments'[i].to < fragments'[i + 1].to
                          /\ fragments'[i].from < fragments'[i + 1].from
                          /\ fragments'[i + 1].from <= fragments'[i].to
                          /\ fragments'[i + 1].from >= fragments'[i].to - Overlap
        OBVIOUS
      <3>1. CASE i = n
        <4>0. fragments # <<>> /\ n \in 1..n
          BY <1>0, <1>5
        <4>1. /\ fragments[n].to < length /\ fragments[n].from < start
              /\ start <= fragments[n].to /\ start >= fragments[n].to - Overlap
          BY <1>0, <4>0 DEF CInv, LoopInv
        <4>4. fragments[n] \in [from : Nat, to : Nat, label : Int]
          BY <2>1, <4>0
        <4>2. fragments[n].to < e
          BY <1>0, <1>2, <4>1, <4>4
        <4>3. fragments'[i] = fragments[n] /\ fragments'[i + 1] = f
          BY <1>5, <3>1
        <4> QED
          BY <1>4, <4>1, <4>2, <4>3
      <3>2. CASE i # n
        <4>1. i \in 1..(n - 1) /\ i + 1 \in 1..n
          BY <1>0, <3>2
        <4> QED
          BY <1>5, <4>1 DEF CInv, FragmentsInv
      <3> QED
        BY <3>1, <3>2
    <2>5. (n + 1) - 1 = n
      BY <1>0
    <2> HIDE DEF n
    <2> QED
      BY <1>1, <1>5, <2>0, <2>2, <2>3, <2>4, <2>5 DEF FragmentsInv
  <1>11. PlainInv'
    <2> SUFFICES ASSUME Unmarked
                 PROVE  /\ \A i \in 1..(n + 1) :
                              /\ fragments'[i].from = (i - 1) * Stride
                              /\ fragments'[i].to = Smaller((i - 1) * Stride + MaxTokens, length)
                        /\ ~cut' => start' = (n + 1) * Stride
                        /\ \A i \in 1..n : (i - 1) * Stride + MaxTokens < length
      <3>1. Unmarked' <=> Unmarked
        BY <1>1 DEF Unmarked
      <3>2. (n + 1) - 1 = n
        BY <1>0
      <3> HIDE DEF n
      <3> QED
        BY <1>1, <1>5, <3>1, <3>2 DEF PlainInv
    <2>1. start = n * Stride
      BY <1>0 DEF CInv, PlainInv
    <2>2. e = Smaller(start + MaxTokens, length)
      BY <1>0, PlainEnd DEF CInv, e
    <2>3. ASSUME NEW i \in 1..(n + 1)
          PROVE  /\ fragments'[i].from = (i - 1) * Stride
                 /\ fragments'[i].to = Smaller((i - 1) * Stride + MaxTokens, length)
      <3>1. CASE i = n + 1
        <4>1. i - 1 = n
          BY <1>0, <3>1
        <4> QED
          BY <1>4, <1>5, <2>1, <2>2, <3>1, <4>1
      <3>2. CASE i # n + 1
        <4>1. i \in 1..n
          BY <1>0, <3>2
        <4> QED
          BY <1>5, <4>1 DEF CInv, PlainInv
      <3> QED
        BY <3>1, <3>2
    <2>4. ASSUME ~cut'
          PROVE  start' = (n + 1) * Stride
      <3>1. e < length /\ e = start + MaxTokens /\ start' = start + Stride
        BY <1>0, <1>2, <1>6, <1>7, <2>2, <2>4 DEF Smaller, Stride
      <3>2. Stride \in Int
        BY <1>0 DEF Stride
      <3>3. (n + 1) * Stride = n * Stride + Stride
        BY <1>0, <3>2, Distribute
      <3> QED
        BY <2>1, <3>1, <3>3
    <2>5. ASSUME NEW i \in 1..n
          PROVE  (i - 1) * Stride + MaxTokens < length
      <3>1. CASE i = n
        <4>0. fragments # <<>>
          BY <1>0, <1>5
        <4>1. fragments[n].to < length
          BY <1>0, <4>0 DEF CInv, LoopInv
        <4>2. fragments[n].to = Smaller((n - 1) * Stride + MaxTokens, length)
          BY <3>1 DEF CInv, PlainInv
        <4> QED
          BY <1>0, <3>1, <4>1, <4>2 DEF Smaller
      <3>2. CASE i # n
        <4>1. i \in 1..(n - 1)
          BY <1>0, <3>2
        <4> QED
          BY <4>1 DEF CInv, PlainInv
      <3> QED
        BY <3>1, <3>2
    <2> QED
      BY <2>3, <2>4, <2>5
  <1> QED
    BY <1>8, <1>9, <1>10, <1>11 DEF CInv

LEMMA ChunkingNextInv == CInv /\ [CutFragment]_chunkingVars => CInv'
  <1> SUFFICES ASSUME CInv, UNCHANGED chunkingVars
               PROVE  CInv'
    BY CutInv
  <1>1. /\ length' = length /\ mark' = mark /\ opens' = opens
        /\ start' = start /\ fragments' = fragments /\ cut' = cut
    BY DEF chunkingVars, text
  <1>2. CountOf' = CountOf /\ Unmarked' = Unmarked /\ ChunkingTypeOK' = ChunkingTypeOK
    BY <1>1 DEF CountOf, Unmarked, ChunkingTypeOK
  <1>3. Headings' = Headings
    BY <1>1 DEF Headings
  <1>4. \A a, b : Label(a, b)' = Label(a, b)
    BY <1>3 DEF Label
  <1>5. LoopInv' /\ PlainInv'
    BY <1>1, <1>2 DEF CInv, LoopInv, PlainInv
  <1>6. FragmentsInv'
    BY <1>1, <1>2, <1>4 DEF CInv, FragmentsInv
  <1> QED
    BY <1>2, <1>5, <1>6 DEF CInv

(* The invariant says more than the property of the index.                  *)
LEMMA CutPlainly == CInv => PlainTextIsCutPlainly
  <1> SUFFICES ASSUME CInv, cut, length > 0, Unmarked
               PROVE  [i \in 1..Len(fragments) |->
                          [from |-> fragments[i].from, to |-> fragments[i].to]] = PlainCut
    BY DEF PlainTextIsCutPlainly, Unmarked
  <1> DEFINE n == CountOf
             last == IF length <= MaxTokens THEN 0
                     ELSE (length - MaxTokens + Stride - 1) \div Stride
  <1>0. /\ length \in Nat /\ MaxTokens \in Nat /\ Overlap \in Nat /\ Overlap < MaxTokens
        /\ n \in Nat /\ n = Len(fragments) /\ n # 0 /\ fragments # <<>>
        /\ Stride \in Nat \ {0} /\ Stride <= MaxTokens
    BY ChunkingConstants DEF CInv, ChunkingTypeOK, LoopInv, CountOf, Stride
  <1>1. /\ \A i \in 1..n :
              /\ fragments[i].from = (i - 1) * Stride
              /\ fragments[i].to = Smaller((i - 1) * Stride + MaxTokens, length)
        /\ \A i \in 1..(n - 1) : (i - 1) * Stride + MaxTokens < length
        /\ fragments[n].to = length
    BY <1>0 DEF CInv, PlainInv, LoopInv
  <1> DEFINE y == (n - 1) * Stride
  <1>2. y \in Int /\ y >= length - MaxTokens
    <2>1. y \in Int
      BY <1>0, Distribute
    <2>2. length = Smaller(y + MaxTokens, length)
      BY <1>0, <1>1
    <2> HIDE DEF y
    <2> QED
      BY <1>0, <2>1, <2>2 DEF Smaller
  <1>3. last = n - 1
    <2>1. CASE length <= MaxTokens
      <3>1. n = 1
        <4> SUFFICES ASSUME n # 1
                     PROVE  FALSE
          OBVIOUS
        <4>1. 1 \in 1..(n - 1)
          BY <1>0
        <4>2. (1 - 1) * Stride = 0
          BY <1>0
        <4>3. (1 - 1) * Stride + MaxTokens < length
          BY <1>1, <4>1
        <4> QED
          BY <1>0, <2>1, <4>2, <4>3
      <3> QED
        BY <2>1, <3>1
    <2>2. CASE length > MaxTokens
      <3> DEFINE x == length - MaxTokens
                 k == n - 1
      <3>1. x \in Nat /\ x > 0 /\ k \in Nat /\ y = k * Stride /\ y >= x
        BY <1>0, <1>2, <2>2
      <3>2. k # 0
        <4>1. 0 * Stride = 0
          BY <1>0
        <4> HIDE DEF x, k, y
        <4> QED
          BY <3>1, <4>1
      <3>3. y - Stride < x
        <4>1. k \in 1..(n - 1)
          BY <1>0, <3>1, <3>2
        <4>2. (k - 1) * Stride + MaxTokens < length
          BY <1>1, <4>1
        <4>3. (k - 1) * Stride = y - Stride
          BY <1>0, <3>1, Distribute
        <4> QED
          BY <1>0, <1>2, <4>2, <4>3
      <3>4. (x + Stride - 1) \div Stride = k
        <4> HIDE DEF x, k, y
        <4> QED
          BY <1>0, <1>2, <3>1, <3>3, Ceiling
      <3>5. last = (x + Stride - 1) \div Stride
        BY <1>0, <2>2
      <3> QED
        BY <3>4, <3>5
    <2> QED
      BY <1>0, <2>1, <2>2
  <1>4. PlainCut = [i \in 1..(last + 1) |->
                       [from |-> (i - 1) * Stride,
                        to |-> Smaller((i - 1) * Stride + MaxTokens, length)]]
    BY DEF PlainCut
  <1>5. last + 1 = n
    BY <1>0, <1>3
  <1> HIDE DEF last, n
  <1> QED
    BY <1>0, <1>1, <1>4, <1>5

LEMMA CoverText == CInv => FragmentsCoverText
  <1> SUFFICES ASSUME CInv
               PROVE  FragmentsCoverText
    OBVIOUS
  <1>1. EveryTokenIsIndexed
    BY DEF CInv, ChunkingTypeOK, LoopInv, FragmentsInv, EveryTokenIsIndexed, CountOf
  <1>2. FragmentsAdvance
    BY DEF CInv, FragmentsInv, FragmentsAdvance, CountOf
  <1>3. LabelsFollowText
    <2> SUFFICES ASSUME NEW i \in 1..(Len(fragments) - 1)
                 PROVE  fragments[i].label <= fragments[i + 1].label
      BY DEF LabelsFollowText
    <2>0. fragments \in Seq([from : Nat, to : Nat, label : Int]) /\ Len(fragments) \in Nat
      BY DEF CInv, ChunkingTypeOK
    <2>a. i \in 1..Len(fragments) /\ i + 1 \in 1..Len(fragments)
      BY <2>0
    <2>b. \A j \in 1..Len(fragments) : fragments[j] \in [from : Nat, to : Nat, label : Int]
      <3> DEFINE F == [from : Nat, to : Nat, label : Int]
      <3>1. fragments \in Seq(F)
        BY <2>0
      <3> HIDE DEF F
      <3>2. \A j \in 1..Len(fragments) : fragments[j] \in F
        BY <3>1
      <3> QED
        BY <3>2 DEF F
    <2>1. /\ i \in 1..Len(fragments) /\ i + 1 \in 1..Len(fragments)
          /\ fragments[i] \in [from : Nat, to : Nat, label : Int]
          /\ fragments[i + 1] \in [from : Nat, to : Nat, label : Int]
      BY <2>a, <2>b
    <2>2. /\ fragments[i].label = Label(fragments[i].from, fragments[i].to)
          /\ fragments[i + 1].label = Label(fragments[i + 1].from, fragments[i + 1].to)
          /\ fragments[i].to < fragments[i + 1].to
          /\ fragments[i].from < fragments[i + 1].from
          /\ fragments[i + 1].from <= fragments[i].to
      BY <2>1 DEF CInv, FragmentsInv, CountOf
    <2> DEFINE a == fragments[i].from
               b == fragments[i].to
               c == fragments[i + 1].from
               d == fragments[i + 1].to
    <2>3. a \in Nat /\ b \in Nat /\ c \in Nat /\ d \in Nat /\ a < c /\ b < d /\ c <= b
      BY <2>1, <2>2
    <2>4. Label(a, b) <= Label(c, d)
      <3> HIDE DEF a, b, c, d
      <3> QED
        BY <2>3, LabelsAscend DEF CInv
    <2> QED
      BY <2>2, <2>4
  <1>4. PlainTextIsCutPlainly
    BY CutPlainly
  <1> QED
    BY <1>1, <1>2, <1>3, <1>4 DEF FragmentsCoverText

(* Whatever the limits of the embedder, the overlap and the marks of a      *)
(* text: its fragments cover it, advance, fit the window, carry labels in   *)
(* the order of the text, and are those of the plain cut where it has no    *)
(* marks (structural_chunk_text).                                           *)
THEOREM TextIsCovered == ChunkingSpec => []FragmentsCoverText
  <1>1. ChunkingSpec => []CInv
    BY ChunkingInitInv, ChunkingNextInv, PTL DEF ChunkingSpec
  <1> QED
    BY <1>1, CoverText, PTL

-----------------------------------------------------------------------------
(* TabularRules: the contract of a row and the readers of projection *)

(* A record that passes a contract passes each of its fields.              *)
LEMMA EveryFieldPasses ==
  ASSUME NEW r, NEW fields, Len(fields) \in Nat, RecordVerdict(r, fields) = "OK"
  PROVE  /\ \A i \in 1..Len(fields) : Verdict(r[fields[i].name], fields[i]) = "OK"
         /\ fields = ContractFields => ~SignedTooEarly(r)
  <1> DEFINE failing == {i \in 1..Len(fields) : Verdict(r[fields[i].name], fields[i]) # "OK"}
             first == CHOOSE i \in failing : \A j \in failing : i <= j
  <1>1. failing = {}
    <2> SUFFICES ASSUME failing # {}
                 PROVE  FALSE
      OBVIOUS
    <2>1. \E i \in failing : \A j \in failing : i <= j
      <3>1. failing \in SUBSET Nat
        OBVIOUS
      <3> HIDE DEF failing
      <3> QED
        BY <3>1, LeastExists
    <2>2. first \in failing
      BY <2>1
    <2>3. RecordVerdict(r, fields) = Verdict(r[fields[first].name], fields[first])
      BY DEF RecordVerdict
    <2> QED
      BY <2>2, <2>3
  <1>2. fields = ContractFields => ~SignedTooEarly(r)
    <2> SUFFICES ASSUME fields = ContractFields, SignedTooEarly(r)
                 PROVE  FALSE
      OBVIOUS
    <2>1. RecordVerdict(r, fields) = "DATE_ORDER_VIOLATION"
      BY <1>1 DEF RecordVerdict
    <2> QED
      BY <2>1
  <1> QED
    BY <1>1, <1>2

(* A row that conforms passes every contract that it has a value of, and   *)
(* has one of a contract.                                                  *)
LEMMA EveryContractPasses ==
  ASSUME NEW f \in Families, NEW r, Conforms(f, r)
  PROVE  /\ \A i \in 1..Len(ContractsOf(f)) :
               Len(ContractsOf(f)) = 1 \/ Present(r, ContractsOf(f)[i])
                  => RecordVerdict(r, ContractsOf(f)[i]) = "OK"
         /\ (\A i \in 1..Len(ContractsOf(f)) : ~Present(r, ContractsOf(f)[i]))
               => RecordVerdict(r, ContractsOf(f)[1]) = "OK"
  <1> DEFINE contracts == ContractsOf(f)
             failing == {i \in 1..Len(contracts) :
                            /\ Len(contracts) = 1 \/ Present(r, contracts[i])
                            /\ RecordVerdict(r, contracts[i]) # "OK"}
             nothing == \A i \in 1..Len(contracts) : ~Present(r, contracts[i])
             first == CHOOSE i \in failing : \A j \in failing : i <= j
  <1>0. Len(contracts) \in Nat
    BY DEF ContractsOf, Families
  <1>1. RowVerdict(f, r) = "OK"
    BY DEF Conforms
  <1>2. nothing => RecordVerdict(r, contracts[1]) = "OK"
    BY <1>1 DEF RowVerdict
  <1>3. ~nothing => failing = {}
    <2> SUFFICES ASSUME ~nothing, failing # {}
                 PROVE  FALSE
      OBVIOUS
    <2>1. \E i \in failing : \A j \in failing : i <= j
      <3>1. failing \in SUBSET Nat
        BY <1>0
      <3> HIDE DEF failing
      <3> QED
        BY <3>1, LeastExists
    <2>2. first \in failing
      BY <2>1
    <2>3. RowVerdict(f, r) = RecordVerdict(r, contracts[first])
      BY DEF RowVerdict
    <2> QED
      BY <2>2, <2>3, <1>1
  <1>4. ASSUME NEW i \in 1..Len(contracts), Len(contracts) = 1 \/ Present(r, contracts[i])
        PROVE  RecordVerdict(r, contracts[i]) = "OK"
    <2>1. CASE nothing
      <3>1. i = 1
        BY <1>0, <1>4, <2>1
      <3> QED
        BY <3>1, <2>1, <1>2
    <2>2. CASE ~nothing
      BY <2>2, <1>3, <1>4
    <2> QED
      BY <2>1, <2>2
  <1> QED
    BY <1>2, <1>4

(* A portable row is a row of the family in portable forms.                *)
PortableRow(f, r) == r \in [Columns(f) -> Cells] /\ \A n \in Columns(f) : r[n] \in Portable

LEMMA ColumnsHave ==
  ASSUME NEW f \in Families
  PROVE  /\ NamesOf(MatterFields) \subseteq Columns(f)
         /\ f \in {"COMPLIANCE", "INTERNAL_AUDIT"} => NamesOf(IncidentFields) \subseteq Columns(f)
         /\ f = "CONTRACTS_DOCUMENTS" => NamesOf(ContractFields) \subseteq Columns(f)
         /\ f = "LITIGATION" => NamesOf(LitigationFields) \cup {"ID_Contrato"} \subseteq Columns(f)
         /\ f = "COMPLIANCE" => NamesOf(ComplianceFields) \cup {"ID_Contrato"} \subseteq Columns(f)
         /\ f = "INTERNAL_AUDIT" => "ID_Obligacion" \in Columns(f)
  BY DEF Columns, Families

(* The fields of the contracts.                                            *)
LEMMA ContractFieldsAre ==
  /\ Len(ContractFields) = 5
  /\ ContractFields[1] = Field("ID_Contrato", "TEXT", TRUE)
  /\ ContractFields[2] = Field("Fecha_Solicitud", "DATE", TRUE)
  /\ ContractFields[3] = Field("Fecha_Firma", "DATE", FALSE)
  /\ ContractFields[4] = Field("Fecha_Vencimiento", "DATE", TRUE)
  /\ ContractFields[5] = Field("Estado_Revision", "CATALOG", TRUE)
  /\ NamesOf(ContractFields) =
        {"ID_Contrato", "Fecha_Solicitud", "Fecha_Firma", "Fecha_Vencimiento", "Estado_Revision"}
  <1>1. /\ Len(ContractFields) = 5
        /\ ContractFields[1] = Field("ID_Contrato", "TEXT", TRUE)
        /\ ContractFields[2] = Field("Fecha_Solicitud", "DATE", TRUE)
        /\ ContractFields[3] = Field("Fecha_Firma", "DATE", FALSE)
        /\ ContractFields[4] = Field("Fecha_Vencimiento", "DATE", TRUE)
        /\ ContractFields[5] = Field("Estado_Revision", "CATALOG", TRUE)
    BY DEF ContractFields
  <1>2. NamesOf(ContractFields) = {ContractFields[i].name : i \in 1..5}
    BY <1>1 DEF NamesOf
  <1>3. /\ ContractFields[1].name = "ID_Contrato"
        /\ ContractFields[2].name = "Fecha_Solicitud"
        /\ ContractFields[3].name = "Fecha_Firma"
        /\ ContractFields[4].name = "Fecha_Vencimiento"
        /\ ContractFields[5].name = "Estado_Revision"
    BY <1>1 DEF Field
  <1>4. 1..5 = {1, 2, 3, 4, 5}
    OBVIOUS
  <1> QED
    BY <1>1, <1>2, <1>3, <1>4

LEMMA LitigationFieldsAre ==
  /\ Len(LitigationFields) = 6
  /\ LitigationFields[1] = Field("ID_Litigio", "TEXT", TRUE)
  /\ LitigationFields[2] = Field("Fecha_Apertura", "DATE", TRUE)
  /\ LitigationFields[3] = Field("Estado", "TEXT", TRUE)
  /\ LitigationFields[4] = Field("Nivel_Severidad", "CATALOG", TRUE)
  /\ LitigationFields[5] = Field("Monto_Reclamado", "DECIMAL", FALSE)
  /\ LitigationFields[6] = Field("Estimacion_Interna", "DECIMAL", FALSE)
  /\ NamesOf(LitigationFields) =
        {"ID_Litigio", "Fecha_Apertura", "Estado", "Nivel_Severidad", "Monto_Reclamado",
         "Estimacion_Interna"}
  <1>1. /\ Len(LitigationFields) = 6
        /\ LitigationFields[1] = Field("ID_Litigio", "TEXT", TRUE)
        /\ LitigationFields[2] = Field("Fecha_Apertura", "DATE", TRUE)
        /\ LitigationFields[3] = Field("Estado", "TEXT", TRUE)
        /\ LitigationFields[4] = Field("Nivel_Severidad", "CATALOG", TRUE)
        /\ LitigationFields[5] = Field("Monto_Reclamado", "DECIMAL", FALSE)
        /\ LitigationFields[6] = Field("Estimacion_Interna", "DECIMAL", FALSE)
    BY DEF LitigationFields
  <1>2. NamesOf(LitigationFields) = {LitigationFields[i].name : i \in 1..6}
    BY <1>1 DEF NamesOf
  <1>3. /\ LitigationFields[1].name = "ID_Litigio"
        /\ LitigationFields[2].name = "Fecha_Apertura"
        /\ LitigationFields[3].name = "Estado"
        /\ LitigationFields[4].name = "Nivel_Severidad"
        /\ LitigationFields[5].name = "Monto_Reclamado"
        /\ LitigationFields[6].name = "Estimacion_Interna"
    BY <1>1 DEF Field
  <1>4. 1..6 = {1, 2, 3, 4, 5, 6}
    OBVIOUS
  <1>5. NamesOf(LitigationFields) =
           {"ID_Litigio", "Fecha_Apertura", "Estado", "Nivel_Severidad", "Monto_Reclamado",
            "Estimacion_Interna"}
    BY <1>2, <1>3, <1>4
  <1> QED
    BY <1>1, <1>5

LEMMA ComplianceFieldsAre ==
  /\ Len(ComplianceFields) = 3
  /\ ComplianceFields[1] = Field("ID_Obligacion", "TEXT", TRUE)
  /\ ComplianceFields[2] = Field("Fecha_Limite", "DATE", TRUE)
  /\ ComplianceFields[3] = Field("Evidencia_Cumplimiento", "TEXT", FALSE)
  /\ NamesOf(ComplianceFields) = {"ID_Obligacion", "Fecha_Limite", "Evidencia_Cumplimiento"}
  <1>1. /\ Len(ComplianceFields) = 3
        /\ ComplianceFields[1] = Field("ID_Obligacion", "TEXT", TRUE)
        /\ ComplianceFields[2] = Field("Fecha_Limite", "DATE", TRUE)
        /\ ComplianceFields[3] = Field("Evidencia_Cumplimiento", "TEXT", FALSE)
    BY DEF ComplianceFields
  <1>2. NamesOf(ComplianceFields) = {ComplianceFields[i].name : i \in 1..3}
    BY <1>1 DEF NamesOf
  <1>3. /\ ComplianceFields[1].name = "ID_Obligacion"
        /\ ComplianceFields[2].name = "Fecha_Limite"
        /\ ComplianceFields[3].name = "Evidencia_Cumplimiento"
    BY <1>1 DEF Field
  <1>4. 1..3 = {1, 2, 3}
    OBVIOUS
  <1> QED
    BY <1>1, <1>2, <1>3, <1>4

LEMMA IncidentFieldsAre ==
  /\ Len(IncidentFields) = 4
  /\ IncidentFields[1] = Field("ID_Incidente", "TEXT", TRUE)
  /\ IncidentFields[2] = Field("Fecha_Evento", "DATE", TRUE)
  /\ IncidentFields[3] = Field("Area", "TEXT", TRUE)
  /\ IncidentFields[4] = Field("Nivel_Severidad", "CATALOG", TRUE)
  /\ NamesOf(IncidentFields) = {"ID_Incidente", "Fecha_Evento", "Area", "Nivel_Severidad"}
  <1>1. /\ Len(IncidentFields) = 4
        /\ IncidentFields[1] = Field("ID_Incidente", "TEXT", TRUE)
        /\ IncidentFields[2] = Field("Fecha_Evento", "DATE", TRUE)
        /\ IncidentFields[3] = Field("Area", "TEXT", TRUE)
        /\ IncidentFields[4] = Field("Nivel_Severidad", "CATALOG", TRUE)
    BY DEF IncidentFields
  <1>2. NamesOf(IncidentFields) = {IncidentFields[i].name : i \in 1..4}
    BY <1>1 DEF NamesOf
  <1>3. /\ IncidentFields[1].name = "ID_Incidente"
        /\ IncidentFields[2].name = "Fecha_Evento"
        /\ IncidentFields[3].name = "Area"
        /\ IncidentFields[4].name = "Nivel_Severidad"
    BY <1>1 DEF Field
  <1>4. 1..4 = {1, 2, 3, 4}
    OBVIOUS
  <1> QED
    BY <1>1, <1>2, <1>3, <1>4

LEMMA MatterFieldsAre ==
  /\ Len(MatterFields) = 4
  /\ MatterFields[1] = Field("ID_Asunto", "TEXT", TRUE)
  /\ MatterFields[2] = Field("Tipo_Asunto", "CATALOG", TRUE)
  /\ MatterFields[3] = Field("Estado", "TEXT", TRUE)
  /\ MatterFields[4] = Field("Fecha", "DATE", TRUE)
  /\ NamesOf(MatterFields) = {"ID_Asunto", "Tipo_Asunto", "Estado", "Fecha"}
  <1>1. /\ Len(MatterFields) = 4
        /\ MatterFields[1] = Field("ID_Asunto", "TEXT", TRUE)
        /\ MatterFields[2] = Field("Tipo_Asunto", "CATALOG", TRUE)
        /\ MatterFields[3] = Field("Estado", "TEXT", TRUE)
        /\ MatterFields[4] = Field("Fecha", "DATE", TRUE)
    BY DEF MatterFields
  <1>2. NamesOf(MatterFields) = {MatterFields[i].name : i \in 1..4}
    BY <1>1 DEF NamesOf
  <1>3. /\ MatterFields[1].name = "ID_Asunto"
        /\ MatterFields[2].name = "Tipo_Asunto"
        /\ MatterFields[3].name = "Estado"
        /\ MatterFields[4].name = "Fecha"
    BY <1>1 DEF Field
  <1>4. 1..4 = {1, 2, 3, 4}
    OBVIOUS
  <1> QED
    BY <1>1, <1>2, <1>3, <1>4

(* The verdict of one field.                                               *)
LEMMA FieldPasses ==
  ASSUME NEW r, NEW fields, Len(fields) \in Nat, RecordVerdict(r, fields) = "OK",
         NEW i \in 1..Len(fields), NEW n, NEW type, NEW required,
         fields[i] = Field(n, type, required)
  PROVE  Verdict(r[n], Field(n, type, required)) = "OK"
  <1>1. Verdict(r[fields[i].name], fields[i]) = "OK"
    BY EveryFieldPasses
  <1>2. fields[i].name = n
    BY DEF Field
  <1> QED
    BY <1>1, <1>2

(* What projection makes of a cell of the column that passes.              *)
Reads(v, field) ==
    /\ field.required => v \notin Lacking
    /\ field.type = "TEXT" => (IF field.required THEN AsText(v) ELSE AsOptionalText(v))
    /\ field.type = "DATE" => (IF field.required THEN AsDate(v) ELSE AsOptionalDate(v))
    /\ field.type = "CATALOG" => (field.required => v = "member" /\ AsText(v))
    /\ field.type = "DECIMAL" => AsOptionalDecimal(v) /\ v # "negative"

LEMMA PortableReads ==
  ASSUME NEW v \in Portable, NEW field, Verdict(v, field) = "OK"
  PROVE  Reads(v, field)
  <1> USE DEF Portable, Lacking, Verdict, MayLack, PresentVerdict
  <1>1. field.required => v \notin Lacking
    OBVIOUS
  <1>2. field.type = "TEXT" => (IF field.required THEN AsText(v) ELSE AsOptionalText(v))
    BY <1>1 DEF AsText, AsOptionalText, Strings, Cells, Texts, Dates, Numbers
  <1>3. field.type = "DATE" => (IF field.required THEN AsDate(v) ELSE AsOptionalDate(v))
    BY <1>1 DEF AsDate, AsOptionalDate, Dates
  <1>4. field.type = "CATALOG" => (field.required => v = "member" /\ AsText(v))
    BY <1>1 DEF AsText, Strings, Cells, Texts
  <1>5. field.type = "DECIMAL" => AsOptionalDecimal(v) /\ v # "negative"
    BY DEF AsOptionalDecimal, Numbers
  <1> QED
    BY <1>1, <1>2, <1>3, <1>4, <1>5 DEF Reads

LEMMA FieldsRead ==
  ASSUME NEW r, NEW fields, Len(fields) \in Nat, RecordVerdict(r, fields) = "OK",
         \A n \in NamesOf(fields) : r[n] \in Portable
  PROVE  \A i \in 1..Len(fields) : Reads(r[fields[i].name], fields[i])
  BY EveryFieldPasses, PortableReads DEF NamesOf

(* The second reader takes dates for dates and other portable forms as they are. *)
LEMMA SecondReader ==
  /\ \A n \in DateNames : \A v \in Portable : AsOptionalDate(v) => InBusiness(n, v)
  /\ \A n : \A v \in Portable : n \notin DateNames \cup AmountNames => InBusiness(n, v)
  <1>1. ASSUME NEW n \in DateNames, NEW v \in Portable, AsOptionalDate(v)
        PROVE  InBusiness(n, v)
    BY <1>1 DEF InBusiness, Portable, AsDate, AsOptionalDate, Strings, Cells, Texts, Dates, Numbers,
                Lacking,
                DateNames, AmountNames
  <1>2. ASSUME NEW n, NEW v \in Portable, n \notin DateNames \cup AmountNames
        PROVE  InBusiness(n, v)
    BY <1>2 DEF InBusiness, Portable, AsText, Strings, Cells, Texts, Dates, Numbers, Lacking
  <1> QED
    BY <1>1, <1>2

(* A portable record that passes its contract is represented.              *)
LEMMA ContractReads ==
  ASSUME NEW r, RecordVerdict(r, ContractFields) = "OK",
         \A n \in NamesOf(ContractFields) : r[n] \in Portable
  PROVE  Incorporates(r, "CONTRATO")
  <1>1. \A i \in 1..Len(ContractFields) : Reads(r[ContractFields[i].name], ContractFields[i])
    <2>1. Len(ContractFields) \in Nat /\ \A n \in NamesOf(ContractFields) : r[n] \in Portable
      BY ContractFieldsAre
    <2> QED
      BY <2>1, FieldsRead
  <1>2. /\ AsText(r["ID_Contrato"]) /\ r["ID_Contrato"] \notin Lacking
        /\ AsDate(r["Fecha_Solicitud"]) /\ r["Fecha_Solicitud"] \notin Lacking
        /\ AsOptionalDate(r["Fecha_Firma"])
        /\ AsDate(r["Fecha_Vencimiento"]) /\ r["Fecha_Vencimiento"] \notin Lacking
        /\ r["Estado_Revision"] = "member"
        /\ AsText(r["Estado_Revision"]) /\ r["Estado_Revision"] \notin Lacking
    BY <1>1, ContractFieldsAre DEF Reads, Field
  <1>3. /\ InBusiness("ID_Contrato", r["ID_Contrato"])
        /\ InBusiness("Fecha_Solicitud", r["Fecha_Solicitud"])
        /\ InBusiness("Fecha_Firma", r["Fecha_Firma"])
        /\ InBusiness("Fecha_Vencimiento", r["Fecha_Vencimiento"])
        /\ InBusiness("Estado_Revision", r["Estado_Revision"])
    BY <1>2, ContractFieldsAre, SecondReader DEF AsOptionalDate, DateNames, AmountNames
  <1>4. ~SignedTooEarly(r)
    BY EveryFieldPasses, ContractFieldsAre
  <1> QED
    BY <1>2, <1>3, <1>4 DEF Incorporates, Read

LEMMA LitigationReads ==
  ASSUME NEW r, RecordVerdict(r, LitigationFields) = "OK",
         \A n \in NamesOf(LitigationFields) \cup {"ID_Contrato"} : r[n] \in Portable
  PROVE  Incorporates(r, "LITIGIO")
  <1>1. \A i \in 1..Len(LitigationFields) : Reads(r[LitigationFields[i].name], LitigationFields[i])
    <2>1. Len(LitigationFields) \in Nat /\ \A n \in NamesOf(LitigationFields) : r[n] \in Portable
      BY LitigationFieldsAre
    <2> QED
      BY <2>1, FieldsRead
  <1>2. /\ AsText(r["ID_Litigio"]) /\ r["ID_Litigio"] \notin Lacking
        /\ AsDate(r["Fecha_Apertura"]) /\ r["Fecha_Apertura"] \notin Lacking
        /\ AsText(r["Estado"]) /\ r["Estado"] \notin Lacking
        /\ r["Nivel_Severidad"] = "member"
        /\ AsText(r["Nivel_Severidad"]) /\ r["Nivel_Severidad"] \notin Lacking
        /\ AsOptionalDecimal(r["Monto_Reclamado"]) /\ r["Monto_Reclamado"] # "negative"
        /\ AsOptionalDecimal(r["Estimacion_Interna"]) /\ r["Estimacion_Interna"] # "negative"
    BY <1>1, LitigationFieldsAre DEF Reads, Field
  <1>3. /\ InBusiness("ID_Litigio", r["ID_Litigio"])
        /\ InBusiness("Fecha_Apertura", r["Fecha_Apertura"])
        /\ InBusiness("Estado", r["Estado"])
        /\ InBusiness("Nivel_Severidad", r["Nivel_Severidad"])
    BY <1>2, LitigationFieldsAre, SecondReader DEF AsOptionalDate, DateNames, AmountNames
  <1>4. AsOptionalText(r["ID_Contrato"])
    BY DEF Portable, AsOptionalText, AsText, Strings, Cells, Texts, Dates, Numbers, Lacking
  <1> QED
    BY <1>2, <1>3, <1>4 DEF Incorporates, Read, AmountNames

LEMMA ComplianceReads ==
  ASSUME NEW r, RecordVerdict(r, ComplianceFields) = "OK",
         \A n \in NamesOf(ComplianceFields) \cup {"ID_Contrato"} : r[n] \in Portable
  PROVE  Incorporates(r, "OBLIGACION")
  <1>1. \A i \in 1..Len(ComplianceFields) : Reads(r[ComplianceFields[i].name], ComplianceFields[i])
    <2>1. Len(ComplianceFields) \in Nat /\ \A n \in NamesOf(ComplianceFields) : r[n] \in Portable
      BY ComplianceFieldsAre
    <2> QED
      BY <2>1, FieldsRead
  <1>2. /\ AsText(r["ID_Obligacion"]) /\ r["ID_Obligacion"] \notin Lacking
        /\ AsDate(r["Fecha_Limite"]) /\ r["Fecha_Limite"] \notin Lacking
        /\ AsOptionalText(r["Evidencia_Cumplimiento"])
    BY <1>1, ComplianceFieldsAre DEF Reads, Field
  <1>3. /\ InBusiness("ID_Obligacion", r["ID_Obligacion"])
        /\ InBusiness("Fecha_Limite", r["Fecha_Limite"])
        /\ InBusiness("Evidencia_Cumplimiento", r["Evidencia_Cumplimiento"])
    BY <1>2, ComplianceFieldsAre, SecondReader DEF AsOptionalDate, DateNames, AmountNames
  <1>4. AsOptionalText(r["ID_Contrato"])
    BY DEF Portable, AsOptionalText, AsText, Strings, Cells, Texts, Dates, Numbers, Lacking
  <1> QED
    BY <1>2, <1>3, <1>4 DEF Incorporates, Read

LEMMA IncidentReads ==
  ASSUME NEW r, RecordVerdict(r, IncidentFields) = "OK",
         \A n \in NamesOf(IncidentFields) \cup {"ID_Obligacion"} : r[n] \in Portable
  PROVE  Incorporates(r, "INCIDENTE") /\ Complete(r, IncidentFields)
  <1>1. \A i \in 1..Len(IncidentFields) : Reads(r[IncidentFields[i].name], IncidentFields[i])
    <2>1. Len(IncidentFields) \in Nat /\ \A n \in NamesOf(IncidentFields) : r[n] \in Portable
      BY IncidentFieldsAre
    <2> QED
      BY <2>1, FieldsRead
  <1>2. /\ AsText(r["ID_Incidente"]) /\ r["ID_Incidente"] \notin Lacking
        /\ AsDate(r["Fecha_Evento"]) /\ r["Fecha_Evento"] \notin Lacking
        /\ AsText(r["Area"]) /\ r["Area"] \notin Lacking
        /\ r["Nivel_Severidad"] = "member"
        /\ AsText(r["Nivel_Severidad"]) /\ r["Nivel_Severidad"] \notin Lacking
    BY <1>1, IncidentFieldsAre DEF Reads, Field
  <1>3. /\ InBusiness("ID_Incidente", r["ID_Incidente"])
        /\ InBusiness("Fecha_Evento", r["Fecha_Evento"])
        /\ InBusiness("Area", r["Area"])
        /\ InBusiness("Nivel_Severidad", r["Nivel_Severidad"])
    BY <1>2, IncidentFieldsAre, SecondReader DEF AsOptionalDate, DateNames, AmountNames
  <1>4. AsOptionalText(r["ID_Obligacion"])
    BY DEF Portable, AsOptionalText, AsText, Strings, Cells, Texts, Dates, Numbers, Lacking
  <1>5. Complete(r, IncidentFields)
    BY <1>2, IncidentFieldsAre DEF Complete
  <1> QED
    BY <1>2, <1>3, <1>4, <1>5 DEF Incorporates, Read

LEMMA MatterReads ==
  ASSUME NEW r, RecordVerdict(r, MatterFields) = "OK",
         \A n \in NamesOf(MatterFields) : r[n] \in Portable
  PROVE  Incorporates(r, "ASUNTO") /\ Complete(r, MatterFields)
  <1>1. \A i \in 1..Len(MatterFields) : Reads(r[MatterFields[i].name], MatterFields[i])
    <2>1. Len(MatterFields) \in Nat /\ \A n \in NamesOf(MatterFields) : r[n] \in Portable
      BY MatterFieldsAre
    <2> QED
      BY <2>1, FieldsRead
  <1>2. /\ AsText(r["ID_Asunto"]) /\ r["ID_Asunto"] \notin Lacking
        /\ r["Tipo_Asunto"] = "member"
        /\ AsText(r["Tipo_Asunto"]) /\ r["Tipo_Asunto"] \notin Lacking
        /\ AsText(r["Estado"]) /\ r["Estado"] \notin Lacking
        /\ AsDate(r["Fecha"]) /\ r["Fecha"] \notin Lacking
    BY <1>1, MatterFieldsAre DEF Reads, Field
  <1>3. /\ InBusiness("ID_Asunto", r["ID_Asunto"])
        /\ InBusiness("Tipo_Asunto", r["Tipo_Asunto"])
        /\ InBusiness("Estado", r["Estado"])
        /\ InBusiness("Fecha", r["Fecha"])
    BY <1>2, MatterFieldsAre, SecondReader DEF AsOptionalDate, DateNames, AmountNames
  <1>4. Complete(r, MatterFields)
    BY <1>2, MatterFieldsAre DEF Complete
  <1> QED
    BY <1>2, <1>3, <1>4 DEF Incorporates, Read

(* A portable row that conforms, as something else than a row of nothing.  *)
LEMMA PortableRowsFit ==
  ASSUME NEW f \in Families, NEW r, \A n \in Columns(f) : r[n] \in Portable,
         Conforms(f, r), ExtrasFit(f, r)
  PROVE  Incorporated(f, r) /\ Targets(f, r) # {}
  <1>1. Complete(r, MatterFields) => Incorporates(r, "ASUNTO")
    <2>1. NamesOf(MatterFields) \subseteq Columns(f)
      BY ColumnsHave
    <2>2. Complete(r, MatterFields) => RecordVerdict(r, MatterFields) = "OK"
      BY <2>1 DEF ExtrasFit
    <2> QED
      BY <2>1, <2>2, MatterReads
  <1>2. ASSUME f \in {"COMPLIANCE", "INTERNAL_AUDIT"}, Complete(r, IncidentFields)
        PROVE  Incorporates(r, "INCIDENTE")
    <2>1. NamesOf(IncidentFields) \cup {"ID_Obligacion"} \subseteq Columns(f)
      BY <1>2, ColumnsHave, ComplianceFieldsAre
    <2>2. RecordVerdict(r, IncidentFields) = "OK"
      BY <1>2, <2>1 DEF ExtrasFit
    <2> QED
      BY <2>1, <2>2, IncidentReads
  <1>3. f # "INTERNAL_AUDIT" => RecordVerdict(r, ContractsOf(f)[1]) = "OK"
    <2>1. f # "INTERNAL_AUDIT" => Len(ContractsOf(f)) = 1
      BY DEF Families, ContractsOf
    <2> QED
      BY <2>1, EveryContractPasses
  <1>4. CASE f = "CONTRACTS_DOCUMENTS"
    <2>1. RecordVerdict(r, ContractFields) = "OK"
      BY <1>3, <1>4 DEF ContractsOf
    <2>2. NamesOf(ContractFields) \subseteq Columns(f)
      BY <1>4, ColumnsHave
    <2>3. Incorporates(r, "CONTRATO")
      BY <2>1, <2>2, ContractReads
    <2> QED
      BY <1>1, <1>4, <2>3 DEF Targets, Incorporated
  <1>5. CASE f = "LITIGATION"
    <2>1. RecordVerdict(r, LitigationFields) = "OK"
      BY <1>3, <1>5 DEF ContractsOf
    <2>2. NamesOf(LitigationFields) \cup {"ID_Contrato"} \subseteq Columns(f)
      BY <1>5, ColumnsHave
    <2>3. Incorporates(r, "LITIGIO")
      BY <2>1, <2>2, LitigationReads
    <2> QED
      BY <1>1, <1>5, <2>3 DEF Targets, Incorporated
  <1>6. CASE f = "COMPLIANCE"
    <2>1. RecordVerdict(r, ComplianceFields) = "OK"
      BY <1>3, <1>6 DEF ContractsOf
    <2>2. NamesOf(ComplianceFields) \cup {"ID_Contrato"} \subseteq Columns(f)
      BY <1>6, ColumnsHave
    <2>3. Incorporates(r, "OBLIGACION")
      BY <2>1, <2>2, ComplianceReads
    <2> QED
      BY <1>1, <1>2, <1>6, <2>3 DEF Targets, Incorporated
  <1>7. CASE f = "INTERNAL_AUDIT"
    <2>1. /\ Len(ContractsOf(f)) = 2
          /\ ContractsOf(f)[1] = IncidentFields /\ ContractsOf(f)[2] = MatterFields
      BY <1>7 DEF ContractsOf
    <2>2. /\ NamesOf(IncidentFields) \cup {"ID_Obligacion"} \subseteq Columns(f)
          /\ NamesOf(MatterFields) \subseteq Columns(f)
      BY <1>7, ColumnsHave
    <2>3. /\ RecordVerdict(r, IncidentFields) = "OK" => Complete(r, IncidentFields)
          /\ RecordVerdict(r, MatterFields) = "OK" => Complete(r, MatterFields)
      BY <2>2, IncidentReads, MatterReads
    <2>4. Complete(r, IncidentFields) \/ Complete(r, MatterFields)
      BY <2>1, <2>3, EveryContractPasses
    <2> QED
      BY <1>1, <1>2, <1>7, <2>4 DEF Targets, Incorporated
  <1> QED
    BY <1>4, <1>5, <1>6, <1>7 DEF Families

-----------------------------------------------------------------------------
(* TabularRules: the sample of a CSV *)

(* The quotient and the remainder are the only ones.                       *)
LEMMA RemainderIsUnique ==
  ASSUME NEW n \in Nat, NEW d \in Nat \ {0}, NEW a \in Nat, NEW e \in 0..(d - 1), n = d * a + e
  PROVE  n % d = e
  <1> DEFINE q == n \div d
             m == n % d
  <1>1. q \in Nat /\ m \in 0..(d - 1) /\ n = d * q + m
    OBVIOUS
  <1> HIDE DEF q, m
  <1>2. ASSUME NEW x \in Nat, NEW y \in Nat, x < y
        PROVE  d * y >= d * x + d
    <2>1. PICK k \in Nat : y = x + 1 + k
      <3>1. y - x - 1 \in Nat /\ y = x + 1 + (y - x - 1)
        BY <1>2
      <3> QED
        BY <3>1
    <2>2. d * y = d * x + d + d * k
      BY <2>1
    <2>3. d * k >= 0 /\ d * k \in Int /\ d * x \in Int
      OBVIOUS
    <2> QED
      BY <2>2, <2>3
  <1>3. d * q \in Int /\ d * a \in Int
    BY <1>1
  <1>4. ~(q < a)
    BY <1>1, <1>2, <1>3
  <1>5. ~(a < q)
    BY <1>1, <1>2, <1>3
  <1>6. q = a
    BY <1>1, <1>4, <1>5
  <1>7. m = e
    BY <1>1, <1>3, <1>6
  <1> QED
    BY <1>7 DEF m

(* Where a sample ends in its row, in half fields.                         *)
LEMMA EndInRow ==
  ASSUME NEW sample \in Nat, NEW w \in Nat \ {0}
  PROVE  /\ (sample \div 2) % w \in 0..(w - 1) /\ sample % 2 \in 0..1
         /\ sample % (2 * w) = 2 * ((sample \div 2) % w) + (sample % 2)
  <1> DEFINE h == sample \div 2
             b == sample % 2
             q == h \div w
             f == h % w
  <1>1. h \in Nat /\ b \in 0..1 /\ sample = 2 * h + b
    OBVIOUS
  <1> HIDE DEF h, b
  <1>2. q \in Nat /\ f \in 0..(w - 1) /\ h = w * q + f
    BY <1>1
  <1> HIDE DEF q, f
  <1>3. w * q \in Nat /\ sample = 2 * (w * q) + (2 * f + b)
    BY <1>1, <1>2
  <1>4. (2 * w) * q = 2 * (w * q)
    BY <1>2
  <1>5. sample = (2 * w) * q + (2 * f + b)
    BY <1>3, <1>4
  <1>6. 2 * w \in Nat \ {0} /\ 2 * f + b \in 0..(2 * w - 1)
    BY <1>1, <1>2
  <1>7. sample % (2 * w) = 2 * f + b
    BY <1>2, <1>5, <1>6, RemainderIsUnique
  <1> QED
    BY <1>1, <1>2, <1>7 DEF f, h, b

(* The widths that a sample shows differ when it ends short of the last    *)
(* field of a row below the first.                                         *)
LEMMA SampleDiffers ==
  ASSUME NEW c, NEW sample \in Nat, c.width \in Nat \ {0}
  PROVE  Delimiter(c, sample) = "UNDETERMINABLE_STRUCTURE" <=> EndsShort(c, sample)
  <1> DEFINE w == c.width
             f == (sample \div 2) % w
             b == sample % 2
             whole == sample \div 2 >= w
             partial == f > 0 \/ b = 1
             widths == SampledWidths(c, sample)
  <1>1. f \in 0..(w - 1) /\ b \in 0..1 /\ sample % (2 * w) = 2 * f + b
    BY EndInRow
  <1>2. widths = (IF whole THEN {w} ELSE {}) \cup (IF partial THEN {f + 1} ELSE {})
    BY DEF SampledWidths, CutWidth
  <1>3. Delimiter(c, sample) = "UNDETERMINABLE_STRUCTURE"
          <=> ~(\A x \in widths : x <= 1) /\ ~(\A v, x \in widths : v = x)
    BY DEF Delimiter
  <1>4. EndsShort(c, sample) <=> whole /\ 2 * f + b \in 1..(2 * w - 3)
    BY <1>1 DEF EndsShort
  <1> HIDE DEF widths, whole, f, b, w
  <1>5. w \in Nat \ {0}
    BY DEF w
  <1>6. (~(\A x \in widths : x <= 1) /\ ~(\A v, x \in widths : v = x))
          <=> whole /\ partial /\ f + 1 # w
    BY <1>1, <1>2, <1>5
  <1>7. (partial /\ f + 1 # w) <=> 2 * f + b \in 1..(2 * w - 3)
    BY <1>1, <1>5
  <1> QED
    BY <1>3, <1>4, <1>6, <1>7

-----------------------------------------------------------------------------
(* TabularRules: the theorems *)

TabularInv ==
    /\ family \in Families /\ DOMAIN row = Columns(family)
    /\ file.width \in Nat \ {0} /\ file.bytes \in Nat /\ file.chars \in Nat

LEMMA TabularInvariance == TabularSpec => []TabularInv
  <1>1. TabularInit => TabularInv
    BY DEF TabularInit, TabularInv, Plain, NoFile
  <1>2. TabularInv /\ [TabularNext]_tabularVars => TabularInv'
    <2> SUFFICES ASSUME TabularInv, [TabularNext]_tabularVars
                 PROVE  TabularInv'
      OBVIOUS
    <2>1. ASSUME NEW n \in DOMAIN row, NEW v \in Cells, WriteCell(n, v)
          PROVE  TabularInv'
      BY <2>1 DEF TabularInv, WriteCell
    <2>2. ASSUME NEW rows \in 1..MaxRows, NEW width \in 1..MaxWidth, UploadCsv(rows, width)
          PROVE  TabularInv'
      <3>1. rows \in Nat /\ width \in Nat \ {0}
        BY TabularConstants
      <3>2. 2 * rows * width \in Nat
        BY <3>1
      <3>3. Sizes(rows, width) \subseteq Nat
        BY <3>2 DEF Sizes
      <3>4. file'.width \in Nat \ {0} /\ file'.bytes \in Nat /\ file'.chars \in Nat
        BY <2>2, <3>1, <3>3 DEF UploadCsv
      <3> QED
        BY <2>2, <3>4 DEF UploadCsv, TabularInv
    <2>3. CASE UNCHANGED tabularVars
      BY <2>3 DEF TabularInv, tabularVars
    <2> QED
      BY <2>1, <2>2, <2>3 DEF TabularNext
  <1> QED
    BY <1>1, <1>2, PTL DEF TabularSpec

(* A portable row that validation lets through is incorporated, as         *)
(* something, whatever is in its cells (records.py, projection/service.py). *)
THEOREM PortableIncorporated == TabularSpec => []PortableRowsAreIncorporated
  <1>1. TabularInv => PortableRowsAreIncorporated
    BY PortableRowsFit DEF TabularInv, PortableRowsAreIncorporated
  <1> QED
    BY <1>1, TabularInvariance, PTL

(* A regular CSV of any size is refused exactly when a sample of it ends   *)
(* inside a character or, below the first row, short of the last field of  *)
(* a row (csv_policy.py).                                                  *)
THEOREM CsvRead == TabularSpec => []RegularCsvIsRead
  <1>1. TabularInv => RegularCsvIsRead
    BY SampleDiffers DEF TabularInv, RegularCsvIsRead, CsvVerdict
  <1> QED
    BY <1>1, TabularInvariance, PTL

=============================================================================
