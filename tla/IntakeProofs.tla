---------------------------- MODULE IntakeProofs ----------------------------
(***************************************************************************)
(* The inductive invariant of Intake and the safety properties it gives,   *)
(* for any uploads, workers, files, entities and faults.                   *)
(*                                                                         *)
(* The argument.  An upload that is about to insert its receipt holds the  *)
(* lock of its source, so that what it looked up stays true (Upload): the  *)
(* revisions of a source are 1..n and the next one is free (Revisions).    *)
(* A worker that projects a file owes the application of every valid row   *)
(* until it has it (Duty), and one that corrects an item holds its row,    *)
(* which therefore stays Pendiente.  The row an open transaction inserted  *)
(* is the only one of its entity, committed or not (Writes, Apart): who    *)
(* compares with it compares with what the entity will be, and nobody      *)
(* commits another first.                                                  *)
(***************************************************************************)
EXTENDS Intake, FiniteSetTheorems, WellFoundedInduction, TLAPS

-----------------------------------------------------------------------------
(* The inductive invariant *)

(* The object of an upload, and what it found under the lock of its source. *)
Upload(u) ==
    /\ TooLarge(u) => u \notin object
    /\ receipt[u] # 0 => stage[u] = "ended"
    /\ stage[u] = "idle" => u \notin object
    /\ stage[u] \in {"staged", "denied", "inserting"} /\ ~TooLarge(u) => u \in object
    /\ stage[u] = "ended" /\ u \notin excused => (Kept(u) <=> u \in object)
    /\ u \in excused => stage[u] = "ended"
    /\ stage[u] = "inserting" =>
          /\ sourceLock[SourceOf[u]] = u
          /\ next[u] = NextRevision(SourceOf[u])
          /\ TooLarge(u) \/ (SameKey(u) = {} /\ SameContent(u) = {})
    /\ answer[u] = "COLLISION" => TooLarge(u) /\ SourceOf[u] \in Keyed

Revisions(s) ==
    /\ IsFiniteSet(Receipts(s))
    /\ {receipt[u] : u \in Receipts(s)} = 1..Cardinality(Receipts(s))

Reception == (\A u \in Uploads : Upload(u)) /\ (\A s \in Sources : Revisions(s))

(* The item of a file is written with its receipt, that of a conflict with  *)
(* its application.                                                         *)
FileItems ==
    \A u \in Uploads : receipt[u] = 0 => item[<<<<u, 0>>, NoEntity>>] = "NONE"
ConflictsApplied ==
    \A s \in SourceRecords, e \in Entities : item[<<s, e>>] # "NONE" => Has(s, e)

Incorporated(e) == {r \in applied : r.entity = e /\ r.result = "INCORPORADO"}

Entry(e) ==
    /\ entity[e] = NoPayload => Incorporated(e) = {}
    /\ entity[e] # NoPayload => \E r \in applied : Incorporated(e) = {r}
    /\ \A r \in applied :
          r.entity = e =>
             /\ entity[e] # NoPayload
             /\ r.result = "CONFLICTO" <=> r.payload # entity[e]
             /\ r.result = "CONFLICTO" => item[<<r.source, e>>] # "NONE"

Tables == FileItems /\ ConflictsApplied /\ EveryRecordIsAccounted /\ (\A e \in Entities : Entry(e))

(* What a worker owes, and what it holds.                                   *)
Itemised(u) == \A k \in Invalid(u) : item[ItemOf(u, k)] # "NONE"
Served(w, source, e) == \E r \in applied \cup results[w] : r.source = source /\ r.entity = e
RowTarget(u, k) == TargetOf(<<u, k>>, RowsOf(u)[k])

Duty(w) ==
    /\ at[w] = "idle" => task[w] = NoTask
    /\ at[w] # "projecting" => inserted[w] = {} /\ results[w] = {}
    /\ at[w] \in {"validating", "validated"} =>
          task[w].file \in Uploads /\ task[w].item = NoItem /\ task[w].todo = {}
    /\ at[w] = "validating" =>
          /\ seen[w] \subseteq Invalid(task[w].file)
          /\ \A k \in seen[w] : item[ItemOf(task[w].file, k)] # "NONE"
    /\ at[w] = "validated" => Itemised(task[w].file)
    /\ at[w] = "projecting" /\ task[w].file # NoFile =>
          /\ task[w].item = NoItem
          /\ Itemised(task[w].file)
          /\ \A k \in Valid(task[w].file) :
                \/ RowTarget(task[w].file, k) \in task[w].todo
                \/ Served(w, <<task[w].file, k>>, RowsOf(task[w].file)[k].entity)
    /\ at[w] = "projecting" /\ task[w].file = NoFile =>
          /\ task[w].item \in ItemIds
          /\ itemLock[task[w].item] = w /\ item[task[w].item] = "Pendiente"
          /\ \/ \E t \in task[w].todo : t.source = task[w].item[1]
             \/ \E e \in Entities : Served(w, task[w].item[1], e)

(* The payload that an entity has once the worker commits.                  *)
Inserts(w, e) == \E t \in inserted[w] : t.entity = e
Final(w, e) ==
    IF Inserts(w, e) THEN (CHOOSE t \in inserted[w] : t.entity = e).payload ELSE entity[e]

Incorporation(t) ==
    [source |-> t.source, entity |-> t.entity, payload |-> t.payload, result |-> "INCORPORADO"]
TargetIn(r) == [source |-> r.source, entity |-> r.entity, payload |-> r.payload]

Writes(w) ==
    /\ \A t, o \in inserted[w] : t.entity = o.entity => t = o
    /\ \A t \in inserted[w] : entity[t.entity] = NoPayload /\ Incorporation(t) \in results[w]
    /\ \A r \in results[w] :
          /\ ~Has(r.source, r.entity)
          /\ r.result = "INCORPORADO" => TargetIn(r) \in inserted[w]
          /\ Final(w, r.entity) # NoPayload
          /\ r.result = "CONFLICTO" <=> r.payload # Final(w, r.entity)

(* Two workers never have the same key in their open transactions.          *)
Duplicates(r, q) == r.source = q.source /\ r.entity = q.entity
Apart(v, w) ==
    /\ \A t \in inserted[v], o \in inserted[w] : t.entity # o.entity
    /\ \A r \in results[v], q \in results[w] : ~Duplicates(r, q)

Transactions == \A w \in Workers : Duty(w) /\ Writes(w) /\ \A v \in Workers \ {w} : Apart(v, w)

IInv == TypeOK /\ Reception /\ Tables /\ Transactions

-----------------------------------------------------------------------------
(* Values *)

LEMMA RowFacts ==
  ASSUME NEW u \in Uploads
  PROVE  /\ RowsOf(u) \in Seq(Row) /\ Len(RowsOf(u)) \in Nat /\ DOMAIN RowsOf(u) = 1..Len(RowsOf(u))
         /\ \A k \in 1..Len(RowsOf(u)) : RowsOf(u)[k] \in Row
         /\ Valid(u) \subseteq 1..Len(RowsOf(u)) /\ Invalid(u) \subseteq 1..Len(RowsOf(u))
  <1>1. RowsOf(u) \in Seq(Row)
    BY IntakeConstants DEF RowsOf
  <1> QED
    BY <1>1 DEF Valid, Invalid

LEMMA RecordFacts ==
  ASSUME NEW u \in Uploads, NEW k \in 0..Len(RowsOf(u))
  PROVE  <<u, k>> \in SourceRecords
  BY DEF SourceRecords

LEMMA RecordShape ==
  ASSUME NEW s \in SourceRecords
  PROVE  \E u \in Uploads : \E k \in 0..Len(RowsOf(u)) : s = <<u, k>> /\ s[2] = k /\ k \in Nat
  <1>1. PICK u \in Uploads : s \in {u} \X (0..Len(RowsOf(u)))
    BY DEF SourceRecords
  <1>2. Len(RowsOf(u)) \in Nat
    BY RowFacts
  <1> QED
    BY <1>1, <1>2

LEMMA ItemFacts ==
  ASSUME NEW u \in Uploads, NEW k \in 0..Len(RowsOf(u))
  PROVE  ItemOf(u, k) \in ItemIds
  BY RecordFacts DEF ItemOf, ItemIds

LEMMA ItemShape ==
  ASSUME NEW i \in ItemIds
  PROVE  i[1] \in SourceRecords /\ i[2] \in Entities \cup {NoEntity} /\ i = <<i[1], i[2]>> /\ i # NoItem
  BY DEF ItemIds, NoItem

LEMMA InvalidItems ==
  ASSUME NEW u \in Uploads, NEW k \in Invalid(u)
  PROVE  ItemOf(u, k) \in ItemIds
  BY RowFacts, ItemFacts

(* The targets of the rows of a file.                                       *)
LEMMA TargetFacts ==
  ASSUME NEW u \in Uploads, NEW k \in Valid(u)
  PROVE  /\ RowTarget(u, k) \in Target
         /\ RowTarget(u, k).source = <<u, k>> /\ RowTarget(u, k).entity = RowsOf(u)[k].entity
  <1>1. k \in 1..Len(RowsOf(u)) /\ RowsOf(u)[k] \in Row /\ k \in 0..Len(RowsOf(u))
    BY RowFacts
  <1>2. <<u, k>> \in SourceRecords
    BY <1>1, RecordFacts
  <1> QED
    BY <1>1, <1>2 DEF RowTarget, TargetOf, Target, Row

(* A set of naturals that is not empty has a least element.                 *)
LEMMA LeastExists ==
  ASSUME NEW T \in SUBSET Nat, T # {}
  PROVE  \E m \in T : \A n \in T : m <= n
  <1>1. IsWellFoundedOn(OpToRel(<, Nat), Nat)
    BY NatLessThanWellFounded
  <1>2. PICK m \in T : \A n \in T : ~(<<n, m>> \in OpToRel(<, Nat))
    BY <1>1, WFMin
  <1>3. \A n \in T : ~(n < m)
    BY <1>2 DEF OpToRel
  <1> QED
    BY <1>3

LEMMA CurrentFacts ==
  ASSUME TypeOK, NEW w \in Workers, Projecting(w)
  PROVE  Current(w) \in task[w].todo /\ Current(w) \in Target
  <1> DEFINE S == task[w].todo
             T == {t.source[2] : t \in S}
  <1>1. S \subseteq Target /\ S # {}
    BY DEF TypeOK, Task, Projecting
  <1>2. \A t \in S : t.source[2] \in Nat
    BY <1>1, RecordShape DEF Target
  <1>3. T \in SUBSET Nat /\ T # {}
    BY <1>1, <1>2
  <1>4. PICK m \in T : \A n \in T : m <= n
    BY <1>3, LeastExists
  <1>5. PICK t \in S : t.source[2] = m
    BY <1>4
  <1>6. \A o \in S : t.source[2] <= o.source[2]
    BY <1>4, <1>5
  <1> QED
    BY <1>1, <1>5, <1>6 DEF Current

-----------------------------------------------------------------------------
(* Reception *)

UploadTypes ==
    /\ stage \in [Uploads -> Stages] /\ answer \in [Uploads -> Answers]
    /\ object \subseteq Uploads /\ excused \subseteq Uploads
    /\ receipt \in [Uploads -> Nat] /\ next \in [Uploads -> Nat]
    /\ sourceLock \in [Sources -> Uploads \cup {NoFile}]
    /\ faults \in Nat

(* What a step of an upload leaves to the others: a receipt is written only *)
(* under the lock of its source.                                            *)
Leaves(u) ==
    /\ \A v \in Uploads \ {u} :
          /\ stage'[v] = stage[v] /\ answer'[v] = answer[v]
          /\ receipt'[v] = receipt[v] /\ next'[v] = next[v]
          /\ v \in object' <=> v \in object
          /\ v \in excused' <=> v \in excused
          /\ sourceLock[SourceOf[v]] = v => sourceLock'[SourceOf[v]] = v
    /\ receipt'[u] # receipt[u] => stage[u] = "inserting"

LEMMA SourceType ==
  ASSUME NEW u \in Uploads
  PROVE  SourceOf[u] \in Sources /\ ContentOf[u] \in Contents /\ u # NoFile
  BY IntakeConstants

LEMMA OtherUploads ==
  ASSUME UploadTypes, Reception, NEW u \in Uploads, Leaves(u), NEW v \in Uploads \ {u}
  PROVE  Upload(v)'
  <1>1. Upload(v) /\ Upload(u) /\ v # u
    BY DEF Reception
  <1>2. (TooLarge(v))' <=> TooLarge(v)
    BY DEF TooLarge
  <1>3. ASSUME stage[v] = "inserting"
        PROVE  Receipts(SourceOf[v])' = Receipts(SourceOf[v])
    <2>1. SourceOf[u] = SourceOf[v] => receipt'[u] = receipt[u]
      BY <1>1, <1>3 DEF Upload, Leaves
    <2>2. \A x \in Uploads : SourceOf[x] = SourceOf[v] => receipt'[x] = receipt[x]
      BY <2>1 DEF Leaves
    <2> QED BY <2>2 DEF Receipts
  <1>4. stage[v] = "inserting" =>
           /\ NextRevision(SourceOf[v])' = NextRevision(SourceOf[v])
           /\ SameKey(v)' = SameKey(v) /\ SameContent(v)' = SameContent(v)
    BY <1>3 DEF NextRevision, SameKey, SameContent
  <1>5. (Kept(v))' <=> Kept(v)
    BY <1>2 DEF Kept, Leaves
  <1> QED
    BY <1>1, <1>2, <1>4, <1>5 DEF Upload, Leaves

(* A step of an upload that writes no receipt.                              *)
LEMMA QuietUpload ==
  ASSUME UploadTypes, Reception, NEW u \in Uploads, Leaves(u), receipt' = receipt, Upload(u)'
  PROVE  Reception'
  <1>1. \A s \in Sources : Receipts(s)' = Receipts(s)
    BY DEF Receipts
  <1>2. \A s \in Sources : Revisions(s)'
    BY <1>1 DEF Reception, Revisions
  <1> QED
    BY <1>2, OtherUploads DEF Reception

(* The answer of a call, and the lock it gives back.                        *)
LEMMA AnsweredFacts ==
  ASSUME UploadTypes, NEW u \in Uploads, NEW a \in Answers, Answered(u, a)
  PROVE  /\ stage' \in [Uploads -> Stages] /\ answer' \in [Uploads -> Answers]
         /\ sourceLock' \in [Sources -> Uploads \cup {NoFile}]
         /\ stage'[u] = "ended" /\ answer'[u] = a
         /\ \A v \in Uploads \ {u} : stage'[v] = stage[v] /\ answer'[v] = answer[v]
         /\ \A v \in Uploads \ {u} :
               sourceLock[SourceOf[v]] = v => sourceLock'[SourceOf[v]] = v
  <1>1. \A v \in Uploads : SourceOf[v] \in Sources
    BY SourceType
  <1> QED
    BY <1>1 DEF Answered, UploadTypes, Stages

(* The receipt that is written is the only one of its revision.             *)
LEMMA NewReceipt ==
  ASSUME UploadTypes, Reception, NEW u \in Uploads, stage[u] = "inserting",
         receipt' = [receipt EXCEPT ![u] = next[u]]
  PROVE  /\ \A s \in Sources : Revisions(s)'
         /\ receipt' \in [Uploads -> Nat] /\ receipt'[u] # 0
         /\ \A v \in Uploads \ {u} : receipt'[v] = receipt[v]
  <1> DEFINE o == SourceOf[u]
             R == Receipts(o)
             n == Cardinality(R)
  <1>1. o \in Sources /\ Upload(u) /\ Revisions(o)
    BY SourceType DEF Reception
  <1>2. receipt[u] = 0 /\ next[u] = n + 1 /\ IsFiniteSet(R) /\ {receipt[v] : v \in R} = 1..n
    BY <1>1 DEF Upload, UploadTypes, NextRevision, Revisions
  <1>3. n \in Nat
    BY <1>2, FS_CardinalityType
  <1>4. receipt' \in [Uploads -> Nat] /\ receipt'[u] = n + 1 /\ receipt'[u] # 0
        /\ \A v \in Uploads \ {u} : receipt'[v] = receipt[v]
    BY <1>2, <1>3 DEF UploadTypes
  <1>5. u \notin R /\ R' = R \cup {u}
    BY <1>2, <1>4 DEF Receipts
  <1>6. IsFiniteSet(R') /\ Cardinality(R') = n + 1
    BY <1>2, <1>5, FS_AddElement
  <1>7. {receipt'[v] : v \in R'} = (1..n) \cup {n + 1}
    <2> HIDE DEF R, n
    <2>1. \A v \in R : receipt'[v] = receipt[v]
      BY <1>4, <1>5 DEF R, Receipts
    <2> QED BY <1>2, <1>4, <1>5, <2>1
  <1>8. (1..n) \cup {n + 1} = 1..(n + 1)
    BY <1>3
  <1>9. Revisions(o)'
    BY <1>6, <1>7, <1>8 DEF Revisions
  <1>10. ASSUME NEW s \in Sources, s # o
         PROVE  Revisions(s)'
    <2>1. Receipts(s)' = Receipts(s)
      BY <1>4, <1>10 DEF Receipts
    <2>2. \A v \in Receipts(s) : receipt'[v] = receipt[v]
      BY <1>4, <1>10 DEF Receipts
    <2>3. Revisions(s)
      BY DEF Reception
    <2> QED BY <2>1, <2>2, <2>3 DEF Revisions
  <1> QED
    BY <1>4, <1>9, <1>10

(* Under the lock only a key that was spent on a file above the limit       *)
(* collides.                                                                *)
LEMMA CollisionFacts ==
  ASSUME UploadTypes, Reception, NEW u \in Uploads, stage[u] = "inserting", Collides(u)
  PROVE  TooLarge(u) /\ SourceOf[u] \in Keyed
  <1> DEFINE o == SourceOf[u]
             n == Cardinality(Receipts(o))
  <1>1. Upload(u) /\ Revisions(o)
    BY SourceType DEF Reception
  <1>2. PICK v \in Receipts(o) :
               \/ receipt[v] = next[u]
               \/ ~TooLarge(u) /\ ContentOf[v] = ContentOf[u]
               \/ o \in Keyed
    BY DEF Collides
  <1>3. receipt[v] \in 1..n /\ n \in Nat
    BY <1>1, FS_CardinalityType DEF Revisions
  <1>4. next[u] = n + 1
    BY <1>1 DEF Upload, NextRevision
  <1>5. receipt[v] # next[u]
    BY <1>3, <1>4
  <1>6. TooLarge(u) \/ (SameKey(u) = {} /\ SameContent(u) = {})
    BY <1>1 DEF Upload
  <1> QED
    BY <1>2, <1>5, <1>6 DEF SameKey, SameContent

(* The operations of a call, one by one.                                    *)
LEMMA StageStep ==
  ASSUME UploadTypes, Reception, NEW u \in Uploads, Stage(u) \/ Deny(u)
  PROVE  UploadTypes' /\ Reception'
  <1>1. Upload(u) /\ u # NoFile
    BY SourceType DEF Reception
  <1>2. /\ stage'[u] \in {"staged", "denied"} /\ stage' \in [Uploads -> Stages]
        /\ \A v \in Uploads \ {u} : stage'[v] = stage[v]
        /\ UNCHANGED <<answer, receipt, next, sourceLock, faults, excused>>
        /\ stage[u] \in {"idle", "staged"}
    BY DEF Stage, Deny, UploadTypes, Stages
  <1>3. /\ object' \subseteq Uploads
        /\ \A v \in Uploads \ {u} : v \in object' <=> v \in object
        /\ u \in object' <=> ~TooLarge(u)
    BY <1>1 DEF Stage, Deny, UploadTypes, Upload
  <1>4. UploadTypes' /\ Leaves(u)
    BY <1>2, <1>3 DEF UploadTypes, Leaves
  <1>5. Upload(u)'
    BY <1>1, <1>2, <1>3 DEF Upload, TooLarge
  <1> QED
    BY <1>2, <1>4, <1>5, QuietUpload

LEMMA LookUpStep ==
  ASSUME UploadTypes, Reception, NEW u \in Uploads, LookUp(u)
  PROVE  UploadTypes' /\ Reception'
  <1> DEFINE o == SourceOf[u]
  <1>1. Upload(u) /\ Revisions(o) /\ o \in Sources /\ u # NoFile
    BY SourceType DEF Reception
  <1>2. NextRevision(o) \in Nat
    BY <1>1, FS_CardinalityType DEF Revisions, NextRevision
  <1>3. /\ stage[u] = "staged" /\ sourceLock[o] = NoFile
        /\ TooLarge(u) \/ (SameKey(u) = {} /\ SameContent(u) = {})
        /\ UNCHANGED <<answer, object, receipt, faults, excused>>
    BY DEF LookUp, SourceFree
  <1>4. /\ stage' \in [Uploads -> Stages] /\ stage'[u] = "inserting"
        /\ next' \in [Uploads -> Nat] /\ next'[u] = NextRevision(o)
        /\ sourceLock' \in [Sources -> Uploads \cup {NoFile}] /\ sourceLock'[o] = u
        /\ \A v \in Uploads \ {u} : stage'[v] = stage[v] /\ next'[v] = next[v]
        /\ \A s \in Sources \ {o} : sourceLock'[s] = sourceLock[s]
    BY <1>1, <1>2 DEF LookUp, UploadTypes, Stages
  <1>5. UploadTypes' /\ Leaves(u)
    BY <1>3, <1>4, SourceType DEF UploadTypes, Leaves
  <1>6. Receipts(o)' = Receipts(o)
    BY <1>3 DEF Receipts
  <1>7. Upload(u)'
    BY <1>1, <1>3, <1>4, <1>6
       DEF Upload, TooLarge, NextRevision, SameKey, SameContent
  <1> QED
    BY <1>3, <1>5, <1>7, QuietUpload

(* A call that ends without a receipt has no object, or is excused.         *)
LEMMA EndsStep ==
  ASSUME UploadTypes, Reception, NEW u \in Uploads, NEW a \in Answers, Answered(u, a),
         stage[u] \in {"staged", "denied", "inserting"},
         a = "COLLISION" => TooLarge(u) /\ SourceOf[u] \in Keyed,
         \/ object' = object \ {u} /\ excused' = excused
         \/ object' = object /\ excused' = excused \cup {u},
         faults' \in Nat, UNCHANGED <<receipt, next>>
  PROVE  UploadTypes' /\ Reception'
  <1>1. Upload(u)
    BY DEF Reception
  <1>2. /\ stage' \in [Uploads -> Stages] /\ answer' \in [Uploads -> Answers]
        /\ sourceLock' \in [Sources -> Uploads \cup {NoFile}]
        /\ stage'[u] = "ended" /\ answer'[u] = a
    BY AnsweredFacts
  <1>3. UploadTypes'
    BY <1>2 DEF UploadTypes
  <1>4. Leaves(u)
    BY AnsweredFacts DEF Leaves
  <1>5. Upload(u)'
    BY <1>1, <1>2 DEF Upload, TooLarge, Kept
  <1> QED
    BY <1>3, <1>4, <1>5, QuietUpload

(* A call that commits its receipt, whether or not it learns of it.         *)
LEMMA ReceiptStep ==
  ASSUME UploadTypes, Reception, NEW u \in Uploads, NEW a \in Answers, Answered(u, a),
         stage[u] = "inserting", a # "COLLISION",
         receipt' = [receipt EXCEPT ![u] = next[u]],
         \/ object' = object /\ excused' = excused
         \/ object' = object \ {u} /\ excused' = excused \cup {u},
         faults' \in Nat, next' = next
  PROVE  UploadTypes' /\ Reception'
  <1>1. Upload(u)
    BY DEF Reception
  <1>2. /\ stage' \in [Uploads -> Stages] /\ answer' \in [Uploads -> Answers]
        /\ sourceLock' \in [Sources -> Uploads \cup {NoFile}]
        /\ stage'[u] = "ended" /\ answer'[u] = a
    BY AnsweredFacts
  <1>3. /\ \A s \in Sources : Revisions(s)'
        /\ receipt' \in [Uploads -> Nat] /\ receipt'[u] # 0
        /\ \A v \in Uploads \ {u} : receipt'[v] = receipt[v]
    BY NewReceipt
  <1>4. UploadTypes'
    BY <1>2, <1>3 DEF UploadTypes
  <1>5. Leaves(u)
    BY <1>3, AnsweredFacts DEF Leaves
  <1>6. Upload(u)'
    BY <1>1, <1>2, <1>3 DEF Upload, TooLarge, Kept
  <1> QED
    BY <1>3, <1>4, <1>5, <1>6, OtherUploads DEF Reception

LEMMA ReceiveStep ==
  ASSUME UploadTypes, Reception, NEW u \in Uploads, Receive(u)
  PROVE  UploadTypes' /\ Reception'
  <1>1. {"CREATED", "EXISTING", "CONFLICT", "DENIED", "ERROR", "COLLISION"} \subseteq Answers
    BY DEF Answers
  <1>2. faults > 0 => faults - 1 \in Nat
    BY DEF UploadTypes
  <1>3. faults \in Nat
    BY DEF UploadTypes
  <1>4. CASE LeaveDenied(u)
    BY <1>1, <1>3, <1>4, EndsStep DEF LeaveDenied
  <1>5. CASE LoseDenial(u)
    BY <1>1, <1>2, <1>5, EndsStep DEF LoseDenial
  <1>6. CASE FindExisting(u)
    <2>1. PICK a \in Answers : a # "COLLISION" /\ Answered(u, a)
      BY <1>1, <1>6 DEF FindExisting
    <2> QED BY <1>3, <1>6, <2>1, EndsStep DEF FindExisting
  <1>7. CASE InsertFile(u)
    BY <1>1, <1>3, <1>7, ReceiptStep DEF InsertFile, Received
  <1>8. CASE CollideFile(u)
    BY <1>1, <1>3, <1>8, EndsStep, CollisionFacts DEF CollideFile
  <1>9. CASE FailUpload(u)
    BY <1>1, <1>2, <1>9, EndsStep DEF FailUpload, Unlinked
  <1>10. CASE LoseCommit(u)
    BY <1>1, <1>2, <1>10, ReceiptStep DEF LoseCommit, Received, Unlinked
  <1>11. CASE CrashUpload(u)
    BY <1>1, <1>2, <1>11, EndsStep DEF CrashUpload
  <1> QED
    BY <1>4, <1>5, <1>6, <1>7, <1>8, <1>9, <1>10, <1>11, StageStep, LookUpStep DEF Receive

-----------------------------------------------------------------------------
(* What a step leaves to the tables and to the workers *)

TableTypes ==
    /\ item \in [ItemIds -> ItemState] /\ transitions \in [ItemIds -> Nat]
    /\ applied \subseteq Application
    /\ entity \in [Entities -> Payloads \cup {NoPayload}] /\ job \subseteq Uploads

WorkerTypes ==
    /\ itemLock \in [ItemIds -> Workers \cup {NoWorker}]
    /\ fileLock \in [Uploads -> Workers \cup {NoWorker}]
    /\ at \in [Workers -> {"idle", "validating", "validated", "projecting"}]
    /\ task \in [Workers -> Task] /\ seen \in [Workers -> SUBSET Nat]
    /\ inserted \in [Workers -> SUBSET Target] /\ results \in [Workers -> SUBSET Application]

LEMMA Types == TypeOK <=> UploadTypes /\ TableTypes /\ WorkerTypes
  BY DEF TypeOK, UploadTypes, TableTypes, WorkerTypes

(* Items are written once and settled, never forgotten.                     *)
ItemsGrow == \A i \in ItemIds : item[i] # "NONE" => item'[i] # "NONE"

(* A step settles an item that is Pendiente, and says so in a transition,   *)
(* or leaves it as settled, or as unsettled, as it is.                      *)
Settled(i) == item[i] \in {"Reinyectado", "Descartado"}
Settles(i) == item[i] = "Pendiente" /\ Settled(i)' /\ transitions'[i] = transitions[i] + 1
SettlesOnce ==
    \A i \in ItemIds : Settles(i) \/ (transitions'[i] = transitions[i] /\ Settled(i)' = Settled(i))

Spares(v) ==
    /\ at'[v] = at[v] /\ task'[v] = task[v] /\ seen'[v] = seen[v]
    /\ inserted'[v] = inserted[v] /\ results'[v] = results[v]
    /\ applied \subseteq applied'
    /\ ItemsGrow
    /\ \A i \in ItemIds :
          itemLock[i] = v => itemLock'[i] = v /\ (item[i] = "Pendiente" => item'[i] = "Pendiente")
    /\ \A e \in Entities :
          entity'[e] # entity[e] => entity[e] = NoPayload /\ \A t \in inserted[v] : t.entity # e
    /\ \A r \in results[v] : ~Has(r.source, r.entity)'

LEMMA SparedDuty ==
  ASSUME WorkerTypes, NEW v \in Workers, Duty(v), Spares(v)
  PROVE  Duty(v)'
  <1>1. /\ at'[v] = at[v] /\ task'[v] = task[v] /\ seen'[v] = seen[v]
        /\ inserted'[v] = inserted[v] /\ results'[v] = results[v] /\ applied \subseteq applied'
    BY DEF Spares
  <1> DEFINE Then(s, e) == \E r \in applied' \cup results'[v] : r.source = s /\ r.entity = e
  <1>2. \A s, e : Served(v, s, e) => Then(s, e)
    BY <1>1 DEF Served
  <1> HIDE DEF Then
  <1>3. \A u \in Uploads : Itemised(u) => Itemised(u)'
    BY InvalidItems DEF Itemised, Spares, ItemsGrow
  <1>4. task[v].file \in Uploads \cup {NoFile}
    BY DEF WorkerTypes, Task
  <1>5. at[v] = "validating" => \A k \in seen[v] : item'[ItemOf(task[v].file, k)] # "NONE"
    BY InvalidItems DEF Duty, Spares, ItemsGrow
  <1>6. at[v] = "projecting" /\ task[v].file # NoFile =>
          \A k \in Valid(task[v].file) :
             \/ RowTarget(task[v].file, k) \in task[v].todo
             \/ Then(<<task[v].file, k>>, RowsOf(task[v].file)[k].entity)
    BY <1>2 DEF Duty
  <1>7. at[v] = "projecting" /\ task[v].file = NoFile =>
          /\ task[v].item \in ItemIds
          /\ itemLock'[task[v].item] = v /\ item'[task[v].item] = "Pendiente"
          /\ \/ \E t \in task[v].todo : t.source = task[v].item[1]
             \/ \E e \in Entities : Then(task[v].item[1], e)
    BY <1>2 DEF Duty, Spares
  <1> QED
    BY <1>1, <1>3, <1>4, <1>5, <1>6, <1>7 DEF Duty, Served, Then

LEMMA FinalKept ==
  ASSUME WorkerTypes, NEW v \in Workers, NEW e \in Entities, inserted'[v] = inserted[v],
         Inserts(v, e) \/ entity'[e] = entity[e]
  PROVE  Final(v, e)' = Final(v, e)
  BY DEF Final, Inserts

LEMMA SparedWrites ==
  ASSUME WorkerTypes, NEW v \in Workers, Writes(v), Spares(v)
  PROVE  Writes(v)'
  <1>1. inserted'[v] = inserted[v] /\ results'[v] = results[v]
    BY DEF Spares
  <1>2. \A t \in inserted[v] : t.entity \in Entities
    BY DEF WorkerTypes, Target
  <1>3. \A r \in results[v] : r.entity \in Entities
    BY DEF WorkerTypes, Application
  <1>4. \A t \in inserted[v] : entity'[t.entity] = NoPayload
    BY <1>2 DEF Writes, Spares
  <1>5. ASSUME NEW r \in results[v]
        PROVE  Final(v, r.entity)' = Final(v, r.entity)
    <2>1. ~Inserts(v, r.entity) => entity[r.entity] # NoPayload
      BY <1>5 DEF Writes, Final
    <2>2. Inserts(v, r.entity) \/ entity'[r.entity] = entity[r.entity]
      BY <1>3, <1>5, <2>1 DEF Spares
    <2> QED BY <1>1, <1>3, <1>5, <2>2, FinalKept
  <1>6. \A r \in results[v] : ~Has(r.source, r.entity)'
    BY DEF Spares
  <1> QED
    BY <1>1, <1>4, <1>5, <1>6 DEF Writes

(* A step of a worker preserves what all of them have to keep once it holds *)
(* of that worker.                                                          *)
LEMMA OwnStep ==
  ASSUME WorkerTypes, Transactions, NEW w \in Workers, Duty(w)', Writes(w)',
         \A v \in Workers \ {w} : Spares(v) /\ Apart(v, w)'
  PROVE  Transactions'
  <1>1. \A v \in Workers \ {w} : Duty(v)' /\ Writes(v)'
    BY SparedDuty, SparedWrites DEF Transactions
  <1>2. \A v \in Workers \ {w} : Apart(w, v)'
    BY DEF Apart, Duplicates
  <1>3. \A v, x \in Workers \ {w} : v # x => Apart(v, x)'
    BY DEF Apart, Transactions, Spares
  <1> QED
    BY <1>1, <1>2, <1>3 DEF Transactions

(* A step of nobody's.                                                      *)
LEMMA SparedStep ==
  ASSUME WorkerTypes, Transactions, \A v \in Workers : Spares(v)
  PROVE  Transactions'
  <1>1. \A v \in Workers : Duty(v)' /\ Writes(v)'
    BY SparedDuty, SparedWrites DEF Transactions
  <1>2. \A v, x \in Workers : v # x => Apart(v, x)'
    BY DEF Apart, Transactions, Spares
  <1> QED
    BY <1>1, <1>2 DEF Transactions

(* A step that writes items, and neither records nor entities.              *)
LEMMA ItemsStep ==
  ASSUME TableTypes, Tables, UNCHANGED <<applied, entity, job>>, ItemsGrow, FileItems',
         \A i \in ItemIds : item'[i] = "Reinyectado" => item[i] = "Reinyectado",
         \A i \in ItemIds : i[2] \in Entities /\ item'[i] # "NONE" => item[i] # "NONE"
  PROVE  Tables'
  <1>1. \A s, e : Has(s, e)' <=> Has(s, e)
    BY DEF Has
  <1>2. \A s \in SourceRecords, e \in Entities : <<s, e>> \in ItemIds /\ <<s, e>>[2] = e
    BY DEF ItemIds
  <1>3. ConflictsApplied'
    BY <1>1, <1>2 DEF Tables, ConflictsApplied
  <1>4. \A u \in Uploads, k \in Nat : k \in Invalid(u) => ItemOf(u, k) \in ItemIds
    BY InvalidItems
  <1>5. \A u \in Uploads : \A k \in Invalid(u) : k \in Nat
    BY RowFacts
  <1>6. EveryRecordIsAccounted'
    <2>1. \A u \in job : \A k \in Valid(u) : Has(<<u, k>>, RowsOf(u)[k].entity)'
      BY <1>1 DEF Tables, EveryRecordIsAccounted
    <2>2. \A u \in job : \A k \in Invalid(u) : item'[ItemOf(u, k)] # "NONE"
      BY <1>4, <1>5 DEF Tables, EveryRecordIsAccounted, ItemsGrow, TableTypes
    <2>3. \A i \in ItemIds : item'[i] = "Reinyectado" => \E e \in Entities : Has(i[1], e)'
      BY <1>1 DEF Tables, EveryRecordIsAccounted
    <2> QED BY <2>1, <2>2, <2>3 DEF EveryRecordIsAccounted
  <1>7. \A r \in applied : r.source \in SourceRecords /\ r.entity \in Entities
    BY DEF TableTypes, Application
  <1>8. ASSUME NEW e \in Entities
        PROVE  Entry(e)'
    <2>1. Entry(e) /\ Incorporated(e)' = Incorporated(e)
      BY DEF Tables, Incorporated
    <2>2. \A r \in applied : r.entity = e /\ r.result = "CONFLICTO" => item'[<<r.source, e>>] # "NONE"
      BY <1>2, <1>7, <2>1 DEF Entry, ItemsGrow
    <2> QED BY <2>1, <2>2 DEF Entry
  <1> QED
    BY <1>3, <1>6, <1>8 DEF Tables

(* A step that writes no table.                                             *)
LEMMA TablesKept ==
  ASSUME TableTypes, Tables, UNCHANGED <<tables, receipt>>
  PROVE  TableTypes' /\ Tables' /\ ItemsGrow
  <1>1. TableTypes' /\ ItemsGrow /\ FileItems'
    BY DEF TableTypes, ItemsGrow, tables, Tables, FileItems
  <1> QED
    BY <1>1, ItemsStep DEF tables

-----------------------------------------------------------------------------
(* Steps of a worker *)

(* What a step has to preserve besides the reception.                       *)
Preserves == TableTypes' /\ WorkerTypes' /\ Tables' /\ Transactions' /\ SettlesOnce

LEMMA ReleaseFacts ==
  ASSUME WorkerTypes, NEW w \in Workers, Release(w)
  PROVE  /\ WorkerTypes'
         /\ Duty(w)' /\ Writes(w)' /\ \A v \in Workers : Apart(v, w)'
         /\ \A v \in Workers \ {w} :
               /\ at'[v] = at[v] /\ task'[v] = task[v] /\ seen'[v] = seen[v]
               /\ inserted'[v] = inserted[v] /\ results'[v] = results[v]
               /\ \A i \in ItemIds : itemLock[i] = v => itemLock'[i] = v
  <1>1. NoTask \in Task
    BY DEF NoTask, Task
  <1>2. WorkerTypes'
    BY <1>1 DEF Release, WorkerTypes
  <1>3. at'[w] = "idle" /\ task'[w] = NoTask /\ inserted'[w] = {} /\ results'[w] = {}
    BY DEF Release, WorkerTypes
  <1> QED
    BY <1>2, <1>3 DEF Release, WorkerTypes, Duty, Writes, Apart

(* A transaction that ends without having committed.                        *)
LEMMA RollBackStep ==
  ASSUME TableTypes, WorkerTypes, Tables, Transactions, NEW w \in Workers, Release(w),
         UNCHANGED <<tables, receipt>>
  PROVE  Preserves
  <1>1. TableTypes' /\ Tables' /\ ItemsGrow
    BY TablesKept
  <1>2. \A v \in Workers \ {w} : Spares(v)
    BY <1>1, ReleaseFacts DEF Spares, tables, Transactions, Writes, Has
  <1>3. Transactions'
    BY <1>2, ReleaseFacts, OwnStep
  <1> QED
    BY <1>1, <1>3, ReleaseFacts DEF Preserves, SettlesOnce, Settled, tables

(* A step that touches nothing but the locals of its worker and locks that  *)
(* were free.                                                               *)
LEMMA LocalStep ==
  ASSUME TableTypes, WorkerTypes, Tables, Transactions, NEW w \in Workers, WorkerTypes',
         UNCHANGED <<tables, receipt>>,
         \A v \in Workers \ {w} :
            /\ at'[v] = at[v] /\ task'[v] = task[v] /\ seen'[v] = seen[v]
            /\ inserted'[v] = inserted[v] /\ results'[v] = results[v]
            /\ \A i \in ItemIds : itemLock[i] = v => itemLock'[i] = v
            /\ Apart(v, w)',
         Duty(w)', Writes(w)'
  PROVE  Preserves
  <1>1. TableTypes' /\ Tables' /\ ItemsGrow
    BY TablesKept
  <1>2. \A v \in Workers \ {w} : Spares(v)
    BY <1>1 DEF Spares, tables, Transactions, Writes, Has
  <1>3. Transactions'
    BY <1>2, OwnStep
  <1> QED
    BY <1>1, <1>3 DEF Preserves, SettlesOnce, Settled, tables

LEMMA StartValidationStep ==
  ASSUME TableTypes, WorkerTypes, Tables, Transactions,
         NEW w \in Workers, NEW u \in Uploads, StartValidation(w, u)
  PROVE  Preserves
  <1> DEFINE T == [NoTask EXCEPT !.file = u]
             S == {k \in Invalid(u) : item[ItemOf(u, k)] # "NONE"}
  <1>1. /\ at[w] = "idle" /\ at' = [at EXCEPT ![w] = "validating"]
        /\ task' = [task EXCEPT ![w] = T] /\ seen' = [seen EXCEPT ![w] = S]
        /\ UNCHANGED <<uploading, tables, itemLock, fileLock, inserted, results>>
    BY DEF StartValidation
  <1>2. T \in Task /\ T.file = u /\ T.item = NoItem /\ T.todo = {}
    BY DEF NoTask, Task
  <1>3. S \in SUBSET Nat
    BY RowFacts
  <1> HIDE DEF T
  <1>4. /\ WorkerTypes' /\ at'[w] = "validating" /\ task'[w] = T /\ seen'[w] = S
        /\ \A v \in Workers \ {w} : at'[v] = at[v] /\ task'[v] = task[v] /\ seen'[v] = seen[v]
    <2> HIDE DEF S
    <2> QED BY <1>1, <1>2, <1>3 DEF WorkerTypes
  <1>5. inserted[w] = {} /\ results[w] = {}
    BY <1>1 DEF Transactions, Duty
  <1>6. item' = item
    BY <1>1 DEF tables
  <1>7. Duty(w)' /\ Writes(w)' /\ \A v \in Workers \ {w} : Apart(v, w)'
    BY <1>1, <1>2, <1>4, <1>5, <1>6 DEF Duty, Writes, Apart
  <1> QED
    BY <1>1, <1>4, <1>7, LocalStep DEF uploading

LEMMA StartProjectionStep ==
  ASSUME TableTypes, WorkerTypes, Tables, Transactions, NEW w \in Workers, StartProjection(w)
  PROVE  Preserves
  <1> DEFINE u == task[w].file
             S == {RowTarget(u, k) : k \in Valid(u)}
  <1>1. /\ at[w] = "validated" /\ at' = [at EXCEPT ![w] = "projecting"]
        /\ fileLock' = [fileLock EXCEPT ![u] = w]
        /\ task' = [task EXCEPT ![w] = [task[w] EXCEPT !.todo = S]]
        /\ UNCHANGED <<uploading, tables, itemLock, seen, inserted, results>>
    BY DEF StartProjection, Validated, RowTarget
  <1>2. Duty(w)
    BY DEF Transactions
  <1>3. u \in Uploads /\ task[w].item = NoItem /\ Itemised(u) /\ inserted[w] = {} /\ results[w] = {}
    BY <1>1, <1>2 DEF Duty
  <1>4. S \in SUBSET Target
    BY <1>3, TargetFacts
  <1>5. /\ [task[w] EXCEPT !.todo = S] \in Task
        /\ [task[w] EXCEPT !.todo = S].file = u /\ [task[w] EXCEPT !.todo = S].item = NoItem
        /\ [task[w] EXCEPT !.todo = S].todo = S
    <2> HIDE DEF S
    <2> QED BY <1>3, <1>4 DEF WorkerTypes, Task
  <1>6. /\ WorkerTypes' /\ at'[w] = "projecting"
        /\ task'[w].file = u /\ task'[w].item = NoItem /\ task'[w].todo = S
        /\ \A v \in Workers \ {w} : at'[v] = at[v] /\ task'[v] = task[v]
    <2> HIDE DEF S
    <2> QED BY <1>1, <1>3, <1>5 DEF WorkerTypes
  <1>7. Itemised(u)' /\ u # NoFile
    BY <1>1, <1>3, <1>6, IntakeConstants DEF Itemised, tables
  <1>8. Duty(w)'
    BY <1>6, <1>7 DEF Duty, Itemised
  <1>9. Writes(w)' /\ \A v \in Workers \ {w} : Apart(v, w)'
    BY <1>1, <1>3 DEF Writes, Apart
  <1> QED
    BY <1>1, <1>6, <1>8, <1>9, LocalStep DEF uploading

LEMMA ReinjectStep ==
  ASSUME TableTypes, WorkerTypes, Tables, Transactions,
         NEW w \in Workers, NEW i \in ItemIds, NEW row \in Corrections, Reinject(w, i, row)
  PROVE  Preserves
  <1> DEFINE c == TargetOf(i[1], row)
             T == [file |-> NoFile, item |-> i, todo |-> {c}]
  <1>1. /\ at[w] = "idle" /\ itemLock[i] = NoWorker /\ item[i] = "Pendiente"
        /\ itemLock' = [itemLock EXCEPT ![i] = w]
        /\ task' = [task EXCEPT ![w] = T] /\ at' = [at EXCEPT ![w] = "projecting"]
        /\ UNCHANGED <<uploading, tables, fileLock, seen, inserted, results>>
    BY DEF Reinject, RowFree
  <1>2. c \in Target /\ c.source = i[1]
    BY ItemShape, IntakeConstants DEF TargetOf, Target, Row
  <1> HIDE DEF c
  <1>3. T \in Task /\ T.file = NoFile /\ T.item = i /\ T.todo = {c}
    BY <1>2 DEF Task
  <1> HIDE DEF T
  <1>4. inserted[w] = {} /\ results[w] = {}
    BY <1>1 DEF Transactions, Duty
  <1>5. /\ WorkerTypes' /\ at'[w] = "projecting" /\ task'[w] = T /\ itemLock'[i] = w
        /\ \A v \in Workers \ {w} : at'[v] = at[v] /\ task'[v] = task[v]
        /\ \A j \in ItemIds \ {i} : itemLock'[j] = itemLock[j]
    BY <1>1, <1>3 DEF WorkerTypes
  <1>6. item' = item
    BY <1>1 DEF tables
  <1>7. Duty(w)'
    BY <1>1, <1>2, <1>3, <1>5, <1>6 DEF Duty
  <1>8. Writes(w)' /\ \A v \in Workers \ {w} : Apart(v, w)'
    BY <1>1, <1>4 DEF Writes, Apart
  <1>9. \A v \in Workers, j \in ItemIds : itemLock[j] = v => itemLock'[j] = v
    BY <1>1, <1>5, IntakeConstants
  <1> QED
    BY <1>1, <1>5, <1>7, <1>8, <1>9, LocalStep DEF uploading

(* The items of the rows that break their contract.                         *)
LEMMA FinishValidationStep ==
  ASSUME TableTypes, WorkerTypes, Tables, Transactions, NEW w \in Workers, FinishValidation(w)
  PROVE  Preserves
  <1> DEFINE u == task[w].file
             N == {ItemOf(u, k) : k \in Invalid(u) \ seen[w]}
  <1>1. /\ at[w] = "validating" /\ \A i \in N : item[i] = "NONE"
        /\ item' = [i \in ItemIds |-> IF i \in N THEN "Pendiente" ELSE item[i]]
        /\ at' = [at EXCEPT ![w] = "validated"]
        /\ UNCHANGED <<uploading, transitions, applied, entity, job, itemLock, fileLock, task, seen,
                       inserted, results>>
    BY DEF FinishValidation
  <1>2. Duty(w)
    BY DEF Transactions
  <1>3. /\ u \in Uploads /\ task[w].item = NoItem /\ task[w].todo = {}
        /\ inserted[w] = {} /\ results[w] = {}
        /\ \A k \in seen[w] : item[ItemOf(u, k)] # "NONE"
    BY <1>1, <1>2 DEF Duty
  <1>4. \A k \in Invalid(u) : ItemOf(u, k) \in ItemIds /\ k # 0
    BY <1>3, InvalidItems, RowFacts
  <1>5. \A i \in N : i[2] = NoEntity /\ i[1][2] # 0
    BY <1>4 DEF ItemOf
  <1>6. \A k \in Invalid(u) : item'[ItemOf(u, k)] # "NONE"
    <2>1. \A k \in Invalid(u) : k \notin seen[w] => ItemOf(u, k) \in N
      OBVIOUS
    <2> HIDE DEF N
    <2> QED BY <1>1, <1>3, <1>4, <2>1
  <1> HIDE DEF N
  <1>7. ItemsGrow
    BY <1>1 DEF ItemsGrow
  <1>8. TableTypes'
    BY <1>1 DEF TableTypes, ItemState
  <1>9. WorkerTypes' /\ at'[w] = "validated" /\ \A v \in Workers \ {w} : at'[v] = at[v]
    BY <1>1 DEF WorkerTypes
  <1>10. FileItems'
    <2>1. receipt' = receipt
      BY <1>1 DEF uploading
    <2>2. \A x \in Uploads : <<<<x, 0>>, NoEntity>> \in ItemIds
      BY ItemFacts, RowFacts DEF ItemOf
    <2>3. \A x \in Uploads : <<<<x, 0>>, NoEntity>>[1][2] = 0
      OBVIOUS
    <2>4. \A x \in Uploads : <<<<x, 0>>, NoEntity>> \notin N
      BY <1>5, <2>3
    <2> QED BY <1>1, <2>1, <2>2, <2>4 DEF Tables, FileItems
  <1>11. Tables'
    <2>1. \A i \in ItemIds : item'[i] = "Reinyectado" => item[i] = "Reinyectado"
      BY <1>1
    <2>2. \A i \in ItemIds : i[2] \in Entities /\ item'[i] # "NONE" => item[i] # "NONE"
      BY <1>1, <1>5, IntakeConstants
    <2> QED BY <1>1, <1>7, <1>10, <2>1, <2>2, ItemsStep
  <1>12. \A v \in Workers \ {w} : Spares(v)
    BY <1>1, <1>7, <1>9 DEF Spares, Transactions, Writes, Has
  <1>13. Duty(w)'
    BY <1>1, <1>3, <1>6, <1>9 DEF Duty, Itemised
  <1>14. Writes(w)' /\ \A v \in Workers \ {w} : Apart(v, w)'
    BY <1>1, <1>3 DEF Writes, Apart
  <1>15. Transactions'
    BY <1>12, <1>13, <1>14, OwnStep
  <1>16. SettlesOnce
    BY <1>1 DEF SettlesOnce, Settled
  <1> QED
    BY <1>8, <1>9, <1>11, <1>15, <1>16 DEF Preserves

(* A target that the worker has applied, now or before, is off its list.    *)
LEMMA PoppedDuty ==
  ASSUME WorkerTypes, NEW w \in Workers, Duty(w), Projecting(w), NEW c \in Target,
         task' = [task EXCEPT ![w].todo = @ \ {c}],
         UNCHANGED <<at, item, itemLock, applied>>,
         results[w] \subseteq results'[w],
         \E r \in applied' \cup results'[w] : r.source = c.source /\ r.entity = c.entity
  PROVE  /\ Duty(w)' /\ task' \in [Workers -> Task]
         /\ \A v \in Workers \ {w} : task'[v] = task[v]
  <1>0. PICK u, i, S : u = task[w].file /\ i = task[w].item /\ S = task[w].todo \ {c}
    OBVIOUS
  <1> DEFINE Then(s, e) == \E r \in applied' \cup results'[w] : r.source = s /\ r.entity = e
  <1>1. /\ task'[w].file = u /\ task'[w].item = i /\ task'[w].todo = S
        /\ task' \in [Workers -> Task] /\ \A v \in Workers \ {w} : task'[v] = task[v]
        /\ u \in Uploads \cup {NoFile}
    BY <1>0 DEF WorkerTypes, Task
  <1>2. Then(c.source, c.entity)
    OBVIOUS
  <1>3. \A s, e : Served(w, s, e) => Then(s, e)
    BY DEF Served
  <1>4. at'[w] = "projecting" /\ at[w] = "projecting"
    BY DEF Projecting
  <1> HIDE DEF Then
  <1>5. CASE u # NoFile
    <2>1. /\ i = NoItem /\ Itemised(u)
          /\ \A k \in Valid(u) : RowTarget(u, k) \in task[w].todo
                                    \/ Served(w, <<u, k>>, RowsOf(u)[k].entity)
      BY <1>0, <1>4, <1>5 DEF Duty
    <2>2. \A k \in Valid(u) : RowTarget(u, k) = c => Then(<<u, k>>, RowsOf(u)[k].entity)
      BY <1>1, <1>2, <1>5, TargetFacts
    <2>3. \A k \in Valid(u) : RowTarget(u, k) \in S \/ Then(<<u, k>>, RowsOf(u)[k].entity)
      BY <1>0, <1>3, <2>1, <2>2
    <2>4. \A k \in Invalid(u) : item'[ItemOf(u, k)] # "NONE"
      BY <2>1 DEF Itemised
    <2>5. Itemised(u)'
      BY <2>4 DEF Itemised
    <2>6. \A k \in Valid(u) : RowTarget(u, k) \in S \/ Served(w, <<u, k>>, RowsOf(u)[k].entity)'
      BY <2>3 DEF Served, Then
    <2>7. Duty(w)'
      BY <1>1, <1>4, <1>5, <2>1, <2>5, <2>6 DEF Duty
    <2> QED BY <1>1, <2>7
  <1>6. CASE u = NoFile
    <2>1. /\ i \in ItemIds /\ itemLock[i] = w /\ item[i] = "Pendiente"
          /\ \/ \E t \in task[w].todo : t.source = i[1]
             \/ \E e \in Entities : Served(w, i[1], e)
      BY <1>0, <1>4, <1>6 DEF Duty
    <2>2. c.entity \in Entities
      BY DEF Target
    <2>3. (\E t \in S : t.source = i[1]) \/ (\E e \in Entities : Then(i[1], e))
      BY <1>0, <1>2, <1>3, <2>1, <2>2
    <2>4. itemLock'[i] = w /\ item'[i] = "Pendiente"
      BY <2>1
    <2> QED BY <1>1, <1>4, <1>6, <2>1, <2>3, <2>4 DEF Duty, Served, Then
  <1> QED
    BY <1>1, <1>5, <1>6

LEMMA RepeatStep ==
  ASSUME TypeOK, TableTypes, WorkerTypes, Tables, Transactions, NEW w \in Workers, Repeat(w)
  PROVE  Preserves
  <1>1. /\ Projecting(w) /\ Pop(w)
        /\ UNCHANGED <<uploading, tables, itemLock, fileLock, at, seen, inserted, results>>
    BY DEF Repeat
  <1>2. PICK c : c = Current(w)
    OBVIOUS
  <1>3. c \in Target
    BY <1>1, <1>2, CurrentFacts
  <1>4. UNCHANGED <<item, applied, entity>>
    BY <1>1 DEF tables
  <1>5. \E r \in applied' \cup results'[w] : r.source = c.source /\ r.entity = c.entity
    BY <1>1, <1>2, <1>4 DEF Repeat, Known
  <1>6. task' = [task EXCEPT ![w].todo = @ \ {c}]
    BY <1>1, <1>2 DEF Pop
  <1>7. Duty(w) /\ Writes(w) /\ \A v \in Workers \ {w} : Apart(v, w)
    BY DEF Transactions, Apart, Duplicates
  <1>8. /\ Duty(w)' /\ task' \in [Workers -> Task]
        /\ \A v \in Workers \ {w} : task'[v] = task[v]
    BY <1>1, <1>3, <1>4, <1>5, <1>6, <1>7, PoppedDuty
  <1>9. WorkerTypes'
    BY <1>1, <1>8 DEF WorkerTypes
  <1>10. Writes(w)' /\ \A v \in Workers \ {w} : Apart(v, w)'
    BY <1>1, <1>4, <1>7 DEF Writes, Apart, Final, Inserts, Has
  <1> QED
    BY <1>1, <1>8, <1>9, <1>10, LocalStep DEF uploading

(* The application of a target, and the entity if there was none.           *)
LEMMA ProjectStep ==
  ASSUME TypeOK, TableTypes, WorkerTypes, Tables, Transactions, NEW w \in Workers, Project(w)
  PROVE  Preserves
  <1>1. /\ Projecting(w) /\ Free(w) /\ Known(w) = {} /\ Pop(w)
        /\ UNCHANGED <<uploading, tables, itemLock, fileLock, at, seen>>
    BY DEF Project
  <1>2. PICK c : c = Current(w)
    OBVIOUS
  <1>3. c \in Target /\ c.source \in SourceRecords /\ c.entity \in Entities /\ c.payload \in Payloads
    BY <1>1, <1>2, CurrentFacts DEF Target
  <1>4. UNCHANGED <<item, applied, entity>>
    BY <1>1 DEF tables
  <1>5. Duty(w) /\ Writes(w) /\ \A v \in Workers \ {w} : Apart(v, w)
    BY DEF Transactions, Apart, Duplicates
  <1>6. ~Has(c.source, c.entity) /\ \A r \in results[w] : ~(r.source = c.source /\ r.entity = c.entity)
    BY <1>1, <1>2 DEF Known, Has
  <1> DEFINE p == Final(w, c.entity)
  <1>7. /\ Stored(w) = p /\ p \in Payloads \cup {NoPayload}
        /\ p = NoPayload => ~Inserts(w, c.entity) /\ entity[c.entity] = NoPayload
    <2>1. Stored(w) = p
      BY <1>2 DEF Stored, Final, Inserts
    <2>2. CASE Inserts(w, c.entity)
      <3>1. PICK t \in inserted[w] : t = CHOOSE x \in inserted[w] : x.entity = c.entity
        BY <2>2 DEF Inserts
      <3>2. t.payload \in Payloads
        BY DEF WorkerTypes, Target
      <3> QED BY <2>1, <2>2, <3>1, <3>2, IntakeConstants DEF Final
    <2>3. CASE ~Inserts(w, c.entity)
      BY <1>3, <2>1, <2>3 DEF Final, TableTypes
    <2> QED BY <2>2, <2>3
  <1>8. PICK a : a = Applied(w, Outcome(w))
    OBVIOUS
  <1>9. /\ a \in Application
        /\ a.source = c.source /\ a.entity = c.entity /\ a.payload = c.payload
        /\ p = NoPayload => a.result = "INCORPORADO"
        /\ p # NoPayload => a.result \in {"IDEMPOTENTE", "CONFLICTO"}
        /\ p # NoPayload => (a.result = "CONFLICTO" <=> a.payload # p)
    <2>1. /\ Outcome(w) \in Result
          /\ p = NoPayload => Outcome(w) = "INCORPORADO"
          /\ p # NoPayload => Outcome(w) \in {"IDEMPOTENTE", "CONFLICTO"}
          /\ p # NoPayload => (Outcome(w) = "CONFLICTO" <=> c.payload # p)
      BY <1>2, <1>7 DEF Outcome, Result
    <2>2. a = [source |-> c.source, entity |-> c.entity, payload |-> c.payload, result |-> Outcome(w)]
      BY <1>2, <1>8 DEF Applied
    <2> HIDE DEF p
    <2> QED BY <1>3, <2>1, <2>2 DEF Application
  <1>10. /\ results' = [results EXCEPT ![w] = @ \cup {a}]
         /\ inserted' = IF p = NoPayload THEN [inserted EXCEPT ![w] = @ \cup {c}] ELSE inserted
         /\ task' = [task EXCEPT ![w].todo = @ \ {c}]
    BY <1>1, <1>2, <1>7, <1>8 DEF Project, Pop
  <1> HIDE DEF p
  <1>11. /\ results'[w] = results[w] \cup {a} /\ \A v \in Workers \ {w} : results'[v] = results[v]
         /\ inserted'[w] = IF p = NoPayload THEN inserted[w] \cup {c} ELSE inserted[w]
         /\ \A v \in Workers \ {w} : inserted'[v] = inserted[v]
         /\ results' \in [Workers -> SUBSET Application]
         /\ inserted' \in [Workers -> SUBSET Target]
    BY <1>3, <1>9, <1>10 DEF WorkerTypes
  <1>12. /\ Duty(w)' /\ task' \in [Workers -> Task]
         /\ \A v \in Workers \ {w} : task'[v] = task[v]
    <2>1. \E r \in applied' \cup results'[w] : r.source = c.source /\ r.entity = c.entity
      BY <1>9, <1>11
    <2> QED BY <1>1, <1>3, <1>4, <1>5, <1>10, <1>11, <2>1, PoppedDuty
  <1>13. WorkerTypes'
    BY <1>1, <1>11, <1>12 DEF WorkerTypes
  <1>14. \A v \in Workers \ {w} : Apart(v, w)'
    <2>1. ASSUME NEW v \in Workers \ {w}
          PROVE  /\ \A t \in inserted[v] : t.entity # c.entity
                 /\ \A r \in results[v] : ~(r.source = c.source /\ r.entity = c.entity)
      BY <1>1, <1>2, <2>1 DEF Free, WaitsFor
    <2> QED BY <1>5, <1>9, <1>11, <2>1 DEF Apart, Duplicates
  (* What the transaction had is compared with what it was compared with.   *)
  <1>15. \A r \in results[w] :
            Final(w, r.entity)' = Final(w, r.entity) /\ Final(w, r.entity) # NoPayload
    <2>1. ASSUME NEW r \in results[w]
          PROVE  Final(w, r.entity)' = Final(w, r.entity) /\ Final(w, r.entity) # NoPayload
      <3>1. Final(w, r.entity) # NoPayload /\ r.entity \in Entities
        BY <1>5, <2>1 DEF Writes, WorkerTypes, Application
      <3>2. CASE p = NoPayload
        <4>1. r.entity # c.entity
          BY <3>1, <3>2 DEF p
        <4>2. inserted'[w] = inserted[w] \cup {c} /\ entity' = entity
          BY <1>4, <1>11, <3>2
        <4>3. \A t : t \in inserted'[w] /\ t.entity = r.entity <=> t \in inserted[w] /\ t.entity = r.entity
          BY <4>1, <4>2
        <4>4. Inserts(w, r.entity)' <=> Inserts(w, r.entity)
          BY <4>3 DEF Inserts
        <4>5. CASE Inserts(w, r.entity)
          <5>1. PICK t \in inserted[w] : t.entity = r.entity
            BY <4>5 DEF Inserts
          <5>2. \A o \in inserted[w] : o.entity = r.entity => o = t
            BY <1>5, <5>1 DEF Writes
          <5>3. \A o \in inserted'[w] : o.entity = r.entity => o = t
            BY <4>3, <5>2
          <5>4. (CHOOSE o \in inserted[w] : o.entity = r.entity) = t
            BY <5>1, <5>2
          <5>5. (CHOOSE o \in inserted'[w] : o.entity = r.entity) = t
            BY <4>2, <5>1, <5>3
          <5>6. Final(w, r.entity) = t.payload
            BY <4>5, <5>4 DEF Final
          <5>7. Final(w, r.entity)' = t.payload
            BY <4>4, <4>5, <5>5 DEF Final
          <5> QED BY <3>1, <5>6, <5>7
        <4>6. CASE ~Inserts(w, r.entity)
          BY <3>1, <4>2, <4>4, <4>6 DEF Final
        <4> QED BY <4>5, <4>6
      <3>3. CASE p # NoPayload
        BY <1>4, <1>11, <3>1, <3>3 DEF Final, Inserts
      <3> QED BY <3>2, <3>3
    <2> QED BY <2>1
  <1>16. Final(w, c.entity)' = IF p = NoPayload THEN c.payload ELSE p
    <2>1. CASE p = NoPayload
      <3>1. \A t \in inserted'[w] : t.entity = c.entity <=> t = c
        BY <1>7, <1>11, <2>1 DEF Inserts
      <3>2. (CHOOSE t \in inserted'[w] : t.entity = c.entity) = c
        BY <1>11, <2>1, <3>1
      <3> QED BY <1>11, <2>1, <3>2 DEF Final, Inserts
    <2>2. CASE p # NoPayload
      BY <1>4, <1>11, <2>2 DEF Final, Inserts, p
    <2> QED BY <2>1, <2>2
  <1>17. Writes(w)'
    <2>1. \A t, o \in inserted'[w] : t.entity = o.entity => t = o
      BY <1>5, <1>7, <1>11 DEF Writes, Inserts
    <2>2. \A t \in inserted'[w] : entity'[t.entity] = NoPayload /\ Incorporation(t) \in results'[w]
      <3>1. p = NoPayload => Incorporation(c) = a
        BY <1>9 DEF Incorporation, Application
      <3> QED BY <1>4, <1>5, <1>7, <1>11, <3>1 DEF Writes
    <2>3. \A r \in results'[w] : ~Has(r.source, r.entity)'
      BY <1>4, <1>5, <1>6, <1>9, <1>11 DEF Writes, Has
    <2>4. \A r \in results'[w] : r.result = "INCORPORADO" => TargetIn(r) \in inserted'[w]
      <3>1. TargetIn(a) = c
        BY <1>3, <1>9 DEF TargetIn, Target
      <3> QED BY <1>5, <1>9, <1>11, <3>1 DEF Writes
    <2>5. \A r \in results[w] : /\ Final(w, r.entity)' # NoPayload
                                /\ r.result = "CONFLICTO" <=> r.payload # Final(w, r.entity)'
      BY <1>5, <1>15 DEF Writes
    <2>6. Final(w, c.entity)' # NoPayload /\ (a.result = "CONFLICTO" <=> a.payload # Final(w, c.entity)')
      BY <1>3, <1>9, <1>16, IntakeConstants
    <2>7. \A r \in results'[w] : /\ Final(w, r.entity)' # NoPayload
                                 /\ r.result = "CONFLICTO" <=> r.payload # Final(w, r.entity)'
      BY <1>9, <1>11, <2>5, <2>6
    <2> QED BY <2>1, <2>2, <2>3, <2>4, <2>7 DEF Writes
  <1> QED
    BY <1>1, <1>11, <1>12, <1>13, <1>14, <1>17, LocalStep DEF uploading

(* The commit.  What an entity becomes is what the transaction compared     *)
(* with, and one row of it incorporated the entity.                         *)
LEMMA CommittedEntry ==
  ASSUME TableTypes, WorkerTypes, Tables, NEW w \in Workers, Writes(w), ItemsGrow,
         applied' = applied \cup results[w],
         \A r \in results[w] : r.result = "CONFLICTO" => item'[<<r.source, r.entity>>] # "NONE",
         NEW e \in Entities, entity'[e] = Final(w, e)
  PROVE  Entry(e)'
  <1>1. Entry(e)
    BY DEF Tables
  <1>2. \A r \in applied : r.entity = e => <<r.source, e>> \in ItemIds
    BY DEF TableTypes, Application, ItemIds
  <1>3. \A r \in applied : r.entity = e /\ r.result = "CONFLICTO" => item'[<<r.source, e>>] # "NONE"
    BY <1>1, <1>2 DEF Entry, ItemsGrow
  <1>4. CASE ~Inserts(w, e)
    <2>1. entity'[e] = entity[e]
      BY <1>4 DEF Final
    <2>2. \A r \in results[w] : r.entity = e => r.result # "INCORPORADO"
      BY <1>4 DEF Writes, Inserts, TargetIn
    <2>3. Incorporated(e)' = Incorporated(e)
      BY <2>2 DEF Incorporated
    <2>4. \A r \in results[w] : r.entity = e =>
             /\ entity[e] # NoPayload /\ (r.result = "CONFLICTO" <=> r.payload # entity[e])
             /\ r.result = "CONFLICTO" => item'[<<r.source, e>>] # "NONE"
      BY <1>4 DEF Writes, Final
    <2>5. \A r \in applied' : r.entity = e =>
             /\ entity'[e] # NoPayload /\ (r.result = "CONFLICTO" <=> r.payload # entity'[e])
             /\ r.result = "CONFLICTO" => item'[<<r.source, e>>] # "NONE"
      BY <1>1, <1>3, <2>1, <2>4 DEF Entry
    <2>6. /\ entity'[e] = NoPayload => Incorporated(e)' = {}
          /\ entity'[e] # NoPayload => \E r \in applied' : Incorporated(e)' = {r}
      BY <1>1, <2>1, <2>3 DEF Entry
    <2> QED BY <2>5, <2>6 DEF Entry
  <1>5. CASE Inserts(w, e)
    <2>1. PICK t \in inserted[w] : t.entity = e
      BY <1>5 DEF Inserts
    <2>2. \A o \in inserted[w] : o.entity = e => o = t
      BY <2>1 DEF Writes
    <2>3. (CHOOSE o \in inserted[w] : o.entity = e) = t
      BY <2>1, <2>2
    <2>4. Final(w, e) = t.payload
      BY <1>5, <2>3 DEF Final
    <2>5. t \in Target /\ t.payload # NoPayload
      BY <2>1, IntakeConstants DEF WorkerTypes, Target
    <2>6. entity[e] = NoPayload /\ Incorporation(t) \in results[w]
      BY <2>1 DEF Writes
    <2>7. \A r \in applied : r.entity # e
      BY <1>1, <2>6 DEF Entry
    <2>8. \A r \in results[w] : r.entity = e =>
             /\ r.result = "CONFLICTO" <=> r.payload # t.payload
             /\ r.result = "INCORPORADO" => r = Incorporation(t)
      <3>1. ASSUME NEW r \in results[w], r.entity = e, r.result = "INCORPORADO"
            PROVE  r = Incorporation(t)
        <4>1. TargetIn(r) \in inserted[w] /\ TargetIn(r).entity = e
          BY <3>1 DEF Writes, TargetIn
        <4>2. TargetIn(r) = t /\ r \in Application
          BY <2>2, <4>1 DEF WorkerTypes
        <4>3. t.source = r.source /\ t.entity = r.entity /\ t.payload = r.payload
          BY <4>2 DEF TargetIn
        <4> QED BY <3>1, <4>2, <4>3 DEF Incorporation, Application
      <3>2. \A r \in results[w] : r.entity = e => (r.result = "CONFLICTO" <=> r.payload # t.payload)
        BY <2>4 DEF Writes
      <3> QED BY <3>1, <3>2
    <2>9. Incorporation(t).entity = e /\ Incorporation(t).result = "INCORPORADO"
      BY <2>1 DEF Incorporation
    <2>10. Incorporated(e)' = {Incorporation(t)} /\ Incorporation(t) \in applied'
      BY <2>6, <2>7, <2>8, <2>9 DEF Incorporated
    <2>11. \A r \in applied' : r.entity = e =>
             /\ entity'[e] # NoPayload /\ (r.result = "CONFLICTO" <=> r.payload # entity'[e])
             /\ r.result = "CONFLICTO" => item'[<<r.source, e>>] # "NONE"
      BY <2>4, <2>5, <2>7, <2>8
    <2> QED BY <2>4, <2>5, <2>10, <2>11 DEF Entry
  <1> QED
    BY <1>4, <1>5

LEMMA CommitProjectionStep ==
  ASSUME TableTypes, WorkerTypes, Tables, Transactions, NEW w \in Workers,
         CommitProjection(w)
  PROVE  Preserves
  <1>0. PICK u, i : u = task[w].file /\ i = task[w].item
    OBVIOUS
  <1> DEFINE C == ConflictItems(w)
  <1>1. /\ at[w] = "projecting" /\ task[w].todo = {}
        /\ applied' = applied \cup results[w]
        /\ \A e \in Entities : entity'[e] = Final(w, e)
        /\ item' = [x \in ItemIds |-> IF x \in C THEN "Pendiente"
                                      ELSE IF x = i THEN "Reinyectado" ELSE item[x]]
        /\ transitions' = [x \in ItemIds |-> transitions[x] + IF x = i THEN 1 ELSE 0]
        /\ job' = job \cup ({u} \ {NoFile})
        /\ Release(w) /\ UNCHANGED uploading
    BY <1>0 DEF CommitProjection, Transition, Final, Inserts
  <1>2. Duty(w) /\ Writes(w) /\ \A v \in Workers \ {w} : Apart(v, w)
    BY DEF Transactions, Apart, Duplicates
  <1>3. \A r \in results[w] :
           /\ r.source \in SourceRecords /\ r.entity \in Entities /\ r \in Application
           /\ <<r.source, r.entity>> \in ItemIds /\ <<r.source, r.entity>>[2] = r.entity
    BY DEF WorkerTypes, Application, ItemIds
  (* An item of a conflict is new, and the one that is corrected is held.   *)
  <1>4. \A x \in C : x[2] \in Entities /\ item[x] = "NONE"
    <2>1. ASSUME NEW r \in results[w]
          PROVE  item[<<r.source, r.entity>>] = "NONE"
      <3>1. ~Has(r.source, r.entity)
        BY <1>2 DEF Writes
      <3> QED BY <1>3, <3>1 DEF Tables, ConflictsApplied
    <2> QED BY <1>3, <2>1 DEF ConflictItems
  <1>5. i \in ItemIds => item[i] = "Pendiente" /\ itemLock[i] = w /\ u = NoFile
    BY <1>0, <1>1, <1>2, ItemShape DEF Duty
  <1>6. \A r \in results[w] : r.result = "CONFLICTO" => <<r.source, r.entity>> \in C
    BY DEF ConflictItems
  <1> HIDE DEF C
  <1>7. \A r \in results[w] : r.result = "CONFLICTO" => item'[<<r.source, r.entity>>] # "NONE"
    BY <1>1, <1>3, <1>6
  <1>8. ItemsGrow /\ SettlesOnce
    <2>1. ItemsGrow
      BY <1>1, <1>4, <1>5 DEF ItemsGrow
    <2>2. transitions \in [ItemIds -> Nat]
      BY DEF TableTypes
    <2>3. i \in ItemIds => Settles(i)
      BY <1>1, <1>4, <1>5, <2>2 DEF Settles, Settled
    <2>4. \A x \in ItemIds : x # i => transitions'[x] = transitions[x] /\ Settled(x)' = Settled(x)
      BY <1>1, <1>4, <2>2 DEF Settled
    <2> QED BY <2>1, <2>3, <2>4 DEF SettlesOnce
  <1>9. u \in Uploads \cup {NoFile}
    BY <1>0 DEF WorkerTypes, Task
  <1>10. TableTypes'
    <2>1. \A e \in Entities : Final(w, e) \in Payloads \cup {NoPayload}
      <3>1. ASSUME NEW e \in Entities, Inserts(w, e)
            PROVE  (CHOOSE t \in inserted[w] : t.entity = e).payload \in Payloads
        <4>1. PICK t \in inserted[w] : t = CHOOSE x \in inserted[w] : x.entity = e
          BY <3>1 DEF Inserts
        <4> QED BY <4>1 DEF WorkerTypes, Target
      <3> QED BY <3>1 DEF Final, TableTypes
    <2>2. entity' \in [Entities -> Payloads \cup {NoPayload}]
      <3>1. entity' = [e \in Entities |-> Final(w, e)]
        BY DEF CommitProjection, Final, Inserts
      <3> QED BY <2>1, <3>1
    <2>3. item' \in [ItemIds -> ItemState]
      BY <1>1 DEF TableTypes, ItemState
    <2>4. transitions' \in [ItemIds -> Nat]
      BY <1>1 DEF TableTypes
    <2> QED BY <1>1, <1>9, <2>2, <2>3, <2>4 DEF TableTypes, WorkerTypes
  <1>11. \A s, e : Has(s, e) \/ (\E r \in results[w] : r.source = s /\ r.entity = e) => Has(s, e)'
    BY <1>1 DEF Has
  <1>12. FileItems'
    <2>1. \A x \in Uploads : <<<<x, 0>>, NoEntity>> \in ItemIds /\ <<<<x, 0>>, NoEntity>>[2] = NoEntity
      BY ItemFacts, RowFacts DEF ItemOf
    <2>2. \A x \in Uploads : <<<<x, 0>>, NoEntity>> \notin C
      BY <1>4, <2>1, IntakeConstants
    <2>3. receipt' = receipt
      BY <1>1 DEF uploading
    <2> QED BY <1>1, <1>5, <2>1, <2>2, <2>3 DEF Tables, FileItems
  <1>13. ConflictsApplied'
    <2>1. ASSUME NEW s \in SourceRecords, NEW e \in Entities, item'[<<s, e>>] # "NONE"
          PROVE  Has(s, e)'
      <3>1. <<s, e>> \in ItemIds
        BY DEF ItemIds
      <3>2. CASE <<s, e>> \in C
        BY <1>11, <3>2 DEF C, ConflictItems
      <3>3. CASE <<s, e>> \notin C
        <4>1. item[<<s, e>>] # "NONE"
          BY <1>1, <1>5, <2>1, <3>1, <3>3
        <4> QED BY <1>11, <4>1 DEF Tables, ConflictsApplied
      <3> QED BY <3>2, <3>3
    <2> QED BY <2>1 DEF ConflictsApplied
  <1>14. EveryRecordIsAccounted'
    <2>1. ASSUME NEW x \in job'
          PROVE  /\ \A k \in Valid(x) : Has(<<x, k>>, RowsOf(x)[k].entity)'
                 /\ \A k \in Invalid(x) : item'[ItemOf(x, k)] # "NONE"
      <3>1. x \in Uploads
        BY <1>10 DEF TableTypes
      <3>2. \A k \in Invalid(x) : item[ItemOf(x, k)] # "NONE" => item'[ItemOf(x, k)] # "NONE"
        BY <1>8, <3>1, InvalidItems DEF ItemsGrow
      <3>3. CASE x \in job
        BY <1>11, <3>2, <3>3 DEF Tables, EveryRecordIsAccounted
      <3>4. CASE x = u /\ u # NoFile
        <4>1. Itemised(u) /\ \A k \in Valid(u) : Served(w, <<u, k>>, RowsOf(u)[k].entity)
          BY <1>0, <1>1, <1>2, <3>4 DEF Duty
        <4> QED BY <1>1, <3>2, <3>4, <4>1 DEF Served, Has, Itemised
      <3> QED BY <1>1, <3>3, <3>4
    <2>2. ASSUME NEW x \in ItemIds, item'[x] = "Reinyectado"
          PROVE  \E e \in Entities : Has(x[1], e)'
      <3>1. CASE x = i
        <4>1. at[w] = "projecting" /\ task[w].file = NoFile /\ task[w].todo = {}
          BY <1>0, <1>1, <1>5, <3>1
        <4>2. \E e \in Entities : Served(w, i[1], e)
          BY <1>0, <1>2, <4>1 DEF Duty
        <4> QED BY <1>1, <3>1, <4>2 DEF Served, Has
      <3>2. CASE item[x] = "Reinyectado"
        BY <1>11, <3>2 DEF Tables, EveryRecordIsAccounted
      <3> QED BY <1>1, <2>2, <3>1, <3>2
    <2> QED BY <2>1, <2>2 DEF EveryRecordIsAccounted
  <1>15. Tables'
    BY <1>1, <1>2, <1>7, <1>8, <1>12, <1>13, <1>14, CommittedEntry DEF Tables
  <1>16. ASSUME NEW v \in Workers \ {w}
         PROVE  Spares(v)
    <2>1. /\ at'[v] = at[v] /\ task'[v] = task[v] /\ seen'[v] = seen[v]
          /\ inserted'[v] = inserted[v] /\ results'[v] = results[v]
          /\ \A x \in ItemIds : itemLock[x] = v => itemLock'[x] = v
      BY <1>1, ReleaseFacts
    <2>2. \A x \in ItemIds : itemLock[x] = v /\ item[x] = "Pendiente" => item'[x] = "Pendiente"
      BY <1>1, <1>5
    <2>3. \A e \in Entities :
             entity'[e] # entity[e] => entity[e] = NoPayload /\ \A t \in inserted[v] : t.entity # e
      <3>1. \A e \in Entities : entity'[e] # entity[e] => Inserts(w, e)
        BY <1>1 DEF Final
      <3> QED BY <1>2, <3>1 DEF Inserts, Writes, Apart
    <2>4. \A r \in results[v] : ~Has(r.source, r.entity)'
      <3>1. Writes(v) /\ Apart(v, w)
        BY <1>2 DEF Transactions
      <3> QED BY <1>1, <3>1 DEF Writes, Apart, Duplicates, Has
    <2> QED BY <1>1, <1>8, <2>1, <2>2, <2>3, <2>4 DEF Spares
  <1>17. Transactions'
    BY <1>1, <1>16, ReleaseFacts, OwnStep
  <1> QED
    BY <1>1, <1>8, <1>10, <1>15, <1>17, ReleaseFacts DEF Preserves

LEMMA ProcessStep ==
  ASSUME TypeOK, TableTypes, WorkerTypes, Tables, Transactions, NEW w \in Workers, Process(w)
  PROVE  Preserves /\ UNCHANGED <<stage, answer, object, receipt, next, sourceLock, excused>>
         /\ faults' \in Nat
  <1>1. /\ UNCHANGED <<stage, answer, object, receipt, next, sourceLock, excused>>
        /\ faults' \in Nat
    <2>1. CASE Abort(w)
      BY <2>1 DEF Abort, TypeOK
    <2>2. CASE UNCHANGED uploading
      BY <2>2 DEF uploading, TypeOK
    <2> QED
      BY <2>1, <2>2 DEF Process, StartValidation, FinishValidation, CollideItem, FindJob,
         StartProjection, Project, Repeat, Mismatch, CommitProjection, DeadlockAbort, Reinject
  <1>2. CASE CollideItem(w) \/ FindJob(w) \/ Mismatch(w) \/ DeadlockAbort(w) \/ Abort(w)
    <2>1. Release(w) /\ UNCHANGED <<tables, receipt>>
      BY <1>1, <1>2 DEF CollideItem, FindJob, Mismatch, DeadlockAbort, Abort
    <2> QED BY <1>1, <2>1, RollBackStep
  <1> QED
    BY <1>1, <1>2, StartValidationStep, FinishValidationStep, StartProjectionStep, ProjectStep,
       RepeatStep, CommitProjectionStep, ReinjectStep
       DEF Process

-----------------------------------------------------------------------------
(* Items and receipts *)

LEMMA DiscardStep ==
  ASSUME TableTypes, WorkerTypes, Tables, Transactions, NEW i \in ItemIds, Discard(i)
  PROVE  Preserves
  <1>1. /\ itemLock[i] = NoWorker /\ item[i] = "Pendiente"
        /\ item' = [item EXCEPT ![i] = "Descartado"]
        /\ transitions' = [j \in ItemIds |-> transitions[j] + IF j = i THEN 1 ELSE 0]
        /\ UNCHANGED <<uploading, applied, entity, job, itemLock, fileLock, locals>>
    BY DEF Discard, Transition, RowFree
  <1>2. /\ TableTypes' /\ item'[i] = "Descartado" /\ \A j \in ItemIds \ {i} : item'[j] = item[j]
    BY <1>1 DEF TableTypes, ItemState
  <1>3. WorkerTypes'
    BY <1>1 DEF WorkerTypes, locals
  <1>4. ItemsGrow /\ SettlesOnce
    <2>1. Settles(i)
      BY <1>1, <1>2 DEF Settles, Settled
    <2>2. \A j \in ItemIds \ {i} : transitions'[j] = transitions[j]
      BY <1>1 DEF TableTypes
    <2> QED BY <1>1, <1>2, <2>1, <2>2 DEF ItemsGrow, SettlesOnce, Settled
  <1>5. FileItems'
    <2>1. \A x \in Uploads : <<<<x, 0>>, NoEntity>> \in ItemIds
      BY ItemFacts, RowFacts DEF ItemOf
    <2> QED BY <1>1, <1>2, <2>1 DEF uploading, Tables, FileItems
  <1>6. Tables'
    BY <1>1, <1>2, <1>4, <1>5, ItemsStep
  <1>7. \A v \in Workers : Spares(v)
    BY <1>1, <1>2, <1>4, IntakeConstants DEF Spares, locals, Transactions, Writes, Has
  <1> QED
    BY <1>2, <1>3, <1>4, <1>6, <1>7, SparedStep DEF Preserves

LEMMA ReceiveTables ==
  ASSUME TableTypes, WorkerTypes, UploadTypes, Reception, Tables, Transactions,
         NEW u \in Uploads, Receive(u), UploadTypes'
  PROVE  Preserves
  <1>1. CASE UNCHANGED <<processing, receipt>>
    <2>1. TableTypes' /\ Tables' /\ ItemsGrow
      BY <1>1, TablesKept DEF processing
    <2>2. \A v \in Workers : Spares(v)
      BY <1>1, <2>1 DEF Spares, processing, tables, locals, Transactions, Writes, Has
    <2> QED
      BY <1>1, <2>1, <2>2, SparedStep
         DEF Preserves, WorkerTypes, SettlesOnce, Settled, processing, tables, locals
  <1>2. CASE stage[u] = "inserting" /\ Received(u)
    <2> DEFINE n == <<<<u, 0>>, NoEntity>>
    <2>1. receipt[u] = 0
      BY <1>2 DEF Reception, Upload
    <2>2. \A x \in Uploads : <<<<x, 0>>, NoEntity>> \in ItemIds
      BY ItemFacts, RowFacts DEF ItemOf
    <2>3. item[n] = "NONE" /\ n \in ItemIds /\ n[2] \notin Entities
      BY <2>1, <2>2, IntakeConstants DEF Tables, FileItems
    <2>4. /\ UNCHANGED <<transitions, applied, entity, job, itemLock, fileLock, locals>>
          /\ receipt' = [receipt EXCEPT ![u] = next[u]]
          /\ item' = item \/ item' = [item EXCEPT ![n] = "Pendiente"]
      BY <1>2 DEF Received
    <2>5. \A x \in Uploads \ {u} : receipt'[x] = receipt[x]
      BY <2>4 DEF UploadTypes
    <2>6. receipt'[u] # 0
      BY <1>2, <2>4, NewReceipt
    <2>7. \A x \in Uploads \ {u} : <<<<x, 0>>, NoEntity>> # n
      OBVIOUS
    <2> HIDE DEF n
    <2>8. TableTypes' /\ \A j \in ItemIds : item'[j] = item[j] \/ (j = n /\ item'[j] = "Pendiente")
      BY <2>4 DEF TableTypes, ItemState
    <2>9. WorkerTypes'
      BY <2>4 DEF WorkerTypes, locals
    <2>10. ItemsGrow /\ SettlesOnce
      BY <2>3, <2>4, <2>8 DEF ItemsGrow, SettlesOnce, Settled
    <2>11. FileItems'
      BY <2>2, <2>5, <2>6, <2>7, <2>8 DEF Tables, FileItems
    <2>12. Tables'
      <3>1. \A j \in ItemIds : item'[j] = "Reinyectado" => item[j] = "Reinyectado"
        BY <2>8
      <3>2. \A j \in ItemIds : j[2] \in Entities /\ item'[j] # "NONE" => item[j] # "NONE"
        BY <2>3, <2>8
      <3> QED BY <2>4, <2>10, <2>11, <3>1, <3>2, ItemsStep
    <2>13. \A v \in Workers : Spares(v)
      BY <2>4, <2>8, <2>10 DEF Spares, locals, Transactions, Writes, Has
    <2> QED
      BY <2>8, <2>9, <2>10, <2>12, <2>13, SparedStep DEF Preserves
  <1> QED
    BY <1>1, <1>2 DEF Receive, Stage, Deny, LeaveDenied, LoseDenial, LookUp, FindExisting,
       InsertFile, CollideFile, FailUpload, LoseCommit, CrashUpload

-----------------------------------------------------------------------------
(* The invariant *)

LEMMA InitInv == Init => IInv
  <1> SUFFICES ASSUME Init
               PROVE  IInv
    OBVIOUS
  <1>1. NoTask \in Task
    BY DEF NoTask, Task
  <1>2. UploadTypes
    BY IntakeConstants DEF Init, UploadTypes, Stages, Answers
  <1>3. TableTypes
    BY DEF Init, TableTypes, ItemState
  <1>4. WorkerTypes
    BY <1>1 DEF Init, WorkerTypes
  <1>5. Reception
    <2>1. \A s \in Sources : Receipts(s) = {}
      BY DEF Init, Receipts
    <2>2. \A s \in Sources : Revisions(s)
      BY <2>1, FS_EmptySet DEF Revisions
    <2>3. \A u \in Uploads : Upload(u)
      BY DEF Init, Upload, Kept
    <2> QED BY <2>2, <2>3 DEF Reception
  <1>6. Tables
    <2>1. FileItems
      BY ItemFacts, RowFacts DEF Init, FileItems, ItemOf
    <2>2. ConflictsApplied
      BY DEF Init, ConflictsApplied, ItemIds
    <2>3. EveryRecordIsAccounted
      BY DEF Init, EveryRecordIsAccounted
    <2>4. \A e \in Entities : Entry(e)
      BY DEF Init, Entry, Incorporated
    <2> QED BY <2>1, <2>2, <2>3, <2>4 DEF Tables
  <1>7. Transactions
    BY DEF Init, Transactions, Duty, Writes, Apart
  <1> QED
    BY <1>2, <1>3, <1>4, <1>5, <1>6, <1>7, Types DEF IInv

LEMMA NextInv == IInv /\ [Next]_vars => IInv' /\ SettlesOnce
  <1> SUFFICES ASSUME IInv, [Next]_vars
               PROVE  IInv' /\ SettlesOnce
    OBVIOUS
  <1>1. UploadTypes /\ TableTypes /\ WorkerTypes /\ Reception /\ Tables /\ Transactions /\ TypeOK
    BY Types DEF IInv
  <1>2. ASSUME UNCHANGED <<stage, answer, object, receipt, next, sourceLock, excused>>,
               faults' \in Nat
        PROVE  UploadTypes' /\ Reception'
    <2>1. UploadTypes' /\ \A s \in Sources : Receipts(s)' = Receipts(s)
      BY <1>1, <1>2 DEF UploadTypes, Receipts
    <2>2. \A s \in Sources : Revisions(s)'
      BY <1>1, <1>2, <2>1 DEF Reception, Revisions
    <2>3. ASSUME NEW u \in Uploads
          PROVE  Upload(u)'
      <3>1. /\ SameKey(u)' = SameKey(u) /\ SameContent(u)' = SameContent(u)
            /\ NextRevision(SourceOf[u])' = NextRevision(SourceOf[u])
        BY <2>1, SourceType DEF SameKey, SameContent, NextRevision
      <3>2. Upload(u)
        BY <1>1 DEF Reception
      <3> QED BY <1>2, <3>1, <3>2 DEF Upload, Kept, TooLarge
    <2> QED BY <2>1, <2>2, <2>3 DEF Reception
  <1>3. UploadTypes' /\ Reception' /\ Preserves => IInv' /\ SettlesOnce
    BY DEF IInv, Preserves, TypeOK, UploadTypes, TableTypes, WorkerTypes
  <1>4. CASE UNCHANGED vars
    <2>1. /\ UNCHANGED <<uploading, tables, itemLock, fileLock, locals>>
          /\ UNCHANGED <<tables, receipt>>
      BY <1>4 DEF vars, processing, uploading
    <2>2. TableTypes' /\ Tables' /\ ItemsGrow
      BY <1>1, <2>1, TablesKept
    <2>3. \A v \in Workers : Spares(v)
      BY <1>1, <2>1, <2>2 DEF Spares, tables, locals, Transactions, Writes, Has
    <2>4. WorkerTypes' /\ SettlesOnce
      BY <1>1, <2>1 DEF WorkerTypes, SettlesOnce, Settled, tables, locals
    <2>5. Preserves
      BY <1>1, <2>2, <2>3, <2>4, SparedStep DEF Preserves
    <2>6. UploadTypes' /\ Reception'
      BY <1>1, <1>2, <2>1 DEF uploading, UploadTypes
    <2> QED BY <1>3, <2>5, <2>6
  <1>5. CASE \E u \in Uploads : Receive(u)
    BY <1>1, <1>3, <1>5, ReceiveStep, ReceiveTables
  <1>6. CASE \E w \in Workers : Process(w)
    BY <1>1, <1>2, <1>3, <1>6, ProcessStep
  <1>7. CASE \E i \in ItemIds : Discard(i)
    <2>1. PICK i \in ItemIds : Discard(i)
      BY <1>7
    <2>2. UNCHANGED <<stage, answer, object, receipt, next, sourceLock, excused>> /\ faults' = faults
      BY <2>1 DEF Discard, uploading
    <2> QED BY <1>1, <1>2, <1>3, <2>1, <2>2, DiscardStep DEF UploadTypes
  <1> QED
    BY <1>4, <1>5, <1>6, <1>7 DEF Next

(* What every state of a behaviour satisfies.                               *)
THEOREM Invariance == Spec => []IInv
  <1>1. IInv /\ [Next]_vars => IInv'
    BY NextInv
  <1> QED BY <1>1, InitInv, PTL DEF Spec

(* The uploads, the tables and what the workers hold are typed.             *)
THEOREM Typing == Spec => []TypeOK
  <1>1. IInv => TypeOK
    BY DEF IInv
  <1> QED BY <1>1, Invariance, PTL

(* Whatever uploads come at once, fail or are repeated, every receipt has   *)
(* its object and no object is left without one, revisions follow each      *)
(* other, and no unique index is met but by a key spent on a file above the *)
(* limit.                                                                   *)
THEOREM UploadsSound == Spec => []UploadsAreSound
  <1>1. IInv => UploadsAreSound
    BY DEF IInv, Reception, Upload, Revisions, UploadsAreSound, ObjectsMatchReceipts,
       UploadsNeverCollide, Kept
  <1> QED BY <1>1, Invariance, PTL

(* A file that has its job has an application of every valid row and an     *)
(* item of every other, whatever was interrupted, repeated or done at once, *)
(* and an item is never marked as reinjected without an application.        *)
THEOREM RecordsAccounted == Spec => []EveryRecordIsAccounted
  <1>1. IInv => EveryRecordIsAccounted
    BY DEF IInv, Tables
  <1> QED BY <1>1, Invariance, PTL

(* One record incorporated each entity, whichever transactions raced, and   *)
(* every other one agrees with it or is a conflict with an item.            *)
THEOREM EntitiesIncorporatedOnce == Spec => []EntityIsItsIncorporation
  <1>1. IInv => EntityIsItsIncorporation
    <2> SUFFICES ASSUME IInv, NEW e \in Entities
                 PROVE  LET of == {r \in applied : r.entity = e} IN
                        /\ Cardinality({r \in of : r.result = "INCORPORADO"})
                              = IF entity[e] = NoPayload THEN 0 ELSE 1
                        /\ \A r \in of :
                              /\ r.result = "CONFLICTO" <=> r.payload # entity[e]
                              /\ r.result = "CONFLICTO" => item[<<r.source, e>>] # "NONE"
      BY DEF EntityIsItsIncorporation
    <2>1. Entry(e)
      BY DEF IInv, Tables
    <2>2. Cardinality(Incorporated(e)) = IF entity[e] = NoPayload THEN 0 ELSE 1
      BY <2>1, FS_EmptySet, FS_Singleton DEF Entry
    <2>3. {r \in {q \in applied : q.entity = e} : r.result = "INCORPORADO"} = Incorporated(e)
      BY DEF Incorporated
    <2> QED BY <2>1, <2>2, <2>3 DEF Entry
  <1> QED BY <1>1, Invariance, PTL

(* Of the corrections and the discards of an item at most one ever commits, *)
(* whichever race: a settled item has one transition out of Pendiente, any  *)
(* other item none.                                                         *)
THEOREM SettledOnce == Spec => []ItemsSettleOnce
  <1>1. Init => ItemsSettleOnce
    BY DEF Init, ItemsSettleOnce
  <1>2. ItemsSettleOnce /\ SettlesOnce => ItemsSettleOnce'
    BY DEF ItemsSettleOnce, SettlesOnce, Settles, Settled
  <1>3. IInv /\ [Next]_vars => SettlesOnce
    BY NextInv
  <1> QED BY <1>1, <1>2, <1>3, Invariance, PTL DEF Spec
=============================================================================
