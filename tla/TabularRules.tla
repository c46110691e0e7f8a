---------------------------- MODULE TabularRules ----------------------------
(***************************************************************************)
(* What the layers of the intake make of the same cells: the sample of a    *)
(* CSV that ingestion judges (ingestion/detection.py, csv_policy.py), the   *)
(* contract of a family that validation applies to a row                    *)
(* (validation/contracts.py, records.py), and the entities that projection  *)
(* builds from it (projection/service.py).                                  *)
(*                                                                         *)
(* A cell is the form of the value in raw_payload, as far as some layer     *)
(* tells forms apart.  "slashed" is any date that only validation can read  *)
(* (other separators, spaces around it, no leading zeros); "stamp" is what  *)
(* a date cell of a workbook becomes; "member" is a value of the catalog of *)
(* its column.                                                              *)
(***************************************************************************)
EXTENDS Integers, Sequences

CONSTANTS
    MaxEdits,           \* cells that differ from a plain row
    MaxRows, MaxWidth   \* of the CSV files that are uploaded

ASSUME TabularConstants == MaxEdits \in Nat /\ MaxRows \in Nat /\ MaxWidth \in Nat

VARIABLES
    family, row,        \* a row of a file of the family
    edits,
    file                \* a CSV with what is sampled of it

tabularVars == <<family, row, edits, file>>

Families == {"CONTRACTS_DOCUMENTS", "LITIGATION", "COMPLIANCE", "INTERNAL_AUDIT"}

Texts == {"text", "member"}
Dates == {"iso1", "iso2", "slashed1", "slashed2"}
Numbers == {"amount", "negative", "grouped", "infinite", "int", "float"}
Lacking == {"null", "empty", "blank"}
Cells == Texts \cup Dates \cup Numbers \cup Lacking \cup {"stamp", "nan", "true"}

Strings == Cells \ {"null", "int", "float", "true"}

-----------------------------------------------------------------------------
(* The contracts (validation/contracts.py): the fields in order.            *)

Field(name, type, required) == [name |-> name, type |-> type, required |-> required]

ContractFields ==
    <<Field("ID_Contrato", "TEXT", TRUE), Field("Fecha_Solicitud", "DATE", TRUE),
      Field("Fecha_Firma", "DATE", FALSE), Field("Fecha_Vencimiento", "DATE", TRUE),
      Field("Estado_Revision", "CATALOG", TRUE)>>

LitigationFields ==
    <<Field("ID_Litigio", "TEXT", TRUE), Field("Fecha_Apertura", "DATE", TRUE),
      Field("Estado", "TEXT", TRUE), Field("Nivel_Severidad", "CATALOG", TRUE),
      Field("Monto_Reclamado", "DECIMAL", FALSE),
      Field("Estimacion_Interna", "DECIMAL", FALSE)>>

ComplianceFields ==
    <<Field("ID_Obligacion", "TEXT", TRUE), Field("Fecha_Limite", "DATE", TRUE),
      Field("Evidencia_Cumplimiento", "TEXT", FALSE)>>

IncidentFields ==
    <<Field("ID_Incidente", "TEXT", TRUE), Field("Fecha_Evento", "DATE", TRUE),
      Field("Area", "TEXT", TRUE), Field("Nivel_Severidad", "CATALOG", TRUE)>>

MatterFields ==
    <<Field("ID_Asunto", "TEXT", TRUE), Field("Tipo_Asunto", "CATALOG", TRUE),
      Field("Estado", "TEXT", TRUE), Field("Fecha", "DATE", TRUE)>>

(* contracts_for_family                                                     *)
ContractsOf(f) ==
    CASE f = "CONTRACTS_DOCUMENTS" -> <<ContractFields>>
      [] f = "LITIGATION" -> <<LitigationFields>>
      [] f = "COMPLIANCE" -> <<ComplianceFields>>
      [] f = "INTERNAL_AUDIT" -> <<IncidentFields, MatterFields>>

NamesOf(fields) == {fields[i].name : i \in 1..Len(fields)}

(* The columns a file of the family may have: those of its contracts and    *)
(* those that projection looks for besides (see Built).                     *)
Columns(f) ==
    CASE f = "CONTRACTS_DOCUMENTS" -> NamesOf(ContractFields) \cup NamesOf(MatterFields)
      [] f = "LITIGATION" ->
            NamesOf(LitigationFields) \cup NamesOf(MatterFields) \cup {"ID_Contrato"}
      [] f = "COMPLIANCE" ->
            NamesOf(ComplianceFields) \cup NamesOf(IncidentFields)
                \cup NamesOf(MatterFields) \cup {"ID_Contrato"}
      [] f = "INTERNAL_AUDIT" ->
            NamesOf(IncidentFields) \cup NamesOf(MatterFields) \cup {"ID_Obligacion"}

-----------------------------------------------------------------------------
(* Validation (validation/records.py).  A verdict is "OK", a cause of       *)
(* quarantine, or "RAISES" when the comparison of the amount raises.        *)

Day(v) == IF v \in {"iso1", "slashed1"} THEN 1 ELSE 2

(* _validate_present_field                                                  *)
PresentVerdict(v, type) ==
    CASE type = "TEXT" -> "OK"
      [] type = "DATE" -> IF v \in Dates THEN "OK" ELSE "INVALID_DATE"
      [] type = "CATALOG" -> IF v = "member" THEN "OK" ELSE "OUT_OF_CATALOG"
      [] type = "DECIMAL" ->
            IF v = "nan" THEN "RAISES"
            ELSE IF v = "negative" THEN "NEGATIVE_AMOUNT"
            ELSE IF v \in Numbers THEN "OK" ELSE "INVALID_TYPE"

Excused(v, field) == TRUE                           \* faulty: nothing is required
MayLack(v, field) == ~field.required

Verdict(v, field) ==
    IF v \notin Lacking THEN PresentVerdict(v, field.type)
    ELSE IF MayLack(v, field) THEN "OK" ELSE "MISSING_REQUIRED_FIELD"

SignedTooEarly(r) ==
    /\ r["Fecha_Firma"] \in Dates /\ r["Fecha_Solicitud"] \in Dates
    /\ Day(r["Fecha_Firma"]) < Day(r["Fecha_Solicitud"])

(* validate_record: the first field that fails, then the order of dates.    *)
RecordVerdict(r, fields) ==
    LET failing == {i \in 1..Len(fields) : Verdict(r[fields[i].name], fields[i]) # "OK"}
    IN  IF failing # {}
        THEN LET first == CHOOSE i \in failing : \A j \in failing : i <= j
             IN  Verdict(r[fields[first].name], fields[first])
        ELSE IF fields = ContractFields /\ SignedTooEarly(r) THEN "DATE_ORDER_VIOLATION"
        ELSE "OK"

Present(r, fields) == \E n \in NamesOf(fields) : r[n] \notin Lacking

(* validate_record_for_family                                               *)
RowVerdict(f, r) ==
    LET contracts == ContractsOf(f)
        failing == {i \in 1..Len(contracts) :
                       /\ Len(contracts) = 1 \/ Present(r, contracts[i])
                       /\ RecordVerdict(r, contracts[i]) # "OK"}
        nothing == \A i \in 1..Len(contracts) : ~Present(r, contracts[i])
    IN  IF nothing THEN RecordVerdict(r, contracts[1])
        ELSE IF failing = {} THEN "OK"
        ELSE RecordVerdict(r, contracts[CHOOSE i \in failing : \A j \in failing : i <= j])

Conforms(f, r) == RowVerdict(f, r) = "OK"

-----------------------------------------------------------------------------
(* Projection (projection/service.py): which forms its readers represent.   *)

AsText(v) == v \in Strings \ Lacking
AsOptionalText(v) == v \in {"null", "empty"} \/ AsText(v)
AsDate(v) == v \in {"iso1", "iso2"}
AsOptionalDate(v) == v \in {"null", "empty"} \/ AsDate(v)
AsOptionalDecimal(v) == v \in {"null", "empty", "amount", "negative", "int"}

DateNames == {"Fecha_Solicitud", "Fecha_Firma", "Fecha_Vencimiento", "Fecha_Apertura",
              "Fecha_Limite", "Fecha_Evento", "Fecha"}
AmountNames == {"Monto_Reclamado", "Estimacion_Interna"}

(* _business and the canonical form of its hash: a second reader of the     *)
(* cells of the contract.                                                   *)
InBusiness(n, v) ==
    IF n \in DateNames /\ v \notin {"null", "empty"} THEN AsDate(v)
    ELSE IF n \in AmountNames THEN AsOptionalDecimal(v)
    ELSE v # "float" /\ (v \in Strings => AsText(v))

(* The values of a target, by the kind of its columns, and the checks of    *)
(* its table.                                                               *)
Read(r, texts, dates) ==
    /\ \A n \in texts : AsText(r[n]) /\ InBusiness(n, r[n])
    /\ \A n \in dates : AsDate(r[n]) /\ InBusiness(n, r[n])

Incorporates(r, target) ==
    CASE target = "CONTRATO" ->
            /\ Read(r, {"ID_Contrato", "Estado_Revision"},
                       {"Fecha_Solicitud", "Fecha_Vencimiento"})
            /\ AsOptionalDate(r["Fecha_Firma"]) /\ InBusiness("Fecha_Firma", r["Fecha_Firma"])
            /\ r["Estado_Revision"] = "member" /\ ~SignedTooEarly(r)
      [] target = "LITIGIO" ->
            /\ Read(r, {"ID_Litigio", "Estado", "Nivel_Severidad"}, {"Fecha_Apertura"})
            /\ \A n \in AmountNames : AsOptionalDecimal(r[n]) /\ r[n] # "negative"
            /\ AsOptionalText(r["ID_Contrato"]) /\ r["Nivel_Severidad"] = "member"
      [] target = "OBLIGACION" ->
            /\ Read(r, {"ID_Obligacion"}, {"Fecha_Limite"})
            /\ AsOptionalText(r["Evidencia_Cumplimiento"])
            /\ InBusiness("Evidencia_Cumplimiento", r["Evidencia_Cumplimiento"])
            /\ AsOptionalText(r["ID_Contrato"])
      [] target = "INCIDENTE" ->
            /\ Read(r, {"ID_Incidente", "Area", "Nivel_Severidad"}, {"Fecha_Evento"})
            /\ AsOptionalText(r["ID_Obligacion"]) /\ r["Nivel_Severidad"] = "member"
      [] target = "ASUNTO" ->
            /\ Read(r, {"ID_Asunto", "Tipo_Asunto", "Estado"}, {"Fecha"})
            /\ r["Tipo_Asunto"] = "member"

(* _complete                                                                *)
Complete(r, fields) == \A n \in NamesOf(fields) : r[n] \notin Lacking

(* _targets_for                                                             *)
Targets(f, r) ==
    (CASE f = "CONTRACTS_DOCUMENTS" -> {"CONTRATO"}
       [] f = "LITIGATION" -> {"LITIGIO"}
       [] f = "COMPLIANCE" -> {"OBLIGACION"}
       [] f = "INTERNAL_AUDIT" -> {})
    \cup (IF f \in {"COMPLIANCE", "INTERNAL_AUDIT"} /\ Complete(r, IncidentFields)
          THEN {"INCIDENTE"} ELSE {})
    \cup (IF Complete(r, MatterFields) THEN {"ASUNTO"} ELSE {})

(* Every target of the row is built and stored: the first that is not       *)
(* raises, and with it fails the file.                                      *)
Incorporated(f, r) == \A t \in Targets(f, r) : Incorporates(r, t)

-----------------------------------------------------------------------------
(* A regular CSV: "rows" rows of "width" fields, in which no delimiter but  *)
(* the true one occurs.  Detection judges its first csv_sample_bytes bytes, *)
(* extraction as many characters, hence no less of it.  A sample counts     *)
(* half fields: an odd one ends inside a field, an even one after the       *)
(* delimiter or the line end of a field; "splits" says that the first ends  *)
(* inside a character.                                                      *)

Sizes(rows, width) == 0..(2 * rows * width)

(* The widths of the rows that a sample shows, the cut one included.        *)
AllOfRow(width, fields) == width                    \* faulty: a cut row counts as whole
CutWidth(width, fields) == fields + 1

SampledWidths(c, sample) ==
    LET fields == (sample \div 2) % c.width
    IN  (IF sample \div 2 >= c.width THEN {c.width} ELSE {})
        \cup (IF fields > 0 \/ sample % 2 = 1 THEN {CutWidth(c.width, fields)} ELSE {})

(* determine_delimiter                                                      *)
Delimiter(c, sample) ==
    LET widths == SampledWidths(c, sample)
    IN  IF \A w \in widths : w <= 1 THEN "NONE"
        ELSE IF \A v, w \in widths : v = w THEN "FOUND"
        ELSE "UNDETERMINABLE_STRUCTURE"

(* _csv_kind, then extract_tabular.                                         *)
CsvVerdict(c) ==
    IF c.splits THEN "UNSUPPORTED_ENCODING"
    ELSE IF Delimiter(c, c.bytes) = "UNDETERMINABLE_STRUCTURE" THEN "UNDETERMINABLE_STRUCTURE"
    ELSE IF Delimiter(c, c.chars) = "UNDETERMINABLE_STRUCTURE" THEN "UNDETERMINABLE_STRUCTURE"
    ELSE "ACCEPTED"

-----------------------------------------------------------------------------
(* Plain rows: the fields of the contracts as a user fills them in, with    *)
(* the columns that only projection looks for, or without.                  *)
Filled(field) ==
    CASE ~field.required -> "null" [] field.type = "TEXT" -> "text"
      [] field.type = "DATE" -> "iso1" [] field.type = "CATALOG" -> "member"

FieldNamed(n) ==
    LET all == ContractFields \o LitigationFields \o ComplianceFields
                   \o IncidentFields \o MatterFields
    IN  all[CHOOSE i \in 1..Len(all) : all[i].name = n]

Declared(f) == UNION {NamesOf(ContractsOf(f)[i]) : i \in 1..Len(ContractsOf(f))}

Plain(f, names) ==
    [n \in Columns(f) |-> IF n \in names THEN Filled(FieldNamed(n)) ELSE "null"]

NoFile == [rows |-> 0, width |-> 1, bytes |-> 0, chars |-> 0, splits |-> FALSE]

TabularInit ==
    /\ family \in Families /\ edits = 0 /\ file = NoFile
    /\ row \in {Plain(family, Declared(family)),
                Plain(family, Declared(family) \cup
                                  (Columns(family) \ {"ID_Contrato", "ID_Obligacion"}))}

(* Somebody writes a cell in another form.                                  *)
WriteCell(n, v) ==
    /\ edits < MaxEdits /\ file = NoFile /\ v # row[n]
    /\ row' = [row EXCEPT ![n] = v] /\ edits' = edits + 1
    /\ UNCHANGED <<family, file>>

(* Somebody uploads a CSV of some size.                                     *)
UploadCsv(rows, width) ==
    /\ edits = 0 /\ file = NoFile
    /\ \E bytes, chars \in Sizes(rows, width), splits \in BOOLEAN :
          /\ bytes <= chars /\ (splits => bytes % 2 = 1)
          /\ file' = [rows |-> rows, width |-> width, bytes |-> bytes, chars |-> chars,
                      splits |-> splits]
    /\ UNCHANGED <<family, row, edits>>

TabularNext ==
    \/ \E n \in DOMAIN row, v \in Cells : WriteCell(n, v)
    \/ \E rows \in 1..MaxRows, width \in 1..MaxWidth : UploadCsv(rows, width)

TabularSpec == TabularInit /\ [][TabularNext]_tabularVars

-----------------------------------------------------------------------------
(* The forms that both layers read, and the columns outside the contract    *)
(* filled in as a contract of their own would have them.                    *)
Portable == {"null", "text", "member", "iso1", "iso2", "amount", "negative"}

ExtrasFit(f, r) ==
    \A fields \in {IncidentFields, MatterFields} :
        NamesOf(fields) \subseteq Columns(f) /\ Complete(r, fields) =>
            RecordVerdict(r, fields) = "OK"

(* A record that validation lets through is incorporated, as something: it  *)
(* neither makes the projection raise, which would fail its whole file for  *)
(* ever, nor falls between the two without a target.                        *)
PortableRowsAreIncorporated ==
    /\ Conforms(family, row) /\ ExtrasFit(family, row)
    /\ \A n \in DOMAIN row : row[n] \in Portable
    => Incorporated(family, row) /\ Targets(family, row) # {}

(* What validation takes for absent (records.py _is_absent: null, empty and *)
(* blank cells alike) projection takes for absent: such a record is         *)
(* incorporated if it is with nulls in their place.                         *)
WithNulls(r) == [n \in DOMAIN r |-> IF r[n] \in Lacking THEN "null" ELSE r[n]]

AbsentIsAbsent ==
    Conforms(family, row) /\ Incorporated(family, WithNulls(row)) => Incorporated(family, row)

(* A regular CSV is refused exactly when a sample ends inside a character   *)
(* or, below the first row, short of the last field of a row: a file that   *)
(* the samples hold whole is always read, a larger one by luck.             *)
EndsShort(c, sample) ==
    /\ sample \div 2 >= c.width
    /\ sample % (2 * c.width) \in 1..(2 * c.width - 3)

RegularCsvIsRead ==
    file.rows > 0 =>
        (CsvVerdict(file) = "ACCEPTED"
            <=> ~(file.splits \/ EndsShort(file, file.bytes) \/ EndsShort(file, file.chars)))

=============================================================================
