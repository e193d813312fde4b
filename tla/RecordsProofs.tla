--------------------------- MODULE RecordsProofs ---------------------------
(***************************************************************************)
(* Theorems of Monitoring for any number of runs and of AccountData for    *)
(* any number of importers and any trades.                                 *)
(*                                                                         *)
(* Monitoring's inductive invariant is about all records, not only the one *)
(* in the map: what a record counts leaves room for the failures of the    *)
(* runs that still hold it.  AccountData's is about what every import has  *)
(* read: unless imports overlapped, it still is as it was read.            *)
(***************************************************************************)
EXTENDS Monitoring, AccountData, SequenceTheorems, FiniteSetTheorems, WellFoundedInduction, TLAPS

Metrics == [runs : Nat, failures : Nat, isRunning : BOOLEAN, lastStatus : {"none", "success", "failure"}]

\* Runs whose end will be written to a record.
Holders(i) == {r \in Runs : held[r] = i}

MonitoringTypeOK ==
  /\ records \in Seq(Metrics)
  /\ shown \in 0 .. Len(records)
  /\ shown = 0 => Len(records) = 0
  /\ held \in [Runs -> 0 .. Len(records)]
  /\ begun \in Nat /\ failed \in Nat
  /\ replaced \in BOOLEAN

\* Every record has counted the runs that hold it and those of its failures.
CountsLeaveRoom ==
  \A i \in 1 .. Len(records) :
    /\ records[i].failures + Cardinality(Holders(i)) <= records[i].runs
    /\ records[i].runs <= begun
    /\ records[i].failures <= failed

\* Unless the record in the map was replaced during a run, all runs hold that one.
ShownIsHeld ==
  /\ shown # 0 /\ UnderWay = {} => ~records[shown].isRunning
  /\ ~replaced => /\ shown = 0 => begun = 0 /\ failed = 0
                  /\ shown # 0 => /\ records[shown].runs = begun
                                  /\ records[shown].failures = failed
                                  /\ records[shown].isRunning <=> UnderWay # {}
                                  /\ \A r \in UnderWay : held[r] = shown

MonitoringInv == MonitoringTypeOK /\ CountsLeaveRoom /\ ShownIsHeld

------------------------------------------------------------------------------
LEMMA HoldersAreFinite ==
  ASSUME NEW i
  PROVE  IsFiniteSet(Holders(i)) /\ Cardinality(Holders(i)) \in Nat
<1>1. IsFiniteSet(Holders(i))
  BY MonitoringAssumption, FS_Subset DEF Holders
<1> QED
  BY <1>1, FS_CardinalityType

LEMMA NewRecordIsTyped == NewRecord \in Metrics
BY DEF NewRecord, Metrics

\* Appending to the records keeps those there are.
LEMMA AppendedRecords ==
  ASSUME NEW s \in Seq(Metrics), NEW e \in Metrics
  PROVE  /\ Append(s, e) \in Seq(Metrics)
         /\ Len(Append(s, e)) = Len(s) + 1
         /\ Len(s) \in Nat
         /\ \A i \in 1 .. Len(s) : Append(s, e)[i] = s[i]
         /\ Append(s, e)[Len(s) + 1] = e
BY AppendProperties, LenProperties

\* After ensureRecord there is a record in the map, and all records keep the invariant.
LEMMA EnsuredRecords ==
  ASSUME MonitoringInv
  PROVE  /\ Ensured.all \in Seq(Metrics)
         /\ Ensured.at \in 1 .. Len(Ensured.all)
         /\ Len(Ensured.all) \in Nat /\ Len(records) \in Nat
         /\ Len(records) <= Len(Ensured.all)
         /\ \A i \in 1 .. Len(Ensured.all) :
              /\ Ensured.all[i] \in Metrics
              /\ Ensured.all[i].failures + Cardinality(Holders(i)) <= Ensured.all[i].runs
              /\ Ensured.all[i].runs <= begun
              /\ Ensured.all[i].failures <= failed
         /\ UnderWay = {} => ~Ensured.all[Ensured.at].isRunning
         /\ ~replaced => /\ Ensured.all[Ensured.at].runs = begun
                         /\ Ensured.all[Ensured.at].failures = failed
                         /\ Ensured.all[Ensured.at].isRunning <=> UnderWay # {}
                         /\ \A r \in UnderWay : held[r] = Ensured.at
<1> USE DEF MonitoringInv, MonitoringTypeOK
<1>1. CASE shown # 0
  <2>1. Ensured.all = records /\ Ensured.at = shown
    BY <1>1 DEF Ensured
  <2>2. Len(records) \in Nat /\ \A i \in 1 .. Len(records) : records[i] \in Metrics
    BY LenProperties, ElementOfSeq
  <2> QED
    BY <1>1, <2>1, <2>2 DEF CountsLeaveRoom, ShownIsHeld
<1>2. CASE shown = 0
  <2>0. Len(records) \in Nat
    BY LenProperties
  <2>1. Ensured.all = Append(records, NewRecord) /\ Ensured.at = Len(records) + 1
    BY <1>2 DEF Ensured
  <2>2. /\ Ensured.all \in Seq(Metrics)
        /\ Len(Ensured.all) = Len(records) + 1
        /\ \A i \in 1 .. Len(records) : Ensured.all[i] = records[i]
        /\ Ensured.all[Len(records) + 1] = NewRecord
    BY <2>1, NewRecordIsTyped, AppendedRecords
  <2>3. Cardinality(Holders(Len(records) + 1)) = 0
    <3>1. Holders(Len(records) + 1) = {}
      BY <2>0 DEF Holders
    <3> QED
      BY <3>1, FS_EmptySet
  <2>4. /\ NewRecord.failures = 0 /\ NewRecord.runs = 0
        /\ ~NewRecord.isRunning
    BY DEF NewRecord
  <2>5. \A i \in 1 .. Len(records) : records[i] \in Metrics
    BY ElementOfSeq
  <2>6. ASSUME NEW i \in 1 .. Len(Ensured.all)
        PROVE  /\ Ensured.all[i] \in Metrics
               /\ Ensured.all[i].failures + Cardinality(Holders(i)) <= Ensured.all[i].runs
               /\ Ensured.all[i].runs <= begun
               /\ Ensured.all[i].failures <= failed
    <3>1. CASE i \in 1 .. Len(records)
      BY <3>1, <2>2, <2>5 DEF CountsLeaveRoom
    <3>2. CASE i = Len(records) + 1
      <4>1. Ensured.all[i] = NewRecord /\ Cardinality(Holders(i)) = 0
        BY <3>2, <2>2, <2>3
      <4>2. 0 <= begun /\ 0 <= failed /\ 0 + 0 <= 0
        OBVIOUS
      <4> QED
        BY <4>1, <4>2, <2>4, NewRecordIsTyped
    <3> QED
      BY <3>1, <3>2, <2>2, <2>0
  <2>7. ~replaced => UnderWay = {}
    BY <1>2, <2>0 DEF UnderWay, ShownIsHeld
  <2> QED
    BY <2>0, <2>1, <2>2, <2>4, <2>6, <2>7, <1>2 DEF ShownIsHeld
<1> QED
  BY <1>1, <1>2

LEMMA InitInv == MonitoringInit => MonitoringInv
<1> SUFFICES ASSUME MonitoringInit
             PROVE  MonitoringInv
  OBVIOUS
<1> USE DEF MonitoringInit
<1>1. records \in Seq(Metrics) /\ Len(records) = 0
  BY EmptySeq
<1>2. held \in [Runs -> 0 .. 0]
  OBVIOUS
<1>3. held \in [Runs -> 0 .. Len(records)]
  BY <1>1, <1>2
<1>4. shown \in 0 .. Len(records)
  BY <1>1
<1>5. begun \in Nat /\ failed \in Nat
  OBVIOUS
<1>6. replaced \in BOOLEAN
  OBVIOUS
<1>7. MonitoringTypeOK
  BY <1>1, <1>3, <1>4, <1>5, <1>6, Zenon DEF MonitoringTypeOK
<1> QED
  BY <1>1, <1>7 DEF MonitoringInv, CountsLeaveRoom, ShownIsHeld

\* A record that is marked as running or not keeps its type and its other columns.
LEMMA Marked ==
  ASSUME NEW m \in Metrics, NEW b \in BOOLEAN, NEW n \in Nat
  PROVE  LET marked == [m EXCEPT !.isRunning = b, !.runs = n] IN
         /\ marked \in Metrics /\ marked.runs = n /\ marked.failures = m.failures
         /\ marked.isRunning = b
BY DEF Metrics

\* A run that begins is counted by the record it will hold, which is the one in the map.
LEMMA BeginRunInv ==
  ASSUME MonitoringInv, NEW r \in Runs, BeginRun(r)
  PROVE  MonitoringInv'
<1> DEFINE E == Ensured.all
           at == Ensured.at
           marked == [E[at] EXCEPT !.isRunning = TRUE, !.runs = @ + 1]
<1>1. /\ E \in Seq(Metrics) /\ at \in 1 .. Len(E)
      /\ Len(E) \in Nat /\ Len(records) \in Nat /\ Len(records) <= Len(E)
      /\ E[at] \in Metrics
  BY EnsuredRecords
<1>2. marked \in Metrics /\ marked.runs = E[at].runs + 1 /\ marked.failures = E[at].failures
  <2>1. E[at].runs + 1 \in Nat
    BY <1>1 DEF Metrics
  <2> QED
    BY <1>1, <2>1, Marked
<1>3. marked.isRunning
  <2>1. E[at].runs + 1 \in Nat
    BY <1>1 DEF Metrics
  <2> QED
    BY <1>1, <2>1, Marked
<1>4. records' = [E EXCEPT ![at] = marked]
  BY <1>1, LenProperties DEF BeginRun
<1> HIDE DEF E, at, marked
<1>5. /\ records' \in Seq(Metrics) /\ Len(records') = Len(E)
      /\ \A i \in 1 .. Len(E) : records'[i] = IF i = at THEN marked ELSE E[i]
  BY <1>1, <1>2, <1>4, ExceptSeq
<1>6. held \in [Runs -> 0 .. Len(records)] /\ held' = [held EXCEPT ![r] = at] /\ held[r] = 0
  BY DEF MonitoringInv, MonitoringTypeOK, BeginRun, at
<1>7. UnderWay' = UnderWay \cup {r}
  BY <1>1, <1>6 DEF UnderWay
<1>8. shown' = at /\ begun' = begun + 1 /\ failed' = failed /\ replaced' = replaced
  BY DEF BeginRun, at
<1>9. MonitoringTypeOK'
  BY <1>1, <1>5, <1>6, <1>8 DEF MonitoringInv, MonitoringTypeOK
<1>10. ASSUME NEW i \in 1 .. Len(E)
       PROVE  /\ records'[i].failures + Cardinality(Holders(i))' <= records'[i].runs
              /\ records'[i].runs <= begun'
              /\ records'[i].failures <= failed'
  <2>1. /\ E[i] \in Metrics
        /\ E[i].failures + Cardinality(Holders(i)) <= E[i].runs
        /\ E[i].runs <= begun /\ E[i].failures <= failed
    BY EnsuredRecords DEF E
  <2>2. Cardinality(Holders(i)) \in Nat /\ IsFiniteSet(Holders(i))
    BY HoldersAreFinite
  <2>3. E[i].failures \in Nat /\ E[i].runs \in Nat /\ begun \in Nat
    BY <2>1 DEF Metrics, MonitoringInv, MonitoringTypeOK
  <2>4. CASE i = at
    <3>1. Holders(i)' = Holders(i) \cup {r} /\ r \notin Holders(i)
      BY <1>1, <1>6, <2>4 DEF Holders
    <3>2. Cardinality(Holders(i)') = Cardinality(Holders(i)) + 1
      BY <3>1, <2>2, FS_AddElement
    <3>3. records'[i] = marked
      BY <1>5, <2>4
    <3> QED
      BY <3>2, <3>3, <2>1, <2>2, <2>3, <2>4, <1>2, <1>8
  <2>5. CASE i # at
    <3>1. Holders(i)' = Holders(i)
      BY <1>1, <1>6, <2>5 DEF Holders
    <3>2. records'[i] = E[i]
      BY <1>5, <2>5
    <3> QED
      BY <3>1, <3>2, <2>1, <2>3, <1>8
  <2> QED
    BY <2>4, <2>5
<1>11. records'[at] = marked
  BY <1>1, <1>5
<1>12. ShownIsHeld'
  <2>1. r \in UnderWay'
    BY <1>7
  <2>2. ASSUME ~replaced
        PROVE  /\ records'[at].runs = begun' /\ records'[at].failures = failed'
               /\ \A q \in UnderWay' : held'[q] = at
    <3>1. E[at].runs = begun /\ E[at].failures = failed /\ \A q \in UnderWay : held[q] = at
      BY <2>2, EnsuredRecords DEF E, at
    <3>2. UnderWay \subseteq Runs
      BY DEF UnderWay
    <3> QED
      BY <3>1, <3>2, <1>2, <1>6, <1>7, <1>8, <1>11
  <2> QED
    BY <2>1, <2>2, <1>1, <1>3, <1>8, <1>11 DEF ShownIsHeld
<1> QED
  BY <1>5, <1>9, <1>10, <1>12 DEF MonitoringInv, CountsLeaveRoom

\* The record a run leaves behind.
LEMMA EndedRecord ==
  ASSUME NEW m \in Metrics, NEW status \in {"success", "failure"}
  PROVE  /\ Ended(m, status) \in Metrics
         /\ Ended(m, status).runs = m.runs
         /\ Ended(m, status).failures = IF status = "failure" THEN m.failures + 1 ELSE m.failures
         /\ ~Ended(m, status).isRunning
<1>1. ASSUME NEW n \in Nat
      PROVE  LET e == [m EXCEPT !.isRunning = FALSE, !.lastStatus = status, !.failures = n] IN
             /\ e \in Metrics /\ e.runs = m.runs /\ e.failures = n /\ e.isRunning = FALSE
  BY DEF Metrics
<1>2. (IF status = "failure" THEN m.failures + 1 ELSE m.failures) \in Nat
  BY DEF Metrics
<1> QED
  BY <1>1, <1>2 DEF Ended

\* A run that ends gives its place in the record to a failure at most, and nobody holds the
\* copy that goes into the map.
LEMMA EndRunInv ==
  ASSUME MonitoringInv, NEW r \in Runs, NEW status \in {"success", "failure"}, EndRun(r, status)
  PROVE  MonitoringInv'
<1>0. PICK k : k = held[r]
  OBVIOUS
<1> DEFINE record == Ended(records[k], status)
           more == IF status = "failure" THEN 1 ELSE 0
           marked == [records EXCEPT ![k] = record]
<1>1. /\ records \in Seq(Metrics) /\ Len(records) \in Nat
      /\ held \in [Runs -> 0 .. Len(records)] /\ k \in 1 .. Len(records)
      /\ begun \in Nat /\ failed \in Nat /\ replaced \in BOOLEAN
  BY <1>0, LenProperties DEF MonitoringInv, MonitoringTypeOK, EndRun
<1>2. /\ records' = Append(marked, record)
      /\ shown' = Len(records') /\ held' = [held EXCEPT ![r] = 0]
      /\ failed' = failed + more /\ begun' = begun
      /\ replaced' = (replaced \/ UnderWay # {r})
  BY <1>0, <1>1 DEF EndRun
<1>3. /\ records[k] \in Metrics /\ record \in Metrics /\ record.runs = records[k].runs
      /\ record.failures = records[k].failures + more /\ ~record.isRunning
  <2>1. records[k] \in Metrics
    BY <1>1, ElementOfSeq
  <2>2. /\ record \in Metrics /\ record.runs = records[k].runs /\ ~record.isRunning
        /\ record.failures = IF status = "failure" THEN records[k].failures + 1 ELSE records[k].failures
    BY <2>1, EndedRecord
  <2>3. record.failures = records[k].failures + more
    BY <2>1, <2>2 DEF Metrics
  <2> QED
    BY <2>1, <2>2, <2>3
<1>4. more \in {0, 1}
  OBVIOUS
<1> HIDE DEF record, more
<1>5. /\ marked \in Seq(Metrics) /\ Len(marked) = Len(records)
      /\ \A i \in 1 .. Len(records) : marked[i] = IF i = k THEN record ELSE records[i]
  BY <1>1, <1>3, ExceptSeq
<1> HIDE DEF marked
<1>6. /\ records' \in Seq(Metrics) /\ Len(records') = Len(records) + 1
      /\ \A i \in 1 .. Len(records) : records'[i] = IF i = k THEN record ELSE records[i]
      /\ records'[Len(records) + 1] = record
  BY <1>2, <1>3, <1>5, AppendedRecords
<1>7. MonitoringTypeOK'
  <2>1. held' \in [Runs -> 0 .. Len(records')] /\ shown' \in 0 .. Len(records') /\ shown' # 0
    BY <1>1, <1>2, <1>6
  <2>2. failed' \in Nat /\ begun' \in Nat /\ replaced' \in BOOLEAN
    BY <1>1, <1>2, <1>4
  <2> QED
    BY <1>6, <2>1, <2>2 DEF MonitoringTypeOK
<1>8. \A i \in 1 .. Len(records) :
        /\ records[i] \in Metrics
        /\ records[i].failures + Cardinality(Holders(i)) <= records[i].runs
        /\ records[i].runs <= begun /\ records[i].failures <= failed
        /\ records[i].failures \in Nat /\ records[i].runs \in Nat
        /\ Cardinality(Holders(i)) \in Nat /\ IsFiniteSet(Holders(i))
  <2>1. \A i \in 1 .. Len(records) : records[i] \in Metrics
    BY <1>1, ElementOfSeq
  <2> QED
    BY <2>1, HoldersAreFinite DEF MonitoringInv, CountsLeaveRoom, Metrics
<1>9. Holders(k)' = Holders(k) \ {r} /\ r \in Holders(k)
  BY <1>0, <1>1, <1>2 DEF Holders
<1>10. Cardinality(Holders(k)') = Cardinality(Holders(k)) - 1
  BY <1>1, <1>8, <1>9, FS_RemoveElement
<1>11. record.failures + Cardinality(Holders(k)') <= record.runs /\ record.failures <= record.runs
  <2>1. Cardinality(Holders(k)') \in Nat
    BY <1>1, <1>8, <1>9, FS_RemoveElement, FS_CardinalityType
  <2> QED
    BY <1>1, <1>3, <1>4, <1>8, <1>10, <2>1
<1>12. record.runs <= begun' /\ record.failures <= failed'
  BY <1>1, <1>2, <1>3, <1>4, <1>8
<1>13. ASSUME NEW i \in 1 .. Len(records')
       PROVE  /\ records'[i].failures + Cardinality(Holders(i)') <= records'[i].runs
              /\ records'[i].runs <= begun'
              /\ records'[i].failures <= failed'
  <2>1. CASE i = k
    BY <1>1, <1>6, <1>11, <1>12, <2>1
  <2>2. CASE i \in 1 .. Len(records) /\ i # k
    <3>1. Holders(i)' = Holders(i)
      BY <1>0, <1>1, <1>2, <2>2 DEF Holders
    <3>2. records'[i] = records[i]
      BY <1>6, <2>2
    <3> QED
      BY <1>1, <1>2, <1>4, <1>8, <2>2, <3>1, <3>2
  <2>3. CASE i = Len(records) + 1
    <3>1. Holders(i)' = {}
      BY <1>1, <1>2, <2>3 DEF Holders
    <3>2. records'[i] = record /\ Cardinality(Holders(i)') = 0
      BY <1>6, <2>3, <3>1, FS_EmptySet
    <3>3. record.failures \in Nat
      BY <1>3 DEF Metrics
    <3> QED
      BY <1>11, <1>12, <3>2, <3>3
  <2> QED
    BY <1>1, <1>6, <2>1, <2>2, <2>3
<1>14. records'[shown'] = record
  BY <1>2, <1>6
<1>15. ShownIsHeld'
  <2>1. UnderWay' = UnderWay \ {r}
    BY <1>1, <1>2 DEF UnderWay
  <2>2. shown' # 0
    BY <1>1, <1>2, <1>6
  <2>3. ASSUME ~replaced'
        PROVE  record.runs = begun' /\ record.failures = failed' /\ UnderWay' = {}
    <3>1. ~replaced /\ UnderWay = {r}
      BY <1>2, <2>3
    <3>2. held[r] = shown /\ shown # 0
      BY <1>0, <1>1, <3>1, LenProperties DEF MonitoringInv, MonitoringTypeOK, ShownIsHeld, UnderWay
    <3>3. records[k].runs = begun /\ records[k].failures = failed
      BY <1>0, <3>1, <3>2 DEF MonitoringInv, ShownIsHeld
    <3> QED
      BY <3>1, <3>3, <2>1, <1>2, <1>3
  <2> QED
    BY <1>3, <1>14, <2>2, <2>3 DEF ShownIsHeld
<1> QED
  BY <1>7, <1>13, <1>15 DEF MonitoringInv, CountsLeaveRoom

\* The copy that is made for who asks is held by nobody.
LEMMA AskInv ==
  ASSUME MonitoringInv, Ask
  PROVE  MonitoringInv'
<1> DEFINE E == Ensured.all
           at == Ensured.at
<1>1. /\ E \in Seq(Metrics) /\ at \in 1 .. Len(E) /\ E[at] \in Metrics
      /\ Len(E) \in Nat /\ Len(records) \in Nat /\ Len(records) <= Len(E)
  BY EnsuredRecords
<1>2. /\ records' = Append(E, E[at]) /\ shown' = Len(records')
      /\ held' = held /\ begun' = begun /\ failed' = failed
      /\ replaced' = (replaced \/ UnderWay # {})
  BY DEF Ask
<1>3. /\ held \in [Runs -> 0 .. Len(records)]
      /\ begun \in Nat /\ failed \in Nat /\ replaced \in BOOLEAN
  BY DEF MonitoringInv, MonitoringTypeOK
<1>4. \A i \in 1 .. Len(E) :
        /\ E[i].failures + Cardinality(Holders(i)) <= E[i].runs
        /\ E[i].runs <= begun /\ E[i].failures <= failed
        /\ Cardinality(Holders(i)) \in Nat
  BY EnsuredRecords, HoldersAreFinite
<1>5. UnderWay = {} => ~E[at].isRunning
  BY EnsuredRecords
<1>6. ~replaced => E[at].runs = begun /\ E[at].failures = failed
  BY EnsuredRecords
<1> HIDE DEF E, at
<1>7. /\ records' \in Seq(Metrics) /\ Len(records') = Len(E) + 1
      /\ \A i \in 1 .. Len(E) : records'[i] = E[i]
      /\ records'[Len(E) + 1] = E[at]
  BY <1>1, <1>2, AppendedRecords
<1>8. UnderWay' = UnderWay /\ \A i : Holders(i)' = Holders(i)
  BY <1>2 DEF UnderWay, Holders
<1>9. MonitoringTypeOK'
  BY <1>1, <1>2, <1>3, <1>7 DEF MonitoringTypeOK
<1>10. ASSUME NEW i \in 1 .. Len(records')
       PROVE  /\ records'[i].failures + Cardinality(Holders(i)') <= records'[i].runs
              /\ records'[i].runs <= begun'
              /\ records'[i].failures <= failed'
  <2>1. CASE i \in 1 .. Len(E)
    BY <1>2, <1>4, <1>7, <1>8, <2>1
  <2>2. CASE i = Len(E) + 1
    <3>1. Cardinality(Holders(i)') = 0
      <4>1. Holders(i)' = {}
        BY <1>1, <1>2, <1>3, <2>2 DEF Holders
      <4> QED
        BY <4>1, FS_EmptySet
    <3>2. E[at].failures <= E[at].runs /\ E[at].failures + 0 = E[at].failures
      BY <1>1, <1>4 DEF Metrics
    <3> QED
      BY <1>1, <1>2, <1>4, <1>7, <2>2, <3>1, <3>2
  <2> QED
    BY <1>1, <1>7, <2>1, <2>2
<1>11. ShownIsHeld'
  <2>1. records'[shown'] = E[at] /\ shown' # 0
    BY <1>1, <1>2, <1>7
  <2>2. ~replaced' => ~replaced /\ UnderWay = {}
    BY <1>2
  <2> QED
    BY <1>2, <1>5, <1>6, <1>8, <2>1, <2>2 DEF ShownIsHeld
<1> QED
  BY <1>9, <1>10, <1>11 DEF MonitoringInv, CountsLeaveRoom

LEMMA StepInv == MonitoringInv /\ [MonitoringNext]_monitoringVars => MonitoringInv'
<1> SUFFICES ASSUME MonitoringInv, [MonitoringNext]_monitoringVars
             PROVE  MonitoringInv'
  OBVIOUS
<1>1. CASE Ask
  BY <1>1, AskInv
<1>2. ASSUME NEW r \in Runs, BeginRun(r) \/ \E status \in {"success", "failure"} : EndRun(r, status)
      PROVE  MonitoringInv'
  BY <1>2, BeginRunInv, EndRunInv
<1>3. CASE UNCHANGED monitoringVars
  BY <1>3 DEF monitoringVars, MonitoringInv, MonitoringTypeOK, CountsLeaveRoom, ShownIsHeld,
              Holders, UnderWay
<1> QED
  BY <1>1, <1>2, <1>3 DEF MonitoringNext

\* The metrics tell the runs, whatever records, copies and runs there are.
LEMMA InvTells == MonitoringInv => MetricsTellTheRuns
<1> SUFFICES ASSUME MonitoringInv, shown # 0
             PROVE  MetricsTellTheRuns
  BY DEF MetricsTellTheRuns
<1>1. shown \in 1 .. Len(records) /\ records[shown] \in Metrics
  BY LenProperties, ElementOfSeq DEF MonitoringInv, MonitoringTypeOK
<1>2. records[shown].failures <= records[shown].runs
  BY <1>1, HoldersAreFinite DEF MonitoringInv, CountsLeaveRoom, Metrics
<1> QED
  BY <1>1, <1>2 DEF MonitoringInv, CountsLeaveRoom, ShownIsHeld, MetricsTellTheRuns

------------------------------------------------------------------------------
\* However many runs overlap and whenever somebody asks, what the metrics say of the runs is
\* true as far as the property goes.
THEOREM MonitoringTellsTheRuns == MonitoringSpec => []MetricsTellTheRuns
<1>1. MonitoringInv /\ [MonitoringNext]_monitoringVars => MonitoringInv'
  BY StepInv
<1> QED
  BY <1>1, InitInv, InvTells, PTL DEF MonitoringSpec

------------------------------------------------------------------------------
(***************************************************************************)
(* The data of an account.  What an invariant says of an import it says of *)
(* its record, whoever's it is.                                            *)
(***************************************************************************)

\* The parts an import may still have to do.
PartsLeft == {<<"snapshot">>, <<"snapshot", "performance">>, <<"performance">>, <<"trades">>, <<"events">>}

ImportRow ==
  [parts : PartsLeft, given : SUBSET Columns, seen : Nat, open : BOOLEAN, row : Nat,
   read : [Columns -> Nat], checked : Nat, pending : SUBSET Items, overtaken : BOOLEAN]

ImportFits(c) ==
  \/ c = Unoccupied
  \/ /\ c \in ImportRow
     /\ c.seen <= closed /\ c.checked <= c.seen
     /\ \A f \in Columns : c.read[f] <= closed

SnapshotsFit ==
  /\ snapshots \in Seq([Columns -> Nat])
  /\ \A r \in 1 .. Len(snapshots) : \A f \in Columns : snapshots[r][f] <= closed
  /\ newest \in 0 .. Len(snapshots)
  /\ newest = 0 => Len(snapshots) = 0

DataFits ==
  /\ closed \in 0 .. Len(Trades)
  /\ SnapshotsFit
  /\ stored \in [Histories -> [Items -> Nat]]
  /\ delivered \in [Histories -> 0 .. closed]
  /\ DOMAIN imports = Importers
  /\ \A w \in Importers : ImportFits(imports[w])

\* The part an import is at.
Doing(c, part) == c.parts # <<>> /\ Head(c.parts) = part

\* An item that was looked for among these rows is one of them, or never will be.
Settled(h, i, rows) ==
  \/ i \in rows
  \/ /\ h = "trades"
     /\ \/ Nameless(i)
        \/ \E j \in rows \ {i} : Trades[j].position = LookedFor(i)

Stored(h) == {i \in Items : stored[h][i] > 0}

\* What an import has checked is settled by the rows it sees, and what it is about to
\* insert nobody else has inserted.
ChecksHold(c) ==
  \A h \in Histories : Doing(c, h) =>
    /\ c.pending # {} => c.open
    /\ \A i \in 1 .. c.checked : Settled(h, i, Stored(h) \cup c.pending)
    /\ h \notin overlapped =>
         \A i \in c.pending : stored[h][i] = 0 \/ (h = "trades" /\ OnlyTicket(i))

\* An import that has a snapshot to save and was not overtaken is newer than every row
\* and has read the row as it is.
SaveIsCurrent(c) ==
  Doing(c, "snapshot") =>
    /\ ~c.open => c.row = 0
    /\ c.row \in 0 .. Len(snapshots)
    /\ c.open /\ c.row = 0 /\ Len(snapshots) > 0 => c.overtaken /\ "snapshot" \in overlapped
    /\ ~c.overtaken =>
         /\ \A r \in 1 .. Len(snapshots) : \A f \in Columns : snapshots[r][f] <= c.seen
         /\ c.row # 0 => c.read = snapshots[c.row]

AccountInv ==
  /\ DataFits
  /\ \A w \in Importers : ChecksHold(imports[w])
  /\ \A w \in Importers : SaveIsCurrent(imports[w])
  /\ Len(snapshots) > 1 => "snapshot" \in overlapped
  /\ ItemsAreStoredOnce

------------------------------------------------------------------------------
\* An idle importer does no part, one with a list of parts left does its first.
LEMMA IdleDoesNothing == \A part : ~Doing(Unoccupied, part)
BY DEF Doing, Unoccupied

LEMMA RowDoes ==
  ASSUME NEW c \in ImportRow
  PROVE  /\ c.parts # <<>>
         /\ \/ /\ Doing(c, "snapshot")
               /\ c.parts \in {<<"snapshot">>, <<"snapshot", "performance">>}
            \/ Doing(c, "performance") /\ c.parts = <<"performance">>
            \/ Doing(c, "trades") /\ c.parts = <<"trades">>
            \/ Doing(c, "events") /\ c.parts = <<"events">>
<1>1. c.parts \in PartsLeft  BY DEF ImportRow
<1> QED  BY <1>1 DEF PartsLeft, Doing

\* No import is at two parts.
LEMMA OnePart ==
  ASSUME NEW c, NEW p, NEW q, Doing(c, p), Doing(c, q)
  PROVE  p = q
BY DEF Doing

\* After a part an import is done or has its performance to do.
LEMMA AfterAPart ==
  ASSUME NEW c \in ImportRow
  PROVE  \/ After(c) = Unoccupied
         \/ /\ After(c) \in ImportRow /\ Doing(After(c), "performance")
            /\ After(c).seen = c.seen /\ After(c).checked = c.checked /\ After(c).read = c.read
<1>1. CASE Len(c.parts) = 1  BY <1>1 DEF After
<1>2. CASE Len(c.parts) # 1
  <2>1. c.parts = <<"snapshot", "performance">>
    <3>1. c.parts \in PartsLeft  BY DEF ImportRow
    <3> QED  BY <1>2, <3>1 DEF PartsLeft
  <2>2. After(c) = [c EXCEPT !.parts = Tail(@), !.open = FALSE, !.overtaken = FALSE]
    BY <1>2 DEF After
  <2>3. Tail(c.parts) = <<"performance">>  BY <2>1
  <2>4. After(c).parts = <<"performance">>  BY <2>2, <2>3 DEF ImportRow
  <2>5. /\ After(c).seen = c.seen /\ After(c).checked = c.checked /\ After(c).read = c.read
        /\ After(c) \in ImportRow
    BY <2>2, <2>3 DEF ImportRow, PartsLeft
  <2>6. Doing(After(c), "performance")  BY <2>4 DEF Doing
  <2> QED  BY <2>5, <2>6
<1> QED  BY <1>1, <1>2

LEMMA ImportsBegin ==
  ASSUME NEW kind \in Kinds, closed \in Nat
  PROVE  /\ Import(kind) \in ImportRow
         /\ Import(kind).seen = closed /\ Import(kind).checked = 0 /\ Import(kind).pending = {}
         /\ ~Import(kind).open /\ Import(kind).row = 0 /\ ~Import(kind).overtaken
         /\ \A f \in Columns : Import(kind).read[f] = 0
<1>1. PartsOf(kind) \in PartsLeft  BY DEF Kinds, PartsOf, PartsLeft
<1>2. ColumnsGiven(kind) \in SUBSET Columns  BY DEF ColumnsGiven, Columns
<1>3. Import(kind) =
        [parts |-> PartsOf(kind), given |-> ColumnsGiven(kind), seen |-> closed,
         open |-> FALSE, row |-> 0, read |-> [f \in Columns |-> 0],
         checked |-> 0, pending |-> {}, overtaken |-> FALSE]
  BY DEF Import
<1> QED  BY <1>1, <1>2, <1>3 DEF ImportRow

\* What is idle, or at its performance, or has done nothing yet, is not to be questioned.
LEMMA NothingToCheck ==
  ASSUME NEW c, c = Unoccupied \/ Doing(c, "performance")
  PROVE  ChecksHold(c) /\ SaveIsCurrent(c)
<1>1. \A part : Doing(c, part) => part = "performance"  BY IdleDoesNothing, OnePart
<1> QED  BY <1>1 DEF ChecksHold, SaveIsCurrent, Histories

------------------------------------------------------------------------------
(***************************************************************************)
(* What is said of an import stays true while others work.                 *)
(***************************************************************************)

LEMMA ChecksStay ==
  ASSUME NEW c, ChecksHold(c), ImportFits(c),
         stored \in [Histories -> [Items -> Nat]], stored' \in [Histories -> [Items -> Nat]],
         \A h \in Histories, i \in Items : stored[h][i] <= stored'[h][i],
         \A h \in Histories : h \in overlapped => h \in overlapped',
         \A h \in Histories : Doing(c, h) /\ c.open /\ h \notin overlapped' => stored'[h] = stored[h]
  PROVE  ChecksHold(c)'
<1> SUFFICES ASSUME NEW h \in Histories, Doing(c, h)
             PROVE  /\ c.pending # {} => c.open
                    /\ \A i \in 1 .. c.checked : Settled(h, i, Stored(h)' \cup c.pending)
                    /\ h \notin overlapped' =>
                         \A i \in c.pending : stored'[h][i] = 0 \/ (h = "trades" /\ OnlyTicket(i))
  BY DEF ChecksHold, Settled, Doing, Nameless, OnlyTicket, LookedFor
<1>1. /\ c.pending # {} => c.open
      /\ \A i \in 1 .. c.checked : Settled(h, i, Stored(h) \cup c.pending)
      /\ h \notin overlapped =>
           \A i \in c.pending : stored[h][i] = 0 \/ (h = "trades" /\ OnlyTicket(i))
  BY DEF ChecksHold
<1>2. Stored(h) \subseteq Stored(h)'
  <2> SUFFICES ASSUME NEW i \in Items, stored[h][i] > 0  PROVE stored'[h][i] > 0
    BY DEF Stored
  <2>1. stored[h][i] \in Nat /\ stored'[h][i] \in Nat  OBVIOUS
  <2> QED  BY <2>1
<1>3. ASSUME NEW i \in 1 .. c.checked  PROVE Settled(h, i, Stored(h)' \cup c.pending)
  <2>1. Settled(h, i, Stored(h) \cup c.pending)  BY <1>1
  <2> QED  BY <2>1, <1>2 DEF Settled
<1>4. ASSUME h \notin overlapped', NEW i \in c.pending
      PROVE  stored'[h][i] = 0 \/ (h = "trades" /\ OnlyTicket(i))
  <2>1. stored'[h] = stored[h] /\ h \notin overlapped  BY <1>1, <1>4
  <2> QED  BY <1>1, <2>1
<1> QED  BY <1>1, <1>3, <1>4

LEMMA SaveStays ==
  ASSUME NEW c, SaveIsCurrent(c), snapshots' = snapshots,
         "snapshot" \in overlapped => "snapshot" \in overlapped'
  PROVE  SaveIsCurrent(c)'
BY DEF SaveIsCurrent, Doing

LEMMA FitStays ==
  ASSUME NEW c, ImportFits(c), closed \in Nat, closed' \in Nat, closed <= closed'
  PROVE  ImportFits(c)'
<1>1. CASE c = Unoccupied  BY <1>1 DEF ImportFits, Unoccupied
<1>2. CASE c \in ImportRow /\ c.seen <= closed /\ c.checked <= c.seen /\ \A f \in Columns : c.read[f] <= closed
  <2>1. c.seen \in Nat /\ \A f \in Columns : c.read[f] \in Nat  BY <1>2 DEF ImportRow
  <2>2. c.seen <= closed'  BY <1>2, <2>1
  <2>3. \A f \in Columns : c.read[f] <= closed'  BY <1>2, <2>1
  <2> QED  BY <1>2, <2>2, <2>3 DEF ImportFits, ImportRow, PartsLeft, Columns, Items
<1> QED  BY <1>1, <1>2 DEF ImportFits

\* A step that touches no row but the importers'.
LEMMA ImportsMove ==
  ASSUME AccountInv, UNCHANGED <<closed, snapshots, newest, stored, delivered>>,
         overlapped \subseteq overlapped', DOMAIN imports' = Importers,
         \A v \in Importers :
           \/ imports'[v] = imports[v]
           \/ ImportFits(imports[v])' /\ ChecksHold(imports[v])' /\ SaveIsCurrent(imports[v])'
  PROVE  AccountInv'
<1>1. /\ closed \in 0 .. Len(Trades) /\ SnapshotsFit /\ stored \in [Histories -> [Items -> Nat]]
      /\ delivered \in [Histories -> 0 .. closed]
      /\ \A v \in Importers : ImportFits(imports[v]) /\ ChecksHold(imports[v]) /\ SaveIsCurrent(imports[v])
  BY DEF AccountInv, DataFits
<1>2. closed \in Nat  BY <1>1
<1>3. ASSUME NEW v \in Importers
      PROVE  ImportFits(imports[v])' /\ ChecksHold(imports[v])' /\ SaveIsCurrent(imports[v])'
  <2>1. CASE imports'[v] = imports[v]
    <3>1. PICK c : c = imports[v]  OBVIOUS
    <3>2. ImportFits(c) /\ ChecksHold(c) /\ SaveIsCurrent(c)  BY <1>1, <3>1
    <3>3. ImportFits(c)'  BY <3>2, <1>2, FitStays
    <3>4. \A h \in Histories, i \in Items : stored[h][i] <= stored'[h][i]
      BY <1>1
    <3>5. ChecksHold(c)'  BY <3>2, <3>4, <1>1, ChecksStay
    <3>6. SaveIsCurrent(c)'  BY <3>2, SaveStays
    <3>7. imports'[v] = c  BY <2>1, <3>1
    <3> QED  BY <3>3, <3>5, <3>6, <3>7
  <2> QED  BY <2>1
<1>4. SnapshotsFit'  BY <1>1 DEF SnapshotsFit, Columns
<1>5. DataFits'  BY <1>1, <1>3, <1>4 DEF DataFits, Items, Histories
<1>6. (Len(snapshots) > 1 => "snapshot" \in overlapped)'  BY DEF AccountInv
<1>7. ItemsAreStoredOnce'
  <2>1. ItemsAreStoredOnce  BY DEF AccountInv
  <2> QED  BY <2>1 DEF ItemsAreStoredOnce, Nameless, Shadowed, OnlyTicket, LookedFor, Histories, Items
<1> QED  BY <1>3, <1>5, <1>6, <1>7 DEF AccountInv

------------------------------------------------------------------------------
(***************************************************************************)
(* Each action keeps the invariant.                                        *)
(***************************************************************************)

\* What the invariant says of one importer.
LEMMA OfAnImport ==
  ASSUME AccountInv, NEW w \in Importers
  PROVE  /\ closed \in Nat /\ DOMAIN imports = Importers
         /\ ImportFits(imports[w]) /\ ChecksHold(imports[w]) /\ SaveIsCurrent(imports[w])
BY DEF AccountInv, DataFits

\* An importer with a part to do has a row.
LEMMA BusyRow ==
  ASSUME AccountInv, NEW w \in Importers, imports[w].parts # <<>>
  PROVE  /\ imports[w] \in ImportRow
         /\ imports[w].seen <= closed /\ imports[w].checked <= imports[w].seen
         /\ \A f \in Columns : imports[w].read[f] <= closed
<1>1. imports[w] # Unoccupied  BY DEF Unoccupied
<1> QED  BY <1>1, OfAnImport DEF ImportFits

LEMMA AccountInvInitially == AccountDataInit => AccountInv
<1> SUFFICES ASSUME AccountDataInit  PROVE AccountInv
  OBVIOUS
<1> USE DEF AccountDataInit
<1>1. Len(Trades) \in Nat /\ snapshots \in Seq([Columns -> Nat]) /\ Len(snapshots) = 0
  BY AccountDataAssumption
<1>2. \A w \in Importers : ImportFits(imports[w]) /\ ChecksHold(imports[w]) /\ SaveIsCurrent(imports[w])
  BY NothingToCheck DEF ImportFits
<1>3. SnapshotsFit  BY <1>1 DEF SnapshotsFit
<1>4. DataFits  BY <1>1, <1>2, <1>3 DEF DataFits
<1>5. ItemsAreStoredOnce
  <2> SUFFICES ASSUME NEW h \in Histories, NEW i \in Items
               PROVE  ~(i <= delivered[h]) /\ ~(stored[h][i] > 1)
    BY DEF ItemsAreStoredOnce
  <2>1. i \in 1 .. Len(Trades)  BY AccountDataAssumption DEF Items
  <2> QED  BY <2>1
<1> QED  BY <1>1, <1>2, <1>4, <1>5 DEF AccountInv

LEMMA CloseTradeKeeps ==
  ASSUME AccountInv, CloseTrade
  PROVE  AccountInv'
<1> USE DEF CloseTrade, accountRows
<1>1. /\ closed \in 0 .. Len(Trades) /\ SnapshotsFit /\ stored \in [Histories -> [Items -> Nat]]
      /\ delivered \in [Histories -> 0 .. closed] /\ DOMAIN imports = Importers
      /\ \A w \in Importers : ImportFits(imports[w]) /\ ChecksHold(imports[w]) /\ SaveIsCurrent(imports[w])
  BY DEF AccountInv, DataFits
<1>2. /\ closed' \in 0 .. Len(Trades) /\ closed \in Nat /\ closed' \in Nat /\ closed <= closed'
      /\ closed' = closed + 1
  <2>1. Len(Trades) \in Nat  BY AccountDataAssumption
  <2> QED  BY <1>1, <2>1
<1>3. \A w \in Importers : ImportFits(imports[w])'
  <2> SUFFICES ASSUME NEW w \in Importers  PROVE ImportFits(imports[w])'
    OBVIOUS
  <2>1. PICK c : c = imports[w]  OBVIOUS
  <2>2. ImportFits(c)'  BY <1>1, <1>2, <2>1, FitStays
  <2> QED  BY <2>1, <2>2
<1>4. \A w \in Importers : ChecksHold(imports[w])' /\ SaveIsCurrent(imports[w])'
  BY <1>1 DEF ChecksHold, SaveIsCurrent, Settled, Stored, Doing, Nameless, OnlyTicket, LookedFor, Items
<1>5. SnapshotsFit'
  <2>1. ASSUME NEW r \in 1 .. Len(snapshots), NEW f \in Columns  PROVE snapshots[r][f] <= closed'
    <3>1. snapshots[r][f] <= closed  BY <1>1 DEF SnapshotsFit
    <3>2. snapshots[r] \in [Columns -> Nat]  BY <1>1 DEF SnapshotsFit
    <3> QED  BY <3>1, <3>2, <1>2
  <2> QED  BY <2>1, <1>1 DEF SnapshotsFit, Columns
<1>6. delivered' \in [Histories -> 0 .. closed']
  <2>1. \A n \in 0 .. closed : n \in 0 .. closed'  BY <1>2
  <2> QED  BY <1>1, <2>1
<1>7. DataFits'  BY <1>1, <1>2, <1>3, <1>5, <1>6 DEF DataFits, Histories, Items
<1>8. ItemsAreStoredOnce'
  <2>1. ItemsAreStoredOnce  BY DEF AccountInv
  <2> QED  BY <2>1 DEF ItemsAreStoredOnce, Nameless, Shadowed, OnlyTicket, LookedFor, Histories, Items
<1> QED  BY <1>4, <1>7, <1>8 DEF AccountInv

\* A new import has checked nothing and read nothing, and is as new as can be.
LEMMA BegunIsRight ==
  ASSUME AccountInv, NEW kind \in Kinds, NEW v \in Importers,
         UNCHANGED <<closed, snapshots>>, imports'[v] = Import(kind)
  PROVE  ImportFits(imports[v])' /\ ChecksHold(imports[v])' /\ SaveIsCurrent(imports[v])'
<1>1. closed \in Nat /\ SnapshotsFit  BY DEF AccountInv, DataFits
<1>2. PICK c : c = Import(kind)  OBVIOUS
<1>3. /\ c \in ImportRow /\ c.seen = closed /\ c.checked = 0 /\ c.pending = {}
      /\ ~c.open /\ c.row = 0 /\ ~c.overtaken /\ \A f \in Columns : c.read[f] = 0
  BY <1>1, <1>2, ImportsBegin
<1>4. ImportFits(c)'
  <2>1. ImportFits(c)  BY <1>1, <1>3 DEF ImportFits
  <2>2. closed' \in Nat /\ closed <= closed'  BY <1>1
  <2> QED  BY <1>1, <2>1, <2>2, FitStays
<1>5. ChecksHold(c)'  BY <1>3 DEF ChecksHold
<1>6. SaveIsCurrent(c)'
  <2>1. Len(snapshots) \in Nat /\ \A r \in 1 .. Len(snapshots) : \A f \in Columns : snapshots[r][f] <= c.seen
    BY <1>1, <1>3 DEF SnapshotsFit
  <2> QED  BY <1>3, <2>1 DEF SaveIsCurrent
<1> QED  BY <1>2, <1>4, <1>5, <1>6

LEMMA FetchKeeps ==
  ASSUME AccountInv, NEW w \in Importers, NEW kind \in Kinds,
         Fetch(w, kind) \/ \E v \in Importers : FetchAndImport(w, v, kind)
  PROVE  AccountInv'
<1>1. UNCHANGED <<closed, snapshots, newest, stored, delivered, overlapped>>
  BY DEF Fetch, FetchAndImport, accountRows
<1>2. DOMAIN imports = Importers  BY DEF AccountInv, DataFits
<1>3. DOMAIN imports' = Importers /\ \A v \in Importers : imports'[v] = imports[v] \/ imports'[v] = Import(kind)
  BY <1>2 DEF Fetch, FetchAndImport
<1>4. \A v \in Importers :
        \/ imports'[v] = imports[v]
        \/ ImportFits(imports[v])' /\ ChecksHold(imports[v])' /\ SaveIsCurrent(imports[v])'
  BY <1>1, <1>3, BegunIsRight
<1> QED  BY <1>1, <1>3, <1>4, ImportsMove

LEMMA BreakOffKeeps ==
  ASSUME AccountInv, NEW w \in Importers, BreakOff(w)
  PROVE  AccountInv'
<1>1. UNCHANGED <<closed, snapshots, newest, stored, delivered, overlapped>>
  BY DEF BreakOff, accountRows
<1>2. DOMAIN imports = Importers  BY DEF AccountInv, DataFits
<1>3. DOMAIN imports' = Importers /\ \A v \in Importers : imports'[v] = imports[v] \/ imports'[v] = Unoccupied
  BY <1>2 DEF BreakOff
<1>4. ImportFits(Unoccupied)' /\ ChecksHold(Unoccupied)' /\ SaveIsCurrent(Unoccupied)'
  BY NothingToCheck, IdleDoesNothing DEF ImportFits, ChecksHold, SaveIsCurrent, Unoccupied, Doing
<1>5. \A v \in Importers :
        \/ imports'[v] = imports[v]
        \/ ImportFits(imports[v])' /\ ChecksHold(imports[v])' /\ SaveIsCurrent(imports[v])'
  BY <1>3, <1>4
<1> QED  BY <1>1, <1>3, <1>5, ImportsMove

LEMMA RowsOfSnapshots ==
  ASSUME SnapshotsFit
  PROVE  /\ Len(snapshots) \in Nat /\ DOMAIN snapshots = 1 .. Len(snapshots)
         /\ \A r \in DOMAIN snapshots :
              /\ r \in 1 .. Len(snapshots) /\ r \in Nat /\ r # 0 /\ r \in 0 .. Len(snapshots)
              /\ snapshots[r] \in [Columns -> Nat] /\ \A f \in Columns : snapshots[r][f] <= closed
BY DEF SnapshotsFit

\* What a read leaves in the record of an import.
LEMMA SnapshotIsRead ==
  ASSUME NEW c \in ImportRow, Doing(c, "snapshot"), ~c.open, c.seen <= closed, c.checked <= c.seen,
         \A f \in Columns : c.read[f] <= closed, SaveIsCurrent(c), SnapshotsFit, NEW d,
         \/ snapshots = <<>> /\ d = [c EXCEPT !.open = TRUE]
         \/ \E r \in DOMAIN snapshots : d = [c EXCEPT !.open = TRUE, !.row = r, !.read = snapshots[r]]
  PROVE  ImportFits(d) /\ ChecksHold(d) /\ SaveIsCurrent(d)
<1>1. c.row = 0 /\ (~c.overtaken => \A r \in 1 .. Len(snapshots) : \A f \in Columns : snapshots[r][f] <= c.seen)
  BY DEF SaveIsCurrent
<1>2. d.parts = c.parts /\ d.seen = c.seen /\ d.open /\ d.overtaken = c.overtaken /\ d.checked = c.checked
  BY DEF ImportRow
<1>3. Doing(d, "snapshot") /\ ~\E h \in Histories : Doing(d, h)
  <2>1. Doing(d, "snapshot")  BY <1>2 DEF Doing
  <2> QED  BY <2>1, OnePart DEF Histories
<1>4. CASE snapshots = <<>> /\ d = [c EXCEPT !.open = TRUE]
  <2>1. d \in ImportRow /\ d.row = 0 /\ d.read = c.read  BY <1>1, <1>4 DEF ImportRow
  <2>2. Len(snapshots) = 0  BY <1>4
  <2>3. SaveIsCurrent(d)  BY <1>1, <1>2, <2>1, <2>2 DEF SaveIsCurrent
  <2> QED  BY <1>2, <1>3, <2>1, <2>3 DEF ImportFits, ChecksHold
<1>5. ASSUME NEW r \in DOMAIN snapshots, d = [c EXCEPT !.open = TRUE, !.row = r, !.read = snapshots[r]]
      PROVE  ImportFits(d) /\ ChecksHold(d) /\ SaveIsCurrent(d)
  <2>1. /\ r \in 1 .. Len(snapshots) /\ r \in Nat /\ r # 0 /\ r \in 0 .. Len(snapshots)
        /\ snapshots[r] \in [Columns -> Nat] /\ \A f \in Columns : snapshots[r][f] <= closed
    BY RowsOfSnapshots, Zenon
  <2>2. d.row = r /\ d.read = snapshots[r] /\ d \in ImportRow
    BY <1>5, <2>1 DEF ImportRow
  <2>3. d.row \in 0 .. Len(snapshots) /\ d.row # 0 /\ d.read = snapshots[d.row]
    BY <2>1, <2>2
  <2>4. ~d.overtaken => \A q \in 1 .. Len(snapshots) : \A f \in Columns : snapshots[q][f] <= d.seen
    BY <1>1, <1>2, Zenon
  <2>5. SaveIsCurrent(d)  BY <1>2, <2>3, <2>4, Zenon DEF SaveIsCurrent
  <2> QED  BY <1>2, <1>3, <2>1, <2>2, <2>5 DEF ImportFits, ChecksHold
<1> QED  BY <1>4, <1>5

LEMMA ReadSnapshotKeeps ==
  ASSUME AccountInv, NEW w \in Importers, ReadSnapshot(w)
  PROVE  AccountInv'
<1>1. UNCHANGED <<closed, snapshots, newest, stored, delivered, overlapped>>
  BY DEF ReadSnapshot, accountRows
<1>2. DOMAIN imports = Importers /\ SnapshotsFit  BY DEF AccountInv, DataFits
<1>3. DOMAIN imports' = Importers /\ \A v \in Importers \ {w} : imports'[v] = imports[v]
  BY <1>2 DEF ReadSnapshot
<1>4. PICK c : c = imports[w]  OBVIOUS
<1>5. PICK d : d = imports'[w]  OBVIOUS
<1>6. Doing(c, "snapshot") /\ ~c.open /\ imports[w].parts # <<>>
  BY <1>4 DEF ReadSnapshot, At, Doing
<1>7. /\ c \in ImportRow /\ c.seen <= closed /\ c.checked <= c.seen
      /\ \A f \in Columns : c.read[f] <= closed
      /\ SaveIsCurrent(c)
  BY <1>4, <1>6, BusyRow, OfAnImport
<1>8. \/ snapshots = <<>> /\ d = [c EXCEPT !.open = TRUE]
      \/ \E r \in DOMAIN snapshots : d = [c EXCEPT !.open = TRUE, !.row = r, !.read = snapshots[r]]
  BY <1>2, <1>4, <1>5 DEF ReadSnapshot
<1>9. ImportFits(d) /\ ChecksHold(d) /\ SaveIsCurrent(d)
  BY <1>2, <1>6, <1>7, <1>8, SnapshotIsRead
<1>10. ImportFits(imports[w])' /\ ChecksHold(imports[w])' /\ SaveIsCurrent(imports[w])'
  BY <1>1, <1>5, <1>9
     DEF ImportFits, ChecksHold, SaveIsCurrent, Settled, Stored, Doing, Nameless, OnlyTicket, LookedFor,
         ImportRow, PartsLeft, Columns, Items
<1> QED  BY <1>1, <1>3, <1>10, ImportsMove

LEMMA ReadPerformanceKeeps ==
  ASSUME AccountInv, NEW w \in Importers, ReadPerformance(w)
  PROVE  AccountInv'
<1>1. UNCHANGED <<closed, snapshots, newest, stored, delivered, overlapped>>
  BY DEF ReadPerformance, accountRows
<1>2. DOMAIN imports = Importers  BY DEF AccountInv, DataFits
<1>3. DOMAIN imports' = Importers /\ \A v \in Importers \ {w} : imports'[v] = imports[v]
  BY <1>2 DEF ReadPerformance
<1>4. PICK c : c = imports[w]  OBVIOUS
<1>5. PICK n : n \in {0, 1} /\ imports'[w] = [c EXCEPT !.open = TRUE, !.row = n]
  <2>1. PICK n : n = IF performance = 0 THEN 0 ELSE 1  OBVIOUS
  <2>2. n \in {0, 1}  BY <2>1
  <2>3. imports'[w] = [c EXCEPT !.open = TRUE, !.row = n]
    BY <1>2, <1>4, <2>1 DEF ReadPerformance
  <2> QED  BY <2>2, <2>3
<1>6. Doing(c, "performance") /\ imports[w].parts # <<>>
  BY <1>4 DEF ReadPerformance, At, Doing
<1>7. c \in ImportRow /\ c.seen <= closed /\ c.checked <= c.seen /\ \A f \in Columns : c.read[f] <= closed
  BY <1>4, <1>6, BusyRow
<1>8. PICK d : d = [c EXCEPT !.open = TRUE, !.row = n]  OBVIOUS
<1>9. d \in ImportRow /\ d.parts = c.parts /\ d.seen = c.seen /\ d.checked = c.checked /\ d.read = c.read
  <2>1. n \in Nat  BY <1>5
  <2> QED  BY <1>7, <1>8, <2>1 DEF ImportRow
<1>10. Doing(d, "performance")  BY <1>6, <1>9 DEF Doing
<1>11. ImportFits(d)  BY <1>7, <1>9 DEF ImportFits
<1>12. ImportFits(d)'
  <2>1. closed \in Nat  BY OfAnImport
  <2>2. closed' \in Nat /\ closed <= closed'  BY <1>1, <2>1
  <2> QED  BY <1>11, <2>1, <2>2, FitStays
<1>13. ChecksHold(d)' /\ SaveIsCurrent(d)'
  <2>1. \A part : Doing(d, part) => part = "performance"  BY <1>10, OnePart
  <2> QED  BY <2>1 DEF ChecksHold, SaveIsCurrent, Histories
<1>14. imports'[w] = d  BY <1>5, <1>8
<1> QED  BY <1>1, <1>3, <1>12, <1>13, <1>14, ImportsMove

\* Who commits a part is done with it.
LEMMA CommitterMovesOn ==
  ASSUME AccountInv, NEW w \in Importers, NEW part, imports[w].parts # <<>>, Commit(w, part),
         closed' = closed
  PROVE  /\ DOMAIN imports' = Importers /\ overlapped \subseteq overlapped'
         /\ ImportFits(imports[w])' /\ ChecksHold(imports[w])' /\ SaveIsCurrent(imports[w])'
         /\ \A v \in Importers \ {w} :
              IF part = "snapshot" /\ At(v, part) THEN imports'[v] = [imports[v] EXCEPT !.overtaken = TRUE]
              ELSE imports'[v] = imports[v]
<1>1. PICK c : c = imports[w]  OBVIOUS
<1>2. PICK d : d = After(c)  OBVIOUS
<1>3. imports'[w] = d  BY <1>1, <1>2 DEF Commit
<1>4. /\ c \in ImportRow /\ c.seen <= closed /\ c.checked <= c.seen
      /\ \A f \in Columns : c.read[f] <= closed
  BY <1>1, BusyRow
<1>5. \/ d = Unoccupied
      \/ /\ d \in ImportRow /\ Doing(d, "performance")
         /\ d.seen = c.seen /\ d.checked = c.checked /\ d.read = c.read
  BY <1>2, <1>4, AfterAPart
<1>6. ImportFits(d)'
  <2>1. ImportFits(d)  BY <1>4, <1>5 DEF ImportFits
  <2>2. closed \in Nat  BY OfAnImport
  <2>3. closed' \in Nat /\ closed <= closed'  BY <2>2
  <2> QED  BY <2>1, <2>2, <2>3, FitStays
<1>7. ChecksHold(d)' /\ SaveIsCurrent(d)'
  <2>1. \A p : Doing(d, p) => p = "performance"  BY <1>5, IdleDoesNothing, OnePart
  <2> QED  BY <2>1 DEF ChecksHold, SaveIsCurrent, Histories
<1>8. DOMAIN imports' = Importers /\ overlapped \subseteq overlapped'  BY DEF Commit
<1>9. \A v \in Importers \ {w} :
        IF part = "snapshot" /\ At(v, part) THEN imports'[v] = [imports[v] EXCEPT !.overtaken = TRUE]
        ELSE imports'[v] = imports[v]
  BY DEF Commit
<1> QED  BY <1>3, <1>6, <1>7, <1>8, <1>9

LEMMA SavePerformanceKeeps ==
  ASSUME AccountInv, NEW w \in Importers, SavePerformance(w)
  PROVE  AccountInv'
<1>1. UNCHANGED <<closed, snapshots, newest, stored, delivered>>
  BY DEF SavePerformance
<1>2. DOMAIN imports = Importers /\ imports[w].parts # <<>>
  BY OfAnImport DEF SavePerformance, At
<1>3. CASE imports' = [imports EXCEPT ![w] = Unoccupied] /\ UNCHANGED overlapped
  <2>1. ImportFits(Unoccupied)' /\ ChecksHold(Unoccupied)' /\ SaveIsCurrent(Unoccupied)'
    BY IdleDoesNothing DEF ImportFits, ChecksHold, SaveIsCurrent, Unoccupied, Doing
  <2>2. DOMAIN imports' = Importers /\ imports'[w] = Unoccupied /\ \A v \in Importers \ {w} : imports'[v] = imports[v]
    BY <1>2, <1>3
  <2>3. overlapped \subseteq overlapped'  BY <1>3
  <2> QED  BY <1>1, <2>1, <2>2, <2>3, ImportsMove
<1>4. CASE Commit(w, "performance")
  <2>1. /\ DOMAIN imports' = Importers /\ overlapped \subseteq overlapped'
        /\ ImportFits(imports[w])' /\ ChecksHold(imports[w])' /\ SaveIsCurrent(imports[w])'
        /\ \A v \in Importers \ {w} :
             IF "performance" = "snapshot" /\ At(v, "performance")
             THEN imports'[v] = [imports[v] EXCEPT !.overtaken = TRUE]
             ELSE imports'[v] = imports[v]
    <3>1. closed' = closed  BY <1>1
    <3> QED  BY <1>2, <1>4, <3>1, CommitterMovesOn, Zenon
  <2>2. \A v \in Importers \ {w} : imports'[v] = imports[v]
    BY <2>1
  <2> QED  BY <1>1, <2>1, <2>2, ImportsMove
<1> QED  BY <1>3, <1>4 DEF SavePerformance

\* An item is found when it is settled already, and settled when it has been looked for.
LEMMA LookingSettles ==
  ASSUME NEW h \in Histories, NEW i \in Items, NEW rows \in SUBSET Items
  PROVE  /\ Found(h, i, rows) => Settled(h, i, rows)
         /\ i \in rows => Found(h, i, rows) \/ (h = "trades" /\ OnlyTicket(i))
<1>1. ASSUME Found(h, i, rows)  PROVE Settled(h, i, rows)
  <2>1. CASE h = "trades"
    <3>1. PICK j \in rows : SameTrade(i, j)  BY <1>1, <2>1 DEF Found
    <3>2. CASE LookedFor(i) = 0
      <4>1. Nameless(i)  BY <3>2 DEF LookedFor, Nameless
      <4> QED  BY <2>1, <4>1 DEF Settled
    <3>3. CASE LookedFor(i) # 0
      <4>1. Trades[j].position = LookedFor(i)  BY <3>1, <3>3 DEF SameTrade
      <4> QED  BY <2>1, <3>1, <4>1 DEF Settled
    <3> QED  BY <3>2, <3>3
  <2>2. CASE h # "trades"  BY <1>1, <2>2 DEF Found, Settled
  <2> QED  BY <2>1, <2>2
<1>2. ASSUME i \in rows  PROVE Found(h, i, rows) \/ (h = "trades" /\ OnlyTicket(i))
  <2>1. CASE h = "trades" /\ ~OnlyTicket(i)
    <3>1. SameTrade(i, i)  BY <2>1 DEF OnlyTicket, SameTrade, LookedFor
    <3> QED  BY <1>2, <2>1, <3>1 DEF Found
  <2>2. CASE h # "trades"  BY <1>2, <2>2 DEF Found
  <2> QED  BY <2>1, <2>2
<1> QED  BY <1>1, <1>2

\* One more item is checked.
LEMMA ItemIsChecked ==
  ASSUME NEW c \in ImportRow, NEW h \in Histories, Doing(c, h), c.seen <= closed, c.checked < c.seen,
         \A f \in Columns : c.read[f] <= closed, ChecksHold(c), closed \in 0 .. Len(Trades),
         stored \in [Histories -> [Items -> Nat]],
         NEW d, d = [c EXCEPT !.open = TRUE, !.checked = c.checked + 1,
                       !.pending = IF Found(h, c.checked + 1, Stored(h) \cup c.pending) THEN c.pending
                                   ELSE c.pending \cup {c.checked + 1}]
  PROVE  ImportFits(d) /\ ChecksHold(d) /\ SaveIsCurrent(d)
<1> DEFINE i == c.checked + 1
           rows == Stored(h) \cup c.pending
<1>1. i \in Items /\ c.checked \in Nat /\ c.seen \in Nat /\ c.pending \subseteq Items /\ closed \in Nat
  <2>1. Len(Trades) \in Nat /\ Items = 1 .. Len(Trades)  BY AccountDataAssumption DEF Items
  <2>2. c.checked \in Nat /\ c.seen \in Nat /\ c.pending \subseteq Items  BY DEF ImportRow
  <2> QED  BY <2>1, <2>2
<1>2. rows \subseteq Items  BY <1>1 DEF Stored
<1>3. PICK left : left = IF Found(h, i, rows) THEN c.pending ELSE c.pending \cup {i}
  OBVIOUS
<1>4. left \subseteq Items  BY <1>1, <1>3
<1>5. d = [c EXCEPT !.open = TRUE, !.checked = i, !.pending = left]
  BY <1>3
<1>6. /\ d \in ImportRow /\ d.open /\ d.checked = i /\ d.pending = left /\ d.parts = c.parts
      /\ d.seen = c.seen /\ d.read = c.read
  <2>1. i \in Nat  BY <1>1
  <2> HIDE DEF i
  <2> QED  BY <1>4, <1>5, <2>1 DEF ImportRow
<1>7. ImportFits(d)
  <2>1. i <= c.seen  BY <1>1
  <2> QED  BY <1>6, <2>1 DEF ImportFits
<1>8. Doing(d, h) /\ \A p : Doing(d, p) => p = h
  <2>1. Doing(d, h)  BY <1>6 DEF Doing
  <2> QED  BY <2>1, OnePart
<1>9. /\ \A j \in 1 .. c.checked : Settled(h, j, rows)
      /\ h \notin overlapped => \A j \in c.pending : stored[h][j] = 0 \/ (h = "trades" /\ OnlyTicket(j))
  BY DEF ChecksHold
<1>10. \A j \in 1 .. i : Settled(h, j, Stored(h) \cup left)
  <2>1. rows \subseteq Stored(h) \cup left  BY <1>3
  <2>2. ASSUME NEW j \in 1 .. c.checked  PROVE Settled(h, j, Stored(h) \cup left)
    <3>1. Settled(h, j, rows)  BY <1>9
    <3> HIDE DEF rows
    <3> QED  BY <2>1, <3>1 DEF Settled
  <2>3. Settled(h, i, Stored(h) \cup left)
    <3> HIDE DEF rows, i
    <3>1. CASE Found(h, i, rows)
      <4>1. Settled(h, i, rows)  BY <1>1, <1>2, <3>1, LookingSettles
      <4> QED  BY <2>1, <4>1 DEF Settled
    <3>2. CASE ~Found(h, i, rows)
      <4>1. i \in left  BY <1>3, <3>2
      <4> QED  BY <4>1 DEF Settled
    <3> QED  BY <3>1, <3>2
  <2>4. \A j \in 1 .. i : j \in 1 .. c.checked \/ j = i  BY <1>1
  <2> QED  BY <2>2, <2>3, <2>4
<1>11. ASSUME h \notin overlapped, NEW j \in left
       PROVE  stored[h][j] = 0 \/ (h = "trades" /\ OnlyTicket(j))
  <2>1. CASE j \in c.pending  BY <1>9, <1>11, <2>1
  <2>2. CASE j \notin c.pending
    <3> HIDE DEF rows, i
    <3>1. j = i /\ ~Found(h, i, rows)  BY <1>3, <1>11, <2>2
    <3>2. i \notin rows \/ (h = "trades" /\ OnlyTicket(i))  BY <1>1, <1>2, <3>1, LookingSettles
    <3>3. i \notin rows => stored[h][i] = 0
      <4>1. stored[h][i] \in Nat  BY <1>1
      <4> QED  BY <1>1, <4>1 DEF rows, Stored
    <3> QED  BY <3>1, <3>2, <3>3
  <2> QED  BY <2>1, <2>2
<1>12. ChecksHold(d)
  <2> HIDE DEF i
  <2> QED  BY <1>6, <1>8, <1>10, <1>11 DEF ChecksHold
<1>13. SaveIsCurrent(d)
  <2>1. h # "snapshot"  BY DEF Histories
  <2> QED  BY <1>8, <2>1 DEF SaveIsCurrent
<1> QED  BY <1>7, <1>12, <1>13

LEMMA CheckItemKeeps ==
  ASSUME AccountInv, NEW w \in Importers, NEW h \in Histories, CheckItem(w, h)
  PROVE  AccountInv'
<1>1. UNCHANGED <<closed, snapshots, newest, stored, delivered, overlapped>>
  BY DEF CheckItem, accountRows
<1>2. /\ DOMAIN imports = Importers /\ closed \in 0 .. Len(Trades)
      /\ stored \in [Histories -> [Items -> Nat]]
  BY DEF AccountInv, DataFits
<1>3. DOMAIN imports' = Importers /\ \A v \in Importers \ {w} : imports'[v] = imports[v]
  BY <1>2 DEF CheckItem
<1>4. PICK c : c = imports[w]  OBVIOUS
<1>5. PICK d : d = imports'[w]  OBVIOUS
<1>6. Doing(c, h) /\ c.checked < c.seen /\ imports[w].parts # <<>>
  BY <1>4 DEF CheckItem, At, Doing
<1>7. /\ c \in ImportRow /\ c.seen <= closed /\ \A f \in Columns : c.read[f] <= closed
      /\ ChecksHold(c)
  BY <1>4, <1>6, BusyRow, OfAnImport
<1>8. d = [c EXCEPT !.open = TRUE, !.checked = c.checked + 1,
                    !.pending = IF Found(h, c.checked + 1, Stored(h) \cup c.pending) THEN c.pending
                                ELSE c.pending \cup {c.checked + 1}]
  BY <1>2, <1>4, <1>5 DEF CheckItem, Visible, Stored
<1>9. ImportFits(d) /\ ChecksHold(d) /\ SaveIsCurrent(d)
  BY <1>2, <1>6, <1>7, <1>8, ItemIsChecked
<1>10. ImportFits(imports[w])' /\ ChecksHold(imports[w])' /\ SaveIsCurrent(imports[w])'
  BY <1>1, <1>5, <1>9
     DEF ImportFits, ChecksHold, SaveIsCurrent, Settled, Stored, Doing, Nameless, OnlyTicket, LookedFor,
         ImportRow, PartsLeft, Columns, Items
<1> QED  BY <1>1, <1>3, <1>10, ImportsMove

LEMMA CommitItemsKeeps ==
  ASSUME AccountInv, NEW w \in Importers, NEW h \in Histories, CommitItems(w, h)
  PROVE  AccountInv'
<1>1. UNCHANGED <<closed, snapshots, newest>>
  BY DEF CommitItems
<1>2. /\ closed \in 0 .. Len(Trades) /\ closed \in Nat /\ SnapshotsFit
      /\ stored \in [Histories -> [Items -> Nat]] /\ delivered \in [Histories -> 0 .. closed]
      /\ DOMAIN imports = Importers
      /\ \A v \in Importers : ImportFits(imports[v]) /\ ChecksHold(imports[v]) /\ SaveIsCurrent(imports[v])
      /\ ItemsAreStoredOnce
  BY DEF AccountInv, DataFits
<1>3. PICK c : c = imports[w]  OBVIOUS
<1>4. Doing(c, h) /\ c.checked = c.seen /\ imports[w].parts # <<>>
  BY <1>3 DEF CommitItems, At, Doing
<1>5. c \in ImportRow /\ c.seen <= closed /\ ChecksHold(c) /\ c.seen \in Nat /\ c.pending \subseteq Items
  <2>1. c \in ImportRow /\ c.seen <= closed /\ ChecksHold(c)  BY <1>3, <1>4, BusyRow, OfAnImport
  <2> QED  BY <2>1 DEF ImportRow
<1>6. /\ DOMAIN imports' = Importers /\ overlapped \subseteq overlapped'
      /\ ImportFits(imports[w])' /\ ChecksHold(imports[w])' /\ SaveIsCurrent(imports[w])'
      /\ \A v \in Importers \ {w} : imports'[v] = imports[v]
  <2>1. h # "snapshot"  BY DEF Histories
  <2>2. Commit(w, h) /\ closed' = closed  BY DEF CommitItems
  <2> QED  BY <1>4, <2>1, <2>2, CommitterMovesOn
<1>7. /\ stored' \in [Histories -> [Items -> Nat]]
      /\ \A g \in Histories \ {h} : stored'[g] = stored[g]
      /\ \A i \in Items : stored'[h][i] = stored[h][i] + (IF i \in c.pending THEN 1 ELSE 0)
  BY <1>2, <1>3 DEF CommitItems
<1>8. \A g \in Histories, i \in Items : stored[g][i] <= stored'[g][i]
  <2> SUFFICES ASSUME NEW g \in Histories, NEW i \in Items  PROVE stored[g][i] <= stored'[g][i]
    OBVIOUS
  <2>1. stored[g][i] \in Nat  BY <1>2
  <2> QED  BY <1>7, <2>1
<1>9. ASSUME NEW v \in Importers
      PROVE  ImportFits(imports[v])' /\ ChecksHold(imports[v])' /\ SaveIsCurrent(imports[v])'
  <2>1. CASE v = w  BY <1>6, <2>1
  <2>2. CASE v # w
    <3>1. PICK e : e = imports[v]  OBVIOUS
    <3>2. imports'[v] = e  BY <1>6, <2>2, <3>1
    <3>3. ImportFits(e) /\ ChecksHold(e) /\ SaveIsCurrent(e)  BY <1>2, <3>1
    <3>4. ImportFits(e)'
      <4>1. closed' \in Nat /\ closed <= closed'  BY <1>1, <1>2
      <4> QED  BY <1>2, <3>3, <4>1, FitStays
    <3>5. ASSUME NEW g \in Histories, Doing(e, g), e.open, g \notin overlapped'
          PROVE  stored'[g] = stored[g]
      <4>1. CASE g = h
        <5>1. Overlapping(w, h)  BY <2>2, <3>1, <3>5, <4>1 DEF Overlapping, At, Doing
        <5>2. h \in overlapped'  BY <5>1 DEF CommitItems, Commit
        <5> QED  BY <3>5, <4>1, <5>2
      <4>2. CASE g # h  BY <1>7, <4>2
      <4> QED  BY <4>1, <4>2
    <3>6. ChecksHold(e)'  BY <1>2, <1>6, <1>7, <1>8, <3>3, <3>5, ChecksStay
    <3>7. SaveIsCurrent(e)'  BY <1>1, <1>6, <3>3, SaveStays
    <3> QED  BY <3>2, <3>4, <3>6, <3>7
  <2> QED  BY <2>1, <2>2
<1>10. SnapshotsFit'  BY <1>1, <1>2 DEF SnapshotsFit, Columns
<1>11. /\ delivered' \in [Histories -> 0 .. closed]
       /\ \A g \in Histories \ {h} : delivered'[g] = delivered[g]
       /\ delivered'[h] = c.seen \/ delivered'[h] = delivered[h]
  <2>1. PICK n : n = IF c.seen > delivered[h] THEN c.seen ELSE delivered[h]  OBVIOUS
  <2>2. n \in 0 .. closed /\ (n = c.seen \/ n = delivered[h])  BY <1>2, <1>5, <2>1
  <2>3. delivered' = [delivered EXCEPT ![h] = n]  BY <1>3, <2>1 DEF CommitItems
  <2> QED  BY <1>2, <2>2, <2>3
<1>12. DataFits'
  BY <1>1, <1>2, <1>6, <1>7, <1>9, <1>10, <1>11 DEF DataFits, Histories, Items
<1>13. ASSUME NEW g \in Histories, NEW i \in Items, i <= delivered'[g]
       PROVE  stored'[g][i] > 0 \/ (g = "trades" /\ (Nameless(i) \/ Shadowed(i)'))
  <2>1. i \in Nat /\ i >= 1
    <3>1. Len(Trades) \in Nat /\ Items = 1 .. Len(Trades)  BY AccountDataAssumption DEF Items
    <3> QED  BY <3>1
  <2>2. CASE i <= delivered[g]
    <3>1. stored[g][i] > 0 \/ (g = "trades" /\ (Nameless(i) \/ Shadowed(i)))
      BY <1>2, <2>2 DEF ItemsAreStoredOnce
    <3>2. stored[g][i] > 0 => stored'[g][i] > 0
      <4>1. stored[g][i] \in Nat /\ stored'[g][i] \in Nat /\ stored[g][i] <= stored'[g][i]  BY <1>2, <1>7, <1>8
      <4> QED  BY <4>1
    <3>3. Shadowed(i) => Shadowed(i)'
      <4> SUFFICES ASSUME Shadowed(i)  PROVE Shadowed(i)'
        OBVIOUS
      <4>1. PICK j \in Items \ {i} : stored["trades"][j] > 0 /\ Trades[j].position = LookedFor(i)
        BY DEF Shadowed
      <4>2. /\ stored["trades"][j] \in Nat /\ stored'["trades"][j] \in Nat
            /\ stored["trades"][j] <= stored'["trades"][j]
        BY <1>2, <1>7, <1>8 DEF Histories
      <4>3. stored'["trades"][j] > 0  BY <4>1, <4>2
      <4> QED  BY <4>1, <4>3 DEF Shadowed, LookedFor, Items
    <3> QED  BY <3>1, <3>2, <3>3
  <2>3. CASE g = h /\ delivered'[h] = c.seen
    <3>1. i \in 1 .. c.checked  BY <1>4, <1>5, <1>13, <2>1, <2>3
    <3>2. Settled(h, i, Stored(h) \cup c.pending)  BY <1>4, <1>5, <3>1 DEF ChecksHold
    <3>3. \A j \in Stored(h) \cup c.pending : j \in Items /\ stored'[h][j] > 0
      <4> SUFFICES ASSUME NEW j \in Stored(h) \cup c.pending  PROVE j \in Items /\ stored'[h][j] > 0
        OBVIOUS
      <4>1. j \in Items /\ stored[h][j] \in Nat  BY <1>2, <1>5 DEF Stored
      <4>2. j \in c.pending \/ stored[h][j] > 0  BY DEF Stored
      <4>3. stored'[h][j] = stored[h][j] + (IF j \in c.pending THEN 1 ELSE 0)  BY <1>7, <4>1
      <4> QED  BY <4>1, <4>2, <4>3
    <3>4. CASE i \in Stored(h) \cup c.pending  BY <2>3, <3>3, <3>4
    <3>5. CASE h = "trades" /\ Nameless(i)  BY <2>3, <3>5
    <3>6. CASE h = "trades" /\ \E j \in (Stored(h) \cup c.pending) \ {i} : Trades[j].position = LookedFor(i)
      <4>1. PICK j \in (Stored(h) \cup c.pending) \ {i} : Trades[j].position = LookedFor(i)  BY <3>6
      <4>2. j \in Items \ {i} /\ stored'["trades"][j] > 0  BY <3>3, <3>6, <4>1
      <4>3. Shadowed(i)'  BY <4>1, <4>2 DEF Shadowed, LookedFor, Items
      <4> QED  BY <2>3, <3>6, <4>3
    <3> QED  BY <3>2, <3>4, <3>5, <3>6 DEF Settled
  <2> QED  BY <1>11, <1>13, <2>2, <2>3
<1>14. ASSUME NEW g \in Histories, NEW i \in Items, stored'[g][i] > 1
       PROVE  g \in overlapped' \/ (g = "trades" /\ OnlyTicket(i))
  <2>1. stored[g][i] > 1 => g \in overlapped \/ (g = "trades" /\ OnlyTicket(i))
    BY <1>2 DEF ItemsAreStoredOnce
  <2>2. CASE g = h /\ i \in c.pending
    <3>1. h \in overlapped \/ stored[h][i] = 0 \/ (h = "trades" /\ OnlyTicket(i))
      BY <1>4, <1>5, <2>2 DEF ChecksHold
    <3>2. stored'[h][i] = stored[h][i] + 1  BY <1>7, <2>2
    <3>3. stored[h][i] # 0  BY <1>14, <2>2, <3>2
    <3> QED  BY <1>6, <2>2, <3>1, <3>3
  <2>3. CASE ~(g = h /\ i \in c.pending)
    <3>1. stored'[g][i] = stored[g][i]
      <4>1. stored[g][i] \in Nat  BY <1>2
      <4> QED  BY <1>7, <2>3, <4>1
    <3> QED  BY <1>6, <1>14, <2>1, <3>1
  <2> QED  BY <2>2, <2>3
<1>15. ItemsAreStoredOnce'
  BY <1>13, <1>14 DEF ItemsAreStoredOnce, Nameless, OnlyTicket, Histories, Items
<1>16. (Len(snapshots) > 1 => "snapshot" \in overlapped)'
  BY <1>1, <1>6 DEF AccountInv
<1> QED  BY <1>9, <1>12, <1>15, <1>16 DEF AccountInv

\* What is written of a snapshot.
LEMMA FilledFits ==
  ASSUME NEW c \in ImportRow, c.seen <= closed, closed \in Nat, \A f \in Columns : c.read[f] <= closed
  PROVE  /\ Filled(c) \in [Columns -> Nat]
         /\ \A f \in Columns : Filled(c)[f] <= closed
<1>1. c.seen \in Nat /\ c.read \in [Columns -> Nat]  BY DEF ImportRow
<1>2. \A f \in Columns : Filled(c)[f] = c.seen \/ Filled(c)[f] = c.read[f]  BY DEF Filled
<1>3. DOMAIN Filled(c) = Columns  BY DEF Filled
<1>4. \A f \in Columns : Filled(c)[f] \in Nat /\ Filled(c)[f] <= closed
  BY <1>1, <1>2
<1>5. Filled(c) = [f \in Columns |-> Filled(c)[f]]  BY DEF Filled
<1> QED  BY <1>4, <1>5

LEMMA OneReplaced ==
  ASSUME NEW S, NEW s \in Seq(S), NEW i \in 1 .. Len(s), NEW e \in S, NEW t, t = [s EXCEPT ![i] = e]
  PROVE  /\ t \in Seq(S) /\ Len(t) = Len(s) /\ t[i] = e
         /\ \A r \in 1 .. Len(s) : r # i => t[r] = s[r]
<1>1. t \in Seq(S) /\ Len(t) = Len(s)  BY ExceptSeq
<1> QED  BY <1>1

\* The rows after a save: one of them, the newest, was filled, and the others are as before.
LEMMA RowsAfterSave ==
  ASSUME SnapshotsFit, NEW c, c.row \in 0 .. Len(snapshots), NEW filled \in [Columns -> Nat],
         \A f \in Columns : filled[f] <= closed,
         snapshots' = IF c.row = 0 THEN Append(snapshots, filled) ELSE [snapshots EXCEPT ![newest'] = filled],
         newest' = IF c.row = 0 THEN Len(snapshots) + 1 ELSE c.row, closed' = closed
  PROVE  /\ SnapshotsFit'
         /\ snapshots'[newest'] = filled
         /\ Len(snapshots') = IF c.row = 0 THEN Len(snapshots) + 1 ELSE Len(snapshots)
         /\ c.row # 0 => c.row \in 1 .. Len(snapshots)
<1>1. /\ snapshots \in Seq([Columns -> Nat]) /\ Len(snapshots) \in Nat
      /\ \A r \in 1 .. Len(snapshots) : \A f \in Columns : snapshots[r][f] <= closed
  BY DEF SnapshotsFit
<1>2. CASE c.row = 0
  <2>1. snapshots' = Append(snapshots, filled) /\ newest' = Len(snapshots) + 1  BY <1>2
  <2>2. /\ snapshots' \in Seq([Columns -> Nat]) /\ Len(snapshots') = Len(snapshots) + 1
        /\ snapshots'[newest'] = filled
        /\ \A r \in 1 .. Len(snapshots) : snapshots'[r] = snapshots[r]
    BY <1>1, <2>1
  <2>3. \A r \in 1 .. Len(snapshots') : r \in 1 .. Len(snapshots) \/ r = newest'
    BY <1>1, <2>1, <2>2
  <2>4. \A r \in 1 .. Len(snapshots') : \A f \in Columns : snapshots'[r][f] <= closed'
    BY <1>1, <2>2, <2>3
  <2>5. newest' \in 0 .. Len(snapshots') /\ newest' # 0  BY <1>1, <2>1, <2>2
  <2>6. SnapshotsFit'  BY <2>2, <2>4, <2>5 DEF SnapshotsFit, Columns
  <2> QED  BY <1>2, <2>2, <2>6
<1>3. CASE c.row # 0
  <2>1. newest' = c.row /\ c.row \in 1 .. Len(snapshots)  BY <1>1, <1>3
  <2>2. snapshots' = [snapshots EXCEPT ![newest'] = filled]  BY <1>3
  <2>3. /\ snapshots' \in Seq([Columns -> Nat]) /\ Len(snapshots') = Len(snapshots)
        /\ snapshots'[newest'] = filled
        /\ \A r \in 1 .. Len(snapshots) : r # newest' => snapshots'[r] = snapshots[r]
    <3>1. newest' \in 1 .. Len(snapshots)  BY <2>1
    <3>2. PICK n : n = newest'  OBVIOUS
    <3>3. PICK rows : rows = snapshots'  OBVIOUS
    <3>4. n \in 1 .. Len(snapshots) /\ rows = [snapshots EXCEPT ![n] = filled]  BY <2>2, <3>1, <3>2, <3>3
    <3>5. /\ rows \in Seq([Columns -> Nat]) /\ Len(rows) = Len(snapshots) /\ rows[n] = filled
          /\ \A r \in 1 .. Len(snapshots) : r # n => rows[r] = snapshots[r]
      BY <1>1, <3>4, OneReplaced
    <3> QED  BY <3>2, <3>3, <3>5
  <2>4. \A r \in 1 .. Len(snapshots') : \A f \in Columns : snapshots'[r][f] <= closed'
    BY <1>1, <2>3
  <2>5. newest' \in 0 .. Len(snapshots') /\ newest' # 0  BY <1>1, <2>1, <2>3
  <2>6. SnapshotsFit'  BY <2>3, <2>4, <2>5 DEF SnapshotsFit, Columns
  <2> QED  BY <1>3, <2>1, <2>3, <2>6
<1> QED  BY <1>2, <1>3

\* The record of an import that saves, and what its save does to the rows.
LEMMA SaverHas ==
  ASSUME AccountInv, NEW w \in Importers, SaveSnapshot(w), NEW c, c = imports[w]
  PROVE  /\ c \in ImportRow /\ c.seen <= closed /\ c.open /\ Doing(c, "snapshot") /\ imports[w].parts # <<>>
         /\ c.row \in 0 .. Len(snapshots) /\ SaveIsCurrent(c) /\ SnapshotsFit
         /\ \A f \in Columns : Filled(c)[f] \in Nat
         /\ SnapshotsFit' /\ snapshots'[newest'] = Filled(c) /\ newest' # 0
         /\ Len(snapshots') = IF c.row = 0 THEN Len(snapshots) + 1 ELSE Len(snapshots)
         /\ c.row # 0 => c.row \in 1 .. Len(snapshots) /\ newest' = c.row
         /\ Commit(w, "snapshot") /\ closed' = closed /\ Len(snapshots) \in Nat
<1>1. /\ Doing(c, "snapshot") /\ c.open /\ imports[w].parts # <<>> /\ Commit(w, "snapshot") /\ closed' = closed
      /\ newest' = IF c.row = 0 THEN Len(snapshots) + 1 ELSE c.row
      /\ snapshots' = IF c.row = 0 THEN Append(snapshots, Filled(c)) ELSE [snapshots EXCEPT ![newest'] = Filled(c)]
  BY DEF SaveSnapshot, At, Doing
<1>2. /\ c \in ImportRow /\ c.seen <= closed /\ \A f \in Columns : c.read[f] <= closed
      /\ SaveIsCurrent(c) /\ closed \in Nat
  BY <1>1, BusyRow, OfAnImport
<1>3. SnapshotsFit  BY DEF AccountInv, DataFits
<1>4. c.row \in 0 .. Len(snapshots)  BY <1>1, <1>2 DEF SaveIsCurrent
<1>5. Filled(c) \in [Columns -> Nat] /\ \A f \in Columns : Filled(c)[f] <= closed
  BY <1>2, FilledFits
<1>6. PICK filled : filled = Filled(c)  OBVIOUS
<1>7. /\ SnapshotsFit' /\ snapshots'[newest'] = filled
      /\ Len(snapshots') = IF c.row = 0 THEN Len(snapshots) + 1 ELSE Len(snapshots)
      /\ c.row # 0 => c.row \in 1 .. Len(snapshots)
  BY <1>1, <1>3, <1>4, <1>5, <1>6, RowsAfterSave
<1>8. Len(snapshots) \in Nat  BY <1>3, RowsOfSnapshots
<1>9. newest' # 0 /\ (c.row # 0 => newest' = c.row)  BY <1>1, <1>8
<1> QED  BY <1>1, <1>2, <1>3, <1>4, <1>5, <1>6, <1>7, <1>8, <1>9

LEMMA SaveSnapshotKeeps ==
  ASSUME AccountInv, NEW w \in Importers, SaveSnapshot(w)
  PROVE  AccountInv'
<1>1. UNCHANGED <<closed, stored, delivered>>
  BY DEF SaveSnapshot
<1>2. PICK c : c = imports[w]  OBVIOUS
<1>3. /\ c.open /\ Doing(c, "snapshot") /\ imports[w].parts # <<>> /\ SaveIsCurrent(c)
      /\ SnapshotsFit' /\ Commit(w, "snapshot") /\ Len(snapshots) \in Nat
      /\ Len(snapshots') = IF c.row = 0 THEN Len(snapshots) + 1 ELSE Len(snapshots)
  BY <1>2, SaverHas
<1>4. /\ DOMAIN imports' = Importers /\ overlapped \subseteq overlapped'
      /\ ImportFits(imports[w])' /\ ChecksHold(imports[w])' /\ SaveIsCurrent(imports[w])'
      /\ \A v \in Importers \ {w} :
           IF At(v, "snapshot") THEN imports'[v] = [imports[v] EXCEPT !.overtaken = TRUE]
           ELSE imports'[v] = imports[v]
  BY <1>1, <1>3, CommitterMovesOn
<1>5. /\ closed \in 0 .. Len(Trades) /\ closed \in Nat /\ closed' \in Nat
      /\ stored \in [Histories -> [Items -> Nat]] /\ delivered \in [Histories -> 0 .. closed]
      /\ \A v \in Importers : ImportFits(imports[v]) /\ ChecksHold(imports[v]) /\ SaveIsCurrent(imports[v])
      /\ Len(snapshots) > 1 => "snapshot" \in overlapped
      /\ ItemsAreStoredOnce
  BY <1>1 DEF AccountInv, DataFits
<1>6. \A h \in Histories, i \in Items : stored[h][i] <= stored'[h][i]
  BY <1>1, <1>5
<1>7. ASSUME NEW v \in Importers \ {w}
      PROVE  ImportFits(imports[v])' /\ ChecksHold(imports[v])' /\ SaveIsCurrent(imports[v])'
  <2>1. PICK e : e = imports[v]  OBVIOUS
  <2>2. ImportFits(e) /\ ChecksHold(e) /\ SaveIsCurrent(e)  BY <1>5, <2>1
  <2>3. CASE ~At(v, "snapshot")
    <3>1. imports'[v] = e /\ ~Doing(e, "snapshot")  BY <1>4, <2>1, <2>3 DEF At, Doing
    <3>2. ImportFits(e)'  BY <1>1, <1>5, <2>2, FitStays
    <3>3. ChecksHold(e)'  BY <1>1, <1>4, <1>5, <1>6, <2>2, ChecksStay
    <3>4. SaveIsCurrent(e)'  BY <3>1 DEF SaveIsCurrent, Doing
    <3> QED  BY <3>1, <3>2, <3>3, <3>4
  <2>4. CASE At(v, "snapshot")
    <3>1. PICK d : d = [e EXCEPT !.overtaken = TRUE]  OBVIOUS
    <3>2. imports'[v] = d /\ Doing(e, "snapshot") /\ imports[v].parts # <<>>
      BY <1>4, <2>1, <2>4, <3>1 DEF At, Doing
    <3>3. /\ e \in ImportRow /\ e.seen <= closed /\ e.checked <= e.seen
          /\ \A f \in Columns : e.read[f] <= closed
      BY <2>1, <3>2, BusyRow
    <3>4. /\ d \in ImportRow /\ d.overtaken /\ d.parts = e.parts /\ d.seen = e.seen /\ d.checked = e.checked
          /\ d.read = e.read /\ d.open = e.open /\ d.row = e.row
      BY <3>1, <3>3 DEF ImportRow
    <3>5. Doing(d, "snapshot") /\ \A p : Doing(d, p) => p = "snapshot"
      <4>1. Doing(d, "snapshot")  BY <3>2, <3>4 DEF Doing
      <4> QED  BY <4>1, OnePart
    <3>6. ImportFits(d)'
      <4>1. ImportFits(d)  BY <3>3, <3>4 DEF ImportFits
      <4> QED  BY <1>1, <1>5, <4>1, FitStays
    <3>7. ChecksHold(d)'  BY <3>5 DEF ChecksHold, Histories
    <3>8. e.open => "snapshot" \in overlapped'
      <4> SUFFICES ASSUME e.open  PROVE "snapshot" \in overlapped'
        OBVIOUS
      <4>1. Overlapping(w, "snapshot")  BY <2>1, <2>4 DEF Overlapping
      <4> QED  BY <1>3, <4>1 DEF Commit
    <3>9. SaveIsCurrent(d)'
      <4>1. ~e.open => e.row = 0  BY <2>2, <3>2 DEF SaveIsCurrent
      <4>2. e.row \in 0 .. Len(snapshots)  BY <2>2, <3>2 DEF SaveIsCurrent
      <4>3. e.row \in 0 .. Len(snapshots')  BY <1>3, <4>2
      <4> QED  BY <3>4, <3>8, <4>1, <4>3 DEF SaveIsCurrent
    <3> QED  BY <3>2, <3>6, <3>7, <3>9
  <2> QED  BY <2>3, <2>4
<1>8. DataFits'
  BY <1>1, <1>3, <1>4, <1>5, <1>7 DEF DataFits, Histories, Items
<1>9. ItemsAreStoredOnce'
  BY <1>1, <1>4, <1>5 DEF ItemsAreStoredOnce, Nameless, Shadowed, OnlyTicket, LookedFor, Histories, Items
<1>10. Len(snapshots') > 1 => "snapshot" \in overlapped'
  <2> SUFFICES ASSUME Len(snapshots') > 1  PROVE "snapshot" \in overlapped'
    OBVIOUS
  <2>1. CASE c.row = 0
    <3>1. Len(snapshots) > 0  BY <1>3, <2>1
    <3>2. "snapshot" \in overlapped  BY <1>3, <2>1, <3>1 DEF SaveIsCurrent
    <3> QED  BY <1>4, <3>2
  <2>2. CASE c.row # 0  BY <1>3, <1>4, <1>5, <2>2
  <2> QED  BY <2>1, <2>2
<1> QED  BY <1>4, <1>7, <1>8, <1>9, <1>10 DEF AccountInv

LEMMA AccountInvKept ==
  ASSUME AccountInv, [AccountDataNext]_accountVars
  PROVE  AccountInv'
<1>1. CASE CloseTrade  BY <1>1, CloseTradeKeeps
<1>2. ASSUME NEW w \in Importers, NEW kind \in Kinds,
             Fetch(w, kind) \/ \E v \in Importers : FetchAndImport(w, v, kind)
      PROVE  AccountInv'
  BY <1>2, FetchKeeps
<1>3. ASSUME NEW w \in Importers, BreakOff(w)  PROVE AccountInv'
  BY <1>3, BreakOffKeeps
<1>4. ASSUME NEW w \in Importers, ReadSnapshot(w)  PROVE AccountInv'
  BY <1>4, ReadSnapshotKeeps
<1>5. ASSUME NEW w \in Importers, SaveSnapshot(w)  PROVE AccountInv'
  BY <1>5, SaveSnapshotKeeps
<1>6. ASSUME NEW w \in Importers, ReadPerformance(w)  PROVE AccountInv'
  BY <1>6, ReadPerformanceKeeps
<1>7. ASSUME NEW w \in Importers, SavePerformance(w)  PROVE AccountInv'
  BY <1>7, SavePerformanceKeeps
<1>8. ASSUME NEW w \in Importers, NEW h \in Histories, CheckItem(w, h) \/ CommitItems(w, h)  PROVE AccountInv'
  BY <1>8, CheckItemKeeps, CommitItemsKeeps
<1>9. CASE UNCHANGED accountVars
  <2>1. UNCHANGED <<closed, snapshots, newest, stored, delivered, overlapped, imports>>
    BY <1>9 DEF accountVars, accountRows
  <2>2. DOMAIN imports = Importers  BY DEF AccountInv, DataFits
  <2> QED  BY <2>1, <2>2, ImportsMove
<1> QED  BY <1>1, <1>2, <1>3, <1>4, <1>5, <1>6, <1>7, <1>8, <1>9 DEF AccountDataNext

\* What updateTransactionHistory, updateBalanceHistory and updateEquityHistory were handed is
\* stored, and stored once unless two imports of the account overlapped, for any trades and
\* any number of imports: a trade is missing only when it has no number or another trade is
\* stored under the number it is looked for.
THEOREM AccountStoresItemsOnce == AccountDataSpec => []ItemsAreStoredOnce
<1>1. AccountDataInit => AccountInv  BY AccountInvInitially
<1>2. AccountInv /\ [AccountDataNext]_accountVars => AccountInv'  BY AccountInvKept
<1>3. AccountInv => ItemsAreStoredOnce  BY DEF AccountInv
<1> QED  BY <1>1, <1>2, <1>3, PTL DEF AccountDataSpec

------------------------------------------------------------------------------
(***************************************************************************)
(* Saves of a snapshot.                                                    *)
(***************************************************************************)

LEMMA NewestIsAMoment ==
  ASSUME AccountInv
  PROVE  \A f \in Columns : Newest[f] \in Nat
<1>1. SnapshotsFit  BY DEF AccountInv, DataFits
<1>2. CASE newest = 0  BY <1>2 DEF Newest
<1>3. CASE newest # 0
  <2>1. newest \in DOMAIN snapshots  BY <1>1, <1>3 DEF SnapshotsFit
  <2>2. snapshots[newest] \in [Columns -> Nat]  BY <1>1, <2>1, RowsOfSnapshots, Zenon
  <2> QED  BY <1>3, <2>2 DEF Newest
<1> QED  BY <1>2, <1>3

LEMMA SaveGoesForward ==
  ASSUME AccountInv, NEW w \in Importers, SaveSnapshot(w), ~imports[w].overtaken, ~(Len(snapshots) > 1)
  PROVE  \A f \in Columns : Newest'[f] >= Newest[f]
<1>1. PICK c : c = imports[w]  OBVIOUS
<1>2. /\ c \in ImportRow /\ c.open /\ Doing(c, "snapshot") /\ SaveIsCurrent(c) /\ SnapshotsFit
      /\ c.row \in 0 .. Len(snapshots)
      /\ \A f \in Columns : Filled(c)[f] \in Nat
      /\ snapshots'[newest'] = Filled(c) /\ newest' # 0 /\ Len(snapshots) \in Nat
  BY <1>1, SaverHas
<1>3. Newest' = Filled(c)  BY <1>2 DEF Newest
<1>4. CASE newest = 0
  <2>1. \A f \in Columns : Newest[f] = 0  BY <1>4 DEF Newest
  <2> QED  BY <1>2, <1>3, <2>1
<1>5. CASE newest # 0
  <2>1. newest = 1 /\ Len(snapshots) = 1
    <3>1. newest \in 0 .. Len(snapshots)  BY <1>2, Zenon DEF SnapshotsFit
    <3>2. PICK n : n = Len(snapshots)  OBVIOUS
    <3>3. n \in Nat /\ ~(n > 1) /\ newest \in 0 .. n  BY <1>2, <3>1, <3>2
    <3> QED  BY <1>5, <3>2, <3>3
  <2>2. ~c.overtaken  BY <1>1
  <2>3. c.row # 0  BY <1>2, <2>1, <2>2 DEF SaveIsCurrent
  <2>4. c.row = 1  BY <1>2, <2>1, <2>3
  <2>5. c.read = snapshots[1] /\ \A f \in Columns : snapshots[1][f] <= c.seen
    BY <1>2, <2>1, <2>2, <2>4 DEF SaveIsCurrent
  <2>6. Newest = snapshots[1]  BY <2>1 DEF Newest
  <2>7. ASSUME NEW f \in Columns  PROVE Filled(c)[f] >= snapshots[1][f]
    <3>1. Filled(c)[f] = c.seen \/ Filled(c)[f] = c.read[f]  BY DEF Filled
    <3>2. snapshots[1][f] \in Nat /\ c.seen \in Nat
      BY <2>6, NewestIsAMoment, <1>2 DEF ImportRow
    <3> QED  BY <2>5, <3>1, <3>2
  <2> QED  BY <1>3, <2>6, <2>7
<1> QED  BY <1>4, <1>5

\* updateAccountData writes older columns over newer ones only when it saves what another
\* import has overtaken, or when two first imports overlapped and left two rows.
THEOREM AccountSnapshotGoesForward == AccountDataSpec => SnapshotGoesForward
<1> DEFINE Forward ==
             \/ \A f \in Columns : Newest'[f] >= Newest[f]
             \/ \E w \in Importers : SaveSnapshot(w) /\ imports[w].overtaken
             \/ Len(snapshots) > 1 /\ "snapshot" \in overlapped
<1>1. AccountDataInit => AccountInv  BY AccountInvInitially
<1>2. AccountInv /\ [AccountDataNext]_accountVars => AccountInv'  BY AccountInvKept
<1>3. AccountInv /\ [AccountDataNext]_accountVars => [Forward]_accountVars
  <2> SUFFICES ASSUME AccountInv, AccountDataNext  PROVE Forward
    OBVIOUS
  <2>1. CASE UNCHANGED <<snapshots, newest>>
    <3>1. Newest' = Newest  BY <2>1 DEF Newest
    <3>2. \A f \in Columns : Newest[f] \in Nat  BY NewestIsAMoment
    <3> QED  BY <3>1, <3>2
  <2>2. ASSUME NEW w \in Importers, SaveSnapshot(w)  PROVE Forward
    <3>1. CASE imports[w].overtaken  BY <2>2, <3>1
    <3>2. CASE Len(snapshots) > 1  BY <3>2 DEF AccountInv
    <3>3. CASE ~imports[w].overtaken /\ ~(Len(snapshots) > 1)  BY <2>2, <3>3, SaveGoesForward
    <3> QED  BY <3>1, <3>2, <3>3
  <2>3. UNCHANGED <<snapshots, newest>> \/ \E w \in Importers : SaveSnapshot(w)
    BY DEF AccountDataNext, CloseTrade, Fetch, FetchAndImport, BreakOff, ReadSnapshot, ReadPerformance,
           SavePerformance, CheckItem, CommitItems, accountRows
  <2> QED  BY <2>1, <2>2, <2>3
<1> QED  BY <1>1, <1>2, <1>3, PTL DEF AccountDataSpec, SnapshotGoesForward

------------------------------------------------------------------------------
(***************************************************************************)
(* Facts about all subsets of a finite set are proved by way of the        *)
(* smallest subset for which they fail.                                    *)
(***************************************************************************)

LEMMA LeastExists ==
  ASSUME NEW S, S \subseteq Nat, S # {}
  PROVE  \E x \in S : \A y \in S : x <= y
<1> DEFINE Less == OpToRel(<, Nat)
<1>1. PICK x \in S : \A y \in S : <<y, x>> \notin Less
  <2>1. IsWellFoundedOn(Less, Nat)
    BY NatLessThanWellFounded, Zenon
  <2> HIDE DEF Less
  <2> QED
    BY <2>1, WFMin
<1>2. \A y \in S : x <= y
  <2> SUFFICES ASSUME NEW y \in S PROVE x <= y
    OBVIOUS
  <2>1. ~(y < x)
    BY <1>1 DEF OpToRel
  <2> QED
    BY <2>1
<1> QED
  BY <1>2

LEMMA SmallestExists ==
  ASSUME NEW B, B # {}, \A s \in B : IsFiniteSet(s)
  PROVE  \E s \in B : \A t \in B : Cardinality(s) <= Cardinality(t)
<1> DEFINE Sizes == {Cardinality(s) : s \in B}
<1>1. Sizes \subseteq Nat /\ Sizes # {}
  BY FS_CardinalityType
<1>2. PICK x \in Sizes : \A y \in Sizes : x <= y
  <2> HIDE DEF Sizes
  <2> QED
    BY <1>1, LeastExists
<1> QED
  BY <1>2

LEMMA SubsetInduction ==
  ASSUME NEW S, IsFiniteSet(S), NEW G, {} \in G,
         \A s \in SUBSET S : s # {} /\ (\A x \in s : s \ {x} \in G) => s \in G
  PROVE  \A s \in SUBSET S : s \in G
<1> DEFINE B == {s \in SUBSET S : s \notin G}
<1> SUFFICES ASSUME B # {} PROVE FALSE
  OBVIOUS
<1>1. \A s \in SUBSET S : IsFiniteSet(s)
  BY FS_Subset
<1>2. PICK s \in B : \A t \in B : Cardinality(s) <= Cardinality(t)
  <2>1. \A t \in B : IsFiniteSet(t)
    BY <1>1
  <2> HIDE DEF B
  <2> QED
    BY <2>1, SmallestExists
<1>3. PICK x \in s : s \ {x} \notin G
  OBVIOUS
<1>4. s \ {x} \in B
  BY <1>3
<1>5. Cardinality(s \ {x}) = Cardinality(s) - 1 /\ Cardinality(s) \in Nat
  BY <1>1, FS_RemoveElement, FS_CardinalityType
<1> QED
  BY <1>2, <1>4, <1>5
==============================================================================
