---------------------------- MODULE BenchmarkProofs ----------------------------
(***************************************************************************)
(* The programs that are profiled.  First the invariants of Localization    *)
(* that its run checks, for every file of records, whatever their kinds,    *)
(* their order and their number; then those of Matrix, for columns and      *)
(* results of any length and words of any size.                             *)
(***************************************************************************)
EXTENDS Localization, Matrix, Iteration, FiniteSetTheorems

(* A record that is read adds one to those of its kind.                     *)
LEMMA OccurrencesGrow ==
  ASSUME records \in Seq(Int), NEW type, NEW e \in Int, records' = Append(records, e)
  PROVE  /\ Occurrences(type) \in Nat
         /\ Occurrences(type)' = Occurrences(type) + (IF e = type THEN 1 ELSE 0)
<1> DEFINE n == Len(records)
           S == {k \in 1..n : records[k] = type}
<1>1. n \in Nat /\ DOMAIN records = 1..n /\ DOMAIN records' = 1..(n + 1)
      /\ \A k \in 1..n : records'[k] = records[k]
      /\ records'[n + 1] = e
  OBVIOUS
<1>2. IsFiniteSet(S)
  <2>1. IsFiniteSet(1..n)  BY <1>1, FS_Interval
  <2>2. S \in SUBSET (1..n)  OBVIOUS
  <2> HIDE DEF S
  <2>3. QED BY <2>1, <2>2, FS_Subset
<1>3. Occurrences(type) = Cardinality(S)  BY <1>1 DEF Occurrences
<1>4. Occurrences(type)' = Cardinality({k \in 1..(n + 1) : records'[k] = type})
  BY <1>1 DEF Occurrences
<1> DEFINE T == {k \in 1..(n + 1) : records'[k] = type}
<1>5. (e = type => T = S \cup {n + 1}) /\ (e # type => T = S)
  BY <1>1
<1>6. n + 1 \notin S  BY <1>1
<1> HIDE DEF S, T
<1>7. Cardinality(S) \in Nat /\ Cardinality(S \cup {n + 1}) = Cardinality(S) + 1
  BY <1>2, <1>6, FS_AddElement, FS_CardinalityType
<1>8. Occurrences(type)' = Cardinality(T)  BY <1>4 DEF T
<1>9. Occurrences(type) \in Nat  BY <1>3, <1>7
<1>10. CASE e = type
  <2>1. Occurrences(type)' = Occurrences(type) + 1  BY <1>3, <1>5, <1>7, <1>8, <1>10
  <2>2. QED BY <1>9, <1>10, <2>1
<1>11. CASE e # type
  <2>1. Occurrences(type)' = Occurrences(type)  BY <1>3, <1>5, <1>8, <1>11
  <2>2. QED BY <1>9, <1>11, <2>1
<1>12. QED BY <1>10, <1>11

LEMMA OccurrencesCount ==
  ASSUME records \in Seq(Int), NEW type PROVE Occurrences(type) \in Nat
<1> DEFINE S == {k \in 1..Len(records) : records[k] = type}
<1>1. IsFiniteSet(1..Len(records))  BY FS_Interval
<1>2. DOMAIN records = 1..Len(records)  OBVIOUS
<1>3. S \in SUBSET (1..Len(records))  OBVIOUS
<1>4. Occurrences(type) = Cardinality(S)  BY <1>2 DEF Occurrences
<1> HIDE DEF S
<1>5. QED BY <1>1, <1>3, <1>4, FS_Subset, FS_CardinalityType

-----------------------------------------------------------------------------
(* What a record does to the sequence of those read.                        *)
LEMMA RecordReads ==
  ASSUME fid \in Inputs, index \in Int, index >= -1, Record
  PROVE  \/ /\ index + 1 >= Len(fid) /\ isEOF' /\ UNCHANGED <<records, index>>
            /\ readSensorData.type = -1 /\ ~readSensorData.outside /\ readSensorData.eof
         \/ /\ index + 1 \in 0..(Len(fid) - 1) /\ ~isEOF' /\ ~readSensorData.eof
            /\ readSensorData.type = fid[index + 2] /\ fid[index + 2] \in Int
            /\ records' = Append(records, fid[index + 2])
            /\ index' = index + RowsOf(fid[index + 2])
            /\ readSensorData.outside <=> fid[index + 2] = Gps /\ index + 2 = Len(fid)
<1>1. fid \in Seq(Int) /\ Len(fid) \in Nat  BY InputsAssumption
<1>2. CASE index + 1 > Len(fid) - 1
  BY <1>1, <1>2 DEF Record, readSensorData
<1>3. CASE ~(index + 1 > Len(fid) - 1)
  <2>1. index + 1 \in 0..(Len(fid) - 1) /\ (index + 1) + 1 = index + 2 /\ index + 2 \in 1..Len(fid)
    BY <1>1, <1>3
  <2>2. fid[index + 2] \in Int  BY <1>1, <2>1
  <2>3. index + 1 + 1 > Len(fid) - 1 <=> index + 2 = Len(fid)  BY <1>1, <2>1
  <2>4. readSensorData = [type |-> fid[index + 2], index |-> index + RowsOf(fid[index + 2]),
                          eof |-> FALSE,
                          outside |-> fid[index + 2] = Gps /\ index + 2 = Len(fid)]
    BY <1>3, <2>1, <2>3 DEF readSensorData
  <2>5. QED BY <2>1, <2>2, <2>4 DEF Record
<1>4. QED BY <1>2, <1>3

-----------------------------------------------------------------------------
(* The rows: those read are whole records, but for a last one that the file *)
(* cuts short, and the next row begins one.                                 *)
Rows ==
  LET next == index + 1 IN
  /\ next = Len(records) + Occurrences(Gps) /\ next \in 0..(Len(fid) + 1)
  /\ next < Len(fid) => fid[next + 1] # 0
  /\ next = Len(fid) /\ Len(fid) > 0 => fid[Len(fid)] # Gps
  /\ next = Len(fid) + 1 => Len(fid) > 0 /\ fid[Len(fid)] = Gps

(* The results: one for each record, and one for the end of the file.       *)
Columns ==
  \/ /\ pc \in {"start", "loop"} /\ icount = Len(records) /\ (pc = "start" => icount = 0)
     /\ outside <=> index + 1 = Len(fid) + 1
  \/ /\ pc \in {"finish", "end"} /\ index + 1 >= Len(fid)
     /\ outside <=> index + 1 = Len(fid) + 1 \/ Len(records) >= Len(fid)
  \/ pc = "end" /\ icount = 0

Reading ==
  /\ fid \in Inputs /\ records \in Seq(Int) /\ index \in Int
  /\ Rows /\ Columns

LEMMA InitReading == ASSUME LocalizationInit PROVE Reading
<1>1. fid \in Inputs /\ records = << >> /\ index = -1 /\ pc = "start" /\ icount = 0 /\ ~outside
  BY DEF LocalizationInit
<1>2. fid \in Seq(Int) /\ Len(fid) \in Nat  BY <1>1, InputsAssumption
<1>3. Occurrences(Gps) = 0
  <2>1. {k \in DOMAIN records : records[k] = Gps} = {}  BY <1>1
  <2>2. QED BY <2>1, FS_EmptySet DEF Occurrences
<1>4. Len(fid) > 0 => fid[1] # 0
  <2>1. Len(fid) > 0 => 1 \in DOMAIN fid  BY <1>2
  <2>2. \A k \in DOMAIN fid : fid[k] = 0 <=> k > 1 /\ fid[k - 1] = Gps  BY <1>1, InputsAssumption
  <2>3. Len(fid) > 0 => (fid[1] = 0 <=> 1 > 1 /\ fid[1 - 1] = Gps)  BY <2>1, <2>2, Zenon
  <2>4. QED BY <2>3
<1>5. Len(records) = 0 /\ records \in Seq(Int)  BY <1>1
<1>6. Rows  BY <1>1, <1>2, <1>3, <1>4, <1>5 DEF Rows
<1>7. Columns  BY <1>1, <1>2, <1>5 DEF Columns
<1>8. QED BY <1>1, <1>5, <1>6, <1>7 DEF Reading

(* A record is read from the row where one begins to that where the next    *)
(* one does.                                                                *)
LEMMA RowsStep ==
  ASSUME Reading, Record, index + 1 \in 0..(Len(fid) - 1),
         records' = Append(records, fid[index + 2]),
         index' = index + RowsOf(fid[index + 2])
  PROVE  Rows'
<1> DEFINE n == Len(fid)
           k == index + 2
           e == fid[k]
<1>1. fid \in Seq(Int) /\ n \in Nat /\ DOMAIN fid = 1..n /\ k \in 1..n /\ e \in Int /\ fid' = fid
  BY InputsAssumption DEF Reading, Record
<1>2. Occurrences(Gps) \in Nat /\ Occurrences(Gps)' = Occurrences(Gps) + (IF e = Gps THEN 1 ELSE 0)
  BY <1>1, OccurrencesGrow DEF Reading
<1>3. Len(records') = Len(records) + 1 /\ Len(records) \in Nat  BY <1>1 DEF Reading
<1>4. index + 1 = Len(records) + Occurrences(Gps) /\ index \in Int  BY DEF Reading, Rows
<1>5. e # 0
  <2>1. index + 1 < n => fid[(index + 1) + 1] # 0  BY DEF Reading, Rows
  <2>2. (index + 1) + 1 = k /\ index + 1 < n  BY <1>1, <1>4
  <2>3. QED BY <2>1, <2>2
<1>6. \A j \in 1..n : fid[j] = 0 <=> j > 1 /\ fid[j - 1] = Gps
  BY <1>1, InputsAssumption DEF Reading
<1>7. n \in Int /\ k \in Int /\ 1 <= k /\ k <= n
  <2> HIDE DEF n, k
  <2>1. QED BY <1>1
<1> HIDE DEF e
<1>8. CASE e # Gps
  <2>1. index' + 1 = k /\ k = Len(records') + Occurrences(Gps)'
    BY <1>1, <1>2, <1>3, <1>4, <1>8 DEF RowsOf, e
  <2>2. k < n => fid[k + 1] # 0
    <3>1. k < n => k + 1 \in 1..n /\ (k + 1) - 1 = k  BY <1>7
    <3>2. QED BY <1>6, <1>8, <3>1 DEF e
  <2>3. k = n => fid[n] # Gps  BY <1>8 DEF e
  <2>4. k \in 0..(n + 1) /\ k # n + 1 /\ fid' = fid  BY <1>1, <1>7
  <2> HIDE DEF k
  <2>5. QED BY <2>1, <2>2, <2>3, <2>4 DEF Rows
<1>9. CASE e = Gps
  <2>1. index' + 1 = k + 1 /\ k + 1 = Len(records') + Occurrences(Gps)'
    BY <1>1, <1>2, <1>3, <1>4, <1>9 DEF RowsOf, e
  <2>2. k < n => fid[k + 1] = 0
    <3>1. k < n => k + 1 \in 1..n /\ (k + 1) - 1 = k /\ k + 1 > 1  BY <1>7
    <3>2. QED BY <1>6, <1>9, <3>1 DEF e
  <2>3. k + 1 < n => fid[(k + 1) + 1] # 0
    <3>1. k + 1 < n => (k + 1) + 1 \in 1..n /\ ((k + 1) + 1) - 1 = k + 1 /\ k < n  BY <1>7
    <3>2. 0 # Gps  BY DEF Gps
    <3>3. QED BY <1>6, <2>2, <3>1, <3>2
  <2>4. k + 1 = n => fid[n] # Gps
    <3>1. k + 1 = n => fid[n] = 0  BY <1>1, <2>2
    <3>2. QED BY <3>1 DEF Gps
  <2>5. k = n => fid[n] = Gps  BY <1>9 DEF e
  <2> DEFINE next == k + 1
  <2>6. next \in 0..(n + 1) /\ (next = n + 1 => k = n /\ n > 0) /\ fid' = fid
    BY <1>1, <1>7
  <2>7. index' + 1 = next /\ next = Len(records') + Occurrences(Gps)'  BY <2>1
  <2>8. /\ next < n => fid[next + 1] # 0
        /\ next = n => fid[n] # Gps
        /\ next = n + 1 => fid[n] = Gps
    BY <2>3, <2>4, <2>5, <2>6
  <2> HIDE DEF next
  <2>9. QED BY <2>6, <2>7, <2>8 DEF Rows
<1>10. QED BY <1>8, <1>9

LEMMA ReadingStep == ASSUME Reading, [LocalizationNext]_lvars PROVE Reading'
<1>1. ASSUME UNCHANGED <<fid, index, records>> PROVE Rows'
  BY <1>1 DEF Reading, Rows, Occurrences
<1>2. CASE readFile
  <2>1. /\ UNCHANGED <<fid, index, records, outside, icount>>
        /\ pc = "start" /\ pc' \in {"loop", "end"}
    BY <1>2 DEF readFile
  <2>2. Columns'  BY <2>1 DEF Reading, Columns
  <2>3. QED BY <1>1, <2>1, <2>2 DEF Reading
<1>3. CASE Record
  <2>1. /\ pc = "loop" /\ UNCHANGED fid /\ icount' = icount + 1
        /\ pc' = IF readSensorData.eof THEN "finish" ELSE "loop"
        /\ outside' = (outside \/ readSensorData.outside \/ icount >= Len(fid))
    BY <1>3 DEF Record
  <2>2. /\ icount = Len(records) /\ (outside <=> index + 1 = Len(fid) + 1)
        /\ Len(records) \in Nat /\ Len(fid) \in Nat /\ fid \in Seq(Int)
    BY <2>1, InputsAssumption DEF Reading, Columns
  <2>3. /\ index \in Int /\ index + 1 = Len(records) + Occurrences(Gps)
        /\ index + 1 \in 0..(Len(fid) + 1) /\ Occurrences(Gps) \in Nat
    BY OccurrencesCount DEF Reading, Rows
  <2>4. CASE /\ index + 1 >= Len(fid) /\ UNCHANGED <<records, index>>
             /\ ~readSensorData.outside /\ readSensorData.eof
    <3>1. pc' = "finish" /\ (outside' <=> index + 1 = Len(fid) + 1 \/ Len(records) >= Len(fid))
      BY <2>1, <2>2, <2>4
    <3>2. Columns'  BY <2>1, <2>4, <3>1 DEF Columns
    <3>3. QED BY <1>1, <2>1, <2>4, <3>2 DEF Reading
  <2>5. CASE /\ index + 1 \in 0..(Len(fid) - 1) /\ ~readSensorData.eof
             /\ fid[index + 2] \in Int /\ records' = Append(records, fid[index + 2])
             /\ index' = index + RowsOf(fid[index + 2])
             /\ readSensorData.outside <=> fid[index + 2] = Gps /\ index + 2 = Len(fid)
    <3>1. Rows'  BY <1>3, <2>5, RowsStep
    <3>2. ~(icount >= Len(fid)) /\ ~outside  BY <2>2, <2>3, <2>5
    <3>3. outside' <=> fid[index + 2] = Gps /\ index + 2 = Len(fid)
      BY <2>1, <2>5, <3>2, Zenon
    <3>4. index' + 1 = IF fid[index + 2] = Gps THEN index + 3 ELSE index + 2
      BY <2>3, <2>5 DEF RowsOf
    <3>5. outside' <=> index' + 1 = Len(fid) + 1
      <4>1. index + 1 <= Len(fid) - 1 /\ Len(fid) \in Nat /\ index \in Int  BY <2>2, <2>3, <2>5
      <4>2. CASE fid[index + 2] = Gps  BY <3>3, <3>4, <4>1, <4>2
      <4>3. CASE fid[index + 2] # Gps
        <5>1. index' + 1 = index + 2 /\ ~outside'  BY <3>3, <3>4, <4>3
        <5>2. QED BY <4>1, <5>1
      <4>4. QED BY <4>2, <4>3
    <3>6. Len(records') = Len(records) + 1 /\ records' \in Seq(Int)
      BY <2>5 DEF Reading
    <3>7. pc' = "loop" /\ icount' = Len(records')  BY <2>1, <2>2, <2>5, <3>6
    <3>8. Columns'  BY <2>1, <3>5, <3>7 DEF Columns
    <3>9. index' \in Int  BY <2>3, <2>5 DEF RowsOf
    <3>10. QED BY <2>1, <3>1, <3>6, <3>8, <3>9 DEF Reading
  <2>6. QED BY <1>3, <2>3, <2>4, <2>5, RecordReads DEF Reading
<1>4. CASE Finish
  <2>1. UNCHANGED <<fid, index, records, outside, icount>> /\ pc = "finish" /\ pc' = "end"
    BY <1>4 DEF Finish
  <2>2. Columns'  BY <2>1 DEF Reading, Columns
  <2>3. QED BY <1>1, <2>1, <2>2 DEF Reading
<1>5. CASE UNCHANGED lvars
  <2>1. UNCHANGED <<fid, index, records, outside, icount, pc>>  BY <1>5 DEF lvars
  <2>2. Columns'  BY <2>1 DEF Reading, Columns
  <2>3. QED BY <1>1, <2>1, <2>2 DEF Reading
<1>6. QED BY <1>2, <1>3, <1>4, <1>5 DEF LocalizationNext

(* For every file of whole records, or with a GPS record that its end cuts    *)
(* short: memory behind a matrix is touched exactly if it is cut short or    *)
(* there is no GPS record, whose second row has no result                   *)
(* (script_localization.c:36, 461-467, readSensorData.c:27-55).              *)
THEOREM ResultsHaveColumns == LocalizationSpec => []ResultsFit
<1>1. LocalizationInit => Reading  BY InitReading
<1>2. Reading /\ [LocalizationNext]_lvars => Reading'  BY ReadingStep
<1>3. Reading => ResultsFit
  <2>1. SUFFICES ASSUME Reading, pc \in {"finish", "end"}, icount > 0
                 PROVE  outside <=> (Occurrences(Gps) = 0 \/ Last(fid) = Gps)
    BY DEF ResultsFit
  <2>2. /\ index + 1 >= Len(fid)
        /\ outside <=> index + 1 = Len(fid) + 1 \/ Len(records) >= Len(fid)
    BY <2>1 DEF Reading, Columns
  <2>3. /\ index \in Int /\ index + 1 = Len(records) + Occurrences(Gps)
        /\ index + 1 \in 0..(Len(fid) + 1) /\ Occurrences(Gps) \in Nat
        /\ index + 1 = Len(fid) /\ Len(fid) > 0 => fid[Len(fid)] # Gps
        /\ index + 1 = Len(fid) + 1 => Len(fid) > 0 /\ fid[Len(fid)] = Gps
    BY <2>1, OccurrencesCount DEF Reading, Rows
  <2>4. Len(fid) \in Nat /\ Len(records) \in Nat  BY <2>1, InputsAssumption DEF Reading
  <2>5. CASE index + 1 = Len(fid) + 1
    BY <2>2, <2>3, <2>5 DEF Last
  <2>6. CASE index + 1 = Len(fid)
    <3>1. outside <=> Len(records) >= Len(fid)  BY <2>2, <2>3, <2>4, <2>6
    <3>2. Len(records) >= Len(fid) <=> Occurrences(Gps) = 0  BY <2>3, <2>4, <2>6
    <3>3. CASE Len(fid) > 0
      BY <2>3, <2>6, <3>1, <3>2, <3>3 DEF Last
    <3>4. CASE Len(fid) = 0
      <4>1. Occurrences(Gps) = 0  BY <2>3, <2>4, <2>6, <3>4
      <4>2. QED BY <3>1, <3>2, <4>1
    <3>5. QED BY <2>4, <3>3, <3>4
  <2>7. QED BY <2>2, <2>3, <2>4, <2>5, <2>6
<1>4. QED BY <1>1, <1>2, <1>3, PTL DEF LocalizationSpec

-----------------------------------------------------------------------------
(* The particles: which records have moved them.                            *)
Placed ==
  /\ records \in Seq(Int)
  /\ pos = IF \E k \in DOMAIN records : records[k] \in {Gps, Accelerometer}
             THEN IF \E k \in DOMAIN records :
                       records[k] = Gps /\ \A j \in 1..k : records[j] # Accelerometer
                    THEN "gps" ELSE "drift"
             ELSE "zero"

LEMMA InitPlaced == ASSUME LocalizationInit PROVE Placed
BY DEF LocalizationInit, Placed

LEMMA PlacedStep == ASSUME Reading, Placed, [LocalizationNext]_lvars PROVE Placed'
<1>1. CASE UNCHANGED <<records, pos>>
  BY <1>1 DEF Placed
<1>2. CASE Record
  <2>1. CASE UNCHANGED records /\ readSensorData.type = -1
    <3>1. pos' = pos  BY <1>2, <2>1 DEF Record, Moved, Gps, Accelerometer
    <3>2. QED BY <1>1, <2>1, <3>1
  <2>2. ASSUME NEW e \in Int, e = readSensorData.type, records' = Append(records, e) PROVE Placed'
    <3> DEFINE n == Len(records)
    <3>1. /\ n \in Nat /\ DOMAIN records = 1..n /\ DOMAIN records' = 1..(n + 1)
          /\ \A k \in 1..n : records'[k] = records[k]
          /\ records'[n + 1] = e /\ records' \in Seq(Int)
      BY <2>2 DEF Placed
    <3> HIDE DEF n
    <3>2. pos' = Moved(pos, e)  BY <1>2, <2>2 DEF Record
    <3> DEFINE some == \E k \in DOMAIN records : records[k] \in {Gps, Accelerometer}
               fix  == \E k \in DOMAIN records :
                         records[k] = Gps /\ \A j \in 1..k : records[j] # Accelerometer
               none == \A j \in 1..n : records[j] # Accelerometer
    <3>3. some' <=> e \in {Gps, Accelerometer} \/ some
      BY <3>1
    <3>4. fix' <=> fix \/ (e = Gps /\ none)
      <4>1. ASSUME NEW k \in 1..n
            PROVE  (records'[k] = Gps /\ \A j \in 1..k : records'[j] # Accelerometer)
                     <=> (records[k] = Gps /\ \A j \in 1..k : records[j] # Accelerometer)
        BY <3>1
      <4>2. (records'[n + 1] = Gps /\ \A j \in 1..(n + 1) : records'[j] # Accelerometer)
              <=> e = Gps /\ \A j \in 1..n : records[j] # Accelerometer
        BY <3>1 DEF Gps, Accelerometer
      <4>3. 1..(n + 1) = (1..n) \cup {n + 1}  BY <3>1
      <4>4. QED BY <3>1, <4>1, <4>2, <4>3
    <3>5. (~some => none /\ ~fix) /\ (some /\ none => fix)
      BY <3>1
    <3>6. pos = IF some THEN IF fix THEN "gps" ELSE "drift" ELSE "zero"
      BY DEF Placed
    <3> DEFINE some2 == some'
               fix2 == fix'
    <3>7. Placed' <=> pos' = IF some2 THEN IF fix2 THEN "gps" ELSE "drift" ELSE "zero"
      BY <3>1 DEF Placed
    <3> HIDE DEF some, fix, none, some2, fix2
    <3>8. (some2 <=> e \in {Gps, Accelerometer} \/ some) /\ (fix2 <=> fix \/ (e = Gps /\ none))
      BY <3>3, <3>4 DEF some2, fix2
    <3>9. CASE e = Gps
      BY <3>2, <3>5, <3>6, <3>7, <3>8, <3>9 DEF Moved, Gps, Accelerometer
    <3>10. CASE e = Accelerometer
      BY <3>2, <3>5, <3>6, <3>7, <3>8, <3>10 DEF Moved, Gps, Accelerometer
    <3>11. CASE e \notin {Gps, Accelerometer}
      BY <3>2, <3>5, <3>6, <3>7, <3>8, <3>11 DEF Moved, Gps, Accelerometer
    <3>12. QED BY <3>9, <3>10, <3>11
  <2>3. QED BY <1>2, <2>1, <2>2, RecordReads DEF Reading, Rows
<1>3. CASE ~Record
  <2>1. UNCHANGED <<records, pos>>  BY <1>3 DEF LocalizationNext, readFile, Finish, lvars
  <2>2. QED BY <1>1, <2>1
<1>4. QED BY <1>2, <1>3

(* For every file: a fix places the particles if and only if none of the     *)
(* records before it was the accelerometer's                                *)
(* (script_localization.c:252-268, 396-442).                                *)
THEOREM FixesPlace == LocalizationSpec => []PlacedByFirstFix
<1>1. LocalizationInit => Reading /\ Placed  BY InitReading, InitPlaced
<1>2. Reading /\ Placed /\ [LocalizationNext]_lvars => Reading' /\ Placed'
  BY ReadingStep, PlacedStep
<1>3. Placed => PlacedByFirstFix  BY DEF Placed, PlacedByFirstFix
<1>4. QED BY <1>1, <1>2, <1>3, PTL DEF LocalizationSpec

-----------------------------------------------------------------------------
(* The heap: what a script does to it, step by step and block by block.      *)
Names ==
  {"fid", "resultMat", "pos", "vel", "ones", "randn", "start", "eulAngle",
   "eul1", "eul2", "quat", "index", "sType", "isEOF", "endC", "elapsed",
   "STDDEV_GPSPos", "randW", "t", "gyro", "abc", "t1", "abcd", "norm_gyro",
   "angleAlpha", "cosA", "sinA", "quatDelta", "temp_STDDEV_GPSPos", "w",
   "Ovel", "qConj", "orgWorld", "sData", "Opos", "accl", "gtemp", "gravity",
   "is", "s", "elt"}

Steps == [do : {"new", "free", "use"}, of : Names]
States == [live : SUBSET Names, lost : Nat, bad : BOOLEAN]

LEMMA PerformStays ==
  ASSUME NEW h \in States, NEW step \in Steps PROVE Perform(h, step) \in States
<1>1. h.live \in SUBSET Names /\ h.lost \in Nat /\ h.bad \in BOOLEAN  BY DEF States
<1>2. step.of \in Names  BY DEF Steps
<1>3. QED BY <1>1, <1>2 DEF States, Perform

LEMMA HeapsStep ==
  ASSUME NEW h \in States, NEW script \in Seq(Steps)
  PROVE  /\ Heaps(h, script) \in [0..Len(script) -> States]
         /\ Heaps(h, script)[0] = h
         /\ \A k \in 1..Len(script) :
              Heaps(h, script)[k] = Perform(Heaps(h, script)[k - 1], script[k])
<1> DEFINE n == Len(script)
           Body(f) == [k \in 0..n |-> IF k = 0 THEN h ELSE Perform(f[k - 1], script[k])]
           G == [p \in States \X (1..n) |-> Perform(p[1], script[p[2]])]
<1>1. n \in Nat /\ \A k \in 1..n : script[k] \in Steps /\ k - 1 \in 0..n  OBVIOUS
<1>2. \A s \in States, k \in 1..n :
        G[<<s, k>>] = Perform(s, script[k]) /\ G[<<s, k>>] \in States
  BY <1>1, PerformStays
<1>3. \E f \in [0..n -> States] : f = Body(f)
  <2>1. PICK f \in [0..n -> States] : Runs(f, n, h, G)
    <3> HIDE DEF G, n
    <3>1. Stays(n, States, G)  BY <1>2 DEF Stays
    <3>2. QED BY <1>1, <3>1, Loop
  <2>2. \A k \in 1..n : f[k - 1] \in States
    <3> HIDE DEF G, n
    <3>1. QED BY <1>1
  <2>3. \A k \in 1..n : f[k] = Perform(f[k - 1], script[k])
    <3> HIDE DEF G, n
    <3>1. QED BY <1>2, <2>1, <2>2 DEF Runs
  <2>4. f = Body(f)
    <3> HIDE DEF n
    <3>1. f = [k \in 0..n |-> f[k]]  BY <2>1
    <3>2. \A k \in 0..n : f[k] = IF k = 0 THEN h ELSE Perform(f[k - 1], script[k])
      <4>1. \A k \in 0..n : k # 0 => k \in 1..n  BY <1>1
      <4>2. QED BY <2>1, <2>3, <4>1 DEF Runs
    <3>3. QED BY <3>1, <3>2
  <2>5. QED BY <2>4
<1>4. Heaps(h, script) = CHOOSE f : f = Body(f)  BY DEF Heaps
<1>5. Heaps(h, script) = Body(Heaps(h, script))
  <2> HIDE DEF Body
  <2>1. QED BY <1>3, <1>4
<1>6. /\ Heaps(h, script)[0] = h
      /\ \A k \in 1..n : Heaps(h, script)[k] = Perform(Heaps(h, script)[k - 1], script[k])
  BY <1>5
<1>7. Heaps(h, script) \in [0..n -> States]
  <2> DEFINE f == Heaps(h, script)
             T == {k \in 0..n : f[k] \in States}
  <2>1. 0 \in T  BY <1>1, <1>6
  <2>2. ASSUME NEW k \in 0..(n - 1), k \in T PROVE k + 1 \in T
    <3>1. k + 1 \in 1..n /\ (k + 1) - 1 = k  BY <1>1, <2>2
    <3>2. f[k + 1] = Perform(f[k], script[k + 1])
      <4> HIDE DEF f, n
      <4>1. \A j \in 1..n : f[j] = Perform(f[j - 1], script[j])  BY <1>6 DEF f
      <4>2. QED BY <3>1, <4>1
    <3>3. f[k] \in States  BY <2>2
    <3>4. f[k + 1] \in States
      <4> HIDE DEF f, n
      <4>1. QED BY <1>1, <3>1, <3>2, <3>3, PerformStays
    <3>5. QED BY <3>1, <3>4
  <2>3. \A k \in 0..n : k \in T
    <3> HIDE DEF T, n
    <3>1. QED BY <1>1, <2>1, <2>2, BoundedInduction
  <2>4. f = [k \in 0..n |-> f[k]]  BY <1>5
  <2> HIDE DEF f, n
  <2>5. QED BY <2>3, <2>4 DEF f
<1>8. QED BY <1>6, <1>7

LEMMA RunStays ==
  ASSUME NEW h \in States, NEW script \in Seq(Steps) PROVE Run(h, script) \in States
<1>1. Len(script) \in 0..Len(script)  OBVIOUS
<1>2. QED BY <1>1, HeapsStep DEF Run

(* A script after another begins with the heap that the other leaves.       *)
LEMMA RunSplits ==
  ASSUME NEW h \in States, NEW s \in Seq(Steps), NEW t \in Seq(Steps)
  PROVE  Run(h, s \o t) = Run(Run(h, s), t)
<1> DEFINE m == Len(s)
           n == Len(t)
           f == Heaps(h, s \o t)
           g == Heaps(h, s)
           e == Heaps(Run(h, s), t)
<1>1. /\ m \in Nat /\ n \in Nat /\ s \o t \in Seq(Steps) /\ Len(s \o t) = m + n
      /\ \A k \in 1..m : (s \o t)[k] = s[k]
      /\ \A k \in 1..n : (s \o t)[m + k] = t[k]
  OBVIOUS
<1>2. f[0] = h /\ \A k \in 1..(m + n) : f[k] = Perform(f[k - 1], (s \o t)[k])
  <2>1. s \o t \in Seq(Steps) /\ Len(s \o t) = m + n  BY <1>1
  <2>2. /\ f[0] = h
        /\ \A k \in 1..Len(s \o t) : f[k] = Perform(f[k - 1], (s \o t)[k])
    <3> HIDE DEF m, n
    <3>1. QED BY <2>1, HeapsStep
  <2>3. QED BY <2>1, <2>2
<1>3. g[0] = h /\ \A k \in 1..m : g[k] = Perform(g[k - 1], s[k])
  BY HeapsStep
<1>4. e[0] = g[m] /\ \A k \in 1..n : e[k] = Perform(e[k - 1], t[k])
  BY RunStays, HeapsStep DEF Run
<1> DEFINE S == {k \in 0..m : f[k] = g[k]}
           T == {k \in 0..n : f[m + k] = e[k]}
<1> HIDE DEF m, n, f, g, e
<1>5. \A k \in 0..m : k \in S
  <2>1. 0 \in S  BY <1>1, <1>2, <1>3
  <2>2. ASSUME NEW k \in 0..(m - 1), k \in S PROVE k + 1 \in S
    <3>1. k + 1 \in 1..m /\ k + 1 \in 1..(m + n) /\ (k + 1) - 1 = k /\ f[k] = g[k]
      BY <1>1, <2>2
    <3>2. f[k + 1] = Perform(f[k], s[k + 1]) /\ g[k + 1] = Perform(g[k], s[k + 1])
      BY <1>1, <1>2, <1>3, <3>1
    <3>3. QED BY <3>1, <3>2
  <2> HIDE DEF S
  <2>3. QED BY <1>1, <2>1, <2>2, BoundedInduction
<1>6. \A k \in 0..n : k \in T
  <2>1. 0 \in T
    <3>1. m \in 0..m /\ m + 0 = m  BY <1>1
    <3>2. QED BY <1>1, <1>4, <1>5, <3>1
  <2>2. ASSUME NEW k \in 0..(n - 1), k \in T PROVE k + 1 \in T
    <3>1. /\ k + 1 \in 1..n /\ m + (k + 1) \in 1..(m + n) /\ (m + (k + 1)) - 1 = m + k
          /\ (k + 1) - 1 = k /\ f[m + k] = e[k]
      BY <1>1, <2>2
    <3>2. f[m + (k + 1)] = Perform(f[m + k], t[k + 1]) /\ e[k + 1] = Perform(e[k], t[k + 1])
      BY <1>1, <1>2, <1>4, <3>1
    <3>3. QED BY <3>1, <3>2
  <2> HIDE DEF T
  <2>3. QED BY <1>1, <2>1, <2>2, BoundedInduction
<1>7. f[m + n] = e[n]
  <2>1. n \in 0..n  BY <1>1
  <2>2. QED BY <1>6, <2>1
<1>8. QED BY <1>1, <1>7 DEF Run, f, e, m, n

(* The three kinds of step.                                                 *)
LEMMA PerformNew ==
  ASSUME NEW L, NEW n \in Nat, NEW b \in BOOLEAN, NEW x
  PROVE  Perform([live |-> L, lost |-> n, bad |-> b], New(x))
           = [live |-> L \cup {x}, lost |-> IF x \in L THEN n + 1 ELSE n, bad |-> b]
BY DEF Perform, New

LEMMA PerformDrop ==
  ASSUME NEW L, NEW n \in Nat, NEW b \in BOOLEAN, NEW x, x \in L
  PROVE  Perform([live |-> L, lost |-> n, bad |-> b], Drop(x))
           = [live |-> L \ {x}, lost |-> n, bad |-> b]
BY DEF Perform, Drop

LEMMA PerformUse ==
  ASSUME NEW L, NEW n \in Nat, NEW b \in BOOLEAN, NEW x, x \in L
  PROVE  Perform([live |-> L, lost |-> n, bad |-> b], Use(x))
           = [live |-> L, lost |-> n, bad |-> b]
BY DEF Perform, Use

(* A script that takes the matrices held from A to B and loses n on the way. *)
Takes(s, A, B, n) ==
  /\ s \in Seq(Steps) /\ A \in SUBSET Names /\ B \in SUBSET Names
  /\ \A h \in States :
       h.live = A => Run(h, s) = [live |-> B, lost |-> h.lost + n, bad |-> h.bad]

Apart(xs) == \A i, j \in DOMAIN xs : i # j => xs[i] # xs[j]

Distinct(xs) == xs \in Seq(Names) /\ Apart(xs)

LEMMA Then ==
  ASSUME NEW s, NEW t, NEW A, NEW B, NEW C, NEW m \in Nat, NEW n \in Nat,
         Takes(s, A, B, m), Takes(t, B, C, n)
  PROVE  Takes(s \o t, A, C, m + n)
<1>1. /\ s \in Seq(Steps) /\ t \in Seq(Steps) /\ s \o t \in Seq(Steps)
      /\ A \in SUBSET Names /\ C \in SUBSET Names
  BY DEF Takes
<1>2. ASSUME NEW h \in States, h.live = A
      PROVE  Run(h, s \o t) = [live |-> C, lost |-> h.lost + (m + n), bad |-> h.bad]
  <2>1. h.lost \in Nat  BY DEF States
  <2>2. Run(h, s) = [live |-> B, lost |-> h.lost + m, bad |-> h.bad] /\ Run(h, s) \in States
    BY <1>1, <1>2, RunStays DEF Takes
  <2>3. Run(Run(h, s), t) = [live |-> C, lost |-> (h.lost + m) + n, bad |-> h.bad]
    BY <2>2 DEF Takes
  <2>4. Run(h, s \o t) = Run(Run(h, s), t)  BY <1>1, RunSplits
  <2>5. (h.lost + m) + n = h.lost + (m + n)  BY <2>1
  <2>6. QED BY <2>3, <2>4, <2>5
<1>3. QED BY <1>1, <1>2 DEF Takes

(* Matrices for variables that have none are all held.                      *)
LEMMA NewsTake ==
  ASSUME NEW A \in SUBSET Names, NEW xs, Distinct(xs), ToSet(xs) \cap A = {},
         NEW B, B = A \cup ToSet(xs)
  PROVE  Takes(News(xs), A, B, 0)
<1> DEFINE n == Len(xs)
           sofar(k) == {xs[j] : j \in 1..k}
<1>1. /\ xs \in Seq(Names) /\ n \in Nat /\ DOMAIN xs = 1..n /\ Apart(xs)
      /\ \A k \in 1..n : xs[k] \in Names /\ xs[k] \notin A
      /\ sofar(0) = {} /\ sofar(n) = ToSet(xs)
  BY DEF Distinct, ToSet
<1>2. News(xs) \in Seq(Steps) /\ Len(News(xs)) = n /\ \A k \in 1..n : News(xs)[k] = New(xs[k])
  <2>1. \A k \in 1..n : New(xs[k]) \in Steps  BY <1>1 DEF New, Steps
  <2>2. News(xs) = [k \in 1..n |-> New(xs[k])]  BY <1>1 DEF News
  <2> HIDE DEF n
  <2>3. QED BY <1>1, <2>1, <2>2
<1>3. \A k \in 0..(n - 1) : sofar(k + 1) = sofar(k) \cup {xs[k + 1]} /\ xs[k + 1] \notin sofar(k)
  <2>1. \A k \in 0..(n - 1) : 1..(k + 1) = (1..k) \cup {k + 1} /\ k + 1 \in 1..n  BY <1>1
  <2>2. \A k \in 0..(n - 1) : sofar(k + 1) = sofar(k) \cup {xs[k + 1]}
    BY <2>1
  <2>3. \A k \in 0..(n - 1) : xs[k + 1] \notin sofar(k)
    BY <1>1, <2>1 DEF Apart
  <2>4. QED BY <2>2, <2>3
<1>4. ASSUME NEW h \in States, h.live = A
      PROVE  Run(h, News(xs)) = [live |-> A \cup ToSet(xs), lost |-> h.lost, bad |-> h.bad]
  <2> DEFINE f == Heaps(h, News(xs))
             T == {k \in 0..n : f[k] = [live |-> A \cup sofar(k), lost |-> h.lost, bad |-> h.bad]}
  <2>1. f[0] = h /\ \A k \in 1..n : f[k] = Perform(f[k - 1], News(xs)[k])
    <3> HIDE DEF n
    <3>1. QED BY <1>2, HeapsStep
  <2>2. h = [live |-> A, lost |-> h.lost, bad |-> h.bad] /\ h.lost \in Nat /\ h.bad \in BOOLEAN
    BY <1>4 DEF States
  <2> HIDE DEF n, f, sofar
  <2>3. 0 \in T
    <3>1. A \cup sofar(0) = A  BY <1>1
    <3>2. f[0] = [live |-> A \cup sofar(0), lost |-> h.lost, bad |-> h.bad]
      BY <2>1, <2>2, <3>1
    <3>3. 0 \in 0..n  BY <1>1
    <3>4. QED BY <3>2, <3>3
  <2>4. ASSUME NEW k \in 0..(n - 1), k \in T PROVE k + 1 \in T
    <3> DEFINE x == xs[k + 1]
    <3>1. k + 1 \in 1..n /\ (k + 1) - 1 = k /\ k + 1 \in 0..n  BY <1>1, <2>4
    <3>2. f[k + 1] = Perform(f[k], New(x))
      BY <1>2, <2>1, <3>1
    <3>3. x \notin sofar(k) /\ sofar(k + 1) = sofar(k) \cup {x}  BY <1>3
    <3>4. f[k] = [live |-> A \cup sofar(k), lost |-> h.lost, bad |-> h.bad]  BY <2>4
    <3>5. x \notin A \cup sofar(k)  BY <1>1, <3>1, <3>3
    <3> HIDE DEF x
    <3>6. f[k + 1] = [live |-> A \cup sofar(k + 1), lost |-> h.lost, bad |-> h.bad]
      <4>1. A \cup sofar(k + 1) = (A \cup sofar(k)) \cup {x}  BY <3>3
      <4>2. QED BY <2>2, <3>2, <3>4, <3>5, <4>1, PerformNew
    <3>7. QED BY <3>1, <3>6
  <2>5. \A k \in 0..n : k \in T
    <3> HIDE DEF T
    <3>1. QED BY <1>1, <2>3, <2>4, BoundedInduction
  <2>6. n \in 0..n  BY <1>1
  <2>7. f[n] = [live |-> A \cup sofar(n), lost |-> h.lost, bad |-> h.bad]  BY <2>5, <2>6
  <2>8. QED BY <1>1, <1>2, <2>7 DEF Run, f
<1>5. A \cup ToSet(xs) \in SUBSET Names  BY <1>1 DEF ToSet
<1>6. \A h \in States : h.lost \in Nat  BY DEF States
<1>7. QED BY <1>2, <1>4, <1>5, <1>6 DEF Takes

(* Matrices that are held can be freed.                                     *)
LEMMA FreesTake ==
  ASSUME NEW A \in SUBSET Names, NEW xs, Distinct(xs), ToSet(xs) \subseteq A,
         NEW B, B = A \ ToSet(xs)
  PROVE  Takes(Frees(xs), A, B, 0)
<1> DEFINE n == Len(xs)
           sofar(k) == {xs[j] : j \in 1..k}
<1>1. /\ xs \in Seq(Names) /\ n \in Nat /\ DOMAIN xs = 1..n /\ Apart(xs)
      /\ \A k \in 1..n : xs[k] \in Names /\ xs[k] \in A
      /\ sofar(0) = {} /\ sofar(n) = ToSet(xs)
  BY DEF Distinct, ToSet
<1>2. Frees(xs) \in Seq(Steps) /\ Len(Frees(xs)) = n /\ \A k \in 1..n : Frees(xs)[k] = Drop(xs[k])
  <2>1. \A k \in 1..n : Drop(xs[k]) \in Steps  BY <1>1 DEF Drop, Steps
  <2>2. Frees(xs) = [k \in 1..n |-> Drop(xs[k])]  BY <1>1 DEF Frees
  <2> HIDE DEF n
  <2>3. QED BY <1>1, <2>1, <2>2
<1>3. \A k \in 0..(n - 1) : sofar(k + 1) = sofar(k) \cup {xs[k + 1]} /\ xs[k + 1] \notin sofar(k)
  <2>1. \A k \in 0..(n - 1) : 1..(k + 1) = (1..k) \cup {k + 1} /\ k + 1 \in 1..n  BY <1>1
  <2>2. \A k \in 0..(n - 1) : sofar(k + 1) = sofar(k) \cup {xs[k + 1]}
    BY <2>1
  <2>3. \A k \in 0..(n - 1) : xs[k + 1] \notin sofar(k)
    BY <1>1, <2>1 DEF Apart
  <2>4. QED BY <2>2, <2>3
<1>4. ASSUME NEW h \in States, h.live = A
      PROVE  Run(h, Frees(xs)) = [live |-> A \ ToSet(xs), lost |-> h.lost, bad |-> h.bad]
  <2> DEFINE f == Heaps(h, Frees(xs))
             T == {k \in 0..n : f[k] = [live |-> A \ sofar(k), lost |-> h.lost, bad |-> h.bad]}
  <2>1. f[0] = h /\ \A k \in 1..n : f[k] = Perform(f[k - 1], Frees(xs)[k])
    <3> HIDE DEF n
    <3>1. QED BY <1>2, HeapsStep
  <2>2. h = [live |-> A, lost |-> h.lost, bad |-> h.bad] /\ h.lost \in Nat /\ h.bad \in BOOLEAN
    BY <1>4 DEF States
  <2> HIDE DEF n, f, sofar
  <2>3. 0 \in T
    <3>1. A \ sofar(0) = A  BY <1>1
    <3>2. f[0] = [live |-> A \ sofar(0), lost |-> h.lost, bad |-> h.bad]
      BY <2>1, <2>2, <3>1
    <3>3. 0 \in 0..n  BY <1>1
    <3>4. QED BY <3>2, <3>3
  <2>4. ASSUME NEW k \in 0..(n - 1), k \in T PROVE k + 1 \in T
    <3> DEFINE x == xs[k + 1]
    <3>1. k + 1 \in 1..n /\ (k + 1) - 1 = k /\ k + 1 \in 0..n  BY <1>1, <2>4
    <3>2. f[k + 1] = Perform(f[k], Drop(x))
      BY <1>2, <2>1, <3>1
    <3>3. x \notin sofar(k) /\ sofar(k + 1) = sofar(k) \cup {x}  BY <1>3
    <3>4. f[k] = [live |-> A \ sofar(k), lost |-> h.lost, bad |-> h.bad]  BY <2>4
    <3>5. x \in A \ sofar(k)  BY <1>1, <3>1, <3>3
    <3> HIDE DEF x
    <3>6. f[k + 1] = [live |-> A \ sofar(k + 1), lost |-> h.lost, bad |-> h.bad]
      <4>1. A \ sofar(k + 1) = (A \ sofar(k)) \ {x}  BY <3>3
      <4>2. QED BY <2>2, <3>2, <3>4, <3>5, <4>1, PerformDrop
    <3>7. QED BY <3>1, <3>6
  <2>5. \A k \in 0..n : k \in T
    <3> HIDE DEF T
    <3>1. QED BY <1>1, <2>3, <2>4, BoundedInduction
  <2>6. n \in 0..n  BY <1>1
  <2>7. f[n] = [live |-> A \ sofar(n), lost |-> h.lost, bad |-> h.bad]  BY <2>5, <2>6
  <2>8. QED BY <1>1, <1>2, <2>7 DEF Run, f
<1>5. A \ ToSet(xs) \in SUBSET Names  BY <1>1 DEF ToSet
<1>6. \A h \in States : h.lost \in Nat  BY DEF States
<1>7. QED BY <1>2, <1>4, <1>5, <1>6 DEF Takes

(* Matrices that are held can be used.                                      *)
LEMMA UsesTake ==
  ASSUME NEW A \in SUBSET Names, NEW xs, Distinct(xs), ToSet(xs) \subseteq A
  PROVE  Takes(Uses(xs), A, A, 0)
<1> DEFINE n == Len(xs)
<1>1. /\ xs \in Seq(Names) /\ n \in Nat /\ DOMAIN xs = 1..n /\ Apart(xs)
      /\ \A k \in 1..n : xs[k] \in Names /\ xs[k] \in A
  BY DEF Distinct, ToSet
<1>2. Uses(xs) \in Seq(Steps) /\ Len(Uses(xs)) = n /\ \A k \in 1..n : Uses(xs)[k] = Use(xs[k])
  <2>1. \A k \in 1..n : Use(xs[k]) \in Steps  BY <1>1 DEF Use, Steps
  <2>2. Uses(xs) = [k \in 1..n |-> Use(xs[k])]  BY <1>1 DEF Uses
  <2> HIDE DEF n
  <2>3. QED BY <1>1, <2>1, <2>2
<1>3. ASSUME NEW h \in States, h.live = A
      PROVE  Run(h, Uses(xs)) = [live |-> A, lost |-> h.lost, bad |-> h.bad]
  <2> DEFINE f == Heaps(h, Uses(xs))
             T == {k \in 0..n : f[k] = [live |-> A, lost |-> h.lost, bad |-> h.bad]}
  <2>1. f[0] = h /\ \A k \in 1..n : f[k] = Perform(f[k - 1], Uses(xs)[k])
    <3> HIDE DEF n
    <3>1. QED BY <1>2, HeapsStep
  <2>2. h = [live |-> A, lost |-> h.lost, bad |-> h.bad] /\ h.lost \in Nat /\ h.bad \in BOOLEAN
    BY <1>3 DEF States
  <2> HIDE DEF n, f
  <2>3. 0 \in T
    <3>1. f[0] = [live |-> A, lost |-> h.lost, bad |-> h.bad]  BY <2>1, <2>2
    <3>2. 0 \in 0..n  BY <1>1
    <3>3. QED BY <3>1, <3>2
  <2>4. ASSUME NEW k \in 0..(n - 1), k \in T PROVE k + 1 \in T
    <3> DEFINE x == xs[k + 1]
    <3>1. k + 1 \in 1..n /\ (k + 1) - 1 = k /\ k + 1 \in 0..n  BY <1>1, <2>4
    <3>2. f[k + 1] = Perform(f[k], Use(x))
      BY <1>2, <2>1, <3>1
    <3>3. f[k] = [live |-> A, lost |-> h.lost, bad |-> h.bad]  BY <2>4
    <3>4. x \in A  BY <1>1, <3>1
    <3> HIDE DEF x
    <3>5. f[k + 1] = [live |-> A, lost |-> h.lost, bad |-> h.bad]
      BY <2>2, <3>2, <3>3, <3>4, PerformUse
    <3>6. QED BY <3>1, <3>5
  <2>5. \A k \in 0..n : k \in T
    <3> HIDE DEF T
    <3>1. QED BY <1>1, <2>3, <2>4, BoundedInduction
  <2>6. n \in 0..n  BY <1>1
  <2>7. f[n] = [live |-> A, lost |-> h.lost, bad |-> h.bad]  BY <2>5, <2>6
  <2>8. QED BY <1>1, <1>2, <2>7 DEF Run, f
<1>4. \A h \in States : h.lost \in Nat  BY DEF States
<1>5. QED BY <1>2, <1>3, <1>4 DEF Takes

LEMMA OneStep ==
  ASSUME NEW h \in States, NEW a \in Steps PROVE Run(h, <<a>>) = Perform(h, a)
<1>1. <<a>> \in Seq(Steps) /\ Len(<<a>>) = 1 /\ <<a>>[1] = a /\ 1 \in 1..1 /\ 1 - 1 = 0  OBVIOUS
<1>2. Heaps(h, <<a>>)[0] = h
      /\ \A k \in 1..Len(<<a>>) : Heaps(h, <<a>>)[k] = Perform(Heaps(h, <<a>>)[k - 1], <<a>>[k])
  BY <1>1, HeapsStep
<1>3. QED BY <1>1, <1>2 DEF Run

(* A matrix for a variable that has one is another that is lost.            *)
LEMMA NewTakes ==
  ASSUME NEW A \in SUBSET Names, NEW x \in Names
  PROVE  Takes(<<New(x)>>, A, A \cup {x}, IF x \in A THEN 1 ELSE 0)
<1>1. New(x) \in Steps /\ <<New(x)>> \in Seq(Steps) /\ A \cup {x} \in SUBSET Names
  BY DEF New, Steps
<1>2. ASSUME NEW h \in States, h.live = A
      PROVE  Run(h, <<New(x)>>) =
               [live |-> A \cup {x}, lost |-> h.lost + (IF x \in A THEN 1 ELSE 0), bad |-> h.bad]
  <2>1. h = [live |-> A, lost |-> h.lost, bad |-> h.bad] /\ h.lost \in Nat /\ h.bad \in BOOLEAN
    BY <1>2 DEF States
  <2>2. Perform(h, New(x)) =
          [live |-> A \cup {x}, lost |-> IF x \in A THEN h.lost + 1 ELSE h.lost, bad |-> h.bad]
    BY <1>2, <2>1 DEF Perform, New
  <2>3. (IF x \in A THEN h.lost + 1 ELSE h.lost) = h.lost + (IF x \in A THEN 1 ELSE 0)
    BY <2>1
  <2>4. QED BY <1>1, <2>2, <2>3, OneStep
<1>3. QED BY <1>1, <1>2 DEF Takes

LEMMA DropTakes ==
  ASSUME NEW A \in SUBSET Names, NEW x \in A
  PROVE  Takes(<<Drop(x)>>, A, A \ {x}, 0)
<1>1. Drop(x) \in Steps /\ <<Drop(x)>> \in Seq(Steps) /\ A \ {x} \in SUBSET Names
  BY DEF Drop, Steps
<1>2. ASSUME NEW h \in States, h.live = A
      PROVE  Run(h, <<Drop(x)>>) = [live |-> A \ {x}, lost |-> h.lost + 0, bad |-> h.bad]
  <2>1. h = [live |-> A, lost |-> h.lost, bad |-> h.bad] /\ h.lost \in Nat /\ h.bad \in BOOLEAN
    BY <1>2 DEF States
  <2>2. Perform(h, Drop(x)) = [live |-> A \ {x}, lost |-> h.lost, bad |-> h.bad]
    BY <1>2, <2>1 DEF Perform, Drop
  <2>3. h.lost + 0 = h.lost  BY <2>1
  <2>4. QED BY <1>1, <2>2, <2>3, OneStep
<1>3. QED BY <1>1, <1>2 DEF Takes

LEMMA SameSequence ==
  ASSUME NEW S, NEW s \in Seq(S), NEW t \in Seq(S), Len(s) = Len(t),
         \A i \in 1..Len(s) : s[i] = t[i]
  PROVE  s = t
OBVIOUS

LEMMA TwoSteps ==
  ASSUME NEW a \in Steps, NEW b \in Steps PROVE <<a>> \o <<b>> = <<a, b>>
<1>1. <<a>> \in Seq(Steps) /\ <<b>> \in Seq(Steps) /\ <<a, b>> \in Seq(Steps)  OBVIOUS
<1>2. /\ <<a>> \o <<b>> \in Seq(Steps) /\ Len(<<a>> \o <<b>>) = 2 /\ Len(<<a, b>>) = 2
      /\ (<<a>> \o <<b>>)[1] = a /\ (<<a>> \o <<b>>)[2] = b
  BY <1>1
<1>3. \A i \in 1..2 : (<<a>> \o <<b>>)[i] = <<a, b>>[i]  BY <1>2
<1>4. QED BY <1>1, <1>2, <1>3, SameSequence

LEMMA ThreeSteps ==
  ASSUME NEW a \in Steps, NEW b \in Steps, NEW c \in Steps
  PROVE  <<a>> \o <<b, c>> = <<a, b, c>>
<1>1. <<a>> \in Seq(Steps) /\ <<b, c>> \in Seq(Steps) /\ <<a, b, c>> \in Seq(Steps)  OBVIOUS
<1>2. /\ <<a>> \o <<b, c>> \in Seq(Steps)
      /\ Len(<<a>> \o <<b, c>>) = 3 /\ Len(<<a, b, c>>) = 3
      /\ (<<a>> \o <<b, c>>)[1] = a /\ (<<a>> \o <<b, c>>)[2] = b
      /\ (<<a>> \o <<b, c>>)[3] = c
  BY <1>1
<1>3. \A i \in 1..3 : (<<a>> \o <<b, c>>)[i] = <<a, b, c>>[i]  BY <1>2
<1>4. QED BY <1>1, <1>2, <1>3, SameSequence

LEMMA Tuple1 ==
  ASSUME NEW a \in Names
  PROVE  Distinct(<<a>>) /\ ToSet(<<a>>) = {a}
<1>1. <<a>> \in Seq(Names) /\ DOMAIN <<a>> = 1..1  OBVIOUS
<1>2. QED BY <1>1 DEF Distinct, Apart, ToSet

LEMMA Tuple2 ==
  ASSUME NEW a \in Names, NEW b \in Names,
         a # b
  PROVE  Distinct(<<a, b>>) /\ ToSet(<<a, b>>) = {a, b}
<1>1. <<a, b>> \in Seq(Names) /\ DOMAIN <<a, b>> = 1..2  OBVIOUS
<1>2. QED BY <1>1 DEF Distinct, Apart, ToSet

LEMMA Tuple3 ==
  ASSUME NEW a \in Names, NEW b \in Names, NEW c \in Names,
         a # b, a # c, b # c
  PROVE  Distinct(<<a, b, c>>) /\ ToSet(<<a, b, c>>) = {a, b, c}
<1>1. <<a, b, c>> \in Seq(Names) /\ DOMAIN <<a, b, c>> = 1..3  OBVIOUS
<1>2. QED BY <1>1 DEF Distinct, Apart, ToSet

LEMMA Tuple4 ==
  ASSUME NEW a \in Names, NEW b \in Names, NEW c \in Names, NEW d \in Names,
         a # b, a # c, a # d, b # c, b # d, c # d
  PROVE  Distinct(<<a, b, c, d>>) /\ ToSet(<<a, b, c, d>>) = {a, b, c, d}
<1>1. <<a, b, c, d>> \in Seq(Names) /\ DOMAIN <<a, b, c, d>> = 1..4  OBVIOUS
<1>2. QED BY <1>1 DEF Distinct, Apart, ToSet

(* What follows a script that begins with L held and has come to A.         *)
LEMMA ThenNews ==
  ASSUME NEW s, NEW L, NEW A, NEW n \in Nat, Takes(s, L, A, n),
         NEW xs, Distinct(xs), ToSet(xs) \cap A = {}, NEW B, B = A \cup ToSet(xs)
  PROVE  Takes(s \o News(xs), L, B, n)
<1>1. A \in SUBSET Names  BY DEF Takes
<1>2. Takes(News(xs), A, B, 0)  BY <1>1, NewsTake
<1>3. n + 0 = n  OBVIOUS
<1>4. QED BY <1>2, <1>3, Then

LEMMA ThenFrees ==
  ASSUME NEW s, NEW L, NEW A, NEW n \in Nat, Takes(s, L, A, n),
         NEW xs, Distinct(xs), ToSet(xs) \subseteq A, NEW B, B = A \ ToSet(xs)
  PROVE  Takes(s \o Frees(xs), L, B, n)
<1>1. A \in SUBSET Names  BY DEF Takes
<1>2. Takes(Frees(xs), A, B, 0)  BY <1>1, FreesTake
<1>3. n + 0 = n  OBVIOUS
<1>4. QED BY <1>2, <1>3, Then

LEMMA ThenUses ==
  ASSUME NEW s, NEW L, NEW A, NEW n \in Nat, Takes(s, L, A, n),
         NEW xs, Distinct(xs), ToSet(xs) \subseteq A
  PROVE  Takes(s \o Uses(xs), L, A, n)
<1>1. A \in SUBSET Names  BY DEF Takes
<1>2. Takes(Uses(xs), A, A, 0)  BY <1>1, UsesTake
<1>3. n + 0 = n  OBVIOUS
<1>4. QED BY <1>2, <1>3, Then

LEMMA ThenNew ==
  ASSUME NEW s, NEW L, NEW A, NEW n \in Nat, Takes(s, L, A, n), NEW x \in Names, x \notin A,
         NEW B, B = A \cup {x}
  PROVE  Takes(s \o <<New(x)>>, L, B, n)
<1>1. A \in SUBSET Names  BY DEF Takes
<1>2. Takes(<<New(x)>>, A, B, 0)  BY <1>1, NewTakes
<1>3. n + 0 = n  OBVIOUS
<1>4. QED BY <1>2, <1>3, Then

LEMMA ThenDrop ==
  ASSUME NEW s, NEW L, NEW A, NEW n \in Nat, Takes(s, L, A, n), NEW x \in A,
         NEW B, B = A \ {x}
  PROVE  Takes(s \o <<Drop(x)>>, L, B, n)
<1>1. A \in SUBSET Names  BY DEF Takes
<1>2. Takes(<<Drop(x)>>, A, B, 0)  BY <1>1, DropTakes
<1>3. n + 0 = n  OBVIOUS
<1>4. QED BY <1>2, <1>3, Then

(* A matrix is freed and another takes its place.                           *)
LEMMA ThenAgain ==
  ASSUME NEW s, NEW L, NEW A, NEW n \in Nat, Takes(s, L, A, n), NEW x \in A
  PROVE  Takes(s \o <<Drop(x), New(x)>>, L, A, n)
<1>1. A \in SUBSET Names /\ x \in Names  BY DEF Takes
<1>2. Takes(<<Drop(x)>>, A, A \ {x}, 0)  BY <1>1, DropTakes
<1>3. Takes(<<Drop(x)>> \o <<New(x)>>, A, A, 0)
  <2>1. x \notin A \ {x} /\ A = (A \ {x}) \cup {x} /\ 0 \in Nat  OBVIOUS
  <2>2. QED BY <1>1, <1>2, <2>1, ThenNew
<1>4. <<Drop(x)>> \o <<New(x)>> = <<Drop(x), New(x)>>
  BY <1>1, TwoSteps DEF Drop, New, Steps
<1>5. n + 0 = n  OBVIOUS
<1>6. QED BY <1>3, <1>4, <1>5, Then

LEMMA ThenReplace ==
  ASSUME NEW s, NEW L, NEW A, NEW n \in Nat, Takes(s, L, A, n), NEW x \in A
  PROVE  Takes(s \o Replace(x), L, A, n)
<1>1. A \in SUBSET Names /\ x \in Names  BY DEF Takes
<1>2. Takes(Uses(<<x>>), A, A, 0)  BY <1>1, Tuple1, UsesTake
<1>3. Takes(Uses(<<x>>) \o <<Drop(x), New(x)>>, A, A, 0)  BY <1>2, ThenAgain
<1>4. Uses(<<x>>) \o <<Drop(x), New(x)>> = Replace(x)
  <2>1. Uses(<<x>>) = <<Use(x)>>  BY DEF Uses
  <2>2. <<Use(x)>> \o <<Drop(x), New(x)>> = <<Use(x), Drop(x), New(x)>>
    BY <1>1, ThreeSteps DEF Use, Drop, New, Steps
  <2>3. QED BY <2>1, <2>2 DEF Replace
<1>5. n + 0 = n  OBVIOUS
<1>6. QED BY <1>3, <1>4, <1>5, Then

(* The matrices that are held in the loop.                                  *)
Held == {"fid", "resultMat", "pos", "vel", "ones", "quat", "index", "sType", "isEOF", "elapsed",
         "STDDEV_GPSPos", "randW"}

(* What is held while a record is dealt with: these, the record, the time,   *)
(* and what an earlier fix has left.                                        *)
Kept(L) ==
  /\ Held \cup {"sData", "start"} \subseteq L
  /\ L \subseteq Held \cup {"sData", "start", "temp_STDDEV_GPSPos"}

(* Two matrices, for variables that may have one.                           *)
LEMMA PairTakes ==
  ASSUME NEW A \in SUBSET Names, NEW a \in Names, NEW b \in Names, a # b,
         NEW n \in Nat, n = (IF a \in A THEN 1 ELSE 0) + (IF b \in A THEN 1 ELSE 0)
  PROVE  Takes(News(<<a, b>>), A, A \cup {a, b}, n)
<1>1. News(<<a, b>>) = <<New(a)>> \o <<New(b)>>
  <2>1. New(a) \in Steps /\ New(b) \in Steps  BY DEF New, Steps
  <2>2. News(<<a, b>>) = <<New(a), New(b)>>
    <3>1. \A i \in 1..2 : New(<<a, b>>[i]) \in Steps  BY <2>1
    <3>2. /\ News(<<a, b>>) \in Seq(Steps) /\ Len(News(<<a, b>>)) = 2
          /\ News(<<a, b>>)[1] = New(a) /\ News(<<a, b>>)[2] = New(b)
      BY <3>1 DEF News
    <3>3. <<New(a), New(b)>> \in Seq(Steps) /\ Len(<<New(a), New(b)>>) = 2  BY <2>1
    <3>4. \A i \in 1..2 : News(<<a, b>>)[i] = <<New(a), New(b)>>[i]  BY <3>2
    <3>5. QED BY <3>2, <3>3, <3>4, SameSequence
  <2>3. QED BY <2>1, <2>2, TwoSteps
<1>2. Takes(<<New(a)>>, A, A \cup {a}, IF a \in A THEN 1 ELSE 0)  BY NewTakes
<1>3. Takes(<<New(b)>>, A \cup {a}, A \cup {a, b}, IF b \in A THEN 1 ELSE 0)
  <2>1. A \cup {a} \in SUBSET Names /\ (b \in A \cup {a} <=> b \in A)
        /\ (A \cup {a}) \cup {b} = A \cup {a, b}
    OBVIOUS
  <2>2. Takes(<<New(b)>>, A \cup {a}, (A \cup {a}) \cup {b}, IF b \in A \cup {a} THEN 1 ELSE 0)
    BY <2>1, NewTakes
  <2>3. QED BY <2>1, <2>2
<1> DEFINE i == IF a \in A THEN 1 ELSE 0
           j == IF b \in A THEN 1 ELSE 0
<1>4. i \in Nat /\ j \in Nat /\ n = i + j  OBVIOUS
<1>5. Takes(<<New(a)>>, A, A \cup {a}, i) /\ Takes(<<New(b)>>, A \cup {a}, A \cup {a, b}, j)
  BY <1>2, <1>3
<1> HIDE DEF i, j
<1>6. Takes(<<New(a)>> \o <<New(b)>>, A, A \cup {a, b}, i + j)  BY <1>4, <1>5, Then
<1>7. QED BY <1>1, <1>4, <1>6

LEMMA GyroTakes ==
  ASSUME NEW L \in SUBSET Names, Kept(L) PROVE Takes(GyroScript, L, L, 0)
<1>1. /\ {"t", "gyro", "abc", "t1", "abcd", "norm_gyro", "angleAlpha", "cosA", "sinA",
          "quatDelta"} \cap L = {}
      /\ {"ones", "randW", "quat"} \subseteq L
      /\ {"t", "gyro", "abc", "t1", "abcd", "norm_gyro", "angleAlpha", "cosA", "sinA",
          "quatDelta", "ones", "randW", "quat"} \subseteq Names
  BY DEF Kept, Held, Names
<1> DEFINE s1 == Uses(<<"ones", "randW", "quat">>)
           s2 == s1 \o News(<<"t", "gyro", "abc", "t1">>)
           s3 == s2 \o <<Drop("t1")>>
           s4 == s3 \o News(<<"abcd", "norm_gyro", "angleAlpha">>)
           s5 == s4 \o Frees(<<"t", "abcd">>)
           s6 == s5 \o News(<<"cosA", "sinA">>)
           s7 == s6 \o <<Drop("abc")>>
           s8 == s7 \o News(<<"abc", "t1", "t">>)
           s9 == s8 \o <<Drop("t1")>>
           s10 == s9 \o News(<<"abcd", "t1", "quatDelta">>)
           s11 == s10 \o Frees(<<"abcd", "t", "t1", "abc">>)
           s12 == s11 \o <<New("t")>>
           s13 == s12 \o Frees(<<"quat", "quatDelta">>)
           s14 == s13 \o <<New("quat")>>
           s15 == s14 \o Frees(<<"t", "norm_gyro", "gyro", "angleAlpha", "cosA", "sinA">>)
<1> HIDE DEF s1, s2, s3, s4, s5, s6, s7, s8, s9, s10, s11, s12, s13, s14, s15
<1>2. Takes(s1, L, L, 0)
  BY <1>1, Tuple3, UsesTake DEF s1
<1>3. Takes(s2, L, L \cup {"t", "gyro", "abc", "t1"}, 0)
  BY <1>1, <1>2, Tuple4, ThenNews DEF s2
<1>4. Takes(s3, L, L \cup {"t", "gyro", "abc"}, 0)
  BY <1>1, <1>3, ThenDrop DEF s3
<1>5. Takes(s4, L, L \cup {"t", "gyro", "abc", "abcd", "norm_gyro", "angleAlpha"}, 0)
  BY <1>1, <1>4, Tuple3, ThenNews DEF s4
<1>6. Takes(s5, L, L \cup {"gyro", "abc", "norm_gyro", "angleAlpha"}, 0)
  BY <1>1, <1>5, Tuple2, ThenFrees DEF s5
<1>7. Takes(s6, L, L \cup {"gyro", "abc", "norm_gyro", "angleAlpha", "cosA", "sinA"}, 0)
  BY <1>1, <1>6, Tuple2, ThenNews DEF s6
<1>8. Takes(s7, L, L \cup {"gyro", "norm_gyro", "angleAlpha", "cosA", "sinA"}, 0)
  BY <1>1, <1>7, ThenDrop DEF s7
<1>9. Takes(s8, L, L \cup {"gyro", "norm_gyro", "angleAlpha", "cosA", "sinA", "abc", "t1",
                           "t"}, 0)
  BY <1>1, <1>8, Tuple3, ThenNews DEF s8
<1>10. Takes(s9, L, L \cup {"gyro", "norm_gyro", "angleAlpha", "cosA", "sinA", "abc",
                            "t"}, 0)
  BY <1>1, <1>9, ThenDrop DEF s9
<1>11. Takes(s10, L, L \cup {"gyro", "norm_gyro", "angleAlpha", "cosA", "sinA", "abc", "t",
                             "abcd", "t1", "quatDelta"}, 0)
  BY <1>1, <1>10, Tuple3, ThenNews DEF s10
<1>12. Takes(s11, L, L \cup {"gyro", "norm_gyro", "angleAlpha", "cosA", "sinA",
                             "quatDelta"}, 0)
  BY <1>1, <1>11, Tuple4, ThenFrees DEF s11
<1>13. Takes(s12, L, L \cup {"gyro", "norm_gyro", "angleAlpha", "cosA", "sinA", "quatDelta",
                             "t"}, 0)
  BY <1>1, <1>12, ThenNew DEF s12
<1>14. Takes(s13, L, (L \ {"quat"}) \cup {"gyro", "norm_gyro", "angleAlpha", "cosA", "sinA",
                                          "t"}, 0)
  BY <1>1, <1>13, Tuple2, ThenFrees DEF s13
<1>15. Takes(s14, L, L \cup {"gyro", "norm_gyro", "angleAlpha", "cosA", "sinA", "t"}, 0)
  BY <1>1, <1>14, ThenNew DEF s14
<1>16. Takes(s15, L, L, 0)
  <2>1. Apart(<<"t", "norm_gyro", "gyro", "angleAlpha", "cosA", "sinA">>) BY DEF Apart
  <2>2. Distinct(<<"t", "norm_gyro", "gyro", "angleAlpha", "cosA", "sinA">>)
        /\ ToSet(<<"t", "norm_gyro", "gyro", "angleAlpha", "cosA", "sinA">>)
             = {"t", "norm_gyro", "gyro", "angleAlpha", "cosA", "sinA"}
    BY <1>1, <2>1 DEF Distinct, ToSet
  <2>3. QED BY <1>1, <1>15, <2>2, ThenFrees DEF s15
<1>17. QED BY <1>16 DEF GyroScript, s1, s2, s3, s4, s5, s6, s7, s8, s9, s10, s11, s12,
                                    s13, s14, s15

LEMMA OdometryTakes ==
  ASSUME NEW L \in SUBSET Names, Kept(L) PROVE Takes(OdometryScript, L, L, 0)
<1>1. /\ {"t", "Ovel", "t1", "w"} \cap L = {}
      /\ {"sData", "quat", "vel", "pos"} \subseteq L
      /\ {"t", "Ovel", "t1", "w", "sData", "quat", "vel", "pos"} \subseteq Names
  BY DEF Kept, Held, Names
<1> DEFINE s1 == News(<<"t", "Ovel", "t1", "w">>)
           s2 == s1 \o Uses(<<"sData", "quat", "vel", "pos">>)
           s3 == s2 \o Frees(<<"w", "t", "t1", "Ovel">>)
<1> HIDE DEF s1, s2, s3
<1>2. Takes(s1, L, L \cup {"t", "Ovel", "t1", "w"}, 0)
  BY <1>1, Tuple4, NewsTake DEF s1
<1>3. Takes(s2, L, L \cup {"t", "Ovel", "t1", "w"}, 0)
  BY <1>1, <1>2, Tuple4, ThenUses DEF s2
<1>4. Takes(s3, L, L, 0)
  BY <1>1, <1>3, Tuple4, ThenFrees DEF s3
<1>5. QED BY <1>4 DEF OdometryScript, s1, s2, s3

LEMMA AccelerometerTakes ==
  ASSUME NEW L \in SUBSET Names, Kept(L) PROVE Takes(AccelerometerScript, L, L, 0)
<1>1. /\ {"t", "accl", "gtemp", "gravity", "w", "is", "s"} \cap L = {}
      /\ {"quat", "vel", "pos"} \subseteq L
      /\ {"t", "accl", "gtemp", "gravity", "w", "is", "s", "quat", "vel",
          "pos"} \subseteq Names
  BY DEF Kept, Held, Names
<1> DEFINE s1 == News(<<"t", "accl", "gtemp", "gravity">>)
           s2 == s1 \o Frees(<<"gtemp", "t">>)
           s3 == s2 \o News(<<"t", "w">>)
           s4 == s3 \o Uses(<<"quat", "vel", "pos">>)
           s5 == s4 \o <<Drop("t"), New("t")>>
           s6 == s5 \o Replace("accl")
           s7 == s6 \o Frees(<<"w", "gravity", "t">>)
           s8 == s7 \o News(<<"is", "s">>)
           s9 == s8 \o <<Drop("is"), New("is")>>
           s10 == s9 \o Replace("pos")
           s11 == s10 \o Frees(<<"is", "s">>)
           s12 == s11 \o News(<<"is", "s", "t">>)
           s13 == s12 \o Frees(<<"s", "is">>)
           s14 == s13 \o News(<<"s", "is">>)
           s15 == s14 \o Replace("pos")
           s16 == s15 \o Frees(<<"s", "t", "is">>)
           s17 == s16 \o News(<<"t", "is">>)
           s18 == s17 \o Frees(<<"accl", "t">>)
           s19 == s18 \o <<New("s")>>
           s20 == s19 \o Replace("vel")
           s21 == s20 \o Frees(<<"is", "s">>)
<1> HIDE DEF s1, s2, s3, s4, s5, s6, s7, s8, s9, s10, s11, s12, s13, s14, s15, s16, s17,
             s18, s19, s20, s21
<1>2. Takes(s1, L, L \cup {"t", "accl", "gtemp", "gravity"}, 0)
  BY <1>1, Tuple4, NewsTake DEF s1
<1>3. Takes(s2, L, L \cup {"accl", "gravity"}, 0)
  BY <1>1, <1>2, Tuple2, ThenFrees DEF s2
<1>4. Takes(s3, L, L \cup {"accl", "gravity", "t", "w"}, 0)
  BY <1>1, <1>3, Tuple2, ThenNews DEF s3
<1>5. Takes(s4, L, L \cup {"accl", "gravity", "t", "w"}, 0)
  BY <1>1, <1>4, Tuple3, ThenUses DEF s4
<1>6. Takes(s5, L, L \cup {"accl", "gravity", "t", "w"}, 0)
  BY <1>1, <1>5, ThenAgain DEF s5
<1>7. Takes(s6, L, L \cup {"accl", "gravity", "t", "w"}, 0)
  BY <1>1, <1>6, ThenReplace DEF s6
<1>8. Takes(s7, L, L \cup {"accl"}, 0)
  BY <1>1, <1>7, Tuple3, ThenFrees DEF s7
<1>9. Takes(s8, L, L \cup {"accl", "is", "s"}, 0)
  BY <1>1, <1>8, Tuple2, ThenNews DEF s8
<1>10. Takes(s9, L, L \cup {"accl", "is", "s"}, 0)
  BY <1>1, <1>9, ThenAgain DEF s9
<1>11. Takes(s10, L, L \cup {"accl", "is", "s"}, 0)
  BY <1>1, <1>10, ThenReplace DEF s10
<1>12. Takes(s11, L, L \cup {"accl"}, 0)
  BY <1>1, <1>11, Tuple2, ThenFrees DEF s11
<1>13. Takes(s12, L, L \cup {"accl", "is", "s", "t"}, 0)
  BY <1>1, <1>12, Tuple3, ThenNews DEF s12
<1>14. Takes(s13, L, L \cup {"accl", "t"}, 0)
  BY <1>1, <1>13, Tuple2, ThenFrees DEF s13
<1>15. Takes(s14, L, L \cup {"accl", "t", "s", "is"}, 0)
  BY <1>1, <1>14, Tuple2, ThenNews DEF s14
<1>16. Takes(s15, L, L \cup {"accl", "t", "s", "is"}, 0)
  BY <1>1, <1>15, ThenReplace DEF s15
<1>17. Takes(s16, L, L \cup {"accl"}, 0)
  BY <1>1, <1>16, Tuple3, ThenFrees DEF s16
<1>18. Takes(s17, L, L \cup {"accl", "t", "is"}, 0)
  BY <1>1, <1>17, Tuple2, ThenNews DEF s17
<1>19. Takes(s18, L, L \cup {"is"}, 0)
  BY <1>1, <1>18, Tuple2, ThenFrees DEF s18
<1>20. Takes(s19, L, L \cup {"is", "s"}, 0)
  BY <1>1, <1>19, ThenNew DEF s19
<1>21. Takes(s20, L, L \cup {"is", "s"}, 0)
  BY <1>1, <1>20, ThenReplace DEF s20
<1>22. Takes(s21, L, L, 0)
  BY <1>1, <1>21, Tuple2, ThenFrees DEF s21
<1>23. QED BY <1>22 DEF AccelerometerScript, s1, s2, s3, s4, s5, s6, s7, s8, s9, s10,
                                             s11, s12, s13, s14, s15, s16, s17, s18,
                                             s19, s20, s21

LEMMA SetupTakes ==
  Takes(Setup, {}, Held, 0)
<1>1. {"fid", "resultMat", "pos", "vel", "ones", "randn", "start", "eulAngle", "eul1",
       "eul2", "quat", "index", "sType", "isEOF", "endC", "elapsed", "STDDEV_GPSPos",
       "randW"} \subseteq Names
  BY DEF Names
<1> DEFINE s1 == News(<<"fid", "resultMat", "pos", "vel", "ones", "randn">>)
           s2 == s1 \o Frees(<<"randn">>)
           s3 == s2 \o News(<<"start", "eulAngle", "randn", "eul1">>)
           s4 == s3 \o Frees(<<"eulAngle">>)
           s5 == s4 \o News(<<"eulAngle", "eul2">>)
           s6 == s5 \o Frees(<<"randn", "eulAngle">>)
           s7 == s6 \o <<New("quat")>>
           s8 == s7 \o Frees(<<"eul1", "eul2">>)
           s9 == s8 \o News(<<"index", "sType", "isEOF", "endC", "elapsed">>)
           s10 == s9 \o Frees(<<"start", "endC">>)
           s11 == s10 \o News(<<"STDDEV_GPSPos", "randW">>)
<1> HIDE DEF s1, s2, s3, s4, s5, s6, s7, s8, s9, s10, s11
<1>2. Takes(s1, {}, {"fid", "resultMat", "pos", "vel", "ones", "randn"}, 0)
  <2>1. Apart(<<"fid", "resultMat", "pos", "vel", "ones", "randn">>) BY DEF Apart
  <2>2. Distinct(<<"fid", "resultMat", "pos", "vel", "ones", "randn">>)
        /\ ToSet(<<"fid", "resultMat", "pos", "vel", "ones", "randn">>)
             = {"fid", "resultMat", "pos", "vel", "ones", "randn"}
    BY <1>1, <2>1 DEF Distinct, ToSet
  <2>3. QED BY <1>1, <2>2, NewsTake DEF s1
<1>3. Takes(s2, {}, {"fid", "resultMat", "pos", "vel", "ones"}, 0)
  BY <1>1, <1>2, Tuple1, ThenFrees DEF s2
<1>4. Takes(s3, {}, {"fid", "resultMat", "pos", "vel", "ones", "start", "eulAngle", "randn",
                     "eul1"}, 0)
  BY <1>1, <1>3, Tuple4, ThenNews DEF s3
<1>5. Takes(s4, {}, {"fid", "resultMat", "pos", "vel", "ones", "start", "randn", "eul1"}, 0)
  BY <1>1, <1>4, Tuple1, ThenFrees DEF s4
<1>6. Takes(s5, {}, {"fid", "resultMat", "pos", "vel", "ones", "start", "randn", "eul1",
                     "eulAngle", "eul2"}, 0)
  BY <1>1, <1>5, Tuple2, ThenNews DEF s5
<1>7. Takes(s6, {}, {"fid", "resultMat", "pos", "vel", "ones", "start", "eul1", "eul2"}, 0)
  BY <1>1, <1>6, Tuple2, ThenFrees DEF s6
<1>8. Takes(s7, {}, {"fid", "resultMat", "pos", "vel", "ones", "start", "eul1", "eul2",
                     "quat"}, 0)
  BY <1>1, <1>7, ThenNew DEF s7
<1>9. Takes(s8, {}, {"fid", "resultMat", "pos", "vel", "ones", "start", "quat"}, 0)
  BY <1>1, <1>8, Tuple2, ThenFrees DEF s8
<1>10. Takes(s9, {}, {"fid", "resultMat", "pos", "vel", "ones", "start", "quat", "index",
                      "sType", "isEOF", "endC", "elapsed"}, 0)
  <2>1. Apart(<<"index", "sType", "isEOF", "endC", "elapsed">>) BY DEF Apart
  <2>2. Distinct(<<"index", "sType", "isEOF", "endC", "elapsed">>)
        /\ ToSet(<<"index", "sType", "isEOF", "endC", "elapsed">>)
             = {"index", "sType", "isEOF", "endC", "elapsed"}
    BY <1>1, <2>1 DEF Distinct, ToSet
  <2>3. QED BY <1>1, <1>9, <2>2, ThenNews DEF s9
<1>11. Takes(s10, {}, {"fid", "resultMat", "pos", "vel", "ones", "quat", "index", "sType",
                       "isEOF", "elapsed"}, 0)
  BY <1>1, <1>10, Tuple2, ThenFrees DEF s10
<1>12. Takes(s11, {}, {"fid", "resultMat", "pos", "vel", "ones", "quat", "index", "sType",
                       "isEOF", "elapsed", "STDDEV_GPSPos", "randW"}, 0)
  BY <1>1, <1>11, Tuple2, ThenNews DEF s11
<1>13. QED BY <1>12 DEF Setup, Held, s1, s2, s3, s4, s5, s6, s7, s8, s9, s10, s11

(* The first fix leaves what is held as it was; a later one leaves two       *)
(* matrices, the first of them for a variable that may have one already.     *)
LEMMA FirstFixTakes ==
  ASSUME NEW K \in SUBSET Names, {"t", "t1"} \cap K = {}, "pos" \in K
  PROVE  Takes(FixScript(FALSE), K, K, 0)
<1>1. {"t", "t1", "pos"} \subseteq Names  BY DEF Names
<1> DEFINE s1 == News(<<"t", "t1">>)
           s2 == s1 \o Uses(<<"pos">>)
           s3 == s2 \o Frees(<<"t", "t1">>)
<1> HIDE DEF s1, s2, s3
<1>2. Takes(s1, K, K \cup {"t", "t1"}, 0)  BY <1>1, Tuple2, NewsTake DEF s1
<1>3. Takes(s2, K, K \cup {"t", "t1"}, 0)  BY <1>1, <1>2, Tuple1, ThenUses DEF s2
<1>4. Takes(s3, K, K, 0)  BY <1>1, <1>3, Tuple2, ThenFrees DEF s3
<1>5. QED BY <1>4 DEF FixScript, s1, s2, s3

LEMMA LaterFixTakes ==
  ASSUME NEW K \in SUBSET Names, "w" \notin K, {"quat", "vel", "pos"} \subseteq K,
         NEW n \in Nat, n = IF "temp_STDDEV_GPSPos" \in K THEN 1 ELSE 0
  PROVE  Takes(FixScript(TRUE), K, K \cup {"temp_STDDEV_GPSPos", "w"}, n)
<1>1. {"temp_STDDEV_GPSPos", "w", "quat", "vel", "pos"} \subseteq Names  BY DEF Names
<1> DEFINE s1 == News(<<"temp_STDDEV_GPSPos", "w">>)
           s2 == s1 \o Uses(<<"quat", "vel", "pos">>)
<1> HIDE DEF s1, s2
<1>2. n = (IF "temp_STDDEV_GPSPos" \in K THEN 1 ELSE 0) + (IF "w" \in K THEN 1 ELSE 0)
  OBVIOUS
<1>3. Takes(s1, K, K \cup {"temp_STDDEV_GPSPos", "w"}, n)
  BY <1>1, <1>2, PairTakes DEF s1
<1>4. Takes(s2, K, K \cup {"temp_STDDEV_GPSPos", "w"}, n)
  BY <1>1, <1>3, Tuple3, ThenUses DEF s2
<1>5. QED BY <1>4 DEF FixScript, s1, s2

(* The direction is weighed with a w of its own, for which the one that the  *)
(* fix has left is lost.                                                    *)
LEMMA DirectionTakes ==
  ASSUME NEW M \in SUBSET Names, {"Ovel", "t", "qConj", "orgWorld"} \cap M = {},
         {"quat", "vel", "pos"} \subseteq M, NEW n \in Nat, n = IF "w" \in M THEN 1 ELSE 0
  PROVE  Takes(DirectionScript, M, M \ {"w"}, n)
<1>1. {"Ovel", "t", "qConj", "orgWorld", "w", "quat", "vel", "pos"} \subseteq Names
  BY DEF Names
<1> DEFINE s1 == News(<<"Ovel", "t">>)
           s2 == s1 \o <<Drop("Ovel")>>
           s3 == s2 \o News(<<"Ovel", "qConj">>)
           s4 == s3 \o <<Drop("t")>>
           s5 == s4 \o News(<<"t", "orgWorld">>)
           s6 == s5 \o Frees(<<"t", "qConj">>)
           s7 == s6 \o News(<<"t", "w">>)
           s8 == s7 \o Uses(<<"quat", "vel", "pos">>)
           s9 == s8 \o Frees(<<"t", "w", "orgWorld", "Ovel">>)
<1> HIDE DEF s1, s2, s3, s4, s5, s6, s7, s8, s9
<1>2. Takes(s1, M, M \cup {"Ovel", "t"}, 0)  BY <1>1, Tuple2, NewsTake DEF s1
<1>3. Takes(s2, M, M \cup {"t"}, 0)  BY <1>1, <1>2, ThenDrop DEF s2
<1>4. Takes(s3, M, M \cup {"t", "Ovel", "qConj"}, 0)  BY <1>1, <1>3, Tuple2, ThenNews DEF s3
<1>5. Takes(s4, M, M \cup {"Ovel", "qConj"}, 0)  BY <1>1, <1>4, ThenDrop DEF s4
<1>6. Takes(s5, M, M \cup {"Ovel", "qConj", "t", "orgWorld"}, 0)
  BY <1>1, <1>5, Tuple2, ThenNews DEF s5
<1>7. Takes(s6, M, M \cup {"Ovel", "orgWorld"}, 0)  BY <1>1, <1>6, Tuple2, ThenFrees DEF s6
<1>8. Takes(s7, M, M \cup {"Ovel", "orgWorld", "t", "w"}, n)
  <2> DEFINE K == M \cup {"Ovel", "orgWorld"}
  <2>1. K \in SUBSET Names /\ "t" \notin K /\ ("w" \in K <=> "w" \in M)  BY <1>1
  <2>2. Takes(News(<<"t", "w">>), K, K \cup {"t", "w"}, n)
    <3>1. n = (IF "t" \in K THEN 1 ELSE 0) + (IF "w" \in K THEN 1 ELSE 0)  BY <2>1
    <3> HIDE DEF K
    <3>2. QED BY <1>1, <2>1, <3>1, PairTakes
  <2>3. K \cup {"t", "w"} = M \cup {"Ovel", "orgWorld", "t", "w"} /\ 0 + n = n /\ 0 \in Nat
    OBVIOUS
  <2>4. Takes(s6, M, K, 0)  BY <1>7
  <2> HIDE DEF K
  <2>5. Takes(s6 \o News(<<"t", "w">>), M, K \cup {"t", "w"}, 0 + n)
    BY <2>2, <2>3, <2>4, Then
  <2>6. QED BY <2>3, <2>5 DEF s7
<1>9. Takes(s8, M, M \cup {"Ovel", "orgWorld", "t", "w"}, n)
  BY <1>1, <1>8, Tuple3, ThenUses DEF s8
<1>10. Takes(s9, M, M \ {"w"}, n)
  <2>1. M \ {"w"} = (M \cup {"Ovel", "orgWorld", "t", "w"}) \ {"t", "w", "orgWorld", "Ovel"}
    OBVIOUS
  <2>2. QED BY <1>1, <1>9, <2>1, Tuple4, ThenFrees DEF s9
<1>11. QED BY <1>10 DEF DirectionScript, s1, s2, s3, s4, s5, s6, s7, s8, s9

(* A fix that weighs the particles leaves temp_STDDEV_GPSPos, and loses the  *)
(* one of the fix before and a w.                                           *)
LEMMA GpsTakes ==
  ASSUME NEW L \in SUBSET Names, Kept(L)
  PROVE  /\ Takes(GpsScript(FALSE), L, L, 0)
         /\ Takes(GpsScript(TRUE), L, L \cup {"temp_STDDEV_GPSPos"},
                  IF "temp_STDDEV_GPSPos" \in L THEN 2 ELSE 1)
<1>1. /\ {"Opos", "t", "t1", "w", "Ovel", "qConj", "orgWorld"} \cap L = {}
      /\ {"STDDEV_GPSPos", "sData", "quat", "vel", "pos"} \subseteq L
      /\ {"Opos", "temp_STDDEV_GPSPos", "w", "STDDEV_GPSPos", "sData"} \subseteq Names
  BY DEF Kept, Held, Names
<1> DEFINE K == L \cup {"Opos"}
           s1 == Uses(<<"STDDEV_GPSPos", "sData">>)
           s2 == s1 \o <<New("Opos")>>
<1> HIDE DEF s1, s2
<1>2. Takes(s1, L, L, 0)  BY <1>1, Tuple2, UsesTake DEF s1
<1>3. Takes(s2, L, K, 0)  BY <1>1, <1>2, ThenNew DEF s2
<1>4. K \in SUBSET Names /\ 0 \in Nat /\ 0 + 0 = 0  BY <1>1
<1>5. Takes(GpsScript(FALSE), L, L, 0)
  <2>1. Takes(FixScript(FALSE), K, K, 0)  BY <1>1, <1>4, FirstFixTakes
  <2>2. Takes(s2 \o FixScript(FALSE), L, K, 0)
    <3> HIDE DEF K
    <3>1. Takes(s2 \o FixScript(FALSE), L, K, 0 + 0)  BY <1>3, <1>4, <2>1, Then
    <3>2. QED BY <1>4, <3>1
  <2>3. Takes(s2 \o FixScript(FALSE) \o <<Drop("Opos")>>, L, L, 0)
    <3>1. "Opos" \in K /\ L = K \ {"Opos"}  BY <1>1
    <3> HIDE DEF K
    <3>2. QED BY <1>4, <2>2, <3>1, ThenDrop
  <2>4. Takes(DirectionScript, L, L \ {"w"}, 0) /\ L \ {"w"} = L
    BY <1>1, <1>4, DirectionTakes
  <2>5. Takes(s2 \o FixScript(FALSE) \o <<Drop("Opos")>> \o DirectionScript, L, L, 0)
    BY <1>4, <2>3, <2>4, Then
  <2>6. QED BY <2>5 DEF GpsScript, s1, s2
<1>6. Takes(GpsScript(TRUE), L, L \cup {"temp_STDDEV_GPSPos"},
            IF "temp_STDDEV_GPSPos" \in L THEN 2 ELSE 1)
  <2> DEFINE n == IF "temp_STDDEV_GPSPos" \in L THEN 1 ELSE 0
             M == L \cup {"temp_STDDEV_GPSPos", "w"}
  <2>1. n \in Nat /\ 0 + n = n /\ n + 1 = IF "temp_STDDEV_GPSPos" \in L THEN 2 ELSE 1
    OBVIOUS
  <2>2. Takes(FixScript(TRUE), K, K \cup {"temp_STDDEV_GPSPos", "w"}, n)
    <3>1. n = (IF "temp_STDDEV_GPSPos" \in K THEN 1 ELSE 0) /\ "w" \notin K
          /\ {"quat", "vel", "pos"} \subseteq K
      BY <1>1
    <3> HIDE DEF K, n
    <3>2. QED BY <1>4, <2>1, <3>1, LaterFixTakes
  <2>3. Takes(s2 \o FixScript(TRUE), L, K \cup {"temp_STDDEV_GPSPos", "w"}, n)
    <3> HIDE DEF K, n
    <3>1. Takes(s2 \o FixScript(TRUE), L, K \cup {"temp_STDDEV_GPSPos", "w"}, 0 + n)
      BY <1>3, <1>4, <2>1, <2>2, Then
    <3>2. QED BY <2>1, <3>1
  <2>4. Takes(s2 \o FixScript(TRUE) \o <<Drop("Opos")>>, L, M, n)
    <3>1. "Opos" \in K \cup {"temp_STDDEV_GPSPos", "w"}
          /\ M = (K \cup {"temp_STDDEV_GPSPos", "w"}) \ {"Opos"}
      BY <1>1
    <3> HIDE DEF K, M, n
    <3>2. QED BY <2>1, <2>3, <3>1, ThenDrop
  <2>5. Takes(DirectionScript, M, L \cup {"temp_STDDEV_GPSPos"}, 1)
    <3>1. /\ M \in SUBSET Names /\ {"Ovel", "t", "qConj", "orgWorld"} \cap M = {}
          /\ {"quat", "vel", "pos"} \subseteq M /\ "w" \in M
          /\ M \ {"w"} = L \cup {"temp_STDDEV_GPSPos"} /\ 1 \in Nat
      BY <1>1
    <3> HIDE DEF M
    <3>2. QED BY <3>1, DirectionTakes
  <2> HIDE DEF M, n
  <2>6. Takes(s2 \o FixScript(TRUE) \o <<Drop("Opos")>> \o DirectionScript, L,
              L \cup {"temp_STDDEV_GPSPos"}, n + 1)
    BY <2>1, <2>4, <2>5, Then
  <2>7. QED BY <2>1, <2>6 DEF GpsScript, s1, s2
<1>7. QED BY <1>5, <1>6

-----------------------------------------------------------------------------
(* What a pass of the loop and the end do with what is held.                *)
LEMMA NothingTakes ==
  ASSUME NEW L \in SUBSET Names PROVE Takes(<< >>, L, L, 0)
<1>1. << >> \in Seq(Steps) /\ Len(<< >>) = 0  OBVIOUS
<1>2. ASSUME NEW h \in States, h.live = L
      PROVE  Run(h, << >>) = [live |-> L, lost |-> h.lost + 0, bad |-> h.bad]
  <2>1. h = [live |-> L, lost |-> h.lost + 0, bad |-> h.bad]  BY <1>2 DEF States
  <2>2. Run(h, << >>) = h  BY <1>1, HeapsStep DEF Run
  <2>3. QED BY <2>1, <2>2
<1>3. QED BY <1>1, <1>2 DEF Takes

LEMMA PassTakes ==
  ASSUME NEW L, Held \subseteq L, L \subseteq Held \cup {"temp_STDDEV_GPSPos"},
         NEW M, Held \subseteq M, M \subseteq Held \cup {"temp_STDDEV_GPSPos"},
         NEW s, NEW n \in Nat,
         Takes(s, L \cup {"sData", "start"}, M \cup {"sData", "start"}, n)
  PROVE  Takes(News(<<"sData", "start">>) \o s \o News(<<"endC", "elt">>)
                 \o Frees(<<"start", "endC", "elt", "sData">>), L, M, n)
<1>1. /\ {"sData", "start", "endC", "elt"} \cap L = {}
      /\ {"sData", "start", "endC", "elt"} \cap M = {}
      /\ L \in SUBSET Names /\ {"sData", "start", "endC", "elt"} \subseteq Names
  BY DEF Held, Names
<1>2. Takes(News(<<"sData", "start">>), L, L \cup {"sData", "start"}, 0)
  BY <1>1, Tuple2, NewsTake
<1>3. Takes(News(<<"sData", "start">>) \o s, L, M \cup {"sData", "start"}, n)
  <2>1. 0 \in Nat /\ 0 + n = n  OBVIOUS
  <2>2. QED BY <1>2, <2>1, Then
<1> DEFINE t == News(<<"sData", "start">>) \o s
           u == t \o News(<<"endC", "elt">>)
<1> HIDE DEF t, u
<1>4. Takes(u, L, M \cup {"sData", "start", "endC", "elt"}, n)
  <2>1. Takes(t, L, M \cup {"sData", "start"}, n)  BY <1>3 DEF t
  <2>2. QED BY <1>1, <2>1, Tuple2, ThenNews DEF u
<1>5. Takes(u \o Frees(<<"start", "endC", "elt", "sData">>), L, M, n)
  BY <1>1, <1>4, Tuple4, ThenFrees
<1>6. QED BY <1>5 DEF t, u

LEMMA CleanupTakes ==
  ASSUME NEW T, T \subseteq {"temp_STDDEV_GPSPos"} PROVE Takes(Cleanup, Held \cup T, T, 0)
<1> DEFINE xs == <<"STDDEV_GPSPos", "elapsed", "index", "sType", "isEOF", "fid", "resultMat",
                   "pos", "vel", "quat", "ones", "randW">>
<1>1. Held \subseteq Names /\ "temp_STDDEV_GPSPos" \in Names /\ "temp_STDDEV_GPSPos" \notin Held
  BY DEF Held, Names
<1>2. Apart(xs)  BY DEF Apart
<1>3. xs \in Seq(Names) /\ ToSet(xs) = Held
  <2>1. xs \in Seq(Held)  BY DEF Held
  <2>2. Len(xs) = 12 /\ DOMAIN xs = 1..12  OBVIOUS
  <2>3. ToSet(xs) \subseteq Held
    <3> HIDE DEF xs
    <3>1. QED BY <2>1 DEF ToSet
  <2>4. Held \subseteq ToSet(xs)
    <3>1. /\ xs[1] = "STDDEV_GPSPos" /\ xs[2] = "elapsed" /\ xs[3] = "index"
          /\ xs[4] = "sType" /\ xs[5] = "isEOF" /\ xs[6] = "fid" /\ xs[7] = "resultMat"
          /\ xs[8] = "pos" /\ xs[9] = "vel" /\ xs[10] = "quat" /\ xs[11] = "ones"
          /\ xs[12] = "randW"
      OBVIOUS
    <3>2. \A i \in 1..12 : xs[i] \in ToSet(xs)
      <4> HIDE DEF xs
      <4>1. QED BY <2>2 DEF ToSet
    <3> HIDE DEF xs
    <3>3. QED BY <3>1, <3>2 DEF Held
  <2>5. xs \in Seq(Names)
    <3> HIDE DEF xs
    <3>1. QED BY <1>1, <2>1
  <2>6. QED BY <2>3, <2>4, <2>5
<1> HIDE DEF xs
<1>4. T = (Held \cup T) \ Held /\ Held \cup T \in SUBSET Names  BY <1>1
<1>5. Takes(Frees(xs), Held \cup T, T, 0)
  BY <1>2, <1>3, <1>4, FreesTake DEF Distinct
<1>6. QED BY <1>5 DEF Cleanup, xs

(* The balance: what is held and what is lost follow from the number of     *)
(* fixes that have weighed the particles.                                   *)
Weighed == Occurrences(Gps) - (IF pos = "gps" THEN 1 ELSE 0)

Lost(n) == IF n = 0 THEN 0 ELSE 2 * n - 1
Left(n) == IF n = 0 THEN {} ELSE {"temp_STDDEV_GPSPos"}

Account(h, S, n) == ~h.bad /\ h.live = S \cup Left(n) /\ h.lost = Lost(n)

Balanced ==
  /\ heap \in States /\ Weighed \in Nat
  /\ pc = "start" => Account(heap, {}, 0) /\ Weighed = 0
  /\ pc \in {"loop", "finish"} => Account(heap, Held, Weighed)
  /\ pc = "end" => icount = 0 \/ Account(heap, {}, Weighed)

LEMMA TakesAway ==
  ASSUME NEW s, NEW A, NEW B, NEW n \in Nat, Takes(s, A, B, n),
         NEW h \in States, h.live = A, ~h.bad
  PROVE  /\ Run(h, s) \in States /\ ~Run(h, s).bad
         /\ Run(h, s).live = B /\ Run(h, s).lost = h.lost + n
BY RunStays DEF Takes

LEMMA InitBalanced == ASSUME LocalizationInit PROVE Balanced
<1>1. heap = [live |-> {}, lost |-> 0, bad |-> FALSE] /\ records = << >> /\ pos = "zero"
      /\ pc = "start"
  BY DEF LocalizationInit
<1>2. Occurrences(Gps) = 0
  <2>1. {k \in DOMAIN records : records[k] = Gps} = {}  BY <1>1
  <2>2. QED BY <2>1, FS_EmptySet DEF Occurrences
<1>3. Weighed = 0  BY <1>1, <1>2 DEF Weighed
<1>4. Account(heap, {}, 0)  BY <1>1 DEF Account, Lost, Left
<1>5. heap \in States  BY <1>1 DEF States
<1>6. QED BY <1>1, <1>3, <1>4, <1>5 DEF Balanced

LEMMA Scripts ==
  /\ Script(Gyro) = GyroScript /\ Script(Gps) = GpsScript(pos # "zero")
  /\ Script(Odometry) = OdometryScript /\ Script(Accelerometer) = AccelerometerScript
  /\ \A type : type \notin {Gyro, Gps, Odometry, Accelerometer} => Script(type) = << >>
<1>1. /\ Gyro # Gps /\ Gyro # Odometry /\ Gyro # Accelerometer
      /\ Gps # Odometry /\ Gps # Accelerometer /\ Odometry # Accelerometer
  BY DEF Gyro, Gps, Odometry, Accelerometer
<1>2. Script(Gyro) = GyroScript  BY <1>1, Zenon DEF Script
<1>3. Script(Gps) = GpsScript(pos # "zero")  BY <1>1, Zenon DEF Script
<1>4. Script(Odometry) = OdometryScript  BY <1>1, Zenon DEF Script
<1>5. Script(Accelerometer) = AccelerometerScript  BY <1>1, Zenon DEF Script
<1>6. \A type : type \notin {Gyro, Gps, Odometry, Accelerometer} => Script(type) = << >>
  BY DEF Script
<1>7. QED BY <1>2, <1>3, <1>4, <1>5, <1>6

(* What a record of a kind loses and what it leaves.                        *)
LEMMA ScriptTakes ==
  ASSUME NEW type \in Int, NEW m \in Nat, NEW n \in Nat,
         n = IF type = Gps /\ pos # "zero" THEN m + 1 ELSE m
  PROVE  Takes(Script(type), Held \cup Left(m) \cup {"sData", "start"},
               Held \cup Left(n) \cup {"sData", "start"}, Lost(n) - Lost(m))
         /\ Lost(n) - Lost(m) \in Nat
<1> DEFINE L == Held \cup Left(m) \cup {"sData", "start"}
<1>1. /\ L \in SUBSET Names /\ Kept(L)
      /\ "temp_STDDEV_GPSPos" \in L <=> m # 0
  BY DEF Held, Left, Names, Kept
<1>2. CASE type = Gps /\ pos # "zero"
  <2>1. Script(type) = GpsScript(TRUE)
    <3>1. Script(type) = GpsScript(pos # "zero")  BY <1>2, Scripts
    <3>2. (pos # "zero") = TRUE  BY <1>2
    <3>3. GpsScript(pos # "zero") = GpsScript(TRUE)  BY <3>2, Zenon
    <3>4. QED BY <3>1, <3>3
  <2>2. Held \cup Left(n) \cup {"sData", "start"} = L \cup {"temp_STDDEV_GPSPos"}
    BY <1>2 DEF Left
  <2>3. Lost(n) - Lost(m) = IF "temp_STDDEV_GPSPos" \in L THEN 2 ELSE 1
    <3> HIDE DEF L
    <3>1. QED BY <1>1, <1>2 DEF Lost
  <2> HIDE DEF L
  <2>4. Takes(GpsScript(TRUE), L, L \cup {"temp_STDDEV_GPSPos"},
              IF "temp_STDDEV_GPSPos" \in L THEN 2 ELSE 1)
    BY <1>1, GpsTakes
  <2>5. Lost(n) - Lost(m) \in Nat  BY <2>3
  <2>6. Takes(Script(type), L, Held \cup Left(n) \cup {"sData", "start"}, Lost(n) - Lost(m))
    BY <2>1, <2>2, <2>3, <2>4
  <2>7. QED BY <2>5, <2>6 DEF L
<1>3. CASE ~(type = Gps /\ pos # "zero")
  <2>1. n = m /\ Lost(n) - Lost(m) = 0 /\ 0 \in Nat  BY <1>3 DEF Lost
  <2> HIDE DEF L
  <2>2. Takes(Script(type), L, L, 0)
    <3>1. CASE type = Gyro
      <4>1. Script(type) = GyroScript  BY <3>1, Scripts
      <4>2. QED BY <1>1, <4>1, GyroTakes
    <3>2. CASE type = Gps
      <4>1. Script(type) = GpsScript(pos # "zero")  BY <3>2, Scripts
      <4>2. (pos # "zero") = FALSE  BY <1>3, <3>2
      <4>3. GpsScript(pos # "zero") = GpsScript(FALSE)  BY <4>2, Zenon
      <4>4. QED BY <1>1, <4>1, <4>3, GpsTakes
    <3>3. CASE type = Odometry
      <4>1. Script(type) = OdometryScript  BY <3>3, Scripts
      <4>2. QED BY <1>1, <4>1, OdometryTakes
    <3>4. CASE type = Accelerometer
      <4>1. Script(type) = AccelerometerScript
        BY <3>4, Scripts
      <4>2. QED BY <1>1, <4>1, AccelerometerTakes
    <3>5. CASE type \notin {Gyro, Gps, Odometry, Accelerometer}
      <4>1. Script(type) = << >>  BY <3>5, Scripts
      <4>2. QED BY <1>1, <4>1, NothingTakes
    <3>6. QED BY <3>1, <3>2, <3>3, <3>4, <3>5
  <2>3. QED BY <2>1, <2>2 DEF L
<1>4. QED BY <1>2, <1>3

(* A pass of the loop keeps the account.                                    *)
LEMMA AccountPass ==
  ASSUME NEW type \in Int, NEW m \in Nat, NEW n \in Nat,
         n = (IF type = Gps /\ pos # "zero" THEN m + 1 ELSE m),
         NEW h \in States, Account(h, Held, m), NEW g,
         g = Run(h, News(<<"sData", "start">>) \o Script(type) \o News(<<"endC", "elt">>)
                      \o Frees(<<"start", "endC", "elt", "sData">>))
  PROVE  g \in States /\ Account(g, Held, n)
<1> DEFINE L == Held \cup Left(m)
           M == Held \cup Left(n)
           k == Lost(n) - Lost(m)
<1>1. /\ Held \subseteq L /\ L \subseteq Held \cup {"temp_STDDEV_GPSPos"}
      /\ Held \subseteq M /\ M \subseteq Held \cup {"temp_STDDEV_GPSPos"}
  BY DEF Left
<1>2. Takes(Script(type), L \cup {"sData", "start"}, M \cup {"sData", "start"}, k) /\ k \in Nat
  BY ScriptTakes
<1>3. h.live = L /\ h.lost = Lost(m) /\ ~h.bad  BY DEF Account
<1>4. Lost(m) \in Nat /\ Lost(n) \in Nat /\ Lost(m) + k = Lost(n)  BY DEF Lost
<1> HIDE DEF L, M, k
<1>5. Takes(News(<<"sData", "start">>) \o Script(type) \o News(<<"endC", "elt">>)
              \o Frees(<<"start", "endC", "elt", "sData">>), L, M, k)
  BY <1>1, <1>2, PassTakes
<1>6. g \in States /\ ~g.bad /\ g.live = M /\ g.lost = h.lost + k
  BY <1>2, <1>3, <1>5, TakesAway
<1>7. QED BY <1>3, <1>4, <1>6 DEF Account, M

LEMMA BalancedStep ==
  ASSUME Reading, Balanced, [LocalizationNext]_lvars PROVE Balanced'
<1>1. Occurrences(Gps) \in Nat  BY OccurrencesCount DEF Reading
<1>2. CASE readFile
  <2>1. /\ pc = "start" /\ UNCHANGED <<records, pos, icount>>
        /\ \/ pc' = "loop" /\ heap' = Run(heap, Setup)
           \/ pc' = "end" /\ heap' = [heap EXCEPT !.bad = TRUE]
    BY <1>2 DEF readFile
  <2>2. icount = 0  BY <2>1 DEF Reading, Columns
  <2>3. Weighed' = 0 /\ heap \in States /\ Account(heap, {}, 0)
    BY <2>1 DEF Balanced, Weighed, Occurrences
  <2>4. CASE pc' = "loop" /\ heap' = Run(heap, Setup)
    <3>1. heap.live = {} /\ heap.lost = 0 /\ ~heap.bad  BY <2>3 DEF Account, Left, Lost
    <3>2. heap' \in States /\ ~heap'.bad /\ heap'.live = Held /\ heap'.lost = 0
      BY <2>3, <2>4, <3>1, SetupTakes, TakesAway
    <3>3. Account(heap', Held, Weighed')  BY <2>3, <3>2 DEF Account, Left, Lost
    <3>4. QED BY <2>3, <2>4, <3>2, <3>3 DEF Balanced
  <2>5. CASE pc' = "end" /\ heap' = [heap EXCEPT !.bad = TRUE]
    <3>1. heap' \in States  BY <2>3, <2>5 DEF States
    <3>2. QED BY <2>1, <2>2, <2>3, <2>5, <3>1 DEF Balanced
  <2>6. QED BY <2>1, <2>4, <2>5
<1>3. CASE Record
  <2> DEFINE type == readSensorData.type
  <2>1. /\ pc = "loop" /\ pc' \in {"loop", "finish"} /\ pos' = Moved(pos, type)
        /\ heap' = Run(heap, News(<<"sData", "start">>) \o Script(type)
                               \o News(<<"endC", "elt">>)
                               \o Frees(<<"start", "endC", "elt", "sData">>))
    BY <1>3 DEF Record
  <2>2. heap \in States /\ Weighed \in Nat /\ Account(heap, Held, Weighed)
    BY <2>1 DEF Balanced
  <2>3. /\ type \in Int
        /\ Weighed' = IF type = Gps /\ pos # "zero" THEN Weighed + 1 ELSE Weighed
    <3>1. CASE UNCHANGED records /\ type = -1
      <4>1. pos' = pos  BY <2>1, <3>1 DEF Moved, Gps, Accelerometer
      <4>2. type # Gps /\ type \in Int  BY <3>1 DEF Gps
      <4>3. Weighed' = Weighed  BY <3>1, <4>1 DEF Weighed, Occurrences
      <4>4. QED BY <4>2, <4>3
    <3>2. CASE type \in Int /\ records' = Append(records, type)
      <4> HIDE DEF type
      <4>1. Occurrences(Gps)' = Occurrences(Gps) + (IF type = Gps THEN 1 ELSE 0)
        BY <3>2, OccurrencesGrow DEF Reading
      <4>2. CASE type = Gps
        <5>1. pos' = IF pos = "zero" THEN "gps" ELSE pos
          BY <2>1, <4>2 DEF Moved, Gps, Accelerometer
        <5>2. QED BY <1>1, <3>2, <4>1, <4>2, <5>1 DEF Weighed
      <4>3. CASE type # Gps
        <5>1. pos' = "gps" <=> pos = "gps"  BY <2>1, <4>3 DEF Moved, Gps, Accelerometer
        <5>2. QED BY <1>1, <3>2, <4>1, <4>3, <5>1 DEF Weighed
      <4>4. QED BY <4>2, <4>3
    <3>3. QED BY <1>3, <3>1, <3>2, RecordReads DEF Reading, Rows
  <2>4. Weighed' \in Nat  BY <2>2, <2>3
  <2> HIDE DEF type
  <2>5. heap' \in States /\ Account(heap', Held, Weighed')
    <3> DEFINE m == Weighed
               n == Weighed'
               g == heap'
    <3>1. /\ m \in Nat /\ n \in Nat /\ Account(heap, Held, m)
          /\ n = IF type = Gps /\ pos # "zero" THEN m + 1 ELSE m
      BY <2>2, <2>3, <2>4
    <3>2. g = Run(heap, News(<<"sData", "start">>) \o Script(type) \o News(<<"endC", "elt">>)
                          \o Frees(<<"start", "endC", "elt", "sData">>))
      BY <2>1
    <3> HIDE DEF m, n, g
    <3>3. g \in States /\ Account(g, Held, n)
      BY <2>2, <2>3, <3>1, <3>2, AccountPass
    <3>4. QED BY <3>3 DEF g, n
  <2>6. QED BY <2>1, <2>4, <2>5 DEF Balanced
<1>4. CASE Finish
  <2>1. /\ pc = "finish" /\ pc' = "end" /\ UNCHANGED <<records, pos>>
        /\ heap' = Run(heap, Cleanup)
    BY <1>4 DEF Finish
  <2>2. heap \in States /\ Weighed \in Nat /\ Account(heap, Held, Weighed)
        /\ Weighed' = Weighed
    BY <2>1 DEF Balanced, Weighed, Occurrences
  <2>3. Takes(Cleanup, Held \cup Left(Weighed), Left(Weighed), 0)
    BY CleanupTakes DEF Left
  <2>4. /\ heap.live = Held \cup Left(Weighed) /\ ~heap.bad /\ heap.lost = Lost(Weighed)
        /\ Lost(Weighed) \in Nat
    BY <2>2 DEF Account, Lost
  <2>5. heap' \in States /\ ~heap'.bad /\ heap'.live = Left(Weighed)
        /\ heap'.lost = Lost(Weighed)
    <3> DEFINE A == Held \cup Left(Weighed)
               B == Left(Weighed)
               k == Lost(Weighed)
    <3>1. Takes(Cleanup, A, B, 0) /\ heap.live = A /\ heap.lost = k /\ k \in Nat
      BY <2>3, <2>4
    <3>2. heap' = Run(heap, Cleanup) /\ 0 \in Nat /\ k + 0 = k  BY <2>1, <3>1
    <3> HIDE DEF A, B, k
    <3>3. /\ Run(heap, Cleanup) \in States /\ ~Run(heap, Cleanup).bad
          /\ Run(heap, Cleanup).live = B /\ Run(heap, Cleanup).lost = k + 0
      BY <2>2, <2>4, <3>1, <3>2, TakesAway
    <3>4. heap' \in States /\ ~heap'.bad /\ heap'.live = B /\ heap'.lost = k
      BY <3>2, <3>3
    <3>5. QED BY <3>4 DEF B, k
  <2>6. Account(heap', {}, Weighed')  BY <2>2, <2>5 DEF Account
  <2>7. QED BY <2>1, <2>2, <2>5, <2>6 DEF Balanced
<1>5. CASE UNCHANGED lvars
  BY <1>5 DEF lvars, Balanced, Weighed, Occurrences
<1>6. QED BY <1>2, <1>3, <1>4, <1>5 DEF LocalizationNext

(* For every file, whatever the records and their order: no matrix is freed  *)
(* twice or used after it was freed, and what is lost is exactly two for     *)
(* each fix but the one that placed the particles, one of them still being   *)
(* held at the end (script_localization.c:75-479).                          *)
THEOREM MatricesBalance == LocalizationSpec => []HandlesBalance
<1>1. LocalizationInit => Reading /\ Balanced  BY InitReading, InitBalanced
<1>2. Reading /\ Balanced /\ [LocalizationNext]_lvars => Reading' /\ Balanced'
  BY ReadingStep, BalancedStep
<1>3. Balanced => HandlesBalance
  <2>1. SUFFICES ASSUME Balanced, pc \in {"loop", "finish", "end"}, icount > 0
                 PROVE  /\ ~heap.bad /\ heap.lost = Lost(Weighed)
                        /\ pc = "end" => heap.live = Left(Weighed)
    BY DEF HandlesBalance, Weighed, Lost, Left
  <2>2. QED BY <2>1 DEF Balanced, Account
<1>4. QED BY <1>1, <1>2, <1>3, PTL DEF LocalizationSpec

-----------------------------------------------------------------------------
(* Sorting: what Select takes is the greatest.                              *)
Best(v, i) ==
  LET greater == {j \in DOMAIN v : v[j] > v[i]} IN
  IF greater = {} THEN i ELSE Min({j \in greater : \A k \in greater : v[k] <= v[j]})

LEMMA GreatestOf ==
  ASSUME NEW n \in Nat, NEW v \in [1..n -> Int], NEW S \in SUBSET (1..n), S # {}
  PROVE  \E j \in S : \A k \in S : v[k] <= v[j]
<1> DEFINE Upto(m) == {j \in S : j <= m}
           T == {m \in 0..n : Upto(m) # {} => \E j \in Upto(m) : \A k \in Upto(m) : v[k] <= v[j]}
<1>0. \A j \in S : j \in Nat /\ 1 <= j /\ j <= n  OBVIOUS
<1>1. 0 \in T
  <2>1. \A j \in S : ~(j <= 0)  BY <1>0
  <2>2. Upto(0) = {}  BY <2>1
  <2>3. QED BY <2>2
<1>2. ASSUME NEW m \in 0..(n - 1), m \in T PROVE m + 1 \in T
  <2>1. m + 1 \in 1..n /\ m + 1 \in 0..n  BY <1>2
  <2>2. CASE m + 1 \notin S
    <3>1. Upto(m + 1) = Upto(m)
      <4>1. \A j \in S : j <= m + 1 <=> j <= m  BY <1>0, <2>2
      <4>2. QED BY <4>1
    <3> HIDE DEF Upto
    <3>2. QED BY <1>2, <2>1, <3>1
  <2>3. CASE m + 1 \in S
    <3>1. Upto(m + 1) = Upto(m) \cup {m + 1}
      <4>1. \A j \in S : j <= m + 1 <=> j <= m \/ j = m + 1  BY <1>0
      <4>2. QED BY <2>3, <4>1
    <3>2. CASE Upto(m) = {}
      <4>1. Upto(m + 1) = {m + 1} /\ v[m + 1] \in Int  BY <2>1, <3>1, <3>2
      <4> HIDE DEF Upto
      <4>2. QED BY <2>1, <4>1
    <3>3. CASE Upto(m) # {}
      <4>1. PICK j \in Upto(m) : \A k \in Upto(m) : v[k] <= v[j]  BY <1>2, <3>3
      <4>2. v[m + 1] \in Int /\ v[j] \in Int /\ \A k \in Upto(m) : v[k] \in Int  BY <2>1
      <4> HIDE DEF Upto
      <4>3. CASE v[m + 1] <= v[j]
        <5>1. \A k \in Upto(m + 1) : v[k] <= v[j]  BY <3>1, <4>1, <4>3
        <5>2. j \in Upto(m + 1)  BY <3>1
        <5>3. QED BY <2>1, <5>1, <5>2
      <4>4. CASE v[j] < v[m + 1]
        <5>1. \A k \in Upto(m + 1) : v[k] <= v[m + 1]  BY <3>1, <4>1, <4>2, <4>4
        <5>2. m + 1 \in Upto(m + 1)  BY <3>1
        <5>3. QED BY <2>1, <5>1, <5>2
      <4>5. QED BY <4>2, <4>3, <4>4
    <3>4. QED BY <3>2, <3>3
  <2>4. QED BY <2>2, <2>3
<1>3. \A m \in 0..n : m \in T
  <2> HIDE DEF T
  <2>1. QED BY <1>1, <1>2, BoundedInduction
<1>4. Upto(n) = S
  <2>1. \A j \in S : j <= n  BY <1>0
  <2>2. QED BY <2>1
<1>5. n \in 0..n  OBVIOUS
<1> HIDE DEF Upto
<1>6. QED BY <1>3, <1>4, <1>5

LEMMA BestIsGreatest ==
  ASSUME NEW n \in Nat, NEW v \in [1..n -> Int], NEW i \in 1..n
  PROVE  Best(v, i) \in 1..n /\ \A j \in 1..n : v[j] <= v[Best(v, i)]
<1> DEFINE greater == {j \in 1..n : v[j] > v[i]}
           G == {j \in greater : \A k \in greater : v[k] <= v[j]}
<1>1. Best(v, i) = IF greater = {} THEN i ELSE CHOOSE x \in G : \A y \in G : x <= y
  BY DEF Best, Min
<1>2. \A j \in 1..n : v[j] \in Int  OBVIOUS
<1>3. CASE greater = {}
  <2>1. \A j \in 1..n : v[j] <= v[i]  BY <1>2, <1>3
  <2>2. QED BY <1>1, <1>3, <2>1
<1>4. CASE greater # {}
  <2>1. \E j \in greater : \A k \in greater : v[k] <= v[j]
    <3>1. greater \in SUBSET (1..n)  OBVIOUS
    <3> HIDE DEF greater
    <3>2. QED BY <1>4, <3>1, GreatestOf
  <2>2. G # {} /\ G \subseteq Nat /\ G \subseteq 1..n  BY <2>1
  <2>3. \A j \in G : v[j] > v[i] /\ \A k \in greater : v[k] <= v[j]  OBVIOUS
  <2>4. \A k \in 1..n : k \in greater \/ v[k] <= v[i]  BY <1>2
  <2> DEFINE b == CHOOSE x \in G : \A y \in G : x <= y
  <2> HIDE DEF G, greater
  <2>5. \E x \in G : \A y \in G : x <= y  BY <2>2, Least
  <2>6. b \in G  BY <2>5
  <2>7. Best(v, i) = b  BY <1>1, <1>4
  <2> HIDE DEF b
  <2>8. \A k \in 1..n : v[k] <= v[b]
    <3>1. b \in 1..n /\ v[b] > v[i]  BY <2>2, <2>3, <2>6
    <3>2. ASSUME NEW k \in 1..n PROVE v[k] <= v[b]
      <4>1. v[k] \in Int /\ v[b] \in Int /\ v[i] \in Int  BY <1>2, <3>1
      <4>2. CASE k \in greater  BY <2>3, <2>6, <4>2
      <4>3. CASE v[k] <= v[i]  BY <3>1, <4>1, <4>3
      <4>4. QED BY <2>4, <4>2, <4>3
    <3>3. QED BY <3>2
  <2>9. QED BY <2>2, <2>6, <2>7, <2>8
<1>5. QED BY <1>3, <1>4

Walks(n) == [in : [1..n -> Int], ind : Seq(1..n)]

LEMMA SelectShape ==
  ASSUME NEW n \in Nat, NEW walk \in Walks(n), NEW i \in 1..n
  PROVE  /\ Select(walk, i) \in Walks(n)
         /\ Select(walk, i).in = [walk.in EXCEPT ![Best(walk.in, i)] = 0]
         /\ Select(walk, i).ind = Append(walk.ind, Best(walk.in, i))
<1> DEFINE b == Best(walk.in, i)
<1>1. walk.in \in [1..n -> Int] /\ walk.ind \in Seq(1..n)  BY DEF Walks
<1>2. b \in 1..n  BY <1>1, BestIsGreatest
<1>3. Select(walk, i) = [in |-> [walk.in EXCEPT ![b] = 0], ind |-> Append(walk.ind, b)]
  BY DEF Select, TakenToZero, Best
<1> HIDE DEF b
<1>4. [walk.in EXCEPT ![b] = 0] \in [1..n -> Int] /\ Append(walk.ind, b) \in Seq(1..n)
  BY <1>1, <1>2
<1>5. QED BY <1>3, <1>4 DEF Walks, b

LEMMA SortingSteps ==
  ASSUME NEW v \in Seq(Int), NEW n, n = Len(v)
  PROVE  /\ Sorting(v) \in [0..n -> Walks(n)]
         /\ Sorting(v)[0] = [in |-> v, ind |-> << >>]
         /\ \A i \in 1..n : Sorting(v)[i] = Select(Sorting(v)[i - 1], i)
<1> DEFINE a == [in |-> v, ind |-> << >>]
           Body(g) == [i \in 0..n |-> IF i = 0 THEN a ELSE Select(g[i - 1], i)]
           G == [p \in Walks(n) \X (1..n) |-> Select(p[1], p[2])]
<1>1. n \in Nat /\ \A i \in 1..n : i - 1 \in 0..n  OBVIOUS
<1>2. a \in Walks(n)
  <2>1. v \in [1..n -> Int] /\ << >> \in Seq(1..n)  OBVIOUS
  <2>2. QED BY <2>1 DEF Walks
<1>3. \A w \in Walks(n), i \in 1..n : G[<<w, i>>] = Select(w, i) /\ G[<<w, i>>] \in Walks(n)
  BY <1>1, SelectShape
<1> HIDE DEF a
<1>4. \E g \in [0..n -> Walks(n)] : g = Body(g)
  <2>1. PICK g \in [0..n -> Walks(n)] : Runs(g, n, a, G)
    <3> HIDE DEF G
    <3>1. Stays(n, Walks(n), G)  BY <1>3 DEF Stays
    <3>2. QED BY <1>1, <1>2, <3>1, Loop
  <2>2. \A i \in 1..n : g[i] = Select(g[i - 1], i)
    <3> HIDE DEF G
    <3>1. QED BY <1>1, <1>3, <2>1 DEF Runs
  <2>3. g = Body(g)
    <3> HIDE DEF G
    <3>1. g = [i \in 0..n |-> g[i]]  BY <2>1
    <3>2. \A i \in 0..n : g[i] = IF i = 0 THEN a ELSE Select(g[i - 1], i)
      <4>1. \A i \in 0..n : i # 0 => i \in 1..n  BY <1>1
      <4>2. QED BY <2>1, <2>2, <4>1 DEF Runs
    <3>3. QED BY <3>1, <3>2
  <2>4. QED BY <2>3
<1>5. Sorting(v) = CHOOSE g : g = Body(g)  BY DEF Sorting, a
<1>6. Sorting(v) = Body(Sorting(v))
  <2> HIDE DEF Body
  <2>1. QED BY <1>4, <1>5
<1> DEFINE w == Sorting(v)
<1>7. w[0] = a /\ \A i \in 1..n : w[i] = Select(w[i - 1], i)
  <2>1. \A i \in 0..n : w[i] = IF i = 0 THEN a ELSE Select(w[i - 1], i)
    <3> HIDE DEF w
    <3>1. w = Body(w)  BY <1>6 DEF w
    <3>2. QED BY <3>1
  <2>2. QED BY <1>1, <2>1
<1>8. w \in [0..n -> Walks(n)]
  <2>1. w = [i \in 0..n |-> w[i]]  BY <1>6
  <2>2. \A i \in 0..n : w[i] \in Walks(n)
    <3> DEFINE T == {i \in 0..n : w[i] \in Walks(n)}
    <3> HIDE DEF w
    <3>1. 0 \in T  BY <1>1, <1>2, <1>7
    <3>2. ASSUME NEW i \in 0..(n - 1), i \in T PROVE i + 1 \in T
      <4>1. i + 1 \in 1..n /\ (i + 1) - 1 = i  BY <1>1, <3>2
      <4>2. w[i] \in Walks(n) /\ w[i + 1] = Select(w[i], i + 1)  BY <1>7, <3>2, <4>1
      <4>3. w[i + 1] \in Walks(n)  BY <1>3, <4>1, <4>2
      <4>4. QED BY <1>1, <4>1, <4>3
    <3> HIDE DEF T
    <3>3. \A i \in 0..n : i \in T  BY <1>1, <3>1, <3>2, BoundedInduction
    <3>4. QED BY <3>3 DEF T
  <2> HIDE DEF w
  <2>3. QED BY <2>1, <2>2
<1>9. QED BY <1>7, <1>8 DEF a

Positive(v)  == {i \in DOMAIN v : v[i] > 0}
Taken(walk)  == {walk.ind[m] : m \in DOMAIN walk.ind}

(* After k places: what was taken is zero, the rest is as it was.  As long  *)
(* as there are positive elements, they are taken, in falling order.        *)
Chosen(v, walk, k) ==
  /\ Len(walk.ind) = k
  /\ \A j \in DOMAIN v : walk.in[j] = IF j \in Taken(walk) THEN 0 ELSE v[j]
  /\ k <= Cardinality(Positive(v)) =>
       Taken(walk) \subseteq Positive(v) /\ Cardinality(Taken(walk)) = k
  /\ k > Cardinality(Positive(v)) => Positive(v) \subseteq Taken(walk)
  /\ \A m \in 1..k : m <= Cardinality(Positive(v)) =>
       /\ v[walk.ind[m]] > 0
       /\ \A l \in 1..(m - 1) : walk.ind[l] # walk.ind[m] /\ v[walk.ind[l]] >= v[walk.ind[m]]
       /\ \A j \in DOMAIN v \ Taken(walk) : v[j] <= v[walk.ind[m]]

LEMMA PositiveFinite ==
  ASSUME NEW v \in Seq(Int)
  PROVE  /\ IsFiniteSet(Positive(v)) /\ Cardinality(Positive(v)) \in 0..Len(v)
<1> DEFINE n == Len(v)
           P == Positive(v)
<1>1. n \in Nat /\ DOMAIN v = 1..n  OBVIOUS
<1>2. IsFiniteSet(1..n) /\ Cardinality(1..n) = n
  <2>1. n \in Int /\ 1 \in Int /\ n >= 0  BY <1>1
  <2> HIDE DEF n
  <2>2. IsFiniteSet(1..n) /\ Cardinality(1..n) = IF 1 > n THEN 0 ELSE n - 1 + 1
    BY <2>1, FS_Interval
  <2>3. QED BY <2>1, <2>2
<1>3. P \in SUBSET (1..n)  BY <1>1 DEF Positive
<1> HIDE DEF n, P
<1>4. IsFiniteSet(P) /\ Cardinality(P) <= n  BY <1>2, <1>3, FS_Subset
<1>5. Cardinality(P) \in Nat  BY <1>4, FS_CardinalityType
<1>6. QED BY <1>1, <1>4, <1>5 DEF n, P

LEMMA ChosenStep ==
  ASSUME NEW v \in Seq(Int), NEW n, n = Len(v), NEW k \in 0..(n - 1),
         NEW walk \in Walks(n), Chosen(v, walk, k)
  PROVE  Chosen(v, Select(walk, k + 1), k + 1)
<1> DEFINE c == Cardinality(Positive(v))
           P == Positive(v)
           t == Taken(walk)
           in == walk.in
           ind == walk.ind
           b == Best(in, k + 1)
           next == Select(walk, k + 1)
<1>1. /\ n \in Nat /\ DOMAIN v = 1..n /\ k + 1 \in 1..n /\ k \in Nat /\ v \in [1..n -> Int]
      /\ IsFiniteSet(P) /\ c \in Nat
  BY PositiveFinite
<1>2. in \in [1..n -> Int] /\ ind \in Seq(1..n) /\ Len(ind) = k /\ DOMAIN ind = 1..k
  <2>1. in \in [1..n -> Int] /\ ind \in Seq(1..n) /\ Len(ind) = k  BY DEF Walks, Chosen
  <2> HIDE DEF ind
  <2>2. QED BY <2>1
<1>3. b \in 1..n /\ \A j \in 1..n : in[j] <= in[b]  BY <1>1, <1>2, BestIsGreatest
<1>4. /\ \A j \in 1..n : in[j] = IF j \in t THEN 0 ELSE v[j]
      /\ k <= c => t \subseteq P /\ Cardinality(t) = k
      /\ k > c => P \subseteq t
      /\ \A m \in 1..k : m <= c =>
           /\ v[ind[m]] > 0
           /\ \A l \in 1..(m - 1) : ind[l] # ind[m] /\ v[ind[l]] >= v[ind[m]]
           /\ \A j \in (1..n) \ t : v[j] <= v[ind[m]]
  BY <1>1 DEF Chosen
<1>5. next \in Walks(n) /\ next.in = [in EXCEPT ![b] = 0] /\ next.ind = Append(ind, b)
  <2> DEFINE i == k + 1
  <2>1. n \in Nat /\ i \in 1..n  BY <1>1
  <2> HIDE DEF i
  <2>2. /\ Select(walk, i) \in Walks(n)
        /\ Select(walk, i).in = [walk.in EXCEPT ![Best(walk.in, i)] = 0]
        /\ Select(walk, i).ind = Append(walk.ind, Best(walk.in, i))
    BY <2>1, SelectShape
  <2>3. QED BY <2>2 DEF i
<1>6. t = {ind[m] : m \in 1..k}  BY <1>2 DEF Taken
<1> HIDE DEF next, b, in, ind, P, c, t
<1>7. /\ Len(next.ind) = k + 1 /\ DOMAIN next.ind = 1..(k + 1) /\ next.ind[k + 1] = b
      /\ \A m \in 1..k : next.ind[m] = ind[m]
  BY <1>1, <1>2, <1>3, <1>5
<1>8. Taken(next) = t \cup {b}
  <2>1. \A m \in 1..(k + 1) : m \in 1..k \/ m = k + 1  BY <1>1
  <2>2. k + 1 \in 1..(k + 1) /\ \A m \in 1..k : m \in 1..(k + 1)  BY <1>1
  <2>3. Taken(next) = {next.ind[m] : m \in 1..(k + 1)}  BY <1>7 DEF Taken
  <2>4. QED BY <1>6, <1>7, <2>1, <2>2, <2>3
<1>9. \A j \in 1..n : next.in[j] = IF j \in t \cup {b} THEN 0 ELSE v[j]
  BY <1>2, <1>3, <1>4, <1>5
<1>10. \A m \in 1..k : ind[m] \in t  BY <1>6
<1>11. \A m \in 1..k : m <= c =>
         /\ v[next.ind[m]] > 0
         /\ \A l \in 1..(m - 1) : next.ind[l] # next.ind[m] /\ v[next.ind[l]] >= v[next.ind[m]]
         /\ \A j \in (1..n) \ (t \cup {b}) : v[j] <= v[next.ind[m]]
  <2>1. \A m \in 1..k : \A l \in 1..(m - 1) : l \in 1..k  BY <1>1
  <2>2. \A j \in (1..n) \ (t \cup {b}) : j \in (1..n) \ t  OBVIOUS
  <2>3. QED BY <1>4, <1>7, <2>1, <2>2
<1> DEFINE Grown == (k + 1 <= c => Taken(next) \subseteq P /\ Cardinality(Taken(next)) = k + 1)
                    /\ (k + 1 > c => P \subseteq Taken(next))
           Falling == \A m \in 1..(k + 1) : m <= c =>
             /\ v[next.ind[m]] > 0
             /\ \A l \in 1..(m - 1) : next.ind[l] # next.ind[m] /\ v[next.ind[l]] >= v[next.ind[m]]
             /\ \A j \in (1..n) \ Taken(next) : v[j] <= v[next.ind[m]]
<1>12. ASSUME k + 1 <= c PROVE Grown /\ Falling
  <2>1. k <= c /\ k < c /\ ~(k + 1 > c) /\ ~(k > c)  BY <1>1, <1>12
  <2>2. t \subseteq P /\ Cardinality(t) = k  BY <1>4, <2>1
  <2>3. PICK p \in P : p \notin t
    <3>1. ASSUME P \subseteq t PROVE FALSE
      <4>1. Cardinality(P) = k  BY <2>2, <3>1
      <4>2. QED BY <1>1, <2>1, <4>1 DEF c, P
    <3>2. QED BY <3>1
  <2>4. p \in 1..n /\ v[p] > 0  BY <1>1, <2>3 DEF P, Positive
  <2>5. in[b] > 0 /\ b \notin t /\ in[b] = v[b]
    <3>1. in[p] = v[p] /\ in[p] <= in[b] /\ in[p] \in Int /\ in[b] \in Int
      BY <1>2, <1>3, <1>4, <2>3, <2>4
    <3>2. in[b] > 0  BY <2>4, <3>1
    <3>3. b \notin t  BY <1>3, <1>4, <3>2
    <3>4. QED BY <1>3, <1>4, <3>2, <3>3
  <2>6. b \in P  BY <1>1, <1>3, <2>5 DEF P, Positive
  <2>7. t \cup {b} \subseteq P /\ Cardinality(t \cup {b}) = k + 1
    <3>1. IsFiniteSet(t)  BY <1>1, <2>2, FS_Subset
    <3>2. Cardinality(t \cup {b}) = Cardinality(t) + 1  BY <2>5, <3>1, FS_AddElement
    <3>3. QED BY <2>2, <2>6, <3>2
  <2>8. /\ v[b] > 0
        /\ \A l \in 1..((k + 1) - 1) : next.ind[l] # b /\ v[next.ind[l]] >= v[b]
        /\ \A j \in (1..n) \ (t \cup {b}) : v[j] <= v[b]
    <3>1. v[b] > 0  BY <2>5
    <3>2. ASSUME NEW l \in 1..((k + 1) - 1) PROVE next.ind[l] # b /\ v[next.ind[l]] >= v[b]
      <4>1. l \in 1..k /\ l <= c  BY <1>1, <2>1
      <4>2. next.ind[l] = ind[l] /\ ind[l] \in t  BY <1>7, <1>10, <4>1
      <4>3. v[b] <= v[ind[l]]  BY <1>3, <1>4, <2>5, <4>1
      <4>4. v[b] \in Int /\ v[ind[l]] \in Int
        <5>1. ind[l] \in 1..n  BY <1>2, <4>1
        <5>2. QED BY <1>1, <1>3, <5>1
      <4>5. QED BY <2>5, <4>2, <4>3, <4>4
    <3>3. ASSUME NEW j \in (1..n) \ (t \cup {b}) PROVE v[j] <= v[b]
      <4>1. in[j] = v[j] /\ in[j] <= in[b]  BY <1>3, <1>4
      <4>2. QED BY <2>5, <4>1
    <3>4. QED BY <3>1, <3>2, <3>3
  <2>9. \A m \in 1..(k + 1) : m <= c =>
         /\ v[next.ind[m]] > 0
         /\ \A l \in 1..(m - 1) : next.ind[l] # next.ind[m] /\ v[next.ind[l]] >= v[next.ind[m]]
         /\ \A j \in (1..n) \ (t \cup {b}) : v[j] <= v[next.ind[m]]
    <3>1. \A m \in 1..(k + 1) : m \in 1..k \/ m = k + 1  BY <1>1
    <3>2. QED BY <1>7, <1>11, <2>8, <3>1
  <2>10. Grown  BY <1>8, <1>12, <2>1, <2>7
  <2>11. Falling  BY <1>8, <2>9
  <2>12. QED BY <2>10, <2>11
<1>13. ASSUME k + 1 > c PROVE Grown /\ Falling
  <2>1. ~(k + 1 <= c) /\ c <= k  BY <1>1, <1>13
  <2>2. P \subseteq t
    <3>1. CASE k > c  BY <1>4, <3>1
    <3>2. CASE ~(k > c)
      <4>1. k = c /\ k <= c  BY <1>1, <2>1, <3>2
      <4>2. t \subseteq P /\ Cardinality(t) = Cardinality(P)  BY <1>4, <4>1 DEF c, P
      <4>3. P = t  BY <1>1, <4>2, FS_Subset
      <4>4. QED BY <4>3
    <3>3. QED BY <3>1, <3>2
  <2>3. P \subseteq t \cup {b}  BY <2>2
  <2>4. \A m \in 1..(k + 1) : m <= c => m \in 1..k  BY <1>1, <2>1
  <2>5. \A m \in 1..(k + 1) : m <= c =>
         /\ v[next.ind[m]] > 0
         /\ \A l \in 1..(m - 1) : next.ind[l] # next.ind[m] /\ v[next.ind[l]] >= v[next.ind[m]]
         /\ \A j \in (1..n) \ (t \cup {b}) : v[j] <= v[next.ind[m]]
    BY <1>11, <2>4
  <2>6. Grown  BY <1>8, <2>1, <2>3
  <2>7. Falling  BY <1>8, <2>5
  <2>8. QED BY <2>6, <2>7
<1>14. k + 1 <= c \/ k + 1 > c  BY <1>1
<1>15. Grown /\ Falling
  <2> HIDE DEF Grown, Falling
  <2>1. QED BY <1>12, <1>13, <1>14
<1>16. \A j \in DOMAIN v : next.in[j] = IF j \in Taken(next) THEN 0 ELSE v[j]
  BY <1>1, <1>8, <1>9
<1>17. Chosen(v, next, k + 1)  BY <1>1, <1>7, <1>15, <1>16 DEF Chosen, P, c
<1>18. QED BY <1>17 DEF next

LEMMA PositivesFirst ==
  ASSUME NEW v \in Seq(Int), NEW n, n = Len(v)
  PROVE  Sorting(v)[n] \in Walks(n) /\ Chosen(v, Sorting(v)[n], n)
<1> DEFINE w == Sorting(v)
           T == {k \in 0..n : Chosen(v, w[k], k)}
<1>1. /\ n \in Nat /\ w \in [0..n -> Walks(n)] /\ w[0] = [in |-> v, ind |-> << >>]
      /\ \A i \in 1..n : w[i] = Select(w[i - 1], i)
  BY SortingSteps
<1> HIDE DEF w
<1>2. 0 \in T
  <2>1. w[0].in = v /\ w[0].ind = << >> /\ Len(w[0].ind) = 0 /\ DOMAIN w[0].ind = {}
    BY <1>1
  <2>2. Taken(w[0]) = {} /\ Cardinality({}) = 0  BY <2>1, FS_EmptySet DEF Taken
  <2>3. Cardinality(Positive(v)) \in Nat  BY PositiveFinite
  <2>4. ~(0 > Cardinality(Positive(v)))  BY <2>3
  <2>5. Chosen(v, w[0], 0)  BY <2>1, <2>2, <2>4 DEF Chosen
  <2>6. QED BY <1>1, <2>5
<1>3. ASSUME NEW k \in 0..(n - 1), k \in T PROVE k + 1 \in T
  <2>1. k + 1 \in 1..n /\ (k + 1) - 1 = k /\ k + 1 \in 0..n /\ k \in 0..n  BY <1>1, <1>3
  <2>2. w[k + 1] = Select(w[k], k + 1) /\ w[k] \in Walks(n)  BY <1>1, <2>1
  <2>3. Chosen(v, w[k], k)  BY <1>3
  <2>4. Chosen(v, Select(w[k], k + 1), k + 1)  BY <2>2, <2>3, ChosenStep
  <2>5. QED BY <2>1, <2>2, <2>4
<1>4. \A k \in 0..n : k \in T
  <2> HIDE DEF T
  <2>1. QED BY <1>1, <1>2, <1>3, BoundedInduction
<1>5. n \in 0..n  BY <1>1
<1>6. QED BY <1>1, <1>4, <1>5 DEF w

-----------------------------------------------------------------------------
(* Cycle counts in words.                                                   *)
LEMMA DivMod ==
  ASSUME NEW a \in Int, NEW w \in Nat \ {0}, NEW q \in Int, NEW r \in 0..(w - 1), a = q * w + r
  PROVE  a \div w = q /\ a % w = r
<1> DEFINE p == a \div w
           m == a % w
<1>1. p \in Int /\ m \in 0..(w - 1) /\ a = (w * p) + m  OBVIOUS
<1> HIDE DEF p, m
<1>2. w * p = p * w /\ p * w \in Int /\ q * w \in Int  BY <1>1
<1>3. (p - q) * w = r - m
  <2>1. (p - q) * w = p * w - q * w  BY <1>1
  <2>2. QED BY <1>1, <1>2, <2>1
<1>4. ~(p - q >= 1)
  <2>1. ASSUME p - q >= 1 PROVE FALSE
    <3>1. (p - q) * w >= w  BY <1>1, <2>1
    <3>2. QED BY <1>1, <1>3, <3>1
  <2>2. QED BY <2>1
<1>5. ~(q - p >= 1)
  <2>1. ASSUME q - p >= 1 PROVE FALSE
    <3>1. (q - p) * w >= w  BY <1>1, <2>1
    <3>2. (q - p) * w = q * w - p * w  BY <1>1
    <3>3. QED BY <1>1, <1>2, <3>1, <3>2
  <2>2. QED BY <2>1
<1>6. p = q  BY <1>1, <1>4, <1>5
<1>7. m = r  BY <1>1, <1>2, <1>6
<1>8. QED BY <1>6, <1>7 DEF p, m

LEMMA Reported ==
  ASSUME NEW a \in Int, NEW b \in Int, NEW c \in Int, NEW d \in Int, NEW q \in Int,
         NEW e \in 0..(Word - 1), NEW r \in 0..(Word - 1),
         (c - a) * Word + (d - b) = q * (Word * Word) + (e * Word + r)
  PROVE  photonReportTiming(<<a, b>>, <<c, d>>) = <<e, r>>
<1> DEFINE W == Word
           diff == Joined(<<c, d>>) - Joined(<<a, b>>)
           rest == e * W + r
<1>1. W \in Nat \ {0}  BY MatrixAssumption
<1>2. Joined(<<c, d>>) = c * W + d /\ Joined(<<a, b>>) = a * W + b  BY DEF Joined
<1>3. diff = q * (W * W) + rest /\ diff \in Int
  <2>1. (c - a) * W = c * W - a * W /\ c * W \in Int /\ a * W \in Int  BY <1>1
  <2>2. (c - a) * W + (d - b) = q * (W * W) + rest  OBVIOUS
  <2>3. rest \in Int /\ q * (W * W) \in Int  BY <1>1
  <2> HIDE DEF rest, W
  <2>4. QED BY <1>2, <2>1, <2>2, <2>3
<1>4. W * W \in Nat \ {0} /\ rest \in 0..(W * W - 1)
  <2>1. e * W >= 0 /\ e * W \in Int /\ W * W >= 1 /\ W * W \in Int  BY <1>1
  <2>2. e * W <= W * W - W
    <3>1. (W - 1) - e >= 0 /\ (W - 1) - e \in Int  BY <1>1
    <3>2. ((W - 1) - e) * W >= 0  BY <1>1, <3>1
    <3>3. ((W - 1) - e) * W = W * W - W - e * W  BY <1>1
    <3>4. QED BY <1>1, <2>1, <3>2, <3>3
  <2> HIDE DEF W
  <2>3. r \in Int /\ 0 <= r /\ r <= W - 1  BY <1>1 DEF W
  <2>4. QED BY <1>1, <2>1, <2>2, <2>3
<1> HIDE DEF diff, rest
<1>5. diff % (W * W) = rest  BY <1>3, <1>4, DivMod
<1>6. rest \div W = e /\ rest % W = r
  <2>1. rest \in Int /\ rest = e * W + r  BY <1>4 DEF rest
  <2>2. QED BY <1>1, <2>1, DivMod
<1>7. QED BY <1>5, <1>6 DEF photonReportTiming, diff

LEMMA TimeTold ==
  ASSUME NEW s \in 0..(Word * Word - 1), NEW d \in 0..(Word - 1), NEW arm \in BOOLEAN
  PROVE  photonReportTiming(photonStartTiming(s, arm), photonEndTiming(s + d, arm)) = <<d, 0>>
           <=> arm \/ ~((s % Word) + d >= Word)
<1> DEFINE W == Word
           lo == s % W
           h == s \div W
           start == photonStartTiming(s, arm)
           end == photonEndTiming(s + d, arm)
           carry == lo + d >= W
<1>1. /\ W \in Nat \ {0} /\ lo \in 0..(W - 1) /\ h \in Int /\ s = h * W + lo
      /\ s \in Int /\ W * W \in Int /\ 0 <= s /\ s <= W * W - 1 /\ d \in Int /\ d >= 0 /\ d <= W - 1
      /\ h * W \in Int
  <2>1. W \in Nat \ {0}  BY MatrixAssumption
  <2>2. W * W \in Int  BY <2>1
  <2>3. s \in Int /\ 0 <= s /\ s <= W * W - 1  BY <2>2
  <2>4. lo \in 0..(W - 1) /\ h \in Int /\ s = (W * h) + lo  BY <2>1, <2>3
  <2>5. d \in Int /\ d >= 0 /\ d <= W - 1  BY <2>1
  <2>6. W * h = h * W /\ h * W \in Int  BY <2>1, <2>4
  <2> HIDE DEF lo, h
  <2>7. QED BY <2>1, <2>2, <2>3, <2>4, <2>5, <2>6
<1>2. /\ start = <<lo, IF arm THEN 0 ELSE h % W>>
      /\ end = <<(s + d) % W, IF arm THEN 0 ELSE ((s + d) \div W) % W>>
  BY DEF photonStartTiming, photonEndTiming, magic_timing_begin
<1> HIDE DEF W, lo, h, start, end
<1>3. ~carry => (s + d) % W = lo + d /\ (s + d) \div W = h
  <2>1. ASSUME ~carry PROVE lo + d \in 0..(W - 1) /\ s + d = h * W + (lo + d) /\ s + d \in Int
    BY <1>1, <2>1
  <2> DEFINE t == s + d
             r == lo + d
  <2>2. W \in Nat \ {0} /\ h \in Int  BY <1>1
  <2>3. ~carry => r \in 0..(W - 1) /\ t = h * W + r /\ t \in Int  BY <2>1
  <2> HIDE DEF t, r
  <2>4. ~carry => t % W = r /\ t \div W = h  BY <2>2, <2>3, DivMod
  <2>5. QED BY <2>4 DEF t, r
<1>4. carry => (s + d) % W = (lo + d) - W /\ (s + d) \div W = h + 1
  <2>1. ASSUME carry
        PROVE  /\ (lo + d) - W \in 0..(W - 1) /\ s + d = (h + 1) * W + ((lo + d) - W)
               /\ s + d \in Int /\ h + 1 \in Int
    <3>1. (h + 1) * W = h * W + W  BY <1>1
    <3>2. QED BY <1>1, <2>1, <3>1
  <2> DEFINE t == s + d
             r == (lo + d) - W
             q == h + 1
  <2>2. W \in Nat \ {0}  BY <1>1
  <2>3. carry => r \in 0..(W - 1) /\ t = q * W + r /\ t \in Int /\ q \in Int  BY <2>1
  <2> HIDE DEF t, r, q
  <2>4. carry => t % W = r /\ t \div W = q  BY <2>2, <2>3, DivMod
  <2>5. QED BY <2>4 DEF t, r, q
<1>5. h >= 0 /\ h <= W - 1
  <2>1. ASSUME h <= -1 PROVE FALSE
    <3>1. (-1 - h) * W >= 0  BY <1>1, <2>1
    <3>2. (-1 - h) * W = -W - h * W  BY <1>1
    <3>3. QED BY <1>1, <3>1, <3>2
  <2>2. ASSUME h >= W PROVE FALSE
    <3>1. (h - W) * W >= 0  BY <1>1, <2>2
    <3>2. (h - W) * W = h * W - W * W  BY <1>1
    <3>3. QED BY <1>1, <3>1, <3>2
  <2>3. QED BY <1>1, <2>1, <2>2
<1>6. h % W = h
  <2>1. h = 0 * W + h  BY <1>1
  <2>2. QED BY <1>1, <1>5, <2>1, DivMod
<1>7. d \in 0..(Word - 1) /\ 0 \in 0..(Word - 1)  BY <1>1 DEF W
<1>8. CASE ~carry
  <2> DEFINE hi == IF arm THEN 0 ELSE h
  <2>1. start = <<lo, hi>> /\ end = <<lo + d, hi>> /\ hi \in Int  BY <1>1, <1>2, <1>3, <1>6, <1>8
  <2> HIDE DEF hi
  <2>2. ((lo + d) - lo) * Word + (hi - hi) = 0 * (Word * Word) + (d * Word + 0)
    <3>1. (lo + d) - lo = d /\ hi - hi = 0  BY <1>1, <2>1
    <3>2. QED BY <1>1, <3>1 DEF W
  <2>3. lo \in Int /\ lo + d \in Int  BY <1>1
  <2>4. photonReportTiming(start, end) = <<d, 0>>  BY <1>7, <2>1, <2>2, <2>3, Reported
  <2>5. QED BY <1>8, <2>4 DEF start, end, lo, W
<1>9. CASE carry /\ arm
  <2>1. start = <<lo, 0>> /\ end = <<(lo + d) - W, 0>>  BY <1>2, <1>4, <1>9
  <2>2. (((lo + d) - W) - lo) * Word + (0 - 0) = (-1) * (Word * Word) + (d * Word + 0)
    <3>1. ((lo + d) - W) - lo = d - W  BY <1>1
    <3>2. (d - W) * W = d * W - W * W /\ d * W \in Int  BY <1>1
    <3>3. QED BY <1>1, <3>1, <3>2 DEF W
  <2>3. lo \in Int /\ (lo + d) - W \in Int /\ -1 \in Int  BY <1>1
  <2>4. photonReportTiming(start, end) = <<d, 0>>  BY <1>7, <2>1, <2>2, <2>3, Reported
  <2>5. QED BY <1>9, <2>4 DEF start, end, lo, W
<1>10. CASE carry /\ ~arm
  <2>1. d >= 1 /\ W >= 2 /\ 1 \in 0..(Word - 1)  BY <1>1, <1>10 DEF W
  <2> DEFINE hi == (h + 1) % W
  <2>2. start = <<lo, h>> /\ end = <<(lo + d) - W, hi>>  BY <1>2, <1>4, <1>6, <1>10
  <2>3. lo \in Int /\ (lo + d) - W \in Int /\ ((lo + d) - W) - lo = d - W
        /\ (d - W) * W = d * W - W * W /\ d * W \in Int /\ (d - 1) * W = d * W - W
    BY <1>1
  <2>4. CASE h + 1 <= W - 1
    <3>1. hi = h + 1
      <4>1. h + 1 = 0 * W + (h + 1) /\ h + 1 \in 0..(W - 1)  BY <1>1, <1>5, <2>4
      <4>2. QED BY <1>1, <4>1, DivMod
    <3> HIDE DEF hi
    <3>2. (((lo + d) - W) - lo) * Word + (hi - h) = (-1) * (Word * Word) + (d * Word + 1)
      BY <1>1, <2>3, <3>1 DEF W
    <3>3. photonReportTiming(start, end) = <<d, 1>>
      <4>1. hi \in Int /\ h \in Int /\ -1 \in Int  BY <1>1, <3>1
      <4>2. QED BY <1>7, <2>1, <2>2, <2>3, <3>2, <4>1, Reported
    <3>4. QED BY <1>10, <3>3 DEF start, end, lo, W
  <2>5. CASE h = W - 1
    <3>1. hi = 0
      <4>1. h + 1 = 1 * W + 0 /\ 0 \in 0..(W - 1) /\ h + 1 \in Int  BY <1>1, <2>5
      <4>2. QED BY <1>1, <4>1, DivMod
    <3> HIDE DEF hi
    <3>2. (((lo + d) - W) - lo) * Word + (hi - h) = (-1) * (Word * Word) + ((d - 1) * Word + 1)
      BY <1>1, <2>3, <2>5, <3>1 DEF W
    <3>3. photonReportTiming(start, end) = <<d - 1, 1>>
      <4>1. hi \in Int /\ h \in Int /\ -1 \in Int /\ d - 1 \in 0..(Word - 1)
        BY <1>1, <2>1, <3>1 DEF W
      <4>2. QED BY <2>1, <2>2, <2>3, <3>2, <4>1, Reported
    <3>4. QED BY <1>10, <3>3 DEF start, end, lo, W
  <2>6. QED BY <1>1, <1>5, <2>4, <2>5
<1>11. QED BY <1>8, <1>9, <1>10

-----------------------------------------------------------------------------
(* Matrices, and when two are the same.                                     *)
IsMatrix(a) ==
  /\ a.h \in Nat /\ a.w \in Nat
  /\ a = [h |-> a.h, w |-> a.w, at |-> a.at]
  /\ a.at = [x \in Size(a.h, a.w) |-> a.at[x]]

RowNos(a) == 0..(a.h - 1)
ColNos(a) == 0..(a.w - 1)

LEMMA SameMatrix ==
  ASSUME NEW a, IsMatrix(a), NEW b, IsMatrix(b), a.h = b.h, a.w = b.w,
         \A i \in RowNos(a), j \in ColNos(a) : At(a, i, j) = At(b, i, j)
  PROVE  a = b
<1>1. \A x \in Size(a.h, a.w) : a.at[x] = b.at[x]
  <2>1. TAKE x \in Size(a.h, a.w)
  <2>2. x = <<x[1], x[2]>> /\ x[1] \in RowNos(a) /\ x[2] \in ColNos(a)  BY DEF Size, RowNos, ColNos
  <2>3. QED BY <2>2 DEF At
<1>2. a.at = b.at  BY <1>1 DEF IsMatrix
<1>3. QED BY <1>2 DEF IsMatrix

(* The matrices the routines are called with: of integers, and not empty.   *)
IsImage(a) ==
  /\ IsMatrix(a) /\ a.h \in Nat \ {0} /\ a.w \in Nat \ {0}
  /\ \A i \in RowNos(a), j \in ColNos(a) : At(a, i, j) \in Int

LEMMA ImagesAre == ASSUME NEW a \in Images \cup Kernels PROVE IsImage(a)
<1>1. /\ a.h \in Nat \ {0} /\ a.w \in Nat \ {0} /\ a = [h |-> a.h, w |-> a.w, at |-> a.at]
      /\ a.at \in [Size(a.h, a.w) -> Int]
  BY MatrixAssumption DEF Size
<1>2. IsMatrix(a)  BY <1>1 DEF IsMatrix
<1>3. \A i \in RowNos(a), j \in ColNos(a) : At(a, i, j) \in Int
  BY <1>1 DEF At, Size, RowNos, ColNos
<1>4. QED BY <1>1, <1>2, <1>3 DEF IsImage

(* A matrix that is filled place by place.                                  *)
Filling(h, w, f) == [h |-> h, w |-> w, at |-> f]

LEMMA Filled ==
  ASSUME NEW h \in Nat, NEW w \in Nat, NEW f, f = [x \in Size(h, w) |-> f[x]]
  PROVE  LET m == Filling(h, w, f) IN
         /\ IsMatrix(m) /\ m.h = h /\ m.w = w
         /\ \A i \in 0..(h - 1), j \in 0..(w - 1) :
              <<i, j>> \in Size(h, w) /\ At(m, i, j) = f[<<i, j>>]
BY DEF Filling, IsMatrix, At, Size

(* What each routine returns: its size, and the value at each place.        *)
LEMMA TransposeShape ==
  ASSUME NEW a, IsMatrix(a)
  PROVE  /\ IsMatrix(fTranspose(a)) /\ fTranspose(a).h = a.w /\ fTranspose(a).w = a.h
         /\ \A i \in ColNos(a), j \in RowNos(a) : At(fTranspose(a), i, j) = At(a, j, i)
BY DEF IsMatrix, fTranspose, Mat, At, Size, RowNos, ColNos

LEMMA ReshapeShape ==
  ASSUME NEW a, IsMatrix(a)
  PROVE  LET r == fReshape(a, a.w, a.h) IN
         /\ IsMatrix(r) /\ r.h = a.w /\ r.w = a.h
         /\ \A i \in ColNos(a), j \in RowNos(a) :
              At(r, i, j) = At(a, (i * a.h + j) % a.h, (i * a.h + j) \div a.h)
BY DEF IsMatrix, fReshape, Mat, At, Size, RowNos, ColNos

LEMMA MtimesShape ==
  ASSUME NEW a, IsMatrix(a), NEW b, IsMatrix(b)
  PROVE  LET c == fMtimes(a, b) IN
         /\ IsMatrix(c) /\ c.h = a.h /\ c.w = b.w
         /\ \A i \in RowNos(a), j \in ColNos(b) :
              At(c, i, j) = SumOver(a.w, [k \in 0..(a.w - 1) |-> At(b, k, j) * At(a, i, k)])
BY DEF IsMatrix, fMtimes, Mat, At, Size, RowNos, ColNos

LEMMA MinusShape ==
  ASSUME NEW a, IsMatrix(a), NEW b
  PROVE  LET c == fMinus(a, b) IN
         /\ IsMatrix(c) /\ c.h = a.h /\ c.w = a.w
         /\ \A i \in RowNos(a), j \in ColNos(a) : At(c, i, j) = At(a, i, j) - At(b, i, j)
BY DEF IsMatrix, fMinus, Mat, At, Size, RowNos, ColNos

LEMMA TimesShape ==
  ASSUME NEW a, IsMatrix(a), NEW b
  PROVE  LET c == fTimes(a, b) IN
         /\ IsMatrix(c) /\ c.h = a.h /\ c.w = a.w
         /\ \A i \in RowNos(a), j \in ColNos(a) : At(c, i, j) = At(a, i, j) * At(b, i, j)
BY DEF IsMatrix, fTimes, Mat, At, Size, RowNos, ColNos

LEMMA SetArrayShape ==
  ASSUME NEW h \in Nat, NEW w \in Nat, NEW v
  PROVE  \A i \in 0..(h - 1), j \in 0..(w - 1) : At(fSetArray(h, w, v), i, j) = v
BY DEF fSetArray, Mat, At, Size

LEMMA RangeShape ==
  ASSUME NEW a, NEW h \in Nat, NEW w \in Nat
  PROVE  LET c == fDeepCopyRange(a, 0, h, 0, w) IN
         /\ IsMatrix(c) /\ c.h = h /\ c.w = w
         /\ \A i \in 0..(h - 1), j \in 0..(w - 1) : At(c, i, j) = At(a, i, j)
BY DEF IsMatrix, fDeepCopyRange, Mat, At, Size

LEMMA ColumnSums ==
  ASSUME NEW a, IsMatrix(a)
  PROVE  LET c == fSum2(a, 1) IN
         /\ IsMatrix(c) /\ c.h = 1 /\ c.w = a.w
         /\ \A i \in 0..(1 - 1), j \in 0..(a.w - 1) :
              At(c, i, j) = SumOver(a.h, [k \in 0..(a.h - 1) |-> At(a, k, j)])
<1> DEFINE V(i, j) == SumOver(a.h, [k \in 0..(a.h - 1) |-> At(a, k, j)])
           h == 1
           w == a.w
           f == [x \in Size(h, w) |-> V(x[1], x[2])]
           c == fSum2(a, 1)
<1>1. c = Filling(h, w, f)  BY DEF fSum2, Mat, Filling
<1> HIDE DEF V
<1>2. h \in Nat /\ w \in Nat  BY DEF IsMatrix
<1> HIDE DEF h, w, c
<1>3. f = [x \in Size(h, w) |-> f[x]]
      /\ \A i \in 0..(h - 1), j \in 0..(w - 1) :
           <<i, j>> \in Size(h, w) => f[<<i, j>>] = V(i, j)
  OBVIOUS
<1> HIDE DEF f
<1>4. /\ IsMatrix(c) /\ c.h = h /\ c.w = w
      /\ \A i \in 0..(h - 1), j \in 0..(w - 1) :
           <<i, j>> \in Size(h, w) /\ At(c, i, j) = f[<<i, j>>]
  BY <1>1, <1>2, <1>3, Filled
<1>5. /\ IsMatrix(c) /\ c.h = h /\ c.w = w
      /\ \A i \in 0..(h - 1), j \in 0..(w - 1) : At(c, i, j) = V(i, j)
  BY <1>3, <1>4
<1>6. a.w \in Nat  BY DEF IsMatrix
<1>7. QED BY <1>5, <1>6 DEF c, h, w, V

LEMMA RowSums ==
  ASSUME NEW a, IsMatrix(a)
  PROVE  LET c == fSum2(a, 2) IN
         /\ IsMatrix(c) /\ c.h = a.h /\ c.w = 1
         /\ \A i \in 0..(a.h - 1), j \in 0..(1 - 1) :
              At(c, i, j) = SumOver(a.w, [k \in 0..(a.w - 1) |-> At(a, i, k)])
<1> DEFINE V(i, j) == SumOver(a.w, [k \in 0..(a.w - 1) |-> At(a, i, k)])
           h == a.h
           w == 1
           f == [x \in Size(h, w) |-> V(x[1], x[2])]
           c == fSum2(a, 2)
<1>1. c = Filling(h, w, f)  BY DEF fSum2, Mat, Filling
<1> HIDE DEF V
<1>2. h \in Nat /\ w \in Nat  BY DEF IsMatrix
<1> HIDE DEF h, w, c
<1>3. f = [x \in Size(h, w) |-> f[x]]
      /\ \A i \in 0..(h - 1), j \in 0..(w - 1) :
           <<i, j>> \in Size(h, w) => f[<<i, j>>] = V(i, j)
  OBVIOUS
<1> HIDE DEF f
<1>4. /\ IsMatrix(c) /\ c.h = h /\ c.w = w
      /\ \A i \in 0..(h - 1), j \in 0..(w - 1) :
           <<i, j>> \in Size(h, w) /\ At(c, i, j) = f[<<i, j>>]
  BY <1>1, <1>2, <1>3, Filled
<1>5. /\ IsMatrix(c) /\ c.h = h /\ c.w = w
      /\ \A i \in 0..(h - 1), j \in 0..(w - 1) : At(c, i, j) = V(i, j)
  BY <1>3, <1>4
<1>6. a.h \in Nat  BY DEF IsMatrix
<1>7. QED BY <1>5, <1>6 DEF c, h, w, V

(* What is at a place of two or three matrices put together.               *)
Beside(a, b, i, j) == IF j < a.w THEN At(a, i, j) ELSE At(b, i, j - a.w)
Three(a, b, d, i, j) ==
  IF j < a.w THEN At(a, i, j)
  ELSE IF j < a.w + b.w THEN At(b, i, j - a.w) ELSE At(d, i, j - a.w - b.w)
Below(a, b, i, j) == IF i < a.h THEN At(a, i, j) ELSE At(b, i - a.h, j)

LEMMA HorzcatShape ==
  ASSUME NEW a, IsMatrix(a), NEW b, IsMatrix(b)
  PROVE  LET c == fHorzcat(a, b) IN
         /\ IsMatrix(c) /\ c.h = a.h /\ c.w = a.w + b.w
         /\ \A i \in 0..(a.h - 1), j \in 0..(a.w + b.w - 1) :
              At(c, i, j) = Beside(a, b, i, j)
<1> DEFINE V(i, j) == Beside(a, b, i, j)
           h == a.h
           w == a.w + b.w
           f == [x \in Size(h, w) |-> V(x[1], x[2])]
           c == fHorzcat(a, b)
<1>1. c = Filling(h, w, f)  BY DEF fHorzcat, Mat, Filling, Beside
<1> HIDE DEF V
<1>2. h \in Nat /\ w \in Nat  BY DEF IsMatrix
<1> HIDE DEF h, w, c
<1>3. f = [x \in Size(h, w) |-> f[x]]
      /\ \A i \in 0..(h - 1), j \in 0..(w - 1) :
           <<i, j>> \in Size(h, w) => f[<<i, j>>] = V(i, j)
  OBVIOUS
<1> HIDE DEF f
<1>4. /\ IsMatrix(c) /\ c.h = h /\ c.w = w
      /\ \A i \in 0..(h - 1), j \in 0..(w - 1) :
           <<i, j>> \in Size(h, w) /\ At(c, i, j) = f[<<i, j>>]
  BY <1>1, <1>2, <1>3, Filled
<1>5. /\ IsMatrix(c) /\ c.h = h /\ c.w = w
      /\ \A i \in 0..(h - 1), j \in 0..(w - 1) : At(c, i, j) = V(i, j)
  BY <1>3, <1>4
<1>6. a.h \in Nat /\ a.w \in Nat /\ b.w \in Nat  BY DEF IsMatrix
<1>7. QED BY <1>5, <1>6 DEF c, h, w, V

LEMMA ThreeShape ==
  ASSUME NEW a, IsMatrix(a), NEW b, IsMatrix(b), NEW d, IsMatrix(d)
  PROVE  LET c == horzcat(a, b, d) IN
         /\ IsMatrix(c) /\ c.h = d.h /\ c.w = a.w + b.w + d.w
         /\ \A i \in 0..(d.h - 1), j \in 0..(a.w + b.w + d.w - 1) :
              At(c, i, j) = Three(a, b, d, i, j)
<1> DEFINE V(i, j) == Three(a, b, d, i, j)
           h == d.h
           w == a.w + b.w + d.w
           f == [x \in Size(h, w) |-> V(x[1], x[2])]
           c == horzcat(a, b, d)
<1>1. c = Filling(h, w, f)  BY DEF horzcat, Mat, Filling, Three
<1> HIDE DEF V
<1>2. h \in Nat /\ w \in Nat  BY DEF IsMatrix
<1> HIDE DEF h, w, c
<1>3. f = [x \in Size(h, w) |-> f[x]]
      /\ \A i \in 0..(h - 1), j \in 0..(w - 1) :
           <<i, j>> \in Size(h, w) => f[<<i, j>>] = V(i, j)
  OBVIOUS
<1> HIDE DEF f
<1>4. /\ IsMatrix(c) /\ c.h = h /\ c.w = w
      /\ \A i \in 0..(h - 1), j \in 0..(w - 1) :
           <<i, j>> \in Size(h, w) /\ At(c, i, j) = f[<<i, j>>]
  BY <1>1, <1>2, <1>3, Filled
<1>5. /\ IsMatrix(c) /\ c.h = h /\ c.w = w
      /\ \A i \in 0..(h - 1), j \in 0..(w - 1) : At(c, i, j) = V(i, j)
  BY <1>3, <1>4
<1>6. d.h \in Nat /\ a.w \in Nat /\ b.w \in Nat /\ d.w \in Nat  BY DEF IsMatrix
<1>7. QED BY <1>5, <1>6 DEF c, h, w, V

LEMMA VertcatShape ==
  ASSUME NEW a, IsMatrix(a), NEW b, IsMatrix(b)
  PROVE  LET c == ffVertcat(a, b) IN
         /\ IsMatrix(c) /\ c.h = a.h + b.h /\ c.w = a.w
         /\ \A i \in 0..(a.h + b.h - 1), j \in 0..(a.w - 1) :
              At(c, i, j) = Below(a, b, i, j)
<1> DEFINE V(i, j) == Below(a, b, i, j)
           h == a.h + b.h
           w == a.w
           f == [x \in Size(h, w) |-> V(x[1], x[2])]
           c == ffVertcat(a, b)
<1>1. c = Filling(h, w, f)  BY DEF ffVertcat, Mat, Filling, Below
<1> HIDE DEF V
<1>2. h \in Nat /\ w \in Nat  BY DEF IsMatrix
<1> HIDE DEF h, w, c
<1>3. f = [x \in Size(h, w) |-> f[x]]
      /\ \A i \in 0..(h - 1), j \in 0..(w - 1) :
           <<i, j>> \in Size(h, w) => f[<<i, j>>] = V(i, j)
  OBVIOUS
<1> HIDE DEF f
<1>4. /\ IsMatrix(c) /\ c.h = h /\ c.w = w
      /\ \A i \in 0..(h - 1), j \in 0..(w - 1) :
           <<i, j>> \in Size(h, w) /\ At(c, i, j) = f[<<i, j>>]
  BY <1>1, <1>2, <1>3, Filled
<1>5. /\ IsMatrix(c) /\ c.h = h /\ c.w = w
      /\ \A i \in 0..(h - 1), j \in 0..(w - 1) : At(c, i, j) = V(i, j)
  BY <1>3, <1>4
<1>6. a.h \in Nat /\ b.h \in Nat /\ a.w \in Nat  BY DEF IsMatrix
<1>7. QED BY <1>5, <1>6 DEF c, h, w, V
-----------------------------------------------------------------------------
(* Sums.                                                                    *)
LEMMA SumsSteps ==
  ASSUME NEW n \in Nat, NEW f \in [0..(n - 1) -> Int]
  PROVE  /\ Sums(n, f) \in [0..n -> Int]
         /\ Sums(n, f)[0] = 0
         /\ \A k \in 0..(n - 1) : Sums(n, f)[k + 1] = Sums(n, f)[k] + f[k]
<1> DEFINE Body(g) == [k \in 0..n |-> IF k = 0 THEN 0 ELSE g[k - 1] + f[k - 1]]
           G == [p \in Int \X (1..n) |-> p[1] + f[p[2] - 1]]
<1>1. \A k \in 1..n : k - 1 \in 0..(n - 1) /\ k - 1 \in 0..n  OBVIOUS
<1>2. \A x \in Int, k \in 1..n : G[<<x, k>>] = x + f[k - 1] /\ G[<<x, k>>] \in Int
  BY <1>1
<1>3. PICK g \in [0..n -> Int] : Runs(g, n, 0, G)
  <2> HIDE DEF G
  <2>1. Stays(n, Int, G)  BY <1>2 DEF Stays
  <2>2. 0 \in Int  OBVIOUS
  <2>3. QED BY <2>1, <2>2, Loop
<1>4. \A k \in 1..n : g[k] = g[k - 1] + f[k - 1]
  <2> HIDE DEF G
  <2>1. QED BY <1>1, <1>2, <1>3 DEF Runs
<1>5. g = Body(g)
  <2>1. g = [k \in 0..n |-> g[k]]  OBVIOUS
  <2>2. \A k \in 0..n : g[k] = IF k = 0 THEN 0 ELSE g[k - 1] + f[k - 1]
    <3>1. \A k \in 0..n : k # 0 => k \in 1..n  OBVIOUS
    <3> HIDE DEF G
    <3>2. QED BY <1>3, <1>4, <3>1 DEF Runs
  <2>3. QED BY <2>1, <2>2
<1>6. Sums(n, f) = CHOOSE x : x = Body(x)  BY DEF Sums
<1>7. Sums(n, f) = Body(Sums(n, f))
  <2> HIDE DEF Body
  <2>1. QED BY <1>5, <1>6
<1> DEFINE w == Sums(n, f)
<1>8. w = [k \in 0..n |-> w[k]] /\ \A k \in 0..n : w[k] = IF k = 0 THEN 0 ELSE w[k - 1] + f[k - 1]
  <2> HIDE DEF w
  <2>1. w = Body(w)  BY <1>7 DEF w
  <2>2. QED BY <2>1
<1> HIDE DEF w
<1>9. w[0] = 0 /\ \A k \in 0..(n - 1) : w[k + 1] = w[k] + f[k]
  <2>1. 0 \in 0..n  OBVIOUS
  <2>2. w[0] = 0  BY <1>8, <2>1
  <2>3. ASSUME NEW k \in 0..(n - 1) PROVE w[k + 1] = w[k] + f[k]
    <3>1. k + 1 \in 0..n /\ k + 1 # 0 /\ (k + 1) - 1 = k  OBVIOUS
    <3>2. QED BY <1>8, <3>1
  <2>4. QED BY <2>2, <2>3
<1>10. \A k \in 0..n : w[k] \in Int
  <2> DEFINE T == {k \in 0..n : w[k] \in Int}
  <2>1. 0 \in T  BY <1>9
  <2>2. ASSUME NEW k \in 0..(n - 1), k \in T PROVE k + 1 \in T
    <3>1. w[k] \in Int /\ f[k] \in Int /\ k + 1 \in 0..n  BY <2>2
    <3>2. QED BY <1>9, <3>1
  <2> HIDE DEF T
  <2>3. \A k \in 0..n : k \in T  BY <2>1, <2>2, BoundedInduction
  <2>4. QED BY <2>3 DEF T
<1>11. QED BY <1>8, <1>9, <1>10 DEF w

LEMMA SumIsInt ==
  ASSUME NEW n \in Nat, NEW f \in [0..(n - 1) -> Int]
  PROVE  SumOver(n, f) \in Int
<1>1. Sums(n, f) \in [0..n -> Int] /\ n \in 0..n  BY SumsSteps
<1>2. QED BY <1>1 DEF SumOver

(* Zeros add nothing.                                                       *)
LEMMA ZerosBetween ==
  ASSUME NEW n \in Nat, NEW f \in [0..(n - 1) -> Int], NEW c \in 0..n, NEW d \in c..n,
         \A y \in c..(d - 1) : f[y] = 0
  PROVE  Sums(n, f)[d] = Sums(n, f)[c]
<1> DEFINE s == Sums(n, f)
           m == d - c
           T == {k \in 0..m : s[c + k] = s[c]}
<1>1. m \in Nat /\ c \in Int /\ d \in Int /\ c + m = d  OBVIOUS
<1>2. s \in [0..n -> Int] /\ \A k \in 0..(n - 1) : s[k + 1] = s[k] + f[k]  BY SumsSteps
<1> HIDE DEF s, m
<1>3. 0 \in T  BY <1>1
<1>4. ASSUME NEW k \in 0..(m - 1), k \in T PROVE k + 1 \in T
  <2>1. c + k \in 0..(n - 1) /\ c + k \in c..(d - 1) /\ (c + k) + 1 = c + (k + 1) /\ k + 1 \in 0..m
        /\ c \in 0..n
    BY <1>1
  <2>2. s[c + (k + 1)] = s[c + k] + 0  BY <1>2, <2>1
  <2>3. s[c + k] = s[c] /\ s[c] \in Int  BY <1>2, <1>4, <2>1
  <2>4. s[c + (k + 1)] = s[c]  BY <2>2, <2>3
  <2>5. QED BY <2>1, <2>4
<1> HIDE DEF T
<1>5. \A k \in 0..m : k \in T  BY <1>1, <1>3, <1>4, BoundedInduction
<1>6. m \in T /\ m \in 0..m  BY <1>1, <1>5
<1>7. QED BY <1>1, <1>6 DEF T, s

LEMMA ZeroSum ==
  ASSUME NEW n \in Nat, NEW f \in [0..(n - 1) -> Int], \A y \in 0..(n - 1) : f[y] = 0
  PROVE  SumOver(n, f) = 0
<1>1. 0 \in 0..n /\ n \in 0..n  OBVIOUS
<1>2. Sums(n, f)[n] = Sums(n, f)[0]  BY <1>1, ZerosBetween
<1>3. QED BY <1>2, SumsSteps DEF SumOver

(* Two sums over the same values, one of which begins s earlier than the    *)
(* other: what only one of them has is zero.                                *)
Shifted(A, B, s, f, g) ==
  /\ \A m \in 0..(A - 1) : m + s \in 0..(B - 1) => f[m] = g[m + s]
  /\ \A m \in 0..(A - 1) : m + s \notin 0..(B - 1) => f[m] = 0
  /\ \A y \in 0..(B - 1) : y - s \notin 0..(A - 1) => g[y] = 0

LEMMA Shift ==
  ASSUME NEW A \in Nat, NEW B \in Nat, NEW s \in Int,
         NEW f \in [0..(A - 1) -> Int], NEW g \in [0..(B - 1) -> Int], Shifted(A, B, s, f, g)
  PROVE  SumOver(A, f) = SumOver(B, g)
<1> DEFINE F == Sums(A, f)
           H == Sums(B, g)
           C(k) == IF k + s < 0 THEN 0 ELSE IF k + s > B THEN B ELSE k + s
           T == {k \in 0..A : F[k] = H[C(k)]}
<1>1. F \in [0..A -> Int] /\ F[0] = 0 /\ \A k \in 0..(A - 1) : F[k + 1] = F[k] + f[k]
  BY SumsSteps
<1>2. H \in [0..B -> Int] /\ H[0] = 0 /\ \A k \in 0..(B - 1) : H[k + 1] = H[k] + g[k]
  BY SumsSteps
<1>3. \A k \in 0..A : C(k) \in 0..B  OBVIOUS
<1>4. H[C(0)] = 0
  <2>1. C(0) \in 0..B /\ 0 \in 0..B  BY <1>3
  <2>2. \A y \in 0..(C(0) - 1) : y \in 0..(B - 1) /\ y - s \notin 0..(A - 1)  OBVIOUS
  <2>3. \A y \in 0..(C(0) - 1) : g[y] = 0  BY <2>2 DEF Shifted
  <2> DEFINE d == C(0)
  <2>4. d \in 0..B /\ \A y \in 0..(d - 1) : g[y] = 0  BY <2>1, <2>3
  <2> HIDE DEF C, d
  <2>5. Sums(B, g)[d] = Sums(B, g)[0]  BY <2>1, <2>4, ZerosBetween
  <2>6. QED BY <1>2, <2>5 DEF d
<1>5. H[C(A)] = H[B]
  <2> DEFINE d == C(A)
  <2>1. d \in 0..B /\ B \in d..B  BY <1>3
  <2>2. \A y \in d..(B - 1) : y \in 0..(B - 1) /\ y - s \notin 0..(A - 1)  OBVIOUS
  <2>3. \A y \in d..(B - 1) : g[y] = 0  BY <2>2 DEF Shifted
  <2> HIDE DEF C, d
  <2>4. Sums(B, g)[B] = Sums(B, g)[d]  BY <2>1, <2>3, ZerosBetween
  <2>5. QED BY <2>4 DEF d
<1> HIDE DEF F, H
<1>6. 0 \in T  BY <1>1, <1>4
<1>7. ASSUME NEW k \in 0..(A - 1), k \in T PROVE k + 1 \in T
  <2>1. k \in 0..A /\ k + 1 \in 0..A /\ F[k] = H[C(k)] /\ F[k + 1] = F[k] + f[k]
    BY <1>1, <1>7
  <2>2. F[k] \in Int  BY <1>1, <2>1
  <2>3. CASE k + s \in 0..(B - 1)
    <3>1. C(k) = k + s /\ C(k + 1) = (k + s) + 1  BY <2>3
    <3>2. H[(k + s) + 1] = H[k + s] + g[k + s]  BY <1>2, <2>3
    <3>3. f[k] = g[k + s]  BY <2>3 DEF Shifted
    <3> HIDE DEF C
    <3>4. F[k + 1] = H[C(k + 1)]  BY <2>1, <3>1, <3>2, <3>3
    <3>5. QED BY <2>1, <3>4
  <2>4. CASE k + s \notin 0..(B - 1)
    <3>1. C(k + 1) = C(k)  BY <2>4
    <3>2. f[k] = 0  BY <2>4 DEF Shifted
    <3> HIDE DEF C
    <3>3. F[k + 1] = H[C(k + 1)]  BY <2>1, <2>2, <3>1, <3>2
    <3>4. QED BY <2>1, <3>3
  <2>5. QED BY <2>3, <2>4
<1>8. \A k \in 0..A : k \in T
  <2> HIDE DEF T
  <2>1. QED BY <1>6, <1>7, BoundedInduction
<1>9. A \in 0..A  OBVIOUS
<1>10. F[A] = H[C(A)]
  <2> HIDE DEF C
  <2>1. QED BY <1>8, <1>9
<1>11. QED BY <1>5, <1>10 DEF F, H, SumOver
-----------------------------------------------------------------------------
(* Convolutions: the terms of each of the two at a place, the sums of them   *)
(* along a row of the kernel and of the matrix, and over all of these rows.  *)
Near(a, b, i, j, m, n) ==
  LET at == <<i + m - (b.h \div 2), j + n - (b.w \div 2)>> IN
  IF at \in DOMAIN a.at THEN a.at[at] * At(b, Turned(b.h, m), Turned(b.w, n)) ELSE 0
Far(a, b, i, j, m, n) ==
  IF <<i - m, j - n>> \in DOMAIN b.at THEN At(a, m, n) * At(b, i - m, j - n) ELSE 0

NearRow(a, b, i, j, m) == [n \in 0..(b.w - 1) |-> Near(a, b, i, j, m, n)]
FarRow(a, b, i, j, m)  == [n \in 0..(a.w - 1) |-> Far(a, b, i, j, m, n)]
NearRows(a, b, i, j) == [m \in 0..(b.h - 1) |-> SumOver(b.w, NearRow(a, b, i, j, m))]
FarRows(a, b, i, j)  == [m \in 0..(a.h - 1) |-> SumOver(a.w, FarRow(a, b, i, j, m))]

LEMMA ImagePlaces ==
  ASSUME NEW a, IsImage(a)
  PROVE  /\ a.h \in Nat \ {0} /\ a.w \in Nat \ {0}
         /\ \A x, y \in Int : <<x, y>> \in DOMAIN a.at <=> x \in 0..(a.h - 1) /\ y \in 0..(a.w - 1)
         /\ \A x \in 0..(a.h - 1), y \in 0..(a.w - 1) :
              At(a, x, y) \in Int /\ a.at[<<x, y>>] = At(a, x, y)
BY DEF IsImage, IsMatrix, At, Size, RowNos, ColNos

\* An odd kernel has as much before its centre as behind it.
LEMMA OddCentre ==
  ASSUME NEW n \in Nat, n % 2 = 1
  PROVE  LET r == n \div 2 IN r \in Nat /\ n = 2 * r + 1 /\ Centre(n) - 1 = r
BY DEF Centre

(* A row of the kernel lies over one row of the image, or over none.        *)
LEMMA RowsAgree ==
  ASSUME NEW a, IsImage(a), NEW b, IsImage(b), b.h % 2 = 1, b.w % 2 = 1,
         NEW i \in Int, NEW j \in Int, NEW m \in 0..(b.h - 1),
         NEW y, y = i + m - (b.h \div 2)
  PROVE  LET I == i + (b.h \div 2)
             J == j + (b.w \div 2) IN
         /\ NearRow(a, b, i, j, m) \in [0..(b.w - 1) -> Int]
         /\ y \in 0..(a.h - 1) =>
              SumOver(b.w, NearRow(a, b, i, j, m)) = SumOver(a.w, FarRow(a, b, I, J, y))
         /\ y \notin 0..(a.h - 1) => SumOver(b.w, NearRow(a, b, i, j, m)) = 0
<1> DEFINE r == b.h \div 2
           q == b.w \div 2
           f == NearRow(a, b, i, j, m)
           g == FarRow(a, b, i + r, j + q, y)
<1>1. /\ a.h \in Nat \ {0} /\ a.w \in Nat \ {0} /\ b.h \in Nat /\ b.w \in Nat
      /\ r \in Nat /\ b.h = 2 * r + 1 /\ q \in Nat /\ b.w = 2 * q + 1
  BY ImagePlaces, OddCentre
<1> HIDE DEF r, q
<1>2. y = i + m - r /\ y \in Int  BY <1>1 DEF r
<1>3. \A n \in 0..(b.w - 1) :
        f[n] = IF y \in 0..(a.h - 1) /\ j + n - q \in 0..(a.w - 1)
                 THEN At(a, y, j + n - q) * At(b, b.h - 1 - m, b.w - 1 - n) ELSE 0
  <2> TAKE n \in 0..(b.w - 1)
  <2>1. f[n] = Near(a, b, i, j, m, n)  BY DEF NearRow
  <2>2. j + n - q \in Int /\ y \in Int  BY <1>1, <1>2
  <2>3. f[n] = IF <<y, j + n - q>> \in DOMAIN a.at
                 THEN a.at[<<y, j + n - q>>] * At(b, b.h - 1 - m, b.w - 1 - n) ELSE 0
    BY <2>1 DEF Near, Turned, r, q
  <2> HIDE DEF f
  <2>4. QED BY <2>2, <2>3, ImagePlaces
<1>4. \A n \in 0..(b.w - 1) : f[n] \in Int
  <2> TAKE n \in 0..(b.w - 1)
  <2>1. b.h - 1 - m \in 0..(b.h - 1) /\ b.w - 1 - n \in 0..(b.w - 1)  BY <1>1
  <2>2. At(b, b.h - 1 - m, b.w - 1 - n) \in Int  BY <2>1, ImagePlaces
  <2>3. y \in 0..(a.h - 1) /\ j + n - q \in 0..(a.w - 1) => At(a, y, j + n - q) \in Int
    BY ImagePlaces
  <2> HIDE DEF f
  <2>4. QED BY <1>3, <2>2, <2>3
<1>5. f \in [0..(b.w - 1) -> Int]
  <2>1. f = [n \in 0..(b.w - 1) |-> f[n]]  BY DEF NearRow
  <2> HIDE DEF f
  <2>2. QED BY <1>4, <2>1
<1>6. ASSUME y \in 0..(a.h - 1) PROVE SumOver(b.w, f) = SumOver(a.w, g)
  <2>1. (i + r) - y = b.h - 1 - m /\ b.h - 1 - m \in 0..(b.h - 1)  BY <1>1, <1>2
  <2>2. \A z \in 0..(a.w - 1) :
          g[z] = IF (j + q) - z \in 0..(b.w - 1)
                   THEN At(a, y, z) * At(b, b.h - 1 - m, (j + q) - z) ELSE 0
    <3> TAKE z \in 0..(a.w - 1)
    <3>1. g[z] = Far(a, b, i + r, j + q, y, z)  BY DEF FarRow
    <3>2. (j + q) - z \in Int  BY <1>1
    <3>3. g[z] = IF <<b.h - 1 - m, (j + q) - z>> \in DOMAIN b.at
                   THEN At(a, y, z) * At(b, b.h - 1 - m, (j + q) - z) ELSE 0
      BY <2>1, <3>1 DEF Far
    <3> HIDE DEF g
    <3>4. QED BY <2>1, <3>2, <3>3, ImagePlaces
  <2>3. \A z \in 0..(a.w - 1) : g[z] \in Int
    <3> TAKE z \in 0..(a.w - 1)
    <3>1. At(a, y, z) \in Int  BY <1>6, ImagePlaces
    <3>2. (j + q) - z \in 0..(b.w - 1) => At(b, b.h - 1 - m, (j + q) - z) \in Int
      BY <2>1, ImagePlaces
    <3> HIDE DEF g
    <3>3. QED BY <2>2, <3>1, <3>2
  <2>4. g \in [0..(a.w - 1) -> Int]
    <3>1. g = [z \in 0..(a.w - 1) |-> g[z]]  BY DEF FarRow
    <3> HIDE DEF g
    <3>2. QED BY <2>3, <3>1
  <2> HIDE DEF f, g
  <2> DEFINE s == j - q
  <2>5. s \in Int  BY <1>1
  <2>6. ASSUME NEW n \in 0..(b.w - 1), n + s \in 0..(a.w - 1) PROVE f[n] = g[n + s]
    <3>1. j + n - q = n + s /\ (j + q) - (n + s) = b.w - 1 - n /\ b.w - 1 - n \in 0..(b.w - 1)
      BY <1>1
    <3> HIDE DEF s
    <3>2. f[n] = At(a, y, n + s) * At(b, b.h - 1 - m, b.w - 1 - n)
      BY <1>3, <1>6, <2>6, <3>1
    <3>3. g[n + s] = At(a, y, n + s) * At(b, b.h - 1 - m, b.w - 1 - n)
      BY <2>2, <2>6, <3>1
    <3>4. QED BY <3>2, <3>3
  <2>7. ASSUME NEW n \in 0..(b.w - 1), n + s \notin 0..(a.w - 1) PROVE f[n] = 0
    <3>1. j + n - q = n + s  BY <1>1
    <3> HIDE DEF s
    <3>2. QED BY <1>3, <2>7, <3>1
  <2>8. ASSUME NEW z \in 0..(a.w - 1), z - s \notin 0..(b.w - 1) PROVE g[z] = 0
    <3>1. (j + q) - z = b.w - 1 - (z - s)  BY <1>1
    <3>2. (j + q) - z \notin 0..(b.w - 1)  BY <1>1, <2>8, <3>1
    <3>3. QED BY <2>2, <3>2
  <2> HIDE DEF s
  <2>9. Shifted(b.w, a.w, s, f, g)  BY <2>6, <2>7, <2>8 DEF Shifted
  <2> DEFINE A == b.w
             B == a.w
  <2>10. /\ A \in Nat /\ B \in Nat /\ s \in Int
         /\ f \in [0..(A - 1) -> Int] /\ g \in [0..(B - 1) -> Int] /\ Shifted(A, B, s, f, g)
    BY <1>1, <1>5, <2>4, <2>5, <2>9
  <2> HIDE DEF A, B
  <2>11. SumOver(A, f) = SumOver(B, g)  BY <2>10, Shift
  <2>12. QED BY <2>11 DEF A, B
<1>7. ASSUME y \notin 0..(a.h - 1) PROVE SumOver(b.w, f) = 0
  <2> HIDE DEF f
  <2>1. \A n \in 0..(b.w - 1) : f[n] = 0  BY <1>3, <1>7
  <2>2. QED BY <1>1, <1>5, <2>1, ZeroSum
<1>8. QED BY <1>5, <1>6, <1>7 DEF r, q

LEMMA FarRowIs ==
  ASSUME NEW a, IsImage(a), NEW b, IsImage(b), NEW i \in Int, NEW j \in Int, NEW y \in 0..(a.h - 1)
  PROVE  /\ FarRow(a, b, i, j, y) \in [0..(a.w - 1) -> Int]
         /\ i - y \notin 0..(b.h - 1) => SumOver(a.w, FarRow(a, b, i, j, y)) = 0
<1> DEFINE g == FarRow(a, b, i, j, y)
<1>1. a.w \in Nat /\ i - y \in Int  BY ImagePlaces
<1>2. \A z \in 0..(a.w - 1) :
        g[z] = IF i - y \in 0..(b.h - 1) /\ j - z \in 0..(b.w - 1)
                 THEN At(a, y, z) * At(b, i - y, j - z) ELSE 0
  <2> TAKE z \in 0..(a.w - 1)
  <2>1. g[z] = Far(a, b, i, j, y, z)  BY DEF FarRow
  <2>2. j - z \in Int  OBVIOUS
  <2> HIDE DEF g
  <2>3. QED BY <1>1, <2>1, <2>2, ImagePlaces DEF Far
<1>3. \A z \in 0..(a.w - 1) : g[z] \in Int
  <2> TAKE z \in 0..(a.w - 1)
  <2>1. At(a, y, z) \in Int  BY ImagePlaces
  <2>2. i - y \in 0..(b.h - 1) /\ j - z \in 0..(b.w - 1) => At(b, i - y, j - z) \in Int
    BY ImagePlaces
  <2> HIDE DEF g
  <2>3. QED BY <1>2, <2>1, <2>2
<1>4. g \in [0..(a.w - 1) -> Int]
  <2>1. g = [z \in 0..(a.w - 1) |-> g[z]]  BY DEF FarRow
  <2> HIDE DEF g
  <2>2. QED BY <1>3, <2>1
<1>5. ASSUME i - y \notin 0..(b.h - 1) PROVE SumOver(a.w, g) = 0
  <2> HIDE DEF g
  <2>1. \A z \in 0..(a.w - 1) : g[z] = 0  BY <1>2, <1>5
  <2>2. QED BY <1>1, <1>4, <2>1, ZeroSum
<1>6. QED BY <1>4, <1>5

LEMMA SumsAgree ==
  ASSUME NEW a, IsImage(a), NEW b, IsImage(b), b.h % 2 = 1, b.w % 2 = 1,
         NEW i \in Int, NEW j \in Int
  PROVE  SumOver(b.h, NearRows(a, b, i, j)) = Full(a, b, i + Centre(b.h) - 1, j + Centre(b.w) - 1)
<1> DEFINE r == b.h \div 2
           q == b.w \div 2
           I == i + r
           J == j + q
           f == NearRows(a, b, i, j)
           g == FarRows(a, b, I, J)
           s == i - r
<1>1. /\ a.h \in Nat /\ a.w \in Nat /\ b.h \in Nat /\ b.w \in Nat
      /\ r \in Nat /\ b.h = 2 * r + 1 /\ q \in Nat
      /\ i + Centre(b.h) - 1 = I /\ j + Centre(b.w) - 1 = J
  <2>1. a.h \in Nat /\ a.w \in Nat /\ b.h \in Nat /\ b.w \in Nat  BY ImagePlaces
  <2>2. r \in Nat /\ b.h = 2 * r + 1 /\ Centre(b.h) - 1 = r  BY <2>1, OddCentre
  <2>3. q \in Nat /\ Centre(b.w) - 1 = q  BY <2>1, OddCentre
  <2>4. Centre(b.h) \in Int /\ Centre(b.w) \in Int  BY <2>1 DEF Centre
  <2> HIDE DEF r, q
  <2>5. QED BY <2>1, <2>2, <2>3, <2>4
<1>2. Full(a, b, I, J) = SumOver(a.h, g)
  BY DEF Full, FarRows, FarRow, Far
<1>3. I \in Int /\ J \in Int /\ s \in Int
  <2> HIDE DEF r, q
  <2>1. QED BY <1>1
<1>4. ASSUME NEW m \in 0..(b.h - 1)
      PROVE  /\ f[m] \in Int
             /\ m + s \in 0..(a.h - 1) => f[m] = g[m + s]
             /\ m + s \notin 0..(a.h - 1) => f[m] = 0
  <2> DEFINE y == i + m - r
  <2>1. /\ NearRow(a, b, i, j, m) \in [0..(b.w - 1) -> Int]
        /\ y \in 0..(a.h - 1) =>
             SumOver(b.w, NearRow(a, b, i, j, m)) = SumOver(a.w, FarRow(a, b, I, J, y))
        /\ y \notin 0..(a.h - 1) => SumOver(b.w, NearRow(a, b, i, j, m)) = 0
    BY RowsAgree
  <2>2. f[m] = SumOver(b.w, NearRow(a, b, i, j, m))  BY DEF NearRows
  <2>3. SumOver(b.w, NearRow(a, b, i, j, m)) \in Int  BY <1>1, <2>1, SumIsInt
  <2>4. \A z \in 0..(a.h - 1) : g[z] = SumOver(a.w, FarRow(a, b, I, J, z))  BY DEF FarRows
  <2>5. y = m + s
    <3> HIDE DEF r
    <3>1. QED BY <1>1
  <2> HIDE DEF f, g, s, y, I, J
  <2>6. QED BY <2>1, <2>2, <2>3, <2>4, <2>5
<1>5. ASSUME NEW y \in 0..(a.h - 1)
      PROVE  g[y] \in Int /\ (y - s \notin 0..(b.h - 1) => g[y] = 0)
  <2>1. /\ FarRow(a, b, I, J, y) \in [0..(a.w - 1) -> Int]
        /\ I - y \notin 0..(b.h - 1) => SumOver(a.w, FarRow(a, b, I, J, y)) = 0
    <3> HIDE DEF I, J
    <3>1. QED BY <1>3, FarRowIs
  <2>2. g[y] = SumOver(a.w, FarRow(a, b, I, J, y))  BY DEF FarRows
  <2>3. SumOver(a.w, FarRow(a, b, I, J, y)) \in Int  BY <1>1, <2>1, SumIsInt
  <2>4. I - y = b.h - 1 - (y - s)
    <3> HIDE DEF r
    <3>1. QED BY <1>1
  <2>5. y - s \notin 0..(b.h - 1) => I - y \notin 0..(b.h - 1)
    <3>1. y - s \in Int  BY <1>3
    <3> HIDE DEF I, s
    <3>2. QED BY <1>1, <2>4, <3>1
  <2> HIDE DEF g, s, I, J
  <2>6. QED BY <2>1, <2>2, <2>3, <2>5
<1>6. f \in [0..(b.h - 1) -> Int]
  <2>1. f = [m \in 0..(b.h - 1) |-> f[m]]  BY DEF NearRows
  <2> HIDE DEF f, s, I, J
  <2>2. QED BY <1>4, <2>1
<1>7. g \in [0..(a.h - 1) -> Int]
  <2>1. g = [m \in 0..(a.h - 1) |-> g[m]]  BY DEF FarRows
  <2> HIDE DEF g, s, I, J
  <2>2. QED BY <1>5, <2>1
<1>8. SumOver(b.h, f) = SumOver(a.h, g)
  <2> HIDE DEF f, g, s
  <2>1. Shifted(b.h, a.h, s, f, g)  BY <1>4, <1>5 DEF Shifted
  <2> DEFINE A == b.h
             B == a.h
  <2>2. /\ A \in Nat /\ B \in Nat /\ s \in Int
         /\ f \in [0..(A - 1) -> Int] /\ g \in [0..(B - 1) -> Int] /\ Shifted(A, B, s, f, g)
    BY <1>1, <1>3, <1>6, <1>7, <2>1
  <2> HIDE DEF A, B
  <2>3. SumOver(A, f) = SumOver(B, g)  BY <2>2, Shift
  <2>4. QED BY <2>3 DEF A, B
<1>9. QED BY <1>1, <1>2, <1>8
-----------------------------------------------------------------------------
(* What is at a place of a matrix that is passed over, made smaller or       *)
(* convolved.                                                               *)
PassAt(a, kernel, along, i, j) ==
  LET half == Len(kernel) \div 2 IN
  IF i < half \/ i >= a.h - half \/ j < half \/ j >= a.w - half THEN 0
  ELSE SumOver(Len(kernel), [k \in 0..(Len(kernel) - 1) |->
         kernel[k + 1] * (IF along = "row" THEN At(a, i, j + k - half)
                                           ELSE At(a, i + k - half, j))])

LEMMA PassShape ==
  ASSUME NEW a, IsMatrix(a), NEW kernel, NEW along
  PROVE  LET c == Pass(a, kernel, along) IN
         /\ IsMatrix(c) /\ c.h = a.h /\ c.w = a.w
         /\ \A i \in 0..(a.h - 1), j \in 0..(a.w - 1) :
              At(c, i, j) = PassAt(a, kernel, along, i, j)
<1> DEFINE V(i, j) == PassAt(a, kernel, along, i, j)
           h == a.h
           w == a.w
           f == [x \in Size(h, w) |-> V(x[1], x[2])]
           c == Pass(a, kernel, along)
<1>1. c = Filling(h, w, f)  BY DEF Pass, Mat, Filling, PassAt
<1> HIDE DEF V
<1>2. h \in Nat /\ w \in Nat  BY DEF IsMatrix
<1> HIDE DEF h, w, c
<1>3. f = [x \in Size(h, w) |-> f[x]]
      /\ \A i \in 0..(h - 1), j \in 0..(w - 1) :
           <<i, j>> \in Size(h, w) => f[<<i, j>>] = V(i, j)
  OBVIOUS
<1> HIDE DEF f
<1>4. /\ IsMatrix(c) /\ c.h = h /\ c.w = w
      /\ \A i \in 0..(h - 1), j \in 0..(w - 1) :
           <<i, j>> \in Size(h, w) /\ At(c, i, j) = f[<<i, j>>]
  BY <1>1, <1>2, <1>3, Filled
<1>5. /\ IsMatrix(c) /\ c.h = h /\ c.w = w
      /\ \A i \in 0..(h - 1), j \in 0..(w - 1) : At(c, i, j) = V(i, j)
  BY <1>3, <1>4
<1>6. a.h \in Nat /\ a.w \in Nat  BY DEF IsMatrix
<1>7. QED BY <1>5, <1>6 DEF c, h, w, V

ResizeAt(a, i, j) ==
  IF 2 * i + 2 >= a.h - 2 \/ 2 * j + 2 >= a.w - 2 THEN 0
  ELSE LET Row(r) == IF r < 2 \/ r >= a.h - 2 THEN 0
                     ELSE SumOver(5, [k \in 0..4 |-> Gauss[k + 1] * At(a, r, 2 * j + k)])
       IN SumOver(5, [k \in 0..4 |-> Gauss[k + 1] * Row(2 * i + k)])

LEMMA ResizeShape ==
  ASSUME NEW a, IsMatrix(a)
  PROVE  LET c == imageResize(a) IN
         /\ IsMatrix(c) /\ c.h = (a.h + 1) \div 2 /\ c.w = (a.w + 1) \div 2
         /\ \A i \in 0..((a.h + 1) \div 2 - 1), j \in 0..((a.w + 1) \div 2 - 1) :
              At(c, i, j) = ResizeAt(a, i, j)
<1> DEFINE V(i, j) == ResizeAt(a, i, j)
           h == (a.h + 1) \div 2
           w == (a.w + 1) \div 2
           f == [x \in Size(h, w) |-> V(x[1], x[2])]
           c == imageResize(a)
<1>1. c = Filling(h, w, f)  BY DEF imageResize, Mat, Filling, ResizeAt
<1> HIDE DEF V
<1>2. h \in Nat /\ w \in Nat  BY DEF IsMatrix
<1> HIDE DEF h, w, c
<1>3. f = [x \in Size(h, w) |-> f[x]]
      /\ \A i \in 0..(h - 1), j \in 0..(w - 1) :
           <<i, j>> \in Size(h, w) => f[<<i, j>>] = V(i, j)
  OBVIOUS
<1> HIDE DEF f
<1>4. /\ IsMatrix(c) /\ c.h = h /\ c.w = w
      /\ \A i \in 0..(h - 1), j \in 0..(w - 1) :
           <<i, j>> \in Size(h, w) /\ At(c, i, j) = f[<<i, j>>]
  BY <1>1, <1>2, <1>3, Filled
<1>5. /\ IsMatrix(c) /\ c.h = h /\ c.w = w
      /\ \A i \in 0..(h - 1), j \in 0..(w - 1) : At(c, i, j) = V(i, j)
  BY <1>3, <1>4
<1>6. a.h \in Nat /\ a.w \in Nat  BY DEF IsMatrix
<1>7. QED BY <1>5, <1>6 DEF c, h, w, V

LEMMA KernelConvolution ==
  ASSUME NEW a, IsMatrix(a), NEW b
  PROVE  LET c == ffConv2(a, b) IN
         /\ IsMatrix(c) /\ c.h = a.h /\ c.w = a.w
         /\ \A i \in 0..(a.h - 1), j \in 0..(a.w - 1) :
              At(c, i, j) = SumOver(b.h, NearRows(a, b, i, j))
<1> DEFINE V(i, j) == SumOver(b.h, NearRows(a, b, i, j))
           h == a.h
           w == a.w
           f == [x \in Size(h, w) |-> V(x[1], x[2])]
           c == ffConv2(a, b)
<1>1. c = Filling(h, w, f)  BY DEF ffConv2, Mat, Filling, NearRows, NearRow, Near
<1> HIDE DEF V
<1>2. h \in Nat /\ w \in Nat  BY DEF IsMatrix
<1> HIDE DEF h, w, c
<1>3. f = [x \in Size(h, w) |-> f[x]]
      /\ \A i \in 0..(h - 1), j \in 0..(w - 1) :
           <<i, j>> \in Size(h, w) => f[<<i, j>>] = V(i, j)
  OBVIOUS
<1> HIDE DEF f
<1>4. /\ IsMatrix(c) /\ c.h = h /\ c.w = w
      /\ \A i \in 0..(h - 1), j \in 0..(w - 1) :
           <<i, j>> \in Size(h, w) /\ At(c, i, j) = f[<<i, j>>]
  BY <1>1, <1>2, <1>3, Filled
<1>5. /\ IsMatrix(c) /\ c.h = h /\ c.w = w
      /\ \A i \in 0..(h - 1), j \in 0..(w - 1) : At(c, i, j) = V(i, j)
  BY <1>3, <1>4
<1>6. a.h \in Nat /\ a.w \in Nat  BY DEF IsMatrix
<1>7. QED BY <1>5, <1>6 DEF c, h, w, V

LEMMA ImageConvolution ==
  ASSUME NEW a, IsMatrix(a), NEW b
  PROVE  LET c == iiConv2(a, b) IN
         /\ IsMatrix(c) /\ c.h = a.h /\ c.w = a.w
         /\ \A i \in 0..(a.h - 1), j \in 0..(a.w - 1) :
              At(c, i, j) = Full(a, b, i + Centre(b.h) - 1, j + Centre(b.w) - 1)
<1> DEFINE V(i, j) == Full(a, b, i + Centre(b.h) - 1, j + Centre(b.w) - 1)
           h == a.h
           w == a.w
           f == [x \in Size(h, w) |-> V(x[1], x[2])]
           c == iiConv2(a, b)
<1>1. c = Filling(h, w, f)  BY DEF iiConv2, Mat, Filling
<1> HIDE DEF V
<1>2. h \in Nat /\ w \in Nat  BY DEF IsMatrix
<1> HIDE DEF h, w, c
<1>3. f = [x \in Size(h, w) |-> f[x]]
      /\ \A i \in 0..(h - 1), j \in 0..(w - 1) :
           <<i, j>> \in Size(h, w) => f[<<i, j>>] = V(i, j)
  OBVIOUS
<1> HIDE DEF f
<1>4. /\ IsMatrix(c) /\ c.h = h /\ c.w = w
      /\ \A i \in 0..(h - 1), j \in 0..(w - 1) :
           <<i, j>> \in Size(h, w) /\ At(c, i, j) = f[<<i, j>>]
  BY <1>1, <1>2, <1>3, Filled
<1>5. /\ IsMatrix(c) /\ c.h = h /\ c.w = w
      /\ \A i \in 0..(h - 1), j \in 0..(w - 1) : At(c, i, j) = V(i, j)
  BY <1>3, <1>4
<1>6. a.h \in Nat /\ a.w \in Nat  BY DEF IsMatrix
<1>7. QED BY <1>5, <1>6 DEF c, h, w, V

(* The two convolutions by an odd kernel are the same.                      *)
LEMMA ConvolutionsAgree ==
  ASSUME NEW a, IsImage(a), NEW b, IsImage(b), b.h % 2 = 1, b.w % 2 = 1
  PROVE  ffConv2(a, b) = iiConv2(a, b)
<1> DEFINE c == ffConv2(a, b)
           d == iiConv2(a, b)
<1>1. IsMatrix(a) /\ a.h \in Nat /\ a.w \in Nat  BY DEF IsImage
<1>2. /\ IsMatrix(c) /\ c.h = a.h /\ c.w = a.w
      /\ \A i \in 0..(a.h - 1), j \in 0..(a.w - 1) : At(c, i, j) = SumOver(b.h, NearRows(a, b, i, j))
  BY <1>1, KernelConvolution
<1>3. /\ IsMatrix(d) /\ d.h = a.h /\ d.w = a.w
      /\ \A i \in 0..(a.h - 1), j \in 0..(a.w - 1) :
           At(d, i, j) = Full(a, b, i + Centre(b.h) - 1, j + Centre(b.w) - 1)
  BY <1>1, ImageConvolution
<1> HIDE DEF c, d
<1>4. ASSUME NEW i \in 0..(a.h - 1), NEW j \in 0..(a.w - 1) PROVE At(c, i, j) = At(d, i, j)
  <2>1. i \in Int /\ j \in Int  OBVIOUS
  <2>2. SumOver(b.h, NearRows(a, b, i, j)) = Full(a, b, i + Centre(b.h) - 1, j + Centre(b.w) - 1)
    BY <2>1, SumsAgree
  <2>3. QED BY <1>2, <1>3, <2>2
<1>5. c = d  BY <1>2, <1>3, <1>4, SameMatrix DEF RowNos, ColNos
<1>6. QED BY <1>5 DEF c, d

(* A pass along the rows is one along the columns of the transpose.         *)
LEMMA PassTransposed ==
  ASSUME NEW a, IsMatrix(a), NEW kernel \in Seq(Int)
  PROVE  /\ fTranspose(Pass(a, kernel, "row")) = Pass(fTranspose(a), kernel, "column")
         /\ fTranspose(Pass(a, kernel, "column")) = Pass(fTranspose(a), kernel, "row")
<1> DEFINE t == fTranspose(a)
           n == Len(kernel)
           half == n \div 2
<1>1. /\ a.h \in Nat /\ a.w \in Nat /\ n \in Nat /\ half \in Nat /\ n - 1 <= 2 * half
      /\ IsMatrix(t) /\ t.h = a.w /\ t.w = a.h
      /\ \A i \in 0..(a.w - 1), j \in 0..(a.h - 1) : At(t, i, j) = At(a, j, i)
  <2>1. a.h \in Nat /\ a.w \in Nat  BY DEF IsMatrix
  <2>2. n \in Nat  OBVIOUS
  <2>3. half \in Nat /\ n - 1 <= 2 * half
    <3> HIDE DEF n
    <3>1. QED BY <2>2
  <2>4. QED BY <2>1, <2>2, <2>3, TransposeShape DEF RowNos, ColNos
<1> HIDE DEF t, n, half
<1>2. ASSUME NEW along \in {"row", "column"}, NEW across \in {"row", "column"}, across # along
      PROVE  fTranspose(Pass(a, kernel, along)) = Pass(t, kernel, across)
  <2> DEFINE p == Pass(a, kernel, along)
             c == fTranspose(p)
             d == Pass(t, kernel, across)
  <2>1. /\ IsMatrix(p) /\ p.h = a.h /\ p.w = a.w
        /\ \A i \in 0..(a.h - 1), j \in 0..(a.w - 1) : At(p, i, j) = PassAt(a, kernel, along, i, j)
    BY PassShape
  <2>2. /\ IsMatrix(d) /\ d.h = a.w /\ d.w = a.h
        /\ \A i \in 0..(a.w - 1), j \in 0..(a.h - 1) : At(d, i, j) = PassAt(t, kernel, across, i, j)
    BY <1>1, PassShape
  <2> HIDE DEF p, d
  <2>3. /\ IsMatrix(c) /\ c.h = a.w /\ c.w = a.h
        /\ \A i \in 0..(a.w - 1), j \in 0..(a.h - 1) : At(c, i, j) = At(p, j, i)
    BY <2>1, TransposeShape DEF RowNos, ColNos
  <2> HIDE DEF c
  <2>4. ASSUME NEW i \in 0..(a.w - 1), NEW j \in 0..(a.h - 1)
        PROVE  PassAt(a, kernel, along, j, i) = PassAt(t, kernel, across, i, j)
    <3> DEFINE B == j < half \/ j >= a.h - half \/ i < half \/ i >= a.w - half
               f(k) == kernel[k + 1] * (IF along = "row" THEN At(a, j, i + k - half)
                                                         ELSE At(a, j + k - half, i))
               g(k) == kernel[k + 1] * (IF across = "row" THEN At(t, i, j + k - half)
                                                          ELSE At(t, i + k - half, j))
               C == i < half \/ i >= a.w - half \/ j < half \/ j >= a.h - half
               F == [k \in 0..(n - 1) |-> f(k)]
               H == [k \in 0..(n - 1) |-> g(k)]
    <3>1. PassAt(a, kernel, along, j, i) = IF B THEN 0 ELSE SumOver(n, F)
      BY DEF PassAt, n, half
    <3>2. PassAt(t, kernel, across, i, j) = IF C THEN 0 ELSE SumOver(n, H)
      BY <1>1 DEF PassAt, n, half
    <3>3. B <=> C  OBVIOUS
    <3>4. ASSUME ~B, NEW k \in 0..(n - 1) PROVE f(k) = g(k)
      <4>1. i + k - half \in 0..(a.w - 1) /\ j + k - half \in 0..(a.h - 1)  BY <1>1, <3>4
      <4>2. CASE along = "row"
        <5>1. At(t, i + k - half, j) = At(a, j, i + k - half) /\ across # "row"  BY <1>1, <1>2, <4>1, <4>2
        <5>2. QED BY <4>2, <5>1
      <4>3. CASE along = "column"
        <5>1. At(t, i, j + k - half) = At(a, j + k - half, i) /\ across = "row" /\ along # "row"
          BY <1>1, <1>2, <4>1, <4>3
        <5>2. QED BY <5>1
      <4>4. QED BY <4>2, <4>3
    <3> HIDE DEF f, g, B, C
    <3>5. ~B => F = H  BY <3>4
    <3> HIDE DEF F, H
    <3>6. QED BY <3>1, <3>2, <3>3, <3>5
  <2>5. c = d  BY <2>1, <2>2, <2>3, <2>4, SameMatrix DEF RowNos, ColNos
  <2>6. QED BY <2>5 DEF c, p, d
<1>3. QED BY <1>2 DEF t

LEMMA TwiceTransposed == ASSUME NEW a, IsMatrix(a) PROVE fTranspose(fTranspose(a)) = a
<1> DEFINE t == fTranspose(a)
           u == fTranspose(t)
<1>1. /\ IsMatrix(t) /\ t.h = a.w /\ t.w = a.h
      /\ \A i \in 0..(a.w - 1), j \in 0..(a.h - 1) : At(t, i, j) = At(a, j, i)
  BY TransposeShape DEF RowNos, ColNos
<1> HIDE DEF t
<1>2. /\ IsMatrix(u) /\ u.h = a.h /\ u.w = a.w
      /\ \A i \in 0..(a.h - 1), j \in 0..(a.w - 1) : At(u, i, j) = At(t, j, i)
  BY <1>1, TransposeShape DEF RowNos, ColNos
<1> HIDE DEF u
<1>3. u = a  BY <1>1, <1>2, SameMatrix DEF RowNos, ColNos
<1>4. QED BY <1>3 DEF u, t

LEMMA DerivativesTransposed ==
  ASSUME NEW a, IsMatrix(a)
  PROVE  calcSobel_dX(a) = fTranspose(calcSobel_dY(fTranspose(a)))
<1> DEFINE K == <<1, 0, -1>>
           L == <<1, 2, 1>>
           p == Pass(a, K, "row")
           x == Pass(p, L, "column")
<1>1. K \in Seq(Int) /\ L \in Seq(Int)  OBVIOUS
<1>2. x = calcSobel_dX(a)  BY DEF calcSobel_dX
<1>3. calcSobel_dY(fTranspose(a)) = Pass(Pass(fTranspose(a), K, "column"), L, "row")
  BY DEF calcSobel_dY
<1> HIDE DEF K, L
<1>4. IsMatrix(p)  BY PassShape
<1>5. fTranspose(p) = Pass(fTranspose(a), K, "column")  BY <1>1, PassTransposed
<1> HIDE DEF p
<1>6. IsMatrix(x)  BY <1>4, PassShape
<1>7. fTranspose(x) = Pass(fTranspose(p), L, "row")  BY <1>1, <1>4, PassTransposed
<1> HIDE DEF x
<1>8. fTranspose(fTranspose(x)) = x  BY <1>6, TwiceTransposed
<1>9. QED BY <1>2, <1>3, <1>5, <1>7, <1>8
-----------------------------------------------------------------------------
(* The blurred image at such a place is what the smaller one holds there.   *)
LEMMA BlurAt ==
  ASSUME NEW a, IsMatrix(a), NEW i \in Nat, NEW j \in Nat, 2 * i + 2 < a.h, 2 * j + 2 < a.w
  PROVE  At(imageBlur(a), 2 * i + 2, 2 * j + 2) = ResizeAt(a, i, j)
<1> DEFINE p == Pass(a, Gauss, "row")
           u == 2 * i + 2
           v == 2 * j + 2
           B == u >= a.h - 2 \/ v >= a.w - 2
           Row(r) == IF r < 2 \/ r >= a.h - 2 THEN 0
                     ELSE SumOver(5, [k \in 0..4 |-> Gauss[k + 1] * At(a, r, 2 * j + k)])
           F == [k \in 0..4 |-> Gauss[k + 1] * Row(2 * i + k)]
           H == [k \in 0..4 |-> Gauss[k + 1] * At(p, u + k - 2, v)]
<1>1. a.h \in Nat /\ a.w \in Nat /\ u \in 0..(a.h - 1) /\ v \in 0..(a.w - 1)
      /\ u >= 2 /\ v >= 2 /\ u \in Nat /\ v \in Nat
  BY DEF IsMatrix
<1>2. Len(Gauss) = 5 /\ Len(Gauss) \div 2 = 2 /\ Len(Gauss) - 1 = 4
  <2>1. Len(Gauss) = 5  BY DEF Gauss
  <2>2. QED BY <2>1
<1>3. /\ IsMatrix(p) /\ p.h = a.h /\ p.w = a.w
      /\ \A x \in 0..(a.h - 1), y \in 0..(a.w - 1) : At(p, x, y) = PassAt(a, Gauss, "row", x, y)
  BY PassShape
<1>4. At(imageBlur(a), u, v) = PassAt(p, Gauss, "column", u, v)
  <2> HIDE DEF p, u, v
  <2>1. \A x \in 0..(p.h - 1), y \in 0..(p.w - 1) :
          At(Pass(p, Gauss, "column"), x, y) = PassAt(p, Gauss, "column", x, y)
    BY <1>3, PassShape
  <2>2. QED BY <1>1, <1>3, <2>1 DEF imageBlur, p
<1>5. ResizeAt(a, i, j) = IF B THEN 0 ELSE SumOver(5, F)
  BY DEF ResizeAt
<1>6. PassAt(p, Gauss, "column", u, v) = IF B THEN 0 ELSE SumOver(5, H)
  <2>1. "column" # "row"  OBVIOUS
  <2> HIDE DEF p, u, v
  <2>2. PassAt(p, Gauss, "column", u, v)
          = IF u < 2 \/ u >= a.h - 2 \/ v < 2 \/ v >= a.w - 2 THEN 0 ELSE SumOver(5, H)
    BY <1>2, <1>3, <2>1 DEF PassAt
  <2> HIDE DEF H
  <2>3. QED BY <1>1, <2>2
<1>7. ASSUME ~B, NEW k \in 0..4 PROVE At(p, u + k - 2, v) = Row(2 * i + k)
  <2> DEFINE r == 2 * i + k
             f == [m \in 0..4 |-> Gauss[m + 1] * At(a, r, 2 * j + m)]
             g == [m \in 0..4 |-> Gauss[m + 1] * At(a, r, v + m - 2)]
  <2>1. u + k - 2 = r /\ r \in 0..(a.h - 1) /\ r \in Int  BY <1>1, <1>7
  <2>2. ~(v < 2) /\ ~(v >= a.w - 2)  BY <1>1, <1>7
  <2>3. f = g
    <3>1. \A m \in 0..4 : v + m - 2 = 2 * j + m  OBVIOUS
    <3> HIDE DEF v, r
    <3>2. QED BY <3>1
  <2>4. Row(2 * i + k) = IF r < 2 \/ r >= a.h - 2 THEN 0 ELSE SumOver(5, f)  OBVIOUS
  <2> HIDE DEF r, v, p
  <2>5. PassAt(a, Gauss, "row", r, v)
          = IF r < 2 \/ r >= a.h - 2 \/ v < 2 \/ v >= a.w - 2 THEN 0 ELSE SumOver(5, g)
    BY <1>2 DEF PassAt
  <2>6. At(p, r, v) = PassAt(a, Gauss, "row", r, v)  BY <1>1, <1>3, <2>1
  <2> HIDE DEF f, g, Row
  <2>7. At(p, r, v) = Row(2 * i + k)  BY <2>2, <2>3, <2>4, <2>5, <2>6
  <2>8. QED BY <2>1, <2>7
<1>8. ~B => F = H
  <2> HIDE DEF p, B, Row, u, v
  <2>1. QED BY <1>7
<1> HIDE DEF F, H, B
<1>9. QED BY <1>4, <1>5, <1>6, <1>8

(* A smaller image is every second place of the blurred one.                *)
LEMMA SmallerIsBlurred ==
  ASSUME NEW a, IsMatrix(a), NEW x \in DOMAIN imageResize(a).at
  PROVE  LET p == <<2 * x[1] + 2, 2 * x[2] + 2>> IN
         imageResize(a).at[x] = IF p \in DOMAIN a.at THEN imageBlur(a).at[p] ELSE 0
<1> DEFINE c == imageResize(a)
           H == (a.h + 1) \div 2
           W == (a.w + 1) \div 2
<1>1. /\ IsMatrix(c) /\ c.h = H /\ c.w = W
      /\ \A i \in 0..(H - 1), j \in 0..(W - 1) : At(c, i, j) = ResizeAt(a, i, j)
  BY ResizeShape
<1>2. a.h \in Nat /\ a.w \in Nat /\ H \in Nat /\ W \in Nat  BY DEF IsMatrix
<1>3. x \in Size(H, W)
  <2>1. x \in DOMAIN c.at  OBVIOUS
  <2> HIDE DEF c, H, W
  <2>2. QED BY <1>1, <2>1 DEF IsMatrix
<1> HIDE DEF H, W
<1>4. PICK i \in 0..(H - 1), j \in 0..(W - 1) : x = <<i, j>>  BY <1>3 DEF Size
<1>5. i \in Nat /\ j \in Nat /\ x[1] = i /\ x[2] = j  BY <1>2, <1>4
<1>6. c.at[x] = ResizeAt(a, i, j)
  <2> HIDE DEF c
  <2>1. QED BY <1>1, <1>4 DEF At
<1> DEFINE u == 2 * i + 2
           v == 2 * j + 2
<1>7. u \in Nat /\ v \in Nat  BY <1>5
<1>8. <<u, v>> \in DOMAIN a.at <=> u < a.h /\ v < a.w
  <2> HIDE DEF u, v
  <2>1. <<u, v>> \in Size(a.h, a.w) <=> u < a.h /\ v < a.w  BY <1>2, <1>7 DEF Size
  <2>2. QED BY <2>1 DEF IsMatrix
<1>9. CASE u < a.h /\ v < a.w
  <2>1. At(imageBlur(a), u, v) = ResizeAt(a, i, j)  BY <1>5, <1>9, BlurAt
  <2> HIDE DEF u, v, c
  <2>2. c.at[x] = IF <<u, v>> \in DOMAIN a.at THEN imageBlur(a).at[<<u, v>>] ELSE 0
    BY <1>6, <1>8, <1>9, <2>1 DEF At
  <2>3. QED BY <1>5, <2>2 DEF c, u, v
<1>10. CASE ~(u < a.h /\ v < a.w)
  <2>1. u >= a.h - 2 \/ v >= a.w - 2  BY <1>2, <1>7, <1>10
  <2>2. ResizeAt(a, i, j) = 0  BY <2>1 DEF ResizeAt
  <2> HIDE DEF u, v, c
  <2>3. c.at[x] = IF <<u, v>> \in DOMAIN a.at THEN imageBlur(a).at[<<u, v>>] ELSE 0
    BY <1>6, <1>8, <1>10, <2>2
  <2>4. QED BY <1>5, <2>3 DEF c, u, v
<1>11. QED BY <1>9, <1>10
-----------------------------------------------------------------------------
(* Reshaping to exchanged sizes, and the routines that follow it.           *)
LEMMA ReshapeTransposes == ASSUME NEW a, IsImage(a) PROVE fReshape(a, a.w, a.h) = fTranspose(a)
<1> DEFINE r == fReshape(a, a.w, a.h)
           t == fTranspose(a)
<1>1. IsMatrix(a) /\ a.h \in Nat \ {0} /\ a.w \in Nat  BY DEF IsImage
<1>2. /\ IsMatrix(r) /\ r.h = a.w /\ r.w = a.h
      /\ \A i \in 0..(a.w - 1), j \in 0..(a.h - 1) :
           At(r, i, j) = At(a, (i * a.h + j) % a.h, (i * a.h + j) \div a.h)
  BY <1>1, ReshapeShape DEF RowNos, ColNos
<1>3. /\ IsMatrix(t) /\ t.h = a.w /\ t.w = a.h
      /\ \A i \in 0..(a.w - 1), j \in 0..(a.h - 1) : At(t, i, j) = At(a, j, i)
  BY <1>1, TransposeShape DEF RowNos, ColNos
<1> HIDE DEF r, t
<1>4. ASSUME NEW i \in 0..(a.w - 1), NEW j \in 0..(a.h - 1)
      PROVE  (i * a.h + j) % a.h = j /\ (i * a.h + j) \div a.h = i
  <2>1. i \in Int /\ i * a.h + j \in Int  BY <1>1
  <2>2. QED BY <1>1, <2>1, DivMod
<1>5. r = t  BY <1>2, <1>3, <1>4, SameMatrix DEF RowNos, ColNos
<1>6. QED BY <1>5 DEF r, t

LEMMA NegativeBeside ==
  ASSUME NEW a, IsImage(a)
  PROVE  LET t == fTranspose(a) IN
         fHorzcat(a, fMinus(a, a)) = fTranspose(ffVertcat(t, fMinus(t, t)))
<1> DEFINE t == fTranspose(a)
           m == fMinus(a, a)
           n == fMinus(t, t)
           b == fHorzcat(a, m)
           v == ffVertcat(t, n)
           c == fTranspose(v)
<1>1. IsMatrix(a) /\ a.h \in Nat /\ a.w \in Nat  BY DEF IsImage
<1>2. /\ IsMatrix(t) /\ t.h = a.w /\ t.w = a.h
      /\ \A i \in 0..(a.w - 1), j \in 0..(a.h - 1) : At(t, i, j) = At(a, j, i)
  BY <1>1, TransposeShape DEF RowNos, ColNos
<1>3. /\ IsMatrix(m) /\ m.h = a.h /\ m.w = a.w
      /\ \A i \in 0..(a.h - 1), j \in 0..(a.w - 1) : At(m, i, j) = At(a, i, j) - At(a, i, j)
  BY <1>1, MinusShape DEF RowNos, ColNos
<1> HIDE DEF t
<1>4. /\ IsMatrix(n) /\ n.h = t.h /\ n.w = t.w
      /\ \A i \in 0..(t.h - 1), j \in 0..(t.w - 1) : At(n, i, j) = At(t, i, j) - At(t, i, j)
  BY <1>2, MinusShape DEF RowNos, ColNos
<1> HIDE DEF m, n
<1>5. /\ IsMatrix(b) /\ b.h = a.h /\ b.w = a.w + m.w
      /\ \A i \in 0..(a.h - 1), j \in 0..(a.w + m.w - 1) : At(b, i, j) = Beside(a, m, i, j)
  BY <1>1, <1>3, HorzcatShape
<1>6. /\ IsMatrix(v) /\ v.h = t.h + n.h /\ v.w = t.w
      /\ \A i \in 0..(t.h + n.h - 1), j \in 0..(t.w - 1) : At(v, i, j) = Below(t, n, i, j)
  BY <1>2, <1>4, VertcatShape
<1> HIDE DEF b, v
<1>7. /\ IsMatrix(c) /\ c.h = v.w /\ c.w = v.h
      /\ \A i \in 0..(v.w - 1), j \in 0..(v.h - 1) : At(c, i, j) = At(v, j, i)
  BY <1>6, TransposeShape DEF RowNos, ColNos
<1> HIDE DEF c
<1>8. ASSUME NEW i \in 0..(a.h - 1), NEW j \in 0..(a.w + a.w - 1) PROVE At(b, i, j) = At(c, i, j)
  <2>1. At(b, i, j) = IF j < a.w THEN At(a, i, j) ELSE At(m, i, j - a.w)
    BY <1>3, <1>5 DEF Beside
  <2>2. At(c, i, j) = IF j < a.w THEN At(t, j, i) ELSE At(n, j - a.w, i)
    <3>1. v.w = a.h /\ v.h = a.w + a.w /\ t.h = a.w /\ t.w = a.h /\ n.h = a.w
      BY <1>2, <1>4, <1>6
    <3>2. At(c, i, j) = At(v, j, i)  BY <1>1, <1>7, <3>1
    <3>3. j \in 0..(t.h + n.h - 1) /\ i \in 0..(t.w - 1)  BY <1>1, <3>1
    <3>4. At(v, j, i) = Below(t, n, j, i)  BY <1>6, <3>3
    <3>5. QED BY <3>1, <3>2, <3>4 DEF Below
  <2>3. CASE j < a.w
    <3>1. j \in 0..(a.w - 1)  BY <1>1, <2>3
    <3>2. QED BY <1>2, <2>1, <2>2, <2>3, <3>1
  <2>4. CASE ~(j < a.w)
    <3>1. j - a.w \in 0..(a.w - 1)  BY <1>1, <2>4
    <3>2. QED BY <1>2, <1>3, <1>4, <2>1, <2>2, <2>4, <3>1
  <2>5. QED BY <2>3, <2>4
<1>9. b = c  BY <1>1, <1>2, <1>3, <1>4, <1>5, <1>6, <1>7, <1>8, SameMatrix DEF RowNos, ColNos
<1>10. QED BY <1>9 DEF b, c, v, n, m, t

LEMMA ThreeBeside ==
  ASSUME NEW a, IsImage(a) PROVE horzcat(a, a, a) = fHorzcat(fHorzcat(a, a), a)
<1> DEFINE b == fHorzcat(a, a)
           c == fHorzcat(b, a)
           d == horzcat(a, a, a)
           w == a.w
<1>1. IsMatrix(a) /\ a.h \in Nat /\ w \in Nat  BY DEF IsImage
<1>2. /\ IsMatrix(b) /\ b.h = a.h /\ b.w = w + w
      /\ \A i \in 0..(a.h - 1), j \in 0..(w + w - 1) : At(b, i, j) = Beside(a, a, i, j)
  BY <1>1, HorzcatShape
<1> HIDE DEF b
<1>3. /\ IsMatrix(c) /\ c.h = b.h /\ c.w = b.w + w
      /\ \A i \in 0..(b.h - 1), j \in 0..(b.w + w - 1) : At(c, i, j) = Beside(b, a, i, j)
  BY <1>1, <1>2, HorzcatShape
<1>4. /\ IsMatrix(d) /\ d.h = a.h /\ d.w = w + w + w
      /\ \A i \in 0..(a.h - 1), j \in 0..(w + w + w - 1) : At(d, i, j) = Three(a, a, a, i, j)
  BY <1>1, ThreeShape
<1> HIDE DEF c, d
<1>5. ASSUME NEW i \in 0..(a.h - 1), NEW j \in 0..(w + w + w - 1) PROVE At(d, i, j) = At(c, i, j)
  <2>1. At(d, i, j) = IF j < w THEN At(a, i, j)
                      ELSE IF j < w + w THEN At(a, i, j - w) ELSE At(a, i, j - w - w)
    BY <1>4 DEF Three
  <2>2. At(c, i, j) = IF j < w + w THEN At(b, i, j) ELSE At(a, i, j - (w + w))
    BY <1>2, <1>3 DEF Beside
  <2> HIDE DEF w
  <2>3. j < w + w => At(b, i, j) = IF j < w THEN At(a, i, j) ELSE At(a, i, j - w)
    <3>1. j < w + w => j \in 0..(w + w - 1)  BY <1>1
    <3>2. QED BY <1>2, <3>1 DEF Beside, w
  <2>4. j - (w + w) = j - w - w /\ (j < w => j < w + w)  BY <1>1
  <2>5. QED BY <2>1, <2>2, <2>3, <2>4
<1>6. d.w = c.w /\ d.h = c.h  BY <1>2, <1>3, <1>4
<1>7. \A i \in RowNos(d), j \in ColNos(d) : At(d, i, j) = At(c, i, j)
  BY <1>1, <1>4, <1>5 DEF RowNos, ColNos
<1>8. d = c  BY <1>3, <1>4, <1>6, <1>7, SameMatrix
<1>9. QED BY <1>8 DEF d, c, b
-----------------------------------------------------------------------------
LEMMA ProductSymmetric ==
  ASSUME NEW a, IsImage(a)
  PROVE  fTranspose(fMtimes(a, fTranspose(a))) = fMtimes(a, fTranspose(a))
<1> DEFINE t == fTranspose(a)
           p == fMtimes(a, t)
           u == fTranspose(p)
           V(i, j) == [k \in 0..(a.w - 1) |-> At(t, k, j) * At(a, i, k)]
<1>1. IsMatrix(a) /\ a.h \in Nat /\ a.w \in Nat
      /\ \A i \in 0..(a.h - 1), j \in 0..(a.w - 1) : At(a, i, j) \in Int
  BY DEF IsImage, RowNos, ColNos
<1>2. /\ IsMatrix(t) /\ t.h = a.w /\ t.w = a.h
      /\ \A i \in 0..(a.w - 1), j \in 0..(a.h - 1) : At(t, i, j) = At(a, j, i)
  BY <1>1, TransposeShape DEF RowNos, ColNos
<1> HIDE DEF t
<1>3. /\ IsMatrix(p) /\ p.h = a.h /\ p.w = t.w
      /\ \A i \in 0..(a.h - 1), j \in 0..(t.w - 1) : At(p, i, j) = SumOver(a.w, V(i, j))
  BY <1>1, <1>2, MtimesShape DEF RowNos, ColNos
<1> HIDE DEF p
<1>4. /\ IsMatrix(u) /\ u.h = p.w /\ u.w = p.h
      /\ \A i \in 0..(p.w - 1), j \in 0..(p.h - 1) : At(u, i, j) = At(p, j, i)
  BY <1>3, TransposeShape DEF RowNos, ColNos
<1> HIDE DEF u
<1>5. ASSUME NEW i \in 0..(a.h - 1), NEW j \in 0..(a.h - 1) PROVE V(i, j) = V(j, i)
  <2>1. \A k \in 0..(a.w - 1) : At(t, k, j) * At(a, i, k) = At(t, k, i) * At(a, j, k)
    <3> TAKE k \in 0..(a.w - 1)
    <3>1. At(t, k, j) = At(a, j, k) /\ At(t, k, i) = At(a, i, k)  BY <1>2
    <3>2. At(a, j, k) \in Int /\ At(a, i, k) \in Int  BY <1>1
    <3> DEFINE x == At(a, i, k)
               y == At(a, j, k)
    <3>3. x \in Int /\ y \in Int  BY <3>2
    <3> HIDE DEF x, y
    <3>4. y * x = x * y  BY <3>3
    <3>5. QED BY <3>1, <3>4 DEF x, y
  <2>2. QED BY <2>1
<1> HIDE DEF V
<1>6. ASSUME NEW i \in 0..(a.h - 1), NEW j \in 0..(a.h - 1) PROVE At(u, i, j) = At(p, i, j)
  BY <1>2, <1>3, <1>4, <1>5
<1>7. u = p  BY <1>2, <1>3, <1>4, <1>6, SameMatrix DEF RowNos, ColNos
<1>8. QED BY <1>7 DEF u, p, t

LEMMA SumsTransposed ==
  ASSUME NEW a, IsImage(a), a.h > 1, a.w > 1
  PROVE  fSum(fTranspose(a)) = fTranspose(fSum2(a, 2))
<1> DEFINE t == fTranspose(a)
           c == fSum2(t, 1)
           r == fSum2(a, 2)
           u == fTranspose(r)
           V(i) == [k \in 0..(a.w - 1) |-> At(a, i, k)]
           W(j) == [k \in 0..(t.h - 1) |-> At(t, k, j)]
<1>1. IsMatrix(a) /\ a.h \in Nat /\ a.w \in Nat  BY DEF IsImage
<1>2. /\ IsMatrix(t) /\ t.h = a.w /\ t.w = a.h
      /\ \A i \in 0..(a.w - 1), j \in 0..(a.h - 1) : At(t, i, j) = At(a, j, i)
  BY <1>1, TransposeShape DEF RowNos, ColNos
<1>3. fSum(t) = c
  <2>1. t.h # 1  BY <1>2
  <2> HIDE DEF t
  <2>2. QED BY <2>1 DEF fSum
<1> HIDE DEF t
<1>4. /\ IsMatrix(c) /\ c.h = 1 /\ c.w = t.w
      /\ \A i \in 0..(1 - 1), j \in 0..(t.w - 1) : At(c, i, j) = SumOver(t.h, W(j))
  BY <1>2, ColumnSums
<1>5. /\ IsMatrix(r) /\ r.h = a.h /\ r.w = 1
      /\ \A i \in 0..(a.h - 1), j \in 0..(1 - 1) : At(r, i, j) = SumOver(a.w, V(i))
  BY <1>1, RowSums
<1> HIDE DEF c, r
<1>6. /\ IsMatrix(u) /\ u.h = 1 /\ u.w = a.h
      /\ \A i \in 0..(1 - 1), j \in 0..(a.h - 1) : At(u, i, j) = At(r, j, i)
  BY <1>5, TransposeShape DEF RowNos, ColNos
<1> HIDE DEF u
<1>7. \A j \in 0..(a.h - 1) : W(j) = V(j)  BY <1>2
<1> HIDE DEF V, W
<1>8. \A i \in 0..(1 - 1), j \in 0..(a.h - 1) : At(c, i, j) = At(u, i, j)
  BY <1>2, <1>4, <1>5, <1>6, <1>7
<1>9. c = u  BY <1>2, <1>4, <1>6, <1>8, SameMatrix DEF RowNos, ColNos
<1>10. QED BY <1>3, <1>9 DEF u, r, t

LEMMA CutIsWhole ==
  ASSUME NEW a, IsImage(a), NEW m, IsMatrix(m)
  PROVE  fDeepCopyRange(fHorzcat(a, m), 0, a.h, 0, a.w) = a
<1> DEFINE b == fHorzcat(a, m)
           c == fDeepCopyRange(b, 0, a.h, 0, a.w)
<1>1. IsMatrix(a) /\ a.h \in Nat /\ a.w \in Nat /\ m.w \in Nat  BY DEF IsImage, IsMatrix
<1>2. \A i \in 0..(a.h - 1), j \in 0..(a.w + m.w - 1) : At(b, i, j) = Beside(a, m, i, j)
  BY <1>1, HorzcatShape
<1> HIDE DEF b
<1>3. /\ IsMatrix(c) /\ c.h = a.h /\ c.w = a.w
      /\ \A i \in 0..(a.h - 1), j \in 0..(a.w - 1) : At(c, i, j) = At(b, i, j)
  BY <1>1, RangeShape
<1> HIDE DEF c
<1>4. ASSUME NEW i \in 0..(a.h - 1), NEW j \in 0..(a.w - 1) PROVE At(c, i, j) = At(a, i, j)
  <2>1. j \in 0..(a.w + m.w - 1) /\ j < a.w  BY <1>1
  <2>2. At(b, i, j) = Beside(a, m, i, j)  BY <1>1, <1>2, <2>1
  <2>3. QED BY <1>3, <2>1, <2>2 DEF Beside
<1>5. c = a  BY <1>1, <1>3, <1>4, SameMatrix DEF RowNos, ColNos
<1>6. QED BY <1>5 DEF c, b

LEMMA TwiceLessOnce ==
  ASSUME NEW a, IsImage(a)
  PROVE  fMinus(fTimes(a, fSetArray(a.h, a.w, 2)), a) = a
<1> DEFINE s == fSetArray(a.h, a.w, 2)
           b == fTimes(a, s)
           c == fMinus(b, a)
<1>1. IsMatrix(a) /\ a.h \in Nat /\ a.w \in Nat
      /\ \A i \in 0..(a.h - 1), j \in 0..(a.w - 1) : At(a, i, j) \in Int
  BY DEF IsImage, RowNos, ColNos
<1>2. \A i \in 0..(a.h - 1), j \in 0..(a.w - 1) : At(s, i, j) = 2  BY <1>1, SetArrayShape
<1> HIDE DEF s
<1>3. /\ IsMatrix(b) /\ b.h = a.h /\ b.w = a.w
      /\ \A i \in 0..(a.h - 1), j \in 0..(a.w - 1) : At(b, i, j) = At(a, i, j) * At(s, i, j)
  BY <1>1, TimesShape DEF RowNos, ColNos
<1> HIDE DEF b
<1>4. /\ IsMatrix(c) /\ c.h = a.h /\ c.w = a.w
      /\ \A i \in 0..(a.h - 1), j \in 0..(a.w - 1) : At(c, i, j) = At(b, i, j) - At(a, i, j)
  BY <1>3, MinusShape DEF RowNos, ColNos
<1> HIDE DEF c
<1>5. ASSUME NEW i \in 0..(a.h - 1), NEW j \in 0..(a.w - 1) PROVE At(c, i, j) = At(a, i, j)
  <2>1. At(a, i, j) \in Int /\ At(c, i, j) = At(a, i, j) * 2 - At(a, i, j)
    BY <1>1, <1>2, <1>3, <1>4
  <2>2. QED BY <2>1
<1>6. c = a  BY <1>1, <1>4, <1>5, SameMatrix DEF RowNos, ColNos
<1>7. QED BY <1>6 DEF c, b, s

(* The places that are not zero: one more with each cell that is not, and a  *)
(* place has one cell.                                                      *)
Cell(a, k) == LET i == (k - 1) % a.h
                  j == (k - 1) \div a.h IN <<j, i, At(a, i, j)>>
NonZero(a, n) == {k \in 1..n : Cell(a, k)[3] # 0}

LEMMA CellPlace ==
  ASSUME NEW h \in Nat \ {0}, NEW w \in Nat \ {0}, NEW k \in 1..(h * w)
  PROVE  (k - 1) % h \in 0..(h - 1) /\ (k - 1) \div h \in 0..(w - 1)
         /\ k = ((k - 1) \div h) * h + ((k - 1) % h) + 1
<1> DEFINE m == (k - 1) % h
           q == (k - 1) \div h
<1>1. h * w \in Nat /\ k \in Int /\ 1 <= k /\ k <= h * w  OBVIOUS
<1>2. k - 1 \in Int /\ m \in 0..(h - 1) /\ q \in Int /\ k - 1 = h * q + m  BY <1>1
<1> HIDE DEF m, q
<1>3. h * q = q * h /\ q * h \in Int  BY <1>2
<1>4. ~(q <= -1)
  <2>1. ASSUME q <= -1 PROVE FALSE
    <3>1. (-1 - q) * h >= 0  BY <1>2, <2>1
    <3>2. (-1 - q) * h = -h - q * h  BY <1>2
    <3>3. QED BY <1>1, <1>2, <1>3, <3>1, <3>2
  <2>2. QED BY <2>1
<1>5. ~(q >= w)
  <2>1. ASSUME q >= w PROVE FALSE
    <3>1. (q - w) * h >= 0  BY <1>2, <2>1
    <3>2. (q - w) * h = q * h - h * w  BY <1>2
    <3>3. QED BY <1>1, <1>2, <1>3, <3>1, <3>2
  <2>2. QED BY <2>1
<1>6. q \in 0..(w - 1)  BY <1>2, <1>4, <1>5
<1>7. k = q * h + m + 1  BY <1>1, <1>2, <1>3
<1>8. QED BY <1>2, <1>6, <1>7 DEF m, q

LEMMA FoundSteps ==
  ASSUME NEW a, IsImage(a)
  PROVE  /\ a.h * a.w \in Nat
         /\ \A k \in 0..(a.h * a.w) : Found(a)[k] \in Seq(Int \X Int \X Int)
         /\ Found(a)[0] = << >>
         /\ \A k \in 1..(a.h * a.w) :
              Found(a)[k] = IF Cell(a, k)[3] # 0 THEN Append(Found(a)[k - 1], Cell(a, k))
                            ELSE Found(a)[k - 1]
<1> DEFINE n == a.h * a.w
           S == Seq(Int \X Int \X Int)
           Put(s, k) == IF Cell(a, k)[3] # 0 THEN Append(s, Cell(a, k)) ELSE s
           Body(g) == [k \in 0..n |-> IF k = 0 THEN << >> ELSE Put(g[k - 1], k)]
           G == [p \in S \X (1..n) |-> Put(p[1], p[2])]
<1>1. n \in Nat /\ a.h \in Nat \ {0} /\ a.w \in Nat \ {0}
  <2>1. a.h \in Nat \ {0} /\ a.w \in Nat \ {0}  BY DEF IsImage
  <2>2. QED BY <2>1
<1>2. \A k \in 1..n : Cell(a, k) \in Int \X Int \X Int
  <2> TAKE k \in 1..n
  <2> DEFINE i == (k - 1) % a.h
             j == (k - 1) \div a.h
  <2>1. i \in 0..(a.h - 1) /\ j \in 0..(a.w - 1)  BY <1>1, CellPlace
  <2> HIDE DEF i, j
  <2>2. At(a, i, j) \in Int  BY <2>1 DEF IsImage, RowNos, ColNos
  <2>3. <<j, i, At(a, i, j)>> \in Int \X Int \X Int  BY <1>1, <2>1, <2>2
  <2>4. QED BY <2>3 DEF Cell, i, j
<1>3. \A s \in S, k \in 1..n : G[<<s, k>>] = Put(s, k) /\ G[<<s, k>>] \in S
  <2>1. ASSUME NEW s \in S, NEW k \in 1..n PROVE Put(s, k) \in S
    <3> DEFINE c == Cell(a, k)
    <3>1. c \in Int \X Int \X Int  BY <1>2
    <3> HIDE DEF c
    <3>2. Append(s, c) \in S  BY <3>1
    <3>3. QED BY <3>2 DEF c
  <2> HIDE DEF S, Put, n
  <2>2. QED BY <2>1
<1>4. << >> \in S  OBVIOUS
<1> HIDE DEF n, S, G
<1>5. PICK g \in [0..n -> S] : Runs(g, n, << >>, G)
  <2>1. Stays(n, S, G)  BY <1>3 DEF Stays
  <2>2. QED BY <1>1, <1>4, <2>1, Loop
<1>6. g = Body(g)
  <2>1. g = [k \in 0..n |-> g[k]]  OBVIOUS
  <2>2. \A k \in 0..n : g[k] = IF k = 0 THEN << >> ELSE Put(g[k - 1], k)
    <3>1. \A k \in 0..n : k # 0 => k \in 1..n /\ k - 1 \in 0..n  BY <1>1
    <3>2. g[0] = << >> /\ \A k \in 1..n : g[k] = G[<<g[k - 1], k>>]  BY <1>5 DEF Runs
    <3> HIDE DEF Put
    <3>3. \A k \in 1..n : g[k] = Put(g[k - 1], k)
      <4> TAKE k \in 1..n
      <4>1. k - 1 \in 0..n  BY <1>1
      <4>2. QED BY <1>3, <3>2, <4>1
    <3>4. QED BY <3>1, <3>2, <3>3
  <2> HIDE DEF Put
  <2>3. QED BY <2>1, <2>2
<1>7. Found(a) = CHOOSE x : x = Body(x)  BY DEF Found, Cell, n
<1>8. Found(a) = Body(Found(a))
  <2> HIDE DEF Body
  <2>1. QED BY <1>6, <1>7
<1> DEFINE w == Found(a)
<1>9. w[0] = << >> /\ \A k \in 1..n : w[k] = Put(w[k - 1], k)
  <2> HIDE DEF w, Put
  <2>1. w = Body(w)  BY <1>8 DEF w
  <2>2. 0 \in 0..n /\ \A k \in 1..n : k \in 0..n /\ k # 0  BY <1>1
  <2>3. QED BY <2>1, <2>2
<1>10. \A k \in 0..n : w[k] \in S
  <2> DEFINE T == {k \in 0..n : w[k] \in S}
  <2> HIDE DEF w
  <2>1. 0 \in T  BY <1>1, <1>4, <1>9
  <2>2. ASSUME NEW k \in 0..(n - 1), k \in T PROVE k + 1 \in T
    <3>1. k + 1 \in 1..n /\ (k + 1) - 1 = k /\ k + 1 \in 0..n  BY <1>1
    <3> HIDE DEF Put
    <3>2. w[k + 1] = Put(w[k], k + 1)  BY <1>9, <3>1
    <3>3. Put(w[k], k + 1) \in S  BY <1>3, <2>2, <3>1
    <3>4. QED BY <3>1, <3>2, <3>3
  <2> HIDE DEF T
  <2>3. \A k \in 0..n : k \in T  BY <1>1, <2>1, <2>2, BoundedInduction
  <2>4. QED BY <2>3 DEF T
<1>11. QED BY <1>1, <1>9, <1>10 DEF n, S

LEMMA FoundCounts ==
  ASSUME NEW a, IsImage(a), NEW k \in 0..(a.h * a.w)
  PROVE  IsFiniteSet(NonZero(a, k)) /\ Len(Found(a)[k]) = Cardinality(NonZero(a, k))
<1> DEFINE n == a.h * a.w
           w == Found(a)
           S == Seq(Int \X Int \X Int)
           T == {m \in 0..n : IsFiniteSet(NonZero(a, m)) /\ Len(w[m]) = Cardinality(NonZero(a, m))}
<1>1. /\ n \in Nat /\ \A m \in 0..n : w[m] \in S
      /\ w[0] = << >>
      /\ \A m \in 1..n : w[m] = IF Cell(a, m)[3] # 0 THEN Append(w[m - 1], Cell(a, m)) ELSE w[m - 1]
  BY FoundSteps
<1> HIDE DEF n, w
<1>2. 0 \in T
  <2>1. NonZero(a, 0) = {}  BY DEF NonZero
  <2>2. Len(w[0]) = 0  BY <1>1
  <2>3. IsFiniteSet({}) /\ Cardinality({}) = 0  BY FS_EmptySet
  <2>4. 0 \in 0..n  BY <1>1
  <2>5. QED BY <2>1, <2>2, <2>3, <2>4
<1>3. ASSUME NEW m \in 0..(n - 1), m \in T PROVE m + 1 \in T
  <2>1. m + 1 \in 1..n /\ (m + 1) - 1 = m /\ m \in 0..n /\ m + 1 \in 0..n /\ m + 1 \notin NonZero(a, m)
    BY <1>1 DEF NonZero
  <2>2. w[m + 1] = IF Cell(a, m + 1)[3] # 0 THEN Append(w[m], Cell(a, m + 1)) ELSE w[m]
    BY <1>1, <2>1
  <2>3. IsFiniteSet(NonZero(a, m)) /\ Len(w[m]) = Cardinality(NonZero(a, m)) /\ w[m] \in S
    BY <1>1, <1>3, <2>1
  <2>4. CASE Cell(a, m + 1)[3] # 0
    <3>1. NonZero(a, m + 1) = NonZero(a, m) \cup {m + 1}
      <4>1. \A x \in 1..(m + 1) : x = m + 1 \/ x \in 1..m  BY <1>1
      <4>2. \A x \in 1..m : x \in 1..(m + 1)  BY <1>1
      <4>3. QED BY <2>1, <2>4, <4>1, <4>2 DEF NonZero
    <3>2. Len(w[m + 1]) = Len(w[m]) + 1  BY <2>2, <2>3, <2>4
    <3>3. IsFiniteSet(NonZero(a, m + 1)) /\ Cardinality(NonZero(a, m + 1)) = Cardinality(NonZero(a, m)) + 1
      BY <2>1, <2>3, <3>1, FS_AddElement
    <3>4. QED BY <2>1, <2>3, <3>2, <3>3
  <2>5. CASE ~(Cell(a, m + 1)[3] # 0)
    <3>1. NonZero(a, m + 1) = NonZero(a, m)
      <4>1. \A x \in 1..(m + 1) : x = m + 1 \/ x \in 1..m  BY <1>1
      <4>2. \A x \in 1..m : x \in 1..(m + 1)  BY <1>1
      <4>3. QED BY <2>1, <2>5, <4>1, <4>2 DEF NonZero
    <3>2. QED BY <2>1, <2>2, <2>3, <2>5, <3>1
  <2>6. QED BY <2>4, <2>5
<1> HIDE DEF T
<1>4. \A m \in 0..n : m \in T  BY <1>1, <1>2, <1>3, BoundedInduction
<1>5. QED BY <1>4 DEF T, n, w

LEMMA FoundAll ==
  ASSUME NEW a, IsImage(a)
  PROVE  Len(fFind3(a)) = Cardinality({x \in DOMAIN a.at : a.at[x] # 0})
<1> DEFINE n == a.h * a.w
           F == NonZero(a, n)
           P == {x \in DOMAIN a.at : a.at[x] # 0}
           Place(k) == <<(k - 1) % a.h, (k - 1) \div a.h>>
           f == [k \in F |-> Place(k)]
<1>1. a.h \in Nat \ {0} /\ a.w \in Nat \ {0} /\ n \in Nat /\ n \in 0..n
  <2>1. a.h \in Nat \ {0} /\ a.w \in Nat \ {0}  BY DEF IsImage
  <2>2. QED BY <2>1
<1>2. IsFiniteSet(F) /\ Len(fFind3(a)) = Cardinality(F)  BY <1>1, FoundCounts DEF fFind3
<1>3. ASSUME NEW k \in 1..n
      PROVE  /\ Place(k) = <<(k - 1) % a.h, (k - 1) \div a.h>>
             /\ (k - 1) % a.h \in 0..(a.h - 1) /\ (k - 1) \div a.h \in 0..(a.w - 1)
             /\ k = ((k - 1) \div a.h) * a.h + ((k - 1) % a.h) + 1
             /\ Place(k) \in DOMAIN a.at /\ Cell(a, k)[3] = a.at[Place(k)]
  <2>1. /\ (k - 1) % a.h \in 0..(a.h - 1) /\ (k - 1) \div a.h \in 0..(a.w - 1)
        /\ k = ((k - 1) \div a.h) * a.h + ((k - 1) % a.h) + 1
    BY <1>1, CellPlace
  <2>2. Place(k) \in DOMAIN a.at
    <3> DEFINE i == (k - 1) % a.h
               j == (k - 1) \div a.h
    <3>1. i \in 0..(a.h - 1) /\ j \in 0..(a.w - 1)  BY <2>1
    <3> HIDE DEF i, j
    <3>2. i \in Int /\ j \in Int  BY <1>1, <3>1
    <3>3. <<i, j>> \in DOMAIN a.at  BY <3>1, <3>2, ImagePlaces
    <3>4. QED BY <3>3 DEF i, j
  <2>3. Cell(a, k)[3] = a.at[Place(k)]  BY DEF Cell, At
  <2>4. QED BY <2>1, <2>2, <2>3
<1>4. ASSUME NEW x \in P PROVE \E k \in F : Place(k) = x
  <2>1. x \in Size(a.h, a.w)  BY DEF IsImage, IsMatrix
  <2>2. PICK i \in 0..(a.h - 1), j \in 0..(a.w - 1) : x = <<i, j>>  BY <2>1 DEF Size
  <2> DEFINE k == j * a.h + i + 1
  <2>3. j * a.h \in Nat /\ (a.w - 1 - j) * a.h >= 0 /\ (a.w - 1 - j) * a.h = n - a.h - j * a.h
        /\ j \in Int /\ i \in Int
    <3>1. a.w - 1 - j \in Nat /\ j \in Nat  BY <1>1
    <3>2. j * a.h \in Nat /\ (a.w - 1 - j) * a.h >= 0  BY <1>1, <3>1
    <3> DEFINE h == a.h
               w == a.w
    <3>3. (w - 1 - j) * h = w * h - h - j * h
      <4>1. h \in Int /\ w \in Int /\ j \in Int  BY <1>1, <3>1
      <4> HIDE DEF h, w
      <4>2. QED BY <4>1
    <3>4. a.w * a.h = n  BY <1>1
    <3>5. QED BY <1>1, <3>1, <3>2, <3>3, <3>4
  <2>4. k \in 1..n /\ k - 1 \in Int /\ k - 1 = j * a.h + i
    <3> HIDE DEF n
    <3>1. QED BY <1>1, <2>3
  <2> HIDE DEF k, n
  <2>5. (k - 1) \div a.h = j /\ (k - 1) % a.h = i  BY <1>1, <2>3, <2>4, DivMod
  <2>6. Place(k) = x  BY <2>2, <2>5
  <2> HIDE DEF Place
  <2>7. Cell(a, k)[3] # 0  BY <1>3, <2>4, <2>6
  <2>8. QED BY <2>4, <2>6, <2>7 DEF NonZero
<1>5. \A k \in F : k \in 1..n /\ Cell(a, k)[3] # 0  BY DEF NonZero
<1>6. f \in [F -> P]
  <2> HIDE DEF F, Place
  <2>1. QED BY <1>3, <1>5
<1>7. \A k, m \in F : f[k] = f[m] => k = m
  <2> TAKE k, m \in F
  <2>1. k \in 1..n /\ m \in 1..n  BY <1>5
  <2>2. f[k] = Place(k) /\ f[m] = Place(m)
    <3> HIDE DEF F, Place
    <3>1. QED OBVIOUS
  <2> HIDE DEF f
  <2>3. ASSUME f[k] = f[m] PROVE k = m
    <3>1. Place(k) = Place(m)  BY <2>2, <2>3
    <3>2. (k - 1) % a.h = (m - 1) % a.h /\ (k - 1) \div a.h = (m - 1) \div a.h  BY <3>1
    <3>3. k = ((k - 1) \div a.h) * a.h + ((k - 1) % a.h) + 1
          /\ m = ((m - 1) \div a.h) * a.h + ((m - 1) % a.h) + 1
      BY <1>3, <2>1
    <3>4. QED BY <3>2, <3>3
  <2>4. QED BY <2>3
<1> HIDE DEF F, P, Place
<1>8. \A x \in P : \E k \in F : f[k] = x  BY <1>4
<1> HIDE DEF f
<1>9. f \in Bijection(F, P)
  BY <1>6, <1>7, <1>8 DEF Bijection, Injection, Surjection, IsInjective
<1>10. ExistsBijection(F, P)  BY <1>9 DEF ExistsBijection
<1>11. Cardinality(F) = Cardinality(P)  BY <1>2, <1>10, FS_Bijection
<1>12. QED BY <1>2, <1>11 DEF P
-----------------------------------------------------------------------------
(* Bitmaps.                                                                 *)
LEMMA RowIsLongEnough ==
  ASSUME NEW w \in Nat \ {0}, NEW v \in {1, 3}
  PROVE  LET l == RowLength(w, v) IN
         l \in Nat /\ l >= v * w /\ ((v * w) % 4 = 0 => l = v * w)
<1>1. v \in Int /\ w \in Int /\ v * w \in Nat  OBVIOUS
<1> DEFINE m == v * w
<1>2. RowLength(w, v) = ((m + 3) \div 4) * 4  BY DEF RowLength
<1> HIDE DEF m
<1>3. m \in Nat  BY <1>1 DEF m
<1>4. ((m + 3) \div 4) * 4 \in Nat /\ ((m + 3) \div 4) * 4 >= m
      /\ (m % 4 = 0 => ((m + 3) \div 4) * 4 = m)
  BY <1>3
<1>5. QED BY <1>2, <1>4 DEF m

LEMMA BitmapPixel ==
  ASSUME NEW a, IsImage(a), NEW v \in {1, 3}, (v * a.w) % 4 = 0 \/ a.h = 1,
         NEW i \in 0..(a.h - 1), NEW j \in 0..(a.w - 1), NEW o \in 0..(v - 1)
  PROVE  Bitmap(a, v)[(a.h - 1 - i) * (v * a.w) + v * j + o + 1] = At(a, i, j)
<1> DEFINE h == a.h
           w == a.w
           l == RowLength(a.w, v)
           q == h - 1 - i
           c == v * j + o
           n == q * l + c
<1>1. /\ h \in Nat \ {0} /\ w \in Nat \ {0} /\ v * w \in Nat \ {0} /\ l \in Nat /\ l >= v * w
      /\ (l = v * w \/ h = 1)
  <2>1. h \in Nat \ {0} /\ w \in Nat \ {0}  BY DEF IsImage
  <2>2. l \in Nat /\ l >= v * a.w /\ ((v * a.w) % 4 = 0 => l = v * a.w)  BY <2>1, RowIsLongEnough
  <2>3. v * w \in Nat \ {0}  BY <2>1
  <2> HIDE DEF l
  <2>4. QED BY <2>1, <2>2, <2>3
<1>2. /\ q \in 0..(h - 1) /\ h - 1 - q = i
      /\ j \in 0..(w - 1) /\ c \in Nat /\ c < v * w /\ c = j * v + o
  <2>1. h \in Int /\ w \in Int /\ i \in 0..(h - 1) /\ j \in 0..(w - 1)  BY <1>1
  <2> HIDE DEF h, w
  <2>2. QED BY <2>1
<1> HIDE DEF l, h, w, q, c
<1>3. q * (v * w) = q * l
  <2>1. CASE l = v * w  BY <2>1
  <2>2. CASE h = 1
    <3>1. q = 0  BY <1>2, <2>2
    <3>2. QED BY <1>1, <3>1
  <2>3. QED BY <1>1, <2>1, <2>2
<1>4. l \in Nat \ {0} /\ c \in 0..(l - 1) /\ q \in Int
  <2>1. v * w \in Int /\ c \in Int  BY <1>1, <1>2
  <2> DEFINE m == v * w
  <2> HIDE DEF m
  <2>2. m \in Nat \ {0} /\ l >= m /\ c < m  BY <1>1, <1>2 DEF m
  <2>3. QED BY <1>1, <1>2, <2>2
<1>5. n \in Int /\ n >= 0 /\ n + 1 \in 1..(h * l)
  <2>1. q * l >= 0 /\ q * l \in Int /\ h * l \in Int  BY <1>1, <1>2, <1>4
  <2>2. (h - 1 - q) * l >= 0 /\ (h - 1 - q) * l = h * l - l - q * l
    <3>1. h \in Int /\ q \in Int /\ l \in Int /\ h - 1 - q \in Nat  BY <1>1, <1>2, <1>4
    <3>2. QED BY <1>4, <3>1
  <2>3. QED BY <1>4, <2>1, <2>2
<1>6. n \div l = q /\ n % l = c  BY <1>4, <1>5, DivMod
<1>7. c \div v = j
  <2>1. v \in Nat \ {0} /\ j \in Int /\ c \in Int  BY <1>2
  <2>2. QED BY <1>2, <2>1, DivMod
<1> DEFINE m == n + 1
<1>8. m \in 1..(h * l) /\ m - 1 = n  BY <1>5
<1> HIDE DEF n, m
<1>9. Bitmap(a, v)[m] = IF n % l < v * w THEN At(a, h - 1 - (n \div l), (n % l) \div v) ELSE -1
  BY <1>8 DEF Bitmap, h, w, l
<1>10. Bitmap(a, v)[m] = At(a, i, j)  BY <1>2, <1>6, <1>7, <1>9
<1>11. m = (h - 1 - i) * (v * w) + v * j + o + 1
  <2>1. m = q * (v * w) + (v * j + o) + 1  BY <1>3 DEF m, n, c
  <2>2. q * (v * w) \in Int /\ v * j \in Int /\ o \in Int  BY <1>1, <1>2
  <2> DEFINE x == q * (v * w)
             y == v * j
  <2>3. x \in Int /\ y \in Int /\ o \in Int /\ m = x + (y + o) + 1  BY <2>1, <2>2
  <2> HIDE DEF x, y
  <2>4. m = x + y + o + 1  BY <2>3
  <2>5. QED BY <2>4 DEF x, y, q
<1>12. QED BY <1>10, <1>11 DEF h, w

(* Reading a bitmap gives the image it was written from.                    *)
LEMMA ReadBack ==
  ASSUME NEW a, IsImage(a), NEW v \in {1, 3}, (v * a.w) % 4 = 0 \/ a.h = 1
  PROVE  readImage(Bitmap(a, v), a.h, a.w, 8 * v) = a
<1> DEFINE b == Bitmap(a, v)
           V(i, j) == IF v = 1 THEN b[(a.h - 1 - i) * a.w + j + 1]
                      ELSE b[((a.h - 1 - i) * a.w + j) * 3 + 2]
           f == [x \in Size(a.h, a.w) |-> V(x[1], x[2])]
           c == Filling(a.h, a.w, f)
<1>1. IsMatrix(a) /\ a.h \in Nat /\ a.w \in Nat  BY DEF IsImage
<1>2. readImage(b, a.h, a.w, 8 * v) = c
  <2>1. CASE v = 1
    <3>1. 8 * v = 8  BY <2>1
    <3> HIDE DEF b
    <3>2. readImage(b, a.h, a.w, 8) = c  BY <2>1 DEF readImage, Mat, Filling
    <3>3. QED BY <3>1, <3>2
  <2>2. CASE v = 3
    <3>1. 8 * v = 24 /\ v # 1  BY <2>2
    <3> HIDE DEF b
    <3>2. readImage(b, a.h, a.w, 24) = c  BY <3>1 DEF readImage, Mat, Filling
    <3>3. QED BY <3>1, <3>2
  <2>3. QED BY <2>1, <2>2
<1>3. ASSUME NEW i \in 0..(a.h - 1), NEW j \in 0..(a.w - 1) PROVE V(i, j) = At(a, i, j)
  <2> DEFINE r == (a.h - 1 - i) * a.w
             s == (a.h - 1 - i) * (v * a.w)
  <2>1. i \in Int /\ j \in Int /\ r \in Int  BY <1>1
  <2>2. s = v * r
    <3> DEFINE p == a.h - 1 - i
               w == a.w
    <3>1. p \in Int /\ w \in Int  BY <1>1, <2>1
    <3> HIDE DEF p, w
    <3>2. p * (v * w) = v * (p * w)  BY <3>1
    <3>3. QED BY <3>2 DEF p, w
  <2>3. CASE v = 1
    <3>1. 0 \in 0..(v - 1) /\ b[s + v * j + 0 + 1] = At(a, i, j)  BY <2>3, BitmapPixel
    <3> HIDE DEF r, s, b
    <3>2. s + v * j + 0 + 1 = r + j + 1  BY <2>1, <2>2, <2>3
    <3>3. QED BY <2>3, <3>1, <3>2 DEF r
  <2>4. CASE v = 3
    <3>1. 1 \in 0..(v - 1) /\ b[s + v * j + 1 + 1] = At(a, i, j)  BY <2>4, BitmapPixel
    <3> HIDE DEF r, s, b
    <3>2. s + v * j + 1 + 1 = (r + j) * 3 + 2  BY <2>1, <2>2, <2>4
    <3>3. QED BY <2>4, <3>1, <3>2 DEF r
  <2>5. QED BY <2>3, <2>4
<1>4. f = [x \in Size(a.h, a.w) |-> f[x]]
      /\ \A i \in 0..(a.h - 1), j \in 0..(a.w - 1) :
           <<i, j>> \in Size(a.h, a.w) => f[<<i, j>>] = V(i, j)
  <2> HIDE DEF V
  <2>1. QED OBVIOUS
<1> HIDE DEF V, f
<1>5. /\ IsMatrix(c) /\ c.h = a.h /\ c.w = a.w
      /\ \A i \in 0..(a.h - 1), j \in 0..(a.w - 1) :
           <<i, j>> \in Size(a.h, a.w) /\ At(c, i, j) = f[<<i, j>>]
  BY <1>1, <1>4, Filled
<1> HIDE DEF c
<1>6. c = a
  <2>1. \A i \in RowNos(a), j \in ColNos(a) : At(a, i, j) = At(c, i, j)
    BY <1>3, <1>4, <1>5 DEF RowNos, ColNos
  <2>2. QED BY <1>1, <1>5, <2>1, SameMatrix
<1>7. QED BY <1>2, <1>6

-----------------------------------------------------------------------------
(* What the routines are called with, and what they return.                 *)
Answered ==
  /\ call.op = "sort" => call.v \in Vectors /\ result = fSortIndices(call.v)
  /\ call.op \in {"conv", "resize", "dX", "read", "shape"} => call.a \in Images
  /\ call.op = "conv" => call.b \in Kernels /\ result = ffConv2(call.a, call.b)
  /\ call.op = "resize" => result = imageResize(call.a)
  /\ call.op = "dX" => result = calcSobel_dX(call.a)
  /\ call.op = "read" =>
       /\ call.bits \in {8, 24, 32}
       /\ result = readImage(Bitmap(call.a, call.bits \div 8), call.a.h, call.a.w, call.bits)
  /\ call.op = "shape" => result = fReshape(call.a, call.a.w, call.a.h)
  /\ call.op = "check" =>
       /\ call.v \in Results /\ call.file \in ExpectedFiles
       /\ result = <<fSelfCheck(call.v, call.file), selfCheck(call.v, call.file)>>
  /\ call.op = "time" =>
       /\ call.s \in 0..(Word * Word - 1) /\ call.d \in 0..(Word - 1) /\ call.arm \in BOOLEAN
       /\ result = photonReportTiming(photonStartTiming(call.s, call.arm),
                                      photonEndTiming(call.s + call.d, call.arm))

LEMMA MatrixAnswered == MSpec => []Answered
<1>1. MInit => Answered  BY DEF MInit, Answered
<1>2. Answered /\ [MNext]_mvars => Answered'
  <2> SUFFICES ASSUME Answered, [MNext]_mvars PROVE Answered'  OBVIOUS
  <2>1. CASE Sort  BY <2>1 DEF Sort, Calls, Answered
  <2>2. CASE Convolve
    <3>1. PICK a \in Images, b \in Kernels : Calls([op |-> "conv", a |-> a, b |-> b], ffConv2(a, b))
      BY <2>2 DEF Convolve
    <3>2. /\ call'.op = "conv" /\ call'.a \in Images /\ call'.b \in Kernels
          /\ result' = ffConv2(call'.a, call'.b)
      BY <3>1 DEF Calls
    <3>3. QED BY <3>2 DEF Answered
  <2>3. CASE Shrink
    <3>1. PICK a \in Images : Calls([op |-> "resize", a |-> a], imageResize(a))  BY <2>3 DEF Shrink
    <3>2. call'.op = "resize" /\ call'.a \in Images /\ result' = imageResize(call'.a)
      BY <3>1 DEF Calls
    <3>3. QED BY <3>2 DEF Answered
  <2>4. CASE Derive
    <3>1. PICK a \in Images : Calls([op |-> "dX", a |-> a], calcSobel_dX(a))  BY <2>4 DEF Derive
    <3>2. call'.op = "dX" /\ call'.a \in Images /\ result' = calcSobel_dX(call'.a)
      BY <3>1 DEF Calls
    <3>3. QED BY <3>2 DEF Answered
  <2>5. CASE Read
    <3>1. PICK a \in Images, bits \in {8, 24, 32} :
            Calls([op |-> "read", a |-> a, bits |-> bits],
                  readImage(Bitmap(a, bits \div 8), a.h, a.w, bits))
      BY <2>5 DEF Read
    <3>2. /\ call'.op = "read" /\ call'.a \in Images /\ call'.bits \in {8, 24, 32}
          /\ result' = readImage(Bitmap(call'.a, call'.bits \div 8), call'.a.h, call'.a.w, call'.bits)
      BY <3>1 DEF Calls
    <3>3. QED BY <3>2 DEF Answered
  <2>6. CASE Shape
    <3>1. PICK a \in Images : Calls([op |-> "shape", a |-> a], fReshape(a, a.w, a.h))  BY <2>6 DEF Shape
    <3>2. call'.op = "shape" /\ call'.a \in Images /\ result' = fReshape(call'.a, call'.a.w, call'.a.h)
      BY <3>1 DEF Calls
    <3>3. QED BY <3>2 DEF Answered
  <2>7. CASE Check
    <3>1. PICK v \in Results, file \in ExpectedFiles :
            Calls([op |-> "check", v |-> v, file |-> file],
                  <<fSelfCheck(v, file), selfCheck(v, file)>>)
      BY <2>7 DEF Check
    <3>2. QED BY <3>1 DEF Calls, Answered
  <2>8. CASE Time  BY <2>8 DEF Time, Calls, Answered
  <2>9. CASE UNCHANGED mvars  BY <2>9 DEF mvars, Answered
  <2>10. QED BY <2>1, <2>2, <2>3, <2>4, <2>5, <2>6, <2>7, <2>8, <2>9 DEF MNext
<1>3. QED BY <1>1, <1>2, PTL DEF MSpec

(* However long the column: its positive elements are listed first, each     *)
(* once and in falling order, and none is left where it is sorted in place.  *)
THEOREM SortListsPositives == MSpec => []PositivesSorted
<1>1. ASSUME Answered PROVE PositivesSorted
  <2> SUFFICES ASSUME call.op = "sort"
               PROVE  LET v == call.v
                          count == Cardinality({i \in DOMAIN v : v[i] > 0}) IN
                      /\ \A k \in 1..count : v[result[k]] > 0 /\ \A m \in 1..(k - 1) :
                           result[m] # result[k] /\ v[result[m]] >= v[result[k]]
                      /\ \A i \in DOMAIN v : iSortIndices(v).in[i] <= 0
                      /\ Len(result) = Len(v)
    BY DEF PositivesSorted
  <2> DEFINE v == call.v
             n == Len(v)
             c == Cardinality(Positive(v))
             walk == Sorting(v)[n]
  <2>1. v \in Seq(Int) /\ result = walk.ind /\ iSortIndices(v) = walk
    BY <1>1, MatrixAssumption DEF Answered, fSortIndices, iSortIndices
  <2>2. walk \in Walks(n) /\ Chosen(v, walk, n)
    <3> HIDE DEF v
    <3>1. QED BY <2>1, PositivesFirst
  <2>3. IsFiniteSet(Positive(v)) /\ c \in 0..n /\ n \in Nat /\ DOMAIN v = 1..n
    <3> HIDE DEF v
    <3>1. QED BY <2>1, PositiveFinite
  <2> HIDE DEF walk, v, c, n
  <2>4. /\ Len(walk.ind) = n
        /\ \A j \in DOMAIN v : walk.in[j] = IF j \in Taken(walk) THEN 0 ELSE v[j]
        /\ n <= c => Taken(walk) \subseteq Positive(v) /\ Cardinality(Taken(walk)) = n
        /\ n > c => Positive(v) \subseteq Taken(walk)
        /\ \A m \in 1..n : m <= c =>
             /\ v[walk.ind[m]] > 0
             /\ \A l \in 1..(m - 1) : walk.ind[l] # walk.ind[m] /\ v[walk.ind[l]] >= v[walk.ind[m]]
    BY <2>2 DEF Chosen, c
  <2>5. \A k \in 1..c : k \in 1..n /\ k <= c  BY <2>3
  <2>6. Positive(v) \subseteq Taken(walk)
    <3>1. CASE n > c  BY <2>4, <3>1
    <3>2. CASE ~(n > c)
      <4>1. n = c  BY <2>3, <3>2
      <4>2. Taken(walk) \subseteq Positive(v) /\ Cardinality(Taken(walk)) = Cardinality(Positive(v))
        BY <2>3, <2>4, <4>1 DEF c
      <4>3. QED BY <2>3, <4>2, FS_Subset
    <3>3. QED BY <3>1, <3>2
  <2>7. ASSUME NEW i \in DOMAIN v PROVE walk.in[i] <= 0
    <3>1. CASE i \in Taken(walk)  BY <2>4, <3>1
    <3>2. CASE i \notin Taken(walk)
      <4>1. walk.in[i] = v[i] /\ ~(v[i] > 0)  BY <2>4, <2>6, <3>2 DEF Positive
      <4>2. v[i] \in Int  BY <2>1
      <4>3. QED BY <4>1, <4>2
    <3>3. QED BY <3>1, <3>2
  <2>8. c = Cardinality({i \in DOMAIN v : v[i] > 0})  BY DEF c, Positive
  <2>9. QED BY <2>1, <2>4, <2>5, <2>7, <2>8 DEF v, n
<1>2. QED BY <1>1, MatrixAnswered, PTL

(* For results and files of any length and any count of cycles: a check      *)
(* passes another length only where the file does not end with a blank, and  *)
(* has then written behind its buffer; the time is right without a carry.    *)
THEOREM ReportsTrue == MSpec => []ReportsHold
<1>1. ASSUME Answered, call.op = "check", result[1].ret = 1
      PROVE  (Len(call.file.numbers) = Len(call.v) <=> ~result[1].overrun)
             /\ (result[1].overrun <=> ~call.file.blank /\ call.file.numbers # << >>)
  <2> DEFINE n == Len(call.v)
             m == Len(call.file.numbers)
             empty == call.file.numbers = << >>
  <2>1. /\ n \in Nat /\ m \in Nat /\ call.file.blank \in BOOLEAN
        /\ empty <=> m = 0
    <3>1. call.v \in Seq(Int) /\ call.file.numbers \in Seq(Int)
      <4>1. call.v \in Results /\ call.file \in ExpectedFiles
        BY <1>1 DEF Answered
      <4>2. call.file.numbers \in Results \cup {<< >>}
        BY <4>1 DEF ExpectedFiles
      <4>3. Results \subseteq Seq(Int)  BY MatrixAssumption
      <4>4. << >> \in Seq(Int)  OBVIOUS
      <4>5. QED BY <4>1, <4>2, <4>3, <4>4
    <3>2. call.file.blank \in BOOLEAN  BY <1>1 DEF Answered, ExpectedFiles
    <3>3. call.file.numbers = << >> <=> Len(call.file.numbers) = 0  BY <3>1
    <3>4. n \in Nat /\ m \in Nat  BY <3>1
    <3>5. QED BY <3>2, <3>3, <3>4
  <2>2. result[1] = fSelfCheck(call.v, call.file)  BY <1>1 DEF Answered
  <2>3. call.file.opens /\ Counted(call.file) = n
    <3>1. ASSUME ~(call.file.opens /\ Counted(call.file) = n) PROVE FALSE
      <4>1. fSelfCheck(call.v, call.file).ret = -1  BY <3>1 DEF fSelfCheck
      <4>2. QED BY <1>1, <2>2, <4>1
    <3>2. QED BY <3>1
  <2>4. result[1].overrun = (m > n)  BY <2>2, <2>3 DEF fSelfCheck, Overrun
  <2>5. (IF call.file.blank \/ empty THEN m ELSE m - 1) = n  BY <2>3 DEF Counted
  <2> HIDE DEF n, m, empty
  <2>6. (m = n <=> ~(m > n)) /\ (m > n <=> ~call.file.blank /\ ~empty)
    BY <2>1, <2>5
  <2>7. QED BY <2>4, <2>6 DEF n, m, empty
<1>2. ASSUME Answered, call.op = "time"
      PROVE  (result = <<call.d, 0>>) <=> call.arm \/ ~((call.s % Word) + call.d >= Word)
  BY <1>2, TimeTold DEF Answered
<1>3. Answered => ReportsHold  BY <1>1, <1>2 DEF ReportsHold
<1>4. QED BY <1>3, MatrixAnswered, PTL

(* Whatever the images and kernels, of any sizes: the two convolutions, the  *)
(* smaller image, the derivatives, the reshaped matrix and the image read    *)
(* back are what the other way to compute them gives.                        *)
THEOREM RoutinesMatch == MSpec => []RoutinesMatchReference
<1> DEFINE a == call.a
<1>1. ASSUME Answered, call.op \in {"conv", "resize", "dX", "read", "shape"}
      PROVE  IsImage(a) /\ IsMatrix(a) /\ a.h \in Nat /\ a.w \in Nat
  BY <1>1, ImagesAre DEF Answered, IsImage
<1>2. ASSUME Answered, call.op = "conv" PROVE RoutinesMatchReference
  <2>1. IsImage(a) /\ IsImage(call.b) /\ result = ffConv2(a, call.b)
    BY <1>1, <1>2, ImagesAre DEF Answered
  <2>2. call.b.h % 2 = 1 /\ call.b.w % 2 = 1 => result = iiConv2(a, call.b)
    BY <2>1, ConvolutionsAgree
  <2>3. QED BY <1>2, <2>2 DEF RoutinesMatchReference
<1>3. ASSUME Answered, call.op = "resize" PROVE RoutinesMatchReference
  <2>1. IsMatrix(a) /\ result = imageResize(a)  BY <1>1, <1>3 DEF Answered
  <2>2. \A x \in DOMAIN result.at :
          LET p == <<2 * x[1] + 2, 2 * x[2] + 2>> IN
          result.at[x] = IF p \in DOMAIN a.at THEN imageBlur(a).at[p] ELSE 0
    BY <2>1, SmallerIsBlurred
  <2>3. QED BY <1>3, <2>2 DEF RoutinesMatchReference
<1>4. ASSUME Answered, call.op = "dX" PROVE RoutinesMatchReference
  <2>1. IsMatrix(a) /\ result = calcSobel_dX(a)  BY <1>1, <1>4 DEF Answered
  <2>2. result = fTranspose(calcSobel_dY(fTranspose(a)))  BY <2>1, DerivativesTransposed
  <2>3. QED BY <1>4, <2>2 DEF RoutinesMatchReference
<1>5. ASSUME Answered, call.op = "shape" PROVE RoutinesMatchReference
  <2>1. IsImage(a) /\ IsMatrix(a) /\ result = fReshape(a, a.w, a.h)  BY <1>1, <1>5 DEF Answered
  <2>2. result = fTranspose(a)  BY <2>1, ReshapeTransposes
  <2>3. fHorzcat(a, fMinus(a, a)) = fTranspose(ffVertcat(result, fMinus(result, result)))
    BY <2>1, <2>2, NegativeBeside
  <2>4. horzcat(a, a, a) = fHorzcat(fHorzcat(a, a), a)  BY <2>1, ThreeBeside
  <2>5. fTranspose(fMtimes(a, result)) = fMtimes(a, result)  BY <2>1, <2>2, ProductSymmetric
  <2>6. a.h > 1 /\ a.w > 1 => fSum(result) = fTranspose(fSum2(a, 2))
    BY <2>1, <2>2, SumsTransposed
  <2>7. fDeepCopyRange(fHorzcat(a, fMinus(a, a)), 0, a.h, 0, a.w) = a
    <3>1. IsMatrix(fMinus(a, a))  BY <2>1, MinusShape
    <3>2. QED BY <2>1, <3>1, CutIsWhole
  <2>8. fMinus(fTimes(a, fSetArray(a.h, a.w, 2)), a) = a  BY <2>1, TwiceLessOnce
  <2>9. Len(fFind3(a)) = Cardinality({x \in DOMAIN a.at : a.at[x] # 0})  BY <2>1, FoundAll
  <2>10. call.op \notin {"conv", "resize", "dX"}  BY <1>5
  <2>11. QED
    BY <1>5, <2>2, <2>3, <2>4, <2>5, <2>6, <2>7, <2>8, <2>9, <2>10 DEF RoutinesMatchReference
<1>6. ASSUME Answered, call.op = "read" PROVE RoutinesMatchReference
  <2>1. /\ IsImage(a) /\ call.bits \in {8, 24, 32}
        /\ result = readImage(Bitmap(a, call.bits \div 8), a.h, a.w, call.bits)
    BY <1>1, <1>6 DEF Answered
  <2>2. CASE call.bits = 32
    <3>1. result = << >>  BY <2>1, <2>2 DEF readImage
    <3>2. QED BY <1>6, <2>2, <3>1 DEF RoutinesMatchReference
  <2>3. CASE call.bits # 32
    <3> DEFINE v == call.bits \div 8
    <3>1. v \in {1, 3} /\ call.bits = 8 * v  BY <2>1, <2>3
    <3>2. result = readImage(Bitmap(a, v), a.h, a.w, 8 * v)  BY <2>1, <3>1
    <3>3. (v * a.w) % 4 = 0 \/ a.h = 1 => result = a
      <4> HIDE DEF v
      <4>1. QED BY <2>1, <3>1, <3>2, ReadBack
    <3>4. QED BY <1>6, <2>3, <3>3 DEF RoutinesMatchReference
  <2>4. QED BY <2>2, <2>3
<1>7. Answered => RoutinesMatchReference
  BY <1>2, <1>3, <1>4, <1>5, <1>6 DEF RoutinesMatchReference
<1>8. QED BY <1>7, MatrixAnswered, PTL
=============================================================================
