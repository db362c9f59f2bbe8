---------------------------- MODULE Localization ----------------------------
(***************************************************************************)
(* script_localization.c, one of the programs that are profiled: a particle *)
(* filter that is fed with the records of a file.  What is modelled is the  *)
(* reading of the records, the matrices that are allocated and freed, where *)
(* the results go, and from what the positions of the particles come; the   *)
(* arithmetic is left out.                                                  *)
(***************************************************************************)
EXTENDS Integers, Sequences, FiniteSets, SequencesExt

CONSTANT Inputs   \* files: the types of their rows, 0 for the second of a GPS row

Gyro == 2
Gps  == 4
Odometry == 1
Accelerometer == 3

ASSUME InputsAssumption ==
  /\ Inputs \subseteq Seq(Int)
  /\ \A rows \in Inputs : \A k \in DOMAIN rows :
       rows[k] = 0 <=> k > 1 /\ rows[k - 1] = Gps

VARIABLES
  fid,             \* the rows of the file
  pc,              \* "start", "loop" or "end"
  index, isEOF,    \* as in readSensorData
  icount,          \* column of the next result
  records,         \* types of the records so far
  heap,            \* matrices held by the variables, number of those lost, and
                   \* whether one was freed twice or used without being there
  pos,             \* the particles: at "zero", at a "gps" fix or at a "drift"
  outside          \* whether memory behind a matrix has been read or written

lvars == <<fid, pc, index, isEOF, icount, records, heap, pos, outside>>

-----------------------------------------------------------------------------
(* The heap: a script says which variables get a matrix, lose it, use it.   *)
New(x)  == [do |-> "new", of |-> x]
Drop(x) == [do |-> "free", of |-> x]
Use(x)  == [do |-> "use", of |-> x]

Perform(h, step) ==
  LET held == step.of \in h.live IN
  [live |-> IF step.do = "new" THEN h.live \cup {step.of}
            ELSE IF step.do = "free" THEN h.live \ {step.of} ELSE h.live,
   lost |-> IF step.do = "new" /\ held THEN h.lost + 1 ELSE h.lost,
   bad  |-> h.bad \/ (step.do # "new" /\ ~held)]

\* The heap before each step of the script, and behind the last.
Heaps(h, script) ==
  LET run[k \in 0..Len(script)] ==
        IF k = 0 THEN h ELSE Perform(run[k - 1], script[k])
  IN run

Run(h, script) == Heaps(h, script)[Len(script)]

News(xs)  == [i \in DOMAIN xs |-> New(xs[i])]
Frees(xs) == [i \in DOMAIN xs |-> Drop(xs[i])]
Uses(xs)  == [i \in DOMAIN xs |-> Use(xs[i])]

\* What is set up before the loop, without what is freed before it too.
Setup ==
  News(<<"fid", "resultMat", "pos", "vel", "ones", "randn">>) \o Frees(<<"randn">>)
  \o News(<<"start", "eulAngle", "randn", "eul1">>) \o Frees(<<"eulAngle">>)
  \o News(<<"eulAngle", "eul2">>) \o Frees(<<"randn", "eulAngle">>)
  \o <<New("quat")>> \o Frees(<<"eul1", "eul2">>)
  \o News(<<"index", "sType", "isEOF", "endC", "elapsed">>) \o Frees(<<"start", "endC">>)
  \o News(<<"STDDEV_GPSPos", "randW">>)

GyroScript ==
  Uses(<<"ones", "randW", "quat">>)
  \o News(<<"t", "gyro", "abc", "t1">>) \o <<Drop("t1")>>
  \o News(<<"abcd", "norm_gyro", "angleAlpha">>) \o Frees(<<"t", "abcd">>)
  \o News(<<"cosA", "sinA">>) \o <<Drop("abc")>> \o News(<<"abc", "t1", "t">>)
  \o <<Drop("t1")>> \o News(<<"abcd", "t1", "quatDelta">>)
  \o Frees(<<"abcd", "t", "t1", "abc">>) \o <<New("t")>> \o Frees(<<"quat", "quatDelta">>)
  \o <<New("quat")>> \o Frees(<<"t", "norm_gyro", "gyro", "angleAlpha", "cosA", "sinA">>)

\* The first fix places the particles, later ones weigh them: w and
\* temp_STDDEV_GPSPos of those are not freed.
FixScript(placed) ==
  IF placed THEN News(<<"temp_STDDEV_GPSPos", "w">>) \o Uses(<<"quat", "vel", "pos">>)
  ELSE News(<<"t", "t1">>) \o Uses(<<"pos">>) \o Frees(<<"t", "t1">>)

DirectionScript ==
  News(<<"Ovel", "t">>) \o <<Drop("Ovel")>> \o News(<<"Ovel", "qConj">>)
  \o <<Drop("t")>> \o News(<<"t", "orgWorld">>) \o Frees(<<"t", "qConj">>)
  \o News(<<"t", "w">>) \o Uses(<<"quat", "vel", "pos">>)
  \o Frees(<<"t", "w", "orgWorld", "Ovel">>)

GpsScript(placed) ==
  Uses(<<"STDDEV_GPSPos", "sData">>) \o <<New("Opos")>> \o FixScript(placed)
  \o <<Drop("Opos")>> \o DirectionScript

OdometryScript ==
  News(<<"t", "Ovel", "t1", "w">>) \o Uses(<<"sData", "quat", "vel", "pos">>)
  \o Frees(<<"w", "t", "t1", "Ovel">>)

\* Bug: accl is freed with what it was made from.
FreedTooEarly(x) == <<Drop(x), Use(x), New(x)>>

\* accl, pos and vel are replaced by what is computed from them.
Replace(x) == <<Use(x), Drop(x), New(x)>>

AccelerometerScript ==
  News(<<"t", "accl", "gtemp", "gravity">>) \o Frees(<<"gtemp", "t">>)
  \o News(<<"t", "w">>) \o Uses(<<"quat", "vel", "pos">>) \o <<Drop("t"), New("t")>>
  \o Replace("accl") \o Frees(<<"w", "gravity", "t">>)
  \o News(<<"is", "s">>) \o <<Drop("is"), New("is")>> \o Replace("pos") \o Frees(<<"is", "s">>)
  \o News(<<"is", "s", "t">>) \o Frees(<<"s", "is">>) \o News(<<"s", "is">>)
  \o Replace("pos") \o Frees(<<"s", "t", "is">>)
  \o News(<<"t", "is">>) \o Frees(<<"accl", "t">>) \o <<New("s")>>
  \o Replace("vel") \o Frees(<<"is", "s">>)

Cleanup == Frees(<<"STDDEV_GPSPos", "elapsed", "index", "sType", "isEOF", "fid", "resultMat",
                   "pos", "vel", "quat", "ones", "randW">>)

Script(type) ==
  CASE type = Gyro -> GyroScript
    [] type = Gps  -> GpsScript(pos # "zero")
    [] type = Odometry -> OdometryScript
    [] type = Accelerometer -> AccelerometerScript
    [] OTHER -> << >>

-----------------------------------------------------------------------------
LocalizationInit ==
  /\ fid \in Inputs /\ pc = "start" /\ index = -1 /\ isEOF = FALSE /\ icount = 0
  /\ records = << >> /\ pos = "zero" /\ outside = FALSE
  /\ heap = [live |-> {}, lost |-> 0, bad |-> FALSE]

\* A file that cannot be read gives no matrix, whose height is asked for next.
readFile ==
  /\ pc = "start"
  /\ \/ pc' = "loop" /\ heap' = Run(heap, Setup)
     \/ pc' = "end" /\ heap' = [heap EXCEPT !.bad = TRUE]
  /\ UNCHANGED <<fid, index, isEOF, icount, records, pos, outside>>

\* Bug: only the first row of a GPS record is consumed.
OneRowEach(type) == 1

RowsOf(type) == IF type = Gps THEN 2 ELSE 1

\* Rows are numbered from 0, and index is that of the row read last.  At the
\* end of the file it stays, the type is -1 and the record is empty.
readSensorData ==
  LET k == index + 1 IN
  IF k > Len(fid) - 1 THEN [type |-> -1, index |-> index, eof |-> TRUE, outside |-> FALSE]
  ELSE LET type == fid[k + 1] IN
       [type |-> type, index |-> index + RowsOf(type), eof |-> FALSE,
        outside |-> type = Gps /\ k + 1 > Len(fid) - 1]

\* Bug: the particles are placed by every fix.
PlacedByEvery(p, type) == IF type = Gps THEN "gps" ELSE p

\* Where the particles come from: the first fix places them if their coordinates
\* add up to zero, which they are taken to do only where nothing has moved them;
\* the accelerometer moves them from anywhere.
Moved(p, type) ==
  CASE type = Gps /\ p = "zero" -> "gps"
    [] type = Accelerometer /\ p = "zero" -> "drift"
    [] OTHER -> p

\* One pass of the loop; the last one is for the end of the file and leaves a
\* result too.
Record ==
  LET r == readSensorData IN
  /\ pc = "loop"
  /\ index' = r.index /\ isEOF' = r.eof
  /\ heap' = Run(heap, News(<<"sData", "start">>) \o Script(r.type)
                       \o News(<<"endC", "elt">>) \o Frees(<<"start", "endC", "elt", "sData">>))
  /\ pos' = Moved(pos, r.type)
  /\ records' = IF r.eof THEN records ELSE Append(records, r.type)
  /\ icount' = icount + 1
  /\ outside' = (outside \/ r.outside \/ icount >= Len(fid))
  /\ pc' = IF r.eof THEN "finish" ELSE "loop"
  /\ UNCHANGED fid

Finish ==
  /\ pc = "finish" /\ pc' = "end" /\ heap' = Run(heap, Cleanup)
  /\ UNCHANGED <<fid, index, isEOF, icount, records, pos, outside>>

LocalizationNext == readFile \/ Record \/ Finish

LocalizationSpec == LocalizationInit /\ [][LocalizationNext]_lvars

-----------------------------------------------------------------------------
(* Properties.                                                              *)

Occurrences(type) == Cardinality({k \in DOMAIN records : records[k] = type})

\* Over any sequence of records: nothing is freed twice or used after it was
\* freed, and what is lost is two matrices for each fix but the one that placed
\* the particles; the last of one kind is still held at the end.
HandlesBalance ==
  pc \in {"loop", "finish", "end"} /\ icount > 0 =>
    LET weighed == Occurrences(Gps) - (IF pos = "gps" THEN 1 ELSE 0) IN
    /\ ~heap.bad
    /\ heap.lost = IF weighed = 0 THEN 0 ELSE 2 * weighed - 1
    /\ pc = "end" => heap.live = IF weighed = 0 THEN {} ELSE {"temp_STDDEV_GPSPos"}

\* The result of the end of the file needs a column of its own, which is there
\* only because a GPS record takes two rows: without one, or with one that the
\* file cuts short, memory behind a matrix is touched.
ResultsFit ==
  pc \in {"finish", "end"} /\ icount > 0 =>
    outside <=> (Occurrences(Gps) = 0 \/ Last(fid) = Gps)

\* The particles are at a fix once there was one, unless the accelerometer was
\* read before: then no fix places them any more.
PlacedByFirstFix ==
  pos = "gps" <=> \E k \in DOMAIN records :
                    records[k] = Gps /\ \A j \in 1..k : records[j] # Accelerometer
=============================================================================
