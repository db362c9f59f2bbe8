------------------------------- MODULE Matrix -------------------------------
(***************************************************************************)
(* The matrix routines of sd_vbs/sd-vbs/common/c that the programs under    *)
(* profile are built from, over integers: rows and columns count from 0,    *)
(* and the division by the sum of a kernel is left out.                     *)
(***************************************************************************)
EXTENDS Integers, FiniteSets, Sequences, FiniteSetsExt

CONSTANTS Vectors,  \* columns to sort, sequences of integers
          Images,   \* matrices
          Kernels,  \* matrices to convolve with
          Word,     \* 2^32: the cycle counts are kept in words
          Results,  \* results to check, sequences of integers
          Tolerance

\* Matrices are not empty; columns and results have any length, words any number
\* of values.
ASSUME MatrixAssumption ==
  /\ \A a \in Images \cup Kernels : /\ a.h \in Nat \ {0} /\ a.w \in Nat \ {0}
                                    /\ a = [h |-> a.h, w |-> a.w, at |-> a.at]
                                    /\ a.at \in [(0..(a.h - 1)) \X (0..(a.w - 1)) -> Int]
  /\ Vectors \subseteq Seq(Int) /\ Results \subseteq Seq(Int)
  /\ Word \in Nat \ {0} /\ Tolerance \in Nat

VARIABLES call, result   \* the routine called last and its arguments

mvars == <<call, result>>

-----------------------------------------------------------------------------
Size(h, w) == (0..(h - 1)) \X (0..(w - 1))
Mat(h, w, F(_, _)) == [h |-> h, w |-> w, at |-> [x \in Size(h, w) |-> F(x[1], x[2])]]
At(a, i, j) == a.at[<<i, j>>]

fSetArray(h, w, v) == Mat(h, w, LAMBDA i, j : v)
fDeepCopyRange(a, row, rows, col, cols) ==
  Mat(rows, cols, LAMBDA i, j : At(a, row + i, col + j))
fTranspose(a) == Mat(a.w, a.h, LAMBDA i, j : At(a, j, i))

\* Column by column into the rows of the new matrix.
fReshape(a, rows, cols) ==
  Mat(rows, cols, LAMBDA i, j : LET k == i * cols + j IN At(a, k % a.h, k \div a.h))

\* The sum after each turn of a loop from 0 to n - 1, and behind it.
Sums(n, f) ==
  LET sum[k \in 0..n] == IF k = 0 THEN 0 ELSE sum[k - 1] + f[k - 1]
  IN sum
SumOver(n, f) == Sums(n, f)[n]

fMtimes(a, b) ==
  Mat(a.h, b.w, LAMBDA i, j : SumOver(a.w, [k \in 0..(a.w - 1) |-> At(b, k, j) * At(a, i, k)]))
fMinus(a, b) == Mat(a.h, a.w, LAMBDA i, j : At(a, i, j) - At(b, i, j))
fTimes(a, b) == Mat(a.h, a.w, LAMBDA i, j : At(a, i, j) * At(b, i, j))

fSum2(a, dir) ==
  IF dir = 1 THEN Mat(1, a.w, LAMBDA i, j : SumOver(a.h, [k \in 0..(a.h - 1) |-> At(a, k, j)]))
  ELSE Mat(a.h, 1, LAMBDA i, j : SumOver(a.w, [k \in 0..(a.w - 1) |-> At(a, i, k)]))

\* A row is summed up like a column.
fSum(a) == IF a.h = 1 THEN fSum2(a, 2) ELSE fSum2(a, 1)

\* As many rows as the first has: the second may be cut, or read past its end.
fHorzcat(a, b) ==
  Mat(a.h, a.w + b.w, LAMBDA i, j : IF j < a.w THEN At(a, i, j) ELSE At(b, i, j - a.w))

\* As many rows as the third has.
horzcat(a, b, c) ==
  Mat(c.h, a.w + b.w + c.w, LAMBDA i, j :
    IF j < a.w THEN At(a, i, j)
    ELSE IF j < a.w + b.w THEN At(b, i, j - a.w) ELSE At(c, i, j - a.w - b.w))
ffVertcat(a, b) ==
  Mat(a.h + b.h, a.w, LAMBDA i, j : IF i < a.h THEN At(a, i, j) ELSE At(b, i - a.h, j))

\* The places that are not zero, column by column: column, row, value.
Found(a) ==
  LET Cell(k) == LET i == (k - 1) % a.h
                     j == (k - 1) \div a.h IN <<j, i, At(a, i, j)>>
      found[k \in 0..(a.h * a.w)] ==
        IF k = 0 THEN << >>
        ELSE IF Cell(k)[3] # 0 THEN Append(found[k - 1], Cell(k)) ELSE found[k - 1]
  IN found
fFind3(a) == Found(a)[a.h * a.w]

-----------------------------------------------------------------------------
(* Sorting.                                                                 *)

\* Bug: what was taken is not put out of the way.
TakenStays(v, best) == v

TakenToZero(v, best) == [v EXCEPT ![best] = 0]

\* The greatest is sought once for each place, beginning with that place, and
\* is then set to zero.
Select(walk, i) ==
  LET v == walk.in
      greater == {j \in DOMAIN v : v[j] > v[i]}
      best == IF greater = {} THEN i
              ELSE Min({j \in greater : \A k \in greater : v[k] <= v[j]})
  IN [in |-> TakenToZero(v, best), ind |-> Append(walk.ind, best)]

\* The column and the places taken, after so many of them.
Sorting(v) ==
  LET walk[i \in 0..Len(v)] ==
        IF i = 0 THEN [in |-> v, ind |-> << >>] ELSE Select(walk[i - 1], i)
  IN walk

\* In a copy of the column.
fSortIndices(v) == Sorting(v)[Len(v)].ind

\* In the column itself, which it leaves spoilt: the copy it makes is not used.
iSortIndices(v) == Sorting(v)[Len(v)]

\* The exchange is one of two local variables, so the column stays as it was.
fSort(v) == v

-----------------------------------------------------------------------------
(* Convolutions.                                                            *)
Full(a, b, i, j) ==
  LET Term(m, n) == IF <<i - m, j - n>> \in DOMAIN b.at
                      THEN At(a, m, n) * At(b, i - m, j - n) ELSE 0
  IN SumOver(a.h, [m \in 0..(a.h - 1) |-> SumOver(a.w, [n \in 0..(a.w - 1) |-> Term(m, n)])])

\* Ceiling of (n + 1) / 2, counted from 1.
Centre(n) == (n + 2) \div 2

\* ffiConv2, fiConv2, iiConv2 and ffConv2_dY.
iiConv2(a, b) ==
  Mat(a.h, a.w, LAMBDA i, j : Full(a, b, i + Centre(b.h) - 1, j + Centre(b.w) - 1))

\* Bug: the kernel is not turned round.
NotTurned(n, m) == m

Turned(n, m) == n - 1 - m

ffConv2(a, b) ==
  Mat(a.h, a.w, LAMBDA i, j :
    LET Term(m, n) == LET at == <<i + m - (b.h \div 2), j + n - (b.w \div 2)>> IN
                      IF at \in DOMAIN a.at
                        THEN a.at[at] * At(b, Turned(b.h, m), Turned(b.w, n)) ELSE 0
    IN SumOver(b.h, [m \in 0..(b.h - 1) |-> SumOver(b.w, [n \in 0..(b.w - 1) |-> Term(m, n)])]))

\* One pass of a short kernel along the rows or the columns; a border of half
\* its length stays zero.
Pass(a, kernel, along) ==
  LET half == Len(kernel) \div 2 IN
  Mat(a.h, a.w, LAMBDA i, j :
    IF i < half \/ i >= a.h - half \/ j < half \/ j >= a.w - half THEN 0
    ELSE SumOver(Len(kernel), [k \in 0..(Len(kernel) - 1) |->
           kernel[k + 1] * (IF along = "row" THEN At(a, i, j + k - half)
                                             ELSE At(a, i + k - half, j))]))

Gauss == <<1, 4, 6, 4, 1>>
imageBlur(a) == Pass(Pass(a, Gauss, "row"), Gauss, "column")

\* Every second place, the first of which is the third row and column.
imageResize(a) ==
  Mat((a.h + 1) \div 2, (a.w + 1) \div 2, LAMBDA i, j :
    IF 2 * i + 2 >= a.h - 2 \/ 2 * j + 2 >= a.w - 2 THEN 0
    ELSE LET Row(r) == IF r < 2 \/ r >= a.h - 2 THEN 0
                       ELSE SumOver(5, [k \in 0..4 |-> Gauss[k + 1] * At(a, r, 2 * j + k)])
         IN SumOver(5, [k \in 0..4 |-> Gauss[k + 1] * Row(2 * i + k)]))

calcSobel_dX(a) == Pass(Pass(a, <<1, 0, -1>>, "row"), <<1, 2, 1>>, "column")
calcSobel_dY(a) == Pass(Pass(a, <<1, 0, -1>>, "column"), <<1, 2, 1>>, "row")

-----------------------------------------------------------------------------
(* Files, checks and timing.                                                *)

\* The rows of a bitmap come from the last to the first, one or three values to
\* a pixel, and are filled up to four of them.
RowLength(w, values) == ((values * w + 3) \div 4) * 4
Bitmap(a, values) ==
  LET length == RowLength(a.w, values)
      Byte(r, c) == IF c < values * a.w THEN At(a, a.h - 1 - r, c \div values) ELSE -1
  IN [n \in 1..(a.h * length) |-> Byte((n - 1) \div length, (n - 1) % length)]

\* The second of three values is kept; what fills up a row is not skipped.
\* Other formats are refused.
readImage(file, h, w, bits) ==
  CASE bits = 8  -> Mat(h, w, LAMBDA i, j : file[(h - 1 - i) * w + j + 1])
    [] bits = 24 -> Mat(h, w, LAMBDA i, j : file[((h - 1 - i) * w + j) * 3 + 2])
    [] OTHER -> << >>

Abs(x) == IF x < 0 THEN -x ELSE x

\* Every number of the file is put into a buffer of the size of the result. The
\* last turn of the loop is taken for the one that finds no number: in a file
\* that does not end with a blank the last number, if any, is not counted.
Counted(file) == IF file.blank \/ file.numbers = << >> THEN Len(file.numbers)
                                                       ELSE Len(file.numbers) - 1
Overrun(v, file) == file.opens /\ Len(file.numbers) > Len(v)

fSelfCheck(v, file) ==
  [overrun |-> Overrun(v, file),
   ret |-> IF /\ file.opens /\ Counted(file) = Len(v)
              /\ \A i \in DOMAIN v : Abs(v[i] - file.numbers[i]) <= Tolerance
             THEN 1 ELSE -1]

\* Without their signs, and against the first numbers of a longer file.
selfCheck(v, file) ==
  [overrun |-> Overrun(v, file),
   ret |-> IF /\ file.opens /\ Counted(file) >= Len(v)
              /\ \A i \in DOMAIN v : Abs(Abs(v[i]) - Abs(file.numbers[i])) <= Tolerance
             THEN 1 ELSE -1]

\* The low word of the counter comes first; on the ARM there is no high one.
magic_timing_begin(count, arm) ==
  <<count % Word, IF arm THEN 0 ELSE (count \div Word) % Word>>
photonStartTiming(count, arm) == magic_timing_begin(count, arm)
photonEndTiming(count, arm)   == magic_timing_begin(count, arm)

\* The first word is taken for the high one.
Joined(c) == c[1] * Word + c[2]

\* Bug: the words are subtracted one by one from the count that comes later.
Swapped(start, end) ==
  LET diff == (Joined(start) - Joined(end)) % (Word * Word)
  IN <<diff \div Word, diff % Word>>

photonReportTiming(start, end) ==
  LET diff == (Joined(end) - Joined(start)) % (Word * Word)
  IN <<diff \div Word, diff % Word>>

-----------------------------------------------------------------------------
MInit == call = [op |-> "none"] /\ result = << >>

Calls(c, r) == call.op = "none" /\ call' = c /\ result' = r

Sort == \E v \in Vectors : Calls([op |-> "sort", v |-> v], fSortIndices(v))
Convolve == \E a \in Images, b \in Kernels : Calls([op |-> "conv", a |-> a, b |-> b], ffConv2(a, b))
Shrink == \E a \in Images : Calls([op |-> "resize", a |-> a], imageResize(a))
Derive == \E a \in Images : Calls([op |-> "dX", a |-> a], calcSobel_dX(a))
Read == \E a \in Images, bits \in {8, 24, 32} :
          Calls([op |-> "read", a |-> a, bits |-> bits],
                readImage(Bitmap(a, bits \div 8), a.h, a.w, bits))
ExpectedFiles ==
  [numbers : Results \cup {<< >>}, blank : BOOLEAN, opens : BOOLEAN]
Check == \E v \in Results, file \in ExpectedFiles :
           Calls([op |-> "check", v |-> v, file |-> file],
                 <<fSelfCheck(v, file), selfCheck(v, file)>>)
Time == \E s \in 0..(Word * Word - 1), d \in 0..(Word - 1), arm \in BOOLEAN :
          Calls([op |-> "time", s |-> s, d |-> d, arm |-> arm],
                photonReportTiming(photonStartTiming(s, arm), photonEndTiming(s + d, arm)))
Shape == \E a \in Images : Calls([op |-> "shape", a |-> a], fReshape(a, a.w, a.h))

MNext == Sort \/ Convolve \/ Shrink \/ Derive \/ Read \/ Check \/ Time \/ Shape

MSpec == MInit /\ [][MNext]_mvars

-----------------------------------------------------------------------------
(* Properties.                                                              *)

\* Whatever the column, sorting lists its positive elements first, each once and
\* in falling order; of the others it may list the place of one twice.
\* iSortIndices leaves no positive element in the column it was given.
PositivesSorted ==
  call.op = "sort" =>
    LET v == call.v
        count == Cardinality({i \in DOMAIN v : v[i] > 0}) IN
    /\ \A k \in 1..count : v[result[k]] > 0 /\ \A m \in 1..(k - 1) :
         result[m] # result[k] /\ v[result[m]] >= v[result[k]]
    /\ \A i \in DOMAIN v : iSortIndices(v).in[i] <= 0
    /\ Len(result) = Len(v)

\* The routines against other ways to compute the same: the two convolutions
\* agree for kernels of odd size; a smaller image is every second place of the
\* blurred one; the derivatives are each other's transpose; reshaping to exchanged
\* sizes is transposing; an image is read back as it was written if its rows are
\* not filled up.
RoutinesMatchReference ==
  LET a == call.a IN
  CASE call.op = "conv" ->
         call.b.h % 2 = 1 /\ call.b.w % 2 = 1 => result = iiConv2(a, call.b)
    [] call.op = "resize" ->
         \A x \in DOMAIN result.at :
           LET p == <<2 * x[1] + 2, 2 * x[2] + 2>> IN
           result.at[x] = IF p \in DOMAIN a.at THEN imageBlur(a).at[p] ELSE 0
    [] call.op = "dX" -> result = fTranspose(calcSobel_dY(fTranspose(a)))
    [] call.op = "shape" ->
         /\ result = fTranspose(a)
         /\ fHorzcat(a, fMinus(a, a)) = fTranspose(ffVertcat(result, fMinus(result, result)))
         /\ horzcat(a, a, a) = fHorzcat(fHorzcat(a, a), a)
         /\ fTranspose(fMtimes(a, result)) = fMtimes(a, result)
         /\ a.h > 1 /\ a.w > 1 => fSum(result) = fTranspose(fSum2(a, 2))
         /\ fDeepCopyRange(fHorzcat(a, fMinus(a, a)), 0, a.h, 0, a.w) = a
         /\ fMinus(fTimes(a, fSetArray(a.h, a.w, 2)), a) = a
         /\ Len(fFind3(a)) = Cardinality({x \in DOMAIN a.at : a.at[x] # 0})
    [] call.op = "read" ->
         CASE call.bits = 32 -> result = << >>
           [] OTHER -> ((call.bits \div 8) * a.w) % 4 = 0 \/ a.h = 1 => result = a
    [] OTHER -> TRUE

\* What a program tells of itself.  The check of a float result passes one that
\* is longer or shorter than expected only where the file has numbers and does not
\* end with a blank, and then it has written behind its buffer.  The time is right on the
\* ARM; elsewhere a carry into the high word comes out as 2^32 cycles too many.
ReportsHold ==
  /\ call.op = "check" /\ result[1].ret = 1 =>
       (Len(call.file.numbers) = Len(call.v) <=> ~result[1].overrun)
       /\ (result[1].overrun <=> ~call.file.blank /\ call.file.numbers # << >>)
  /\ call.op = "time" =>
       LET carry == (call.s % Word) + call.d >= Word IN
       (result = <<call.d, 0>>) <=> call.arm \/ ~carry
=============================================================================
