------------------------- MODULE DebugPackageProofs -------------------------
(***************************************************************************)
(* Proofs about DebugPackage, for every interval, time range and page size.*)
(***************************************************************************)
EXTENDS DebugPackage, FiniteSetTheorems, TLAPS

-----------------------------------------------------------------------------
(* Arithmetic of the grid of open times.                                   *)

\* Two multiples of Step lie at least Step apart.
LEMMA StepApart ==
  ASSUME NEW t \in Nat, NEW u \in Nat, t % Step = 0, u % Step = 0, t < u
  PROVE  t + Step <= u
<1>1. Step \in Nat /\ Step > 0
  BY DebugPackageAssumption DEF DebugPackageAssumption
<1>2. PICK a \in Nat : t = Step * a
  BY <1>1
<1>3. PICK b \in Nat : u = Step * b
  BY <1>1
<1>4. a < b
  BY <1>1, <1>2, <1>3
<1> QED
  BY <1>1, <1>2, <1>3, <1>4

\* The distance of two multiples of Step is a multiple of Step.
LEMMA StepDifference ==
  ASSUME NEW t \in Nat, NEW u \in Nat, t % Step = 0, u % Step = 0
  PROVE  (u - t) % Step = 0
<1>1. Step \in Nat /\ Step > 0
  BY DebugPackageAssumption DEF DebugPackageAssumption
<1>2. PICK a \in Nat : t = Step * a
  BY <1>1
<1>3. PICK b \in Nat : u = Step * b
  BY <1>1
<1>4. /\ b - a \in Int
      /\ u - t = Step * (b - a)
  BY ONLY <1>1, <1>2, <1>3
<1>5. \A c \in Int : (Step * c) % Step = 0
  BY ONLY <1>1
<1> QED
  BY ONLY <1>4, <1>5

\* The constants and the sets of times are what the arithmetic needs.
LEMMA Constants ==
  /\ Step \in Nat /\ Step > 1
  /\ Limit \in Nat
  /\ Times \subseteq Nat
  /\ Opens \subseteq Nat
  /\ \A t \in Opens : t % Step = 0
  /\ "absent" \notin Dated
  BY DebugPackageAssumption DEF DebugPackageAssumption, Times, Opens, Dated

\* After a row the cursor has passed it, but not the next open time, unless the
\* row has no times at all.
LEMMA CursorPassesRow ==
  ASSUME NEW t \in Opens
  PROVE  /\ cursorFromKline(t) \in Nat
         /\ history[t] \in Dated =>
              t < cursorFromKline(t) /\ cursorFromKline(t) <= t + Step
         /\ \/ cursorFromKline(t) = 0
            \/ t < cursorFromKline(t)
<1>1. t \in Nat /\ Step \in Nat /\ Step > 1
  BY Constants
<1>2. \/ history[t] \notin Dated /\ cursorFromKline(t) \in {0, t + Step - 1}
      \/ cursorFromKline(t) \in {t + Step - 1, t + Step}
  BY ONLY DEF cursorFromKline, Dated
<1> QED
  BY ONLY <1>1, <1>2

-----------------------------------------------------------------------------
(* Type correctness.                                                       *)

\* The variables keep their types, and a range that is worked on is a proper
\* one (debug_package.go 66-69).
THEOREM TypeCorrect == SafeSpec => []TypeOK
<1>1. Init => TypeOK
  <2>1. 0 \in Times /\ 0 \in Nat
    BY DebugPackageAssumption DEF DebugPackageAssumption, Times
  <2> QED
    BY <2>1 DEF Init, TypeOK, Answers
<1>2. TypeOK /\ [Next]_vars => TypeOK'
  <2> SUFFICES ASSUME TypeOK, [Next]_vars
               PROVE  TypeOK'
    OBVIOUS
  <2> USE DEF TypeOK
  <2>1. ASSUME NEW lo \in Times, NEW hi \in Times, NEW fits \in BOOLEAN,
               handleAccountDebugPackage(lo, hi, fits)
        PROVE  TypeOK'
    BY <2>1 DEF handleAccountDebugPackage, Answer, Answers
  <2>2. ASSUME NEW ok \in BOOLEAN, ValidateCoverage(ok)
        PROVE  TypeOK'
    <3>1. startMS \in Nat /\ Complete(history) \in BOOLEAN
      BY Constants DEF Complete
    <3> QED
      BY <2>2, <3>1 DEF ValidateCoverage, Answer, Answers
  <2>3. ASSUME NEW batch \in SUBSET Opens, NEW truncated \in BOOLEAN,
               QueryKlines(batch, truncated)
        PROVE  TypeOK'
    <3>1. \A t \in batch : cursorFromKline(t) \in Nat
      BY CursorPassesRow
    <3>2. copies' \in [Opens -> Nat] /\ undated' \in BOOLEAN
      BY <2>3 DEF QueryKlines
    <3>3. /\ cursor' \in Nat
          /\ pc' \in {"query", "check", "done"}
          /\ answer' \in Answers
      BY <2>3, <3>1 DEF QueryKlines, Answer, Answers
    <3> QED
      BY <2>3, <3>2, <3>3 DEF QueryKlines
  <2>4. ASSUME NEW encodes \in BOOLEAN, validateDebugPackageKlineRows(encodes)
        PROVE  TypeOK'
    BY <2>4 DEF validateDebugPackageKlineRows, Answer, Answers
  <2>5. CASE PlaneError
    BY <2>5 DEF PlaneError, Answer, Answers
  <2>6. ASSUME NEW t \in Opens, NEW kind \in Kinds, Store(t, kind)
        PROVE  TypeOK'
    <3>1. whole' \in BOOLEAN
      BY <2>6 DEF Store, Complete
    <3> QED
      BY <2>6, <3>1 DEF Store
  <2>7. CASE UNCHANGED vars
    BY <2>7 DEF vars
  <2> QED
    BY <2>1, <2>2, <2>3, <2>4, <2>5, <2>6, <2>7 DEF Next, Handler
<1> QED
  BY <1>1, <1>2, PTL DEF SafeSpec

-----------------------------------------------------------------------------
(* No bar twice.                                                           *)

\* Nothing has been read before the first page is asked for, and while pages
\* are read everything already read lies before the cursor.
BehindCursor ==
  /\ pc \in {"idle", "validate"} => \A t \in Opens : copies[t] = 0
  /\ pc = "query" => \A t \in Opens : copies[t] > 0 => t < cursor

ReadOnce == BehindCursor /\ NoBarTwice

\* Whether the handler asks for another page or not, the rows of a page lie
\* before the new cursor.
LEMMA PageIsBehind ==
  ASSUME TypeOK, BehindCursor,
         NEW batch \in SUBSET Opens, NEW truncated \in BOOLEAN,
         QueryKlines(batch, truncated)
  PROVE  BehindCursor'
<1>1. copies \in [Opens -> Nat] /\ cursor \in Nat
  BY DEF TypeOK
<1>2. CASE pc' # "query"
  BY <1>2 DEF BehindCursor, QueryKlines, Answer
<1>3. CASE pc' = "query"
  <2>1. PICK last \in batch :
          /\ \A t \in batch : t <= last
          /\ cursorFromKline(last) > cursor
          /\ cursor' = cursorFromKline(last)
    <3>1. batch # {}
      BY <1>3 DEF QueryKlines
    <3>2. PICK last \in batch :
            /\ \A t \in batch : t <= last
            /\ IF cursorFromKline(last) <= cursor
               THEN Answer("stuck") /\ UNCHANGED cursor
               ELSE /\ cursor' = cursorFromKline(last)
                    /\ pc' = IF truncated /\ cursorFromKline(last) < endMS
                             THEN "query" ELSE "check"
                    /\ UNCHANGED answer
      BY <3>1 DEF QueryKlines
    <3>3. ~(cursorFromKline(last) <= cursor)
      BY <1>3, <3>2 DEF Answer
    <3>4. cursorFromKline(last) \in Nat
      BY CursorPassesRow
    <3> QED
      BY <1>1, <3>2, <3>3, <3>4
  <2>2. last < cursor' /\ cursor < cursor' /\ cursor' \in Nat /\ last \in Nat
    BY <1>1, <2>1, CursorPassesRow, Constants
  <2>3. ASSUME NEW t \in Opens, copies'[t] > 0
        PROVE  t < cursor'
    <3>1. t \in Nat
      BY Constants
    <3>2. t \in batch \/ copies'[t] = copies[t]
      BY DEF QueryKlines
    <3>3. CASE t \in batch
      BY <2>1, <2>2, <3>1, <3>3
    <3>4. CASE copies'[t] = copies[t]
      <4>1. t < cursor
        BY <2>3, <3>4 DEF QueryKlines, BehindCursor
      <4> QED
        BY ONLY <1>1, <2>2, <3>1, <4>1
    <3> QED
      BY <3>2, <3>3, <3>4
  <2> QED
    BY <1>3, <2>3 DEF BehindCursor
<1> QED
  BY <1>2, <1>3

\* A page holds no bar that was read before.
LEMMA PageIsNew ==
  ASSUME TypeOK, ReadOnce,
         NEW batch \in SUBSET Opens, NEW truncated \in BOOLEAN,
         QueryKlines(batch, truncated)
  PROVE  NoBarTwice'
<1>1. copies \in [Opens -> Nat] /\ cursor \in Nat
  BY DEF TypeOK
<1>2. SUFFICES ASSUME NEW t \in Opens PROVE copies'[t] <= 1
  BY DEF NoBarTwice
<1>3. t \in Nat /\ copies[t] \in Nat /\ copies[t] <= 1
  BY <1>1, Constants DEF ReadOnce, NoBarTwice
<1>4. t \in batch => cursor <= t
  BY DEF QueryKlines, Page, Stored
<1>5. t \in batch => copies[t] = 0
  BY <1>1, <1>3, <1>4 DEF ReadOnce, BehindCursor, QueryKlines
<1>6. copies'[t] = copies[t] \/ (t \in batch /\ copies'[t] = copies[t] + 1)
  BY DEF QueryKlines
<1> QED
  BY ONLY <1>3, <1>5, <1>6

\* Reading page by page never reads a bar twice, whatever the plane stores or
\* drops meanwhile and however rows say when they close (debug_package.go 177-207, 236-244).
THEOREM PagesAreDisjoint == SafeSpec => []NoBarTwice
<1>1. Init => ReadOnce
  <2>1. Init => pc = "idle" /\ \A t \in Opens : copies[t] = 0
    BY DEF Init
  <2>2. (\A t \in Opens : copies[t] = 0) => NoBarTwice
    BY DEF NoBarTwice
  <2> QED
    BY <2>1, <2>2 DEF ReadOnce, BehindCursor
<1>2. TypeOK /\ ReadOnce /\ [Next]_vars => ReadOnce'
  <2> SUFFICES ASSUME TypeOK, ReadOnce, [Next]_vars
               PROVE  ReadOnce'
    OBVIOUS
  <2>1. ASSUME NEW batch \in SUBSET Opens, NEW truncated \in BOOLEAN,
               QueryKlines(batch, truncated)
        PROVE  ReadOnce'
    BY <2>1, PageIsBehind, PageIsNew DEF ReadOnce
  <2> USE DEF ReadOnce, BehindCursor, NoBarTwice, Answer
  <2>2. ASSUME NEW lo \in Times, NEW hi \in Times, NEW fits \in BOOLEAN,
               handleAccountDebugPackage(lo, hi, fits)
        PROVE  ReadOnce'
    <3>1. pc = "idle" /\ copies' = copies /\ pc' \in {"validate", "done"}
      BY <2>2 DEF handleAccountDebugPackage
    <3> QED
      BY <3>1
  <2>3. ASSUME NEW ok \in BOOLEAN, ValidateCoverage(ok)
        PROVE  ReadOnce'
    <3>1. pc = "validate" /\ copies' = copies /\ pc' \in {"query", "done"}
      BY <2>3 DEF ValidateCoverage
    <3>2. \A t \in Opens : copies'[t] = 0 /\ ~(copies'[t] > 0)
      BY <3>1
    <3> QED
      BY <3>1, <3>2
  <2>4. ASSUME NEW encodes \in BOOLEAN, validateDebugPackageKlineRows(encodes)
        PROVE  ReadOnce'
    BY <2>4 DEF validateDebugPackageKlineRows
  <2>5. CASE PlaneError
    BY <2>5 DEF PlaneError
  <2>6. ASSUME NEW t \in Opens, NEW kind \in Kinds, Store(t, kind)
        PROVE  ReadOnce'
    BY <2>6 DEF Store
  <2>7. CASE UNCHANGED vars
    BY <2>7 DEF vars
  <2> QED
    BY <2>1, <2>2, <2>3, <2>4, <2>5, <2>6, <2>7 DEF Next, Handler
<1>3. ReadOnce => NoBarTwice
  BY DEF ReadOnce
<1> QED
  BY <1>1, <1>2, <1>3, TypeCorrect, PTL DEF SafeSpec

-----------------------------------------------------------------------------
(* A package that is sent is complete.                                     *)

\* As many expected open times seen as there are means all of them seen.
LEMMA CountingSuffices ==
  ASSUME TypeOK, NEW seen \in SUBSET Expected,
         Cardinality(seen) = Cardinality(Expected)
  PROVE  seen = Expected
<1>1. startMS \in Int /\ endMS - 1 \in Int
  BY Constants DEF TypeOK
<1>2. IsFiniteSet(startMS..(endMS - 1))
  BY <1>1, FS_Interval
<1>3. IsFiniteSet(Expected)
  BY <1>2, FS_Subset DEF Expected
<1> QED
  BY <1>3, FS_Subset

\* The answer is the last thing a request does.
AnswerEnds == answer # "" => pc = "done"

PackageInv == AnswerEnds /\ PackageIsComplete

\* A package that is sent holds every bar of its range, although the rows are
\* judged by counting, after a validation that may be stale (debug_package.go 163-171, 208,
\* 214-234).
THEOREM SentIsComplete == SafeSpec => []PackageIsComplete
<1>1. Init => PackageInv
  BY DEF Init, PackageInv, AnswerEnds, PackageIsComplete
<1>2. TypeOK /\ PackageInv /\ [Next]_vars => PackageInv'
  <2> SUFFICES ASSUME TypeOK, PackageInv, [Next]_vars
               PROVE  PackageInv'
    OBVIOUS
  <2> USE DEF PackageInv, AnswerEnds, PackageIsComplete, Answer
  <2>1. ASSUME NEW lo \in Times, NEW hi \in Times, NEW fits \in BOOLEAN,
               handleAccountDebugPackage(lo, hi, fits)
        PROVE  PackageInv'
    BY <2>1 DEF handleAccountDebugPackage
  <2>2. ASSUME NEW ok \in BOOLEAN, ValidateCoverage(ok)
        PROVE  PackageInv'
    BY <2>2 DEF ValidateCoverage
  <2>3. ASSUME NEW batch \in SUBSET Opens, NEW truncated \in BOOLEAN,
               QueryKlines(batch, truncated)
        PROVE  PackageInv'
    <3>1. answer = "" /\ (answer' = answer \/ (answer' = "stuck" /\ pc' = "done"))
      BY <2>3 DEF QueryKlines
    <3> QED
      BY <3>1
  <2>4. ASSUME NEW encodes \in BOOLEAN, validateDebugPackageKlineRows(encodes)
        PROVE  PackageInv'
    <3> DEFINE seen == {t \in Expected \cap Opens : copies[t] > 0}
    <3>1. answer' = "sent" => Cardinality(seen) = Cardinality(Expected)
      BY <2>4 DEF validateDebugPackageKlineRows
    <3> HIDE DEF seen
    <3>2. answer' = "sent" => seen = Expected
      <4>1. seen \in SUBSET Expected
        BY DEF seen
      <4> QED
        BY <3>1, <4>1, CountingSuffices
    <3>3. UNCHANGED <<startMS, endMS, copies>> /\ pc' = "done"
      BY <2>4 DEF validateDebugPackageKlineRows
    <3>4. Expected' = Expected
      BY <3>3 DEF Expected
    <3> QED
      BY <3>2, <3>3, <3>4 DEF seen
  <2>5. CASE PlaneError
    BY <2>5 DEF PlaneError
  <2>6. ASSUME NEW t \in Opens, NEW kind \in Kinds, Store(t, kind)
        PROVE  PackageInv'
    BY <2>6 DEF Store
  <2>7. CASE UNCHANGED vars
    BY <2>7 DEF vars, Expected
  <2> QED
    BY <2>1, <2>2, <2>3, <2>4, <2>5, <2>6, <2>7 DEF Next, Handler
<1>3. PackageInv => PackageIsComplete
  BY DEF PackageInv
<1> QED
  BY <1>1, <1>2, <1>3, TypeCorrect, PTL DEF SafeSpec

-----------------------------------------------------------------------------
(* A range that is complete is not refused.                                *)

\* While the range is whole, every expected bar behind the cursor has been read.
WholeInv ==
  /\ pc \in {"idle", "validate"} => ~whole /\ ~undated
  /\ pc = "query" => startMS <= cursor
  /\ whole /\ pc \in {"query", "check"} =>
       Complete(history) /\ ~undated
  /\ whole /\ pc = "query" => \A t \in Expected : t < cursor => copies[t] > 0
  /\ whole /\ pc = "check" => \A t \in Expected : copies[t] > 0

AlarmInv == WholeInv /\ AnswerEnds /\ NoFalseAlarm

\* The rows of a page of a whole range all have an open time.
LEMMA RowsAreDated ==
  ASSUME TypeOK, startMS < endMS, startMS <= cursor, Complete(history),
         NEW batch \in SUBSET Opens, NEW truncated \in BOOLEAN,
         Page(batch, truncated), NEW t \in batch
  PROVE  history[t] \in Dated
<1>1. /\ startMS \in Nat /\ endMS \in Nat /\ cursor \in Nat /\ t \in Nat
      /\ Step \in Nat /\ Step > 0
  BY Constants DEF TypeOK
<1>2. cursor <= t /\ t <= endMS /\ history[t] # "absent" /\ t \in Opens
  BY <1>1 DEF Page, Stored
<1>3. CASE t = endMS
  BY <1>2, <1>3 DEF Complete
<1>4. CASE t # endMS
  <2>1. startMS \in Expected
    <3>1. startMS \in startMS..(endMS - 1) /\ (startMS - startMS) % Step = 0
      BY ONLY <1>1, startMS < endMS
    <3> QED
      BY <3>1 DEF Expected
  <2>2. startMS % Step = 0 /\ t % Step = 0
    BY <1>2, <2>1, Constants DEF Complete
  <2>3. (t - startMS) % Step = 0
    BY <1>1, <2>2, StepDifference
  <2>4. t \in startMS..(endMS - 1)
    BY ONLY <1>1, <1>2, <1>4, startMS <= cursor
  <2> QED
    BY <2>3, <2>4 DEF Expected, Complete
<1> QED
  BY <1>3, <1>4

\* No expected bar falls between a page and the one that follows it: those
\* behind the new cursor, and all if the plane has no more, are in the page.
LEMMA NoneSkipped ==
  ASSUME TypeOK, startMS < endMS, startMS <= cursor, Complete(history),
         NEW batch \in SUBSET Opens, NEW truncated \in BOOLEAN,
         Page(batch, truncated), NEW t \in Expected, cursor <= t,
         t \notin batch
  PROVE  /\ truncated
         /\ \A last \in batch : cursorFromKline(last) <= t
<1>1. /\ startMS \in Nat /\ endMS \in Nat /\ cursor \in Nat
      /\ Step \in Nat /\ Step > 0
      /\ Opens \subseteq Nat
  BY Constants DEF TypeOK
<1>2. t \in Opens /\ history[t] \in Dated /\ t \in startMS..(endMS - 1)
  BY DEF Complete, Expected
<1>3. PICK hi \in {endMS - 1, endMS} :
        /\ \A u \in batch : \A v \in Stored(cursor, hi) \ batch : u < v
        /\ truncated = (batch # Stored(cursor, hi))
  BY DEF Page
<1>4. t <= hi
  BY ONLY <1>1, <1>2, <1>3
<1>5. t \in Stored(cursor, hi)
  BY <1>2, <1>4, Constants DEF Stored
<1>6. truncated
  BY <1>3, <1>5
<1>7. ASSUME NEW last \in batch
      PROVE  cursorFromKline(last) <= t
  <2>1. last \in Opens /\ history[last] \in Dated /\ last < t
    BY <1>3, <1>5, RowsAreDated
  <2>2. last \in Nat /\ t \in Nat /\ last % Step = 0 /\ t % Step = 0
    BY <1>2, <2>1, Constants
  <2>3. last + Step <= t
    BY <2>1, <2>2, StepApart
  <2>4. cursorFromKline(last) \in Nat /\ cursorFromKline(last) <= last + Step
    BY <2>1, CursorPassesRow
  <2> QED
    BY ONLY <1>1, <2>2, <2>3, <2>4
<1> QED
  BY <1>6, <1>7

\* Reading a page of a whole range keeps the invariant and raises no alarm.
LEMMA PageOfWhole ==
  ASSUME TypeOK, AlarmInv,
         NEW batch \in SUBSET Opens, NEW truncated \in BOOLEAN,
         QueryKlines(batch, truncated)
  PROVE  AlarmInv'
<1>0. /\ startMS < endMS /\ startMS <= cursor
      /\ startMS \in Nat /\ endMS \in Nat /\ cursor \in Nat
  BY Constants DEF QueryKlines, AlarmInv, WholeInv, AnswerEnds, TypeOK
<1>1. /\ pc = "query" /\ Page(batch, truncated)
      /\ UNCHANGED <<history, startMS, endMS, whole>>
      /\ startMS < endMS /\ startMS <= cursor
      /\ copies \in [Opens -> Nat] /\ undated \in BOOLEAN
      /\ answer = ""
  BY Constants DEF QueryKlines, AlarmInv, WholeInv, AnswerEnds, TypeOK
<1>2. Expected' = Expected
  BY <1>1 DEF Expected
<1>3. pc' \in {"query", "check", "done"} /\ (answer' = "" \/ pc' = "done")
  BY <1>1 DEF QueryKlines, Answer
<1>4. pc' = "query" => cursor < cursor' /\ startMS <= cursor'
  <2>1. \A last \in batch : cursorFromKline(last) \in Nat
    BY CursorPassesRow
  <2>2. pc' = "query" => cursor' \in Nat /\ ~(cursor' <= cursor)
    BY <2>1 DEF QueryKlines, Answer
  <2> QED
    BY ONLY <1>0, <2>2
<1>5. CASE ~whole
  BY <1>1, <1>3, <1>4, <1>5 DEF AlarmInv, WholeInv, AnswerEnds, NoFalseAlarm
<1>6. CASE whole
  <2>1. Complete(history) /\ ~undated
    BY <1>1, <1>6 DEF AlarmInv, WholeInv
  <2>2. \A t \in batch : history[t] \in Dated
    BY <1>1, <2>1, RowsAreDated
  <2>3. ~undated'
    BY <2>1, <2>2 DEF QueryKlines
  <2>4. ASSUME NEW t \in Expected
        PROVE  /\ copies[t] > 0 => copies'[t] > 0
               /\ t \in batch => copies'[t] > 0
               /\ t < cursor => copies[t] > 0
               /\ t \in Nat /\ t < endMS
    <3>1. t \in Opens
      BY <2>1 DEF Complete
    <3>2. copies[t] \in Nat /\ t \in Nat
      BY <1>1, <3>1, Constants
    <3>3. /\ t \in batch => copies'[t] = copies[t] + 1
          /\ t \notin batch => copies'[t] = copies[t]
      BY <2>2, <3>1 DEF QueryKlines
    <3>4. t < cursor => copies[t] > 0
      BY <1>1, <1>6 DEF AlarmInv, WholeInv
    <3>5. t < endMS
      BY ONLY <1>0, <3>2, t \in Expected DEF Expected
    <3> QED
      BY ONLY <3>2, <3>3, <3>4, <3>5
  <2>5. Complete(history)' /\ startMS' = startMS
    BY <1>1, <1>2, <2>1 DEF Complete
  <2>6. CASE batch = {}
    <3>1. pc' = "check" /\ answer' = ""
      BY <1>1, <2>6 DEF QueryKlines
    <3>2. \A t \in Expected : t < cursor
      <4>1. ASSUME NEW t \in Expected, cursor <= t
            PROVE  FALSE
        <5>1. truncated
          BY <1>1, <2>1, <2>6, <4>1, NoneSkipped
        <5>2. PICK hi \in {endMS - 1, endMS} :
                /\ batch = {} => Stored(cursor, hi) = {}
                /\ truncated = (batch # Stored(cursor, hi))
          BY <1>1 DEF Page
        <5> QED
          BY <2>6, <5>1, <5>2
      <4> QED
        BY ONLY <1>0, <2>4, <4>1
    <3> QED
      <4>1. pc' = "check" /\ \A t \in Expected' : copies'[t] > 0
        BY ONLY <1>2, <2>4, <3>1, <3>2
      <4> QED
        BY ONLY <2>5, <2>3, <3>1, <4>1 DEF AlarmInv, WholeInv, AnswerEnds, NoFalseAlarm
  <2>7. CASE batch # {}
    <3>1. PICK last \in batch :
            IF cursorFromKline(last) <= cursor
            THEN Answer("stuck") /\ UNCHANGED cursor
            ELSE /\ cursor' = cursorFromKline(last)
                 /\ pc' = IF truncated /\ cursorFromKline(last) < endMS
                          THEN "query" ELSE "check"
                 /\ UNCHANGED answer
      BY <2>7 DEF QueryKlines
    <3>2. cursor <= last /\ last \in Nat
      BY <1>1, Constants DEF Page, Stored
    <3>3. cursorFromKline(last) \in Nat /\ cursor < cursorFromKline(last)
      <4>1. cursorFromKline(last) \in Nat /\ last < cursorFromKline(last)
        BY <2>2, CursorPassesRow
      <4> QED
        BY ONLY <1>0, <3>2, <4>1
    <3>4. /\ cursor' = cursorFromKline(last)
          /\ pc' = IF truncated /\ cursor' < endMS THEN "query" ELSE "check"
          /\ answer' = ""
      <4>1. ~(cursorFromKline(last) <= cursor)
        BY ONLY <1>0, <3>3
      <4> QED
        BY <1>1, <3>1, <4>1
    <3>5. ASSUME NEW t \in Expected, t < cursor' \/ ~truncated
          PROVE  copies'[t] > 0
      <4>1. t < cursor \/ t \in batch
        <5>1. ASSUME cursor <= t, t \notin batch
              PROVE  FALSE
          <6>1. truncated /\ cursorFromKline(last) <= t
            BY <1>1, <2>1, <5>1, NoneSkipped
          <6>2. t < cursor' /\ t \in Nat
            BY <2>4, <3>5, <6>1
          <6>3. cursor' <= t /\ cursor' \in Nat
            BY <3>3, <3>4, <6>1
          <6> QED
            BY ONLY <6>2, <6>3
        <5>2. t \in Nat
          BY <2>4
        <5> QED
          BY ONLY <1>0, <5>1, <5>2
      <4> QED
        BY <2>4, <4>1
    <3>6. pc' = "check" => \A t \in Expected : t < cursor' \/ ~truncated
      <4>1. pc' = "check" => ~truncated \/ ~(cursor' < endMS)
        BY ONLY <3>4
      <4>2. cursor' \in Nat
        BY ONLY <3>3, <3>4
      <4>3. ~(cursor' < endMS) => \A t \in Expected : t < cursor'
        BY ONLY <1>0, <2>4, <4>2
      <4> QED
        BY ONLY <4>1, <4>3
    <3> QED
      <4>1. \A t \in Expected' : t < cursor' => copies'[t] > 0
        BY ONLY <1>2, <3>5
      <4>2. pc' = "check" => \A t \in Expected' : copies'[t] > 0
        BY ONLY <1>2, <3>5, <3>6
      <4>3. pc' \in {"query", "check"}
        BY ONLY <3>4
      <4> QED
        BY ONLY <1>4, <2>5, <2>3, <3>4, <4>1, <4>2, <4>3
        DEF AlarmInv, WholeInv, AnswerEnds, NoFalseAlarm
  <2> QED
    BY <2>6, <2>7
<1> QED
  BY <1>5, <1>6

\* A range that was complete when it was validated, and stays so, is not
\* refused for its rows: no bar falls between two pages, the cursor never
\* stands still, and the row check agrees with the plane (debug_package.go 177-212, 214-244).
THEOREM CompleteIsServed == SafeSpec => []NoFalseAlarm
<1>1. Init => AlarmInv
  BY DEF Init, AlarmInv, WholeInv, AnswerEnds, NoFalseAlarm
<1>2. TypeOK /\ AlarmInv /\ [Next]_vars => AlarmInv'
  <2> SUFFICES ASSUME TypeOK, AlarmInv, [Next]_vars
               PROVE  AlarmInv'
    OBVIOUS
  <2>1. ASSUME NEW batch \in SUBSET Opens, NEW truncated \in BOOLEAN,
               QueryKlines(batch, truncated)
        PROVE  AlarmInv'
    BY <2>1, PageOfWhole
  <2> USE DEF AlarmInv, WholeInv, AnswerEnds, NoFalseAlarm, Answer
  <2>2. ASSUME NEW lo \in Times, NEW hi \in Times, NEW fits \in BOOLEAN,
               handleAccountDebugPackage(lo, hi, fits)
        PROVE  AlarmInv'
    BY <2>2 DEF handleAccountDebugPackage
  <2>3. ASSUME NEW ok \in BOOLEAN, ValidateCoverage(ok)
        PROVE  AlarmInv'
    <3>1. CASE pc' = "query"
      <4>1. /\ pc = "validate" /\ cursor' = startMS /\ whole' = Complete(history)
            /\ UNCHANGED <<answer, history, startMS, endMS, copies, undated>>
        BY <2>3, <3>1 DEF ValidateCoverage
      <4>2. startMS \in Nat
        BY Constants DEF TypeOK
      <4>3. \A t \in Expected' : ~(t < cursor')
        BY ONLY <4>1, <4>2 DEF Expected
      <4>4. Complete(history)' = Complete(history)
        BY <4>1 DEF Complete, Expected
      <4>5. AnswerEnds' /\ NoFalseAlarm' /\ pc' = "query"
        BY <3>1, <4>1
      <4>6. whole' => ~undated' /\ Complete(history)'
        BY <4>1, <4>4
      <4>7. startMS' <= cursor'
        BY ONLY <4>1, <4>2
      <4> QED
        BY ONLY <4>3, <4>5, <4>6, <4>7 DEF AlarmInv, WholeInv
    <3>2. CASE pc' # "query"
      BY <2>3, <3>2 DEF ValidateCoverage
    <3> QED
      BY <3>1, <3>2
  <2>4. ASSUME NEW encodes \in BOOLEAN, validateDebugPackageKlineRows(encodes)
        PROVE  AlarmInv'
    <3> DEFINE seen == {t \in Expected \cap Opens : copies[t] > 0}
    <3>1. whole => seen = Expected /\ ~undated
      BY <2>4 DEF validateDebugPackageKlineRows, Complete
    <3>2. whole => answer' \in {"sent", "not encoded"}
      BY <2>4, <3>1 DEF validateDebugPackageKlineRows
    <3>3. pc' = "done" /\ whole' = whole
      BY <2>4 DEF validateDebugPackageKlineRows
    <3> QED
      BY <3>2, <3>3
  <2>5. CASE PlaneError
    BY <2>5 DEF PlaneError
  <2>6. ASSUME NEW t \in Opens, NEW kind \in Kinds, Store(t, kind)
        PROVE  AlarmInv'
    <3>1. /\ pc \in {"validate", "query"}
          /\ whole' = (whole /\ Complete(history'))
          /\ UNCHANGED <<pc, startMS, endMS, cursor, copies, undated, answer>>
      BY <2>6 DEF Store
    <3>2. Complete(history') = Complete(history)' /\ Expected' = Expected
      BY <3>1 DEF Complete, Expected
    <3> QED
      BY <3>1, <3>2
  <2>7. CASE UNCHANGED vars
    BY <2>7 DEF vars, Expected, Complete
  <2> QED
    BY <2>1, <2>2, <2>3, <2>4, <2>5, <2>6, <2>7 DEF Next, Handler
<1>3. AlarmInv => NoFalseAlarm
  BY DEF AlarmInv
<1> QED
  BY <1>1, <1>2, <1>3, TypeCorrect, PTL DEF SafeSpec

-----------------------------------------------------------------------------
(* A download moves on.                                                    *)

\* While pages are read, the next one moves the cursor on by almost a step, and
\* asks for more only short of the end.  Nothing else moves it.
ReadsOn ==
  pc = "query" /\ pc' = "query" =>
    \/ history' # history /\ UNCHANGED <<cursor, endMS>>
    \/ cursor + Step - 1 <= cursor' /\ cursor' < endMS /\ UNCHANGED endMS

\* A page that is followed by another moves on.
LEMMA PageReadsOn ==
  ASSUME TypeOK, NEW batch \in SUBSET Opens, NEW truncated \in BOOLEAN,
         QueryKlines(batch, truncated), pc' = "query"
  PROVE  cursor + Step - 1 <= cursor' /\ cursor' < endMS /\ UNCHANGED endMS
<1>1. cursor \in Nat /\ Step \in Nat /\ Step > 1
  BY Constants DEF TypeOK
<1>2. PICK last \in batch :
        /\ ~(cursorFromKline(last) <= cursor)
        /\ cursor' = cursorFromKline(last)
        /\ cursorFromKline(last) < endMS
  BY DEF QueryKlines, Answer
<1>3. cursor <= last /\ last \in Nat /\ last \in Opens
  BY <1>1, Constants DEF QueryKlines, Page, Stored
<1>4. cursorFromKline(last) \in {0, last + Step - 1, last + Step}
  BY DEF cursorFromKline
<1>5. UNCHANGED endMS
  BY DEF QueryKlines
<1> QED
  BY ONLY <1>1, <1>2, <1>3, <1>4, <1>5

\* However bars are stored and dropped in between, a download that goes on
\* brings its cursor nearer to the end with every page, by almost the length of
\* a bar: there are only so many pages (debug_package.go 182-207, 236-244).
THEOREM DownloadsReadOn == SafeSpec => [][ReadsOn]_vars
<1>1. TypeOK /\ [Next]_vars => [ReadsOn]_vars
  <2> SUFFICES ASSUME TypeOK, [Next]_vars
               PROVE  [ReadsOn]_vars
    OBVIOUS
  <2>1. ASSUME NEW batch \in SUBSET Opens, NEW truncated \in BOOLEAN,
               QueryKlines(batch, truncated)
        PROVE  ReadsOn
    BY <2>1, PageReadsOn DEF ReadsOn
  <2>2. ASSUME NEW t \in Opens, NEW kind \in Kinds, Store(t, kind)
        PROVE  ReadsOn
    <3>1. history'[t] # history[t]
      BY <2>2 DEF Store, TypeOK
    <3> QED
      BY <2>2, <3>1 DEF Store, ReadsOn
  <2>3. ASSUME NEW lo \in Times, NEW hi \in Times, NEW fits \in BOOLEAN,
               handleAccountDebugPackage(lo, hi, fits)
        PROVE  pc # "query"
    BY <2>3 DEF handleAccountDebugPackage
  <2>4. ASSUME NEW ok \in BOOLEAN, ValidateCoverage(ok)
        PROVE  pc # "query"
    BY <2>4 DEF ValidateCoverage
  <2>5. ASSUME NEW encodes \in BOOLEAN, validateDebugPackageKlineRows(encodes)
        PROVE  ReadsOn
    BY <2>5 DEF validateDebugPackageKlineRows, Answer, ReadsOn
  <2>6. CASE PlaneError
    BY <2>6 DEF PlaneError, Answer, ReadsOn
  <2> QED
    BY <2>1, <2>2, <2>3, <2>4, <2>5, <2>6 DEF Next, Handler, ReadsOn
<1> QED
  BY <1>1, TypeCorrect, PTL DEF SafeSpec
=============================================================================
