------------------------- MODULE TableReadSpanProofs -------------------------
(***************************************************************************)
(* The safety properties of TableReadSpan, for any number of goroutines    *)
(* that close the span, ask it or read through it, and for every limit of  *)
(* the profile.                                                            *)
(*                                                                         *)
(* SpanInv is the inductive invariant.  Its parts follow the argument:     *)
(* before openTableRead is through nobody closes (OpenAlone), and what is  *)
(* held is a prefix of pool, connection, transaction (OpenHolds); then one *)
(* goroutine cleans up, and what is still held depends on how far it is    *)
(* (CleanupStage).                                                         *)
(***************************************************************************)
EXTENDS TableReadSpan, Integers, TLAPS

OpenOver == {"failing", "failed", "returned"}

\* Whoever is in Close came there by the rule of MayClose.
WhoCloses ==
    \A t \in Threads :
        cpc[t] # "idle" => IF t = Opener THEN opc \in {"failing", "failed"} ELSE opc = "returned"

\* Until openTableRead ends nothing is closed and nobody reads.
OpenAlone ==
    opc \notin OpenOver => ~closed /\ conn # "closed" /\ db # "closed" /\ inUse = {}

\* What is held while opening: a prefix of pool, connection, transaction.
OpenHolds ==
    /\ opc \in {"start", "refused", "open"} => db = "none"
    /\ opc \in {"start", "refused", "open", "conn"} => conn = "none"
    /\ opc \in {"start", "refused", "open", "conn", "limits", "queryOnly", "begin"} => tx = "none"
    /\ opc \in {"limits", "queryOnly", "begin"} => conn = "open"
    /\ opc = "conn" => db = "open"
    /\ db = "none" => conn = "none"

\* The transaction lives on an open connection, and the connection in an open pool.
Nested ==
    /\ conn # "open" => tx \in {"none", "done"}
    /\ tx \in {"none", "done"} => inUse = {}
    /\ db # "open" => conn # "open"

\* The flag, the goroutine in Close, and what it has released so far.
CleanupStage ==
    /\ \A t, u \in Threads : Cleaning(t) /\ Cleaning(u) => t = u
    /\ \A t \in Threads :
         /\ cpc[t] # "idle" => closed
         /\ cpc[t] = "rolling" => tx = "byClose"
         /\ cpc[t] = "conn" => tx \in {"none", "byWatcher", "done"}
         /\ cpc[t] = "db" => conn # "open"
    /\ tx = "byClose" => \E t \in Threads : cpc[t] = "rolling"
    /\ closed /\ (\A t \in Threads : ~Cleaning(t)) => Released

\* The failed open waited for its own Close.
FailedClosed == opc = "failed" => cpc[Opener] = "returned"

\* What has been set on the connection, and read back, by each step.
LimitsSet ==
    /\ opc \in {"begin", "inspect", "cells", "session", "live", "returned"} => queryOnly
    /\ opc \in {"cells", "session", "live", "returned"} => ncol \in 1..MaxColumns
    /\ opc \in {"session", "live", "returned"} =>
         length = CellBytes(ncol) /\ length >= MinCellBytes

\* What an asker that was given an invalid span has still to meet.
AskersSeeIt ==
    \A a \in Askers : invalid[a] =>
        /\ apc[a] \in {"factsCtx", "sessionFlag"} => closed \/ ~Live
        /\ apc[a] = "factsFlag" => closed
        /\ apc[a] = "sessionCtx" => ~Live
        /\ apc[a] # "ok"

LifeInv == WhoCloses /\ OpenAlone /\ OpenHolds /\ Nested /\ CleanupStage /\ FailedClosed

SpanInv == TypeOK /\ LifeInv /\ LimitsSet /\ AskersSeeIt

-----------------------------------------------------------------------------
\* What the division of a row's budget among the cells returns.
LEMMA CellBudget ==
    ASSUME NEW n \in 1..MaxColumns
    PROVE  /\ CellBytes(n) \in Nat
           /\ CellBytes(n) * n <= MaxBytes
<1>1. MaxBytes \in Nat /\ n \in Nat \ {0}
  BY TableReadSpanAssumption
<1> DEFINE q == MaxBytes \div n
<1>2. q \in Int /\ MaxBytes = n * q + (MaxBytes % n) /\ MaxBytes % n \in 0..(n - 1)
  BY <1>1
<1>3. q \in Nat
  BY <1>1, <1>2
<1>4. q * n <= MaxBytes
  BY <1>1, <1>2
<1> QED
  BY <1>3, <1>4 DEF CellBytes

-----------------------------------------------------------------------------
(* Type correctness needs the order of the steps (LimitsSet): the division *)
(* of OpenCells is by the number of columns that OpenInspect found.        *)

LEMMA TypeStep ==
    ASSUME TypeOK, LimitsSet, [Next]_vars
    PROVE  TypeOK'
<1> USE DEF TypeOK
<1>1. CASE Open
  <2> USE DEF Advance, FailFrom, OpenSteps, resources, limits, asking
  <2>1. CASE OpenStart
    BY <2>1 DEF OpenStart
  <2>2. CASE OpenDB
    BY <2>2 DEF OpenDB
  <2>3. CASE OpenConn
    BY <2>3 DEF OpenConn
  <2>4. CASE OpenLimits
    BY <2>4, TableReadSpanAssumption DEF OpenLimits, SetLength
  <2>5. CASE OpenQueryOnly
    BY <2>5 DEF OpenQueryOnly
  <2>6. CASE OpenBegin
    BY <2>6 DEF OpenBegin
  <2>7. CASE OpenInspect
    BY <2>7, TableReadSpanAssumption DEF OpenInspect
  <2>8. CASE OpenCells
    <3>1. opc = "cells" => CellBytes(ncol) \in Nat
      BY CellBudget DEF LimitsSet
    <3> QED
      BY <2>8, <3>1 DEF OpenCells, SetLength
  <2>9. CASE OpenSession \/ OpenLive \/ OpenFailed
    BY <2>9 DEF OpenSession, OpenLive, OpenFailed
  <2> QED
    BY <1>1, <2>1, <2>2, <2>3, <2>4, <2>5, <2>6, <2>7, <2>8, <2>9 DEF Open
<1>2. ASSUME NEW t \in Threads, Close(t)
      PROVE  TypeOK'
  <2> USE DEF Goto, resources, limits, asking
  <2>1. CASE CloseSwap(t)
    BY <2>1 DEF CloseSwap
  <2>2. CASE CloseCancel(t)
    BY <2>2 DEF CloseCancel
  <2>3. CASE CloseRollback(t)
    BY <2>3 DEF CloseRollback
  <2>4. CASE CloseRolled(t)
    BY <2>4 DEF CloseRolled
  <2>5. CASE CloseConn(t)
    BY <2>5 DEF CloseConn
  <2>6. CASE CloseDB(t)
    BY <2>6 DEF CloseDB
  <2> QED
    BY <1>2, <2>1, <2>2, <2>3, <2>4, <2>5, <2>6 DEF Close
<1>3. CASE Cancel \/ Watcher
  BY <1>3 DEF Cancel, Watcher, WatcherClaim, WatcherRolled, resources, limits, asking
<1>4. CASE \E u \in Users : Use(u) \/ Unuse(u)
  BY <1>4 DEF Use, Unuse, resources, limits, asking
<1>5. ASSUME NEW a \in Askers, Ask(a) \/ Facts(a) \/ Session(a)
      PROVE  TypeOK'
  <2> USE DEF resources, limits
  <2>1. CASE Ask(a)
    BY <2>1 DEF Ask, Live
  <2>2. CASE Facts(a)
    BY <2>2 DEF Facts, Answer
  <2>3. CASE Session(a)
    BY <2>3 DEF Session, Answer
  <2> QED
    BY <1>5, <2>1, <2>2, <2>3
<1>6. CASE UNCHANGED vars
  BY <1>6 DEF vars, resources, limits, asking
<1> QED
  BY <1>1, <1>2, <1>3, <1>4, <1>5, <1>6 DEF Next

-----------------------------------------------------------------------------
(* The life of the span.                                                   *)

LEMMA LifeStep ==
    ASSUME TypeOK, LifeInv, [Next]_vars
    PROVE  LifeInv'
<1> USE TableReadSpanAssumption
    DEF TypeOK, LifeInv, WhoCloses, OpenAlone, OpenHolds, Nested, CleanupStage, FailedClosed,
        OpenOver, Released, Cleaning, Threads, resources, limits, asking
<1>1. CASE Open
  <2> USE DEF Advance, FailFrom
  <2>1. CASE OpenStart
    BY <2>1 DEF OpenStart
  <2>2. CASE OpenDB
    BY <2>2 DEF OpenDB
  <2>3. CASE OpenConn
    BY <2>3 DEF OpenConn
  <2>4. CASE OpenLimits
    BY <2>4 DEF OpenLimits, SetLength
  <2>5. CASE OpenQueryOnly
    BY <2>5 DEF OpenQueryOnly
  <2>6. CASE OpenBegin
    BY <2>6 DEF OpenBegin
  <2>7. CASE OpenInspect
    BY <2>7 DEF OpenInspect
  <2>8. CASE OpenCells
    BY <2>8 DEF OpenCells, SetLength
  <2>9. CASE OpenSession
    BY <2>9 DEF OpenSession
  <2>10. CASE OpenLive
    BY <2>10 DEF OpenLive
  <2>11. CASE OpenFailed
    BY <2>11 DEF OpenFailed
  <2> QED
    BY <1>1, <2>1, <2>2, <2>3, <2>4, <2>5, <2>6, <2>7, <2>8, <2>9, <2>10, <2>11 DEF Open
<1>2. ASSUME NEW t \in Threads, Close(t)
      PROVE  LifeInv'
  <2> USE DEF Goto, MayClose
  <2>1. CASE CloseSwap(t)
    BY <2>1 DEF CloseSwap
  <2>2. CASE CloseCancel(t)
    BY <2>2 DEF CloseCancel
  <2>3. CASE CloseRollback(t)
    BY <2>3 DEF CloseRollback
  <2>4. CASE CloseRolled(t)
    BY <2>4 DEF CloseRolled
  <2>5. CASE CloseConn(t)
    BY <2>5 DEF CloseConn
  <2>6. CASE CloseDB(t)
    BY <2>6 DEF CloseDB
  <2> QED
    BY <1>2, <2>1, <2>2, <2>3, <2>4, <2>5, <2>6 DEF Close
<1>3. CASE Cancel
  BY <1>3 DEF Cancel
<1>4. CASE Watcher
  BY <1>4 DEF Watcher, WatcherClaim, WatcherRolled
<1>5. CASE \E u \in Users : Use(u) \/ Unuse(u)
  BY <1>5 DEF Use, Unuse
<1>6. CASE \E a \in Askers : Ask(a) \/ Facts(a) \/ Session(a)
  BY <1>6 DEF Ask, Facts, Session, Answer
<1>7. CASE UNCHANGED vars
  BY <1>7 DEF vars
<1> QED
  BY <1>1, <1>2, <1>3, <1>4, <1>5, <1>6, <1>7 DEF Next

-----------------------------------------------------------------------------
(* The limits of the connection and the askers.                            *)

LEMMA LimitsStep ==
    ASSUME TypeOK, LimitsSet, [Next]_vars
    PROVE  LimitsSet'
<1> USE DEF TypeOK, LimitsSet, limits
<1>1. CASE Open
  <2> USE DEF Advance, FailFrom, SetLength
  <2>1. CASE OpenStart \/ OpenDB \/ OpenConn \/ OpenBegin \/ OpenSession \/ OpenLive \/ OpenFailed
    BY <2>1 DEF OpenStart, OpenDB, OpenConn, OpenBegin, OpenSession, OpenLive, OpenFailed
  <2>2. CASE OpenLimits \/ OpenQueryOnly \/ OpenInspect
    BY <2>2 DEF OpenLimits, OpenQueryOnly, OpenInspect
  <2>3. CASE OpenCells
    BY <2>3 DEF OpenCells
  <2> QED
    BY <1>1, <2>1, <2>2, <2>3 DEF Open
<1>2. CASE \E t \in Threads : Close(t)
  BY <1>2 DEF Close, CloseSwap, CloseCancel, CloseRollback, CloseRolled, CloseConn, CloseDB
<1>3. CASE Cancel \/ Watcher \/ \E u \in Users : Use(u) \/ Unuse(u)
  BY <1>3 DEF Cancel, Watcher, WatcherClaim, WatcherRolled, Use, Unuse
<1>4. CASE \E a \in Askers : Ask(a) \/ Facts(a) \/ Session(a)
  BY <1>4 DEF Ask, Facts, Session, Answer
<1>5. CASE UNCHANGED vars
  BY <1>5 DEF vars
<1> QED
  BY <1>1, <1>2, <1>3, <1>4, <1>5 DEF Next

\* The flag is never cleared and the context never revived.
LEMMA StaysInvalid ==
    ASSUME TypeOK, [Next]_vars
    PROVE  (closed => closed') /\ (~Live => ~Live')
<1> USE DEF TypeOK, Live
<1>1. CASE Open
  BY <1>1 DEF Open, OpenStart, OpenDB, OpenConn, OpenLimits, OpenQueryOnly, OpenBegin,
              OpenInspect, OpenCells, OpenSession, OpenLive, OpenFailed, FailFrom
<1>2. CASE \E t \in Threads : Close(t)
  BY <1>2 DEF Close, CloseSwap, CloseCancel, CloseRollback, CloseRolled, CloseConn, CloseDB
<1>3. CASE Cancel \/ Watcher \/ \E u \in Users : Use(u) \/ Unuse(u)
  BY <1>3 DEF Cancel, Watcher, WatcherClaim, WatcherRolled, Use, Unuse
<1>4. CASE \E a \in Askers : Ask(a) \/ Facts(a) \/ Session(a)
  BY <1>4 DEF Ask, Facts, Session, Answer
<1>5. CASE UNCHANGED vars
  BY <1>5 DEF vars
<1> QED
  BY <1>1, <1>2, <1>3, <1>4, <1>5 DEF Next

LEMMA AskersStep ==
    ASSUME TypeOK, AskersSeeIt, [Next]_vars
    PROVE  AskersSeeIt'
<1> USE DEF TypeOK, AskersSeeIt
<1>1. CASE UNCHANGED asking
  BY <1>1, StaysInvalid DEF asking
<1>2. ASSUME NEW a \in Askers, Ask(a) \/ Facts(a) \/ Session(a)
      PROVE  AskersSeeIt'
  <2>1. UNCHANGED <<closed, ctx>>
    BY <1>2 DEF Ask, Facts, Session, Answer
  <2>2. CASE Ask(a)
    BY <2>1, <2>2 DEF Ask, Live
  <2>3. CASE Facts(a)
    BY <2>1, <2>3 DEF Facts, Answer, Live
  <2>4. CASE Session(a)
    BY <2>1, <2>4 DEF Session, Answer, Live
  <2> QED
    BY <1>2, <2>2, <2>3, <2>4
<1>3. CASE Open
  BY <1>1, <1>3 DEF Open, OpenStart, OpenDB, OpenConn, OpenLimits, OpenQueryOnly, OpenBegin,
              OpenInspect, OpenCells, OpenSession, OpenLive, OpenFailed, FailFrom
<1>4. CASE \E t \in Threads : Close(t)
  BY <1>1, <1>4 DEF Close, CloseSwap, CloseCancel, CloseRollback, CloseRolled, CloseConn, CloseDB
<1>5. CASE Cancel \/ Watcher \/ \E u \in Users : Use(u) \/ Unuse(u)
  BY <1>1, <1>5 DEF Cancel, Watcher, WatcherClaim, WatcherRolled, Use, Unuse
<1>6. CASE UNCHANGED vars
  BY <1>1, <1>6 DEF vars
<1> QED
  BY <1>2, <1>3, <1>4, <1>5, <1>6 DEF Next

-----------------------------------------------------------------------------
LEMMA SpanInvInit == Init => SpanInv
<1> SUFFICES ASSUME Init PROVE SpanInv
  OBVIOUS
<1>1. TypeOK
  <2>1. invalid \in [Askers -> BOOLEAN] /\ apc \in [Askers -> {"idle"}]
    BY DEF Init
  <2>2. cpc \in [Threads -> {"idle"}] /\ ncol \in 0..MaxColumns /\ length \in Nat
    BY TableReadSpanAssumption DEF Init
  <2> QED
    BY <2>1, <2>2 DEF Init, TypeOK, OpenSteps
<1>2. LifeInv
  BY DEF Init, LifeInv, WhoCloses, OpenAlone, OpenHolds, Nested, CleanupStage, FailedClosed,
         OpenOver, Released, Cleaning
<1>3. LimitsSet /\ AskersSeeIt
  BY DEF Init, LimitsSet, AskersSeeIt
<1> QED
  BY <1>1, <1>2, <1>3 DEF SpanInv

LEMMA SpanInvStep == SpanInv /\ [Next]_vars => SpanInv'
BY TypeStep, LifeStep, LimitsStep, AskersStep DEF SpanInv

\* The invariant of the span: it holds at first and every step keeps it.
THEOREM SpanInvariance == Spec => []SpanInv
BY SpanInvInit, SpanInvStep, PTL DEF Spec

\* Every variable of the span keeps its type: in particular the length limit that
\* OpenCells computes is a natural number for every table that fits the profile.
THEOREM SpanTypeCorrect == Spec => []TypeOK
<1>1. SpanInv => TypeOK
  BY DEF SpanInv
<1> QED
  BY <1>1, SpanInvariance, PTL

\* An openTableRead that returned an error holds neither pool, connection nor
\* transaction, wherever it failed.
THEOREM FailedOpenIsClean == Spec => []FailedOpenHoldsNothing
<1>1. SpanInv => FailedOpenHoldsNothing
  BY DEF SpanInv, TypeOK, LifeInv, WhoCloses, OpenAlone, OpenHolds, Nested, CleanupStage,
         FailedClosed, OpenOver, Released, Cleaning, Threads, FailedOpenHoldsNothing
<1> QED
  BY <1>1, SpanInvariance, PTL

\* One goroutine cleans up, in the order transaction, connection, pool, and
\* leaves nothing open, however many call Close.
THEOREM OneCleanupInOrder == Spec => [](OneCleanup /\ CleanupOrder)
<1>1. SpanInv => OneCleanup /\ CleanupOrder
  BY DEF SpanInv, LifeInv, Nested, CleanupStage, OneCleanup, CleanupOrder
<1> QED
  BY <1>1, SpanInvariance, PTL

\* A returned span reads under query_only, and a row of any table of the profile
\* stays within MaxBytes, whatever MaxBytes and the number of columns are.
THEOREM ReadsAreBounded == Spec => []BoundedReads
<1>1. SpanInv => BoundedReads
  <2> SUFFICES ASSUME SpanInv, opc = "returned" PROVE BoundedReads
    BY DEF BoundedReads
  <2>1. ncol \in 1..MaxColumns /\ length = CellBytes(ncol) /\ length >= MinCellBytes /\ queryOnly
    BY DEF SpanInv, LimitsSet
  <2>2. length * ncol <= MaxBytes
    BY <2>1, CellBudget
  <2> QED
    BY <2>1, <2>2 DEF BoundedReads
<1> QED
  BY <1>1, SpanInvariance, PTL

\* Facts and Session refuse every call made after the span became invalid.
THEOREM InvalidSpanIsSilent == Spec => []NoAnswerOnceInvalid
<1>1. SpanInv => NoAnswerOnceInvalid
  BY DEF SpanInv, AskersSeeIt, NoAnswerOnceInvalid
<1> QED
  BY <1>1, SpanInvariance, PTL
=============================================================================
