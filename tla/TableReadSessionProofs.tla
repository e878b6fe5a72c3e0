----------------------- MODULE TableReadSessionProofs -----------------------
(***************************************************************************)
(* The calls of a session use the transaction as the span expects of its   *)
(* users, deliver nothing that was invalid, and leave neither an AfterFunc *)
(* nor native rows behind, for any number of users, closers and askers.    *)
(***************************************************************************)
EXTENDS TableReadSession, TableReadSpanProofs

-----------------------------------------------------------------------------
(* The inductive invariant.                                                *)

\* Before the context is linked; up to the native call; after it.
Early == {"idle", "enter", "enterCtx", "link"}
Before == {"recheck", "recheckFlag", "native", "running"}
After == {"lateCheck", "lateFlag"}
Iterating == {"reader", "nextNative", "nextRunning"} \cup ReaderChecks

Places == Early \cup Before \cup After \cup Iterating
            \cup {"abort", "abortClose", "release", "closing", "done"}

SessionTypes ==
    /\ spc \in [Users -> Places]
    /\ kind \in [Users -> {"point", "query"}]
    /\ own \in [Users -> BOOLEAN]
    /\ linked \in [Users -> {"none", "live", "cancelled"}]
    /\ armed \in [Users -> BOOLEAN]
    /\ rows \in [Users -> {"none", "open", "closed"}]
    /\ handed \in [Users -> BOOLEAN]
    /\ rclosed \in [Users -> BOOLEAN]
    /\ rpc \in [Users -> [Ends -> {"idle", "swap", "release", "native", "done"}]]
    /\ ncloses \in [Users -> 0..2]
    /\ got \in [Users -> {"none", "value", "error"}]
    /\ late \in [Users -> BOOLEAN]

Unlinked(u) == ~armed[u] /\ linked[u] # "live"

\* The end of the reader that won the swap has still to release or to close.
Closing(u, e) == rpc[u][e] \in {"release", "native"}

\* What the call holds: the transaction, native rows, a linked context.
CallHolds(u) ==
    /\ spc[u] # "idle" => opc = "returned"
    /\ u \in inUse <=> spc[u] = "running" \/ rows[u] = "open"
    /\ spc[u] \in Early => ~armed[u] /\ linked[u] = "none"
    /\ spc[u] \in Early \cup Before \/ kind[u] = "point" => rows[u] = "none"
    /\ spc[u] \in After /\ kind[u] = "query" => rows[u] # "none"
    /\ spc[u] = "abortClose" => rows[u] # "none"
    /\ spc[u] = "release" => kind[u] = "point"
    /\ spc[u] = "abortClose" \/ (spc[u] = "done" /\ ~handed[u]) => Unlinked(u)

\* Where the two ends of its reader are.
ReaderInv(u) ==
    /\ handed[u] => kind[u] = "query" /\ rows[u] # "none"
    /\ spc[u] \in Iterating \cup {"closing"} => handed[u]
    /\ handed[u] => spc[u] \in Iterating \cup {"closing", "done"}
    /\ ~handed[u] => ~rclosed[u] /\ rpc[u]["main"] = "idle" /\ rpc[u]["other"] = "idle"
    /\ spc[u] \notin {"closing", "done"} => rpc[u]["main"] = "idle"
    /\ spc[u] = "done" /\ handed[u] => rpc[u]["main"] = "done"
    /\ \A e \in Ends : rpc[u][e] \in {"release", "native", "done"} => rclosed[u]
    /\ ~(Closing(u, "main") /\ Closing(u, "other"))
    /\ rclosed[u] => Unlinked(u) \/ rpc[u]["main"] = "release" \/ rpc[u]["other"] = "release"

ClosesCounted(u) ==
    ncloses[u] = IF \/ rclosed[u] /\ ~Closing(u, "main") /\ ~Closing(u, "other")
                    \/ ~handed[u] /\ spc[u] = "done" /\ rows[u] # "none"
                 THEN 1 ELSE 0

\* What the check of the flags, which comes last, has still to find out.
Checked(u) ==
    /\ spc[u] \in Before \cup After \cup (Iterating \ {"reader"}) \cup Early => got[u] = "none"
    /\ spc[u] \in {"lateCheck", "nextLate"} /\ late[u] => Invalid(u)
    /\ spc[u] \in {"lateFlag", "nextLateFlag"} /\ late[u] => closed \/ rclosed[u]
    /\ got[u] = "value" => ~late[u]

UserInv(u) == CallHolds(u) /\ ReaderInv(u) /\ ClosesCounted(u) /\ Checked(u)

SessionInv == SpanInv /\ SessionTypes /\ \A u \in Users : UserInv(u)

-----------------------------------------------------------------------------
(* A step of one user.                                                     *)

\* Only the call of u, its reader and its hold on the transaction change.
Frame(u) ==
    /\ UNCHANGED spanVars
    /\ \A p \in Users \ {u} :
         /\ spc'[p] = spc[p] /\ kind'[p] = kind[p] /\ linked'[p] = linked[p] /\ armed'[p] = armed[p]
         /\ rows'[p] = rows[p] /\ handed'[p] = handed[p] /\ rclosed'[p] = rclosed[p]
         /\ rpc'[p] = rpc[p] /\ ncloses'[p] = ncloses[p] /\ got'[p] = got[p] /\ late'[p] = late[p]
         /\ (p \in inUse') = (p \in inUse)

LEMMA PlacesAre ==
    /\ {"idle", "enter", "enterCtx", "link", "native", "running", "abort", "abortClose", "release",
        "reader", "nextNative", "nextRunning", "closing", "done"} \subseteq Places
    /\ CallChecks \subseteq Places /\ ReaderChecks \subseteq Places
BY DEF Places, Early, Before, After, Iterating, CallChecks, ReaderChecks

\* What the steps with a choice may write.
LEMMA Written ==
    ASSUME SessionTypes, NEW u \in Users
    PROVE  /\ [rpc EXCEPT ![u]["main"] = "swap"]
                \in [Users -> [Ends -> {"idle", "swap", "release", "native", "done"}]]
           /\ Invalid(u) \in BOOLEAN
           /\ \A c \in DOMAIN AfterContexts : AfterContexts[c] \in Places
           /\ \A c \in DOMAIN AfterFlags : AfterFlags[c] \in Places
<1>1. [rpc EXCEPT ![u]["main"] = "swap"]
         \in [Users -> [Ends -> {"idle", "swap", "release", "native", "done"}]]
  BY DEF SessionTypes, Ends
<1>2. Invalid(u) \in BOOLEAN
  BY DEF Invalid
<1>3. \A c \in DOMAIN AfterContexts : AfterContexts[c] \in Places
  BY PlacesAre DEF AfterContexts, ReaderChecks, CallChecks
<1>4. \A c \in DOMAIN AfterFlags : AfterFlags[c] \in Places
  BY PlacesAre DEF AfterFlags
<1> QED
  BY <1>1, <1>2, <1>3, <1>4

\* Such a step leaves the invariant to the others.
LEMMA FrameKeeps ==
    ASSUME SessionTypes, NEW u \in Users, \A p \in Users : UserInv(p), Frame(u), UserInv(u)'
    PROVE  \A p \in Users : UserInv(p)'
<1>1. ASSUME NEW p \in Users \ {u} PROVE UserInv(p)'
  <2>1. CallHolds(p)' /\ ReaderInv(p)' /\ ClosesCounted(p)'
    BY <1>1 DEF Frame, UserInv, CallHolds, ReaderInv, ClosesCounted, Closing, Unlinked, spanVars
  <2>2. Checked(p)'
    BY <1>1 DEF Frame, UserInv, Checked, Invalid, Live, spanVars
  <2> QED
    BY <2>1, <2>2 DEF UserInv
<1> QED
  BY <1>1 DEF Frame

\* callContext, and the contexts that end.
LEMMA EnterKeeps ==
    ASSUME SessionTypes, NEW u \in Users, UserInv(u),
           Call(u) \/ EnterFlag(u) \/ EnterCtx(u) \/ Link(u) \/ Fire(u) \/ CallerCancel(u)
    PROVE  SessionTypes' /\ Frame(u) /\ UserInv(u)'
<1> USE PlacesAre DEF SessionTypes, CallChecks, ReaderChecks
<1>1. CASE Call(u)
  <2>1. SessionTypes'
    BY <1>1 DEF Call, Step
  <2>2. Frame(u)
    BY <1>1 DEF Call, Step, Frame
  <2>3. CallHolds(u)' /\ ReaderInv(u)'
    BY <1>1, <2>2 DEF Call, Step, UserInv, CallHolds, ReaderInv, ClosesCounted, Closing,
        Unlinked, Frame, Ends, spanVars, Early, Before, After, Iterating
  <2>4. ClosesCounted(u)' /\ Checked(u)'
    BY <1>1, <2>2 DEF Call, Step, UserInv, CallHolds, ReaderInv, ClosesCounted, Closing,
        Unlinked, Checked, Invalid, Live, Frame, Ends, spanVars, Early, Before, After, Iterating
  <2> QED
    BY <2>1, <2>2, <2>3, <2>4 DEF UserInv
<1>2. CASE EnterFlag(u)
  <2>1. SessionTypes'
    <3>1. spc' \in [Users -> Places]
      BY <1>2, Written DEF EnterFlag, Step, Report
    <3>2. got' \in [Users -> {"none", "value", "error"}]
      BY <1>2, Written DEF EnterFlag, Step, Report
    <3> QED
      BY <1>2, <3>1, <3>2 DEF EnterFlag
  <2>2. Frame(u)
    <3>1. CASE closed
      BY <1>2, <3>1 DEF EnterFlag, Step, Report, Frame
    <3>2. CASE ~closed
      BY <1>2, <3>2 DEF EnterFlag, Step, Report, Frame
    <3> QED
      BY <3>1, <3>2
  <2>3. CallHolds(u)' /\ ReaderInv(u)'
    BY <1>2, <2>2 DEF EnterFlag, Step, Report, UserInv, CallHolds, ReaderInv, ClosesCounted,
        Closing, Unlinked, Frame, Ends, spanVars, Early, Before, After, Iterating
  <2>4. ClosesCounted(u)' /\ Checked(u)'
    BY <1>2, <2>2 DEF EnterFlag, Step, Report, UserInv, CallHolds, ReaderInv, ClosesCounted,
        Closing, Unlinked, Checked, Invalid, Live, Frame, Ends, spanVars, Early, Before, After,
        Iterating
  <2> QED
    BY <2>1, <2>2, <2>3, <2>4 DEF UserInv
<1>3. CASE EnterCtx(u)
  <2>1. SessionTypes'
    <3>1. spc' \in [Users -> Places]
      BY <1>3, Written DEF EnterCtx, Step, Report
    <3>2. got' \in [Users -> {"none", "value", "error"}]
      BY <1>3, Written DEF EnterCtx, Step, Report
    <3> QED
      BY <1>3, <3>1, <3>2 DEF EnterCtx
  <2>2. Frame(u)
    <3>1. CASE own[u] \/ ~Live
      BY <1>3, <3>1 DEF EnterCtx, Step, Report, Frame
    <3>2. CASE ~(own[u] \/ ~Live)
      BY <1>3, <3>2 DEF EnterCtx, Step, Report, Frame
    <3> QED
      BY <3>1, <3>2
  <2>3. CallHolds(u)' /\ ReaderInv(u)'
    BY <1>3, <2>2 DEF EnterCtx, Step, Report, UserInv, CallHolds, ReaderInv, ClosesCounted,
        Closing, Unlinked, Frame, Ends, spanVars, Early, Before, After, Iterating
  <2>4. ClosesCounted(u)' /\ Checked(u)'
    BY <1>3, <2>2 DEF EnterCtx, Step, Report, UserInv, CallHolds, ReaderInv, ClosesCounted,
        Closing, Unlinked, Checked, Invalid, Live, Frame, Ends, spanVars, Early, Before, After,
        Iterating
  <2> QED
    BY <2>1, <2>2, <2>3, <2>4 DEF UserInv
<1>4. CASE Link(u)
  <2>1. SessionTypes'
    BY <1>4 DEF Link, Step
  <2>2. Frame(u)
    BY <1>4 DEF Link, Step, Frame
  <2>3. CallHolds(u)' /\ ReaderInv(u)'
    BY <1>4, <2>2 DEF Link, Step, UserInv, CallHolds, ReaderInv, ClosesCounted, Closing,
        Unlinked, Frame, Ends, spanVars, Early, Before, After, Iterating
  <2>4. ClosesCounted(u)' /\ Checked(u)'
    BY <1>4, <2>2 DEF Link, Step, UserInv, CallHolds, ReaderInv, ClosesCounted, Closing,
        Unlinked, Checked, Invalid, Live, Frame, Ends, spanVars, Early, Before, After, Iterating
  <2> QED
    BY <2>1, <2>2, <2>3, <2>4 DEF UserInv
<1>5. CASE Fire(u)
  <2>1. SessionTypes'
    BY <1>5 DEF Fire, Release
  <2>2. Frame(u)
    BY <1>5 DEF Fire, Release, Frame
  <2>3. CallHolds(u)' /\ ReaderInv(u)'
    BY <1>5, <2>2 DEF Fire, Release, UserInv, CallHolds, ReaderInv, ClosesCounted, Closing,
        Unlinked, Frame, Ends, spanVars, Early, Before, After, Iterating
  <2>4. ClosesCounted(u)' /\ Checked(u)'
    BY <1>5, <2>2 DEF Fire, Release, UserInv, CallHolds, ReaderInv, ClosesCounted, Closing,
        Unlinked, Checked, Invalid, Live, Frame, Ends, spanVars, Early, Before, After, Iterating
  <2> QED
    BY <2>1, <2>2, <2>3, <2>4 DEF UserInv
<1>6. CASE CallerCancel(u)
  <2>1. SessionTypes'
    BY <1>6 DEF CallerCancel
  <2>2. Frame(u)
    BY <1>6 DEF CallerCancel, Frame
  <2>3. CallHolds(u)' /\ ReaderInv(u)'
    BY <1>6, <2>2 DEF CallerCancel, UserInv, CallHolds, ReaderInv, ClosesCounted, Closing,
        Unlinked, Frame, Ends, spanVars, Early, Before, After, Iterating
  <2>4. ClosesCounted(u)' /\ Checked(u)'
    BY <1>6, <2>2 DEF CallerCancel, UserInv, CallHolds, ReaderInv, ClosesCounted, Closing,
        Unlinked, Checked, Invalid, Live, Frame, Ends, spanVars, Early, Before, After, Iterating
  <2> QED
    BY <2>1, <2>2, <2>3, <2>4 DEF UserInv
<1> QED
  BY <1>1, <1>2, <1>3, <1>4, <1>5, <1>6

\* The checks of liveness.
LEMMA ChecksKeep ==
    ASSUME SessionTypes, NEW u \in Users, UserInv(u),
           CheckContexts(u) \/ CheckFlags(u) \/ Deliver(u)
    PROVE  SessionTypes' /\ Frame(u) /\ UserInv(u)'
<1> USE PlacesAre DEF SessionTypes, CallChecks, ReaderChecks
<1>1. CASE CheckContexts(u)
  <2>1. SessionTypes'
    <3>1. spc' \in [Users -> Places]
      BY <1>1, Written, SMTT(30) DEF CheckContexts, CheckFails, Step, Report
    <3>2. rpc' \in [Users -> [Ends -> {"idle", "swap", "release", "native", "done"}]]
      <4>1. rpc' = rpc \/ rpc' = [rpc EXCEPT ![u]["main"] = "swap"]
        BY <1>1 DEF CheckContexts, CheckFails, Step, Report
      <4>2. CASE rpc' = rpc
        BY <4>2
      <4>3. CASE rpc' = [rpc EXCEPT ![u]["main"] = "swap"]
        BY <4>3, Written
      <4> QED
        BY <4>1, <4>2, <4>3
    <3>3. got' \in [Users -> {"none", "value", "error"}]
      BY <1>1, Written DEF CheckContexts, CheckFails, Step, Report
    <3> QED
      BY <1>1, <3>1, <3>2, <3>3 DEF CheckContexts, CheckFails
  <2>2. Frame(u)
    <3>1. CASE Contexts(u)
      BY <1>1, <3>1 DEF CheckContexts, AfterContexts, CheckFails, Step, Report, Frame
    <3>2. CASE ~Contexts(u) /\ spc[u] \in ReaderChecks
      BY <1>1, <3>2 DEF CheckContexts, AfterContexts, CheckFails, Step, Report, Frame
    <3>3. CASE ~Contexts(u) /\ spc[u] \notin ReaderChecks
      BY <1>1, <3>3 DEF CheckContexts, AfterContexts, CheckFails, Step, Report, Frame
    <3> QED
      BY <3>1, <3>2, <3>3
  <2>3. CallHolds(u)' /\ ReaderInv(u)'
    BY <1>1, <2>2 DEF CheckContexts, AfterContexts, Contexts, CheckFails, Step, Report,
        UserInv, CallHolds, ReaderInv, ClosesCounted, Closing, Unlinked, Frame, Ends, spanVars,
        Early, Before, After, Iterating
  <2>4. ClosesCounted(u)' /\ Checked(u)'
    BY <1>1, <2>2 DEF CheckContexts, AfterContexts, Contexts, CheckFails, Step, Report,
        UserInv, CallHolds, ReaderInv, ClosesCounted, Closing, Unlinked, Checked, Invalid, Live,
        Frame, Ends, spanVars, Early, Before, After, Iterating
  <2> QED
    BY <2>1, <2>2, <2>3, <2>4 DEF UserInv
<1>2. CASE CheckFlags(u)
  <2>1. SessionTypes'
    <3>1. spc' \in [Users -> Places]
      BY <1>2, Written, SMTT(30) DEF CheckFlags, CheckFails, Step, Report
    <3>2. rpc' \in [Users -> [Ends -> {"idle", "swap", "release", "native", "done"}]]
      <4>1. rpc' = rpc \/ rpc' = [rpc EXCEPT ![u]["main"] = "swap"]
        BY <1>2 DEF CheckFlags, CheckFails, Step, Report
      <4>2. CASE rpc' = rpc
        BY <4>2
      <4>3. CASE rpc' = [rpc EXCEPT ![u]["main"] = "swap"]
        BY <4>3, Written
      <4> QED
        BY <4>1, <4>2, <4>3
    <3>3. got' \in [Users -> {"none", "value", "error"}]
      BY <1>2, Written DEF CheckFlags, CheckFails, Step, Report
    <3> QED
      BY <1>2, <3>1, <3>2, <3>3 DEF CheckFlags, CheckFails
  <2>2. Frame(u)
    <3>1. CASE Flags(u)
      BY <1>2, <3>1 DEF CheckFlags, AfterFlags, CheckFails, Step, Report, Frame
    <3>2. CASE ~Flags(u) /\ spc[u] \in ReaderChecks
      BY <1>2, <3>2 DEF CheckFlags, AfterFlags, CheckFails, Step, Report, Frame
    <3>3. CASE ~Flags(u) /\ spc[u] \notin ReaderChecks
      BY <1>2, <3>3 DEF CheckFlags, AfterFlags, CheckFails, Step, Report, Frame
    <3> QED
      BY <3>1, <3>2, <3>3
  <2>3. CallHolds(u)' /\ ReaderInv(u)'
    BY <1>2, <2>2 DEF CheckFlags, AfterFlags, Flags, CheckFails, Step, Report, UserInv,
        CallHolds, ReaderInv, ClosesCounted, Closing, Unlinked, Frame, Ends, spanVars, Early,
        Before, After, Iterating
  <2>4. ClosesCounted(u)' /\ Checked(u)'
    BY <1>2, <2>2 DEF CheckFlags, AfterFlags, Flags, CheckFails, Step, Report, UserInv,
        CallHolds, ReaderInv, ClosesCounted, Closing, Unlinked, Checked, Invalid, Live, Frame,
        Ends, spanVars, Early, Before, After, Iterating
  <2> QED
    BY <2>1, <2>2, <2>3, <2>4 DEF UserInv
<1>3. CASE Deliver(u)
  <2>1. SessionTypes'
    <3>1. spc' \in [Users -> Places]
      BY <1>3, Written, SMTT(30) DEF Deliver, CheckFails, Step, Report
    <3>2. rpc' \in [Users -> [Ends -> {"idle", "swap", "release", "native", "done"}]]
      <4>1. rpc' = rpc \/ rpc' = [rpc EXCEPT ![u]["main"] = "swap"]
        BY <1>3 DEF Deliver, CheckFails, Step, Report
      <4>2. CASE rpc' = rpc
        BY <4>2
      <4>3. CASE rpc' = [rpc EXCEPT ![u]["main"] = "swap"]
        BY <4>3, Written
      <4> QED
        BY <4>1, <4>2, <4>3
    <3>3. got' \in [Users -> {"none", "value", "error"}]
      BY <1>3, Written DEF Deliver, CheckFails, Step, Report
    <3>4. handed' \in [Users -> BOOLEAN]
      BY <1>3, Written DEF Deliver, CheckFails, Step, Report
    <3> QED
      BY <1>3, <3>1, <3>2, <3>3, <3>4 DEF Deliver, CheckFails
  <2>2. Frame(u)
    <3>1. CASE Flags(u)
      BY <1>3, <3>1 DEF Deliver, CheckFails, Step, Report, Frame
    <3>2. CASE ~Flags(u) /\ spc[u] \in ReaderChecks
      BY <1>3, <3>2 DEF Deliver, CheckFails, Step, Report, Frame
    <3>3. CASE ~Flags(u) /\ spc[u] \notin ReaderChecks
      BY <1>3, <3>3 DEF Deliver, CheckFails, Step, Report, Frame
    <3> QED
      BY <3>1, <3>2, <3>3
  <2>3. CallHolds(u)' /\ ReaderInv(u)'
    <3>1. CallHolds(u)'
      BY <1>3, <2>2 DEF Deliver, Flags, CheckFails, Step, Report, UserInv, CallHolds,
          ReaderInv, ClosesCounted, Closing, Unlinked, Frame, Ends, spanVars, Early, Before,
          After, Iterating
    <3>2. ReaderInv(u)'
      <4>1. CASE spc[u] = "lateFlag" /\ Flags(u) /\ kind[u] = "point"
        BY <1>3, <2>2, <4>1 DEF Deliver, CheckFails, Step, Report, UserInv, CallHolds,
            ReaderInv, ClosesCounted, Closing, Unlinked, Frame, Ends, spanVars, Early, Before,
            After, Iterating
      <4>2. CASE spc[u] = "lateFlag" /\ Flags(u) /\ kind[u] = "query"
        <5>1. /\ ~handed[u] /\ ~rclosed[u] /\ rows[u] # "none"
              /\ rpc[u]["main"] = "idle" /\ rpc[u]["other"] = "idle"
          BY <4>2 DEF UserInv, ReaderInv, CallHolds, Iterating, After
        <5>2. /\ spc'[u] = "reader" /\ handed'[u] /\ ~rclosed'[u] /\ kind'[u] = "query"
              /\ rows'[u] # "none" /\ rpc'[u] = rpc[u]
          BY <1>3, <4>2, <5>1 DEF Deliver, Step
        <5> QED
          BY <5>1, <5>2 DEF ReaderInv, Closing, Ends, Iterating
      <4>3. CASE spc[u] = "lateFlag" /\ ~Flags(u)
        BY <1>3, <2>2, <4>3 DEF Deliver, CheckFails, Step, Report, UserInv, CallHolds,
            ReaderInv, ClosesCounted, Closing, Unlinked, Frame, Ends, spanVars, Early, Before,
            After, Iterating
      <4>4. CASE spc[u] = "nextLateFlag" /\ Flags(u)
        BY <1>3, <2>2, <4>4 DEF Deliver, CheckFails, Step, Report, UserInv, CallHolds,
            ReaderInv, ClosesCounted, Closing, Unlinked, Frame, Ends, spanVars, Early, Before,
            After, Iterating
      <4>5. CASE spc[u] = "nextLateFlag" /\ ~Flags(u)
        BY <1>3, <2>2, <4>5 DEF Deliver, CheckFails, Step, Report, UserInv, CallHolds,
            ReaderInv, ClosesCounted, Closing, Unlinked, Frame, Ends, spanVars, Early, Before,
            After, Iterating
      <4> QED
        BY <1>3, <4>1, <4>2, <4>3, <4>4, <4>5 DEF Deliver
    <3> QED
      BY <3>1, <3>2
  <2>4. ClosesCounted(u)' /\ Checked(u)'
    BY <1>3, <2>2 DEF Deliver, Flags, CheckFails, Step, Report, UserInv, CallHolds,
        ReaderInv, ClosesCounted, Closing, Unlinked, Checked, Invalid, Live, Frame, Ends,
        spanVars, Early, Before, After, Iterating
  <2> QED
    BY <2>1, <2>2, <2>3, <2>4 DEF UserInv
<1> QED
  BY <1>1, <1>2, <1>3

\* The native call, and the end of a call without a reader.
LEMMA NativeKeeps ==
    ASSUME SessionTypes, NEW u \in Users, UserInv(u),
           NativeBegin(u) \/ NativeFails(u) \/ NativeReturns(u) \/ NativeFailsWithReader(u)
              \/ PointRelease(u) \/ Abort(u) \/ AbortClose(u) \/ RowsOver(u)
    PROVE  SessionTypes' /\ Frame(u) /\ UserInv(u)'
<1> USE PlacesAre DEF SessionTypes, CallChecks, ReaderChecks
<1>1. CASE NativeBegin(u)
  <2>1. SessionTypes'
    BY <1>1 DEF NativeBegin, Step
  <2>2. Frame(u)
    BY <1>1 DEF NativeBegin, Step, Frame
  <2>3. CallHolds(u)' /\ ReaderInv(u)'
    BY <1>1, <2>2 DEF NativeBegin, Step, UserInv, CallHolds, ReaderInv, ClosesCounted,
        Closing, Unlinked, Frame, Ends, spanVars, Early, Before, After, Iterating
  <2>4. ClosesCounted(u)' /\ Checked(u)'
    BY <1>1, <2>2 DEF NativeBegin, Step, UserInv, CallHolds, ReaderInv, ClosesCounted,
        Closing, Unlinked, Checked, Invalid, Live, Frame, Ends, spanVars, Early, Before, After,
        Iterating
  <2> QED
    BY <2>1, <2>2, <2>3, <2>4 DEF UserInv
<1>2. CASE NativeFails(u)
  <2>1. SessionTypes'
    BY <1>2 DEF NativeFails, Step
  <2>2. Frame(u)
    BY <1>2 DEF NativeFails, Step, Frame
  <2>3. CallHolds(u)' /\ ReaderInv(u)'
    BY <1>2, <2>2 DEF NativeFails, Step, UserInv, CallHolds, ReaderInv, ClosesCounted,
        Closing, Unlinked, Frame, Ends, spanVars, Early, Before, After, Iterating
  <2>4. ClosesCounted(u)' /\ Checked(u)'
    BY <1>2, <2>2 DEF NativeFails, Step, UserInv, CallHolds, ReaderInv, ClosesCounted,
        Closing, Unlinked, Checked, Invalid, Live, Frame, Ends, spanVars, Early, Before, After,
        Iterating
  <2> QED
    BY <2>1, <2>2, <2>3, <2>4 DEF UserInv
<1>3. CASE NativeReturns(u)
  <2>1. SessionTypes'
    <3>1. spc' \in [Users -> Places]
      BY <1>3, Written DEF NativeReturns, Step
    <3>2. late' \in [Users -> BOOLEAN]
      BY <1>3, Written DEF NativeReturns, Step
    <3>3. rows' \in [Users -> {"none", "open", "closed"}]
      BY <1>3, Written DEF NativeReturns, Step
    <3> QED
      BY <1>3, <3>1, <3>2, <3>3 DEF NativeReturns
  <2>2. Frame(u)
    <3>1. CASE kind[u] = "point"
      BY <1>3, <3>1 DEF NativeReturns, Step, Frame
    <3>2. CASE kind[u] # "point"
      BY <1>3, <3>2 DEF NativeReturns, Step, Frame
    <3> QED
      BY <3>1, <3>2
  <2>3. CallHolds(u)' /\ ReaderInv(u)'
    BY <1>3, <2>2 DEF NativeReturns, Step, UserInv, CallHolds, ReaderInv, ClosesCounted,
        Closing, Unlinked, Frame, Ends, spanVars, Early, Before, After, Iterating
  <2>4. ClosesCounted(u)' /\ Checked(u)'
    BY <1>3, <2>2 DEF NativeReturns, Step, UserInv, CallHolds, ReaderInv, ClosesCounted,
        Closing, Unlinked, Checked, Invalid, Live, Frame, Ends, spanVars, Early, Before, After,
        Iterating
  <2> QED
    BY <2>1, <2>2, <2>3, <2>4 DEF UserInv
<1>4. CASE NativeFailsWithReader(u)
  <2>1. SessionTypes'
    BY <1>4 DEF NativeFailsWithReader, Step
  <2>2. Frame(u)
    BY <1>4 DEF NativeFailsWithReader, Step, Frame
  <2>3. CallHolds(u)' /\ ReaderInv(u)'
    BY <1>4, <2>2 DEF NativeFailsWithReader, Step, UserInv, CallHolds, ReaderInv,
        ClosesCounted, Closing, Unlinked, Frame, Ends, spanVars, Early, Before, After, Iterating
  <2>4. ClosesCounted(u)' /\ Checked(u)'
    BY <1>4, <2>2 DEF NativeFailsWithReader, Step, UserInv, CallHolds, ReaderInv,
        ClosesCounted, Closing, Unlinked, Checked, Invalid, Live, Frame, Ends, spanVars, Early,
        Before, After, Iterating
  <2> QED
    BY <2>1, <2>2, <2>3, <2>4 DEF UserInv
<1>5. CASE PointRelease(u)
  <2>1. SessionTypes'
    BY <1>5 DEF PointRelease, Step, Release
  <2>2. Frame(u)
    BY <1>5 DEF PointRelease, Step, Release, Frame
  <2>3. CallHolds(u)' /\ ReaderInv(u)'
    BY <1>5, <2>2 DEF PointRelease, Step, Release, UserInv, CallHolds, ReaderInv,
        ClosesCounted, Closing, Unlinked, Frame, Ends, spanVars, Early, Before, After, Iterating
  <2>4. ClosesCounted(u)' /\ Checked(u)'
    BY <1>5, <2>2 DEF PointRelease, Step, Release, UserInv, CallHolds, ReaderInv,
        ClosesCounted, Closing, Unlinked, Checked, Invalid, Live, Frame, Ends, spanVars, Early,
        Before, After, Iterating
  <2> QED
    BY <2>1, <2>2, <2>3, <2>4 DEF UserInv
<1>6. CASE Abort(u)
  <2>1. SessionTypes'
    BY <1>6 DEF Abort, Step, Release, Report
  <2>2. Frame(u)
    BY <1>6 DEF Abort, Step, Release, Report, Frame
  <2>3. CallHolds(u)' /\ ReaderInv(u)'
    BY <1>6, <2>2 DEF Abort, Step, Release, Report, UserInv, CallHolds, ReaderInv,
        ClosesCounted, Closing, Unlinked, Frame, Ends, spanVars, Early, Before, After, Iterating
  <2>4. ClosesCounted(u)' /\ Checked(u)'
    BY <1>6, <2>2 DEF Abort, Step, Release, Report, UserInv, CallHolds, ReaderInv,
        ClosesCounted, Closing, Unlinked, Checked, Invalid, Live, Frame, Ends, spanVars, Early,
        Before, After, Iterating
  <2> QED
    BY <2>1, <2>2, <2>3, <2>4 DEF UserInv
<1>7. CASE AbortClose(u)
  <2>1. SessionTypes'
    BY <1>7 DEF AbortClose, Step, CloseRows
  <2>2. Frame(u)
    BY <1>7 DEF AbortClose, Step, CloseRows, Frame
  <2>3. CallHolds(u)' /\ ReaderInv(u)'
    BY <1>7, <2>2 DEF AbortClose, Step, CloseRows, UserInv, CallHolds, ReaderInv,
        ClosesCounted, Closing, Unlinked, Frame, Ends, spanVars, Early, Before, After, Iterating
  <2>4. ClosesCounted(u)' /\ Checked(u)'
    BY <1>7, <2>2 DEF AbortClose, Step, CloseRows, UserInv, CallHolds, ReaderInv,
        ClosesCounted, Closing, Unlinked, Checked, Invalid, Live, Frame, Ends, spanVars, Early,
        Before, After, Iterating
  <2> QED
    BY <2>1, <2>2, <2>3, <2>4 DEF UserInv
<1>8. CASE RowsOver(u)
  <2>1. SessionTypes'
    BY <1>8 DEF RowsOver
  <2>2. Frame(u)
    BY <1>8 DEF RowsOver, Frame
  <2>3. CallHolds(u)' /\ ReaderInv(u)'
    BY <1>8, <2>2 DEF RowsOver, UserInv, CallHolds, ReaderInv, ClosesCounted, Closing,
        Unlinked, Frame, Ends, spanVars, Early, Before, After, Iterating
  <2>4. ClosesCounted(u)' /\ Checked(u)'
    BY <1>8, <2>2 DEF RowsOver, UserInv, CallHolds, ReaderInv, ClosesCounted, Closing,
        Unlinked, Checked, Invalid, Live, Frame, Ends, spanVars, Early, Before, After, Iterating
  <2> QED
    BY <2>1, <2>2, <2>3, <2>4 DEF UserInv
<1> QED
  BY <1>1, <1>2, <1>3, <1>4, <1>5, <1>6, <1>7, <1>8

\* Next of a reader.
LEMMA NextKeeps ==
    ASSUME SessionTypes, NEW u \in Users, UserInv(u),
           ReaderNext(u) \/ NextNative(u) \/ NextReturns(u) \/ ReaderDone(u)
    PROVE  SessionTypes' /\ Frame(u) /\ UserInv(u)'
<1> USE PlacesAre DEF SessionTypes, CallChecks, ReaderChecks
<1>1. CASE ReaderNext(u)
  <2>1. SessionTypes'
    BY <1>1 DEF ReaderNext, Step, Report
  <2>2. Frame(u)
    BY <1>1 DEF ReaderNext, Step, Report, Frame
  <2>3. CallHolds(u)' /\ ReaderInv(u)'
    BY <1>1, <2>2 DEF ReaderNext, Step, Report, UserInv, CallHolds, ReaderInv,
        ClosesCounted, Closing, Unlinked, Frame, Ends, spanVars, Early, Before, After, Iterating
  <2>4. ClosesCounted(u)' /\ Checked(u)'
    BY <1>1, <2>2 DEF ReaderNext, Step, Report, UserInv, CallHolds, ReaderInv,
        ClosesCounted, Closing, Unlinked, Checked, Invalid, Live, Frame, Ends, spanVars, Early,
        Before, After, Iterating
  <2> QED
    BY <2>1, <2>2, <2>3, <2>4 DEF UserInv
<1>2. CASE NextNative(u)
  <2>1. SessionTypes'
    <3>1. spc' \in [Users -> Places]
      <4>1. spc' = [spc EXCEPT ![u] = "nextRunning"] \/ spc' = [spc EXCEPT ![u] = "closing"]
        BY <1>2 DEF NextNative, NextFails, Step, Report
      <4>2. CASE spc' = [spc EXCEPT ![u] = "nextRunning"]
        BY <4>2
      <4>3. CASE spc' = [spc EXCEPT ![u] = "closing"]
        BY <4>3
      <4> QED
        BY <4>1, <4>2, <4>3
    <3>2. rpc' \in [Users -> [Ends -> {"idle", "swap", "release", "native", "done"}]]
      <4>1. rpc' = rpc \/ rpc' = [rpc EXCEPT ![u]["main"] = "swap"]
        BY <1>2 DEF NextNative, NextFails
      <4>2. CASE rpc' = rpc
        BY <4>2
      <4>3. CASE rpc' = [rpc EXCEPT ![u]["main"] = "swap"]
        BY <4>3, Written
      <4> QED
        BY <4>1, <4>2, <4>3
    <3>3. got' \in [Users -> {"none", "value", "error"}]
      BY <1>2, Written DEF NextNative, NextFails, Step, Report
    <3> QED
      BY <1>2, <3>1, <3>2, <3>3 DEF NextNative
  <2>2. Frame(u)
    <3>1. CASE rows[u] = "open"
      BY <1>2, <3>1 DEF NextNative, NextFails, Step, Report, Frame
    <3>2. CASE rows[u] # "open"
      BY <1>2, <3>2 DEF NextNative, NextFails, Step, Report, Frame
    <3> QED
      BY <3>1, <3>2
  <2>3. CallHolds(u)' /\ ReaderInv(u)'
    BY <1>2, <2>2 DEF NextNative, NextFails, Step, Report, UserInv, CallHolds, ReaderInv,
        ClosesCounted, Closing, Unlinked, Frame, Ends, spanVars, Early, Before, After, Iterating
  <2>4. ClosesCounted(u)' /\ Checked(u)'
    BY <1>2, <2>2 DEF NextNative, NextFails, Step, Report, UserInv, CallHolds, ReaderInv,
        ClosesCounted, Closing, Unlinked, Checked, Invalid, Live, Frame, Ends, spanVars, Early,
        Before, After, Iterating
  <2> QED
    BY <2>1, <2>2, <2>3, <2>4 DEF UserInv
<1>3. CASE NextReturns(u)
  <2>1. SessionTypes'
    <3>1. spc' \in [Users -> Places]
      <4>1. spc' = [spc EXCEPT ![u] = "nextLate"] \/ spc' = [spc EXCEPT ![u] = "closing"]
        BY <1>3 DEF NextReturns, NextFails, Step, Report
      <4>2. CASE spc' = [spc EXCEPT ![u] = "nextLate"]
        BY <4>2
      <4>3. CASE spc' = [spc EXCEPT ![u] = "closing"]
        BY <4>3
      <4> QED
        BY <4>1, <4>2, <4>3
    <3>2. late' \in [Users -> BOOLEAN]
      <4>1. late' = late \/ late' = [late EXCEPT ![u] = Invalid(u)]
        BY <1>3 DEF NextReturns
      <4>2. CASE late' = late
        BY <4>2
      <4>3. CASE late' = [late EXCEPT ![u] = Invalid(u)]
        BY <4>3, Written
      <4> QED
        BY <4>1, <4>2, <4>3
    <3>3. rpc' \in [Users -> [Ends -> {"idle", "swap", "release", "native", "done"}]]
      <4>1. rpc' = rpc \/ rpc' = [rpc EXCEPT ![u]["main"] = "swap"]
        BY <1>3 DEF NextReturns, NextFails
      <4>2. CASE rpc' = rpc
        BY <4>2
      <4>3. CASE rpc' = [rpc EXCEPT ![u]["main"] = "swap"]
        BY <4>3, Written
      <4> QED
        BY <4>1, <4>2, <4>3
    <3>4. got' \in [Users -> {"none", "value", "error"}]
      BY <1>3, Written DEF NextReturns, NextFails, Step, Report
    <3> QED
      BY <1>3, <3>1, <3>2, <3>3, <3>4 DEF NextReturns
  <2>2. Frame(u)
    <3>1. CASE spc'[u] = "nextLate"
      BY <1>3, <3>1 DEF NextReturns, NextFails, Step, Report, Frame
    <3>2. CASE spc'[u] # "nextLate"
      BY <1>3, <3>2 DEF NextReturns, NextFails, Step, Report, Frame
    <3> QED
      BY <3>1, <3>2
  <2>3. CallHolds(u)' /\ ReaderInv(u)'
    BY <1>3, <2>2 DEF NextReturns, NextFails, Step, Report, UserInv, CallHolds, ReaderInv,
        ClosesCounted, Closing, Unlinked, Frame, Ends, spanVars, Early, Before, After, Iterating
  <2>4. ClosesCounted(u)' /\ Checked(u)'
    BY <1>3, <2>2 DEF NextReturns, NextFails, Step, Report, UserInv, CallHolds, ReaderInv,
        ClosesCounted, Closing, Unlinked, Checked, Invalid, Live, Frame, Ends, spanVars, Early,
        Before, After, Iterating
  <2> QED
    BY <2>1, <2>2, <2>3, <2>4 DEF UserInv
<1>4. CASE ReaderDone(u)
  <2>1. SessionTypes'
    BY <1>4 DEF ReaderDone, Step
  <2>2. Frame(u)
    BY <1>4 DEF ReaderDone, Step, Frame
  <2>3. CallHolds(u)' /\ ReaderInv(u)'
    BY <1>4, <2>2 DEF ReaderDone, Step, UserInv, CallHolds, ReaderInv, ClosesCounted,
        Closing, Unlinked, Frame, Ends, spanVars, Early, Before, After, Iterating
  <2>4. ClosesCounted(u)' /\ Checked(u)'
    BY <1>4, <2>2 DEF ReaderDone, Step, UserInv, CallHolds, ReaderInv, ClosesCounted,
        Closing, Unlinked, Checked, Invalid, Live, Frame, Ends, spanVars, Early, Before, After,
        Iterating
  <2> QED
    BY <2>1, <2>2, <2>3, <2>4 DEF UserInv
<1> QED
  BY <1>1, <1>2, <1>3, <1>4

\* Close of a reader, by either of its ends.
LEMMA EndsKeep ==
    ASSUME SessionTypes, NEW u \in Users, NEW e \in Ends, UserInv(u),
           ReaderClose(u, e) \/ ReaderSwap(u, e) \/ ReaderRelease(u, e) \/
              ReaderCloseNative(u, e)
    PROVE  SessionTypes' /\ Frame(u) /\ UserInv(u)'
<1> USE PlacesAre DEF SessionTypes, CallChecks, ReaderChecks, Ends
<1>1. CASE ReaderClose(u, e)
  <2>1. SessionTypes'
    BY <1>1 DEF ReaderClose, Step
  <2>2. Frame(u)
    BY <1>1 DEF ReaderClose, Step, Frame
  <2>3. CallHolds(u)' /\ ReaderInv(u)'
    BY <1>1, <2>2 DEF ReaderClose, Step, UserInv, CallHolds, ReaderInv, ClosesCounted,
        Closing, Unlinked, Frame, Ends, spanVars, Early, Before, After, Iterating
  <2>4. ClosesCounted(u)' /\ Checked(u)'
    BY <1>1, <2>2 DEF ReaderClose, Step, UserInv, CallHolds, ReaderInv, ClosesCounted,
        Closing, Unlinked, Checked, Invalid, Live, Frame, Ends, spanVars, Early, Before, After,
        Iterating
  <2> QED
    BY <2>1, <2>2, <2>3, <2>4 DEF UserInv
<1>2. CASE ReaderSwap(u, e)
  <2>1. SessionTypes'
    BY <1>2 DEF ReaderSwap
  <2>2. Frame(u)
    BY <1>2 DEF ReaderSwap, Frame
  <2>3. CallHolds(u)' /\ ReaderInv(u)'
    BY <1>2, <2>2 DEF ReaderSwap, UserInv, CallHolds, ReaderInv, ClosesCounted, Closing,
        Unlinked, Frame, Ends, spanVars, Early, Before, After, Iterating
  <2>4. ClosesCounted(u)' /\ Checked(u)'
    BY <1>2, <2>2 DEF ReaderSwap, UserInv, CallHolds, ReaderInv, ClosesCounted, Closing,
        Unlinked, Checked, Invalid, Live, Frame, Ends, spanVars, Early, Before, After, Iterating
  <2> QED
    BY <2>1, <2>2, <2>3, <2>4 DEF UserInv
<1>3. CASE ReaderRelease(u, e)
  <2>1. SessionTypes'
    BY <1>3 DEF ReaderRelease, Release
  <2>2. Frame(u)
    BY <1>3 DEF ReaderRelease, Release, Frame
  <2>3. CallHolds(u)' /\ ReaderInv(u)'
    BY <1>3, <2>2 DEF ReaderRelease, Release, UserInv, CallHolds, ReaderInv, ClosesCounted,
        Closing, Unlinked, Frame, Ends, spanVars, Early, Before, After, Iterating
  <2>4. ClosesCounted(u)' /\ Checked(u)'
    BY <1>3, <2>2 DEF ReaderRelease, Release, UserInv, CallHolds, ReaderInv, ClosesCounted,
        Closing, Unlinked, Checked, Invalid, Live, Frame, Ends, spanVars, Early, Before, After,
        Iterating
  <2> QED
    BY <2>1, <2>2, <2>3, <2>4 DEF UserInv
<1>4. CASE ReaderCloseNative(u, e)
  <2>1. SessionTypes'
    BY <1>4 DEF ReaderCloseNative, CloseRows
  <2>2. Frame(u)
    BY <1>4 DEF ReaderCloseNative, CloseRows, Frame
  <2>3. CallHolds(u)' /\ ReaderInv(u)'
    BY <1>4, <2>2 DEF ReaderCloseNative, CloseRows, UserInv, CallHolds, ReaderInv,
        ClosesCounted, Closing, Unlinked, Frame, Ends, spanVars, Early, Before, After, Iterating
  <2>4. ClosesCounted(u)' /\ Checked(u)'
    BY <1>4, <2>2 DEF ReaderCloseNative, CloseRows, UserInv, CallHolds, ReaderInv,
        ClosesCounted, Closing, Unlinked, Checked, Invalid, Live, Frame, Ends, spanVars, Early,
        Before, After, Iterating
  <2> QED
    BY <2>1, <2>2, <2>3, <2>4 DEF UserInv
<1> QED
  BY <1>1, <1>2, <1>3, <1>4

UserStep(u) ==
    \/ Call(u) \/ CallStep(u) \/ CallerCancel(u)
    \/ Fire(u) \/ RowsOver(u)
    \/ ReaderNext(u)
    \/ \E e \in Ends : ReaderClose(u, e) \/ CloseStep(u, e)

LEMMA UserStepKeeps ==
    ASSUME SessionTypes, NEW u \in Users, UserInv(u), UserStep(u)
    PROVE  SessionTypes' /\ Frame(u) /\ UserInv(u)'
BY EnterKeeps, ChecksKeep, NativeKeeps, NextKeeps, EndsKeep DEF UserStep, CallStep, CloseStep

-----------------------------------------------------------------------------
(* The span under its users.                                               *)

\* To the span, a step of a user takes the transaction, gives it back, or is
\* none at all; what is taken is active and not held yet.
LEMMA UserStepOfSpan ==
    ASSUME NEW u \in Users, UserInv(u), UserStep(u)
    PROVE  [Next]_vars
<1>1. /\ UNCHANGED spanVars
      /\ \/ inUse' = inUse \/ inUse' = inUse \ {u}
         \/ inUse' = inUse \cup {u} /\ opc = "returned" /\ tx = "active" /\ u \notin inUse
  <2>1. CASE NativeBegin(u)
    BY <2>1 DEF NativeBegin, Step, UserInv, CallHolds, Before
  <2>2. CASE \/ Call(u) \/ EnterFlag(u) \/ EnterCtx(u) \/ Link(u) \/ Fire(u) \/ CallerCancel(u)
             \/ CheckContexts(u) \/ CheckFlags(u) \/ Deliver(u)
    BY <2>2 DEF Call, EnterFlag, EnterCtx, Link, Fire, CallerCancel, CheckContexts, CheckFlags,
                Deliver
  <2>3. CASE \/ NativeFails(u) \/ NativeReturns(u) \/ NativeFailsWithReader(u) \/ PointRelease(u)
             \/ Abort(u) \/ AbortClose(u) \/ RowsOver(u)
    BY <2>3 DEF NativeFails, NativeReturns, NativeFailsWithReader, PointRelease, Abort,
                AbortClose, RowsOver, CloseRows
  <2>4. CASE ReaderNext(u) \/ NextNative(u) \/ NextReturns(u) \/ ReaderDone(u)
    BY <2>4 DEF ReaderNext, NextNative, NextReturns, ReaderDone
  <2>5. CASE \E e \in Ends : ReaderClose(u, e) \/ CloseStep(u, e)
    BY <2>5 DEF ReaderClose, CloseStep, ReaderSwap, ReaderRelease, ReaderCloseNative, CloseRows
  <2> QED
    BY <2>1, <2>2, <2>3, <2>4, <2>5 DEF UserStep, CallStep
<1>2. UNCHANGED <<opc, ctx, closed, resources, limits, cpc, asking>>
  BY <1>1 DEF spanVars
<1>3. CASE inUse' = inUse
  BY <1>2, <1>3 DEF vars
<1>4. CASE inUse' = inUse \ {u} /\ u \in inUse
  <2>1. Unuse(u)
    BY <1>2, <1>4 DEF Unuse
  <2> QED
    BY <2>1 DEF Next
<1>5. CASE inUse' = inUse \cup {u} /\ opc = "returned" /\ tx = "active" /\ u \notin inUse
  <2>1. Use(u)
    BY <1>2, <1>5 DEF Use
  <2> QED
    BY <2>1 DEF Next
<1> QED
  BY <1>1, <1>3, <1>4, <1>5

\* A step of the span leaves the calls as they are; what they know of it, that it
\* was returned, closed or over, stays so.
LEMMA SpanStepKeeps ==
    ASSUME TypeOK, SpanStep, NEW u \in Users, UserInv(u)
    PROVE  UserInv(u)'
<1>1. [Next]_vars
  BY DEF SpanStep, Next
<1>2. (closed => closed') /\ (~Live => ~Live')
  BY <1>1, StaysInvalid
<1>3. UNCHANGED inUse /\ (opc = "returned" => opc' = "returned")
  <2>1. CASE Open
    BY <2>1 DEF Open, OpenStart, OpenDB, OpenConn, OpenLimits, OpenQueryOnly, OpenBegin,
                OpenInspect, OpenCells, OpenSession, OpenLive, OpenFailed, FailFrom, Advance,
                SetLength
  <2>2. CASE \E t \in Threads : Close(t)
    BY <2>2 DEF Close, CloseSwap, CloseCancel, CloseRollback, CloseRolled, CloseConn, CloseDB
  <2>3. CASE Cancel \/ Watcher \/ \E a \in Askers : Ask(a) \/ Facts(a) \/ Session(a)
    BY <2>3 DEF Cancel, Watcher, WatcherClaim, WatcherRolled, Ask, Facts, Session, Answer
  <2> QED
    BY <2>1, <2>2, <2>3 DEF SpanStep
<1>4. UNCHANGED sessionVars
  BY DEF SpanStep
<1>5. CallHolds(u)' /\ ReaderInv(u)' /\ ClosesCounted(u)'
  BY <1>3, <1>4 DEF sessionVars, UserInv, CallHolds, ReaderInv, ClosesCounted, Closing, Unlinked
<1>6. Checked(u)'
  BY <1>2, <1>4 DEF sessionVars, UserInv, Checked, Invalid
<1> QED
  BY <1>5, <1>6 DEF UserInv

-----------------------------------------------------------------------------
LEMMA SessionInvInit == SessionInit => SessionInv
<1> SUFFICES ASSUME SessionInit PROVE SessionInv
  OBVIOUS
<1>1. SpanInv
  BY SpanInvInit DEF SessionInit
<1>2. SessionTypes
  BY PlacesAre DEF SessionInit, SessionTypes
<1>3. ASSUME NEW u \in Users PROVE UserInv(u)
  <2>1. inUse = {}
    BY DEF SessionInit, Init
  <2> QED
    BY <2>1 DEF SessionInit, UserInv, CallHolds, ReaderInv, ClosesCounted, Closing, Unlinked,
                Checked, Ends, Early, Before, After, Iterating, ReaderChecks
<1> QED
  BY <1>1, <1>2, <1>3 DEF SessionInv

\* Every step of the composition is a step of the span, or none.
LEMMA SessionStepOfSpan == SessionInv /\ [SessionNext]_svars => [Next]_vars
<1> SUFFICES ASSUME SessionInv, [SessionNext]_svars PROVE [Next]_vars
  OBVIOUS
<1>1. CASE SpanStep
  BY <1>1 DEF SpanStep, Next
<1>2. ASSUME NEW u \in Users, UserStep(u) PROVE [Next]_vars
  BY <1>2, UserStepOfSpan DEF SessionInv
<1>3. CASE UNCHANGED svars
  BY <1>3 DEF svars
<1> QED
  BY <1>1, <1>2, <1>3 DEF SessionNext, UserStep

LEMMA SessionInvStep == SessionInv /\ [SessionNext]_svars => SessionInv'
<1> SUFFICES ASSUME SessionInv, [SessionNext]_svars PROVE SessionInv'
  OBVIOUS
<1>1. SpanInv'
  BY SessionStepOfSpan, SpanInvStep DEF SessionInv
<1>2. CASE SpanStep
  <2>1. \A u \in Users : UserInv(u)'
    BY <1>2, SpanStepKeeps DEF SessionInv, SpanInv
  <2>2. SessionTypes'
    BY <1>2 DEF SpanStep, sessionVars, SessionInv, SessionTypes
  <2> QED
    BY <1>1, <2>1, <2>2 DEF SessionInv
<1>3. ASSUME NEW u \in Users, UserStep(u) PROVE SessionInv'
  <2>1. SessionTypes' /\ Frame(u) /\ UserInv(u)'
    BY <1>3, UserStepKeeps DEF SessionInv
  <2>2. \A p \in Users : UserInv(p)'
    BY <2>1, FrameKeeps DEF SessionInv
  <2> QED
    BY <1>1, <2>1, <2>2 DEF SessionInv
<1>4. CASE UNCHANGED svars
  <2>1. SessionTypes'
    BY <1>4 DEF svars, sessionVars, SessionInv, SessionTypes
  <2>2. ASSUME NEW u \in Users PROVE UserInv(u)'
    BY <1>4 DEF svars, vars, sessionVars, SessionInv, UserInv, CallHolds, ReaderInv,
                ClosesCounted, Closing, Unlinked, Checked, Invalid, Live
  <2> QED
    BY <1>1, <2>1, <2>2 DEF SessionInv
<1> QED
  BY <1>2, <1>3, <1>4 DEF SessionNext, UserStep

\* The invariant of the session: it holds at first and every step keeps it.
THEOREM SessionInvariance == SessionSpec => []SessionInv
BY SessionInvInit, SessionInvStep, PTL DEF SessionSpec

\* The calls of tableReadSession and its readers use the transaction as the span
\* expects of its users: the composition implements TableReadSpan, so that what is
\* proved of the span holds of it.
THEOREM SessionImplementsSpan == SessionSpec => SpanSafety
<1>1. SessionInit => Init
  BY DEF SessionInit
<1> QED
  BY <1>1, SessionInvariance, SessionStepOfSpan, PTL DEF SessionSpec, SpanSafety

\* Every variable of the session keeps its type; only a reader that a query returned
\* with native rows is iterated and closed as one.
THEOREM SessionTypeCorrect == SessionSpec => []SessionTypeOK
<1>1. SessionInv => SessionTypeOK
  <2> SUFFICES ASSUME SessionInv PROVE SessionTypeOK
    OBVIOUS
  <2>1. ASSUME NEW u \in Users, spc[u] \in Iterating \cup {"closing"}
        PROVE  handed[u] /\ kind[u] = "query" /\ rows[u] # "none"
    BY <2>1 DEF SessionInv, UserInv, ReaderInv
  <2>2. spc \in [Users -> {"idle", "enter", "enterCtx", "link", "native", "running", "abort",
                          "abortClose", "release", "reader", "nextNative", "nextRunning",
                          "closing", "done"} \cup CallChecks \cup ReaderChecks]
    BY DEF SessionInv, SessionTypes, Places, Early, Before, After, Iterating, CallChecks,
           ReaderChecks
  <2> QED
    BY <2>1, <2>2 DEF SessionInv, SpanInv, SessionTypes, SessionTypeOK, Iterating
<1> QED
  BY <1>1, SessionInvariance, PTL

\* The check of the contexts and then of the flags, after the native call, lets no
\* value through that the span's Close, the end of a context or the reader's Close
\* had invalidated when the native result was there.
THEOREM NothingStaleDelivered == SessionSpec => []NoStaleValue
<1>1. SessionInv => NoStaleValue
  BY DEF SessionInv, UserInv, Checked, NoStaleValue
<1> QED
  BY <1>1, SessionInvariance, PTL

\* A call that is over, with its reader, has stopped its AfterFunc and cancelled
\* its linked context, on every path out of callContext, the native call and Close.
THEOREM ContextsReleased == SessionSpec => []NoContextLeak
<1>1. SessionInv => NoContextLeak
  <2> SUFFICES ASSUME SessionInv, NEW u \in Users, spc[u] = "done", Quiet(u)
               PROVE  Unlinked(u)
    BY DEF NoContextLeak, Unlinked
  <2>1. CASE ~handed[u]
    BY <2>1 DEF SessionInv, UserInv, CallHolds
  <2>2. CASE handed[u]
    BY <2>2 DEF SessionInv, UserInv, ReaderInv, Quiet, Ends
  <2> QED
    BY <2>1, <2>2
<1> QED
  BY <1>1, SessionInvariance, PTL

\* The native reader of a query is closed once, by the call that failed or by the
\* one of the goroutines in Close that won the swap of the reader's flag.
THEOREM NativeReaderClosedOnce == SessionSpec => []NativeClosedOnce
<1>1. SessionInv => NativeClosedOnce
  <2> SUFFICES ASSUME SessionInv, NEW u \in Users
               PROVE  /\ ncloses[u] <= 1
                      /\ spc[u] = "done" /\ Quiet(u) /\ rows[u] # "none" => ncloses[u] = 1
    BY DEF NativeClosedOnce
  <2>1. ReaderInv(u) /\ ClosesCounted(u)
    BY DEF SessionInv, UserInv
  <2> QED
    BY <2>1 DEF ReaderInv, ClosesCounted, Closing, Quiet, Ends
<1> QED
  BY <1>1, SessionInvariance, PTL
=============================================================================
