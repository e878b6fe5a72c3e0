----------------------- MODULE SourceConstraintsProofs -----------------------
(***************************************************************************)
(* The safety of CheckSourceConstraints, for any number of checks and      *)
(* connections, whatever their settings, and whatever the file violates.   *)
(*                                                                         *)
(* Settings owed are the argument: the setting of a connection differs     *)
(* from what it was only while the check that holds it still owes the      *)
(* restore, or after a statement that sets it failed.                      *)
(***************************************************************************)
EXTENDS SourceConstraints, TLAPS

Checking == {"read", "off", "integrity", "foreignKeys", "found"}
Holding == Checking \cup {"closeRows", "restore", "closeConn"}

\* What one check holds, returns and has seen, by the step it is at.
CheckerInv(k) ==
    /\ \A c \in Conns : owner[c] = k <=> kpc[k] \in Holding /\ c = conn[k]
    /\ kpc[k] \in Holding => conn[k] \in Conns
    /\ kpc[k] \in {"idle", "conn", "read", "off"} => ~restore[k]
    /\ kpc[k] \in Checking \cup {"idle", "conn"} => kres[k] = "none" /\ ~kfailed[k]
    /\ kpc[k] \in {"closeRows", "restore", "closeConn", "done"} => kres[k] # "none"
    /\ kres[k] = "ok" => ~kfailed[k] /\ unsound = {}
    /\ kpc[k] = "off" => ignore[conn[k]]
    /\ kpc[k] = "integrity" => ~ignore[conn[k]]
    /\ kpc[k] \in {"foreignKeys", "found"} => unsound \subseteq {"foreignKey"}

\* A statement that sets the setting of connection c failed.
Tampered(c) == \E k \in Checkers : kfailed[k] /\ conn[k] = c

\* The check will turn the setting of its connection on again.
Owes(k) == restore[k] /\ kpc[k] \in Holding \ {"closeConn"}

SettingInv ==
    /\ \A k \in Checkers : Owes(k) => initial[conn[k]] \/ Tampered(conn[k])
    /\ \A c \in Conns :
         ignore[c] # initial[c] => Tampered(c) \/ \E k \in Checkers : Owes(k) /\ c = conn[k]

ChecksInv ==
    /\ CheckTypeOK
    /\ \A k \in Checkers : CheckerInv(k)
    /\ SettingInv

Assumptions == SourceConstraintsAssumption /\ ConnPoolAssumption

\* Only the check k, its connection and the setting of its connection change.
CheckFrame(k) ==
    /\ CheckTypeOK'
    /\ unsound' = unsound /\ initial' = initial
    /\ \A p \in Checkers \ {k} :
         /\ kpc'[p] = kpc[p] /\ conn'[p] = conn[p] /\ restore'[p] = restore[p]
         /\ kres'[p] = kres[p] /\ kfailed'[p] = kfailed[p]
         /\ \A c \in Conns : (owner'[c] = p) = (owner[c] = p)
    /\ \A c \in Conns : owner[c] # k => ignore'[c] = ignore[c]

\* The setting is left alone, or changes as SettingInv allows.
SettingStep(k) ==
    /\ kfailed[k] => kfailed'[k] /\ conn'[k] = conn[k]
    /\ Owes(k)' => initial[conn'[k]] \/ Tampered(conn[k])'
    /\ \A c \in Conns :
         (owner[c] = k \/ owner'[c] = k) /\ ignore'[c] # initial[c]
         => Tampered(c)' \/ (Owes(k)' /\ c = conn'[k])

\* A step of one check leaves the invariant to the others.
LEMMA CheckFrameKeeps ==
    ASSUME ChecksInv, Assumptions, NEW k \in Checkers, CheckFrame(k), CheckerInv(k)', SettingStep(k)
    PROVE  ChecksInv'
  <1>1. ASSUME NEW p \in Checkers \ {k} PROVE CheckerInv(p)'
    <2>1. kpc[p] \in Holding => owner[conn[p]] = p /\ conn[p] \in Conns
      BY <1>1 DEF ChecksInv, CheckerInv
    <2>2. kpc[p] \in Holding => ignore'[conn[p]] = ignore[conn[p]]
      BY <1>1, <2>1 DEF CheckFrame
    <2> QED
      BY <1>1, <2>2 DEF ChecksInv, CheckerInv, CheckFrame, Holding, Checking
  <1>2. ASSUME NEW c \in Conns, Tampered(c) PROVE Tampered(c)'
    BY <1>2 DEF CheckFrame, SettingStep, Tampered
  <1>3. ASSUME NEW p \in Checkers, Owes(p)' PROVE initial'[conn'[p]] \/ Tampered(conn[p])'
    <2>1. CASE p = k
      BY <1>3, <2>1 DEF SettingStep, CheckFrame
    <2>2. CASE p # k
      <3>1. Owes(p) /\ conn'[p] = conn[p] /\ conn[p] \in Conns
        BY <1>3, <2>2 DEF CheckFrame, Owes, ChecksInv, CheckerInv
      <3> QED BY <1>2, <3>1 DEF ChecksInv, SettingInv, CheckFrame
    <2> QED BY <2>1, <2>2
  <1>4. ASSUME NEW c \in Conns, ignore'[c] # initial'[c]
        PROVE  Tampered(c)' \/ \E p \in Checkers : Owes(p)' /\ c = conn'[p]
    <2>1. CASE owner[c] = k \/ owner'[c] = k
      BY <1>4, <2>1 DEF SettingStep, CheckFrame
    <2>2. CASE owner[c] # k
      <3>1. ignore[c] # initial[c]
        BY <1>4, <2>2 DEF CheckFrame
      <3>2. CASE Tampered(c)
        BY <3>2, <1>2
      <3>3. ASSUME NEW p \in Checkers, Owes(p), c = conn[p] PROVE Owes(p)' /\ c = conn'[p]
        <4>1. p # k
          BY <2>2, <3>3 DEF Owes, ChecksInv, CheckerInv
        <4> QED BY <3>3, <4>1 DEF CheckFrame, Owes
      <3> QED BY <3>1, <3>2, <3>3 DEF ChecksInv, SettingInv
    <2> QED BY <2>1, <2>2
  <1>5. SettingInv'
    BY <1>3, <1>4 DEF SettingInv
  <1> QED
    BY <1>1, <1>5 DEF ChecksInv, CheckFrame

\* The connection of a check that holds one.
LEMMA HeldConn ==
    ASSUME ChecksInv, NEW k \in Checkers, kpc[k] \in Holding
    PROVE  conn[k] \in Conns /\ owner[conn[k]] = k /\ \A c \in Conns : owner[c] = k <=> c = conn[k]
  BY DEF ChecksInv, CheckerInv

\* The setting of the connection differs only because of this check, or of a failure.
LEMMA OwnSetting ==
    ASSUME ChecksInv, NEW k \in Checkers, kpc[k] \in Holding, ignore[conn[k]] # initial[conn[k]]
    PROVE  Tampered(conn[k]) \/ Owes(k)
  <1>1. conn[k] \in Conns /\ owner[conn[k]] = k
    BY HeldConn
  <1>2. ASSUME NEW p \in Checkers, Owes(p), conn[k] = conn[p] PROVE p = k
    BY <1>1, <1>2 DEF ChecksInv, CheckerInv, Owes
  <1> QED
    BY <1>1, <1>2 DEF ChecksInv, SettingInv

-----------------------------------------------------------------------------
(* The steps of one check.                                                 *)

\* A step of a check that leaves the connections and their settings alone.
LocalStep(k) ==
    /\ UNCHANGED <<poolVars, settings, conn, restore, kfailed>>
    /\ krows' \in [Checkers -> BOOLEAN] /\ klive' \in [Checkers -> BOOLEAN]
    /\ kfaults' \in 0..MaxCheckFaults
    /\ \E to \in Steps : kpc' = [kpc EXCEPT ![k] = to]
    /\ \E res \in {"none", "ok", "error"} : kres' = [kres EXCEPT ![k] = res]
    /\ (kpc[k] \in Holding) = (kpc'[k] \in Holding)
    /\ Owes(k)' = Owes(k)

\* Such a step keeps what is said of connections and settings.
LEMMA LocalKeeps ==
    ASSUME ChecksInv, Assumptions, NEW k \in Checkers, LocalStep(k),
           kpc'[k] \in {"idle", "conn", "read", "off"} => ~restore[k],
           kpc'[k] \in Checking \cup {"idle", "conn"} => kres'[k] = "none" /\ ~kfailed[k],
           kpc'[k] \in {"closeRows", "restore", "closeConn", "done"} => kres'[k] # "none",
           kres'[k] = "ok" => ~kfailed[k] /\ unsound = {},
           kpc'[k] = "off" => ignore[conn[k]],
           kpc'[k] = "integrity" => ~ignore[conn[k]],
           kpc'[k] \in {"foreignKeys", "found"} => unsound \subseteq {"foreignKey"}
    PROVE  ChecksInv'
  <1>1. CheckFrame(k)
    <2>1. CheckTypeOK'
      BY DEF LocalStep, ChecksInv, CheckTypeOK, PoolTypeOK, poolVars, settings, CheckerInv
    <2> QED
      BY <2>1 DEF LocalStep, CheckFrame, poolVars, settings, ChecksInv, CheckTypeOK
  <1>2. CheckerInv(k)'
    BY DEF LocalStep, poolVars, settings, ChecksInv, CheckerInv
  <1>3. SettingStep(k)
    <2>1. ASSUME NEW c \in Conns, Tampered(c) PROVE Tampered(c)'
      BY <2>1 DEF LocalStep, Tampered
    <2>2. Owes(k)' => initial[conn'[k]] \/ Tampered(conn[k])'
      BY <2>1 DEF LocalStep, ChecksInv, SettingInv, Owes, CheckerInv
    <2>3. ASSUME NEW c \in Conns, owner[c] = k \/ owner'[c] = k, ignore'[c] # initial[c]
          PROVE  Tampered(c)' \/ (Owes(k)' /\ c = conn'[k])
      <3>1. c = conn[k] /\ kpc[k] \in Holding /\ ignore[c] # initial[c]
        BY <2>3 DEF LocalStep, ChecksInv, CheckerInv, poolVars, settings
      <3>2. Tampered(c) \/ Owes(k)
        BY <3>1, OwnSetting
      <3> QED BY <2>1, <3>1, <3>2 DEF LocalStep
    <2> QED
      BY <2>2, <2>3 DEF SettingStep, LocalStep, Owes
  <1> QED
    BY <1>1, <1>2, <1>3, CheckFrameKeeps

\* The types of what a check reads and writes.
LEMMA LocalTypes ==
    ASSUME ChecksInv, NEW k \in Checkers
    PROVE  /\ kpc \in [Checkers -> Steps] /\ kres \in [Checkers -> {"none", "ok", "error"}]
           /\ krows \in [Checkers -> BOOLEAN] /\ klive \in [Checkers -> BOOLEAN]
           /\ restore \in [Checkers -> BOOLEAN] /\ kfailed \in [Checkers -> BOOLEAN]
           /\ conn \in [Checkers -> Conns \cup {NoConn}] /\ kfaults \in 0..MaxCheckFaults
           /\ kpc = [kpc EXCEPT ![k] = kpc[k]] /\ kres = [kres EXCEPT ![k] = kres[k]]
           /\ CheckerInv(k)
  BY DEF ChecksInv, CheckTypeOK

\* A statement that fails is counted.
LEMMA BrokenCounts ==
    ASSUME ChecksInv, Assumptions, NEW k \in Checkers, Broken(k) \/ UNCHANGED kfaults
    PROVE  kfaults' \in 0..MaxCheckFaults
  BY DEF Broken, ChecksInv, CheckTypeOK, Assumptions, SourceConstraintsAssumption

\* A step of a check that leaves the connections and their settings alone.
Quiet(k) ==
    /\ UNCHANGED <<poolVars, settings, conn, restore, kfailed>>
    /\ krows' \in [Checkers -> BOOLEAN] /\ klive' \in [Checkers -> BOOLEAN]
    /\ kfaults' \in 0..MaxCheckFaults

\* The invariant allows the check k to be at step "to" with the result "res".
To(k, to, res) ==
    /\ to \in Steps /\ res \in {"none", "ok", "error"}
    /\ (kpc[k] \in Holding) = (to \in Holding)
    /\ restore[k] => (kpc[k] \in Holding \ {"closeConn"}) = (to \in Holding \ {"closeConn"})
    /\ to \in {"idle", "conn", "read", "off"} => ~restore[k]
    /\ to \in Checking \cup {"idle", "conn"} => res = "none" /\ ~kfailed[k]
    /\ to \in {"closeRows", "restore", "closeConn", "done"} => res # "none"
    /\ res = "ok" => ~kfailed[k] /\ unsound = {}
    /\ to = "off" => ignore[conn[k]]
    /\ to = "integrity" => ~ignore[conn[k]]
    /\ to \in {"foreignKeys", "found"} => unsound \subseteq {"foreignKey"}

\* Such a step keeps the invariant.
LEMMA MoveKeeps ==
    ASSUME ChecksInv, Assumptions, NEW k \in Checkers, NEW to, NEW res, Quiet(k), To(k, to, res),
           kpc' = [kpc EXCEPT ![k] = to], kres' = [kres EXCEPT ![k] = res]
    PROVE  ChecksInv'
  <1>1. kpc'[k] = to /\ kres'[k] = res
    BY LocalTypes
  <1>2. LocalStep(k)
    BY <1>1 DEF LocalStep, Quiet, To, Owes
  <1> QED
    BY <1>1, <1>2, LocalKeeps DEF To

\* Between two steps of the same check, nothing but its place and its result changes.
LEMMA MovesKeep ==
    ASSUME ChecksInv, Assumptions, NEW k \in Checkers,
           \/ Check(k) \/ CheckRead(k) \/ CheckIntegrity(k) \/ IntegrityViolated(k)
           \/ CheckForeignKeys(k) \/ ForeignKeysRead(k) \/ CloseCheckRows(k) \/ CancelCheck(k)
    PROVE  ChecksInv'
  <1>1. CASE Check(k)
    <2>1. /\ kpc[k] = "idle" /\ kpc' = [kpc EXCEPT ![k] = "conn"] /\ kres' = [kres EXCEPT ![k] = kres[k]]
          /\ Quiet(k)
      BY <1>1, LocalTypes, BrokenCounts DEF Check, At, Returning, locals, Quiet
    <2>2. To(k, "conn", kres[k])
      BY <2>1, LocalTypes DEF CheckerInv, To, Steps, Holding, Checking
    <2> QED
      BY <2>1, <2>2, MoveKeeps
  <1>2. CASE CheckRead(k)
    <2>1. /\ kpc[k] = "read" /\ kpc' = [kpc EXCEPT ![k] = (IF ignore[conn[k]] THEN "off" ELSE "integrity")] /\ kres' = [kres EXCEPT ![k] = kres[k]]
          /\ Quiet(k)
      BY <1>2, LocalTypes, BrokenCounts DEF CheckRead, At, Returning, locals, Quiet
    <2>2. To(k, (IF ignore[conn[k]] THEN "off" ELSE "integrity"), kres[k])
      BY <2>1, LocalTypes DEF CheckerInv, To, Steps, Holding, Checking
    <2> QED
      BY <2>1, <2>2, MoveKeeps
  <1>3. CASE CheckIntegrity(k)
    <2>1. /\ kpc[k] = "integrity" /\ kpc' = [kpc EXCEPT ![k] = "foreignKeys"]
          /\ kres' = [kres EXCEPT ![k] = kres[k]] /\ Quiet(k) /\ Seen(k) = {}
      BY <1>3, LocalTypes DEF CheckIntegrity, At, locals, Quiet
    <2>2. unsound \subseteq {"foreignKey"}
      <3>1. ~ignore[conn[k]]
        BY <2>1, LocalTypes DEF CheckerInv
      <3>2. unsound \subseteq {"check", "other", "foreignKey"}
        BY DEF ChecksInv, CheckTypeOK, Assumptions, SourceConstraintsAssumption
      <3> QED BY <2>1, <3>1, <3>2 DEF Seen
    <2>3. To(k, "foreignKeys", kres[k])
      BY <2>1, <2>2, LocalTypes DEF CheckerInv, To, Steps, Holding, Checking
    <2> QED
      BY <2>1, <2>3, MoveKeeps
  <1>4. CASE IntegrityViolated(k)
    <2>1. /\ kpc[k] = "integrity" /\ kpc' = [kpc EXCEPT ![k] = "restore"] /\ kres' = [kres EXCEPT ![k] = "error"]
          /\ Quiet(k)
      BY <1>4, LocalTypes, BrokenCounts DEF IntegrityViolated, At, Returning, locals, Quiet
    <2>2. To(k, "restore", "error")
      BY <2>1, LocalTypes DEF CheckerInv, To, Steps, Holding, Checking
    <2> QED
      BY <2>1, <2>2, MoveKeeps
  <1>5. CASE CheckForeignKeys(k)
    <2>1. /\ kpc[k] = "foreignKeys" /\ kpc' = [kpc EXCEPT ![k] = "found"] /\ kres' = [kres EXCEPT ![k] = kres[k]]
          /\ Quiet(k)
      BY <1>5, LocalTypes, BrokenCounts DEF CheckForeignKeys, At, Returning, locals, Quiet
    <2>2. To(k, "found", kres[k])
      BY <2>1, LocalTypes DEF CheckerInv, To, Steps, Holding, Checking
    <2> QED
      BY <2>1, <2>2, MoveKeeps
  <1>6. CASE ForeignKeysRead(k)
    <2>1. /\ kpc[k] = "found" /\ kpc' = [kpc EXCEPT ![k] = "closeRows"] /\ kres' = [kres EXCEPT ![k] = (IF "foreignKey" \in unsound THEN "error" ELSE "ok")]
          /\ Quiet(k)
      BY <1>6, LocalTypes, BrokenCounts DEF ForeignKeysRead, At, Returning, locals, Quiet
    <2>2. To(k, "closeRows", (IF "foreignKey" \in unsound THEN "error" ELSE "ok"))
      BY <2>1, LocalTypes DEF CheckerInv, To, Steps, Holding, Checking
    <2> QED
      BY <2>1, <2>2, MoveKeeps
  <1>7. CASE CloseCheckRows(k)
    <2>1. /\ kpc[k] = "closeRows" /\ kpc' = [kpc EXCEPT ![k] = "restore"] /\ kres' = [kres EXCEPT ![k] = kres[k]]
          /\ Quiet(k)
      BY <1>7, LocalTypes, BrokenCounts DEF CloseCheckRows, At, Returning, locals, Quiet
    <2>2. To(k, "restore", kres[k])
      BY <2>1, LocalTypes DEF CheckerInv, To, Steps, Holding, Checking
    <2> QED
      BY <2>1, <2>2, MoveKeeps
  <1>8. CASE CancelCheck(k)
    <2>1. /\ kpc' = [kpc EXCEPT ![k] = kpc[k]] /\ kres' = [kres EXCEPT ![k] = kres[k]] /\ Quiet(k)
      BY <1>8, LocalTypes DEF CancelCheck, Quiet
    <2>2. To(k, kpc[k], kres[k])
      BY <2>1, LocalTypes DEF CheckerInv, To
    <2> QED
      BY <2>1, <2>2, MoveKeeps
  <1> QED
    BY <1>1, <1>2, <1>3, <1>4, <1>5, <1>6, <1>7, <1>8

\* A statement of the check fails before it holds anything, or on what it holds.
LEMMA FailuresKeep ==
    ASSUME ChecksInv, Assumptions, NEW k \in Checkers, CheckConnFails(k) \/ CheckFails(k)
    PROVE  ChecksInv'
  <1>1. CASE CheckConnFails(k)
    <2>1. /\ kpc[k] = "conn" /\ kpc' = [kpc EXCEPT ![k] = "done"] /\ kres' = [kres EXCEPT ![k] = "error"]
          /\ Quiet(k)
      BY <1>1, LocalTypes, BrokenCounts DEF CheckConnFails, At, Returning, Quiet
    <2>2. To(k, "done", "error")
      BY <2>1, LocalTypes DEF CheckerInv, To, Steps, Holding, Checking
    <2> QED
      BY <2>1, <2>2, MoveKeeps
  <1>2. CASE CheckFails(k)
    <2>1. PICK to \in Steps :
            /\ \/ kpc[k] = "read" /\ to = "closeConn"
               \/ kpc[k] = "integrity" /\ to = "restore"
               \/ kpc[k] = "foreignKeys" /\ to = "restore"
               \/ kpc[k] = "found" /\ to = "closeRows"
            /\ kpc' = [kpc EXCEPT ![k] = to] /\ kres' = [kres EXCEPT ![k] = "error"]
      BY <1>2 DEF CheckFails, At, Returning, Steps
    <2>2. Quiet(k)
      BY <1>2, LocalTypes, BrokenCounts DEF CheckFails, Quiet
    <2>3. To(k, to, "error")
      BY <2>1, LocalTypes DEF CheckerInv, To, Steps, Holding, Checking
    <2> QED
      BY <2>1, <2>2, <2>3, MoveKeeps
  <1> QED
    BY <1>1, <1>2

\* A check that has its connection changes the setting of that connection alone.
OwnStep(k) ==
    /\ kpc[k] \in Holding
    /\ pool' = pool /\ owner' = owner /\ conn' = conn /\ krows' = krows /\ klive' = klive
    /\ unsound' = unsound /\ initial' = initial
    /\ kfaults' \in 0..MaxCheckFaults
    /\ \E b \in BOOLEAN : ignore' = [ignore EXCEPT ![conn[k]] = b]
    /\ \E b \in BOOLEAN : restore' = [restore EXCEPT ![k] = b]
    /\ \E b \in BOOLEAN : kfailed' = [kfailed EXCEPT ![k] = b]
    /\ \E to \in Holding : kpc' = [kpc EXCEPT ![k] = to]
    /\ \E res \in {"none", "error"} : kres' = [kres EXCEPT ![k] = res]
                                      \/ kres' = kres
    /\ kfailed[k] => kfailed'[k]

\* Such a step keeps the frame.
LEMMA OwnFrame ==
    ASSUME ChecksInv, Assumptions, NEW k \in Checkers, OwnStep(k),
           kpc'[k] # "done" \/ kres'[k] # "none"
    PROVE  CheckFrame(k)
  <1>1. conn[k] \in Conns /\ owner[conn[k]] = k /\ ignore \in [Conns -> BOOLEAN]
    BY HeldConn DEF OwnStep, ChecksInv, CheckTypeOK
  <1>2. /\ ignore' \in [Conns -> BOOLEAN]
        /\ \A c \in Conns : owner[c] # k => ignore'[c] = ignore[c]
    BY <1>1 DEF OwnStep
  <1>3. /\ kpc' \in [Checkers -> Steps] /\ kres' \in [Checkers -> {"none", "ok", "error"}]
        /\ restore' \in [Checkers -> BOOLEAN] /\ kfailed' \in [Checkers -> BOOLEAN]
        /\ \A p \in Checkers \ {k} :
             kpc'[p] = kpc[p] /\ restore'[p] = restore[p] /\ kres'[p] = kres[p] /\ kfailed'[p] = kfailed[p]
    BY LocalTypes DEF OwnStep, Steps, Holding, Checking
  <1>4. CheckTypeOK'
    BY <1>2, <1>3 DEF OwnStep, ChecksInv, CheckTypeOK, PoolTypeOK
  <1> QED
    BY <1>2, <1>3, <1>4 DEF OwnStep, CheckFrame

\* And the invariant, if it does as SettingInv and CheckerInv say.
LEMMA OwnKeeps ==
    ASSUME ChecksInv, Assumptions, NEW k \in Checkers, OwnStep(k),
           NEW to, kpc'[k] = to, to \in Holding \ {"off", "foreignKeys", "found"},
           to = "read" => ~restore'[k],
           to \in Checking => kres'[k] = "none" /\ ~kfailed'[k],
           to \in {"closeRows", "restore", "closeConn"} => kres'[k] # "none",
           kres'[k] = "ok" => ~kfailed'[k] /\ unsound = {},
           to = "integrity" => ~ignore'[conn[k]],
           Owes(k)' => initial[conn[k]] \/ Tampered(conn[k])',
           ignore'[conn[k]] # initial[conn[k]] => Tampered(conn[k])' \/ Owes(k)'
    PROVE  ChecksInv'
  <1>1. CheckFrame(k)
    BY OwnFrame DEF Holding, Checking
  <1>2. CheckerInv(k)'
    BY LocalTypes DEF CheckerInv, OwnStep, Holding, Checking
  <1>3. conn' = conn /\ owner' = owner /\ kpc[k] \in Holding /\ \A c \in Conns : owner[c] = k <=> c = conn[k]
    BY HeldConn DEF OwnStep
  <1>4. SettingStep(k)
    BY <1>3 DEF SettingStep, OwnStep
  <1> QED
    BY <1>1, <1>2, <1>4, CheckFrameKeeps

\* The check gets its connection.
LEMMA CheckConnKeeps ==
    ASSUME ChecksInv, Assumptions, NEW k \in Checkers, CheckConn(k)
    PROVE  ChecksInv'
  <1>1. PICK c \in Conns :
          /\ kpc[k] = "conn" /\ kpc' = [kpc EXCEPT ![k] = "read"] /\ pool' = pool
          /\ owner[c] = Nobody /\ owner' = [owner EXCEPT ![c] = k] /\ conn' = [conn EXCEPT ![k] = c]
          /\ UNCHANGED <<ignore, initial, unsound, krows, restore, klive, kres, kfailed, kfaults>>
    BY DEF CheckConn, At, Take, settings
  <1>2. \A d \in Conns : owner[d] # k
    BY <1>1, LocalTypes DEF CheckerInv, Holding, Checking
  <1>3. ~restore[k] /\ ~kfailed[k] /\ kres[k] = "none"
    BY <1>1, LocalTypes DEF CheckerInv
  <1>4. CheckFrame(k)
    <2>1. CheckTypeOK'
      BY <1>1, LocalTypes DEF ChecksInv, CheckTypeOK, PoolTypeOK, Steps, Assumptions,
                              SourceConstraintsAssumption
    <2>2. \A p \in Checkers \ {k} : \A d \in Conns : (owner'[d] = p) = (owner[d] = p)
      BY <1>1 DEF Assumptions, SourceConstraintsAssumption, ConnPoolAssumption, ChecksInv, CheckTypeOK,
                  PoolTypeOK
    <2> QED
      BY <1>1, <2>1, <2>2, LocalTypes DEF CheckFrame
  <1>5. kpc'[k] = "read" /\ conn'[k] = c /\ \A d \in Conns : owner'[d] = k <=> d = c
    BY <1>1, <1>2, LocalTypes DEF ChecksInv, CheckTypeOK, PoolTypeOK
  <1>6. CheckerInv(k)'
    BY <1>1, <1>3, <1>5 DEF CheckerInv, Holding, Checking
  <1>7. SettingStep(k)
    <2>1. ASSUME ignore[c] # initial[c] PROVE Tampered(c)'
      <3>1. ASSUME NEW p \in Checkers, Owes(p), c = conn[p] PROVE FALSE
        BY <1>1, <3>1 DEF ChecksInv, CheckerInv, Owes, Assumptions, SourceConstraintsAssumption,
                          ConnPoolAssumption
      <3>2. PICK p \in Checkers : kfailed[p] /\ conn[p] = c
        BY <2>1, <3>1 DEF ChecksInv, SettingInv, Tampered
      <3>3. p # k
        BY <1>3, <3>2
      <3> QED BY <1>1, <3>2, <3>3, LocalTypes DEF Tampered
    <2> QED
      BY <1>1, <1>2, <1>3, <1>5, <2>1 DEF SettingStep, Owes
  <1> QED
    BY <1>4, <1>6, <1>7, CheckFrameKeeps

\* The setting is turned off: the restore is owed from then on.
LEMMA CheckOffKeeps ==
    ASSUME ChecksInv, Assumptions, NEW k \in Checkers, CheckOff(k)
    PROVE  ChecksInv'
  <1>1. /\ kpc[k] = "off" /\ kpc' = [kpc EXCEPT ![k] = "integrity"]
        /\ ignore' = [ignore EXCEPT ![conn[k]] = FALSE] /\ restore' = [restore EXCEPT ![k] = TRUE]
        /\ UNCHANGED <<poolVars, initial, unsound, conn, krows, klive, kres, kfailed, kfaults>>
    BY DEF CheckOff, At
  <1>2. kpc'[k] = "integrity" /\ restore'[k] = TRUE /\ kres[k] = "none" /\ ~kfailed[k] /\ ignore[conn[k]]
    BY <1>1, LocalTypes DEF CheckerInv, Checking
  <1>3. kpc[k] \in Holding /\ "integrity" \in Holding \ {"off", "foreignKeys", "found", "closeConn"}
    BY <1>1 DEF Holding, Checking
  <1>4. conn[k] \in Conns /\ ignore'[conn[k]] = FALSE
    BY <1>1, <1>3, HeldConn DEF ChecksInv, CheckTypeOK
  <1>5. OwnStep(k)
    <2>1. \E x \in BOOLEAN : ignore' = [ignore EXCEPT ![conn[k]] = x]
      BY <1>1
    <2>2. \E x \in BOOLEAN : restore' = [restore EXCEPT ![k] = x]
      BY <1>1
    <2>3. \E x \in BOOLEAN : kfailed' = [kfailed EXCEPT ![k] = x]
      <3>1. kfailed' = [kfailed EXCEPT ![k] = FALSE]
        BY <1>1, <1>2, LocalTypes
      <3> QED BY <3>1
    <2> QED
      BY <1>1, <1>2, <1>3, <2>1, <2>2, <2>3, LocalTypes DEF OwnStep, poolVars
  <1>6. initial[conn[k]] \/ Tampered(conn[k])'
    <2>1. CASE ignore[conn[k]] = initial[conn[k]]
      BY <1>2, <2>1
    <2>2. CASE ignore[conn[k]] # initial[conn[k]]
      <3>1. Tampered(conn[k]) \/ Owes(k)
        BY <1>3, <2>2, OwnSetting
      <3>2. ~Owes(k)
        BY <1>1, LocalTypes DEF Owes, CheckerInv
      <3> QED BY <1>1, <3>1, <3>2 DEF Tampered
    <2> QED BY <2>1, <2>2
  <1>7. Owes(k)'
    BY <1>2, <1>3 DEF Owes
  <1> QED
    BY <1>1, <1>2, <1>3, <1>4, <1>5, <1>6, <1>7, OwnKeeps

\* A statement that sets the setting fails: the connection counts as tampered with.
LEMMA TamperKeeps ==
    ASSUME ChecksInv, Assumptions, NEW k \in Checkers, CheckOffFails(k) \/ RestoreFails(k)
    PROVE  ChecksInv'
  <1>1. PICK b \in BOOLEAN :
          /\ kpc[k] \in {"off", "restore"} /\ kpc' = [kpc EXCEPT ![k] = "closeConn"]
          /\ ignore' = ignore \/ ignore' = [ignore EXCEPT ![conn[k]] = b]
          /\ kfailed' = [kfailed EXCEPT ![k] = TRUE] /\ kres' = [kres EXCEPT ![k] = "error"]
          /\ UNCHANGED <<poolVars, initial, unsound, conn, krows, restore, klive>>
          /\ Broken(k)
    BY DEF CheckOffFails, RestoreFails, At, Returning, Broken
  <1>2. kpc'[k] = "closeConn" /\ kfailed'[k] = TRUE /\ kres'[k] = "error"
    BY <1>1, LocalTypes
  <1>3. kpc[k] \in Holding /\ "closeConn" \in Holding \ {"off", "foreignKeys", "found"}
    BY <1>1 DEF Holding, Checking
  <1>4. conn[k] \in Conns /\ ignore \in [Conns -> BOOLEAN]
    BY <1>3, HeldConn DEF ChecksInv, CheckTypeOK
  <1>5. ignore' = [ignore EXCEPT ![conn[k]] = b] \/ ignore' = [ignore EXCEPT ![conn[k]] = ignore[conn[k]]]
    BY <1>1, <1>4
  <1>6. OwnStep(k)
    <2>1. \E x \in BOOLEAN : ignore' = [ignore EXCEPT ![conn[k]] = x]
      BY <1>4, <1>5
    <2>2. \E x \in BOOLEAN : restore' = [restore EXCEPT ![k] = x]
      BY <1>1, LocalTypes
    <2> QED
      BY <1>1, <1>2, <1>3, <2>1, <2>2, BrokenCounts DEF OwnStep, poolVars
  <1>7. Tampered(conn[k])'
    BY <1>1, <1>2 DEF Tampered
  <1> QED
    BY <1>2, <1>3, <1>6, <1>7, OwnKeeps DEF Checking

\* What is owed is restored.
LEMMA RestoreKeeps ==
    ASSUME ChecksInv, Assumptions, NEW k \in Checkers, Restore(k)
    PROVE  ChecksInv'
  <1>1. /\ kpc[k] = "restore" /\ kpc' = [kpc EXCEPT ![k] = "closeConn"]
        /\ ignore' = IF restore[k] THEN [ignore EXCEPT ![conn[k]] = TRUE] ELSE ignore
        /\ UNCHANGED <<poolVars, initial, unsound, conn, krows, restore, klive, kres, kfailed, kfaults>>
    BY DEF Restore, At, locals
  <1>2. kpc'[k] = "closeConn" /\ kres[k] # "none" /\ (kres[k] = "ok" => ~kfailed[k] /\ unsound = {})
    BY <1>1, LocalTypes DEF CheckerInv
  <1>3. kpc[k] \in Holding /\ "closeConn" \in Holding \ {"off", "foreignKeys", "found"}
    BY <1>1 DEF Holding, Checking
  <1>4. conn[k] \in Conns /\ ignore \in [Conns -> BOOLEAN]
    BY <1>3, HeldConn DEF ChecksInv, CheckTypeOK
  <1>5. \E x \in BOOLEAN : ignore' = [ignore EXCEPT ![conn[k]] = x]
    <2>1. CASE restore[k]
      BY <1>1, <2>1
    <2>2. CASE ~restore[k]
      <3>1. ignore' = [ignore EXCEPT ![conn[k]] = ignore[conn[k]]] /\ ignore[conn[k]] \in BOOLEAN
        BY <1>1, <1>4, <2>2
      <3> QED BY <3>1
    <2> QED BY <2>1, <2>2
  <1>6. OwnStep(k)
    <2>1. /\ \E x \in BOOLEAN : restore' = [restore EXCEPT ![k] = x]
          /\ \E x \in BOOLEAN : kfailed' = [kfailed EXCEPT ![k] = x]
      BY <1>1, LocalTypes
    <2> QED
      BY <1>1, <1>3, <1>5, <2>1, LocalTypes DEF OwnStep, poolVars
  <1>7. ~Owes(k)'
    BY <1>2 DEF Owes
  <1>8. ASSUME ignore'[conn[k]] # initial[conn[k]] PROVE Tampered(conn[k])'
    <2>1. CASE restore[k]
      <3>1. ignore'[conn[k]] = TRUE /\ initial[conn[k]] \in BOOLEAN
        BY <1>1, <1>4, <2>1 DEF ChecksInv, CheckTypeOK
      <3>2. Owes(k)
        BY <1>1, <2>1 DEF Owes, Holding
      <3>3. Tampered(conn[k])
        BY <1>8, <3>1, <3>2 DEF ChecksInv, SettingInv
      <3> QED BY <1>1, <3>3 DEF Tampered
    <2>2. CASE ~restore[k]
      <3>1. Tampered(conn[k])
        BY <1>1, <1>3, <1>8, <2>2, OwnSetting DEF Owes
      <3> QED BY <1>1, <3>1 DEF Tampered
    <2> QED BY <2>1, <2>2
  <1> QED
    BY <1>1, <1>2, <1>3, <1>6, <1>7, <1>8, OwnKeeps DEF Checking

\* The connection goes back to the pool.
LEMMA CloseConnKeeps ==
    ASSUME ChecksInv, Assumptions, NEW k \in Checkers, CloseCheckConn(k)
    PROVE  ChecksInv'
  <1>1. /\ kpc[k] = "closeConn" /\ kpc' = [kpc EXCEPT ![k] = "done"] /\ pool' = pool
        /\ owner' = [c \in Conns |-> IF c = conn[k] THEN Nobody ELSE owner[c]]
        /\ UNCHANGED <<ignore, initial, unsound, conn, krows, restore, klive, kres, kfailed, kfaults>>
    BY DEF CloseCheckConn, At, GiveBack, settings, locals
  <1>2. kpc[k] \in Holding
    BY <1>1 DEF Holding
  <1>3. \A c \in Conns : owner[c] = k <=> c = conn[k]
    BY <1>2, HeldConn
  <1>4. kpc'[k] = "done" /\ kres[k] # "none" /\ (kres[k] = "ok" => ~kfailed[k] /\ unsound = {})
    BY <1>1, LocalTypes DEF CheckerInv
  <1>5. k # Nobody /\ Nobody \notin Checkers
    BY DEF Assumptions, SourceConstraintsAssumption, ConnPoolAssumption
  <1>6. CheckFrame(k)
    <2>1. CheckTypeOK'
      BY <1>1, <1>4, LocalTypes DEF ChecksInv, CheckTypeOK, PoolTypeOK, Steps
    <2>2. \A p \in Checkers \ {k} : \A c \in Conns : (owner'[c] = p) = (owner[c] = p)
      BY <1>1, <1>3, <1>5
    <2> QED
      BY <1>1, <2>1, <2>2, LocalTypes DEF CheckFrame
  <1>7. \A c \in Conns : owner'[c] # k
    BY <1>1, <1>3, <1>5
  <1>8. CheckerInv(k)'
    BY <1>1, <1>4, <1>7 DEF CheckerInv, Holding, Checking
  <1>9. SettingStep(k)
    <2>1. ~Owes(k) /\ ~Owes(k)'
      BY <1>1, <1>4 DEF Owes, Holding, Checking
    <2>2. ASSUME ignore[conn[k]] # initial[conn[k]] PROVE Tampered(conn[k])'
      BY <1>1, <1>2, <2>1, <2>2, OwnSetting DEF Tampered
    <2> QED
      BY <1>1, <1>3, <1>7, <2>1, <2>2 DEF SettingStep
  <1> QED
    BY <1>6, <1>8, <1>9, CheckFrameKeeps

-----------------------------------------------------------------------------
(* The theorems.                                                           *)

\* No check has begun.
LEMMA ChecksInvInit ==
    ASSUME Assumptions, pool \in {"none", "open"}, AllFree, CheckersInit
    PROVE  ChecksInv
  <1>1. CheckTypeOK
    BY DEF AllFree, CheckersInit, CheckTypeOK, PoolTypeOK, Steps, Assumptions, SourceConstraintsAssumption
  <1>2. \A k \in Checkers : CheckerInv(k)
    BY DEF AllFree, CheckersInit, CheckerInv, Holding, Checking, Assumptions, SourceConstraintsAssumption,
           ConnPoolAssumption
  <1>3. SettingInv
    BY DEF CheckersInit, SettingInv, Owes, Holding, Checking
  <1> QED
    BY <1>1, <1>2, <1>3 DEF ChecksInv

\* Every step of the checks keeps the invariant.
LEMMA ChecksInvStep ==
    ASSUME ChecksInv, Assumptions, [CheckNext]_kvars
    PROVE  ChecksInv'
  <1>1. ASSUME NEW k \in Checkers, Check(k) \/ CheckRun(k) PROVE ChecksInv'
    BY <1>1, MovesKeep, FailuresKeep, CheckConnKeeps, CheckOffKeeps, TamperKeeps, RestoreKeeps,
       CloseConnKeeps DEF CheckRun, CheckStep
  <1>2. CASE UNCHANGED kvars
    BY <1>2 DEF kvars, poolVars, settings, locals, ChecksInv, CheckTypeOK, PoolTypeOK, CheckerInv,
                SettingInv, Owes, Tampered
  <1> QED
    BY <1>1, <1>2 DEF CheckNext

\* The invariant holds of every run of the checks.
LEMMA ChecksInvAlways ==
    CheckSpec => []ChecksInv
  <1>1. Assumptions
    BY SourceConstraintsAssumption, ConnPoolAssumption DEF Assumptions
  <1>2. CheckInit => ChecksInv
    BY <1>1, ChecksInvInit DEF CheckInit
  <1>3. ChecksInv /\ [CheckNext]_kvars => ChecksInv'
    BY <1>1, ChecksInvStep
  <1> QED
    BY <1>2, <1>3, PTL DEF CheckSpec

\* The types of a check, and that one that returned has a result.
THEOREM CheckTypes ==
    CheckSpec => []CheckTypeOK
  <1>1. ChecksInv => CheckTypeOK
    BY DEF ChecksInv
  <1> QED
    BY <1>1, ChecksInvAlways, PTL

\* A setting that differs is that of a connection in use, or its check told.
LEMMA InvRestores == ChecksInv => SettingRestored
  <1>1. ASSUME ChecksInv, NEW c \in Conns, Tampered(c) PROVE Reported(c)
    <2>1. PICK k \in Checkers : kfailed[k] /\ conn[k] = c
      BY <1>1 DEF Tampered
    <2>2. kpc[k] \in Steps /\ kres[k] \in {"none", "ok", "error"}
      BY <1>1 DEF ChecksInv, CheckTypeOK
    <2>3. kres[k] = "error"
      BY <1>1, <2>1, <2>2 DEF ChecksInv, CheckerInv, Steps, Checking
    <2> QED
      BY <2>1, <2>3 DEF Reported
  <1>2. ASSUME ChecksInv, NEW c \in Conns, ignore[c] # initial[c], ~Reported(c)
        PROVE  \E k \in Checkers : owner[c] = k
    <2>1. PICK k \in Checkers : Owes(k) /\ c = conn[k]
      BY <1>1, <1>2 DEF ChecksInv, SettingInv
    <2> QED
      BY <1>2, <2>1 DEF ChecksInv, CheckerInv, Owes
  <1> QED
    BY <1>2 DEF SettingRestored

\* ignore_check_constraints of a connection that no check holds is what it was
\* before any check, unless a check returned an error because a statement that
\* sets it failed (source_constraints.go:30).
THEOREM SettingsRestored ==
    CheckSpec => []SettingRestored
  BY InvRestores, ChecksInvAlways, PTL

\* A check that returns nil saw a file without violations (source_constraints.go:36).
THEOREM NilSound ==
    CheckSpec => []NilMeansSound
  <1>1. ChecksInv => NilMeansSound
    BY DEF ChecksInv, CheckerInv, NilMeansSound
  <1> QED
    BY <1>1, ChecksInvAlways, PTL

=============================================================================
