--------------------------- MODULE AtomicDDLProofs ---------------------------
(***************************************************************************)
(* SchemaModifier implements AtomicDDL: the DDL calls of concurrent        *)
(* callers are all or nothing.                                             *)
(*                                                                         *)
(* First, sequentially: the statements each request and each operation     *)
(* executes, run to their end, have the effect DDLEffects gives it.        *)
(*                                                                         *)
(* Then, concurrently: PendingInv says of a transaction at any point that  *)
(* the statements and operations it still has to execute lead from what it *)
(* sees to the effect of its whole request on the committed catalog.  A    *)
(* transaction that has read nothing yet may begin on any schema, one that *)
(* only read builds on what it read, one that has written on what is       *)
(* committed now: Isolation makes the last two one when the first write    *)
(* comes.  A clean-up whose error is ignored comes right after a write     *)
(* of the same transaction, so it fails only where it has nothing to do;   *)
(* where a file makes it fail all the same (the fault bestEffort), what is *)
(* lost is a marker, and all else is as if it had not (Like).              *)
(*                                                                         *)
(* From the effects then follows what every commit keeps: rows and columns *)
(* (AlterKeeps), and, where no clean-up is lost, the right markers         *)
(* (MarkersFollow, CreationsRoundTrip).                                    *)
(***************************************************************************)
EXTENDS SchemaModifierProofs

-----------------------------------------------------------------------------
(* Running statements.                                                     *)

\* The schemas SQLite can hold.
Sound == {c \in Catalog : WellFormed(c)}

\* What is left of c after a statement, None where the call ends with its error.
Ran(s, c) ==
    IF c = None THEN None
    ELSE IF Legal(s, c) THEN Apply(s, c)
    ELSE IF s.kind \in BestEffortKinds THEN c ELSE None

\* What is left of c after the statements of q.
AfterUpTo(q, c) ==
    LET upTo[n \in 0..Len(q)] == IF n = 0 THEN c ELSE Ran(q[n], upTo[n-1])
    IN upTo

After(q, c) == AfterUpTo(q, c)[Len(q)]

\* The first statements, by their number.
LEMMA AfterDef ==
    ASSUME NEW R, NEW q \in Seq(R), NEW c
    PROVE  /\ AfterUpTo(q, c)[0] = c
           /\ \A i \in 1..Len(q) : AfterUpTo(q, c)[i] = Ran(q[i], AfterUpTo(q, c)[i-1])
<1> DEFINE n == Len(q)
           Is(f, m) == f = [i \in 0..m |-> IF i = 0 THEN c ELSE Ran(q[i], f[i-1])]
           S == {m \in Nat : \E f : Is(f, m)}
<1>0. n \in Nat
  OBVIOUS
<1>1. 0 \in S
  <2>1. Is([i \in 0..0 |-> c], 0)
    OBVIOUS
  <2> QED BY <2>1
<1> HIDE DEF n
<1>2. ASSUME NEW m \in 0..(n-1), m \in S PROVE m + 1 \in S
  <2>1. PICK f : Is(f, m)
    BY <1>2
  <2>2. m \in Nat
    BY <1>0
  <2> DEFINE x == Ran(q[m+1], f[m])
  <2> HIDE DEF x
  <2> DEFINE h == [i \in 0..(m+1) |-> IF i = m + 1 THEN x ELSE f[i]]
  <2>3. h = [i \in 0..(m+1) |-> h[i]] /\ h[m+1] = x /\ \A i \in 0..m : h[i] = f[i]
    BY <2>2
  <2> HIDE DEF h
  <2>4. ASSUME NEW i \in 0..(m+1) PROVE h[i] = IF i = 0 THEN c ELSE Ran(q[i], h[i-1])
    <3>1. CASE i = m + 1
      <4>1. i # 0 /\ i - 1 = m /\ m \in 0..m
        BY <2>2, <3>1
      <4> QED BY <2>3, <3>1, <4>1 DEF x
    <3>2. CASE i # m + 1
      <4>1. i \in 0..m /\ (i # 0 => i - 1 \in 0..m)
        BY <2>2, <3>2
      <4>2. f[i] = IF i = 0 THEN c ELSE Ran(q[i], f[i-1])
        BY <2>1, <4>1
      <4> QED BY <2>3, <4>1, <4>2
    <3> QED BY <3>1, <3>2
  <2>5. Is(h, m + 1)
    BY <2>3, <2>4
  <2> QED BY <2>2, <2>5
<1>3. n \in S
  <2> HIDE DEF S
  <2>1. 0..n \subseteq S
    BY <1>0, <1>1, <1>2, SetInduction
  <2> QED BY <1>0, <2>1
<1> DEFINE f == CHOOSE f : Is(f, n)
<1>4. Is(f, n)
  <2>1. \E h : Is(h, n)
    BY <1>3
  <2> HIDE DEF Is
  <2> QED BY <2>1
<1>5. AfterUpTo(q, c) = f
  BY DEF AfterUpTo, n
<1> HIDE DEF f
<1>6. \A i \in 0..n : f[i] = IF i = 0 THEN c ELSE Ran(q[i], f[i-1])
  BY <1>4
<1> QED BY <1>0, <1>5, <1>6 DEF n

\* Statements run one list after another.
LEMMA AfterConcat ==
    ASSUME NEW R, NEW x \in Seq(R), NEW y \in Seq(R), NEW c
    PROVE  After(x \o y, c) = After(y, After(x, c))
<1> DEFINE m == Len(x)
           n == Len(y)
           u == AfterUpTo(x \o y, c)
           v == AfterUpTo(x, c)
           w == AfterUpTo(y, v[m])
           xy == x \o y
<1>0. m \in Nat /\ n \in Nat /\ xy \in Seq(R) /\ Len(xy) = m + n
      /\ (\A i \in 1..m : xy[i] = x[i]) /\ (\A i \in 1..n : xy[m+i] = y[i])
  OBVIOUS
<1>1. v[0] = c /\ \A i \in 1..m : v[i] = Ran(x[i], v[i-1])
  BY AfterDef
<1>2. w[0] = v[m] /\ \A i \in 1..n : w[i] = Ran(y[i], w[i-1])
  BY AfterDef
<1>3. u[0] = c /\ \A i \in 1..(m+n) : u[i] = Ran(xy[i], u[i-1])
  <2> HIDE DEF m, n, xy
  <2>1. u[0] = c /\ \A i \in 1..Len(xy) : u[i] = Ran(xy[i], u[i-1])
    <3>1. u = AfterUpTo(xy, c)
      BY DEF xy
    <3> HIDE DEF u
    <3>2. /\ AfterUpTo(xy, c)[0] = c
          /\ \A i \in 1..Len(xy) : AfterUpTo(xy, c)[i] = Ran(xy[i], AfterUpTo(xy, c)[i-1])
      <4>1. xy \in Seq(R)
        BY <1>0
      <4> QED BY <4>1, AfterDef
    <3> QED BY <3>1, <3>2
  <2> HIDE DEF u
  <2> QED BY <1>0, <2>1
<1> HIDE DEF u, v, w, xy, m, n
<1> DEFINE S == {i \in 0..m : u[i] = v[i]}
           T == {i \in 0..n : u[m+i] = w[i]}
<1>4. m \in S
  <2>1. 0 \in S
    BY <1>0, <1>1, <1>3
  <2>2. ASSUME NEW i \in 0..(m-1), i \in S PROVE i + 1 \in S
    <3>1. i + 1 \in 1..m /\ i + 1 \in 1..(m+n) /\ (i + 1) - 1 = i
      BY <1>0
    <3>2. u[i+1] = Ran(x[i+1], u[i]) /\ v[i+1] = Ran(x[i+1], v[i])
      BY <1>0, <1>1, <1>3, <3>1
    <3> QED BY <1>0, <2>2, <3>1, <3>2
  <2> HIDE DEF S
  <2>3. 0..m \subseteq S
    BY <1>0, <2>1, <2>2, SetInduction
  <2> QED BY <1>0, <2>3
<1>5. n \in T
  <2>1. 0 \in T
    BY <1>0, <1>2, <1>4
  <2>2. ASSUME NEW i \in 0..(n-1), i \in T PROVE i + 1 \in T
    <3>1. i + 1 \in 1..n /\ m + (i + 1) \in 1..(m+n) /\ (i + 1) - 1 = i /\ (m + (i + 1)) - 1 = m + i
      BY <1>0
    <3>2. u[m+(i+1)] = Ran(y[i+1], u[m+i]) /\ w[i+1] = Ran(y[i+1], w[i])
      BY <1>0, <1>2, <1>3, <3>1
    <3> QED BY <1>0, <2>2, <3>1, <3>2
  <2> HIDE DEF T
  <2>3. 0..n \subseteq T
    BY <1>0, <2>1, <2>2, SetInduction
  <2> QED BY <1>0, <2>3
<1>6. u[m+n] = w[n]
  BY <1>5
<1>7. After(x \o y, c) = u[m+n] /\ After(x, c) = v[m] /\ After(y, v[m]) = w[n]
  BY <1>0 DEF After, u, v, w, m, n, xy
<1> QED BY <1>6, <1>7

\* No statement, and one.
LEMMA AfterFew ==
    ASSUME NEW c
    PROVE  /\ After(<<>>, c) = c
           /\ \A s : After(<<s>>, c) = Ran(s, c)
<1>1. After(<<>>, c) = c
  <2>1. <<>> \in Seq(Statement) /\ Len(<<>>) = 0
    OBVIOUS
  <2> QED BY <2>1, AfterDef DEF After
<1>2. ASSUME NEW s PROVE After(<<s>>, c) = Ran(s, c)
  <2> DEFINE q == <<s>>
  <2>1. q \in Seq({s}) /\ Len(q) = 1 /\ q[1] = s
    OBVIOUS
  <2> HIDE DEF q
  <2>2. AfterUpTo(q, c)[0] = c /\ AfterUpTo(q, c)[1] = Ran(q[1], AfterUpTo(q, c)[1-1])
    <3>1. 1 \in 1..Len(q)
      BY <2>1
    <3> QED BY <2>1, <3>1, AfterDef
  <2>3. After(q, c) = Ran(s, c)
    BY <2>1, <2>2 DEF After
  <2> QED BY <2>3 DEF q
<1> QED BY <1>1, <1>2

\* Statements run from the first.
LEMMA AfterTail ==
    ASSUME NEW R, NEW q \in Seq(R), q # <<>>, NEW c
    PROVE  After(q, c) = After(Tail(q), Ran(Head(q), c))
<1> DEFINE x == <<Head(q)>>
           y == Tail(q)
<1>1. q = x \o y /\ x \in Seq(R) /\ y \in Seq(R)
  OBVIOUS
<1> HIDE DEF x, y
<1>2. After(x \o y, c) = After(y, After(x, c))
  BY <1>1, AfterConcat
<1>3. After(x, c) = Ran(Head(q), c)
  BY AfterFew DEF x
<1> QED BY <1>1, <1>2, <1>3 DEF y

\* Two statements, as an operation of AlterCollection has them.
LEMMA AfterTwo ==
    ASSUME NEW s, NEW t, NEW c
    PROVE  After(<<s, t>>, c) = Ran(t, Ran(s, c))
<1> DEFINE q == <<s, t>>
<1>1. q \in Seq({s, t}) /\ q # <<>> /\ Head(q) = s /\ Tail(q) = <<t>>
  OBVIOUS
<1> HIDE DEF q
<1>2. After(q, c) = After(<<t>>, Ran(s, c))
  BY <1>1, AfterTail
<1>3. After(<<t>>, Ran(s, c)) = Ran(t, Ran(s, c))
  BY AfterFew
<1> QED BY <1>2, <1>3 DEF q

\* Four statements, as ModifyField has them.
LEMMA AfterFour ==
    ASSUME NEW s, NEW t, NEW u, NEW v, NEW c
    PROVE  After(<<s, t, u, v>>, c) = Ran(v, Ran(u, Ran(t, Ran(s, c))))
<1> DEFINE x == <<s, t>>
           y == <<u, v>>
<1>1. <<s, t, u, v>> = x \o y /\ x \in Seq({s, t, u, v}) /\ y \in Seq({s, t, u, v})
  OBVIOUS
<1> HIDE DEF x, y
<1>2. After(x \o y, c) = After(y, After(x, c))
  BY <1>1, AfterConcat
<1>3. After(x, c) = Ran(t, Ran(s, c))
  BY AfterTwo DEF x
<1>4. \A d : After(y, d) = Ran(v, Ran(u, d))
  BY AfterTwo DEF y
<1> QED BY <1>1, <1>2, <1>3, <1>4

\* A statement leaves a schema, or fails.
LEMMA RanTyped ==
    ASSUME NEW s \in Statement, NEW c \in Sound \cup {None}
    PROVE  Ran(s, c) \in Sound \cup {None}
<1>1. SUFFICES ASSUME c \in Sound, Legal(s, c) PROVE Apply(s, c) \in Sound
  BY DEF Ran
<1>2. CASE Noop(s, c)
  BY <1>1, <1>2 DEF Apply
<1>3. CASE ~Noop(s, c)
  BY <1>1, <1>3, EffectiveTyped DEF Apply, Sound
<1> QED BY <1>2, <1>3

\* Statements leave a schema, or fail.
LEMMA AfterTyped ==
    ASSUME NEW q \in Seq(Statement), NEW c \in Sound \cup {None}
    PROVE  After(q, c) \in Sound \cup {None}
<1> DEFINE n == Len(q)
           f == AfterUpTo(q, c)
           S == {i \in 0..n : f[i] \in Sound \cup {None}}
<1>1. n \in Nat /\ f[0] = c /\ \A i \in 1..n : q[i] \in Statement /\ f[i] = Ran(q[i], f[i-1])
  BY AfterDef
<1> HIDE DEF f
<1>2. 0 \in S
  BY <1>1
<1>3. ASSUME NEW i \in 0..(n-1), i \in S PROVE i + 1 \in S
  <2>1. i + 1 \in 1..n /\ (i + 1) - 1 = i
    BY <1>1
  <2>2. q[i+1] \in Statement /\ f[i+1] = Ran(q[i+1], f[i]) /\ f[i] \in Sound \cup {None}
    BY <1>1, <1>3, <2>1
  <2>3. f[i+1] \in Sound \cup {None}
    BY <2>2, RanTyped
  <2> QED BY <2>1, <2>3
<1>4. n \in S
  <2> HIDE DEF S, n
  <2>1. 0..n \subseteq S
    BY <1>1, <1>2, <1>3, SetInduction
  <2> QED BY <1>1, <2>1
<1> QED BY <1>4 DEF After, f, n

\* The first indexes of a definition, by their number.
LEMMA IndexesDef ==
    ASSUME NEW R, NEW idxs \in Seq(R), NEW c, NEW t, NEW ifNot
    PROVE  LET f == IndexesUpTo(c, t, idxs, ifNot) IN
           /\ f[0] = c
           /\ \A i \in 1..Len(idxs) : f[i] = IF f[i-1] = None THEN None
                                             ELSE IndexAdded(f[i-1], t, idxs[i], ifNot)
<1> DEFINE n == Len(idxs)
           Step(x, i) == IF x = None THEN None ELSE IndexAdded(x, t, idxs[i], ifNot)
           Is(f, m) == f = [i \in 0..m |-> IF i = 0 THEN c ELSE IF f[i-1] = None THEN None
                                             ELSE IndexAdded(f[i-1], t, idxs[i], ifNot)]
           S == {m \in Nat : \E f : Is(f, m)}
<1>0. n \in Nat
  OBVIOUS
<1>1. 0 \in S
  <2>1. Is([i \in 0..0 |-> c], 0)
    OBVIOUS
  <2> QED BY <2>1
<1> HIDE DEF n
<1>2. ASSUME NEW m \in 0..(n-1), m \in S PROVE m + 1 \in S
  <2>1. PICK f : Is(f, m)
    BY <1>2
  <2>2. m \in Nat
    BY <1>0
  <2> DEFINE x == Step(f[m], m+1)
  <2> HIDE DEF x
  <2> DEFINE h == [i \in 0..(m+1) |-> IF i = m + 1 THEN x ELSE f[i]]
  <2>3. h = [i \in 0..(m+1) |-> h[i]] /\ h[m+1] = x /\ \A i \in 0..m : h[i] = f[i]
    BY <2>2
  <2> HIDE DEF h
  <2>4. ASSUME NEW i \in 0..(m+1) PROVE h[i] = IF i = 0 THEN c ELSE Step(h[i-1], i)
    <3>0. \A j \in 0..m : f[j] = IF j = 0 THEN c ELSE Step(f[j-1], j)
      BY <2>1
    <3> HIDE DEF Step
    <3>1. CASE i = m + 1
      <4>1. i # 0 /\ i - 1 = m /\ m \in 0..m
        BY <2>2, <3>1
      <4> QED BY <2>3, <3>1, <4>1 DEF x
    <3>2. CASE i # m + 1
      <4>1. i \in 0..m /\ (i # 0 => i - 1 \in 0..m)
        BY <2>2, <3>2
      <4> QED BY <2>3, <3>0, <4>1
    <3> QED BY <3>1, <3>2
  <2>5. Is(h, m + 1)
    BY <2>3, <2>4
  <2> QED BY <2>2, <2>5
<1>3. n \in S
  <2> HIDE DEF S
  <2>1. 0..n \subseteq S
    BY <1>0, <1>1, <1>2, SetInduction
  <2> QED BY <1>0, <2>1
<1> DEFINE f == CHOOSE f : Is(f, n)
<1>4. Is(f, n)
  <2>1. \E h : Is(h, n)
    BY <1>3
  <2> HIDE DEF Is
  <2> QED BY <2>1
<1>5. IndexesUpTo(c, t, idxs, ifNot) = f
  BY DEF IndexesUpTo, n
<1> HIDE DEF f
<1>6. \A i \in 0..n : f[i] = IF i = 0 THEN c ELSE Step(f[i-1], i)
  BY <1>4
<1> HIDE DEF Is
<1> QED BY <1>0, <1>5, <1>6 DEF n

\* The first operations of an alteration, by their number.
LEMMA OpsDef ==
    ASSUME NEW R, NEW ops \in Seq(R), NEW c, NEW t
    PROVE  LET f == OpsUpTo(c, t, ops) IN
           /\ f[0] = c
           /\ \A i \in 1..Len(ops) : f[i] = IF f[i-1] = None THEN None ELSE OpEffect(f[i-1], t, ops[i])
<1> DEFINE n == Len(ops)
           Step(x, i) == IF x = None THEN None ELSE OpEffect(x, t, ops[i])
           Is(f, m) == f = [i \in 0..m |-> IF i = 0 THEN c ELSE IF f[i-1] = None THEN None
                                           ELSE OpEffect(f[i-1], t, ops[i])]
           S == {m \in Nat : \E f : Is(f, m)}
<1>0. n \in Nat
  OBVIOUS
<1>1. 0 \in S
  <2>1. Is([i \in 0..0 |-> c], 0)
    OBVIOUS
  <2> QED BY <2>1
<1> HIDE DEF n
<1>2. ASSUME NEW m \in 0..(n-1), m \in S PROVE m + 1 \in S
  <2>1. PICK f : Is(f, m)
    BY <1>2
  <2>2. m \in Nat
    BY <1>0
  <2> DEFINE x == Step(f[m], m+1)
  <2> HIDE DEF x
  <2> DEFINE h == [i \in 0..(m+1) |-> IF i = m + 1 THEN x ELSE f[i]]
  <2>3. h = [i \in 0..(m+1) |-> h[i]] /\ h[m+1] = x /\ \A i \in 0..m : h[i] = f[i]
    BY <2>2
  <2> HIDE DEF h
  <2>4. ASSUME NEW i \in 0..(m+1) PROVE h[i] = IF i = 0 THEN c ELSE Step(h[i-1], i)
    <3>0. \A j \in 0..m : f[j] = IF j = 0 THEN c ELSE Step(f[j-1], j)
      BY <2>1
    <3> HIDE DEF Step
    <3>1. CASE i = m + 1
      <4>1. i # 0 /\ i - 1 = m /\ m \in 0..m
        BY <2>2, <3>1
      <4> QED BY <2>3, <3>1, <4>1 DEF x
    <3>2. CASE i # m + 1
      <4>1. i \in 0..m /\ (i # 0 => i - 1 \in 0..m)
        BY <2>2, <3>2
      <4> QED BY <2>3, <3>0, <4>1
    <3> QED BY <3>1, <3>2
  <2>5. Is(h, m + 1)
    BY <2>3, <2>4
  <2> QED BY <2>2, <2>5
<1>3. n \in S
  <2> HIDE DEF S
  <2>1. 0..n \subseteq S
    BY <1>0, <1>1, <1>2, SetInduction
  <2> QED BY <1>0, <2>1
<1> DEFINE f == CHOOSE f : Is(f, n)
<1>4. Is(f, n)
  <2>1. \E h : Is(h, n)
    BY <1>3
  <2> HIDE DEF Is
  <2> QED BY <2>1
<1>5. OpsUpTo(c, t, ops) = f
  BY DEF OpsUpTo, n
<1> HIDE DEF f
<1>6. \A i \in 0..n : f[i] = IF i = 0 THEN c ELSE Step(f[i-1], i)
  BY <1>4
<1> HIDE DEF Is
<1> QED BY <1>0, <1>5, <1>6 DEF n

-----------------------------------------------------------------------------
(* The effects of operations.                                             *)

\* The parts of a schema.
LEMMA SoundParts ==
    ASSUME NEW c \in Sound
    PROVE  /\ c \in Catalog /\ WellFormed(c) /\ c # None
           /\ c = [table |-> c.table, index |-> c.index, sidecar |-> c.sidecar, markers |-> c.markers]
           /\ c.table \in [Names -> Table \cup {None}] /\ c.index \in [IndexNames -> Index \cup {None}]
           /\ c.sidecar \in BOOLEAN /\ c.markers \in SUBSET (Names \X Columns)
<1>1. c \in Catalog /\ WellFormed(c)
  BY DEF Sound
<1> QED BY <1>1, NoneAssumption DEF Catalog

\* Marking columns creates the sidecar table if it has to, and cannot fail.
LEMMA MarkEffect ==
    ASSUME NEW c \in Sound, NEW t \in Names, NEW fs \in SUBSET Columns
    PROVE  After(MarkTime(t, fs), c) = Marked(c, t, fs)
<1>1. CASE fs = {}
  BY <1>1, AfterFew DEF MarkTime, Marked
<1>2. CASE fs # {}
  <2> DEFINE s == [kind |-> "sidecar"]
             m == [kind |-> "mark", name |-> t, cols |-> fs]
             d == [c EXCEPT !.sidecar = TRUE]
  <2>1. After(MarkTime(t, fs), c) = Ran(m, Ran(s, c))
    BY <1>2, AfterTwo DEF MarkTime
  <2>2. Ran(s, c) = d
    <3>1. Legal(s, c)
      BY DEF Legal
    <3>2. Apply(s, c) = d
      <4>1. CASE c.sidecar
        <5>1. d = c
          BY <4>1, SoundParts
        <5> QED BY <4>1, <5>1 DEF Apply, Noop
      <4>2. CASE ~c.sidecar
        BY <4>2 DEF Apply, Noop, Effective
      <4> QED BY <4>1, <4>2
    <3> QED BY <3>1, <3>2, SoundParts DEF Ran
  <2>3. d # None /\ d.sidecar /\ d.markers = c.markers
    <3>1. d \in Catalog
      BY SoundParts DEF Catalog
    <3>2. d.sidecar /\ d.markers = c.markers
      BY SoundParts
    <3> QED BY <3>1, <3>2, NoneAssumption
  <2>4. Ran(m, d) = [d EXCEPT !.markers = @ \cup ({t} \X fs)]
    <3> HIDE DEF d
    <3>1. Legal(m, d) /\ ~Noop(m, d)
      BY <2>3 DEF Legal, Noop
    <3>2. Effective(m, d) = [d EXCEPT !.markers = @ \cup ({t} \X fs)]
      BY DEF Effective
    <3> QED BY <2>3, <3>1, <3>2 DEF Ran, Apply
  <2>5. Marked(c, t, fs) = [d EXCEPT !.markers = @ \cup ({t} \X fs)]
    BY <1>2, SoundParts DEF Marked
  <2> QED BY <2>1, <2>2, <2>4, <2>5
<1> QED BY <1>1, <1>2

\* CREATE INDEX adds the index.
LEMMA IndexEffect ==
    ASSUME NEW c \in Sound, NEW t \in Names, NEW idx \in IndexDef, ~CreateIndexFails(idx),
           NEW ifNot \in BOOLEAN, Ran(CreateIndex(idx, t, ifNot), c) # None
    PROVE  Ran(CreateIndex(idx, t, ifNot), c) = IndexAdded(c, t, idx, ifNot)
<1> DEFINE s == CreateIndex(idx, t, ifNot)
           on == IF idx.on = None THEN t ELSE idx.on
<1>1. s.kind = "createIndex" /\ s.name = idx.name /\ s.on = on /\ s.fields = idx.fields /\ s.ifNot = ifNot
  BY DEF CreateIndex
<1>2. idx.fields # {}
  BY DEF CreateIndexFails
<1> HIDE DEF s, on
<1>3. Legal(s, c) /\ Ran(s, c) = Apply(s, c)
  BY <1>1 DEF Ran, s, BestEffortKinds
<1>4. CASE ifNot /\ c.index[idx.name] # None
  <2>1. Noop(s, c)
    BY <1>1, <1>4 DEF Noop
  <2>2. IndexAdded(c, t, idx, ifNot) = c
    BY <1>4 DEF IndexAdded
  <2> QED BY <1>3, <2>1, <2>2 DEF Apply, s
<1>5. CASE ~(ifNot /\ c.index[idx.name] # None)
  <2>1. ~Noop(s, c)
    BY <1>1, <1>5 DEF Noop
  <2>2. c.index[idx.name] = None /\ HasTable(c, on) /\ idx.fields \subseteq ColumnsOf(c.table[on])
    BY <1>1, <1>3, <2>1 DEF Legal
  <2>3. IndexAdded(c, t, idx, ifNot) = [c EXCEPT !.index[idx.name] = [on |-> on, fields |-> idx.fields]]
    BY <1>2, <1>5, <2>2 DEF IndexAdded, HasColumn, on
  <2>4. Apply(s, c) = [c EXCEPT !.index[idx.name] = [on |-> on, fields |-> idx.fields]]
    BY <1>1, <2>1 DEF Apply, Effective
  <2> QED BY <1>3, <2>3, <2>4 DEF s
<1> QED BY <1>4, <1>5

\* AddField adds the column and its marker.
LEMMA AddFieldEffect ==
    ASSUME NEW c \in Sound, NEW t \in Names, NEW o \in AlterOp, o.kind = "addField",
           ~OpBuildFails(o), After(ApplyOp(t, o), c) # None
    PROVE  After(ApplyOp(t, o), c) = OpEffect(c, t, o)
<1> DEFINE s == AddColumn(t, o.field, o.def)
           fs == IF o.def.type = "Time" THEN {o.field} ELSE {}
           d == [c EXCEPT !.table[t].cols[o.field] = ColumnDecl(o.def, FALSE, FALSE, FALSE)]
<1>1. o.field \in Columns /\ o.def \in FieldDef /\ o.def.type # "Null"
  BY AlterOpKinds DEF OpBuildFails, Renderable
<1>2. /\ s.kind = "addColumn" /\ s.name = t /\ s.col = o.field
      /\ s.body = ColumnDecl(o.def, FALSE, FALSE, FALSE)
  BY DEF AddColumn
<1>3. s \in Statement
  <2>1. ColumnDecl(o.def, FALSE, FALSE, FALSE) \in Column
    BY <1>1, ColumnDeclTyped DEF Renderable
  <2> QED BY <1>1, <2>1 DEF AddColumn, Statement
<1>4. After(ApplyOp(t, o), c) = After(MarkTime(t, fs), Ran(s, c))
  <2> DEFINE x == <<s>>
             y == MarkTime(t, fs)
  <2>1. x \in Seq(Statement) /\ y \in Seq(Statement)
    BY <1>1, <1>3, MarkTimeTyped
  <2>2. ApplyOp(t, o) = x \o y
    BY DEF ApplyOp, ApplyAddField
  <2> HIDE DEF x, y, s
  <2>3. After(x \o y, c) = After(y, After(x, c))
    BY <2>1, AfterConcat
  <2>4. After(x, c) = Ran(s, c)
    BY AfterFew DEF x
  <2> QED BY <2>2, <2>3, <2>4 DEF y
<1> HIDE DEF s
<1>5. CASE Ran(s, c) = None
  <2>1. After(MarkTime(t, fs), None) = None
    <3>1. \A x : Ran(x, None) = None
      BY DEF Ran
    <3> QED BY <3>1, AfterFew, AfterTwo DEF MarkTime
  <2> QED BY <1>4, <1>5, <2>1
<1>6. CASE Ran(s, c) # None
  <2>1. Legal(s, c) /\ Ran(s, c) = Apply(s, c) /\ ~Noop(s, c)
    BY <1>2, <1>6 DEF Ran, BestEffortKinds, Noop
  <2>2. HasTable(c, t) /\ ~HasColumn(c, t, o.field)
    BY <1>2, <2>1 DEF Legal
  <2>3. Ran(s, c) = d
    BY <1>2, <2>1 DEF Apply, Effective
  <2>4. d \in Sound
    BY <1>3, <1>6, <2>3, RanTyped
  <2> HIDE DEF d
  <2>5. After(MarkTime(t, fs), d) = Marked(d, t, fs)
    BY <1>1, <2>4, MarkEffect
  <2>6. OpEffect(c, t, o) = Marked(d, t, fs)
    BY <1>1, <2>2 DEF OpEffect, FieldAdded, d
  <2> QED BY <1>4, <2>3, <2>5, <2>6
<1> QED BY <1>5, <1>6

\* DropField drops the column and its marker, sidecar table or not.
LEMMA DropFieldEffect ==
    ASSUME NEW c \in Sound, NEW t \in Names, NEW o \in AlterOp, o.kind = "dropField",
           After(ApplyOp(t, o), c) # None
    PROVE  After(ApplyOp(t, o), c) = OpEffect(c, t, o)
<1> DEFINE s == DropColumn(t, o.field)
           u == [kind |-> "unmark", name |-> t, col |-> o.field]
           d == [c EXCEPT !.table[t].cols[o.field] = None]
<1>1. o.field \in Columns /\ s \in Statement
  BY AlterOpKinds DEF DropColumn, Statement
<1>2. s.kind = "dropColumn" /\ s.name = t /\ s.col = o.field
  BY DEF DropColumn
<1>3. After(ApplyOp(t, o), c) = Ran(u, Ran(s, c))
  BY AfterTwo DEF ApplyOp, ApplyDropField
<1> HIDE DEF s
<1>4. Ran(s, c) # None
  BY <1>3 DEF Ran
<1>5. Legal(s, c) /\ Ran(s, c) = Apply(s, c) /\ ~Noop(s, c)
  BY <1>2, <1>4 DEF Ran, BestEffortKinds, Noop
<1>6. /\ HasColumn(c, t, o.field) /\ o.field \notin KeyOf(c.table[t])
      /\ \A x \in IndexesOn(c, t) : o.field \notin c.index[x].fields
      /\ ColumnsOf(c.table[t]) # {o.field}
  BY <1>2, <1>5 DEF Legal
<1>7. Ran(s, c) = d
  BY <1>2, <1>5 DEF Apply, Effective
<1>8. d \in Sound /\ d # None
  BY <1>1, <1>4, <1>7, RanTyped
<1>9. d.sidecar = c.sidecar /\ d.markers = c.markers
  BY SoundParts
<1>10. OpEffect(c, t, o) = [d EXCEPT !.markers = IF c.sidecar THEN @ \ {<<t, o.field>>} ELSE @]
  BY <1>6, SoundParts DEF OpEffect, FieldDropped
<1> HIDE DEF d
<1>11. CASE c.sidecar
  <2>1. Legal(u, d) /\ ~Noop(u, d)
    BY <1>9, <1>11 DEF Legal, Noop
  <2>2. Effective(u, d) = [d EXCEPT !.markers = @ \ {<<t, o.field>>}]
    BY DEF Effective
  <2> QED BY <1>3, <1>7, <1>8, <1>10, <1>11, <2>1, <2>2 DEF Ran, Apply
<1>12. CASE ~c.sidecar
  <2>1. ~Legal(u, d) /\ u.kind \in BestEffortKinds
    BY <1>9, <1>12 DEF Legal, Noop, BestEffortKinds
  <2>2. [d EXCEPT !.markers = @] = d
    BY <1>8, SoundParts
  <2> QED BY <1>3, <1>7, <1>8, <1>10, <1>12, <2>1, <2>2 DEF Ran
<1> QED BY <1>11, <1>12

\* DropIndex drops the index.
LEMMA DropIndexEffect ==
    ASSUME NEW c \in Sound, NEW t \in Names, NEW o \in AlterOp, o.kind = "dropIndexOp",
           After(ApplyOp(t, o), c) # None
    PROVE  After(ApplyOp(t, o), c) = OpEffect(c, t, o)
<1> DEFINE s == DropIndex(o.name, o.ifExists)
<1>1. s.kind = "dropIndex" /\ s.name = o.name /\ s.ifExists = o.ifExists
  BY DEF DropIndex
<1>2. After(ApplyOp(t, o), c) = Ran(s, c)
  BY AfterFew DEF ApplyOp, ApplyDropIndex
<1>3. o.name \in IndexNames
  BY AlterOpKinds
<1> HIDE DEF s
<1>4. Legal(s, c) /\ Ran(s, c) = Apply(s, c)
  BY <1>1, <1>2 DEF Ran, BestEffortKinds
<1>5. c.index[o.name] # None \/ o.ifExists
  BY <1>1, <1>4 DEF Legal, Noop
<1>6. OpEffect(c, t, o) = [c EXCEPT !.index[o.name] = None]
  BY <1>5 DEF OpEffect, IndexDropped
<1>7. CASE Noop(s, c)
  <2>1. c.index[o.name] = None
    BY <1>1, <1>7 DEF Noop
  <2>2. [c EXCEPT !.index[o.name] = None] = c
    <3>1. [c.index EXCEPT ![o.name] = None] = c.index
      BY <1>3, <2>1, SoundParts
    <3> QED BY <3>1, SoundParts
  <2> QED BY <1>2, <1>4, <1>6, <1>7, <2>2 DEF Apply
<1>8. CASE ~Noop(s, c)
  BY <1>1, <1>2, <1>4, <1>6, <1>8 DEF Apply, Effective
<1> QED BY <1>7, <1>8

\* AddIndex adds the index.
LEMMA AddIndexEffect ==
    ASSUME NEW c \in Sound, NEW t \in Names, NEW o \in AlterOp, o.kind = "addIndex",
           ~OpBuildFails(o), After(ApplyOp(t, o), c) # None
    PROVE  After(ApplyOp(t, o), c) = OpEffect(c, t, o)
<1>1. After(ApplyOp(t, o), c) = Ran(CreateIndex(o.idx, t, o.ifNot), c)
  BY AfterFew DEF ApplyOp, ApplyAddIndex
<1>2. o.idx \in IndexDef /\ o.ifNot \in BOOLEAN
  BY AlterOpKinds
<1>3. OpEffect(c, t, o) = IndexAdded(c, t, o.idx, o.ifNot)
  BY DEF OpEffect, OpBuildFails, CreateIndexFails
<1> QED BY <1>1, <1>2, <1>3, IndexEffect DEF OpBuildFails

\* RenameField renames the column wherever it is used and its marker, unless a
\* left-over marker is in the way: the statement then fails, and is ignored.
LEMMA RenameFieldEffect ==
    ASSUME NEW c \in Sound, NEW t \in Names, NEW o \in AlterOp, o.kind = "renameField",
           After(ApplyOp(t, o), c) # None
    PROVE  After(ApplyOp(t, o), c) = OpEffect(c, t, o)
<1> DEFINE s == RenameColumn(t, o.field, o.new)
           m == [kind |-> "remark", name |-> t, col |-> o.field, new |-> o.new]
           ix == [x \in IndexNames |->
                   IF x \in IndexesOn(c, t) /\ o.field \in c.index[x].fields
                   THEN [c.index[x] EXCEPT !.fields = (@ \ {o.field}) \cup {o.new}]
                   ELSE c.index[x]]
           tb == RenamedColumn(c.table[t], o.field, o.new)
           d == [c EXCEPT !.table[t] = tb, !.index = ix]
<1>1. o.field \in Columns /\ o.new \in Columns /\ s \in Statement
  BY AlterOpKinds DEF RenameColumn, Statement
<1>2. s.kind = "renameColumn" /\ s.name = t /\ s.col = o.field /\ s.new = o.new
  BY DEF RenameColumn
<1>3. After(ApplyOp(t, o), c) = Ran(m, Ran(s, c))
  BY AfterTwo DEF ApplyOp, ApplyRenameField
<1> HIDE DEF s
<1>4. Ran(s, c) # None
  BY <1>3 DEF Ran
<1>5. Legal(s, c) /\ Ran(s, c) = Apply(s, c) /\ ~Noop(s, c)
  BY <1>2, <1>4 DEF Ran, BestEffortKinds, Noop
<1>6. HasColumn(c, t, o.field) /\ (o.new = o.field \/ ~HasColumn(c, t, o.new))
  BY <1>2, <1>5 DEF Legal
<1>7. Ran(s, c) = d
  BY <1>2, <1>5 DEF Apply, Effective
<1>8. d \in Sound /\ d # None
  BY <1>1, <1>4, <1>7, RanTyped
<1>9. d.sidecar = c.sidecar /\ d.markers = c.markers /\ d.index = ix /\ d.table = [c.table EXCEPT ![t] = tb]
  BY SoundParts
<1>10. c.table[t] \in Table /\ \A x \in IndexesOn(c, t) : c.index[x] \in Index
  BY <1>6, SoundParts DEF HasColumn, HasTable, IndexesOn
<1> DEFINE moves == c.sidecar /\ <<t, o.field>> \in c.markers /\ <<t, o.new>> \notin c.markers
           mk == IF moves THEN (c.markers \ {<<t, o.field>>}) \cup {<<t, o.new>>} ELSE c.markers
<1>11. Ran(m, d) = [d EXCEPT !.markers = IF o.new = o.field THEN c.markers ELSE mk]
  <2> HIDE DEF d
  <2>1. ~Noop(m, d)
    BY DEF Noop
  <2>2. Effective(m, d) = [d EXCEPT !.markers = IF <<t, o.field>> \in @
                                  THEN (@ \ {<<t, o.field>>}) \cup {<<t, o.new>>}
                                  ELSE @]
    BY DEF Effective
  <2>3. Legal(m, d) <=> (d.sidecar /\ (<<t, o.field>> \in d.markers /\ o.new # o.field
               => <<t, o.new>> \notin d.markers))
    BY <2>1 DEF Legal
  <2>4. CASE Legal(m, d)
    <3>1. Ran(m, d) = [d EXCEPT !.markers = IF <<t, o.field>> \in c.markers
                                  THEN (c.markers \ {<<t, o.field>>}) \cup {<<t, o.new>>}
                                  ELSE c.markers]
      BY <1>8, <1>9, <2>1, <2>2, <2>4 DEF Ran, Apply
    <3>2. (IF <<t, o.field>> \in c.markers
           THEN (c.markers \ {<<t, o.field>>}) \cup {<<t, o.new>>}
           ELSE c.markers) = IF o.new = o.field THEN c.markers ELSE mk
      BY <1>9, <2>3, <2>4, ZenonT(40)
    <3> QED BY <3>1, <3>2
  <2>5. CASE ~Legal(m, d)
    <3>1. Ran(m, d) = d
      BY <1>8, <2>5 DEF Ran, BestEffortKinds
    <3>2. ~moves
      BY <1>9, <2>3, <2>5
    <3>3. d = [d EXCEPT !.markers = c.markers]
      BY <1>8, <1>9, SoundParts
    <3> QED BY <3>1, <3>2, <3>3
  <2> QED BY <2>4, <2>5
<1>12. CASE o.new = o.field
  <2>1. OpEffect(c, t, o) = c
    BY <1>6, <1>12 DEF OpEffect, FieldRenamed
  <2>2. tb = c.table[t]
    <3>1. [f \in Columns |-> IF f = o.field THEN c.table[t].cols[o.field]
                                           ELSE IF f = o.field THEN None
                                           ELSE c.table[t].cols[f]] = c.table[t].cols
      BY <1>1, <1>10 DEF Table
    <3>2. [i \in DOMAIN c.table[t].pk |-> IF c.table[t].pk[i] = o.field THEN o.field ELSE c.table[t].pk[i]] = c.table[t].pk
      BY <1>10 DEF Table
    <3>3. tb = [c.table[t] EXCEPT !.cols = c.table[t].cols, !.pk = c.table[t].pk]
      BY <1>12, <3>1, <3>2 DEF RenamedColumn
    <3> HIDE DEF tb
    <3> QED BY <1>10, <3>3 DEF Table
  <2>3. ix = c.index
    <3>1. ASSUME NEW x \in IndexNames PROVE ix[x] = c.index[x]
      <4>1. CASE x \in IndexesOn(c, t) /\ o.field \in c.index[x].fields
        <5>1. ix[x] = [c.index[x] EXCEPT !.fields = (c.index[x].fields \ {o.field}) \cup {o.field}]
          BY <1>12, <4>1
        <5>2. (c.index[x].fields \ {o.field}) \cup {o.field} = c.index[x].fields
          BY <4>1
        <5> QED BY <1>10, <4>1, <5>1, <5>2 DEF Index
      <4>2. CASE ~(x \in IndexesOn(c, t) /\ o.field \in c.index[x].fields)
        BY <4>2
      <4> QED BY <4>1, <4>2
    <3> QED BY <3>1, SoundParts
  <2>4. [c.table EXCEPT ![t] = c.table[t]] = c.table
    BY SoundParts
  <2>5. [d EXCEPT !.markers = c.markers] = c
    <3> HIDE DEF d
    <3>1. d.table = c.table /\ d.index = c.index /\ d.sidecar = c.sidecar
      BY <1>9, <2>2, <2>3, <2>4
    <3> QED BY <1>8, <3>1, SoundParts
  <2> HIDE DEF d
  <2> QED BY <1>3, <1>7, <1>11, <1>12, <2>1, <2>5
<1>13. CASE o.new # o.field
  <2> DEFINE swap(f) == IF f = o.field THEN o.new ELSE f
             cl == [c.table[t].cols EXCEPT ![o.new] = c.table[t].cols[o.field], ![o.field] = None]
             pk == [i \in DOMAIN c.table[t].pk |-> swap(c.table[t].pk[i])]
             jx == [x \in IndexNames |->
                            IF x \in IndexesOn(c, t)
                            THEN [c.index[x] EXCEPT !.fields = {swap(f) : f \in @}]
                            ELSE c.index[x]]
  <2>1. OpEffect(c, t, o) = [c EXCEPT !.table[t].cols = cl, !.table[t].pk = pk, !.index = jx, !.markers = mk]
    BY <1>6, <1>13, SoundParts DEF OpEffect, FieldRenamed
  <2>2. tb = [c.table[t] EXCEPT !.cols = cl, !.pk = pk]
    <3>1. cl = [f \in Columns |-> IF f = o.new THEN c.table[t].cols[o.field]
                                           ELSE IF f = o.field THEN None
                                           ELSE c.table[t].cols[f]]
      BY <1>1, <1>10, <1>13 DEF Table
    <3> QED BY <3>1 DEF RenamedColumn
  <2>3. ix = jx
    <3>1. ASSUME NEW x \in IndexNames PROVE ix[x] = jx[x]
      <4>1. CASE x \in IndexesOn(c, t)
        <5>1. c.index[x] \in Index /\ c.index[x].fields \subseteq Columns
          BY <1>10, <4>1 DEF Index
        <5>2. {swap(f) : f \in c.index[x].fields} = IF o.field \in c.index[x].fields
                 THEN (c.index[x].fields \ {o.field}) \cup {o.new} ELSE c.index[x].fields
          OBVIOUS
        <5>3. jx[x] = [c.index[x] EXCEPT !.fields = IF o.field \in c.index[x].fields
                 THEN (c.index[x].fields \ {o.field}) \cup {o.new} ELSE c.index[x].fields]
          BY <4>1, <5>2
        <5>4. [c.index[x] EXCEPT !.fields = c.index[x].fields] = c.index[x]
          BY <5>1 DEF Index
        <5>5. ix[x] = IF o.field \in c.index[x].fields
                      THEN [c.index[x] EXCEPT !.fields = (c.index[x].fields \ {o.field}) \cup {o.new}]
                      ELSE c.index[x]
          BY <4>1
        <5> HIDE DEF ix, jx
        <5> QED BY <5>3, <5>4, <5>5
      <4>2. CASE x \notin IndexesOn(c, t)
        BY <4>2
      <4> QED BY <4>1, <4>2
    <3> QED BY <3>1
  <2>4. [c EXCEPT !.table[t].cols = cl, !.table[t].pk = pk, !.index = jx, !.markers = mk]
           = [c EXCEPT !.table[t] = [c.table[t] EXCEPT !.cols = cl, !.pk = pk], !.index = jx, !.markers = mk]
    <3> HIDE DEF cl, pk, jx, mk
    <3> QED BY SoundParts
  <2>5. [d EXCEPT !.markers = mk] = [c EXCEPT !.table[t] = tb, !.index = ix, !.markers = mk]
    <3> HIDE DEF tb, ix, mk
    <3> QED OBVIOUS
  <2> HIDE DEF d, tb, ix, jx, cl, pk, mk
  <2> QED BY <1>3, <1>7, <1>11, <1>13, <2>1, <2>2, <2>3, <2>4, <2>5
<1> QED BY <1>12, <1>13

\* The statements of an operation other than ModifyField have its effect, if they
\* succeed.
LEMMA ApplyOpEffect ==
    ASSUME NEW c \in Sound, NEW t \in Names, NEW o \in AlterOp, o.kind # "modifyField",
           ~OpBuildFails(o), After(ApplyOp(t, o), c) # None
    PROVE  After(ApplyOp(t, o), c) = OpEffect(c, t, o)
  BY AlterOpKinds, AddFieldEffect, DropFieldEffect, RenameFieldEffect, AddIndexEffect, DropIndexEffect

-----------------------------------------------------------------------------
(* The effect of ModifyField.                                              *)

\* Columns that agree are equal.
LEMMA ColumnsEqual ==
  ASSUME NEW x \in Column, NEW y \in Column, x.decl = y.decl, x.notnull = y.notnull, x.autoinc = y.autoinc, x.want = y.want
  PROVE x = y
BY DEF Column
\* The table ModifyField builds from all the columns of the old one.
LEMMA ModifiedTableIs ==
    ASSUME NEW tb \in Table, KeyOf(tb) \subseteq ColumnsOf(tb), NEW field \in ColumnsOf(tb),
           NEW def \in FieldDef, Renderable(def)
    PROVE  LET mt == ModifiedTable(tb, field, def, ColumnsOf(tb))
               composite == Len(tb.pk) > 1
               inline == tb.pk = <<field>> /\ def.type = "Int" /\ def.autoInc
               portable(k) == SqliteTypeFor(IF k = "OTHER" THEN "String"
                                     ELSE DbschemaTypeFromSQLite(k))
               kept(f) == [tb.cols[f] EXCEPT
                      !.decl = portable(@),
                      !.autoinc = FALSE,
                      !.notnull = IF f \in KeyOf(tb) THEN TRUE ELSE @ /\ ~composite]
           IN  /\ mt.cols = [f \in Columns |->
                   IF f = field
                   THEN ColumnDecl(def, inline, composite, f \in KeyOf(tb))
                   ELSE IF tb.cols[f] = None THEN None ELSE kept(f)]
               /\ mt.pk = tb.pk
               /\ mt.rows = {}
<1> DEFINE seen == ColumnsOf(tb)
           cur == ReadCollectionDefViaTx(tb, seen)
           mod == ModifiedDef(cur, field, def)
           new == TableFor(mod)
           fs == [f \in Columns |->
        IF f \notin seen THEN None
        ELSE [type |-> LET k == DbschemaTypeFromSQLite(tb.cols[f].decl)
                       IN  IF k = "Null" THEN "String" ELSE k,
              nullable |-> ~tb.cols[f].notnull /\ f \notin KeyOf(tb),
              autoInc |-> FALSE]]
           composite == Len(tb.pk) > 1
           inline == tb.pk = <<field>> /\ def.type = "Int" /\ def.autoInc
           portable(k) == SqliteTypeFor(IF k = "OTHER" THEN "String"
                                     ELSE DbschemaTypeFromSQLite(k))
           kept(f) == [tb.cols[f] EXCEPT
                      !.decl = portable(@),
                      !.autoinc = FALSE,
                      !.notnull = IF f \in KeyOf(tb) THEN TRUE ELSE @ /\ ~composite]
           mcols == [f \in Columns |->
                   IF f = field
                   THEN ColumnDecl(def, inline, composite, f \in KeyOf(tb))
                   ELSE IF tb.cols[f] = None THEN None ELSE kept(f)]
           cols == [f \in Columns |->
            IF f = field \/ new.cols[f] = None THEN new.cols[f]
            ELSE [new.cols[f] EXCEPT !.want = tb.cols[f].want]]
           mt == ModifiedTable(tb, field, def, ColumnsOf(tb))
<1>1. tb.pk \in Seq(Columns) /\ field \in Columns /\ tb.cols \in [Columns -> Column \cup {None}]
  BY DEF Table, ColumnsOf
<1>2. KeyRead(tb.pk, seen) = tb.pk
  <2>1. \A i \in DOMAIN tb.pk : tb.pk[i] \in seen
    BY DEF KeyOf
  <2> HIDE DEF seen
  <2> QED BY <1>1, <2>1, KeyReadTyped
<1>3. cur = [fields |-> fs, pk |-> tb.pk, indexes |-> <<>>]
  BY <1>2 DEF ReadCollectionDefViaTx
<1> HIDE DEF cur, fs
<1>4. mod = [fields |-> [fs EXCEPT ![field] = def], pk |-> tb.pk, indexes |-> <<>>]
  BY <1>3 DEF ModifiedDef
<1>5. mod.pk = tb.pk /\ mod.fields = [fs EXCEPT ![field] = def]
  BY <1>4
<1>6. \A f \in Columns : mod.fields[f] = IF f = field THEN def ELSE fs[f]
  BY <1>5 DEF fs
<1>7. \A f \in Columns : IF f \notin seen THEN fs[f] = None
        ELSE /\ fs[f] = [type |-> IF DbschemaTypeFromSQLite(tb.cols[f].decl) = "Null" THEN "String"
                                   ELSE DbschemaTypeFromSQLite(tb.cols[f].decl),
                          nullable |-> ~tb.cols[f].notnull /\ f \notin KeyOf(tb),
                          autoInc |-> FALSE]
  BY DEF fs
<1>8. ASSUME NEW f \in Columns, f \in seen PROVE fs[f] # None
  <2>1. tb.cols[f] \in Column
    BY <1>1, <1>8 DEF ColumnsOf
  <2>2. DbschemaTypeFromSQLite(tb.cols[f].decl) \in Types /\ "String" \in Types
    BY <2>1, ReadTypeTyped DEF Column, Types
  <2> DEFINE k == DbschemaTypeFromSQLite(tb.cols[f].decl)
             ty == IF k = "Null" THEN "String" ELSE k
             nl == ~tb.cols[f].notnull /\ f \notin KeyOf(tb)
  <2>4. ty \in Types /\ nl \in BOOLEAN
    BY <2>2
  <2>5. fs[f] = [type |-> ty, nullable |-> nl, autoInc |-> FALSE]
    BY <1>7, <1>8
  <2> HIDE DEF ty, nl
  <2>3. fs[f] \in FieldDef
    BY <2>4, <2>5 DEF FieldDef
  <2> QED BY <2>3, NoFieldAssumption
<1> HIDE DEF mod
<1>9. new.pk = tb.pk /\ new.rows = {} /\ new.cols = [f \in Columns |->
                 IF mod.fields[f] = None THEN None
                 ELSE ColumnDecl(mod.fields[f],
                                 InlinePK(mod) /\ f = mod.pk[1],
                                 Len(mod.pk) > 1,
                                 f \in {mod.pk[i] : i \in DOMAIN mod.pk})]
  BY <1>5 DEF TableFor
<1>10. \A f \in Columns : new.cols[f] = IF mod.fields[f] = None THEN None
                 ELSE ColumnDecl(mod.fields[f], InlinePK(mod) /\ f = tb.pk[1], composite, f \in KeyOf(tb))
  BY <1>5, <1>9 DEF KeyOf
<1>11. mt = [new EXCEPT !.cols = cols]
  BY DEF ModifiedTable, new, mod, cur
<1> HIDE DEF new
<1>12. ASSUME NEW f \in Columns PROVE cols[f] = mcols[f]
  <2>1. CASE f = field
    <3>1. new.cols[f] = ColumnDecl(def, InlinePK(mod) /\ f = tb.pk[1], composite, f \in KeyOf(tb))
      BY <1>6, <1>10, <2>1, NoFieldAssumption
    <3>2. (InlinePK(mod) /\ f = tb.pk[1]) = inline
      <4>1. Len(tb.pk) = 1 => tb.pk = <<tb.pk[1]>>
        <5>1. \A s \in Seq(Columns) : Len(s) = 1 => s = <<s[1]>>
          OBVIOUS
        <5> QED BY <1>1, <5>1
      <4>2. CASE Len(tb.pk) = 1 /\ f = tb.pk[1]
        <5>1. mod.fields[mod.pk[1]] = def /\ def # None
          BY <1>1, <1>5, <1>6, <2>1, <4>2, NoFieldAssumption
        <5>2. InlinePK(mod) <=> def.type = "Int" /\ def.autoInc
          BY <1>5, <4>2, <5>1 DEF InlinePK, FieldHasAutoIncIntPK
        <5>3. tb.pk = <<field>>
          BY <2>1, <4>1, <4>2
        <5>4. InlinePK(mod) \in BOOLEAN /\ inline \in BOOLEAN
          BY DEF InlinePK
        <5> QED BY <4>2, <5>2, <5>3, <5>4
      <4>3. CASE ~(Len(tb.pk) = 1 /\ f = tb.pk[1])
        <5>1. ~(InlinePK(mod) /\ f = tb.pk[1])
          BY <1>5, <4>3 DEF InlinePK
        <5>2. tb.pk # <<field>>
          BY <2>1, <4>3
        <5> QED BY <5>1, <5>2
      <4> QED BY <4>2, <4>3
    <3>3. cols[f] = new.cols[f] /\ mcols[f] = ColumnDecl(def, inline, composite, f \in KeyOf(tb))
      BY <2>1
    <3> HIDE DEF cols, mcols
    <3> QED BY <3>1, <3>2, <3>3
  <2>2. CASE f # field /\ f \notin seen
    <3>1. tb.cols[f] = None
      BY <2>2 DEF ColumnsOf
    <3>2. new.cols[f] = None
      BY <1>6, <1>7, <1>10, <2>2
    <3> QED BY <2>2, <3>1, <3>2
  <2>3. CASE f # field /\ f \in seen
    <3> DEFINE k == DbschemaTypeFromSQLite(tb.cols[f].decl)
               ty == IF k = "Null" THEN "String" ELSE k
               nl == ~tb.cols[f].notnull /\ f \notin KeyOf(tb)
               fd == [type |-> ty, nullable |-> nl, autoInc |-> FALSE]
    <3>1. tb.cols[f] \in Column /\ tb.cols[f] # None
      BY <1>1, <2>3 DEF ColumnsOf
    <3>2. mod.fields[f] = fd /\ mod.fields[f] # None
      BY <1>6, <1>7, <1>8, <2>3
    <3>3. ~(InlinePK(mod) /\ f = tb.pk[1])
      <4>1. SUFFICES ASSUME InlinePK(mod), f = tb.pk[1] PROVE FALSE
        OBVIOUS
      <4>2. mod.fields[f].autoInc
        BY <1>5, <4>1 DEF InlinePK, FieldHasAutoIncIntPK
      <4>3. fd.autoInc = FALSE
        OBVIOUS
      <4> QED BY <3>2, <4>2, <4>3
    <3>4. new.cols[f] = ColumnDecl(fd, FALSE, composite, f \in KeyOf(tb))
      <4>1. new.cols[f] = ColumnDecl(fd, InlinePK(mod) /\ f = tb.pk[1], composite, f \in KeyOf(tb))
        BY <1>10, <3>2
      <4>2. (InlinePK(mod) /\ f = tb.pk[1]) = FALSE
        BY <3>3
      <4> QED BY <4>1, <4>2
    <3>5. new.cols[f] = [decl |-> SqliteTypeFor(ty),
                         notnull |-> ~nl /\ (~composite \/ f \in KeyOf(tb)),
                         autoinc |-> FALSE, want |-> ty]
      BY <3>4 DEF ColumnDecl
    <3>6. cols[f] = [new.cols[f] EXCEPT !.want = tb.cols[f].want]
      <4>1. new.cols[f] # None
        <5>1. ty \in Creatable
          BY <3>1, ReadTypeTyped DEF Column, Creatable, Types
        <5>2. SqliteTypeFor(ty) \in Keywords /\ ty \in Types
          BY <5>1, SqliteTypeTyped DEF Creatable
        <5>3. new.cols[f] \in Column
          BY <3>5, <5>2 DEF Column
        <5> QED BY <5>3, NoneAssumption
      <4> QED BY <2>3, <4>1
    <3>7. mcols[f] = kept(f)
      BY <2>3, <3>1
    <3>8. portable(tb.cols[f].decl) = SqliteTypeFor(ty)
      <4>1. (IF tb.cols[f].decl = "OTHER" THEN "String" ELSE DbschemaTypeFromSQLite(tb.cols[f].decl)) = ty
        BY <3>1, ReadTypeTyped DEF Column
      <4> QED BY <4>1
    <3>9. tb.cols[f] = [decl |-> tb.cols[f].decl, notnull |-> tb.cols[f].notnull,
                        autoinc |-> tb.cols[f].autoinc, want |-> tb.cols[f].want]
          /\ tb.cols[f].notnull \in BOOLEAN
      BY <3>1 DEF Column
    <3>10. (~nl /\ (~composite \/ f \in KeyOf(tb))) = (IF f \in KeyOf(tb) THEN TRUE ELSE tb.cols[f].notnull /\ ~composite)
      BY <3>9
    <3>11. kept(f) = [decl |-> portable(tb.cols[f].decl),
                      notnull |-> (IF f \in KeyOf(tb) THEN TRUE ELSE tb.cols[f].notnull /\ ~composite),
                      autoinc |-> FALSE, want |-> tb.cols[f].want]
      <4> DEFINE col == tb.cols[f]
                 np == IF f \in KeyOf(tb) THEN TRUE ELSE col.notnull /\ ~composite
                 pp == portable(col.decl)
                 off == FALSE
      <4>1. kept(f) = [col EXCEPT !.decl = pp, !.autoinc = off, !.notnull = np]
        OBVIOUS
      <4>2. col \in Column /\ pp \in Keywords /\ np \in BOOLEAN /\ off \in BOOLEAN
        <5>1. ty \in Creatable
          BY <3>1, ReadTypeTyped DEF Column, Creatable, Types
        <5> QED BY <3>1, <3>8, <3>9, <5>1, SqliteTypeTyped
      <4>3. [col EXCEPT !.decl = pp, !.autoinc = off, !.notnull = np]
              = [decl |-> pp, notnull |-> np, autoinc |-> off, want |-> col.want]
        <5> HIDE DEF col, np, pp, off
        <5> DEFINE e == [col EXCEPT !.decl = pp, !.autoinc = off, !.notnull = np]
                   r == [decl |-> pp, notnull |-> np, autoinc |-> off, want |-> col.want]
        <5>1. e \in Column /\ e.decl = pp /\ e.autoinc = off /\ e.notnull = np /\ e.want = col.want
          BY <4>2 DEF Column
        <5>2. r \in Column /\ r.decl = pp /\ r.autoinc = off /\ r.notnull = np /\ r.want = col.want
          BY <4>2 DEF Column
        <5> HIDE DEF e, r
        <5>3. e = r
          BY <5>1, <5>2, ColumnsEqual
        <5> QED BY <5>3 DEF e, r
      <4> QED BY <4>1, <4>3
    <3>12. cols[f] = [decl |-> SqliteTypeFor(ty),
                         notnull |-> ~nl /\ (~composite \/ f \in KeyOf(tb)),
                         autoinc |-> FALSE, want |-> tb.cols[f].want]
      <4> DEFINE nn == ~nl /\ (~composite \/ f \in KeyOf(tb))
                 dd == SqliteTypeFor(ty)
                 ww == tb.cols[f].want
                 off == FALSE
      <4>1. cols[f] = [[decl |-> dd, notnull |-> nn, autoinc |-> off, want |-> ty] EXCEPT !.want = ww]
        BY <3>5, <3>6
      <4>2. [[decl |-> dd, notnull |-> nn, autoinc |-> off, want |-> ty] EXCEPT !.want = ww]
             = [decl |-> dd, notnull |-> nn, autoinc |-> off, want |-> ww]
        <5> HIDE DEF nn, dd, ww, ty, off
        <5> QED OBVIOUS
      <4> QED BY <4>1, <4>2
    <3> HIDE DEF cols, mcols, kept, portable, ty, nl
    <3> QED BY <3>7, <3>8, <3>10, <3>11, <3>12
  <2> QED BY <2>1, <2>2, <2>3
<1>13. cols = mcols
  BY <1>12
<1> HIDE DEF cols, mcols
<1>14. mt.cols = cols /\ mt.pk = new.pk /\ mt.rows = new.rows
  BY <1>9, <1>11 DEF TableFor, new
<1> QED BY <1>9, <1>13, <1>14 DEF mcols

\* Tables that agree are equal.
LEMMA TablesEqual ==
    ASSUME NEW x \in Table, NEW y \in Table, x.cols = y.cols, x.pk = y.pk, x.rows = y.rows
    PROVE  x = y
  BY DEF Table

\* The four statements of ModifyField redefine one column and keep the rows, the
\* key and the other columns, if they succeed.
LEMMA ModifyFieldEffect ==
    ASSUME NEW c \in Sound, NEW t \in Tables, NEW o \in AlterOp, o.kind = "modifyField",
           HasColumn(c, t, o.field), Renderable(o.def),
           LET tb == c.table[t] IN
           After(ApplyModifyField(t, o, tb, ColumnsOf(tb)), c) # None
    PROVE  LET tb == c.table[t] IN
           After(ApplyModifyField(t, o, tb, ColumnsOf(tb)), c) = OpEffect(c, t, o)
<1> DEFINE tb == c.table[t]
           sc == Scratch[t]
           mt == ModifiedTable(tb, o.field, o.def, ColumnsOf(tb))
           s1 == [kind |-> "createTable", name |-> sc, body |-> mt, ifNot |-> FALSE]
           s2 == [kind |-> "copyRows", name |-> sc, from |-> t, cols |-> ColumnsOf(tb)]
           s3 == DropTable(t, FALSE)
           s4 == [kind |-> "renameTable", name |-> sc, new |-> t]
           c1 == [c EXCEPT !.table[sc] = mt]
           mr == [mt EXCEPT !.rows = @ \cup tb.rows]
           c2 == [c EXCEPT !.table[sc] = mr]
           ix == WithoutIndexesOn(c, t)
           t3 == [c2.table EXCEPT ![t] = None]
           c3 == [c2 EXCEPT !.table = t3, !.index = ix]
           t4 == [c.table EXCEPT ![t] = mr]
           c4 == [c EXCEPT !.table[t] = mr, !.index = ix]
<1>1. /\ t \in Names /\ sc \in Names /\ sc # t
      /\ tb \in Table /\ tb # None /\ o.field \in ColumnsOf(tb) /\ o.def \in FieldDef
      /\ KeyOf(tb) \subseteq ColumnsOf(tb)
  <2>1. t \in Names /\ sc \in Names /\ sc # t /\ o.def \in FieldDef
    BY AlterOpKinds, SchemaModifierAssumption
  <2>2. HasTable(c, t) /\ o.field \in ColumnsOf(tb)
    BY DEF HasColumn
  <2> QED BY <2>1, <2>2, SoundParts DEF HasTable, WellFormed
<1>2. mt \in Table
  BY <1>1, ModifiedTableTyped
<1>3. After(ApplyModifyField(t, o, tb, ColumnsOf(tb)), c) = Ran(s4, Ran(s3, Ran(s2, Ran(s1, c))))
  <2>1. ApplyModifyField(t, o, tb, ColumnsOf(tb)) = <<s1, s2, s3, s4>>
    BY DEF ApplyModifyField
  <2> HIDE DEF s1, s2, s3, s4, tb
  <2> QED BY <2>1, AfterFour
<1>4. Ran(s1, c) # None /\ Ran(s2, Ran(s1, c)) # None /\ Ran(s3, Ran(s2, Ran(s1, c))) # None
      /\ Ran(s4, Ran(s3, Ran(s2, Ran(s1, c)))) # None
  <2>1. \A s : Ran(s, None) = None
    BY DEF Ran
  <2> HIDE DEF s1, s2, s3, s4, tb
  <2> QED BY <1>3, <2>1 DEF tb
<1> HIDE DEF tb, mt
<1>5. ~HasTable(c, sc) /\ Ran(s1, c) = c1
  <2>1. ~Noop(s1, c)
    BY DEF Noop
  <2>2. Legal(s1, c) /\ Ran(s1, c) = Apply(s1, c)
    BY <1>4 DEF Ran, BestEffortKinds
  <2>3. ~HasTable(c, sc)
    BY <2>1, <2>2 DEF Legal
  <2>4. Apply(s1, c) = c1
    BY <2>1 DEF Apply, Effective
  <2> QED BY <2>2, <2>3, <2>4
<1>6. mr \in Table /\ mr.cols = mt.cols /\ mr.pk = mt.pk /\ mr.rows = mt.rows \cup tb.rows
  BY <1>1, <1>2 DEF Table
<1> HIDE DEF mr
<1>7. c1.table = [c.table EXCEPT ![sc] = mt] /\ c1.table[sc] = mt /\ c1.table[t] = tb
  BY <1>1, SoundParts DEF tb
<1>8. Ran(s2, c1) = c2
  <2>1. ~Noop(s2, c1)
    BY DEF Noop
  <2>2. Ran(s2, c1) # None
    BY <1>4, <1>5
  <2>3. Legal(s2, c1) /\ Ran(s2, c1) = Apply(s2, c1)
    <3> HIDE DEF c1
    <3> QED BY <2>2 DEF Ran, BestEffortKinds
  <2>4. Apply(s2, c1) = [c1 EXCEPT !.table[sc].rows = @ \cup c1.table[t].rows]
    BY <2>1 DEF Apply, Effective
  <2>5. [c1 EXCEPT !.table[sc].rows = @ \cup c1.table[t].rows]
         = [c1 EXCEPT !.table[sc] = [c1.table[sc] EXCEPT !.rows = @ \cup c1.table[t].rows]]
    <3> HIDE DEF c1
    <3> QED OBVIOUS
  <2>6. [c1 EXCEPT !.table[sc] = [c1.table[sc] EXCEPT !.rows = @ \cup c1.table[t].rows]]
        = [c1 EXCEPT !.table[sc] = mr]
    <3> HIDE DEF c1
    <3> QED BY <1>7 DEF mr
  <2>7. [c1 EXCEPT !.table[sc] = mr] = c2
    BY SoundParts
  <2> HIDE DEF c1, c2
  <2> QED BY <2>3, <2>4, <2>5, <2>6, <2>7
<1>9. c2 \in Catalog /\ c2.table = [c.table EXCEPT ![sc] = mr] /\ c2.index = c.index
  BY <1>1, <1>6, SoundParts DEF Catalog
<1>10. Ran(s3, c2) = c3
  <2>1. s3.kind = "dropTable" /\ s3.name = t /\ s3.ifExists = FALSE
    BY DEF DropTable
  <2> HIDE DEF s3, c2
  <2>2. ~Noop(s3, c2)
    BY <2>1 DEF Noop
  <2>3. Ran(s3, c2) # None
    BY <1>4, <1>5, <1>8
  <2>4. Ran(s3, c2) = Apply(s3, c2)
    BY <2>1, <2>3 DEF Ran, BestEffortKinds
  <2>5. Apply(s3, c2) = [c2 EXCEPT !.table[t] = None,
                      !.index = [x \in IndexNames |->
                                   IF x \in IndexesOn(c2, t) THEN None ELSE c2.index[x]]]
    BY <2>1, <2>2 DEF Apply, Effective
  <2>6. [x \in IndexNames |-> IF x \in IndexesOn(c2, t) THEN None ELSE c2.index[x]] = ix
    BY <1>9 DEF IndexesOn, WithoutIndexesOn
  <2>7. [c2 EXCEPT !.table[t] = None, !.index = ix] = c3
    <3> HIDE DEF ix
    <3> QED OBVIOUS
  <2> HIDE DEF ix
  <2> QED BY <2>4, <2>5, <2>6, <2>7
<1>11. c3.table = t3 /\ c3.index = ix /\ c3.sidecar = c.sidecar /\ c3.markers = c.markers /\ c3 \in Catalog
  <2>1. ix \in [IndexNames -> Index \cup {None}]
    BY SoundParts DEF WithoutIndexesOn
  <2>2. t3 \in [Names -> Table \cup {None}]
    BY <1>9, <1>1, <1>6, SoundParts
  <2>3. c2.sidecar = c.sidecar /\ c2.markers = c.markers
    BY SoundParts
  <2> HIDE DEF ix, t3, c2
  <2> QED BY <1>9, <2>1, <2>2, <2>3 DEF Catalog
<1>12. Ran(s4, c3) = c4
  <2> DEFINE tn == [n \in Names |-> IF n = t THEN c3.table[sc] ELSE IF n = sc THEN None ELSE c3.table[n]]
             jx == [x \in IndexNames |->
                           IF x \in IndexesOn(c3, sc)
                           THEN [c3.index[x] EXCEPT !.on = t] ELSE c3.index[x]]
  <2>1. ~Noop(s4, c3)
    BY DEF Noop
  <2>2. Ran(s4, c3) # None
    BY <1>4, <1>5, <1>8, <1>10
  <2>3. Ran(s4, c3) = Apply(s4, c3)
    <3> HIDE DEF c3
    <3> QED BY <2>2 DEF Ran, BestEffortKinds
  <2>4. Apply(s4, c3) = [c3 EXCEPT !.table = tn, !.index = jx]
    <3> HIDE DEF c3
    <3> QED BY <2>1 DEF Apply, Effective
  <2>5. tn = t4
    <3>1. ASSUME NEW n \in Names PROVE tn[n] = t4[n]
      <4>1. c.table[sc] = None /\ c.table \in [Names -> Table \cup {None}]
        BY <1>5, SoundParts DEF HasTable
      <4>2. c3.table[n] = IF n = t THEN None ELSE IF n = sc THEN mr ELSE c.table[n]
        BY <1>1, <1>9, <1>11, <4>1
      <4>3. c3.table[sc] = mr
        BY <1>1, <1>9, <1>11, <4>1
      <4> HIDE DEF c3
      <4> QED BY <1>1, <4>1, <4>2, <4>3
    <3> QED BY <3>1, SoundParts
  <2>6. jx = ix
    <3>1. IndexesOn(c3, sc) = {}
      <4>1. \A x \in IndexNames : c.index[x] # None => c.index[x].on # sc
        BY <1>5, SoundParts DEF WellFormed
      <4> HIDE DEF c3
      <4> QED BY <1>11, <4>1 DEF IndexesOn, WithoutIndexesOn
    <3>2. c3.index \in [IndexNames -> Index \cup {None}]
      BY <1>11 DEF Catalog
    <3> HIDE DEF c3, ix
    <3> QED BY <1>11, <3>1, <3>2
  <2>7. [c3 EXCEPT !.table = t4, !.index = ix] = c4
    <3> HIDE DEF ix, mr
    <3> QED BY SoundParts
  <2> HIDE DEF c3, c4, t4, tn, ix, jx
  <2> QED BY <2>3, <2>4, <2>5, <2>6, <2>7
<1> DEFINE composite == Len(tb.pk) > 1
           inline == tb.pk = <<o.field>> /\ o.def.type = "Int" /\ o.def.autoInc
           portable(k) == SqliteTypeFor(IF k = "OTHER" THEN "String"
                                     ELSE DbschemaTypeFromSQLite(k))
           kept(f) == [tb.cols[f] EXCEPT
                      !.decl = portable(@),
                      !.autoinc = FALSE,
                      !.notnull = IF f \in KeyOf(tb) THEN TRUE ELSE @ /\ ~composite]
           mcols == [f \in Columns |->
                   IF f = o.field
                   THEN ColumnDecl(o.def, inline, composite, f \in KeyOf(tb))
                   ELSE IF tb.cols[f] = None THEN None ELSE kept(f)]
<1>13. mt.cols = mcols /\ mt.pk = tb.pk /\ mt.rows = {}
  BY <1>1, ModifiedTableIs, ZenonT(40) DEF mt
<1>14. OpEffect(c, t, o) = [c EXCEPT !.table[t].cols = mcols, !.index = ix]
  <2>1. OpEffect(c, t, o) = FieldModified(c, t, o)
    BY DEF OpEffect
  <2>2. ~(~HasColumn(c, t, o.field) \/ o.def.type = "Null" \/ HasTable(c, sc))
    BY <1>5 DEF Renderable
  <2> QED BY <2>1, <2>2 DEF FieldModified, tb
<1> HIDE DEF mcols
<1>15. [tb EXCEPT !.cols = mcols] = mr
  <2> DEFINE mtb == [tb EXCEPT !.cols = mcols]
  <2>1. mcols \in [Columns -> Column \cup {None}]
    BY <1>2, <1>13 DEF Table
  <2>2. mtb \in Table /\ mtb.cols = mcols /\ mtb.pk = tb.pk /\ mtb.rows = tb.rows
    BY <1>1, <2>1 DEF Table
  <2> HIDE DEF mtb
  <2>3. mtb = mr
    BY <1>6, <1>13, <2>2, TablesEqual
  <2> QED BY <2>3 DEF mtb
<1>16. [c EXCEPT !.table[t].cols = mcols, !.index = ix] = c4
  <2>1. [c EXCEPT !.table[t].cols = mcols, !.index = ix] = [c EXCEPT !.table[t] = [tb EXCEPT !.cols = mcols], !.index = ix]
    <3> HIDE DEF ix
    <3> QED BY DEF tb
  <2> HIDE DEF ix
  <2> QED BY <2>1, <1>15
<1> HIDE DEF c1, c2, c3, c4, s1, s2, s3, s4, ix
<1>17. After(ApplyModifyField(t, o, tb, ColumnsOf(tb)), c) = OpEffect(c, t, o)
  BY <1>3, <1>5, <1>8, <1>10, <1>12, <1>14, <1>16
<1> QED BY <1>17 DEF tb

-----------------------------------------------------------------------------
(* The effects of CreateCollection and DropCollection.                     *)

\* Nothing follows a statement that failed.
LEMMA AfterNone ==
    ASSUME NEW R, NEW q \in Seq(R)
    PROVE  After(q, None) = None
<1> DEFINE n == Len(q)
           f == AfterUpTo(q, None)
           S == {i \in 0..n : f[i] = None}
<1>0. n \in Nat
  OBVIOUS
<1>1. f[0] = None /\ \A i \in 1..n : f[i] = Ran(q[i], f[i-1])
  BY AfterDef
<1> HIDE DEF n, f
<1>2. 0 \in S
  BY <1>0, <1>1
<1>3. ASSUME NEW i \in 0..(n-1), i \in S PROVE i + 1 \in S
  <2>1. i + 1 \in 1..n /\ (i + 1) - 1 = i /\ i + 1 \in 0..n
    BY <1>0
  <2> QED BY <1>1, <1>3, <2>1 DEF Ran
<1>4. n \in S
  <2> HIDE DEF S
  <2>1. 0..n \subseteq S
    BY <1>0, <1>2, <1>3, SetInduction
  <2> QED BY <1>0, <2>1
<1> QED BY <1>4 DEF After, n, f

\* The CREATE INDEX statements of a definition add its indexes.
LEMMA IndexesEffect ==
    ASSUME NEW c \in Sound, NEW t \in Names, NEW ifNot \in BOOLEAN, NEW idxs \in Seq(IndexDef),
           \A i \in DOMAIN idxs : ~CreateIndexFails(idxs[i])
    PROVE  LET y == [i \in 1..Len(idxs) |-> CreateIndex(idxs[i], t, ifNot)]
               d == After(y, c)
           IN  d # None => d \in Sound /\ d = IndexesUpTo(c, t, idxs, ifNot)[Len(idxs)]
<1> DEFINE n == Len(idxs)
           y == [i \in 1..n |-> CreateIndex(idxs[i], t, ifNot)]
           f == AfterUpTo(y, c)
           g == IndexesUpTo(c, t, idxs, ifNot)
           S == {i \in 0..n : f[i] # None => f[i] \in Sound /\ f[i] = g[i]}
<1>0. n \in Nat /\ DOMAIN idxs = 1..n /\ \A i \in 1..n : idxs[i] \in IndexDef
  OBVIOUS
<1>1. \A i \in 1..n : CreateIndex(idxs[i], t, ifNot) \in Statement
  BY <1>0, CreateIndexTyped
<1>2. y \in Seq(Statement) /\ Len(y) = n /\ \A i \in 1..n : y[i] = CreateIndex(idxs[i], t, ifNot)
  <2> HIDE DEF n
  <2> QED BY <1>0, <1>1
<1>3. g[0] = c /\ \A i \in 1..n : g[i] = IF g[i-1] = None THEN None
                                         ELSE IndexAdded(g[i-1], t, idxs[i], ifNot)
  BY IndexesDef
<1> HIDE DEF n, y, g
<1>4. f[0] = c /\ \A i \in 1..n : f[i] = Ran(y[i], f[i-1])
  BY <1>2, AfterDef
<1> HIDE DEF f
<1>5. 0 \in S
  BY <1>0, <1>3, <1>4
<1>6. ASSUME NEW i \in 0..(n-1), i \in S PROVE i + 1 \in S
  <2>1. i + 1 \in 1..n /\ (i + 1) - 1 = i /\ i + 1 \in 0..n
    BY <1>0
  <2>2. SUFFICES ASSUME f[i+1] # None PROVE f[i+1] \in Sound /\ f[i+1] = g[i+1]
    BY <2>1
  <2>3. f[i+1] = Ran(CreateIndex(idxs[i+1], t, ifNot), f[i])
    BY <1>2, <1>4, <2>1
  <2>4. f[i] # None
    BY <2>2, <2>3 DEF Ran
  <2>5. f[i] \in Sound /\ f[i] = g[i]
    BY <1>6, <2>4
  <2>6. f[i+1] = IndexAdded(f[i], t, idxs[i+1], ifNot)
    BY <1>0, <2>1, <2>2, <2>3, <2>5, IndexEffect
  <2>7. f[i+1] \in Sound
    BY <1>1, <2>1, <2>2, <2>3, <2>5, RanTyped
  <2>8. g[i+1] = IndexAdded(g[i], t, idxs[i+1], ifNot)
    BY <1>3, <2>1, <2>4, <2>5
  <2> QED BY <2>5, <2>6, <2>7, <2>8
<1>7. n \in S
  <2> HIDE DEF S
  <2>1. 0..n \subseteq S
    BY <1>0, <1>5, <1>6, SetInduction
  <2> QED BY <1>0, <2>1
<1>8. After(y, c) = f[n]
  BY <1>2 DEF After, f
<1> QED BY <1>7, <1>8 DEF y, n, g

\* The statements of CreateCollection have its effect, if they succeed.
LEMMA CreateEffect ==
    ASSUME NEW c \in Sound, NEW r \in Request, r.op = "create", ~BuildFails(r),
           After(CreateCollection(r), c) # None
    PROVE  After(CreateCollection(r), c) = Effect(r, c)
<1> DEFINE s == CreateTable(r.name, r.def, r.ifNot)
           x == <<s>>
           y == [i \in 1..Len(r.def.indexes) |-> CreateIndex(r.def.indexes[i], r.name, r.ifNot)]
           z == MarkTime(r.name, TimeColumnsOf(r.def))
           with == IF HasTable(c, r.name) THEN c ELSE [c EXCEPT !.table[r.name] = TableFor(r.def)]
           all == IndexesUpTo(with, r.name, r.def.indexes, r.ifNot)[Len(r.def.indexes)]
<1>1. r.name \in Names /\ r.def \in CollectionDef /\ r.ifNot \in BOOLEAN
  BY RequestKinds, SchemaModifierAssumption
<1>2. r.def.indexes \in Seq(IndexDef) /\ \A i \in DOMAIN r.def.indexes : ~CreateIndexFails(r.def.indexes[i])
  BY <1>1 DEF CollectionDef, BuildFails
<1>3. s \in Statement
  <2>1. TableFor(r.def) \in Table
    BY <1>1, TableForTyped DEF BuildFails
  <2> QED BY <1>1, <2>1 DEF CreateTable, Statement
<1>4. s.kind = "createTable" /\ s.name = r.name /\ s.body = TableFor(r.def) /\ s.ifNot = r.ifNot
  BY DEF CreateTable
<1>5. x \in Seq(Statement) /\ y \in Seq(Statement) /\ z \in Seq(Statement)
  <2>1. x \in Seq(Statement)
    BY <1>3
  <2>2. \A i \in 1..Len(r.def.indexes) : CreateIndex(r.def.indexes[i], r.name, r.ifNot) \in Statement
    BY <1>1, <1>2, CreateIndexTyped
  <2>3. y \in Seq(Statement)
    BY <1>2, <2>2
  <2>4. z \in Seq(Statement)
    BY <1>1, MarkTimeTyped DEF TimeColumnsOf, FieldsOf
  <2> QED BY <2>1, <2>3, <2>4
<1>6. CreateCollection(r) = (x \o y) \o z
  BY DEF CreateCollection
<1>7. After(CreateCollection(r), c) = After(z, After(y, Ran(s, c)))
  <2>0. After(x, c) = Ran(s, c)
    BY AfterFew
  <2> HIDE DEF x, y, z, s
  <2>1. x \o y \in Seq(Statement)
    BY <1>5
  <2>2. After(x \o y, c) = After(y, After(x, c))
    BY <1>5, AfterConcat
  <2>3. After((x \o y) \o z, c) = After(z, After(x \o y, c))
    <3> DEFINE xy == x \o y
    <3>1. xy \in Seq(Statement)
      BY <2>1
    <3> HIDE DEF xy
    <3>2. After(xy \o z, c) = After(z, After(xy, c))
      BY <1>5, <3>1, AfterConcat
    <3> QED BY <3>2 DEF xy
  <2> QED BY <1>6, <2>0, <2>2, <2>3
<1> HIDE DEF x, z, s
<1>8. After(y, Ran(s, c)) # None /\ Ran(s, c) # None
  <2> HIDE DEF y
  <2>1. After(y, Ran(s, c)) # None
    BY <1>5, <1>7, AfterNone
  <2> QED BY <1>5, <2>1, AfterNone
<1>9. Legal(s, c) /\ Ran(s, c) = Apply(s, c)
  BY <1>4, <1>8 DEF Ran, BestEffortKinds
<1>10. Ran(s, c) = with /\ ~(HasTable(c, r.name) /\ ~r.ifNot)
  <2>1. CASE Noop(s, c)
    BY <1>4, <1>9, <2>1 DEF Noop, Apply
  <2>2. CASE ~Noop(s, c)
    <3>1. ~HasTable(c, r.name)
      BY <1>4, <1>9, <2>2 DEF Legal
    <3>2. Apply(s, c) = [c EXCEPT !.table[r.name] = TableFor(r.def)]
      BY <1>4, <2>2 DEF Apply, Effective
    <3> QED BY <1>9, <3>1, <3>2
  <2> QED BY <2>1, <2>2
<1>11. with \in Sound
  BY <1>3, <1>8, <1>10, RanTyped
<1> HIDE DEF with
<1>12. After(y, with) \in Sound /\ After(y, with) = all
  BY <1>1, <1>2, <1>8, <1>10, <1>11, IndexesEffect
<1> HIDE DEF y
<1>13. After(z, all) = Marked(all, r.name, TimeColumnsOf(r.def))
  <2> HIDE DEF all
  <2> QED BY <1>1, <1>12, MarkEffect DEF z, TimeColumnsOf, FieldsOf
<1>14. Effect(r, c) = Marked(all, r.name, TimeColumnsOf(r.def))
  <2>1. all # None
    BY <1>8, <1>10, <1>12
  <2>2. Effect(r, c) = Created(r, c)
    BY DEF Effect, BuildFails
  <2>3. Created(r, c) = Marked(all, r.name, {f \in FieldsOf(r.def) : r.def.fields[f].type = "Time"})
    BY <1>10, <2>1 DEF Created, with
  <2> QED BY <2>2, <2>3 DEF TimeColumnsOf
<1> QED BY <1>7, <1>10, <1>12, <1>13, <1>14

\* The clean-up of DropCollection.
Unmark(r) == [kind |-> "unmarkTable", name |-> r.name]

\* DROP TABLE, then the clean-up of the markers, have the effect of DropCollection;
\* where there is nothing to drop, the catalog is left alone.
LEMMA DropEffect ==
    ASSUME NEW c \in Sound, NEW r \in Request, r.op = "drop",
           Legal(DropTable(r.name, r.ifExists), c)
    PROVE  LET s == DropTable(r.name, r.ifExists) IN
           /\ Ran(Unmark(r), Apply(s, c)) = Effect(r, c)
           /\ Noop(s, c) => Apply(s, c) = c /\ LeftAlone(r, c)
<1> DEFINE s == DropTable(r.name, r.ifExists)
           u == Unmark(r)
           t0 == [c.table EXCEPT ![r.name] = None]
           ix == WithoutIndexesOn(c, r.name)
           d == [c EXCEPT !.table = t0, !.index = ix]
           mk == IF c.sidecar THEN {m \in c.markers : m[1] # r.name} ELSE c.markers
<1>1. r.name \in Names /\ s \in Statement
  <2>1. r.name \in Names /\ r.ifExists \in BOOLEAN
    BY RequestKinds, SchemaModifierAssumption
  <2> QED BY <2>1 DEF DropTable, Statement
<1>2. s.kind = "dropTable" /\ s.name = r.name /\ s.ifExists = r.ifExists
  BY DEF DropTable
<1> HIDE DEF s
<1>3. Noop(s, c) => Apply(s, c) = c /\ LeftAlone(r, c)
  BY <1>2 DEF Noop, Apply, LeftAlone
<1>4. Apply(s, c) = d
  <2>1. CASE Noop(s, c)
    <3>1. c.table[r.name] = None
      BY <1>2, <2>1 DEF Noop, HasTable
    <3>2. t0 = c.table
      BY <1>1, <3>1, SoundParts
    <3>3. ix = c.index
      <4>1. \A x \in IndexNames : c.index[x] # None => c.index[x].on # r.name
        BY <3>1, SoundParts DEF WellFormed, HasTable
      <4>2. \A x \in IndexNames : ix[x] = c.index[x]
        BY <4>1 DEF WithoutIndexesOn
      <4>3. ix = [x \in IndexNames |-> ix[x]]
        BY DEF WithoutIndexesOn
      <4> HIDE DEF ix
      <4> QED BY <4>2, <4>3, SoundParts
    <3>4. d = c
      <4> HIDE DEF t0, ix
      <4> QED BY <3>2, <3>3, SoundParts
    <3> QED BY <1>3, <2>1, <3>4
  <2>2. CASE ~Noop(s, c)
    <3>1. Apply(s, c) = [c EXCEPT !.table[r.name] = None,
                      !.index = [x \in IndexNames |->
                                   IF x \in IndexesOn(c, r.name) THEN None ELSE c.index[x]]]
      BY <1>2, <2>2 DEF Apply, Effective
    <3>2. [x \in IndexNames |-> IF x \in IndexesOn(c, r.name) THEN None ELSE c.index[x]] = ix
      BY DEF IndexesOn, WithoutIndexesOn
    <3>3. [c EXCEPT !.table[r.name] = None, !.index = ix] = d
      <4> HIDE DEF ix
      <4> QED OBVIOUS
    <3> HIDE DEF ix
    <3> QED BY <3>1, <3>2, <3>3
  <2> QED BY <2>1, <2>2
<1>5. d \in Catalog /\ d.sidecar = c.sidecar /\ d.markers = c.markers
  <2>1. t0 \in [Names -> Table \cup {None}] /\ ix \in [IndexNames -> Index \cup {None}]
    BY <1>1, SoundParts DEF WithoutIndexesOn
  <2> HIDE DEF t0, ix
  <2> QED BY <2>1, SoundParts DEF Catalog
<1>6. d # None
  BY <1>5, NoneAssumption
<1>7. Effect(r, c) = [d EXCEPT !.markers = mk]
  <2>1. HasTable(c, r.name) \/ r.ifExists
    BY <1>2 DEF Legal, Noop, s
  <2>2. Effect(r, c) = Dropped(r, c)
    BY DEF Effect
  <2>3. Dropped(r, c) = [c EXCEPT !.table[r.name] = None, !.index = ix, !.markers = mk]
    BY <2>1 DEF Dropped
  <2>4. [c EXCEPT !.table[r.name] = None, !.index = ix, !.markers = mk] = [d EXCEPT !.markers = mk]
    <3> HIDE DEF ix, mk
    <3> QED BY SoundParts
  <2> HIDE DEF d, ix, mk
  <2> QED BY <2>2, <2>3, <2>4
<1> HIDE DEF d
<1>8. ~Noop(u, d) /\ u.kind = "unmarkTable" /\ u.name = r.name
  BY DEF Noop, Unmark
<1>9. CASE c.sidecar
  <2>1. Legal(u, d)
    BY <1>5, <1>8, <1>9 DEF Legal
  <2>2. Effective(u, d) = [d EXCEPT !.markers = {m \in @ : m[1] # r.name}]
    BY <1>8 DEF Effective
  <2>3. Ran(u, d) = [d EXCEPT !.markers = {m \in @ : m[1] # r.name}]
    BY <1>6, <1>8, <2>1, <2>2 DEF Ran, Apply
  <2>4. Ran(u, d) = Effect(r, c)
    BY <1>5, <1>7, <1>9, <2>3
  <2> QED BY <1>3, <1>4, <2>4 DEF s
<1>10. CASE ~c.sidecar
  <2>1. ~Legal(u, d) /\ u.kind \in BestEffortKinds
    BY <1>5, <1>8, <1>10 DEF Legal, BestEffortKinds
  <2>2. Ran(u, d) = d
    BY <1>6, <2>1 DEF Ran
  <2>3. [d EXCEPT !.markers = d.markers] = d
    BY <1>5 DEF Catalog
  <2>4. Ran(u, d) = Effect(r, c)
    BY <1>5, <1>7, <1>10, <2>2, <2>3
  <2> QED BY <1>3, <1>4, <2>4 DEF s
<1> QED BY <1>9, <1>10

-----------------------------------------------------------------------------
(* Clean-ups that fail.                                                    *)

\* d is c but for the contents of the marker table.
SameButMarkers(c, d) == d \in Catalog /\ d.table = c.table /\ d.index = c.index

\* d is what c should be: where SQLite may fail a clean-up, markers may be left over.
Like(c, d) == IF "bestEffort" \in Faults THEN SameButMarkers(c, d) ELSE d = c

\* What is like a catalog has its tables and indexes.
LEMMA LikeFacts ==
    ASSUME NEW c \in Catalog
    PROVE  /\ Like(c, c)
           /\ \A d : Like(c, d) => /\ d \in Catalog /\ d # None
                                   /\ d.table = c.table /\ d.index = c.index
  BY NoneAssumption DEF Like, SameButMarkers

\* An operation does to the tables and indexes the same, whatever the markers are.
LEMMA OpEffectLike ==
    ASSUME NEW c \in Catalog, NEW d, Like(c, d), NEW t \in Names, NEW o \in AlterOp,
           OpEffect(c, t, o) \in Catalog
    PROVE  Like(OpEffect(c, t, o), OpEffect(d, t, o))
<1>1. SUFFICES ASSUME SameButMarkers(c, d)
               PROVE  SameButMarkers(OpEffect(c, t, o), OpEffect(d, t, o))
  BY DEF Like
<1>2. /\ c = [table |-> c.table, index |-> c.index, sidecar |-> c.sidecar, markers |-> c.markers]
      /\ d = [table |-> c.table, index |-> c.index, sidecar |-> d.sidecar, markers |-> d.markers]
      /\ d.table = c.table /\ d.index = c.index
      /\ d.sidecar \in BOOLEAN /\ d.markers \in SUBSET (Names \X Columns)
  BY <1>1 DEF SameButMarkers, Catalog
<1>3. OpEffect(c, t, o) # None
  BY NoneAssumption
<1>4. HasTable(d, t) = HasTable(c, t) /\ (\A f : HasColumn(d, t, f) = HasColumn(c, t, f))
      /\ IndexesOn(d, t) = IndexesOn(c, t) /\ WithoutIndexesOn(d, t) = WithoutIndexesOn(c, t)
  BY <1>2 DEF HasTable, HasColumn, IndexesOn, WithoutIndexesOn
<1>5. ASSUME NEW tb, NEW ix, NEW s, s \in BOOLEAN, NEW m, m \in SUBSET (Names \X Columns),
             NEW s0, NEW m0, NEW x \in Catalog, NEW y,
             x = [table |-> tb, index |-> ix, sidecar |-> s0, markers |-> m0],
             y = [table |-> tb, index |-> ix, sidecar |-> s, markers |-> m]
      PROVE  SameButMarkers(x, y)
  <2>1. x.table = tb /\ x.index = ix /\ y.table = tb /\ y.index = ix
    BY <1>5
  <2>2. tb \in [Names -> Table \cup {None}] /\ ix \in [IndexNames -> Index \cup {None}]
    BY <2>1 DEF Catalog
  <2>3. y \in Catalog
    BY <1>5, <2>2, Zenon DEF Catalog
  <2> QED BY <2>1, <2>3 DEF SameButMarkers
<1>6. CASE o.kind = "addField"
  <2> DEFINE tb == [c.table EXCEPT ![t].cols[o.field] = ColumnDecl(o.def, FALSE, FALSE, FALSE)]
             fs == IF o.def.type = "Time" THEN {o.field} ELSE {}
  <2>1. o.field \in Columns
    BY <1>6, AlterOpKinds
  <2>2. OpEffect(c, t, o) = Marked([c EXCEPT !.table = tb], t, fs)
        /\ OpEffect(d, t, o) = Marked([d EXCEPT !.table = tb], t, fs)
    BY <1>2, <1>3, <1>4, <1>6 DEF OpEffect, FieldAdded
  <2> HIDE DEF tb
  <2>3. CASE o.def.type = "Time"
    <3>1. OpEffect(c, t, o) = [table |-> tb, index |-> c.index, sidecar |-> TRUE,
                               markers |-> c.markers \cup ({t} \X {o.field})]
          /\ OpEffect(d, t, o) = [table |-> tb, index |-> c.index, sidecar |-> TRUE,
                               markers |-> d.markers \cup ({t} \X {o.field})]
      BY <1>2, <2>2, <2>3 DEF Marked
    <3>2. d.markers \cup ({t} \X {o.field}) \in SUBSET (Names \X Columns)
      BY <1>2, <2>1
    <3> QED BY <1>5, <3>1, <3>2
  <2>4. CASE o.def.type # "Time"
    <3>1. OpEffect(c, t, o) = [table |-> tb, index |-> c.index, sidecar |-> c.sidecar,
                               markers |-> c.markers]
          /\ OpEffect(d, t, o) = [table |-> tb, index |-> c.index, sidecar |-> d.sidecar,
                               markers |-> d.markers]
      BY <1>2, <2>2, <2>4 DEF Marked
    <3> QED BY <1>2, <1>5, <3>1
  <2> QED BY <2>3, <2>4
<1>7. CASE o.kind = "dropField"
  <2> DEFINE tb == [c.table EXCEPT ![t].cols[o.field] = None]
  <2>1. OpEffect(c, t, o) = [c EXCEPT !.table = tb,
                               !.markers = IF c.sidecar THEN @ \ {<<t, o.field>>} ELSE @]
        /\ OpEffect(d, t, o) = [d EXCEPT !.table = tb,
                               !.markers = IF d.sidecar THEN @ \ {<<t, o.field>>} ELSE @]
    BY <1>2, <1>3, <1>4, <1>7 DEF OpEffect, FieldDropped
  <2> HIDE DEF tb
  <2> DEFINE m0 == IF c.sidecar THEN c.markers \ {<<t, o.field>>} ELSE c.markers
             m == IF d.sidecar THEN d.markers \ {<<t, o.field>>} ELSE d.markers
  <2>2. OpEffect(c, t, o) = [table |-> tb, index |-> c.index, sidecar |-> c.sidecar, markers |-> m0]
        /\ OpEffect(d, t, o) = [table |-> tb, index |-> c.index, sidecar |-> d.sidecar, markers |-> m]
    BY <1>2, <2>1
  <2>3. m \in SUBSET (Names \X Columns)
    BY <1>2
  <2> QED BY <1>2, <1>5, <2>2, <2>3
<1>8. CASE o.kind = "renameField"
  <2> DEFINE swap(f) == IF f = o.field THEN o.new ELSE f
             cl == [c.table[t].cols EXCEPT ![o.new] = c.table[t].cols[o.field], ![o.field] = None]
             pk == [i \in DOMAIN c.table[t].pk |-> swap(c.table[t].pk[i])]
             tb == [c.table EXCEPT ![t] = [c.table[t] EXCEPT !.cols = cl, !.pk = pk]]
             ix == [x \in IndexNames |->
                            IF x \in IndexesOn(c, t)
                            THEN [c.index[x] EXCEPT !.fields = {swap(f) : f \in @}]
                            ELSE c.index[x]]
             moves(e) == e.sidecar /\ <<t, o.field>> \in e.markers /\ <<t, o.new>> \notin e.markers
             mk(e) == IF moves(e) THEN (e.markers \ {<<t, o.field>>}) \cup {<<t, o.new>>} ELSE e.markers
  <2>1. o.field \in Columns /\ o.new \in Columns
    BY <1>8, AlterOpKinds
  <2>2. CASE o.new = o.field
    <3>1. OpEffect(c, t, o) = c /\ OpEffect(d, t, o) = d
      BY <1>2, <1>3, <1>4, <1>8, <2>2 DEF OpEffect, FieldRenamed
    <3> QED BY <1>1, <3>1
  <2>3. CASE o.new # o.field
    <3>0. HasColumn(c, t, o.field) /\ ~HasColumn(c, t, o.new)
      BY <1>3, <1>8, <2>3 DEF OpEffect, FieldRenamed
    <3>1. /\ OpEffect(c, t, o) = [c EXCEPT !.table[t].cols = cl, !.table[t].pk = pk, !.index = ix,
                                           !.markers = mk(c)]
          /\ OpEffect(d, t, o) = [d EXCEPT !.table[t].cols = cl, !.table[t].pk = pk, !.index = ix,
                                           !.markers = mk(d)]
      BY <1>2, <1>4, <1>8, <2>3, <3>0 DEF OpEffect, FieldRenamed
    <3>4. ASSUME NEW e \in Catalog, e.table = c.table, NEW k
          PROVE  [e EXCEPT !.table[t].cols = cl, !.table[t].pk = pk, !.index = ix, !.markers = k]
                    = [table |-> tb, index |-> ix, sidecar |-> e.sidecar, markers |-> k]
      <4> HIDE DEF cl, pk, ix
      <4>1. e.table \in [Names -> Table \cup {None}]
            /\ e = [table |-> e.table, index |-> e.index, sidecar |-> e.sidecar, markers |-> e.markers]
        BY DEF Catalog
      <4>2. [e EXCEPT !.table[t].cols = cl, !.table[t].pk = pk, !.index = ix, !.markers = k]
              = [e EXCEPT !.table = tb, !.index = ix, !.markers = k]
        BY <3>4, <4>1
      <4>3. ASSUME NEW x, NEW y, NEW z, z = [e EXCEPT !.table = x, !.index = y, !.markers = k]
            PROVE  z = [table |-> x, index |-> y, sidecar |-> e.sidecar, markers |-> k]
        BY <4>1, <4>3
      <4> HIDE DEF tb
      <4> QED BY <4>2, <4>3, Zenon
    <3>2. mk(d) \in SUBSET (Names \X Columns)
      BY <1>2, <2>1
    <3> HIDE DEF tb, ix, mk
    <3>3. OpEffect(c, t, o) = [table |-> tb, index |-> ix, sidecar |-> c.sidecar, markers |-> mk(c)]
          /\ OpEffect(d, t, o) = [table |-> tb, index |-> ix, sidecar |-> d.sidecar, markers |-> mk(d)]
      BY <1>1, <1>2, <3>1, <3>4, Zenon DEF SameButMarkers
    <3> QED BY <1>2, <1>5, <3>2, <3>3
  <2> QED BY <2>2, <2>3
<1>9. CASE o.kind = "modifyField"
  <2>1. PICK tb : OpEffect(c, t, o) = [c EXCEPT !.table = tb, !.index = WithoutIndexesOn(c, t)]
                /\ OpEffect(d, t, o) = [d EXCEPT !.table = tb, !.index = WithoutIndexesOn(c, t)]
    <3> DEFINE E(e) == FieldModified(e, t, o)
               P(x, y, tb) == /\ x = [c EXCEPT !.table = tb, !.index = WithoutIndexesOn(c, t)]
                              /\ y = [d EXCEPT !.table = tb, !.index = WithoutIndexesOn(c, t)]
    <3>1. HasTable(d, Scratch[t]) = HasTable(c, Scratch[t])
      BY <1>2 DEF HasTable
    <3>2. HasColumn(c, t, o.field) /\ o.def.type # "Null" /\ ~HasTable(c, Scratch[t])
      BY <1>3, <1>9 DEF OpEffect, FieldModified
    <3>3. \E tb : P(E(c), E(d), tb)
      BY <1>2, <1>4, <3>1, <3>2, ZenonT(40) DEF FieldModified
    <3>4. OpEffect(c, t, o) = E(c) /\ OpEffect(d, t, o) = E(d)
      BY <1>9 DEF OpEffect
    <3> QED BY <3>3, <3>4
  <2>2. OpEffect(c, t, o) = [table |-> tb, index |-> WithoutIndexesOn(c, t), sidecar |-> c.sidecar,
                             markers |-> c.markers]
        /\ OpEffect(d, t, o) = [table |-> tb, index |-> WithoutIndexesOn(c, t), sidecar |-> d.sidecar,
                             markers |-> d.markers]
    BY <1>2, <2>1
  <2> QED BY <1>2, <1>5, <2>2
<1>10. CASE o.kind = "addIndex" \/ o.kind = "dropIndexOp"
  <2>1. PICK ix : OpEffect(c, t, o) = [c EXCEPT !.index = ix] /\ OpEffect(d, t, o) = [d EXCEPT !.index = ix]
    <3>1. CASE o.kind = "addIndex"
      <4> DEFINE on == IF o.idx.on = None THEN t ELSE o.idx.on
      <4>1. \A f : HasColumn(d, on, f) = HasColumn(c, on, f)
        BY <1>2 DEF HasTable, HasColumn
      <4>2. CASE o.ifNot /\ c.index[o.idx.name] # None
        <5>1. OpEffect(c, t, o) = c /\ OpEffect(d, t, o) = d
          BY <1>2, <1>3, <3>1, <4>2 DEF OpEffect, IndexAdded
        <5>2. c = [c EXCEPT !.index = c.index] /\ d = [d EXCEPT !.index = c.index]
          BY <1>2
        <5> QED BY <5>1, <5>2
      <4>3. CASE ~(o.ifNot /\ c.index[o.idx.name] # None)
        <5> DEFINE new == [c.index EXCEPT ![o.idx.name] = [on |-> on, fields |-> o.idx.fields]]
        <5>1. OpEffect(c, t, o) = [c EXCEPT !.index = new] /\ OpEffect(d, t, o) = [d EXCEPT !.index = new]
          BY <1>2, <1>3, <3>1, <4>1, <4>3 DEF OpEffect, IndexAdded
        <5> QED BY <5>1
      <4> QED BY <4>2, <4>3
    <3>2. CASE o.kind = "dropIndexOp"
      <4> DEFINE new == [c.index EXCEPT ![o.name] = None]
      <4>1. OpEffect(c, t, o) = [c EXCEPT !.index = new] /\ OpEffect(d, t, o) = [d EXCEPT !.index = new]
        BY <1>2, <1>3, <3>2 DEF OpEffect, IndexDropped
      <4> QED BY <4>1
    <3> QED BY <1>10, <3>1, <3>2
  <2>2. OpEffect(c, t, o) = [table |-> c.table, index |-> ix, sidecar |-> c.sidecar, markers |-> c.markers]
        /\ OpEffect(d, t, o) = [table |-> c.table, index |-> ix, sidecar |-> d.sidecar, markers |-> d.markers]
    BY <1>2, <2>1
  <2> QED BY <1>2, <1>5, <2>2
<1> QED BY <1>6, <1>7, <1>8, <1>9, <1>10 DEF AlterOp

-----------------------------------------------------------------------------
(* What is left of a call.                                                 *)

\* The operations of an AlterCollection.
OpsOf(r) == IF r.op = "alter" THEN r.ops ELSE <<>>

\* The operations after the first k.
OpsLeft(r, k) == [i \in 1..(Len(OpsOf(r)) - k) |-> OpsOf(r)[i + k]]

\* What the first k operations of a call make of b; a creation has none.
Reached(r, b, k) ==
    IF r.op = "alter" THEN OpsUpTo(b, r.name, r.ops)[k] ELSE Effect(r, b)

\* A clean-up comes last, after a write of its own transaction.
Guarded(q, locked) ==
    /\ q # <<>> /\ Head(q).kind \in BestEffortKinds => locked /\ Len(q) = 1
    /\ \A i \in 2..Len(q) : q[i].kind \in BestEffortKinds =>
          i = Len(q) /\ q[i-1].kind \in {"dropColumn", "renameColumn"}

\* w is left to execute on v: the statements q of the operation that was
\* dispatched last, which lead to what the operations up to it make of b, and
\* the operations after it.
PendingOps(r, b, w, v, locked) ==
    \E k \in 0..Len(OpsOf(r)), q \in Seq(Statement) :
        /\ w = q \o OpsLeft(r, k)
        /\ Guarded(q, locked)
        /\ After(q, v) # None => Like(After(q, v), Reached(r, b, k))

\* DropCollection before, between and after its two statements.
PendingDrop(r, b, w, v, locked) ==
    \/ w = DropCollection(r) /\ v = b
    \/ /\ w = <<Unmark(r)>> /\ Like(Ran(Unmark(r), v), Effect(r, b))
       /\ locked \/ (v = b /\ LeftAlone(r, b))
    \/ w = <<>> /\ \E d \in Outcomes(r, b) : Like(v, d)

Pending(r, b, w, v, locked) ==
    IF r.op = "drop" THEN PendingDrop(r, b, w, v, locked)
    ELSE PendingOps(r, b, w, v, locked)

-----------------------------------------------------------------------------
\* Sequences that agree are equal.
LEMMA SeqsEqual ==
    ASSUME NEW R, NEW x \in Seq(R), NEW y \in Seq(R), NEW n \in Nat, Len(x) = n, Len(y) = n,
           \A i \in 1..n : x[i] = y[i]
    PROVE  x = y
  OBVIOUS

\* The first element of two sequences one after the other.
LEMMA ConcatFacts ==
    ASSUME NEW R, NEW x \in Seq(R), NEW S, NEW y \in Seq(S)
    PROVE  /\ x = <<>> => x \o y = y
           /\ x # <<>> => x \o y # <<>> /\ Head(x \o y) = Head(x) /\ Tail(x \o y) = Tail(x) \o y
                          /\ Tail(x) \in Seq(R) /\ Head(x) \in R
           /\ x \o y = <<>> => x = <<>> /\ y = <<>>
<1>1. x = <<>> => x \o y = y
  OBVIOUS
<1>2. ASSUME x # <<>>
      PROVE  x \o y # <<>> /\ Head(x \o y) = Head(x) /\ Tail(x \o y) = Tail(x) \o y
                          /\ Tail(x) \in Seq(R) /\ Head(x) \in R
  <2>1. x \o y \in Seq(R \cup S) /\ Len(x \o y) = Len(x) + Len(y) /\ Len(x) \in Nat \ {0}
        /\ Len(y) \in Nat
    BY <1>2
  <2>2. Head(x \o y) = Head(x) /\ Tail(x) \in Seq(R) /\ Head(x) \in R /\ x \o y # <<>>
    BY <1>2, <2>1
  <2>3. Tail(x \o y) = Tail(x) \o y
    <3>1. Len(Tail(x \o y)) = Len(x) + Len(y) - 1 /\ Len(Tail(x) \o y) = Len(x) + Len(y) - 1
      BY <2>1, <2>2
    <3>2. ASSUME NEW i \in 1..(Len(x) + Len(y) - 1)
          PROVE  Tail(x \o y)[i] = (Tail(x) \o y)[i]
      BY <2>1, <2>2
    <3>3. Tail(x \o y) \in Seq(R \cup S) /\ Tail(x) \o y \in Seq(R \cup S)
      BY <2>1, <2>2
    <3> QED BY <3>1, <3>2, <3>3
  <2> QED BY <2>2, <2>3
<1>3. x \o y = <<>> => x = <<>> /\ y = <<>>
  BY <1>1, <1>2
<1> QED BY <1>1, <1>2, <1>3

\* The operations left after the first k, and after one more.
LEMMA OpsLeftFacts ==
    ASSUME NEW r \in Request, NEW k \in 0..Len(OpsOf(r))
    PROVE  /\ OpsOf(r) \in Seq(AlterOp) /\ Len(OpsOf(r)) \in Nat
           /\ OpsLeft(r, k) \in Seq(AlterOp) /\ Len(OpsLeft(r, k)) = Len(OpsOf(r)) - k
           /\ OpsLeft(r, 0) = OpsOf(r)
           /\ OpsLeft(r, k) = <<>> <=> k = Len(OpsOf(r))
           /\ k < Len(OpsOf(r)) =>
                /\ r.op = "alter" /\ k + 1 \in 0..Len(OpsOf(r)) /\ k + 1 \in 1..Len(r.ops)
                /\ Head(OpsLeft(r, k)) = r.ops[k+1]
                /\ Tail(OpsLeft(r, k)) = OpsLeft(r, k + 1)
<1> DEFINE ops == OpsOf(r)
           n == Len(ops)
<1>1. ops \in Seq(AlterOp) /\ n \in Nat
  BY RequestKinds DEF OpsOf
<1>2. r.op # "alter" => n = 0
  BY DEF OpsOf
<1>3. r.op = "alter" => ops = r.ops
  BY DEF OpsOf
<1> HIDE DEF ops
<1>4. ASSUME NEW j \in 0..n
      PROVE  OpsLeft(r, j) \in Seq(AlterOp) /\ Len(OpsLeft(r, j)) = n - j
             /\ \A i \in 1..(n - j) : OpsLeft(r, j)[i] = ops[i + j]
  <2>1. OpsLeft(r, j) = [i \in 1..(n - j) |-> ops[i + j]]
    BY DEF OpsLeft, ops
  <2>2. \A i \in 1..(n - j) : ops[i + j] \in AlterOp
    BY <1>1
  <2>3. n - j \in Nat
    BY <1>1
  <2> QED BY <2>1, <2>2, <2>3
<1>5. OpsLeft(r, 0) = ops
  <2>1. 0 \in 0..n
    BY <1>1
  <2> QED BY <1>1, <1>4, <2>1
<1>6. k \in 0..n
  BY DEF ops
<1>7. OpsLeft(r, k) = <<>> <=> k = n
  BY <1>1, <1>4, <1>6
<1>8. ASSUME k < n
      PROVE  /\ r.op = "alter" /\ k + 1 \in 0..n /\ k + 1 \in 1..Len(r.ops)
             /\ Head(OpsLeft(r, k)) = r.ops[k+1]
             /\ Tail(OpsLeft(r, k)) = OpsLeft(r, k + 1)
  <2>1. r.op = "alter" /\ k + 1 \in 0..n /\ k + 1 \in 1..Len(r.ops)
    BY <1>1, <1>2, <1>3, <1>6, <1>8
  <2>2. OpsLeft(r, k) # <<>> /\ 1 \in 1..(n-k) /\ 1 + k = k + 1
    BY <1>1, <1>6, <1>7, <1>8
  <2>3. Head(OpsLeft(r, k)) = r.ops[k+1]
    BY <1>3, <1>4, <1>6, <2>1, <2>2
  <2>4. Len(OpsLeft(r, k+1)) = n - k - 1 /\ Len(Tail(OpsLeft(r, k))) = n - k - 1
    BY <1>1, <1>4, <1>6, <2>1, <2>2
  <2>5. ASSUME NEW i \in 1..(n - k - 1)
        PROVE  Tail(OpsLeft(r, k))[i] = OpsLeft(r, k+1)[i]
    <3>1. i + 1 \in 1..(n - k) /\ i \in 1..(n - (k + 1)) /\ (i + 1) + k = i + (k + 1)
      BY <1>1, <1>6
    <3>2. Tail(OpsLeft(r, k))[i] = OpsLeft(r, k)[i + 1]
      BY <1>4, <1>6, <2>2, <2>4
    <3>3. OpsLeft(r, k)[i + 1] = ops[(i + 1) + k]
      BY <1>4, <1>6, <3>1
    <3>4. OpsLeft(r, k+1)[i] = ops[i + (k + 1)]
      BY <1>4, <2>1, <3>1
    <3> QED BY <3>1, <3>2, <3>3, <3>4
  <2>6. Tail(OpsLeft(r, k)) \in Seq(AlterOp) /\ OpsLeft(r, k+1) \in Seq(AlterOp)
    BY <1>4, <1>6, <2>1, <2>2
  <2>7. Tail(OpsLeft(r, k)) = OpsLeft(r, k + 1)
    <3> DEFINE x == Tail(OpsLeft(r, k))
               y == OpsLeft(r, k + 1)
               m == n - k - 1
    <3>0. m \in Nat
      BY <1>1, <1>6, <1>8
    <3>1. x \in Seq(AlterOp) /\ y \in Seq(AlterOp) /\ Len(x) = m /\ Len(y) = m
      BY <2>4, <2>6
    <3>3. \A i \in 1..m : x[i] = y[i]
      BY <2>5
    <3> HIDE DEF x, y, m
    <3>2. x = y
      BY <3>0, <3>1, <3>3, SeqsEqual
    <3> QED BY <3>2 DEF x, y
  <2> QED BY <2>1, <2>3, <2>7
<1> QED BY <1>1, <1>4, <1>5, <1>6, <1>7, <1>8 DEF ops

\* No statement is an operation.
LEMMA KindsApart ==
    /\ \A s \in Statement : s.kind \notin OpKinds
    /\ \A o \in AlterOp : o.kind \in OpKinds
<1>1. ASSUME NEW s \in Statement PROVE s.kind \notin OpKinds
  BY DEF Statement, OpKinds
<1>2. ASSUME NEW o \in AlterOp PROVE o.kind \in OpKinds
  BY DEF AlterOp, OpKinds
<1> QED BY <1>1, <1>2

\* An operation is next when no statement of the previous one is left.
LEMMA NextIsOp ==
    ASSUME NEW r \in Request, NEW k \in 0..Len(OpsOf(r)), NEW q \in Seq(Statement),
           NEW w, w = q \o OpsLeft(r, k), w # <<>>, Head(w).kind \in OpKinds
    PROVE  /\ q = <<>> /\ k < Len(OpsOf(r)) /\ w = OpsLeft(r, k)
           /\ Head(w) = r.ops[k+1] /\ Head(w) \in AlterOp /\ Tail(w) = OpsLeft(r, k+1)
           /\ r.op = "alter" /\ k + 1 \in 0..Len(OpsOf(r)) /\ k + 1 \in 1..Len(r.ops)
<1> DEFINE y == OpsLeft(r, k)
           n == Len(OpsOf(r))
<1>1. y \in Seq(AlterOp) /\ (y = <<>> <=> k = n) /\ n \in Nat
  BY OpsLeftFacts
<1>2. k < n => /\ r.op = "alter" /\ k + 1 \in 0..n /\ k + 1 \in 1..Len(r.ops)
               /\ Head(y) = r.ops[k+1]
               /\ Tail(y) = OpsLeft(r, k + 1)
  BY OpsLeftFacts
<1> HIDE DEF y
<1>3. q = <<>>
  <2> SUFFICES ASSUME q # <<>> PROVE FALSE
    OBVIOUS
  <2>1. Head(q \o y) = Head(q) /\ Head(q) \in Statement
    BY <1>1, ConcatFacts
  <2> QED BY <2>1, KindsApart DEF y
<1>4. w = y
  BY <1>1, <1>3, ConcatFacts DEF y
<1>5. k < n
  BY <1>1, <1>4
<1>6. Head(w) \in AlterOp
  BY <1>1, <1>4
<1> QED BY <1>2, <1>3, <1>4, <1>5, <1>6 DEF y

\* A statement that is next is the first of its operation's that are left.
LEMMA NextIsStatement ==
    ASSUME NEW r \in Request, NEW k \in 0..Len(OpsOf(r)), NEW q \in Seq(Statement),
           NEW w, w = q \o OpsLeft(r, k), w # <<>>, Head(w).kind \notin OpKinds
    PROVE  /\ q # <<>> /\ Head(w) = Head(q) /\ Head(q) \in Statement
           /\ Tail(q) \in Seq(Statement) /\ Tail(w) = Tail(q) \o OpsLeft(r, k)
<1> DEFINE y == OpsLeft(r, k)
           n == Len(OpsOf(r))
<1>1. y \in Seq(AlterOp)
  BY OpsLeftFacts
<1> HIDE DEF y
<1>2. q # <<>>
  <2> SUFFICES ASSUME q = <<>> PROVE FALSE
    OBVIOUS
  <2>1. w = y
    BY <1>1, ConcatFacts DEF y
  <2>2. Head(w) \in AlterOp
    BY <1>1, <2>1
  <2> QED BY <2>2, KindsApart
<1>3. Head(q \o y) = Head(q) /\ Head(q) \in Statement /\ Tail(q) \in Seq(Statement)
      /\ Tail(q \o y) = Tail(q) \o y
  BY <1>1, <1>2, ConcatFacts
<1> QED BY <1>2, <1>3 DEF y

\* The two statements of DropCollection.
LEMMA DropStatements ==
    ASSUME NEW r \in Request, r.op = "drop"
    PROVE  /\ DropCollection(r) # <<>> /\ Head(DropCollection(r)) = DropTable(r.name, r.ifExists)
           /\ Tail(DropCollection(r)) = <<Unmark(r)>>
           /\ Head(<<Unmark(r)>>) = Unmark(r) /\ Tail(<<Unmark(r)>>) = <<>>
           /\ DropTable(r.name, r.ifExists).kind = "dropTable" /\ Unmark(r).kind = "unmarkTable"
           /\ DropTable(r.name, r.ifExists) \in Statement /\ Unmark(r) \in Statement
<1>1. r.name \in Names /\ r.ifExists \in BOOLEAN
  BY RequestKinds, SchemaModifierAssumption
<1>2. DropTable(r.name, r.ifExists) \in Statement /\ DropTable(r.name, r.ifExists).kind = "dropTable"
  BY <1>1 DEF DropTable, Statement
<1>3. Unmark(r) \in Statement /\ Unmark(r).kind = "unmarkTable"
  BY <1>1 DEF Unmark, Statement
<1>4. DropCollection(r) = <<DropTable(r.name, r.ifExists), Unmark(r)>>
  BY DEF DropCollection, Unmark
<1> QED BY <1>2, <1>3, <1>4

\* A call with nothing left to do has reached an outcome.
LEMMA PendingDone ==
    ASSUME NEW r \in Request, NEW b, NEW v \in Sound, NEW locked, Pending(r, b, <<>>, v, locked)
    PROVE  \E d \in Outcomes(r, b) : Like(v, d)
<1>1. CASE r.op = "drop"
  BY <1>1, DropStatements DEF Pending, PendingDrop
<1>2. CASE r.op # "drop"
  <2>1. PICK k \in 0..Len(OpsOf(r)), q \in Seq(Statement) :
          <<>> = q \o OpsLeft(r, k) /\ (After(q, v) # None => Like(After(q, v), Reached(r, b, k)))
    BY <1>2 DEF Pending, PendingOps
  <2>2. q = <<>> /\ OpsLeft(r, k) = <<>>
    <3> DEFINE y == OpsLeft(r, k)
    <3>1. y \in Seq(AlterOp)
      BY OpsLeftFacts
    <3> HIDE DEF y
    <3>2. q \o y = <<>> => q = <<>> /\ y = <<>>
      BY <3>1, ConcatFacts
    <3> QED BY <2>1, <3>2 DEF y
  <2>3. k = Len(OpsOf(r))
    BY <2>2, OpsLeftFacts
  <2>4. After(q, v) = v /\ v # None
    BY <2>2, AfterFew, SoundParts
  <2>5. Like(v, Effect(r, b))
    <3>1. r.op = "create" \/ r.op = "alter"
      BY <1>2, RequestKinds
    <3>2. Like(v, Reached(r, b, k))
      BY <2>1, <2>4
    <3>3. Reached(r, b, k) = Effect(r, b)
      BY <2>3, <3>1 DEF Reached, Effect, OpsOf
    <3> QED BY <3>2, <3>3
  <2>6. Effect(r, b) # None
    BY <2>5, LikeFacts, SoundParts
  <2> QED BY <2>5, <2>6 DEF Outcomes
<1> QED BY <1>1, <1>2

\* Executing the next statement leaves the rest of the effect to come.  The effect
\* of a clean-up never rests on a statement that only read.
LEMMA PendingExecuted ==
    ASSUME NEW r \in Request, NEW b, NEW w, NEW v \in Sound, NEW locked \in BOOLEAN,
           Pending(r, b, w, v, locked), w # <<>>, Head(w).kind \notin OpKinds, Legal(Head(w), v),
           NEW now \in BOOLEAN, now <=> locked \/ ~Noop(Head(w), v)
    PROVE  Pending(r, b, Tail(w), Apply(Head(w), v), now)
<1> DEFINE s == Head(w)
           d == Apply(s, v)
<1>0. v # None /\ Ran(s, v) = d
  BY SoundParts DEF Ran
<1>1. CASE r.op = "drop"
  <2>1. CASE w = DropCollection(r) /\ v = b
    <3>1. s = DropTable(r.name, r.ifExists) /\ Tail(w) = <<Unmark(r)>>
      BY <1>1, <2>1, DropStatements
    <3>2. Ran(Unmark(r), d) = Effect(r, v) /\ (Noop(s, v) => d = v /\ LeftAlone(r, v))
      BY <1>1, <3>1, DropEffect
    <3>3. Ran(Unmark(r), d) \in Catalog
      <4> DEFINE m == Unmark(r)
      <4>1. m \in Statement /\ m.kind \in BestEffortKinds /\ s \in Statement
        BY <1>1, <3>1, DropStatements DEF BestEffortKinds
      <4>2. d \in Sound
        <5>1. d \in Catalog
          BY <4>1, SoundParts, EffectiveTyped DEF Apply
        <5> QED BY <1>0, <4>1, <5>1, RanTyped, NoneAssumption
      <4> HIDE DEF m, d
      <4>3. d # None
        BY <4>2, SoundParts
      <4>4. CASE Legal(m, d)
        <5>1. Apply(m, d) \in Catalog
          BY <4>1, <4>2, <4>4, SoundParts, EffectiveTyped DEF Apply
        <5> QED BY <4>3, <4>4, <5>1 DEF Ran, m
      <4>5. CASE ~Legal(m, d)
        BY <4>1, <4>2, <4>3, <4>5, SoundParts DEF Ran, m
      <4> QED BY <4>4, <4>5
    <3>4. Like(Ran(Unmark(r), d), Effect(r, v))
      BY <3>2, <3>3, LikeFacts
    <3> QED BY <1>1, <2>1, <3>1, <3>2, <3>4 DEF Pending, PendingDrop
  <2>2. CASE w = <<Unmark(r)>> /\ Like(Ran(Unmark(r), v), Effect(r, b))
    <3>1. s = Unmark(r) /\ Tail(w) = <<>> /\ s \in Statement
      BY <1>1, <2>2, DropStatements
    <3>2. Like(d, Effect(r, b))
      BY <1>0, <2>2, <3>1
    <3>3. d \in Catalog
      BY <3>1, SoundParts, EffectiveTyped DEF Apply
    <3>4. Effect(r, b) \in Outcomes(r, b)
      BY <3>2, <3>3, LikeFacts DEF Outcomes
    <3> QED BY <1>1, <3>1, <3>2, <3>4 DEF Pending, PendingDrop
  <2> QED BY <1>1, <2>1, <2>2 DEF Pending, PendingDrop
<1>2. CASE r.op # "drop"
  <2>1. PICK k \in 0..Len(OpsOf(r)), q \in Seq(Statement) :
          /\ w = q \o OpsLeft(r, k) /\ Guarded(q, locked)
          /\ After(q, v) # None => Like(After(q, v), Reached(r, b, k))
    BY <1>2 DEF Pending, PendingOps
  <2>2. /\ q # <<>> /\ s = Head(q) /\ Head(q) \in Statement
        /\ Tail(q) \in Seq(Statement) /\ Tail(w) = Tail(q) \o OpsLeft(r, k)
    BY <2>1, NextIsStatement, ZenonT(40)
  <2>3. After(q, v) = After(Tail(q), d)
    BY <1>0, <2>2, AfterTail
  <2>4. Guarded(Tail(q), now)
    <3> DEFINE x == Tail(q)
    <3>1. Len(q) \in Nat \ {0} /\ Len(x) = Len(q) - 1 /\ \A i \in 1..Len(x) : x[i] = q[i+1]
      BY <2>2
    <3>2. ASSUME x # <<>>, Head(x).kind \in BestEffortKinds PROVE now /\ Len(x) = 1
      <4>1. Head(x) = q[2] /\ 2 \in 2..Len(q) /\ q[1] = s
        BY <2>2, <3>1, <3>2
      <4>2. \A j \in 2..Len(q) : q[j].kind \in BestEffortKinds =>
                            j = Len(q) /\ q[j-1].kind \in {"dropColumn", "renameColumn"}
        BY <2>1 DEF Guarded
      <4>3. 2 = Len(q) /\ q[2-1].kind \in {"dropColumn", "renameColumn"}
        BY <3>2, <4>1, <4>2
      <4>4. s.kind \in {"dropColumn", "renameColumn"}
        BY <4>1, <4>3
      <4>5. Len(q) = 2
        BY <4>3
      <4>6. Len(x) = Len(q) - 1
        BY <3>1
      <4> HIDE DEF x
      <4>7. Len(x) = 1
        BY <4>5, <4>6
      <4> QED BY <4>4, <4>7 DEF Noop
    <3>3. ASSUME NEW i \in 2..Len(x), x[i].kind \in BestEffortKinds
          PROVE  i = Len(x) /\ x[i-1].kind \in {"dropColumn", "renameColumn"}
      <4>1. x[i] = q[i+1] /\ x[i-1] = q[i] /\ (i+1) - 1 = i /\ i + 1 \in 2..Len(q)
        BY <3>1
      <4>2. \A j \in 2..Len(q) : q[j].kind \in BestEffortKinds =>
                            j = Len(q) /\ q[j-1].kind \in {"dropColumn", "renameColumn"}
        BY <2>1 DEF Guarded
      <4>3. i + 1 = Len(q)
        BY <3>3, <4>1, <4>2
      <4> QED BY <3>1, <3>3, <4>1, <4>2, <4>3
    <3> HIDE DEF x
    <3>4. Guarded(x, now)
      BY <3>2, <3>3 DEF Guarded
    <3> QED BY <3>4 DEF x
  <2> HIDE DEF d
  <2>5. PendingOps(r, b, Tail(w), d, now)
    BY <2>1, <2>2, <2>3, <2>4 DEF PendingOps
  <2> QED BY <1>2, <2>5 DEF Pending, d
<1> QED BY <1>1, <1>2

\* Ignoring the error of a clean-up loses nothing: it had nothing to clean up,
\* unless SQLite fails it for reasons of its own.
LEMMA PendingIgnored ==
    ASSUME NEW r \in Request, NEW b, NEW w, NEW v \in Sound, NEW locked \in BOOLEAN,
           Pending(r, b, w, v, locked), w # <<>>, Head(w).kind \in BestEffortKinds,
           locked => ~Legal(Head(w), v) \/ "bestEffort" \in Faults
    PROVE  Pending(r, b, Tail(w), v, locked)
<1> DEFINE s == Head(w)
<1>0. v # None /\ v \in Catalog /\ s.kind \notin OpKinds
  BY SoundParts DEF BestEffortKinds, OpKinds
<1>1. ASSUME NEW d, s \in Statement, locked, Like(Ran(s, v), d)
      PROVE  Like(v, d)
  <2>1. CASE ~Legal(s, v)
    BY <1>0, <1>1, <2>1 DEF Ran
  <2>2. CASE Legal(s, v)
    <3>1. Ran(s, v) \in Catalog
      BY <1>0, <1>1, <2>2, EffectiveTyped, SoundParts DEF Ran, Apply
    <3>2. Ran(s, v).table = v.table /\ Ran(s, v).index = v.index
      <4>1. ~Noop(s, v)
        BY DEF Noop, BestEffortKinds
      <4>2. Ran(s, v) = Effective(s, v)
        BY <1>0, <2>2, <4>1 DEF Ran, Apply
      <4>3. CASE s.kind = "unmarkTable"
        BY <1>0, <4>2, <4>3 DEF Effective, Catalog
      <4>4. CASE s.kind = "unmark"
        BY <1>0, <4>2, <4>4 DEF Effective, Catalog
      <4>5. CASE s.kind = "remark"
        BY <1>0, <4>2, <4>5 DEF Effective, Catalog
      <4> QED BY <4>3, <4>4, <4>5 DEF BestEffortKinds
    <3>3. SameButMarkers(Ran(s, v), d)
      BY <1>1, <2>2 DEF Like
    <3>4. SameButMarkers(v, d)
      BY <3>2, <3>3 DEF SameButMarkers
    <3> QED BY <1>1, <2>2, <3>4 DEF Like
  <2> QED BY <2>1, <2>2
<1>2. CASE r.op = "drop"
  <2>1. w # DropCollection(r)
    BY <1>2, DropStatements DEF BestEffortKinds
  <2>2. /\ w = <<Unmark(r)>> /\ Like(Ran(Unmark(r), v), Effect(r, b))
        /\ locked \/ (v = b /\ LeftAlone(r, b))
    BY <1>2, <2>1 DEF Pending, PendingDrop
  <2>3. s = Unmark(r) /\ Tail(w) = <<>> /\ s \in Statement
    BY <1>2, <2>2, DropStatements
  <2>4. CASE locked
    <3>1. Like(v, Effect(r, b))
      BY <1>1, <2>2, <2>3, <2>4
    <3>2. Effect(r, b) \in Outcomes(r, b)
      BY <1>0, <3>1, LikeFacts DEF Outcomes
    <3> QED BY <1>2, <2>3, <3>1, <3>2 DEF Pending, PendingDrop
  <2>5. CASE ~locked
    <3>1. v \in Outcomes(r, b)
      BY <2>2, <2>5 DEF Outcomes
    <3> QED BY <1>0, <1>2, <2>3, <3>1, LikeFacts DEF Pending, PendingDrop
  <2> QED BY <2>4, <2>5
<1>3. CASE r.op # "drop"
  <2>1. PICK k \in 0..Len(OpsOf(r)), q \in Seq(Statement) :
          /\ w = q \o OpsLeft(r, k) /\ Guarded(q, locked)
          /\ After(q, v) # None => Like(After(q, v), Reached(r, b, k))
    BY <1>3 DEF Pending, PendingOps
  <2>2. /\ q # <<>> /\ s = Head(q) /\ Head(q) \in Statement
        /\ Tail(q) \in Seq(Statement) /\ Tail(w) = Tail(q) \o OpsLeft(r, k)
    BY <1>0, <2>1, NextIsStatement, ZenonT(40)
  <2>3. locked /\ Len(q) = 1
    BY <2>1, <2>2 DEF Guarded
  <2>4. Tail(q) = <<>>
    <3>1. Len(Tail(q)) = 0
      BY <2>2, <2>3
    <3>2. \A y \in Seq(Statement) : Len(y) = 0 => y = <<>>
      OBVIOUS
    <3> QED BY <2>2, <3>1, <3>2
  <2>5. After(q, v) = Ran(s, v) /\ After(Tail(q), v) = v
    <3>1. After(q, v) = After(Tail(q), Ran(s, v))
      BY <2>2, AfterTail
    <3> QED BY <2>4, <3>1, AfterFew
  <2>6. Ran(s, v) # None
    <3>1. Legal(s, v) => Ran(s, v) \in Catalog
      BY <1>0, <2>2, EffectiveTyped, SoundParts DEF Ran, Apply
    <3> QED BY <1>0, <3>1, NoneAssumption DEF Ran
  <2>7. Like(v, Reached(r, b, k))
    BY <1>1, <2>1, <2>2, <2>3, <2>5, <2>6
  <2>8. Guarded(Tail(q), locked)
    <3>1. Guarded(<<>>, locked)
      BY DEF Guarded
    <3> QED BY <2>4, <3>1
  <2>9. PendingOps(r, b, Tail(w), v, locked)
    BY <2>1, <2>2, <2>5, <2>7, <2>8 DEF PendingOps
  <2> QED BY <1>3, <2>9 DEF Pending
<1> QED BY <1>2, <1>3

\* An operation may be replaced by statements that have its effect.
LEMMA PendingOp ==
    ASSUME NEW r \in Request, NEW b, NEW w, NEW v \in Sound, NEW locked \in BOOLEAN,
           Pending(r, b, w, v, locked), w # <<>>, Head(w).kind \in OpKinds,
           NEW x \in Seq(Statement), \A any : Guarded(x, any),
           After(x, v) # None => After(x, v) = OpEffect(v, r.name, Head(w))
    PROVE  Pending(r, b, x \o Tail(w), v, locked)
<1>1. r.op # "drop"
  BY DropStatements DEF Pending, PendingDrop, OpKinds
<1>2. PICK k \in 0..Len(OpsOf(r)), q \in Seq(Statement) :
        /\ w = q \o OpsLeft(r, k) /\ Guarded(q, locked)
        /\ After(q, v) # None => Like(After(q, v), Reached(r, b, k))
  BY <1>1 DEF Pending, PendingOps
<1>3. /\ q = <<>> /\ Head(w) = r.ops[k+1] /\ Tail(w) = OpsLeft(r, k+1)
      /\ r.op = "alter" /\ k + 1 \in 0..Len(OpsOf(r)) /\ k + 1 \in 1..Len(r.ops)
  BY <1>2, NextIsOp, ZenonT(40)
<1>4. v # None /\ After(q, v) = v
  BY <1>3, AfterFew, SoundParts
<1> DEFINE u == OpsUpTo(b, r.name, r.ops)[k]
<1>5. v \in Catalog /\ Like(v, u) /\ u # None
  <2>1. v \in Catalog /\ Like(v, u)
    BY <1>2, <1>3, <1>4, SoundParts DEF Reached
  <2> QED BY <2>1, LikeFacts
<1>6. OpsUpTo(b, r.name, r.ops)[k+1] = OpEffect(u, r.name, Head(w))
  <2>1. r.ops \in Seq(AlterOp)
    BY <1>3, RequestKinds
  <2>2. \A i \in 1..Len(r.ops) : OpsUpTo(b, r.name, r.ops)[i] =
           IF OpsUpTo(b, r.name, r.ops)[i-1] = None THEN None
           ELSE OpEffect(OpsUpTo(b, r.name, r.ops)[i-1], r.name, r.ops[i])
    BY <2>1, OpsDef
  <2>3. (k + 1) - 1 = k
    OBVIOUS
  <2> QED BY <1>3, <1>5, <2>2, <2>3
<1>7. After(x, v) # None => Like(After(x, v), Reached(r, b, k+1))
  <2> SUFFICES ASSUME After(x, v) # None PROVE Like(After(x, v), Reached(r, b, k+1))
    OBVIOUS
  <2>1. After(x, v) \in Catalog /\ After(x, v) = OpEffect(v, r.name, Head(w))
    BY AfterTyped DEF Sound
  <2>2. Head(w) \in AlterOp /\ r.name \in Names
    BY <1>2, NextIsOp, RequestKinds, SchemaModifierAssumption
  <2> HIDE DEF u
  <2>3. Like(OpEffect(v, r.name, Head(w)), OpEffect(u, r.name, Head(w)))
    BY <1>5, <2>1, <2>2, OpEffectLike
  <2> QED BY <1>3, <1>6, <2>1, <2>3 DEF Reached
<1>8. PendingOps(r, b, x \o Tail(w), v, locked)
  BY <1>3, <1>7 DEF PendingOps
<1> QED BY <1>1, <1>8 DEF Pending

\* What looks like an operation is one.
LEMMA OpPending ==
    ASSUME NEW r \in Request, NEW b, NEW w, NEW v \in Sound, NEW locked \in BOOLEAN,
           Pending(r, b, w, v, locked), w # <<>>, Head(w).kind \in OpKinds
    PROVE  Head(w) \in AlterOp
<1>1. r.op # "drop"
  BY DropStatements DEF Pending, PendingDrop, OpKinds
<1>2. PICK k \in 0..Len(OpsOf(r)), q \in Seq(Statement) : w = q \o OpsLeft(r, k)
  BY <1>1 DEF Pending, PendingOps
<1> QED BY <1>2, NextIsOp

\* Dispatching an operation leaves its effect to come.
LEMMA PendingDispatched ==
    ASSUME NEW r \in Request, NEW b, NEW w, NEW v \in Sound, NEW locked \in BOOLEAN,
           Pending(r, b, w, v, locked), w # <<>>, Head(w).kind \in OpKinds \ {"modifyField"},
           ~OpBuildFails(Head(w))
    PROVE  Pending(r, b, ApplyOp(r.name, Head(w)) \o Tail(w), v, locked)
<1> DEFINE o == Head(w)
           x == ApplyOp(r.name, o)
<1>1. o \in AlterOp /\ r.name \in Names
  BY OpPending, RequestKinds, SchemaModifierAssumption
<1>2. x \in Seq(Statement)
  BY <1>1, ApplyOpTyped
<1>3. After(x, v) # None => After(x, v) = OpEffect(v, r.name, o)
  BY <1>1, ApplyOpEffect
<1>4. ASSUME NEW any PROVE Guarded(x, any)
  <2>1. CASE o.kind = "addField"
    <3> DEFINE a == AddColumn(r.name, o.field, o.def)
               side == [kind |-> "sidecar"]
               m == [kind |-> "mark", name |-> r.name, cols |-> {o.field}]
    <3>1. x = <<a>> \o <<>> \/ x = <<a>> \o <<side, m>>
      BY <2>1 DEF ApplyOp, ApplyAddField, MarkTime
    <3>2. a.kind = "addColumn" /\ side.kind = "sidecar" /\ m.kind = "mark"
      BY DEF AddColumn
    <3> HIDE DEF a, side, m, x
    <3>3. x = <<a>> \/ x = <<a, side, m>>
      BY <3>1
    <3> QED BY <3>2, <3>3 DEF Guarded, BestEffortKinds
  <2>2. CASE o.kind = "dropField"
    BY <2>2 DEF ApplyOp, ApplyDropField, Guarded, DropColumn, BestEffortKinds
  <2>3. CASE o.kind = "renameField"
    BY <2>3 DEF ApplyOp, ApplyRenameField, Guarded, RenameColumn, BestEffortKinds
  <2>4. CASE o.kind = "addIndex"
    BY <2>4 DEF ApplyOp, ApplyAddIndex, Guarded, CreateIndex, BestEffortKinds
  <2>5. CASE o.kind = "dropIndexOp"
    BY <2>5 DEF ApplyOp, ApplyDropIndex, Guarded, DropIndex, BestEffortKinds
  <2> QED BY <2>1, <2>2, <2>3, <2>4, <2>5 DEF OpKinds
<1> HIDE DEF x
<1>5. Pending(r, b, x \o Tail(w), v, locked)
  BY <1>2, <1>3, <1>4, PendingOp
<1> QED BY <1>5 DEF x

\* ModifyField, once it has read every column, has its effect to come.
LEMMA PendingIntrospected ==
    ASSUME NEW r \in Request, NEW b, NEW w, NEW v \in Sound, NEW locked \in BOOLEAN,
           Pending(r, b, w, v, locked), w # <<>>, Head(w).kind = "modifyField",
           HasColumn(v, r.name, Head(w).field), Renderable(Head(w).def)
    PROVE  LET tb == v.table[r.name] IN
           Pending(r, b, ApplyModifyField(r.name, Head(w), tb, ColumnsOf(tb)) \o Tail(w), v, locked)
<1> DEFINE o == Head(w)
           tb == v.table[r.name]
           x == ApplyModifyField(r.name, o, tb, ColumnsOf(tb))
<1>0. Head(w).kind \in OpKinds
  BY DEF OpKinds
<1>1. o \in AlterOp /\ r.name \in Tables /\ r.name \in Names
  BY <1>0, OpPending, RequestKinds, SchemaModifierAssumption
<1>2. x \in Seq(Statement)
  <2>1. tb \in Table
    BY <1>1, SoundParts DEF HasColumn, HasTable
  <2>2. ColumnsOf(tb) \in SUBSET ColumnsOf(tb) /\ o.field \in ColumnsOf(tb)
    BY DEF HasColumn
  <2> QED BY <1>1, <2>1, <2>2, ModifyTyped
<1>3. After(x, v) # None => After(x, v) = OpEffect(v, r.name, o)
  BY <1>1, ModifyFieldEffect
<1>4. ASSUME NEW any PROVE Guarded(x, any)
  BY DEF ApplyModifyField, Guarded, DropTable, BestEffortKinds
<1> HIDE DEF x
<1>5. Pending(r, b, x \o Tail(w), v, locked)
  BY <1>0, <1>2, <1>3, <1>4, PendingOp
<1> QED BY <1>5 DEF x

\* A call that begins has its whole effect to come, of any schema.
LEMMA PendingBegun ==
    ASSUME NEW r \in Request, ~BuildFails(r), NEW c \in Sound
    PROVE  Pending(r, c, Program(r), c, FALSE)
<1>1. CASE r.op = "drop"
  BY <1>1 DEF Pending, PendingDrop, Program
<1>2. CASE r.op = "create"
  <2> DEFINE q == CreateCollection(r)
  <2>1. q \in Seq(Statement)
    BY <1>2, CreateTyped
  <2>2. After(q, c) # None => Like(After(q, c), Effect(r, c))
    BY <1>2, <2>1, CreateEffect, AfterTyped, LikeFacts DEF Sound
  <2>3. \A i \in 1..Len(q) : q[i].kind \notin BestEffortKinds
    <3> DEFINE x == <<CreateTable(r.name, r.def, r.ifNot)>>
               y == [i \in 1..Len(r.def.indexes) |-> CreateIndex(r.def.indexes[i], r.name, r.ifNot)]
               z == MarkTime(r.name, TimeColumnsOf(r.def))
               good == {s \in Statement : s.kind \notin BestEffortKinds}
    <3>1. r.name \in Names /\ r.def \in CollectionDef /\ r.ifNot \in BOOLEAN
          /\ r.def.indexes \in Seq(IndexDef)
      BY <1>2, RequestKinds, SchemaModifierAssumption DEF CollectionDef
    <3>2. x \in Seq(good)
      <4>1. TableFor(r.def) \in Table
        BY <1>2, <3>1, TableForTyped DEF BuildFails
      <4> QED BY <3>1, <4>1 DEF CreateTable, Statement, BestEffortKinds
    <3>3. y \in Seq(good)
      <4>1. \A i \in 1..Len(r.def.indexes) : r.def.indexes[i] \in IndexDef /\ Len(r.def.indexes) \in Nat
        BY <3>1
      <4>2. \A i \in 1..Len(r.def.indexes) : CreateIndex(r.def.indexes[i], r.name, r.ifNot) \in good
        <5> TAKE i \in 1..Len(r.def.indexes)
        <5>1. CreateIndex(r.def.indexes[i], r.name, r.ifNot) \in Statement
          BY <3>1, <4>1, CreateIndexTyped
        <5>2. CreateIndex(r.def.indexes[i], r.name, r.ifNot).kind = "createIndex"
          BY DEF CreateIndex
        <5> QED BY <5>1, <5>2 DEF BestEffortKinds
      <4>3. Len(r.def.indexes) \in Nat
        BY <3>1
      <4> HIDE DEF good
      <4> QED BY <4>2, <4>3
    <3>4. z \in Seq(good)
      <4>1. z \in Seq(Statement)
        BY <3>1, MarkTimeTyped DEF TimeColumnsOf, FieldsOf
      <4> DEFINE side == [kind |-> "sidecar"]
                 m == [kind |-> "mark", name |-> r.name, cols |-> TimeColumnsOf(r.def)]
      <4>2. z = <<>> \/ z = <<side, m>>
        BY DEF MarkTime
      <4>3. side.kind = "sidecar" /\ m.kind = "mark"
        OBVIOUS
      <4>4. \A i \in 1..Len(z) : z[i] = side \/ z[i] = m
        <5> HIDE DEF side, m, z
        <5> QED BY <4>2
      <4>5. \A i \in 1..Len(z) : z[i] \in Statement /\ z[i].kind \notin BestEffortKinds
        <5> HIDE DEF z, side, m
        <5> QED BY <4>1, <4>3, <4>4 DEF BestEffortKinds
      <4> HIDE DEF z
      <4> QED BY <4>1, <4>5
    <3>5. q = (x \o y) \o z
      BY DEF CreateCollection
    <3> HIDE DEF x, y, z, good, q
    <3>6. q \in Seq(good)
      BY <3>2, <3>3, <3>4, <3>5
    <3>7. \A i \in 1..Len(q) : q[i] \in good
      BY <3>6
    <3> QED BY <3>7 DEF good
  <2>4. Guarded(q, FALSE)
    <3> HIDE DEF q
    <3>1. q # <<>> => Head(q) = q[1] /\ 1 \in 1..Len(q)
      BY <2>1
    <3>2. \A i \in 2..Len(q) : i \in 1..Len(q)
      BY <2>1
    <3> QED BY <2>3, <3>1, <3>2 DEF Guarded
  <2>5. 0 \in 0..Len(OpsOf(r)) /\ OpsLeft(r, 0) = <<>>
    <3>1. OpsOf(r) = <<>>
      BY <1>2 DEF OpsOf
    <3>2. 0 \in 0..Len(OpsOf(r))
      BY <3>1
    <3> QED BY <3>1, <3>2, OpsLeftFacts
  <2>6. Reached(r, c, 0) = Effect(r, c)
    BY <1>2 DEF Reached
  <2> HIDE DEF q
  <2>7. q = q \o <<>>
    BY <2>1
  <2>8. PendingOps(r, c, q, c, FALSE)
    BY <2>1, <2>2, <2>4, <2>5, <2>6, <2>7 DEF PendingOps
  <2> QED BY <1>2, <2>8 DEF Pending, Program, q
<1>3. CASE r.op = "alter"
  <2>1. r.ops \in Seq(AlterOp) /\ OpsOf(r) = r.ops
    BY <1>3, RequestKinds DEF OpsOf
  <2>2. 0 \in 0..Len(OpsOf(r))
    BY <2>1
  <2>3. OpsLeft(r, 0) = r.ops
    BY <2>1, <2>2, OpsLeftFacts
  <2>4. <<>> \o r.ops = r.ops
    BY <2>1
  <2>5. After(<<>>, c) = c /\ Reached(r, c, 0) = c /\ Like(c, c)
    BY <1>3, <2>1, AfterFew, OpsDef, LikeFacts, SoundParts DEF Reached
  <2>6. Guarded(<<>>, FALSE) /\ <<>> \in Seq(Statement)
    BY DEF Guarded
  <2>7. PendingOps(r, c, r.ops, c, FALSE)
    BY <2>2, <2>3, <2>4, <2>5, <2>6 DEF PendingOps
  <2> QED BY <1>3, <2>7 DEF Pending, Program
<1> QED BY <1>1, <1>2, <1>3, RequestKinds

-----------------------------------------------------------------------------
(* The invariant: the effect of every running call is still to come.       *)

\* What a caller that runs still has to do: from the catalog it will change.
PendingAt(p) ==
    CASE lock[p] = "none"     -> \A c \in Sound : Pending(req[p], c, todo[p], c, FALSE)
      [] lock[p] = "shared"   -> Pending(req[p], view[p], todo[p], view[p], FALSE)
      [] lock[p] = "reserved" -> Pending(req[p], db, todo[p], view[p], TRUE)

\* A call does what it was asked for, from the beginning on.
WillTakeEffect(p) ==
    /\ pc[p] = "begin" => todo[p] = Program(req[p]) /\ ~BuildFails(req[p]) /\ tx[p] = "none"
    /\ pc[p] = "run" /\ Alive(p) => PendingAt(p)

PendingInv ==
    /\ LockInv /\ TypeInv
    /\ \A p \in Callers : WillTakeEffect(p)

Step(p) == Start(p) \/ CallerStep(p) \/ Cancel(p) \/ Watcher(p) \/ ConnCloses(p)

\* A caller's step leaves the rest of the callers where they are.
LEMMA OthersKept ==
    ASSUME TypeOK, NEW p \in Callers, NEW q \in Callers, q # p, Step(p)
    PROVE  /\ pc'[q] = pc[q] /\ req'[q] = req[q] /\ todo'[q] = todo[q] /\ tx'[q] = tx[q]
           /\ lock'[q] = lock[q] /\ view'[q] = view[q] /\ cancelled'[q] = cancelled[q]
           /\ result'[q] = result[q]
<1>1. CASE Start(p)
  BY <1>1 DEF TypeOK, Start, Finish, txVars
<1>2. CASE Begin(p) \/ BeginFails(p)
  BY <1>2 DEF TypeOK, Begin, BeginFails, Finish, txVars
<1>3. CASE Dispatch(p) \/ IntrospectFails(p)
  BY <1>3 DEF TypeOK, Dispatch, IntrospectFails, Fail, txVars
<1>4. CASE Introspect(p)
  BY <1>4 DEF TypeOK, Introspect, Fail
<1>5. CASE Execute(p) \/ ExecuteFails(p)
  BY <1>5 DEF TypeOK, Execute, ExecuteFails, Fail, txVars
<1>6. CASE Commit(p) \/ CommitFails(p) \/ CommitCancelled(p)
  BY <1>6 DEF TypeOK, Commit, CommitFails, CommitCancelled, Finish, Release, LeftOpen, txVars
<1>7. CASE Rollback(p)
  BY <1>7 DEF TypeOK, Rollback, Finish, Release, txVars
<1>8. CASE Cancel(p) \/ AutoRollback(p) \/ AutoRollbackDone(p) \/ ConnCloses(p)
  BY <1>8 DEF TypeOK, Cancel, AutoRollback, AutoRollbackDone, ConnCloses, Release, txVars
<1> QED BY <1>1, <1>2, <1>3, <1>4, <1>5, <1>6, <1>7, <1>8 DEF Step, CallerStep, Watcher

\* Only the commit of a transaction that wrote changes the catalog.
LEMMA CatalogKept ==
    ASSUME NEW p \in Callers, Step(p), ~(Commit(p) /\ lock[p] = "reserved")
    PROVE  db' = db
  BY DEF Step, CallerStep, Watcher, Start, Begin, BeginFails, Dispatch, Introspect,
         IntrospectFails, Execute, ExecuteFails, Commit, CommitFails, CommitCancelled,
         Rollback, Cancel, AutoRollback, AutoRollbackDone, ConnCloses

\* What a caller still has to do is not disturbed by another caller's step: the
\* catalog does not change under a transaction that writes.
LEMMA OthersPending ==
    ASSUME PendingInv, NEW p \in Callers, NEW q \in Callers, q # p, Step(p)
    PROVE  WillTakeEffect(q)'
<1>1. /\ pc'[q] = pc[q] /\ req'[q] = req[q] /\ todo'[q] = todo[q] /\ tx'[q] = tx[q]
      /\ lock'[q] = lock[q] /\ view'[q] = view[q] /\ cancelled'[q] = cancelled[q]
  BY OthersKept DEF PendingInv, TypeInv
<1>2. lock[q] = "reserved" => db' = db
  BY CatalogKept DEF PendingInv, LockInv, Isolation
<1>3. WillTakeEffect(q)
  BY DEF PendingInv
<1>4. lock[q] \in {"none", "shared", "reserved"}
  BY DEF PendingInv, LockInv, TxTypes
<1>5. pc[q] = "run" /\ Alive(q) => PendingAt(q)'
  <2> SUFFICES ASSUME pc[q] = "run" /\ Alive(q) PROVE PendingAt(q)'
    OBVIOUS
  <2>1. PendingAt(q)
    BY <1>3 DEF WillTakeEffect
  <2>2. CASE lock[q] = "none"
    BY <1>1, <2>1, <2>2 DEF PendingAt
  <2>3. CASE lock[q] = "shared"
    BY <1>1, <2>1, <2>3 DEF PendingAt
  <2>4. CASE lock[q] = "reserved"
    BY <1>1, <1>2, <2>1, <2>4 DEF PendingAt
  <2> QED BY <1>4, <2>2, <2>3, <2>4
<1> QED BY <1>1, <1>3, <1>5 DEF WillTakeEffect, Alive

\* What a running caller sees, by its lock.
LEMMA RunParts ==
    ASSUME PendingInv, NEW p \in Callers, pc[p] # "idle"
    PROVE  /\ req[p] \in Request /\ req[p] \in Requests /\ Seen(p) \in Sound /\ db \in Sound
           /\ lock[p] \in {"none", "shared", "reserved"}
           /\ lock[p] = "none" => Seen(p) = db
           /\ lock[p] # "none" => Seen(p) = view[p] /\ view[p] \in Sound
           /\ lock[p] = "shared" /\ ~stale[p] => view[p] = db
           /\ lock[p] = "reserved" => MayWrite(p)
<1>1. req[p] \in Request /\ req[p] \in Requests
  BY SchemaModifierAssumption DEF PendingInv, TypeInv
<1>2. Seen(p) \in Sound /\ db \in Sound
  BY SeenTyped DEF PendingInv, TypeInv, TypeOK, Sound
<1> QED BY <1>1, <1>2 DEF PendingInv, LockInv, TxTypes, Isolation, Seen, MayWrite

\* Begin.
LEMMA BeginPending ==
    ASSUME PendingInv, NEW p \in Callers, Begin(p)
    PROVE  WillTakeEffect(p)'
<1>1. pc[p] = "begin" /\ lock[p] = "none"
  BY DEF Begin, PendingInv, WillTakeEffect, LockInv
<1>2. todo[p] = Program(req[p]) /\ ~BuildFails(req[p]) /\ req[p] \in Request
  BY <1>1, RunParts DEF PendingInv, WillTakeEffect
<1>3. \A c \in Sound : Pending(req[p], c, todo[p], c, FALSE)
  BY <1>2, PendingBegun
<1>4. pc'[p] = "run" /\ UNCHANGED <<req, todo, lock>>
  BY DEF Begin, PendingInv, TypeInv, TypeOK
<1>5. PendingAt(p)'
  BY <1>1, <1>3, <1>4 DEF PendingAt
<1> QED BY <1>4, <1>5 DEF WillTakeEffect

\* Dispatch.
LEMMA DispatchPending ==
    ASSUME PendingInv, NEW p \in Callers, Dispatch(p)
    PROVE  WillTakeEffect(p)'
<1> DEFINE o == Head(todo[p])
           next == ApplyOp(req[p].name, o) \o Tail(todo[p])
<1>1. pc[p] = "run" /\ todo[p] # <<>> /\ o.kind \in OpKinds \ {"modifyField"}
      /\ UNCHANGED <<db, req, tx, lock, stale, view, cancelled>>
  BY DEF Dispatch, txVars
<1>2. CASE OpBuildFails(o)
  <2>1. pc'[p] = "failed"
    BY <1>2 DEF Dispatch, Fail, PendingInv, TypeInv, TypeOK
  <2> QED BY <2>1 DEF WillTakeEffect
<1>3. CASE ~OpBuildFails(o)
  <2>1. pc'[p] = "run" /\ todo'[p] = next
    BY <1>1, <1>3 DEF Dispatch, PendingInv, TypeInv, TypeOK
  <2>2. SUFFICES ASSUME Alive(p) PROVE PendingAt(p)'
    BY <1>1, <2>1 DEF WillTakeEffect, Alive
  <2>3. PendingAt(p)
    BY <1>1, <2>2 DEF PendingInv, WillTakeEffect
  <2>4. ASSUME NEW b, NEW v \in Sound, NEW locked \in BOOLEAN, Pending(req[p], b, todo[p], v, locked)
        PROVE  Pending(req[p], b, next, v, locked)
    BY <1>1, <1>3, <2>4, RunParts, PendingDispatched
  <2> HIDE DEF next
  <2>5. CASE lock[p] = "none"
    BY <1>1, <2>1, <2>3, <2>4, <2>5 DEF PendingAt
  <2>6. CASE lock[p] = "shared"
    BY <1>1, <2>1, <2>3, <2>4, <2>6, RunParts DEF PendingAt
  <2>7. CASE lock[p] = "reserved"
    BY <1>1, <2>1, <2>3, <2>4, <2>7, RunParts DEF PendingAt
  <2> QED BY <1>1, <2>5, <2>6, <2>7, RunParts
<1> QED BY <1>2, <1>3

\* Introspection.
LEMMA IntrospectPending ==
    ASSUME "read" \notin Faults, PendingInv, NEW p \in Callers, Introspect(p)
    PROVE  WillTakeEffect(p)'
<1> DEFINE o == Head(todo[p])
           v == Seen(p)
           tb == v.table[req[p].name]
           next == ApplyModifyField(req[p].name, o, tb, ColumnsOf(tb)) \o Tail(todo[p])
<1>1. pc[p] = "run" /\ todo[p] # <<>> /\ o.kind = "modifyField" /\ Alive(p)
      /\ UNCHANGED <<db, req, tx, stale, cancelled>>
  BY DEF Introspect
<1>2. view'[p] = v /\ lock'[p] = IF lock[p] = "none" THEN "shared" ELSE lock[p]
  BY DEF Introspect, PendingInv, TypeInv, TypeOK
<1>3. \/ pc'[p] = "failed"
      \/ /\ pc'[p] = "run" /\ HasColumn(v, req[p].name, o.field) /\ Renderable(o.def)
         /\ todo'[p] = next
  <2> DEFINE all == IF HasTable(v, req[p].name) THEN ColumnsOf(tb) ELSE {}
  <2>1. IF o.field \notin all \/ ~Renderable(o.def) THEN Fail(p)
            ELSE /\ todo' = [todo EXCEPT ![p] =
                       ApplyModifyField(req[p].name, o, tb, all) \o Tail(todo[p])]
                 /\ UNCHANGED pc
    BY DEF Introspect
  <2>2. CASE o.field \notin all \/ ~Renderable(o.def)
    BY <2>1, <2>2 DEF Fail, PendingInv, TypeInv, TypeOK
  <2>3. CASE ~(o.field \notin all \/ ~Renderable(o.def))
    <3>1. HasColumn(v, req[p].name, o.field) /\ all = ColumnsOf(tb)
      BY <2>3 DEF HasColumn
    <3>2. todo' = [todo EXCEPT ![p] = next] /\ UNCHANGED pc
      BY <2>1, <2>3, <3>1
    <3> QED BY <1>1, <2>3, <3>1, <3>2 DEF PendingInv, TypeInv, TypeOK
  <2> QED BY <2>2, <2>3
<1>4. CASE pc'[p] = "failed"
  BY <1>4 DEF WillTakeEffect
<1>5. CASE pc'[p] # "failed"
  <2>1. pc'[p] = "run" /\ HasColumn(v, req[p].name, o.field) /\ Renderable(o.def)
        /\ todo'[p] = next
    BY <1>3, <1>5
  <2>2. PendingAt(p)
    BY <1>1 DEF PendingInv, WillTakeEffect
  <2>3. ASSUME NEW b, NEW locked \in BOOLEAN, Pending(req[p], b, todo[p], v, locked)
        PROVE  Pending(req[p], b, next, v, locked)
    <3>1. req[p] \in Request /\ v \in Sound
      BY <1>1, RunParts
    <3> HIDE DEF v
    <3> QED BY <1>1, <2>1, <2>3, <3>1, PendingIntrospected
  <2>4. /\ lock[p] \in {"none", "shared", "reserved"} /\ v \in Sound
        /\ (lock[p] = "none" => v = db) /\ (lock[p] # "none" => v = view[p])
    BY <1>1, RunParts
  <2>s. SUFFICES PendingAt(p)'
    BY <2>1 DEF WillTakeEffect
  <2> HIDE DEF next, v, o
  <2>5. CASE lock[p] = "none"
    <3>1. Pending(req[p], v, todo[p], v, FALSE)
      BY <2>2, <2>4, <2>5 DEF PendingAt
    <3>2. Pending(req[p], v, next, v, FALSE)
      BY <2>3, <3>1
    <3>3. lock'[p] = "shared" /\ view'[p] = v /\ req'[p] = req[p] /\ todo'[p] = next
      BY <1>1, <1>2, <2>1, <2>5
    <3> QED BY <3>2, <3>3 DEF PendingAt
  <2>6. CASE lock[p] = "shared"
    <3>1. Pending(req[p], v, todo[p], v, FALSE)
      BY <2>2, <2>4, <2>6 DEF PendingAt
    <3>2. Pending(req[p], v, next, v, FALSE)
      BY <2>3, <3>1
    <3>3. lock'[p] = "shared" /\ view'[p] = v /\ req'[p] = req[p] /\ todo'[p] = next
      BY <1>1, <1>2, <2>1, <2>6
    <3> QED BY <3>2, <3>3 DEF PendingAt
  <2>7. CASE lock[p] = "reserved"
    <3>1. Pending(req[p], db, todo[p], v, TRUE)
      BY <2>2, <2>4, <2>7 DEF PendingAt
    <3>2. Pending(req[p], db, next, v, TRUE)
      BY <2>3, <3>1
    <3>3. lock'[p] = "reserved" /\ view'[p] = v /\ req'[p] = req[p] /\ todo'[p] = next
          /\ db' = db
      BY <1>1, <1>2, <2>1, <2>7
    <3> QED BY <3>2, <3>3 DEF PendingAt
  <2> QED BY <2>4, <2>5, <2>6, <2>7
<1> QED BY <1>4, <1>5

\* A statement.  The first write is on the committed catalog of now.
LEMMA ExecutePending ==
    ASSUME PendingInv, NEW p \in Callers, Execute(p)
    PROVE  WillTakeEffect(p)'
<1> DEFINE s == Head(todo[p])
           v == Seen(p)
           rest == Tail(todo[p])
<1>1. pc[p] = "run" /\ todo[p] # <<>> /\ s.kind \notin OpKinds /\ Alive(p)
      /\ UNCHANGED <<db, pc, req, tx, stale, cancelled>>
  BY DEF Execute, IsStatement
<1>2. Legal(s, v) /\ (Noop(s, v) \/ MayWrite(p))
  BY DEF Execute
<1>3. /\ view'[p] = Apply(s, v) /\ todo'[p] = rest
      /\ lock'[p] = IF ~Noop(s, v) THEN "reserved" ELSE IF lock[p] = "none" THEN "shared" ELSE lock[p]
  BY DEF Execute, PendingInv, TypeInv, TypeOK
<1>4. /\ lock[p] \in {"none", "shared", "reserved"} /\ v \in Sound /\ req[p] \in Request
      /\ (lock[p] = "none" => v = db) /\ (lock[p] # "none" => v = view[p])
      /\ (lock[p] = "shared" /\ ~stale[p] => v = db)
  BY <1>1, RunParts
<1>5. MayWrite(p) => ~stale[p]
  BY DEF MayWrite
<1>6. PendingAt(p)
  BY <1>1 DEF PendingInv, WillTakeEffect
<1>7. ASSUME NEW b, NEW locked \in BOOLEAN, Pending(req[p], b, todo[p], v, locked)
      PROVE  /\ ~Noop(s, v) => Pending(req[p], b, rest, Apply(s, v), TRUE)
             /\ Noop(s, v) => Pending(req[p], b, rest, Apply(s, v), locked)
  <2>1. ASSUME NEW now \in BOOLEAN, now <=> locked \/ ~Noop(s, v)
        PROVE  Pending(req[p], b, rest, Apply(s, v), now)
    BY <1>1, <1>2, <1>4, <1>7, <2>1, PendingExecuted
  <2> QED BY <2>1
<1>8. Noop(s, v) => Apply(s, v) = v
  BY NoopApply
<1> SUFFICES PendingAt(p)'
  BY <1>1 DEF WillTakeEffect
<1> HIDE DEF s, v, rest
<1>9. CASE lock[p] = "none"
  <2>1. Pending(req[p], db, todo[p], v, FALSE)
    BY <1>4, <1>6, <1>9, RunParts DEF PendingAt
  <2>2. CASE Noop(s, v)
    <3>1. Pending(req[p], v, rest, v, FALSE)
      BY <1>4, <1>7, <1>8, <1>9, <2>1, <2>2
    <3>2. lock'[p] = "shared" /\ view'[p] = v /\ todo'[p] = rest /\ req'[p] = req[p]
      BY <1>1, <1>3, <1>8, <1>9, <2>2
    <3> QED BY <3>1, <3>2 DEF PendingAt
  <2>3. CASE ~Noop(s, v)
    <3>1. Pending(req[p], db, rest, Apply(s, v), TRUE)
      BY <1>7, <2>1, <2>3
    <3>2. lock'[p] = "reserved" /\ view'[p] = Apply(s, v) /\ todo'[p] = rest /\ req'[p] = req[p]
          /\ db' = db
      BY <1>1, <1>3, <2>3
    <3> QED BY <3>1, <3>2 DEF PendingAt
  <2> QED BY <2>2, <2>3
<1>10. CASE lock[p] = "shared"
  <2>1. Pending(req[p], v, todo[p], v, FALSE)
    BY <1>4, <1>6, <1>10 DEF PendingAt
  <2>2. CASE Noop(s, v)
    <3>1. Pending(req[p], v, rest, v, FALSE)
      BY <1>7, <1>8, <2>1, <2>2
    <3>2. lock'[p] = "shared" /\ view'[p] = v /\ todo'[p] = rest /\ req'[p] = req[p]
      BY <1>1, <1>3, <1>8, <1>10, <2>2
    <3> QED BY <3>1, <3>2 DEF PendingAt
  <2>3. CASE ~Noop(s, v)
    <3>1. Pending(req[p], v, rest, Apply(s, v), TRUE) /\ v = db
      BY <1>2, <1>4, <1>5, <1>7, <1>10, <2>1, <2>3
    <3>2. lock'[p] = "reserved" /\ view'[p] = Apply(s, v) /\ todo'[p] = rest /\ req'[p] = req[p]
          /\ db' = db
      BY <1>1, <1>3, <2>3
    <3> QED BY <3>1, <3>2 DEF PendingAt
  <2> QED BY <2>2, <2>3
<1>11. CASE lock[p] = "reserved"
  <2>1. Pending(req[p], db, todo[p], v, TRUE)
    BY <1>4, <1>6, <1>11 DEF PendingAt
  <2>2. Pending(req[p], db, rest, Apply(s, v), TRUE)
    BY <1>7, <2>1
  <2>3. lock'[p] = "reserved" /\ view'[p] = Apply(s, v) /\ todo'[p] = rest /\ req'[p] = req[p]
        /\ db' = db
    BY <1>1, <1>3, <1>11
  <2> QED BY <2>2, <2>3 DEF PendingAt
<1> QED BY <1>4, <1>9, <1>10, <1>11

\* A statement that fails, or whose error is ignored.
LEMMA ExecuteFailsPending ==
    ASSUME PendingInv, NEW p \in Callers, ExecuteFails(p)
    PROVE  WillTakeEffect(p)'
<1> DEFINE s == Head(todo[p])
           v == Seen(p)
           rest == Tail(todo[p])
<1>1. pc[p] = "run" /\ todo[p] # <<>> /\ UNCHANGED <<db, req, tx, lock, stale, view, cancelled>>
  BY DEF ExecuteFails, IsStatement, txVars
<1>2. CASE s.kind \notin BestEffortKinds
  <2>1. pc'[p] = "failed"
    BY <1>2 DEF ExecuteFails, Fail, PendingInv, TypeInv, TypeOK
  <2> QED BY <2>1 DEF WillTakeEffect
<1>3. CASE s.kind \in BestEffortKinds
  <2>1. pc'[p] = "run" /\ todo'[p] = rest
    BY <1>1, <1>3 DEF ExecuteFails, PendingInv, TypeInv, TypeOK
  <2>2. SUFFICES ASSUME Alive(p) PROVE PendingAt(p)'
    BY <1>1, <2>1 DEF WillTakeEffect, Alive
  <2>3. /\ lock[p] \in {"none", "shared", "reserved"} /\ v \in Sound /\ req[p] \in Request
        /\ (lock[p] = "none" => v = db) /\ (lock[p] # "none" => v = view[p])
        /\ (lock[p] = "reserved" => MayWrite(p))
    BY <1>1, RunParts
  <2>4. lock[p] = "none" \/ ~Legal(s, v) \/ ~MayWrite(p) \/ "bestEffort" \in Faults
    BY <1>3, <2>2 DEF ExecuteFails, MayRead
  <2>5. PendingAt(p)
    BY <1>1, <2>2 DEF PendingInv, WillTakeEffect
  <2>6. ASSUME NEW b, NEW c \in Sound, NEW locked \in BOOLEAN, Pending(req[p], b, todo[p], c, locked),
               locked => ~Legal(s, c) \/ "bestEffort" \in Faults
        PROVE  Pending(req[p], b, rest, c, locked)
    BY <1>1, <1>3, <2>3, <2>6, PendingIgnored
  <2> HIDE DEF s, v, rest
  <2>7. CASE lock[p] = "none"
    <3>1. \A c \in Sound : Pending(req[p], c, rest, c, FALSE)
      BY <2>5, <2>6, <2>7 DEF PendingAt
    <3> QED BY <1>1, <2>1, <2>7, <3>1 DEF PendingAt
  <2>8. CASE lock[p] = "shared"
    <3>1. Pending(req[p], view[p], rest, view[p], FALSE)
      BY <2>3, <2>5, <2>6, <2>8 DEF PendingAt
    <3> QED BY <1>1, <2>1, <2>8, <3>1 DEF PendingAt
  <2>9. CASE lock[p] = "reserved"
    <3>1. Pending(req[p], db, rest, view[p], TRUE)
      BY <2>3, <2>4, <2>5, <2>6, <2>9 DEF PendingAt
    <3> QED BY <1>1, <2>1, <2>9, <3>1 DEF PendingAt
  <2> QED BY <2>3, <2>7, <2>8, <2>9
<1> QED BY <1>2, <1>3

\* Every step keeps the effect of each call to come.
LEMMA PendingStep ==
    ASSUME "read" \notin Faults, PendingInv, [Next]_vars
    PROVE  PendingInv'
<1>1. LockInv' /\ TypeInv'
  BY LockStep, TypeStep DEF PendingInv
<1>2. CASE UNCHANGED vars
  <2> SUFFICES ASSUME NEW p \in Callers PROVE WillTakeEffect(p)'
    BY <1>1 DEF PendingInv
  <2>1. WillTakeEffect(p)
    BY DEF PendingInv
  <2> QED BY <1>2, <2>1 DEF WillTakeEffect, PendingAt, Alive, vars
<1>3. ASSUME NEW p \in Callers, Step(p)
      PROVE  WillTakeEffect(p)'
  <2>0. pc \in [Callers -> {"idle", "begin", "run", "failed"}] /\ WillTakeEffect(p)
        /\ tx \in [Callers -> {"none", "open", "rolling", "left"}]
        /\ cancelled \in [Callers -> BOOLEAN]
    BY DEF PendingInv, TypeInv, TypeOK
  <2>1. CASE Start(p)
    <3>1. PICK r \in Requests :
             /\ req' = [req EXCEPT ![p] = r]
             /\ IF BuildFails(r)
                THEN Finish(p, "error")
                ELSE /\ pc' = [pc EXCEPT ![p] = "begin"]
                     /\ todo' = [todo EXCEPT ![p] = Program(r)]
                     /\ result' = [result EXCEPT ![p] = "none"]
      BY <2>1 DEF Start
    <3>2. CASE BuildFails(r)
      <4>1. pc'[p] = "idle"
        BY <2>0, <3>1, <3>2 DEF Finish
      <4> QED BY <4>1 DEF WillTakeEffect
    <3>3. CASE ~BuildFails(r)
      <4>1. pc'[p] = "begin" /\ todo'[p] = Program(r) /\ req'[p] = r /\ tx'[p] = "none"
        BY <2>0, <2>1, <3>1, <3>3 DEF Start, txVars, PendingInv, TypeInv, TypeOK
      <4> QED BY <3>3, <4>1 DEF WillTakeEffect
    <3> QED BY <3>2, <3>3
  <2>2. CASE BeginFails(p) \/ Commit(p) \/ CommitFails(p) \/ CommitCancelled(p) \/ Rollback(p)
    <3>1. pc'[p] = "idle"
      BY <2>0, <2>2 DEF BeginFails, Commit, CommitFails, CommitCancelled, Rollback, Finish
    <3> QED BY <3>1 DEF WillTakeEffect
  <2>3. CASE IntrospectFails(p)
    <3>1. pc'[p] = "failed"
      BY <2>0, <2>3 DEF IntrospectFails, Fail
    <3> QED BY <3>1 DEF WillTakeEffect
  <2>4. CASE Cancel(p)
    <3>1. UNCHANGED <<db, pc, req, todo, tx, lock, view>> /\ cancelled'[p]
      BY <2>0, <2>4 DEF Cancel, txVars
    <3> QED BY <2>0, <3>1 DEF WillTakeEffect, Alive
  <2>5. CASE AutoRollback(p)
    <3>1. UNCHANGED <<db, pc, req, todo, lock, view, cancelled>> /\ tx'[p] = "rolling"
          /\ tx[p] = "open"
      BY <2>0, <2>5 DEF AutoRollback
    <3> QED BY <2>0, <3>1 DEF WillTakeEffect, Alive
  <2>6. CASE AutoRollbackDone(p) \/ ConnCloses(p)
    <3>1. UNCHANGED <<db, pc, req, todo, cancelled>> /\ tx'[p] = "none"
      BY <2>0, <2>6 DEF AutoRollbackDone, ConnCloses, Release
    <3> QED BY <2>0, <3>1 DEF WillTakeEffect, Alive
  <2> QED
    BY <1>3, <2>1, <2>2, <2>3, <2>4, <2>5, <2>6, BeginPending, DispatchPending,
       IntrospectPending, ExecutePending, ExecuteFailsPending DEF Step, CallerStep, Watcher
<1>4. CASE Next
  <2>1. PICK p \in Callers : Step(p)
    BY <1>4 DEF Next, Step
  <2>2. ASSUME NEW q \in Callers PROVE WillTakeEffect(q)'
    BY <1>3, <2>1, OthersPending
  <2> QED BY <1>1, <2>2 DEF PendingInv
<1> QED BY <1>2, <1>4

\* The effect of a call is still to come until it commits.
LEMMA PendingInvariance ==
    ASSUME "read" \notin Faults
    PROVE  Spec => []PendingInv
<1>1. Init => PendingInv
  <2>1. Init => LockInv /\ TypeInv
    BY SchemaModifierAssumption DEF Init, LockInv, TxTypes, Isolation, TypeInv, TypeOK
  <2>2. Init => \A p \in Callers : WillTakeEffect(p)
    BY DEF Init, WillTakeEffect
  <2> QED BY <2>1, <2>2 DEF PendingInv
<1>2. PendingInv /\ [Next]_vars => PendingInv'
  BY PendingStep
<1> QED BY <1>1, <1>2, PTL DEF Spec

-----------------------------------------------------------------------------
(* The refinement.                                                         *)

\* What a transaction has found moot stays so, and a reader that is overtaken saw
\* what was committed until then.
LEMMA SettleStep ==
    ASSUME PendingInv, PendingInv', [Next]_vars
    PROVE  Atomic!Settle
<1> SUFFICES ASSUME NEW q \in Callers,
                    pc'[q] = "run" /\ stale'[q] /\ view'[q] \in Outcomes(req'[q], view'[q])
             PROVE  /\ Status'[q] = "pending"
                    /\ Moot[q] \/ (Status[q] = "pending" /\ db \in Outcomes(req[q], db))
  BY DEF Atomic!Settle, Moot
<1>1. Status'[q] = "pending"
  BY DEF Status
<1>2. CASE UNCHANGED vars
  BY <1>1, <1>2 DEF vars, Moot, Status
<1>3. CASE Next
  <2>1. PICK p \in Callers : Step(p)
    BY <1>3 DEF Next, Step
  <2>0. TypeOK /\ LockInv
    BY DEF PendingInv, TypeInv
  <2>2. CASE p = q
    <3>1. /\ stale'[q] = stale[q] /\ req'[q] = req[q]
          /\ pc[q] = "run" \/ Begin(q)
          /\ view'[q] = view[q] \/ Introspect(q) \/ Execute(q)
      <4>1. CASE Start(q) \/ BeginFails(q) \/ Commit(q) \/ CommitFails(q) \/ CommitCancelled(q)
                   \/ Rollback(q)
        <5>1. pc'[q] \in {"idle", "begin"}
          BY <2>0, <4>1 DEF Start, BeginFails, Commit, CommitFails, CommitCancelled, Rollback,
                            Finish, TypeOK
        <5> QED BY <5>1
      <4>2. CASE Begin(q) \/ Dispatch(q) \/ Introspect(q) \/ IntrospectFails(q) \/ Execute(q)
                   \/ ExecuteFails(q)
        BY <4>2 DEF Begin, Dispatch, Introspect, IntrospectFails, Execute, ExecuteFails, txVars,
                    IsStatement
      <4>3. CASE Cancel(q) \/ AutoRollback(q)
        BY <4>3 DEF Cancel, AutoRollback, txVars
      <4>4. CASE AutoRollbackDone(q) \/ ConnCloses(q)
        <5>1. stale'[q] = FALSE
          BY <2>0, <4>4 DEF AutoRollbackDone, ConnCloses, Release, TypeOK
        <5> QED BY <5>1
      <4> QED BY <2>1, <2>2, <4>1, <4>2, <4>3, <4>4 DEF Step, CallerStep, Watcher
    <3>2. lock[q] = "shared"
      BY <2>0, <3>1 DEF LockInv
    <3>3. pc[q] = "run"
      <4>1. pc[q] = "begin" => tx[q] = "none"
        BY DEF PendingInv, WillTakeEffect
      <4>2. tx[q] = "none" => lock[q] = "none"
        BY <2>0 DEF LockInv
      <4> QED BY <3>1, <3>2, <4>1, <4>2 DEF Begin
    <3>4. view'[q] = view[q]
      <4>1. Seen(q) = view[q]
        BY <3>2 DEF Seen
      <4>2. CASE Introspect(q)
        BY <2>0, <4>1, <4>2 DEF Introspect, TypeOK
      <4>3. CASE Execute(q)
        <5>1. Noop(Head(todo[q]), Seen(q))
          BY <3>1, <4>3 DEF Execute, MayWrite
        <5>2. Apply(Head(todo[q]), Seen(q)) = view[q]
          BY <4>1, <5>1, NoopApply
        <5> QED BY <2>0, <4>3, <5>2 DEF Execute, TypeOK
      <4> QED BY <3>1, <4>2, <4>3
    <3> QED BY <3>1, <3>3, <3>4, <1>1 DEF Moot
  <2>3. CASE p # q
    <3>1. pc'[q] = pc[q] /\ req'[q] = req[q] /\ view'[q] = view[q]
      BY <2>0, <2>1, <2>3, OthersKept
    <3>2. CASE stale[q]
      BY <3>1, <3>2, <1>1 DEF Moot
    <3>3. CASE ~stale[q]
      <4>1. Commit(p) /\ lock[q] = "shared"
        <5>1. CASE Commit(p)
          BY <2>0, <3>3, <5>1 DEF Commit, Overtaken
        <5>2. CASE ~Commit(p)
          <6>1. stale' = stale \/ stale' = [stale EXCEPT ![p] = FALSE]
            BY <2>1, <5>2 DEF Step, CallerStep, Watcher, Start, Begin, BeginFails, Dispatch,
               Introspect, IntrospectFails, Execute, ExecuteFails, CommitFails, CommitCancelled,
               Rollback, Cancel, AutoRollback, AutoRollbackDone, ConnCloses, Release, LeftOpen, txVars
          <6> QED BY <2>0, <2>3, <3>3, <6>1 DEF TypeOK
        <5> QED BY <5>1, <5>2
      <4>2. view[q] = db
        BY <2>0, <3>3, <4>1 DEF LockInv, Isolation
      <4> QED BY <3>1, <4>2 DEF Status
    <3> QED BY <3>2, <3>3
  <2> QED BY <2>2, <2>3
<1> QED BY <1>2, <1>3

\* A commit publishes the whole effect of the call, or had nothing to change.
LEMMA CommitOutcome ==
    ASSUME PendingInv, NEW p \in Callers, Commit(p)
    PROVE  /\ db' # db => \E d \in Outcomes(req[p], db) : Like(db', d)
           /\ "bestEffort" \notin Faults => db' \in Outcomes(req[p], db) \/ (Moot[p] /\ db' = db)
<1>1. pc[p] = "run" /\ todo[p] = <<>> /\ Alive(p)
      /\ db' = IF lock[p] = "reserved" THEN view[p] ELSE db
  BY DEF Commit, Done
<1>2. PendingAt(p)
  BY <1>1 DEF PendingInv, WillTakeEffect
<1>3. /\ lock[p] \in {"none", "shared", "reserved"} /\ req[p] \in Request /\ db \in Sound
      /\ (lock[p] # "none" => view[p] \in Sound)
      /\ (lock[p] = "shared" /\ ~stale[p] => view[p] = db)
  BY <1>1, RunParts
<1>4. ASSUME NEW b, NEW v \in Sound, NEW locked, Pending(req[p], b, todo[p], v, locked)
      PROVE  /\ \E d \in Outcomes(req[p], b) : Like(v, d)
             /\ "bestEffort" \notin Faults => v \in Outcomes(req[p], b)
  <2>1. \E d \in Outcomes(req[p], b) : Like(v, d)
    BY <1>1, <1>3, <1>4, PendingDone
  <2> QED BY <2>1 DEF Like
<1>5. CASE lock[p] = "none"
  BY <1>1, <1>2, <1>3, <1>4, <1>5 DEF PendingAt
<1>6. CASE lock[p] = "shared"
  <2>1. "bestEffort" \notin Faults => view[p] \in Outcomes(req[p], view[p])
    BY <1>2, <1>3, <1>4, <1>6 DEF PendingAt
  <2> QED BY <1>1, <1>3, <1>6, <2>1 DEF Moot
<1>7. CASE lock[p] = "reserved"
  BY <1>1, <1>2, <1>3, <1>4, <1>7 DEF PendingAt
<1> QED BY <1>3, <1>5, <1>6, <1>7

\* Every step of a DDL call is a step of the atomic call, or none.
LEMMA RefinementStep ==
    ASSUME "bestEffort" \notin Faults, PendingInv, PendingInv', [Next]_vars
    PROVE  [Atomic!Next]_(Atomic!vars)
<1>1. Atomic!Settle
  BY SettleStep
<1>0. TypeOK
  BY DEF PendingInv, TypeInv
<1>2. CASE UNCHANGED vars
  <2>1. UNCHANGED <<db, Status, Moot, req>>
    BY <1>2 DEF vars, Status, Moot
  <2> QED BY <2>1 DEF Atomic!vars
<1>3. ASSUME NEW p \in Callers, Step(p)
      PROVE  \/ (\E r \in Requests : Atomic!Invoke(p, r)) \/ Atomic!Succeed(p) \/ Atomic!Refuse(p)
             \/ UNCHANGED <<db, Status, req>>
  <2>1. ASSUME NEW x, x # "none",
               (pc'[p] = "idle" /\ result'[p] = x) \/ (pc'[p] # "idle" /\ x = "pending")
        PROVE  Status' = [Status EXCEPT ![p] = x]
    <3>1. \A q \in Callers \ {p} : pc'[q] = pc[q] /\ result'[q] = result[q]
      BY <1>0, <1>3, OthersKept
    <3>2. Status'[p] = x
      BY <2>1 DEF Status
    <3>3. \A q \in Callers \ {p} : Status'[q] = Status[q]
      BY <3>1 DEF Status
    <3>4. Status = [q \in Callers |-> Status[q]] /\ Status' = [q \in Callers |-> Status'[q]]
      BY DEF Status
    <3> HIDE DEF Status
    <3> QED BY <3>2, <3>3, <3>4
  <2>2. pc[p] # "idle" => Status[p] = "pending"
    BY DEF Status
  <2>3. CASE Start(p)
    <3>1. PICK r \in Requests :
             /\ req' = [req EXCEPT ![p] = r]
             /\ IF BuildFails(r)
                THEN Finish(p, "error")
                ELSE /\ pc' = [pc EXCEPT ![p] = "begin"]
                     /\ todo' = [todo EXCEPT ![p] = Program(r)]
                     /\ result' = [result EXCEPT ![p] = "none"]
      BY <2>3 DEF Start
    <3>2. Status[p] # "pending"
      BY <1>0, <2>3 DEF Start, Status, TypeOK
    <3>3. \/ pc'[p] = "idle" /\ result'[p] = "error"
          \/ pc'[p] = "begin"
      BY <1>0, <3>1 DEF Finish, TypeOK
    <3>4. \E s \in {"pending", "error"} : Status' = [Status EXCEPT ![p] = s]
      BY <2>1, <3>3
    <3>5. db' = db
      BY <2>3 DEF Start
    <3> QED BY <3>1, <3>2, <3>4, <3>5 DEF Atomic!Invoke
  <2>4. CASE Commit(p)
    <3>1. pc'[p] = "idle" /\ result'[p] = "ok" /\ req' = req /\ pc[p] # "idle"
      BY <1>0, <2>4 DEF Commit, Done, Finish, TypeOK
    <3>2. Status' = [Status EXCEPT ![p] = "ok"]
      BY <2>1, <3>1
    <3> QED BY <2>2, <2>4, <3>1, <3>2, CommitOutcome DEF Atomic!Succeed
  <2>5. CASE BeginFails(p) \/ CommitFails(p) \/ CommitCancelled(p) \/ Rollback(p)
    <3>1. pc'[p] = "idle" /\ result'[p] = "error" /\ req' = req /\ db' = db /\ pc[p] # "idle"
      BY <1>0, <2>5 DEF BeginFails, CommitFails, CommitCancelled, Rollback, Done, Finish, TypeOK
    <3>2. Status' = [Status EXCEPT ![p] = "error"]
      BY <2>1, <3>1
    <3> QED BY <2>2, <3>1, <3>2 DEF Atomic!Refuse
  <2>6. CASE Begin(p) \/ Dispatch(p) \/ Introspect(p) \/ IntrospectFails(p) \/ Execute(p)
               \/ ExecuteFails(p)
    <3>1. pc[p] # "idle" /\ pc'[p] # "idle" /\ db' = db /\ req' = req
      BY <1>0, <2>6 DEF Begin, Dispatch, Introspect, IntrospectFails, Execute, ExecuteFails,
                        IsStatement, Fail, TypeOK
    <3>2. Status' = [Status EXCEPT ![p] = "pending"]
      BY <2>1, <3>1
    <3>3. Status' = Status
      <4>1. Status = [q \in Callers |-> Status[q]]
        BY DEF Status
      <4> HIDE DEF Status
      <4> QED BY <2>2, <3>1, <3>2, <4>1
    <3> QED BY <3>1, <3>3
  <2>7. CASE Cancel(p) \/ Watcher(p) \/ ConnCloses(p)
    <3>1. UNCHANGED <<pc, result, db, req>>
      BY <2>7 DEF Cancel, Watcher, AutoRollback, AutoRollbackDone, ConnCloses
    <3> QED BY <3>1 DEF Status
  <2> QED BY <1>3, <2>3, <2>4, <2>5, <2>6, <2>7 DEF Step, CallerStep
<1>4. CASE Next
  <2>1. PICK p \in Callers : Step(p)
    BY <1>4 DEF Next, Step
  <2> QED BY <1>1, <1>3, <2>1 DEF Atomic!Next
<1> QED BY <1>2, <1>4

\* Every DDL call is all or nothing ("Partial failures roll back and leave the
\* collection untouched"), for any callers, requests and initial files and in both
\* journal modes: a call that returns nil changed the catalog by its whole effect
\* at one instant, one that fails left no trace.  Faults of begin, of statements
\* and of commits are allowed, those the code does not report are not: the error
\* of a clean-up of markers, and an iteration error of ModifyField's introspection.
THEOREM CallsAreAtomic ==
    ASSUME Faults \cap {"bestEffort", "read"} = {}
    PROVE  Spec => AtomicSpec
<1>1. Init => Atomic!Init
  BY DEF Init, Atomic!Init, Status, Moot
<1>2. PendingInv /\ PendingInv' /\ [Next]_vars => [Atomic!Next]_(Atomic!vars)
  BY RefinementStep
<1>3. Spec => []PendingInv
  BY PendingInvariance
<1> QED BY <1>1, <1>2, <1>3, PTL DEF Spec, AtomicSpec, Atomic!Spec

-----------------------------------------------------------------------------
(* What operations keep.                                                   *)

\* c has the table t of b with its rows and its columns, those in gone excepted.
KeepsTable(b, c, t, gone) ==
    /\ HasTable(c, t)
    /\ c.table[t].rows = b.table[t].rows
    /\ ColumnsOf(b.table[t]) \ gone \subseteq ColumnsOf(c.table[t])

\* The columns of a file the driver made carry the declaration of the type they were
\* requested with, and its markers are those of its time columns.
Coherent(c) ==
    /\ ~c.sidecar => c.markers = {}
    /\ \A t \in Names, f \in Columns :
         /\ <<t, f>> \in c.markers <=> HasColumn(c, t, f) /\ c.table[t].cols[f].want = "Time"
         /\ HasColumn(c, t, f) =>
              /\ c.table[t].cols[f].want \in Creatable
              /\ c.table[t].cols[f].decl = SqliteTypeFor(c.table[t].cols[f].want)

\* o does not modify a time column, nor any column into one.
SparesTime(c, t, o) ==
    o.kind = "modifyField" =>
        /\ o.def.type # "Time"
        /\ HasColumn(c, t, o.field) => c.table[t].cols[o.field].want # "Time"

\* A type that is read and declared again keeps its keyword.
LEMMA RedeclaredType ==
    ASSUME NEW w \in Creatable
    PROVE  LET k == SqliteTypeFor(w)
           IN  SqliteTypeFor(IF k = "OTHER" THEN "String" ELSE DbschemaTypeFromSQLite(k)) = k
  BY DEF SqliteTypeFor, DbschemaTypeFromSQLite, Creatable, Types

\* Where one table is replaced, the columns and the markers of that one decide.
LEMMA TableCoherent ==
    ASSUME NEW c \in Catalog, Coherent(c), NEW t \in Names, NEW tb \in Table \cup {None},
           NEW d, d.table = [c.table EXCEPT ![t] = tb], ~d.sidecar => d.markers = {},
           \A n \in Names \ {t}, f \in Columns : <<n, f>> \in d.markers <=> <<n, f>> \in c.markers,
           \A f \in Columns :
             <<t, f>> \in d.markers <=> tb # None /\ tb.cols[f] # None /\ tb.cols[f].want = "Time",
           \A f \in Columns : tb # None /\ tb.cols[f] # None =>
             tb.cols[f].want \in Creatable /\ tb.cols[f].decl = SqliteTypeFor(tb.cols[f].want)
    PROVE  Coherent(d)
<1>1. c.table \in [Names -> Table \cup {None}]
  BY DEF Catalog
<1>2. d.table[t] = tb /\ \A n \in Names \ {t} : d.table[n] = c.table[n]
  BY <1>1
<1>3. \A f \in Columns : HasColumn(d, t, f) <=> tb # None /\ tb.cols[f] # None
  BY <1>2 DEF HasColumn, HasTable, ColumnsOf
<1>4. \A n \in Names \ {t}, f \in Columns : HasColumn(d, n, f) <=> HasColumn(c, n, f)
  BY <1>2 DEF HasColumn, HasTable, ColumnsOf
<1> QED BY <1>2, <1>3, <1>4 DEF Coherent

\* An operation leaves a catalog, with the rows and the columns it does not remove,
\* and with the right markers where they were right and it spares time columns.
LEMMA OpEffectKeeps ==
    ASSUME NEW c \in Catalog, NEW t \in Names, NEW o \in AlterOp, OpEffect(c, t, o) # None
    PROVE  /\ OpEffect(c, t, o) \in Catalog
           /\ HasTable(c, t) => KeepsTable(c, OpEffect(c, t, o), t, Removed(o))
           /\ Coherent(c) /\ SparesTime(c, t, o) => Coherent(OpEffect(c, t, o))
<1> DEFINE e == OpEffect(c, t, o)
<1>1. /\ c = [table |-> c.table, index |-> c.index, sidecar |-> c.sidecar, markers |-> c.markers]
      /\ c.table \in [Names -> Table \cup {None}] /\ c.index \in [IndexNames -> Index \cup {None}]
      /\ c.sidecar \in BOOLEAN /\ c.markers \in SUBSET (Names \X Columns)
  BY DEF Catalog
<1>2. HasTable(c, t) =>
        /\ c.table[t] \in Table /\ c.table[t].cols \in [Columns -> Column \cup {None}]
        /\ c.table[t].pk \in Seq(Columns) /\ c.table[t].rows \in SUBSET Rows
        /\ c.table[t] = [cols |-> c.table[t].cols, pk |-> c.table[t].pk, rows |-> c.table[t].rows]
  BY <1>1 DEF HasTable, Table
<1>3. WithoutIndexesOn(c, t) \in [IndexNames -> Index \cup {None}]
  BY <1>1 DEF WithoutIndexesOn
<1>4. ASSUME NEW tb, NEW ix \in [IndexNames -> Index \cup {None}], NEW s \in BOOLEAN,
             NEW m \in SUBSET (Names \X Columns), NEW d,
             d.table = [c.table EXCEPT ![t] = tb], d.index = ix, d.sidecar = s, d.markers = m,
             d = [table |-> d.table, index |-> d.index, sidecar |-> d.sidecar, markers |-> d.markers],
             tb \in Table, HasTable(c, t), tb.rows = c.table[t].rows,
             \A f \in Columns : c.table[t].cols[f] # None /\ f \notin Removed(o) => tb.cols[f] # None
      PROVE  d \in Catalog /\ KeepsTable(c, d, t, Removed(o))
  <2>1. d.table \in [Names -> Table \cup {None}]
    BY <1>1, <1>4
  <2>2. d \in Catalog
    BY <1>4, <2>1 DEF Catalog
  <2>3. d.table[t] = tb /\ tb # None
    BY <1>1, <1>4, NoneAssumption
  <2> QED BY <1>4, <2>2, <2>3 DEF KeepsTable, HasTable, ColumnsOf
<1>10. Coherent(c) /\ HasTable(c, t) =>
         /\ ~c.sidecar => c.markers = {}
         /\ \A f \in Columns :
              /\ <<t, f>> \in c.markers <=> c.table[t].cols[f] # None /\ c.table[t].cols[f].want = "Time"
              /\ c.table[t].cols[f] # None =>
                   /\ c.table[t].cols[f].want \in Creatable
                   /\ c.table[t].cols[f].decl = SqliteTypeFor(c.table[t].cols[f].want)
  BY DEF Coherent, HasColumn, ColumnsOf
<1>5. CASE o.kind = "addField"
  <2> DEFINE cl == [c.table[t].cols EXCEPT ![o.field] = ColumnDecl(o.def, FALSE, FALSE, FALSE)]
             tb == [c.table[t] EXCEPT !.cols = cl]
             fs == IF o.def.type = "Time" THEN {o.field} ELSE {}
  <2>1. o.field \in Columns /\ o.def \in FieldDef /\ o.def.type # "Null" /\ HasTable(c, t)
        /\ ~HasColumn(c, t, o.field)
    BY <1>5, AlterOpKinds DEF OpEffect, FieldAdded
  <2>2. ColumnDecl(o.def, FALSE, FALSE, FALSE) \in Column
    BY <2>1, ColumnDeclTyped DEF Renderable
  <2>3. e = Marked([c EXCEPT !.table[t].cols[o.field] = ColumnDecl(o.def, FALSE, FALSE, FALSE)], t, fs)
    BY <1>5, <2>1 DEF OpEffect, FieldAdded
  <2>4. cl \in [Columns -> Column \cup {None}] /\ tb \in Table /\ tb.cols = cl /\ tb.rows = c.table[t].rows
    <3>1. cl \in [Columns -> Column \cup {None}]
      BY <1>2, <2>1, <2>2
    <3> HIDE DEF cl
    <3> QED BY <1>2, <2>1, <3>1 DEF Table
  <2>5. \A f \in Columns : c.table[t].cols[f] # None => cl[f] # None
    BY <1>2, <2>1, <2>2, NoneAssumption
  <2>6. [c EXCEPT !.table[t].cols[o.field] = ColumnDecl(o.def, FALSE, FALSE, FALSE)]
          = [c EXCEPT !.table = [c.table EXCEPT ![t] = tb]]
    BY <1>1
  <2> HIDE DEF cl, tb
  <2>7. /\ e.table = [c.table EXCEPT ![t] = tb] /\ e.index = c.index
        /\ e.sidecar \in BOOLEAN /\ e.markers \in SUBSET (Names \X Columns)
        /\ (e.sidecar <=> c.sidecar \/ fs # {}) /\ e.markers = c.markers \cup ({t} \X fs)
        /\ e = [table |-> e.table, index |-> e.index, sidecar |-> e.sidecar, markers |-> e.markers]
    <3> DEFINE g == [c EXCEPT !.table = [c.table EXCEPT ![t] = tb]]
    <3>1. /\ g.table = [c.table EXCEPT ![t] = tb] /\ g.index = c.index
          /\ g.sidecar = c.sidecar /\ g.markers = c.markers
          /\ g = [table |-> g.table, index |-> g.index, sidecar |-> g.sidecar, markers |-> g.markers]
      BY <1>1
    <3>2. e = Marked(g, t, fs) /\ fs \subseteq Columns
      BY <2>1, <2>3, <2>6
    <3> HIDE DEF g, fs, e
    <3>3. CASE fs = {}
      BY <1>1, <3>1, <3>2, <3>3 DEF Marked
    <3>4. CASE fs # {}
      <4>1. e = [g EXCEPT !.sidecar = TRUE, !.markers = g.markers \cup ({t} \X fs)]
        BY <3>2, <3>4 DEF Marked
      <4>3. e.sidecar = TRUE /\ e.markers = g.markers \cup ({t} \X fs) /\ e.table = g.table
            /\ e.index = g.index
        BY <3>1, <4>1
      <4>2. g.markers \cup ({t} \X fs) \in SUBSET (Names \X Columns)
        BY <1>1, <3>1, <3>2
      <4>4. e = [table |-> e.table, index |-> e.index, sidecar |-> e.sidecar, markers |-> e.markers]
        BY <3>1, <4>1
      <4> QED BY <3>1, <3>4, <4>2, <4>3, <4>4
    <3> QED BY <3>3, <3>4
  <2>8. ASSUME Coherent(c) PROVE Coherent(e)
    <3>1. /\ ColumnDecl(o.def, FALSE, FALSE, FALSE).want = o.def.type
          /\ ColumnDecl(o.def, FALSE, FALSE, FALSE).decl = SqliteTypeFor(o.def.type)
          /\ o.def.type \in Creatable
      BY <2>1 DEF ColumnDecl, FieldDef, Creatable
    <3>2. c.table[t].cols[o.field] = None
      BY <2>1 DEF HasColumn, ColumnsOf
    <3>3. cl[o.field] = ColumnDecl(o.def, FALSE, FALSE, FALSE)
          /\ \A f \in Columns \ {o.field} : cl[f] = c.table[t].cols[f]
      BY <1>2, <2>1 DEF cl
    <3>4. \A n \in Names, f \in Columns :
            <<n, f>> \in e.markers <=> <<n, f>> \in c.markers
                                      \/ (n = t /\ f = o.field /\ o.def.type = "Time")
      BY <2>7
    <3>5. ~e.sidecar => e.markers = {}
      <4>1. fs = {} => e.markers = c.markers
        BY <1>1, <2>7
      <4> QED BY <1>10, <2>1, <2>7, <2>8, <4>1
    <3>6. \A f \in Columns : tb.cols[f] # None =>
             tb.cols[f].want \in Creatable /\ tb.cols[f].decl = SqliteTypeFor(tb.cols[f].want)
      BY <1>10, <2>1, <2>4, <2>8, <3>1, <3>3
    <3>7. \A f \in Columns :
             <<t, f>> \in e.markers <=> tb.cols[f] # None /\ tb.cols[f].want = "Time"
      <4> SUFFICES ASSUME NEW f \in Columns
                   PROVE <<t, f>> \in e.markers <=> tb.cols[f] # None /\ tb.cols[f].want = "Time"
        OBVIOUS
      <4>1. CASE f = o.field
        BY <1>10, <2>1, <2>2, <2>4, <2>8, <3>1, <3>2, <3>3, <3>4, <4>1, NoneAssumption
      <4>2. CASE f # o.field
        BY <1>10, <2>1, <2>4, <2>8, <3>3, <3>4, <4>2
      <4> QED BY <4>1, <4>2
    <3>8. tb # None
      BY <2>4, NoneAssumption
    <3> HIDE DEF e
    <3> QED BY <2>4, <2>7, <2>8, <3>4, <3>5, <3>6, <3>7, <3>8, TableCoherent
  <2> QED BY <1>1, <1>4, <2>1, <2>4, <2>5, <2>7, <2>8, SMTT(30)
<1>6. CASE o.kind = "dropField"
  <2> DEFINE cl == [c.table[t].cols EXCEPT ![o.field] = None]
             tb == [c.table[t] EXCEPT !.cols = cl]
             mk == IF c.sidecar THEN c.markers \ {<<t, o.field>>} ELSE c.markers
  <2>1. o.field \in Columns /\ HasTable(c, t)
    BY <1>6, AlterOpKinds DEF OpEffect, FieldDropped, HasColumn
  <2>3. e = [c EXCEPT !.table[t].cols[o.field] = None, !.markers = mk]
    BY <1>1, <1>6, <2>1 DEF OpEffect, FieldDropped
  <2>4. cl \in [Columns -> Column \cup {None}] /\ tb \in Table /\ tb.cols = cl /\ tb.rows = c.table[t].rows
    <3>1. cl \in [Columns -> Column \cup {None}]
      BY <1>2, <2>1
    <3> HIDE DEF cl
    <3> QED BY <1>2, <2>1, <3>1 DEF Table
  <2>5. \A f \in Columns : c.table[t].cols[f] # None /\ f \notin Removed(o) => cl[f] # None
    BY <1>2, <1>6, <2>1 DEF Removed
  <2>6. [c EXCEPT !.table[t].cols[o.field] = None, !.markers = mk]
          = [c EXCEPT !.table = [c.table EXCEPT ![t] = tb], !.markers = mk]
    <3> HIDE DEF mk
    <3> QED BY <1>1
  <2>7. mk \in SUBSET (Names \X Columns)
    BY <1>1
  <2> HIDE DEF cl, tb, mk
  <2>8. /\ e.table = [c.table EXCEPT ![t] = tb] /\ e.index = c.index
        /\ e.sidecar = c.sidecar /\ e.markers = mk
        /\ e = [table |-> e.table, index |-> e.index, sidecar |-> e.sidecar, markers |-> e.markers]
    BY <1>1, <2>3, <2>6
  <2>9. ASSUME Coherent(c) PROVE Coherent(e)
    <3>1. cl[o.field] = None /\ \A f \in Columns \ {o.field} : cl[f] = c.table[t].cols[f]
      BY <1>2, <2>1 DEF cl
    <3>2. \A n \in Names, f \in Columns :
            <<n, f>> \in e.markers <=> <<n, f>> \in c.markers /\ ~(n = t /\ f = o.field)
      BY <1>10, <2>1, <2>8, <2>9 DEF mk
    <3>3. ~e.sidecar => e.markers = {}
      BY <1>10, <2>1, <2>8, <2>9 DEF mk
    <3>4. \A f \in Columns : tb.cols[f] # None =>
             tb.cols[f].want \in Creatable /\ tb.cols[f].decl = SqliteTypeFor(tb.cols[f].want)
      BY <1>10, <2>1, <2>4, <2>9, <3>1
    <3>5. \A f \in Columns :
             <<t, f>> \in e.markers <=> tb.cols[f] # None /\ tb.cols[f].want = "Time"
      BY <1>10, <2>1, <2>4, <2>9, <3>1, <3>2
    <3>6. tb # None
      BY <2>4, NoneAssumption
    <3> HIDE DEF e
    <3> QED BY <2>4, <2>8, <2>9, <3>2, <3>3, <3>4, <3>5, <3>6, TableCoherent
  <2> QED BY <1>1, <1>4, <2>1, <2>4, <2>5, <2>7, <2>8, <2>9, SMTT(30)
<1>7. CASE o.kind = "renameField"
  <2> DEFINE swap(f) == IF f = o.field THEN o.new ELSE f
             cl == [c.table[t].cols EXCEPT ![o.new] = c.table[t].cols[o.field], ![o.field] = None]
             pk == [i \in DOMAIN c.table[t].pk |-> swap(c.table[t].pk[i])]
             tb == [c.table[t] EXCEPT !.cols = cl, !.pk = pk]
             ix == [x \in IndexNames |->
                            IF x \in IndexesOn(c, t)
                            THEN [c.index[x] EXCEPT !.fields = {swap(f) : f \in @}]
                            ELSE c.index[x]]
             moves == c.sidecar /\ <<t, o.field>> \in c.markers /\ <<t, o.new>> \notin c.markers
             mk == IF moves THEN (c.markers \ {<<t, o.field>>}) \cup {<<t, o.new>>} ELSE c.markers
  <2>1. o.field \in Columns /\ o.new \in Columns /\ HasTable(c, t) /\ HasColumn(c, t, o.field)
    BY <1>7, AlterOpKinds DEF OpEffect, FieldRenamed, HasColumn
  <2>2. CASE o.new = o.field
    <3>1. e = c
      BY <1>7, <2>1, <2>2 DEF OpEffect, FieldRenamed
    <3> QED BY <2>1, <3>1 DEF KeepsTable
  <2>3. CASE o.new # o.field
    <3>1. e = [c EXCEPT !.table[t].cols = cl, !.table[t].pk = pk, !.index = ix, !.markers = mk]
      BY <1>1, <1>7, <2>1, <2>3 DEF OpEffect, FieldRenamed
    <3>2. cl \in [Columns -> Column \cup {None}]
      BY <1>2, <2>1
    <3>3. pk \in Seq(Columns)
      <4>1. \A i \in 1..Len(c.table[t].pk) : c.table[t].pk[i] \in Columns /\ Len(c.table[t].pk) \in Nat
        BY <1>2, <2>1
      <4>2. Len(c.table[t].pk) \in Nat /\ DOMAIN c.table[t].pk = 1..Len(c.table[t].pk)
        BY <1>2, <2>1
      <4> QED BY <2>1, <4>1, <4>2
    <3>4. tb \in Table /\ tb.cols = cl /\ tb.rows = c.table[t].rows
      <4> HIDE DEF cl, pk
      <4> QED BY <1>2, <2>1, <3>2, <3>3 DEF Table
    <3>5. \A f \in Columns : c.table[t].cols[f] # None /\ f \notin Removed(o) => cl[f] # None
      <4>1. c.table[t].cols[o.field] # None
        BY <2>1 DEF HasColumn, ColumnsOf
      <4> QED BY <1>2, <1>7, <2>1, <4>1 DEF Removed
    <3>6. ix \in [IndexNames -> Index \cup {None}]
      <4> SUFFICES ASSUME NEW x \in IndexNames PROVE ix[x] \in Index \cup {None}
        OBVIOUS
      <4>1. CASE x \in IndexesOn(c, t)
        <5>1. c.index[x] \in Index
          BY <1>1, <4>1 DEF IndexesOn
        <5>2. {swap(f) : f \in c.index[x].fields} \in SUBSET Columns
          BY <2>1, <5>1 DEF Index
        <5>3. ix[x] = [c.index[x] EXCEPT !.fields = {swap(f) : f \in c.index[x].fields}]
          BY <4>1
        <5> HIDE DEF ix, swap
        <5> QED BY <5>1, <5>2, <5>3 DEF Index
      <4>2. CASE x \notin IndexesOn(c, t)
        BY <1>1, <4>2
      <4> QED BY <4>1, <4>2
    <3>7. mk \in SUBSET (Names \X Columns)
      BY <1>1, <2>1
    <3> HIDE DEF cl, pk, ix, mk
    <3>8. [c EXCEPT !.table[t].cols = cl, !.table[t].pk = pk, !.index = ix, !.markers = mk]
             = [c EXCEPT !.table = [c.table EXCEPT ![t] = tb], !.index = ix, !.markers = mk]
      BY <1>1
    <3> HIDE DEF tb
    <3>9. /\ e.table = [c.table EXCEPT ![t] = tb] /\ e.index = ix
          /\ e.sidecar = c.sidecar /\ e.markers = mk
          /\ e = [table |-> e.table, index |-> e.index, sidecar |-> e.sidecar, markers |-> e.markers]
      BY <1>1, <3>1, <3>8
    <3>10. ASSUME Coherent(c) PROVE Coherent(e)
      <4>1. c.table[t].cols[o.field] # None /\ c.table[t].cols[o.new] = None
        BY <1>7, <2>1, <2>3 DEF HasColumn, ColumnsOf, OpEffect, FieldRenamed
      <4>2. /\ cl[o.field] = None /\ cl[o.new] = c.table[t].cols[o.field]
            /\ \A f \in Columns \ {o.field, o.new} : cl[f] = c.table[t].cols[f]
        BY <1>2, <2>1, <2>3 DEF cl
      <4>3. <<t, o.new>> \notin c.markers /\ (~c.sidecar => c.markers = {})
        BY <1>10, <2>1, <3>10, <4>1
      <4>4. \A n \in Names, f \in Columns :
              <<n, f>> \in e.markers <=>
                IF n = t /\ f = o.new THEN <<t, o.field>> \in c.markers
                ELSE <<n, f>> \in c.markers /\ ~(n = t /\ f = o.field)
        <5>1. CASE <<t, o.field>> \in c.markers
          <6>1. e.markers = (c.markers \ {<<t, o.field>>}) \cup {<<t, o.new>>}
            BY <3>9, <4>3, <5>1 DEF mk
          <6> QED BY <2>3, <5>1, <6>1
        <5>2. CASE <<t, o.field>> \notin c.markers
          <6>1. e.markers = c.markers
            BY <3>9, <5>2 DEF mk
          <6> QED BY <2>3, <4>3, <5>2, <6>1
        <5> QED BY <5>1, <5>2
      <4>5. ~e.sidecar => e.markers = {}
        BY <3>9, <4>3 DEF mk
      <4>6. \A f \in Columns : tb.cols[f] # None =>
               tb.cols[f].want \in Creatable /\ tb.cols[f].decl = SqliteTypeFor(tb.cols[f].want)
        BY <1>10, <2>1, <3>4, <3>10, <4>1, <4>2, ZenonT(40)
      <4>7. \A f \in Columns :
               <<t, f>> \in e.markers <=> tb.cols[f] # None /\ tb.cols[f].want = "Time"
        <5> SUFFICES ASSUME NEW f \in Columns
                     PROVE <<t, f>> \in e.markers <=> tb.cols[f] # None /\ tb.cols[f].want = "Time"
          OBVIOUS
        <5>1. CASE f = o.new
          BY <1>10, <2>1, <3>4, <3>10, <4>1, <4>2, <4>4, <5>1
        <5>2. CASE f = o.field
          BY <2>3, <3>4, <4>2, <4>4, <5>2
        <5>3. CASE f \notin {o.field, o.new}
          BY <1>10, <2>1, <3>4, <3>10, <4>2, <4>4, <5>3
        <5> QED BY <5>1, <5>2, <5>3
      <4>8. tb # None
        BY <3>4, NoneAssumption
      <4> HIDE DEF e
      <4>9. \A n \in Names \ {t}, f \in Columns : <<n, f>> \in e.markers <=> <<n, f>> \in c.markers
        BY <4>4
      <4> QED BY <3>4, <3>9, <3>10, <4>5, <4>6, <4>7, <4>8, <4>9, TableCoherent
    <3> QED BY <1>1, <1>4, <2>1, <3>4, <3>5, <3>6, <3>7, <3>9, <3>10
  <2> QED BY <2>2, <2>3
<1>8. CASE o.kind = "modifyField"
  <2> DEFINE tb0 == c.table[t]
             composite == Len(tb0.pk) > 1
             inline == tb0.pk = <<o.field>> /\ o.def.type = "Int" /\ o.def.autoInc
             portable(k) == SqliteTypeFor(IF k = "OTHER" THEN "String"
                                     ELSE DbschemaTypeFromSQLite(k))
             kept(f) == [tb0.cols[f] EXCEPT
                      !.decl = portable(@),
                      !.autoinc = FALSE,
                      !.notnull = IF f \in KeyOf(tb0) THEN TRUE ELSE @ /\ ~composite]
             new == ColumnDecl(o.def, inline, composite, o.field \in KeyOf(tb0))
             cl == [f \in Columns |-> IF f = o.field
                   THEN ColumnDecl(o.def, inline, composite, f \in KeyOf(tb0))
                   ELSE IF tb0.cols[f] = None THEN None ELSE kept(f)]
             tb == [c.table[t] EXCEPT !.cols = cl]
  <2>1. /\ o.field \in Columns /\ o.def \in FieldDef /\ o.def.type # "Null" /\ HasTable(c, t)
    BY <1>8, AlterOpKinds DEF OpEffect, FieldModified, HasColumn
  <2>2. e = [c EXCEPT !.table[t].cols = cl, !.index = WithoutIndexesOn(c, t)]
    BY <1>8 DEF OpEffect, FieldModified
  <2>3. new \in Column
    <3>1. inline \in BOOLEAN /\ composite \in BOOLEAN /\ (o.field \in KeyOf(tb0)) \in BOOLEAN
      OBVIOUS
    <3> QED BY <2>1, <3>1, ColumnDeclTyped DEF Renderable
  <2>4. ASSUME NEW f \in Columns, tb0.cols[f] # None PROVE kept(f) \in Column
    <3>1. tb0.cols[f] \in Column
      BY <1>2, <2>1, <2>4
    <3>2. portable(tb0.cols[f].decl) \in Keywords
      <4> DEFINE k == tb0.cols[f].decl
      <4>1. k \in Keywords
        BY <3>1 DEF Column
      <4>2. (IF k = "OTHER" THEN "String" ELSE DbschemaTypeFromSQLite(k)) \in Creatable
        BY <4>1, ReadTypeTyped DEF Creatable, Types
      <4> QED BY <4>2, SqliteTypeTyped
    <3> DEFINE nn == IF f \in KeyOf(tb0) THEN TRUE ELSE tb0.cols[f].notnull /\ ~composite
    <3>3. nn \in BOOLEAN
      BY <3>1 DEF Column
    <3>4. kept(f) = [tb0.cols[f] EXCEPT !.decl = portable(tb0.cols[f].decl), !.autoinc = FALSE,
                                        !.notnull = nn]
      OBVIOUS
    <3> HIDE DEF portable, nn, kept
    <3> QED BY <3>1, <3>2, <3>3, <3>4 DEF Column
  <2>5. cl \in [Columns -> Column \cup {None}]
        /\ \A f \in Columns : tb0.cols[f] # None => cl[f] # None
    <3>1. ASSUME NEW f \in Columns
          PROVE  cl[f] \in Column \cup {None} /\ (tb0.cols[f] # None => cl[f] # None)
      <4>1. cl[f] = IF f = o.field THEN new ELSE IF tb0.cols[f] = None THEN None ELSE kept(f)
        OBVIOUS
      <4> HIDE DEF cl, new, kept
      <4> QED BY <2>3, <2>4, <4>1, NoneAssumption
    <3>2. cl = [f \in Columns |-> cl[f]]
      OBVIOUS
    <3> HIDE DEF cl
    <3> QED BY <3>1, <3>2
  <2> HIDE DEF cl
  <2>6. tb \in Table /\ tb.cols = cl /\ tb.rows = c.table[t].rows
    BY <1>2, <2>1, <2>5 DEF Table
  <2>7. [c EXCEPT !.table[t].cols = cl, !.index = WithoutIndexesOn(c, t)]
             = [c EXCEPT !.table = [c.table EXCEPT ![t] = tb], !.index = WithoutIndexesOn(c, t)]
    BY <1>1
  <2> HIDE DEF tb
  <2>8. /\ e.table = [c.table EXCEPT ![t] = tb] /\ e.index = WithoutIndexesOn(c, t)
        /\ e.sidecar = c.sidecar /\ e.markers = c.markers
        /\ e = [table |-> e.table, index |-> e.index, sidecar |-> e.sidecar, markers |-> e.markers]
    BY <1>1, <2>2, <2>7
  <2>9. ASSUME Coherent(c), SparesTime(c, t, o) PROVE Coherent(e)
    <3>1. /\ new.want = o.def.type /\ new.decl = SqliteTypeFor(o.def.type)
          /\ o.def.type \in Creatable /\ o.def.type # "Time"
      BY <1>8, <2>1, <2>9 DEF ColumnDecl, FieldDef, Creatable, SparesTime
    <3>2. tb0.cols[o.field] # None /\ tb0.cols[o.field].want # "Time"
      BY <1>8, <2>9 DEF SparesTime, HasColumn, ColumnsOf, OpEffect, FieldModified
    <3>3. ASSUME NEW f \in Columns, tb0.cols[f] # None
          PROVE  kept(f).want = tb0.cols[f].want /\ kept(f).decl = tb0.cols[f].decl
      <4>1. tb0.cols[f] \in Column
        BY <1>2, <2>1, <3>3
      <4>2. portable(tb0.cols[f].decl) = tb0.cols[f].decl
        BY <1>10, <2>1, <2>9, <3>3, RedeclaredType
      <4> HIDE DEF portable
      <4> QED BY <4>1, <4>2 DEF Column
    <3>4. \A f \in Columns : cl[f] = IF f = o.field THEN new
                                    ELSE IF tb0.cols[f] = None THEN None ELSE kept(f)
      BY DEF cl
    <3> HIDE DEF new, kept
    <3>5. \A f \in Columns : cl[f] # None =>
             cl[f].want \in Creatable /\ cl[f].decl = SqliteTypeFor(cl[f].want)
      <4> SUFFICES ASSUME NEW f \in Columns, cl[f] # None
                   PROVE cl[f].want \in Creatable /\ cl[f].decl = SqliteTypeFor(cl[f].want)
        OBVIOUS
      <4>1. CASE f = o.field
        <5>1. cl[f] = new
          BY <3>4, <4>1
        <5>2. new.decl = SqliteTypeFor(new.want) /\ new.want \in Creatable
          BY <3>1
        <5> QED BY <5>1, <5>2
      <4>2. CASE f # o.field
        <5>1. tb0.cols[f] # None /\ cl[f] = kept(f)
          BY <3>4, <4>2
        <5>2. tb0.cols[f].want \in Creatable /\ tb0.cols[f].decl = SqliteTypeFor(tb0.cols[f].want)
          BY <1>10, <2>1, <2>9, <5>1
        <5> QED BY <3>3, <5>1, <5>2
      <4> QED BY <4>1, <4>2
    <3>6. \A f \in Columns :
             <<t, f>> \in e.markers <=> cl[f] # None /\ cl[f].want = "Time"
      BY <1>10, <2>1, <2>4, <2>8, <2>9, <3>1, <3>2, <3>3, <3>4, NoneAssumption
    <3>7. tb # None
      BY <2>6, NoneAssumption
    <3>8. ~e.sidecar => e.markers = {}
      BY <1>10, <2>1, <2>8, <2>9
    <3> HIDE DEF e, tb0
    <3> QED BY <2>6, <2>8, <2>9, <3>5, <3>6, <3>7, <3>8, TableCoherent
  <2> QED BY <1>1, <1>3, <1>4, <2>1, <2>5, <2>6, <2>8, <2>9, SMTT(30)
<1>9. CASE o.kind = "addIndex" \/ o.kind = "dropIndexOp"
  <2>1. e \in Catalog /\ e.table = c.table /\ e.sidecar = c.sidecar /\ e.markers = c.markers
    <3>1. CASE o.kind = "addIndex"
      <4> DEFINE on == IF o.idx.on = None THEN t ELSE o.idx.on
                 new == [c.index EXCEPT ![o.idx.name] = [on |-> on, fields |-> o.idx.fields]]
      <4>1. o.idx \in IndexDef
        BY <3>1, AlterOpKinds
      <4>2. on \in Names /\ o.idx.fields \in SUBSET Columns /\ o.idx.name \in IndexNames
        BY <4>1 DEF IndexDef
      <4>3. e = c \/ e = [c EXCEPT !.index = new]
        BY <1>1, <3>1 DEF OpEffect, IndexAdded
      <4>4. new \in [IndexNames -> Index \cup {None}]
        BY <1>1, <4>2 DEF Index
      <4> HIDE DEF new
      <4> QED BY <1>1, <4>3, <4>4 DEF Catalog
    <3>2. CASE o.kind = "dropIndexOp"
      <4> DEFINE new == [c.index EXCEPT ![o.name] = None]
      <4>1. e = [c EXCEPT !.index = new] /\ new \in [IndexNames -> Index \cup {None}]
        BY <1>1, <3>2 DEF OpEffect, IndexDropped
      <4> HIDE DEF new
      <4> QED BY <1>1, <4>1 DEF Catalog
    <3> QED BY <1>9, <3>1, <3>2
  <2> QED BY <2>1 DEF KeepsTable, HasTable, HasColumn, Coherent
<1> QED BY <1>5, <1>6, <1>7, <1>8, <1>9 DEF AlterOp

\* So do the operations of an alteration.
LEMMA OpsKeep ==
    ASSUME NEW c \in Catalog, NEW t \in Names, NEW ops \in Seq(AlterOp), HasTable(c, t),
           NEW k \in 0..Len(ops), OpsUpTo(c, t, ops)[k] # None
    PROVE  /\ OpsUpTo(c, t, ops)[k] \in Catalog
           /\ KeepsTable(c, OpsUpTo(c, t, ops)[k], t, UNION {Removed(ops[i]) : i \in DOMAIN ops})
<1> DEFINE n == Len(ops)
           f == OpsUpTo(c, t, ops)
           gone == UNION {Removed(ops[i]) : i \in DOMAIN ops}
           S == {i \in 0..n : f[i] # None => f[i] \in Catalog /\ KeepsTable(c, f[i], t, gone)}
<1>1. /\ n \in Nat /\ f[0] = c
      /\ \A i \in 1..n : f[i] = IF f[i-1] = None THEN None ELSE OpEffect(f[i-1], t, ops[i])
  BY OpsDef
<1>2. \A i \in 1..n : ops[i] \in AlterOp /\ Removed(ops[i]) \subseteq gone
  OBVIOUS
<1> HIDE DEF f, gone
<1>3. 0 \in S
  BY <1>1 DEF KeepsTable
<1>4. ASSUME NEW i \in 0..(n-1), i \in S PROVE i + 1 \in S
  <2>1. i + 1 \in 1..n /\ (i + 1) - 1 = i /\ i + 1 \in 0..n
    BY <1>1
  <2>2. f[i+1] = IF f[i] = None THEN None ELSE OpEffect(f[i], t, ops[i+1])
    BY <1>1, <2>1
  <2>3. CASE f[i+1] = None
    BY <2>1, <2>3
  <2>4. CASE f[i+1] # None
    <3>1. f[i] # None /\ f[i+1] = OpEffect(f[i], t, ops[i+1])
      BY <2>2, <2>4
    <3>2. f[i] \in Catalog /\ KeepsTable(c, f[i], t, gone)
      BY <1>4, <3>1
    <3>3. f[i+1] \in Catalog /\ KeepsTable(f[i], f[i+1], t, Removed(ops[i+1]))
      BY <1>2, <2>1, <2>4, <3>1, <3>2, OpEffectKeeps DEF KeepsTable
    <3>4. KeepsTable(c, f[i+1], t, gone)
      BY <1>2, <2>1, <3>2, <3>3 DEF KeepsTable
    <3> QED BY <2>1, <3>3, <3>4
  <2> QED BY <2>3, <2>4
<1>5. k \in S
  <2> HIDE DEF S, n
  <2>1. 0..n \subseteq S
    BY <1>1, <1>3, <1>4, SetInduction
  <2> QED BY <2>1 DEF n
<1> QED BY <1>5 DEF f, gone

\* A call that returns nil has just committed.
LEMMA CommittedNow ==
    ASSUME PendingInv, Next, NEW p \in Callers, Committed(p)
    PROVE  Commit(p)
<1>0. TypeOK
  BY DEF PendingInv, TypeInv
<1>1. PICK q \in Callers : Step(q)
  BY DEF Next, Step
<1>2. q = p
  BY <1>0, <1>1, OthersKept DEF Committed
<1>3. pc[p] = "run" /\ pc'[p] = "idle" /\ result'[p] = "ok"
  BY DEF Committed
<1>4. ~(Start(p) \/ Begin(p) \/ BeginFails(p) \/ Rollback(p))
  BY <1>3 DEF Start, Begin, BeginFails, Rollback
<1>5. ~(Dispatch(p) \/ Introspect(p) \/ IntrospectFails(p) \/ Execute(p) \/ ExecuteFails(p))
  BY <1>0, <1>3 DEF Dispatch, Introspect, IntrospectFails, Execute, ExecuteFails, Fail, TypeOK
<1>6. ~(CommitFails(p) \/ CommitCancelled(p))
  BY <1>0, <1>3 DEF CommitFails, CommitCancelled, Finish, TypeOK
<1>7. ~(Cancel(p) \/ Watcher(p) \/ ConnCloses(p))
  BY <1>3 DEF Cancel, Watcher, AutoRollback, AutoRollbackDone, ConnCloses
<1> QED BY <1>1, <1>2, <1>4, <1>5, <1>6, <1>7 DEF Step, CallerStep

\* What a call that returns nil left: the committed catalog as it was, or its effect.
LEMMA CommittedEffect ==
    ASSUME PendingInv, PendingInv', Next, NEW p \in Callers, Committed(p), db' # db
    PROVE  /\ db \in Sound /\ db' \in Sound /\ req[p] \in Request
           /\ \E d \in Outcomes(req[p], db) : Like(db', d) /\ d.table = db'.table /\ d.index = db'.index
<1>1. db \in Sound /\ db' \in Sound
  BY DEF PendingInv, TypeInv, TypeOK, Sound
<1>2. req[p] \in Request
  BY RunParts DEF Committed
<1>3. \E d \in Outcomes(req[p], db) : Like(db', d)
  BY CommittedNow, CommitOutcome
<1> QED BY <1>1, <1>2, <1>3, LikeFacts, SoundParts


\* The tables and the indexes change by whole effects of calls that return nil, the
\* marker table set aside.
SchemaIsAtomic ==
    [][db' # db => \E p \in Callers :
          /\ Committed(p)
          /\ \E d \in Outcomes(req[p], db) : db'.table = d.table /\ db'.index = d.index]_vars

\* The one fault that breaks AtomicSpec and is reported by nobody, that of a marker
\* clean-up whose error is assigned to _ (MCSidecarError), can spoil markers
\* only: tables, columns, rows and indexes are all or nothing even then.
THEOREM SchemaAtomicDespiteCleanUps ==
    ASSUME "read" \notin Faults
    PROVE  Spec => SchemaIsAtomic
<1>1. ASSUME PendingInv, PendingInv', Next, db' # db
      PROVE  \E p \in Callers : /\ Committed(p)
                                /\ \E d \in Outcomes(req[p], db) : db'.table = d.table /\ db'.index = d.index
  <2>1. PICK p \in Callers : Step(p)
    BY <1>1 DEF Next, Step
  <2>2. Commit(p)
    BY <1>1, <2>1, CatalogKept
  <2>3. Committed(p)
    BY <1>1, <2>2 DEF Commit, Done, Finish, Committed, PendingInv, TypeInv, TypeOK
  <2> QED BY <1>1, <2>3, CommittedEffect
<1>2. PendingInv /\ PendingInv' /\ [Next]_vars =>
        [db' # db => \E p \in Callers :
          /\ Committed(p)
          /\ \E d \in Outcomes(req[p], db) : db'.table = d.table /\ db'.index = d.index]_vars
  BY <1>1
<1>3. Spec => []PendingInv
  BY PendingInvariance
<1> QED BY <1>2, <1>3, PTL DEF Spec, SchemaIsAtomic

\* An AlterCollection that commits removes no row and no column it was not asked
\* to remove, ModifyField included, which rebuilds the table from what it read
\* (ApplyModifyField): for any callers, requests and files, any faults but the
\* iteration error of the introspection (MCReadError), ignored clean-ups included.
THEOREM AlterKeeps ==
    ASSUME "read" \notin Faults
    PROVE  Spec => AlterKeepsTheRest
<1> DEFINE Kept(p) ==
             LET r == req[p] IN
             Committed(p) /\ r.op = "alter" /\ HasTable(db, r.name) =>
               /\ HasTable(db', r.name)
               /\ db'.table[r.name].rows = db.table[r.name].rows
               /\ ColumnsOf(db.table[r.name])
                    \ UNION {Removed(r.ops[i]) : i \in DOMAIN r.ops}
                  \subseteq ColumnsOf(db'.table[r.name])
<1>1. ASSUME PendingInv, PendingInv', Next, NEW p \in Callers PROVE Kept(p)
  <2> DEFINE r == req[p]
             gone == UNION {Removed(r.ops[i]) : i \in DOMAIN r.ops}
  <2> SUFFICES ASSUME Committed(p), r.op = "alter", HasTable(db, r.name)
               PROVE  KeepsTable(db, db', r.name, gone)
    BY DEF KeepsTable
  <2>1. CASE db' = db
    BY <2>1 DEF KeepsTable
  <2>2. CASE db' # db
    <3>1. db \in Catalog /\ r \in Request
      BY <1>1, <2>2, CommittedEffect, SoundParts
    <3>2. PICK d \in Outcomes(r, db) : d.table = db'.table
      BY <1>1, <2>2, CommittedEffect
    <3>3. r.ops \in Seq(AlterOp) /\ r.name \in Names
      BY <3>1, RequestKinds, SchemaModifierAssumption
    <3>4. d = OpsUpTo(db, r.name, r.ops)[Len(r.ops)] /\ d # None
      BY <3>2 DEF Outcomes, Effect, LeftAlone
    <3>5. Len(r.ops) \in 0..Len(r.ops)
      BY <3>3
    <3> HIDE DEF r
    <3>6. KeepsTable(db, d, r.name, gone)
      BY <3>1, <3>3, <3>4, <3>5, OpsKeep
    <3> QED BY <3>2, <3>6 DEF KeepsTable, HasTable
  <2> QED BY <2>1, <2>2
<1>2. PendingInv /\ PendingInv' /\ [Next]_vars => [\A p \in Callers : Kept(p)]_vars
  BY <1>1
<1>3. Spec => []PendingInv
  BY PendingInvariance
<1> QED BY <1>2, <1>3, PTL DEF Spec, AlterKeepsTheRest

-----------------------------------------------------------------------------
(* Time markers.                                                           *)

\* r creates no collection that may exist, and its alterations spare time columns
\* wherever they get to them in a file the driver made.
TracksTime(r) ==
    /\ r.op = "create" => ~r.ifNot
    /\ r.op = "alter" =>
         \A c \in Catalog, i \in DOMAIN r.ops :
           LET d == OpsUpTo(c, r.name, r.ops)[i-1] IN
           Coherent(c) /\ d # None => SparesTime(d, r.name, r.ops[i])

\* The operations of an alteration keep the markers right.
LEMMA OpsCoherent ==
    ASSUME NEW c \in Catalog, Coherent(c), NEW t \in Names, NEW ops \in Seq(AlterOp),
           \A i \in DOMAIN ops : OpsUpTo(c, t, ops)[i-1] # None
                                   => SparesTime(OpsUpTo(c, t, ops)[i-1], t, ops[i]),
           NEW k \in 0..Len(ops), OpsUpTo(c, t, ops)[k] # None
    PROVE  OpsUpTo(c, t, ops)[k] \in Catalog /\ Coherent(OpsUpTo(c, t, ops)[k])
<1> DEFINE n == Len(ops)
           f == OpsUpTo(c, t, ops)
           S == {i \in 0..n : f[i] # None => f[i] \in Catalog /\ Coherent(f[i])}
<1>1. /\ n \in Nat /\ f[0] = c
      /\ \A i \in 1..n : f[i] = IF f[i-1] = None THEN None ELSE OpEffect(f[i-1], t, ops[i])
  BY OpsDef
<1>2. \A i \in 1..n : ops[i] \in AlterOp /\ (f[i-1] # None => SparesTime(f[i-1], t, ops[i]))
  OBVIOUS
<1> HIDE DEF f
<1>3. 0 \in S
  BY <1>1
<1>4. ASSUME NEW i \in 0..(n-1), i \in S PROVE i + 1 \in S
  <2>1. i + 1 \in 1..n /\ (i + 1) - 1 = i /\ i + 1 \in 0..n
    BY <1>1
  <2>2. f[i+1] = IF f[i] = None THEN None ELSE OpEffect(f[i], t, ops[i+1])
    BY <1>1, <2>1
  <2>3. CASE f[i+1] = None
    BY <2>1, <2>3
  <2>4. CASE f[i+1] # None
    <3>1. f[i] # None /\ f[i+1] = OpEffect(f[i], t, ops[i+1])
      BY <2>2, <2>4
    <3>2. f[i] \in Catalog /\ Coherent(f[i])
      BY <1>4, <3>1
    <3>3. f[i+1] \in Catalog /\ Coherent(f[i+1])
      BY <1>2, <2>1, <2>4, <3>1, <3>2, OpEffectKeeps
    <3> QED BY <2>1, <3>3
  <2> QED BY <2>3, <2>4
<1>5. k \in S
  <2> HIDE DEF S, n
  <2>1. 0..n \subseteq S
    BY <1>1, <1>3, <1>4, SetInduction
  <2> QED BY <2>1 DEF n
<1> QED BY <1>5 DEF f

\* d differs from c in its indexes.
ButIndexes(c, d) ==
    /\ d = [table |-> d.table, index |-> d.index, sidecar |-> d.sidecar, markers |-> d.markers]
    /\ d.table = c.table /\ d.sidecar = c.sidecar /\ d.markers = c.markers

\* Creating indexes changes the indexes.
LEMMA IndexesKeep ==
    ASSUME NEW R, NEW c \in Catalog, NEW t, NEW idxs \in Seq(R), NEW ifNot,
           NEW k \in 0..Len(idxs), IndexesUpTo(c, t, idxs, ifNot)[k] # None
    PROVE  ButIndexes(c, IndexesUpTo(c, t, idxs, ifNot)[k])
<1> DEFINE n == Len(idxs)
           f == IndexesUpTo(c, t, idxs, ifNot)
           S == {i \in 0..n : f[i] # None => ButIndexes(c, f[i])}
<1>1. /\ n \in Nat /\ f[0] = c
      /\ \A i \in 1..n : f[i] = IF f[i-1] = None THEN None ELSE IndexAdded(f[i-1], t, idxs[i], ifNot)
  BY IndexesDef
<1> HIDE DEF f
<1>3. 0 \in S
  BY <1>1 DEF ButIndexes, Catalog
<1>4. ASSUME NEW i \in 0..(n-1), i \in S PROVE i + 1 \in S
  <2>1. i + 1 \in 1..n /\ (i + 1) - 1 = i /\ i + 1 \in 0..n
    BY <1>1
  <2>2. f[i+1] = IF f[i] = None THEN None ELSE IndexAdded(f[i], t, idxs[i+1], ifNot)
    BY <1>1, <2>1
  <2>3. CASE f[i+1] = None
    BY <2>1, <2>3
  <2>4. CASE f[i+1] # None
    <3>1. f[i] # None /\ f[i+1] = IndexAdded(f[i], t, idxs[i+1], ifNot)
      BY <2>2, <2>4
    <3>2. ButIndexes(c, f[i])
      BY <1>4, <3>1
    <3>3. \/ f[i+1] = f[i]
          \/ \E x : f[i+1] = [f[i] EXCEPT !.index = x]
      <4> DEFINE x == [f[i].index EXCEPT ![idxs[i+1].name] =
                         [on |-> IF idxs[i+1].on = None THEN t ELSE idxs[i+1].on,
                          fields |-> idxs[i+1].fields]]
      <4>1. f[i+1] = f[i] \/ f[i+1] = [f[i] EXCEPT !.index = x]
        BY <2>4, <3>1, <3>2 DEF IndexAdded, ButIndexes
      <4> HIDE DEF x
      <4> QED BY <4>1
    <3>4. ButIndexes(c, f[i+1])
      BY <3>2, <3>3 DEF ButIndexes
    <3> QED BY <2>1, <3>4
  <2> QED BY <2>3, <2>4
<1>5. k \in S
  <2> HIDE DEF S, n
  <2>1. 0..n \subseteq S
    BY <1>1, <1>3, <1>4, SetInduction
  <2> QED BY <2>1 DEF n
<1> QED BY <1>5 DEF f

\* A creation adds the table and the markers of its time columns.
LEMMA CreatedParts ==
    ASSUME NEW c \in Catalog, NEW r \in Request, r.op = "create", ~r.ifNot, Effect(r, c) # None
    PROVE  LET e == Effect(r, c)
               fs == TimeColumnsOf(r.def)
           IN  /\ ~HasTable(c, r.name) /\ r.name \in Names /\ ~CreateTableFails(r.def)
               /\ r.def \in CollectionDef /\ TableFor(r.def) \in Table
               /\ e.table = [c.table EXCEPT ![r.name] = TableFor(r.def)]
               /\ e.sidecar <=> c.sidecar \/ fs # {}
               /\ e.markers = c.markers \cup ({r.name} \X fs)
<1> DEFINE e == Effect(r, c)
           fs == TimeColumnsOf(r.def)
           new == TableFor(r.def)
           with == [c EXCEPT !.table[r.name] = new]
           n == Len(r.def.indexes)
           all == IndexesUpTo(with, r.name, r.def.indexes, r.ifNot)[n]
<1>1. r.def \in CollectionDef /\ r.name \in Names
  BY RequestKinds, SchemaModifierAssumption
<1>2. ~CreateTableFails(r.def) /\ e = Created(r, c)
  BY DEF Effect
<1>3. ~HasTable(c, r.name) /\ all # None /\ e = Marked(all, r.name, fs)
  BY <1>2 DEF Created, TimeColumnsOf
<1>4. new \in Table
  BY <1>1, <1>2, TableForTyped
<1> HIDE DEF new
<1>5. with \in Catalog /\ with.table = [c.table EXCEPT ![r.name] = new]
      /\ with.sidecar = c.sidecar /\ with.markers = c.markers
  BY <1>1, <1>4 DEF Catalog
<1>6. r.def.indexes \in Seq(IndexDef) /\ n \in 0..n
  BY <1>1 DEF CollectionDef
<1> HIDE DEF with
<1>7. ButIndexes(with, all)
  BY <1>3, <1>5, <1>6, IndexesKeep
<1> HIDE DEF all, e, fs
<1>8. e.table = all.table /\ (e.sidecar <=> all.sidecar \/ fs # {})
      /\ e.markers = all.markers \cup ({r.name} \X fs)
  <2>1. CASE fs = {}
    BY <1>3, <2>1 DEF Marked
  <2>2. CASE fs # {}
    <3>1. e = [all EXCEPT !.sidecar = TRUE, !.markers = all.markers \cup ({r.name} \X fs)]
      BY <1>3, <2>2 DEF Marked
    <3>2. e.sidecar = TRUE /\ e.markers = all.markers \cup ({r.name} \X fs) /\ e.table = all.table
      BY <1>7, <3>1 DEF ButIndexes
    <3> QED BY <2>2, <3>2
  <2> QED BY <2>1, <2>2
<1> QED BY <1>1, <1>2, <1>3, <1>4, <1>5, <1>7, <1>8 DEF ButIndexes, e, fs, new

\* What CREATE TABLE declares of a field.
LEMMA DeclaredColumn ==
    ASSUME NEW def \in CollectionDef, ~CreateTableFails(def), NEW f \in FieldsOf(def)
    PROVE  LET k == TableFor(def).cols[f]
               d == def.fields[f]
               inline == InlinePK(def) /\ f = def.pk[1]
           IN  /\ d \in FieldDef /\ d.type \in Creatable /\ k \in Column
               /\ k.want = d.type /\ k.decl = SqliteTypeFor(d.type)
               /\ k.notnull <=> /\ ~inline /\ ~d.nullable
                                /\ ~(Len(def.pk) > 1) \/ f \in {def.pk[i] : i \in DOMAIN def.pk}
               /\ k.autoinc <=> inline /\ d.autoInc
<1> DEFINE d == def.fields[f]
           i == InlinePK(def) /\ f = def.pk[1]
           k == Len(def.pk) > 1
           m == f \in {def.pk[j] : j \in DOMAIN def.pk}
<1>1. d \in FieldDef /\ Renderable(d)
  BY DEF CollectionDef, FieldsOf, CreateTableFails
<1>2. d.type \in Creatable
  BY <1>1 DEF FieldDef, Renderable, Creatable
<1>3. TableFor(def).cols[f] = ColumnDecl(d, i, k, m)
  BY DEF TableFor, FieldsOf
<1>4. i \in BOOLEAN /\ k \in BOOLEAN /\ m \in BOOLEAN
  BY DEF InlinePK
<1> HIDE DEF d, i, k, m
<1>5. ColumnDecl(d, i, k, m) \in Column
  BY <1>1, <1>4, ColumnDeclTyped
<1>6. /\ ColumnDecl(d, i, k, m).want = d.type
      /\ ColumnDecl(d, i, k, m).decl = SqliteTypeFor(d.type)
      /\ ColumnDecl(d, i, k, m).notnull <=> ~i /\ ~d.nullable /\ (~k \/ m)
      /\ ColumnDecl(d, i, k, m).autoinc <=> i /\ d.autoInc
  BY DEF ColumnDecl
<1> QED BY <1>1, <1>2, <1>3, <1>5, <1>6 DEF d, i, k, m

\* The effect of a call that tracks time columns keeps the markers right.
LEMMA EffectCoherent ==
    ASSUME NEW c \in Catalog, Coherent(c), NEW r \in Request, TracksTime(r),
           NEW d \in Outcomes(r, c)
    PROVE  Coherent(d)
<1>1. d = c \/ (d = Effect(r, c) /\ Effect(r, c) # None)
  BY DEF Outcomes
<1>2. r.name \in Names
  BY RequestKinds, SchemaModifierAssumption
<1>3. c.table \in [Names -> Table \cup {None}]
  BY DEF Catalog
<1>4. CASE d = Effect(r, c) /\ Effect(r, c) # None /\ r.op = "create"
  <2> DEFINE fs == TimeColumnsOf(r.def)
             tb == TableFor(r.def)
  <2>1. ~r.ifNot
    BY <1>4 DEF TracksTime
  <2>2. /\ ~HasTable(c, r.name) /\ ~CreateTableFails(r.def)
        /\ r.def \in CollectionDef /\ tb \in Table
        /\ d.table = [c.table EXCEPT ![r.name] = tb]
        /\ d.sidecar <=> c.sidecar \/ fs # {}
        /\ d.markers = c.markers \cup ({r.name} \X fs)
    BY <1>4, <2>1, CreatedParts
  <2>3. \A f \in Columns : tb.cols[f] # None =>
          /\ f \in FieldsOf(r.def) /\ tb.cols[f].want = r.def.fields[f].type
          /\ tb.cols[f].decl = SqliteTypeFor(r.def.fields[f].type)
    BY DEF TableFor, ColumnDecl, FieldsOf
  <2>4. \A f \in FieldsOf(r.def) : r.def.fields[f].type \in Creatable /\ tb.cols[f] # None
    BY <2>2, DeclaredColumn, NoneAssumption
  <2>5. fs = {f \in FieldsOf(r.def) : r.def.fields[f].type = "Time"}
    BY DEF TimeColumnsOf
  <2> HIDE DEF fs, tb
  <2>6. ~d.sidecar => d.markers = {}
    <3>1. ~c.sidecar => c.markers = {}
      BY DEF Coherent
    <3> QED BY <2>2, <3>1
  <2>7. \A f \in Columns : <<r.name, f>> \notin c.markers
    BY <1>2, <2>2 DEF Coherent, HasColumn
  <2>8. \A n \in Names \ {r.name}, f \in Columns : <<n, f>> \in d.markers <=> <<n, f>> \in c.markers
    BY <2>2
  <2>9. \A f \in Columns : <<r.name, f>> \in d.markers <=> tb.cols[f] # None /\ tb.cols[f].want = "Time"
    BY <2>2, <2>3, <2>4, <2>5, <2>7 DEF FieldsOf
  <2>10. tb # None
    BY <2>2, NoneAssumption
  <2> QED BY <1>2, <2>2, <2>3, <2>4, <2>6, <2>8, <2>9, <2>10, TableCoherent
<1>5. CASE d = Effect(r, c) /\ Effect(r, c) # None /\ r.op = "drop"
  <2> DEFINE mk == IF c.sidecar THEN {m \in c.markers : m[1] # r.name} ELSE c.markers
             ix == WithoutIndexesOn(c, r.name)
  <2>1. d = [c EXCEPT !.table[r.name] = None, !.index = ix, !.markers = mk]
    BY <1>5 DEF Effect, Dropped
  <2>2. \A n \in Names, f \in Columns : <<n, f>> \in mk <=> <<n, f>> \in c.markers /\ n # r.name
    BY DEF Coherent
  <2>3. ~c.sidecar => mk = {}
    BY DEF Coherent
  <2> HIDE DEF mk, ix
  <2>4. d.table = [c.table EXCEPT ![r.name] = None] /\ d.sidecar = c.sidecar /\ d.markers = mk
    BY <2>1 DEF Catalog
  <2> QED BY <1>2, <2>2, <2>3, <2>4, TableCoherent
<1>6. CASE d = Effect(r, c) /\ Effect(r, c) # None /\ r.op = "alter"
  <2>1. r.ops \in Seq(AlterOp)
    BY <1>6, RequestKinds
  <2>2. d = OpsUpTo(c, r.name, r.ops)[Len(r.ops)]
    BY <1>6 DEF Effect
  <2>3. \A i \in DOMAIN r.ops : OpsUpTo(c, r.name, r.ops)[i-1] # None
                                   => SparesTime(OpsUpTo(c, r.name, r.ops)[i-1], r.name, r.ops[i])
    BY <1>6 DEF TracksTime
  <2>4. Len(r.ops) \in 0..Len(r.ops)
    BY <2>1
  <2> QED BY <1>2, <1>6, <2>1, <2>2, <2>3, <2>4, OpsCoherent
<1> QED BY <1>1, <1>4, <1>5, <1>6, RequestKinds

\* A coherent catalog describes every column with the type it was declared with.
LEMMA CoherentDescribes ==
    ASSUME NEW c, Coherent(c), NEW t \in Names, NEW f \in Columns, HasColumn(c, t, f)
    PROVE  DescribedType(c, t, f) = StoredType(c.table[t].cols[f].want)
<1> DEFINE w == c.table[t].cols[f].want
           k == c.table[t].cols[f].decl
<1>1. w \in Creatable /\ k = SqliteTypeFor(w) /\ (<<t, f>> \in c.markers <=> w = "Time")
      /\ (~c.sidecar => c.markers = {})
  BY DEF Coherent
<1>2. f \in ReadTimeMarkers(c, t) <=> w = "Time"
  BY <1>1 DEF ReadTimeMarkers
<1>3. w # "Time" => DbschemaTypeFromSQLite(SqliteTypeFor(w)) = StoredType(w)
  <2> HIDE DEF w
  <2> QED BY <1>1 DEF DbschemaTypeFromSQLite, SqliteTypeFor, StoredType, Creatable, Types
<1>4. DescribedType(c, t, f) = IF w = "Time" THEN "Time" ELSE DbschemaTypeFromSQLite(k)
  BY <1>2 DEF DescribedType
<1> HIDE DEF w, k
<1>5. DescribedType(c, t, f) = StoredType(w)
  BY <1>1, <1>3, <1>4 DEF StoredType
<1> QED BY <1>5 DEF w

\* Files the driver made alone, requests that track time columns, and no fault the
\* code does not report: a lost clean-up loses markers (MCSidecarError), a cut
\* introspection columns (MCReadError).
MarkersTracked ==
    /\ "bestEffort" \notin Faults /\ "read" \notin Faults
    /\ \A c \in InitCatalogs : Coherent(c)
    /\ \A r \in Requests : TracksTime(r)

\* The markers of the committed catalog are those of its time columns.
MarkerInv == PendingInv /\ Coherent(db)

LEMMA MarkerInvariance ==
    ASSUME MarkersTracked
    PROVE  Spec => []MarkerInv
<1>1. ASSUME PendingInv, Coherent(db), [Next]_vars PROVE Coherent(db')
  <2>1. CASE UNCHANGED vars
    BY <1>1, <2>1 DEF vars
  <2>2. CASE Next
    <3>1. PICK p \in Callers : Step(p)
      BY <2>2 DEF Next, Step
    <3>2. CASE db' = db
      BY <1>1, <3>2
    <3>3. CASE db' # db
      <4>1. Commit(p) /\ pc[p] # "idle"
        BY <3>1, <3>3, CatalogKept DEF Commit, Done
      <4>2. db' \in Outcomes(req[p], db)
        BY <1>1, <3>3, <4>1, CommitOutcome DEF MarkersTracked
      <4>3. db \in Sound /\ req[p] \in Request /\ req[p] \in Requests
        BY <1>1, <4>1, RunParts
      <4>4. db \in Catalog /\ TracksTime(req[p])
        BY <4>3 DEF Sound, MarkersTracked
      <4> QED BY <1>1, <4>2, <4>3, <4>4, EffectCoherent
    <3> QED BY <3>2, <3>3
  <2> QED BY <1>1, <2>1, <2>2
<1>2. MarkerInv /\ [Next]_vars => Coherent(db)'
  BY <1>1 DEF MarkerInv, Coherent, HasColumn, HasTable, ColumnsOf
<1>3. Init => Coherent(db)
  BY DEF Init, MarkersTracked
<1>4. Spec => []PendingInv
  BY PendingInvariance DEF MarkersTracked
<1>5. Spec => [](Coherent(db))
  <2>1. PendingInv /\ Coherent(db) /\ [Next]_vars => Coherent(db)'
    BY <1>2 DEF MarkerInv
  <2> QED BY <1>3, <1>4, <2>1, PTL DEF Spec
<1> QED BY <1>4, <1>5, PTL DEF MarkerInv

\* Through any sequence of creations, alterations and drops of any callers, a
\* committed column is described with the type it was declared with (Int for a
\* Bool): its time marker is neither lost nor left behind for a later column of
\* the same name.
THEOREM MarkersFollow ==
    ASSUME MarkersTracked
    PROVE  Spec => []DescribedAsDeclared
<1>1. MarkerInv => DescribedAsDeclared
  BY CoherentDescribes DEF MarkerInv, DescribedAsDeclared
<1> QED BY <1>1, MarkerInvariance, PTL

\* What CREATE TABLE can express of a definition: AUTOINCREMENT of the sole Int
\* key, which like every INTEGER PRIMARY KEY is not nullable.
Expressible(def) ==
    \A f \in FieldsOf(def) :
      /\ def.fields[f].autoInc => def.fields[f].type = "Int" /\ def.pk = <<f>>
      /\ def.pk = <<f>> /\ def.fields[f].type \in {"Int", "Bool"} => ~def.fields[f].nullable

LEMMA SameTruth == ASSUME NEW a \in BOOLEAN, NEW b \in BOOLEAN, a <=> b PROVE a = b
  OBVIOUS

\* A table just created is described as requested.
LEMMA CreatedDescribed ==
    ASSUME NEW c \in Catalog, NEW r \in Request, r.op = "create", ~r.ifNot,
           Expressible(r.def), Effect(r, c) # None, Coherent(Effect(r, c))
    PROVE  DescribeFields(Effect(r, c), r.name)
             = [f \in Columns |-> IF f \in FieldsOf(r.def) THEN Stored(r.def, f) ELSE None]
<1> DEFINE e == Effect(r, c)
           def == r.def
           tb == TableFor(def)
<1> SUFFICES DescribeFields(e, r.name)
               = [f \in Columns |-> IF f \in FieldsOf(def) THEN Stored(def, f) ELSE None]
  OBVIOUS
<1>0. Coherent(e)
  OBVIOUS
<1>1. /\ r.name \in Names /\ def \in CollectionDef /\ tb \in Table
      /\ e.table = [c.table EXCEPT ![r.name] = tb]
  BY CreatedParts
<1>2. e.table[r.name] = tb
  BY <1>1 DEF Catalog
<1>3. ~CreateTableFails(def)
  BY CreatedParts
<1>4. \A f \in Columns : HasColumn(e, r.name, f) <=> f \in FieldsOf(def)
  <2> SUFFICES ASSUME NEW f \in Columns PROVE tb.cols[f] # None <=> f \in FieldsOf(def)
    BY <1>1, <1>2, NoneAssumption DEF HasColumn, HasTable, ColumnsOf
  <2>1. f \notin FieldsOf(def) => tb.cols[f] = None
    BY DEF TableFor, FieldsOf
  <2>2. f \in FieldsOf(def) => tb.cols[f] # None
    BY <1>1, <1>3, DeclaredColumn, NoneAssumption
  <2> QED BY <2>1, <2>2
<1>5. ASSUME NEW f \in FieldsOf(def)
      PROVE  DescribeField(e, r.name, f) = Stored(def, f)
  <2> DEFINE d == def.fields[f]
             k == tb.cols[f]
             inline == InlinePK(def) /\ f = def.pk[1]
             sole == def.pk = <<f>>
             key == {def.pk[i] : i \in DOMAIN def.pk}
  <2>0. f \in Columns
    BY DEF FieldsOf
  <2>1. /\ d \in FieldDef /\ d.type \in Creatable /\ k \in Column
        /\ k.want = d.type /\ k.decl = SqliteTypeFor(d.type)
        /\ k.notnull <=> ~inline /\ ~d.nullable /\ (~(Len(def.pk) > 1) \/ f \in key)
        /\ k.autoinc <=> inline /\ d.autoInc
    BY <1>1, <1>3, DeclaredColumn
  <2>2. tb.pk = def.pk /\ def.pk \in Seq(Columns)
    BY <1>1 DEF TableFor, CollectionDef
  <2>3. /\ d.autoInc => d.type = "Int" /\ sole
        /\ sole /\ d.type \in {"Int", "Bool"} => ~d.nullable
    BY DEF Expressible
  <2>4. sole <=> Len(def.pk) = 1 /\ def.pk[1] = f
    <3>1. <<f>> \in Seq(Columns) /\ Len(<<f>>) = 1 /\ <<f>>[1] = f
      BY <2>0
    <3>2. Len(def.pk) = 1 /\ def.pk[1] = f => \A i \in 1..1 : def.pk[i] = <<f>>[i]
      BY <3>1
    <3>3. Len(def.pk) = 1 /\ def.pk[1] = f => sole
      BY <2>2, <3>1, <3>2, SeqsEqual
    <3> QED BY <3>1, <3>3
  <2>5. inline <=> sole /\ d.autoInc
    BY <2>1, <2>3, <2>4 DEF InlinePK, FieldHasAutoIncIntPK, FieldsOf
  <2>6. DescribedType(e, r.name, f) = StoredType(d.type)
    <3>1. HasColumn(e, r.name, f) /\ e.table[r.name].cols[f].want = d.type
      BY <1>2, <1>4, <2>0, <2>1
    <3> HIDE DEF e, d
    <3>2. r.name \in Names
      BY <1>1
    <3>3. DescribedType(e, r.name, f) = StoredType(e.table[r.name].cols[f].want)
      BY <1>0, <2>0, <3>1, <3>2, CoherentDescribes
    <3> QED BY <3>1, <3>3
  <2>7. RowidAlias(tb, f) <=> sole /\ d.type \in {"Int", "Bool"}
    BY <2>1, <2>2 DEF RowidAlias, SqliteTypeFor, Creatable, Types
  <2>8. sole => ~(Len(def.pk) > 1)
    BY <2>2
  <2> DEFINE n1 == ~k.notnull /\ ~RowidAlias(tb, f)
             n2 == d.nullable \/ (Len(def.pk) > 1 /\ f \notin key)
             a1 == /\ DescribedType(e, r.name, f) = "Int"
                   /\ Len(tb.pk) > 0 /\ tb.pk[1] = f
                   /\ TableHasAutoIncrement(tb)
  <2>9. n1 = n2
    <3>1. n1 <=> n2
      BY <2>1, <2>3, <2>5, <2>7, <2>8
    <3>2. n1 \in BOOLEAN /\ n2 \in BOOLEAN
      BY <2>1 DEF FieldDef
    <3> HIDE DEF n1, n2
    <3> QED BY <3>1, <3>2, SameTruth
  <2>10. a1 = d.autoInc
    <3>1. TableHasAutoIncrement(tb) <=> \E g \in FieldsOf(def) : tb.cols[g].autoinc
      <4>1. ColumnsOf(tb) = FieldsOf(def)
        BY <1>2, <1>4 DEF HasColumn, FieldsOf, ColumnsOf
      <4> QED BY <4>1 DEF TableHasAutoIncrement
    <3>2. ASSUME NEW g \in FieldsOf(def), tb.cols[g].autoinc
          PROVE  InlinePK(def) /\ g = def.pk[1] /\ def.fields[g].autoInc
      BY <1>1, <1>3, <3>2, DeclaredColumn
    <3>3. a1 => d.autoInc
      BY <2>2, <3>1, <3>2
    <3>4. d.autoInc => a1
      <4>1. d.autoInc => d.type = "Int" /\ sole /\ k.autoinc
        BY <2>1, <2>3, <2>5
      <4> QED BY <2>2, <2>4, <2>6, <3>1, <4>1 DEF StoredType
    <3>5. a1 \in BOOLEAN /\ d.autoInc \in BOOLEAN
      BY <2>1 DEF FieldDef, TableHasAutoIncrement
    <3> HIDE DEF a1, d
    <3> QED BY <3>3, <3>4, <3>5, SameTruth
  <2>11. DescribeField(e, r.name, f)
           = [type |-> StoredType(d.type), nullable |-> n1, autoInc |-> a1]
    BY <1>2, <2>6 DEF DescribeField
  <2>12. Stored(def, f) = [d EXCEPT !.type = StoredType(d.type), !.nullable = n2]
    BY DEF Stored
  <2> HIDE DEF n1, n2, a1, d
  <2>13. d = [type |-> d.type, nullable |-> d.nullable, autoInc |-> d.autoInc]
    BY <2>1 DEF FieldDef
  <2> QED BY <2>9, <2>10, <2>11, <2>12, <2>13
<1>6. \A f \in FieldsOf(def) : f \in Columns
  BY DEF FieldsOf
<1> HIDE DEF e, def
<1> QED BY <1>4, <1>5, <1>6 DEF DescribeFields

\* A creation that commits has its whole effect: it cannot find nothing to do.
LEMMA CreationCommitted ==
    ASSUME MarkerInv, "bestEffort" \notin Faults, Next, NEW p \in Callers, Creates(p)
    PROVE  /\ db' = Effect(req[p], db) /\ Effect(req[p], db) # None
           /\ db \in Catalog /\ req[p] \in Request /\ req[p] \in Requests
<1> DEFINE r == req[p]
<1>1. /\ Commit(p) /\ pc[p] # "idle" /\ r.op = "create" /\ ~r.ifNot
  BY CommittedNow DEF Creates, Committed, MarkerInv
<1>2. r \in Request /\ r \in Requests /\ db \in Catalog
  BY <1>1, RunParts DEF MarkerInv, Sound
<1>3. ASSUME NEW c, NEW d \in Outcomes(r, c) PROVE d = Effect(r, c) /\ Effect(r, c) # None
  BY <1>1 DEF Outcomes, LeftAlone
<1>4. ~Moot[p]
  <2> SUFFICES ASSUME Moot[p] PROVE FALSE
    OBVIOUS
  <2>1. stale[p] /\ view[p] \in Outcomes(r, view[p])
    BY DEF Moot
  <2>2. lock[p] # "none"
    BY <2>1 DEF MarkerInv, PendingInv, LockInv
  <2>3. view[p] \in Catalog
    BY <1>1, <2>2, RunParts DEF MarkerInv, Sound
  <2>4. view[p] = Effect(r, view[p]) /\ Effect(r, view[p]) # None
    BY <1>3, <2>1
  <2> HIDE DEF r
  <2>5. /\ ~HasTable(view[p], r.name) /\ r.name \in Names /\ TableFor(r.def) \in Table
        /\ view[p].table = [view[p].table EXCEPT ![r.name] = TableFor(r.def)]
    BY <1>1, <1>2, <2>3, <2>4, CreatedParts
  <2>6. view[p].table \in [Names -> Table \cup {None}]
    BY <2>3 DEF Catalog
  <2>7. view[p].table[r.name] = TableFor(r.def)
    BY <2>5, <2>6
  <2> QED BY <2>5, <2>7, NoneAssumption DEF HasTable
<1>5. db' \in Outcomes(r, db)
  BY <1>1, <1>4, CommitOutcome DEF MarkerInv
<1> QED BY <1>2, <1>3, <1>5

\* The moment its creation commits, a collection is described as it was requested,
\* whatever another of the same name left in the file, but for what Stored says
\* is lost: the composite key's other columns are nullable, and Bool is Int.
THEOREM CreationsRoundTrip ==
    ASSUME MarkersTracked, \A r \in Requests : r.op = "create" => Expressible(r.def)
    PROVE  Spec => CreateRoundTrips
<1> DEFINE Described(p) ==
             LET r == req[p] IN
             Creates(p) => DescribeFields(db', r.name) =
                             [f \in Columns |-> IF f \in FieldsOf(r.def) THEN Stored(r.def, f) ELSE None]
<1>1. ASSUME MarkerInv, MarkerInv', Next, NEW p \in Callers PROVE Described(p)
  <2> DEFINE r == req[p]
  <2> SUFFICES ASSUME Creates(p)
               PROVE  DescribeFields(db', r.name) =
                         [f \in Columns |-> IF f \in FieldsOf(r.def) THEN Stored(r.def, f) ELSE None]
    OBVIOUS
  <2>1. /\ db' = Effect(r, db) /\ Effect(r, db) # None
        /\ db \in Catalog /\ r \in Request /\ r \in Requests
    BY <1>1, CreationCommitted DEF MarkersTracked
  <2>2. r.op = "create" /\ ~r.ifNot
    BY DEF Creates
  <2>3. Expressible(r.def)
    BY <2>1, <2>2
  <2>4. Coherent(db')
    BY <1>1 DEF MarkerInv, Coherent, HasColumn, HasTable, ColumnsOf
  <2> HIDE DEF r
  <2>5. Coherent(Effect(r, db))
    BY <2>1, <2>4
  <2> QED BY <2>1, <2>2, <2>3, <2>5, CreatedDescribed
<1>2. MarkerInv /\ MarkerInv' /\ [Next]_vars => [\A p \in Callers : Described(p)]_vars
  BY <1>1
<1> QED BY <1>2, MarkerInvariance, PTL DEF Spec, CreateRoundTrips

=============================================================================
