------------------------- MODULE SchemaReaderProofs -------------------------
(***************************************************************************)
(* A schema read never holds two connections and holds none once it        *)
(* returned, and reports every fault but that of two probes; what it       *)
(* reports is what the catalog holds while that does not change, and       *)
(* coherent when it changes once: for any readers, connections, sound      *)
(* catalogs and requests.                                                  *)
(***************************************************************************)
EXTENDS SchemaReports, SequenceTheorems, FiniteSetTheorems, TLAPS, WellFoundedInduction

-----------------------------------------------------------------------------
(* The inductive invariant.                                                *)

IsQueue(s) ==
    /\ s \in Seq({s[i] : i \in DOMAIN s})
    /\ \A i \in DOMAIN s : s[i] # {}

\* What the queries to send say of the sql.Conn: its Close comes after it, it is
\* asked for once, and OpenSourceRows needs none.
LeasesOnce(s) ==
    /\ \A i, j \in DOMAIN s : \A p \in s[i], q \in s[j] :
         /\ p.kind = "conn" /\ q.kind = "conn" => i = j /\ p = q
         /\ p.kind = "conn" /\ q.kind = "connClose" => i < j
         /\ p.in = "OpenSourceRows" => q.in = "OpenSourceRows"
    /\ \A i \in DOMAIN s : \A q \in s[i] :
         /\ q.kind \in {"conn", "connClose"} => q.in # "OpenSourceRows"
         /\ q.kind \in {"rowColumns", "sourceRows"} => q.in = "OpenSourceRows"

Has(s, kind) == \E i \in DOMAIN s : \E q \in s[i] : q.kind = kind

QueueOK(s, leased) ==
    /\ IsQueue(s) /\ LeasesOnce(s)
    /\ Has(s, "conn") => Has(s, "connClose")
    /\ leased => Has(s, "connClose") /\ ~Has(s, "conn")

IsCall(c) ==
    c = [req |-> c.req, todo |-> c.todo, got |-> c.got, answer |-> c.answer, live |-> c.live,
         outcome |-> c.outcome, from |-> c.from, since |-> c.since, hit |-> c.hit]

HoldingInv(r) ==
    /\ \A c \in Conns : owner[c] = r <=> c = on[r] \/ c = lease[r]
    /\ on[r] # NoConn /\ lease[r] # NoConn => on[r] = lease[r]
    /\ rpc[r] \in {"idle", "done", "next"} => on[r] = NoConn
    /\ rpc[r] \in {"idle", "done", "cursor"} => lease[r] = NoConn
    /\ rpc[r] = "rows" => on[r] # NoConn

CallInv(r) ==
    /\ rpc[r] # "idle" => IsCall(call[r])
    /\ rpc[r] \in {"next", "rows"} => QueueOK(call[r].todo, lease[r] # NoConn)
    /\ rpc[r] = "rows" => call[r].todo # <<>> /\ Query(r).kind \notin {"conn", "connClose"}

PoolInv ==
    /\ PoolTypeOK
    /\ rpc \in [Readers -> {"idle", "next", "rows", "leaving", "cursor", "done"}]
    /\ on \in [Readers -> Conns \cup {NoConn}]
    /\ lease \in [Readers -> Conns \cup {NoConn}]
    /\ call = [r \in Readers |-> call[r]]
    /\ \A r \in Readers : HoldingInv(r) /\ CallInv(r)

-----------------------------------------------------------------------------
(* The queries to send.                                                    *)

\* The further queries of an answer are of the operation that asked, and never
\* ask for a connection (CatalogQueries!Following).
LEMMA FollowingPlain ==
    ASSUME NEW q, NEW rows, NEW A, NEW x \in Following(q, rows, A)
    PROVE  /\ x.in = q.in
           /\ x.kind \notin {"conn", "connClose", "rowColumns"}
           /\ x.kind = "sourceRows" => q.kind = "rowColumns"
  BY DEF Following, Ask

\* Two sequences of one element, one after the other.
LEMMA TwoElements ==
    ASSUME NEW R, NEW f \in Seq(R), NEW g \in Seq(R), Len(f) = 1, Len(g) = 1
    PROVE  f \o g \in Seq(R) /\ Len(f \o g) = 2 /\ (f \o g)[1] = f[1] /\ (f \o g)[2] = g[1]
  BY ConcatProperties

\* What the loops F and G, if any, are as the front of a queue.
Loops(P, R, F, G) ==
           /\ P \in Seq(R) /\ Len(P) \in 0..2
           /\ \A i \in 1..Len(P) : P[i] # {} /\ (P[i] = F \/ (i = Len(P) /\ P[i] = G))
           /\ G # {} => Len(P) > 0 /\ P[Len(P)] = G

\* The loops that are not empty come one after the other (SchemaReader!Left).
LEMMA LoopsInOrder ==
    ASSUME NEW R, NEW F \in R, NEW G \in R
    PROVE  Loops(Left(F) \o Left(G), R, F, G)
  <1> DEFINE P == Left(F) \o Left(G)
  <1>1. CASE F = {} /\ G = {}
    BY <1>1 DEF Left, Loops
  <1>2. CASE F = {} /\ G # {}
    <2>1. Left(F) \o Left(G) = <<G>>
      BY <1>2 DEF Left
    <2> QED BY <2>1, <1>2 DEF Loops
  <1>3. CASE F # {} /\ G = {}
    <2>1. Left(F) \o Left(G) = <<F>>
      BY <1>3 DEF Left
    <2> QED BY <2>1, <1>3 DEF Loops
  <1>4. CASE F # {} /\ G # {}
    <2>1. /\ Left(F) \in Seq(R) /\ Len(Left(F)) = 1 /\ Left(F)[1] = F
          /\ Left(G) \in Seq(R) /\ Len(Left(G)) = 1 /\ Left(G)[1] = G
      BY <1>4 DEF Left
    <2>2. /\ P \in Seq(R) /\ Len(P) = 2 /\ P[1] = F /\ P[2] = G
      BY <2>1, TwoElements
    <2>3. Loops(P, R, F, G)
      <3> HIDE DEF P
      <3> QED BY <2>2, <1>4 DEF Loops
    <2> QED BY <2>3
  <1> QED BY <1>1, <1>2, <1>3, <1>4

\* A front takes the place of the first element of a sequence.
LEMMA FrontReplaced ==
    ASSUME NEW R, NEW P \in Seq(R), NEW s \in Seq(R), Len(s) > 0
    PROVE  LET t == P \o Tail(s) IN
           /\ t \in Seq(R) /\ Len(t) = Len(P) + Len(s) - 1
           /\ \A i \in 1..Len(t) : t[i] = IF i <= Len(P) THEN P[i] ELSE s[i - Len(P) + 1]
  <1>1. Tail(s) \in Seq(R) /\ Len(Tail(s)) = Len(s) - 1 /\ \A i \in 1..Len(s) - 1 : Tail(s)[i] = s[i + 1]
   OBVIOUS
  <1> QED BY <1>1

\* A sequence is one over its own elements.
LEMMA OwnElements ==
    ASSUME NEW R, NEW t \in Seq(R)
    PROVE  t \in Seq({t[i] : i \in DOMAIN t})
  <1>1. t \in [1..Len(t) -> {t[i] : i \in DOMAIN t}] /\ Len(t) \in Nat
    OBVIOUS
  <1> QED BY <1>1

\* An answer replaces the first loop of a queue by the queries it asks for and by
\* the rest of the loop; every other query keeps its place from the end
\* (SchemaReader!Answered).
LEMMA QueueStep ==
    ASSUME NEW s, IsQueue(s), s # <<>>, NEW F, NEW q \in Head(s)
    PROVE  LET t == Left(F) \o Left(Head(s) \ {q}) \o Tail(s) IN
           /\ IsQueue(t)
           /\ \E d \in Int :
                /\ \A i \in DOMAIN t : \A x \in t[i] :
                     x \in F \/ (i + d \in DOMAIN s /\ x \in s[i + d] /\ (i + d = 1 => x # q))
                /\ \A k \in DOMAIN s : \A x \in s[k] :
                     x # q \/ k > 1 => k - d \in DOMAIN t /\ x \in t[k - d]
  <1> DEFINE rest == Head(s) \ {q}
             R == {s[i] : i \in DOMAIN s} \cup {F, rest}
             P == Left(F) \o Left(rest)
             t == P \o Tail(s)
             n == Len(P)
  <1>1. /\ s \in Seq(R) /\ Len(s) \in Nat /\ Len(s) > 0 /\ DOMAIN s = 1..Len(s)
        /\ rest = s[1] \ {q} /\ \A i \in 1..Len(s) : s[i] # {}
    BY DEF IsQueue
  <1>2. /\ P \in Seq(R) /\ n \in 0..2
        /\ \A i \in 1..n : P[i] # {} /\ (P[i] = F \/ (i = n /\ P[i] = rest))
        /\ rest # {} => n > 0 /\ P[n] = rest
    <2>1. F \in R /\ rest \in R
      OBVIOUS
    <2> HIDE DEF rest, R
    <2>3. Loops(P, R, F, rest)
      BY <2>1, LoopsInOrder
    <2> HIDE DEF P
    <2> QED BY <2>3 DEF Loops
  <1>3. /\ t \in Seq(R) /\ Len(t) = n + Len(s) - 1
        /\ \A i \in 1..Len(t) : t[i] = IF i <= n THEN P[i] ELSE s[i - n + 1]
    <2> HIDE DEF rest, R, P
    <2> QED BY <1>1, <1>2, FrontReplaced
  <1>4. t = Left(F) \o Left(Head(s) \ {q}) \o Tail(s)
    OBVIOUS
  <1>5. DOMAIN t = 1..Len(t) /\ Len(t) \in Nat
    <2> HIDE DEF R, t, P
    <2> QED BY <1>1, <1>2, <1>3
  <1> HIDE DEF P, t, n, rest
  <1>6. IsQueue(t)
    <2> HIDE DEF R
    <2>1. ASSUME NEW i \in 1..Len(t) PROVE t[i] # {}
      <3>1. CASE i <= n
        BY <3>1, <1>2, <1>3
      <3>2. CASE i > n
        <4>1. t[i] = s[i - n + 1] /\ i - n + 1 \in 1..Len(s)
          BY <3>2, <1>1, <1>2, <1>3, SMTT(30)
        <4> QED BY <4>1, <1>1
      <3> QED BY <3>1, <3>2, <1>2
    <2>2. t \in Seq({t[i] : i \in DOMAIN t})
      BY <1>3, OwnElements
    <2> QED BY <2>1, <2>2, <1>5 DEF IsQueue
  <1> HIDE DEF R
  <1>7. \A i \in DOMAIN t : \A x \in t[i] :
          \/ x \in F
          \/ i + (1 - n) \in DOMAIN s /\ x \in s[i + (1 - n)] /\ (i + (1 - n) = 1 => x # q)
    <2> TAKE i \in DOMAIN t
    <2> TAKE x \in t[i]
    <2>1. CASE i <= n
      BY <2>1, <1>1, <1>2, <1>3, <1>5, SMTT(30)
    <2>2. CASE i > n
      <3>1. t[i] = s[i - n + 1] /\ i + (1 - n) = i - n + 1 /\ i - n + 1 \in 1..Len(s)
        BY <2>2, <1>1, <1>2, <1>3, <1>5
      <3>2. i + (1 - n) # 1
        BY <2>2, <1>2, <1>5, <1>1
      <3> QED BY <3>1, <3>2, <1>1
    <2> QED BY <2>1, <2>2, <1>2, <1>5
  <1>8. \A k \in DOMAIN s : \A x \in s[k] :
          x # q \/ k > 1 => k - (1 - n) \in DOMAIN t /\ x \in t[k - (1 - n)]
    <2> SUFFICES ASSUME NEW k \in DOMAIN s, NEW x \in s[k], x # q \/ k > 1
                 PROVE  k - (1 - n) \in DOMAIN t /\ x \in t[k - (1 - n)]
      OBVIOUS
    <2>1. CASE k > 1
      <3>1. k - (1 - n) \in 1..Len(t) /\ k - (1 - n) > n /\ (k - (1 - n)) - n + 1 = k
        BY <2>1, <1>1, <1>2, <1>3
      <3>2. t[k - (1 - n)] = s[(k - (1 - n)) - n + 1]
        <4> DEFINE m == k - (1 - n)
        <4>1. m \in 1..Len(t) /\ ~(m <= n)
          BY <3>1, <1>2
        <4> HIDE DEF m
        <4>2. t[m] = s[m - n + 1]
          BY <4>1, <1>3
        <4> QED BY <4>2 DEF m
      <3>3. t[k - (1 - n)] = s[k]
        BY <3>1, <3>2
      <3> QED BY <3>1, <3>3, <1>5
    <2>2. CASE k = 1
      <3>1. x \in rest /\ n > 0 /\ P[n] = rest
        BY <2>2, <1>1, <1>2
      <3>2. k - (1 - n) = n /\ n \in 1..Len(t) /\ t[n] = P[n]
        BY <3>1, <2>2, <1>1, <1>2, <1>3
      <3> QED BY <3>1, <3>2, <1>5
    <2> QED BY <2>1, <2>2, <1>1
  <1>9. 1 - n \in Int
    BY <1>2
  <1> QED
    BY <1>4, <1>6, <1>7, <1>8, <1>9

\* The i-th query of a description holds, or closes, the sql.Conn, or neither.
LeaseKind(kind, i) ==
    /\ (kind = "conn") = (i = 5)
    /\ (kind = "connClose") = (i = 8)
    /\ kind \notin {"rowColumns", "sourceRows"}

\* The queries of a description: one sql.Conn, closed after its own queries.
LEMMA DescribeKindsLease ==
    ASSUME NEW l
    PROVE  LET K == DescribeKinds(l) IN
           \E n \in 11..12 : DOMAIN K = 1..n /\ \A i \in 1..n : LeaseKind(K[i], i)
  <1> DEFINE K == DescribeKinds(l)
  <1>1. CASE l
    <2>1. K = <<"probeAny", "sidecar", "tableInfo", "indexList", "conn", "fkState", "fkList",
                "connClose", "sourceSQL", "sourceColumns", "sourceIndexes">>
      BY <1>1 DEF DescribeKinds
    <2> HIDE DEF K
    <2>2. /\ DOMAIN K = 1..11
          /\ K[1] = "probeAny" /\ K[2] = "sidecar" /\ K[3] = "tableInfo" /\ K[4] = "indexList"
          /\ K[5] = "conn" /\ K[6] = "fkState" /\ K[7] = "fkList" /\ K[8] = "connClose"
          /\ K[9] = "sourceSQL" /\ K[10] = "sourceColumns" /\ K[11] = "sourceIndexes"
      BY <2>1
    <2>3. \A i \in 1..11 : LeaseKind(K[i], i)
      BY <2>2 DEF LeaseKind
    <2> QED BY <2>2, <2>3 DEF K
  <1>2. CASE ~l
    <2>1. K = <<"probeTable", "sidecar", "tableInfo", "indexList", "conn", "fkState", "fkList",
                "connClose", "hidden", "sourceSQL", "sourceColumns", "sourceIndexes">>
      BY <1>2 DEF DescribeKinds
    <2> HIDE DEF K
    <2>2. /\ DOMAIN K = 1..12
          /\ K[1] = "probeTable" /\ K[2] = "sidecar" /\ K[3] = "tableInfo" /\ K[4] = "indexList"
          /\ K[5] = "conn" /\ K[6] = "fkState" /\ K[7] = "fkList" /\ K[8] = "connClose"
          /\ K[9] = "hidden" /\ K[10] = "sourceSQL" /\ K[11] = "sourceColumns"
          /\ K[12] = "sourceIndexes"
      BY <2>1
    <2>3. \A i \in 1..12 : LeaseKind(K[i], i)
      BY <2>2 DEF LeaseKind
    <2> QED BY <2>2, <2>3 DEF K
  <1> QED
    BY <1>1, <1>2

\* s asks the n queries of the kinds K about one object, one after the other.
Asks(s, op, K, n, of) ==
    /\ IsQueue(s) /\ DOMAIN s = 1..n /\ Len(s) = n
    /\ \A i \in 1..n : \A q \in s[i] : q.in = op /\ q.kind = K[i] /\ q.of = of
    /\ \A i \in 1..n : \A p, q \in s[i] : p = q

\* AskAll is such a queue (CatalogQueries!AskAll).
LEMMA AskAllQueue ==
    ASSUME NEW op, NEW K, NEW n \in Nat, DOMAIN K = 1..n, NEW of
    PROVE  Asks(AskAll(op, K, of), op, K, n, of)
  <1> DEFINE s == AskAll(op, K, of)
  <1>1. s = [i \in 1..n |-> {[in |-> op, kind |-> K[i], of |-> of]}]
    BY DEF AskAll, Ask
  <1> HIDE DEF s
  <1>2. s \in Seq({s[i] : i \in DOMAIN s}) /\ Len(s) = n
    BY <1>1
  <1>3. \A i \in DOMAIN s : s[i] # {}
    BY <1>1
  <1>4. /\ DOMAIN s = 1..n
        /\ \A i \in 1..n : \A q \in s[i] : q.in = op /\ q.kind = K[i] /\ q.of = of
        /\ \A i \in 1..n : \A p, q \in s[i] : p = q
    BY <1>1
  <1>5. Asks(s, op, K, n, of)
    BY <1>2, <1>3, <1>4 DEF IsQueue, Asks
  <1> QED
    BY <1>5 DEF s

\* A call of DescribeCollection starts with a queue that leases once.
LEMMA DescribeQueue ==
    ASSUME NEW name, NEW l
    PROVE  QueueOK(DescribeQueries(name, l), FALSE) /\ Has(DescribeQueries(name, l), "connClose")
  <1> DEFINE K == DescribeKinds(l)
             s == DescribeQueries(name, l)
  <1>1. PICK n \in 11..12 : DOMAIN K = 1..n /\ \A i \in 1..n : LeaseKind(K[i], i)
    BY DescribeKindsLease
  <1>2. Asks(s, "DescribeCollection", K, n, name)
    <2> HIDE DEF K
    <2> QED
      BY <1>1, AskAllQueue DEF DescribeQueries, K
  <1> HIDE DEF s, K
  <1>3. LeasesOnce(s)
    BY <1>1, <1>2 DEF LeasesOnce, LeaseKind, Asks
  <1>4. Has(s, "connClose")
    <2>1. 8 \in 1..n /\ K[8] = "connClose"
      BY <1>1 DEF LeaseKind
    <2>2. 8 \in DOMAIN s /\ s[8] # {} /\ \A q \in s[8] : q.kind = "connClose"
      BY <2>1, <1>2 DEF Asks, IsQueue
    <2> QED BY <2>2 DEF Has
  <1> QED
    BY <1>2, <1>3, <1>4 DEF QueueOK, Asks, s

\* So does any other call: it leases nothing.
LEMMA PlainQueue ==
    ASSUME NEW op, NEW K, NEW n \in Nat, DOMAIN K = 1..n, NEW of,
           \A i \in 1..n : K[i] \notin {"conn", "connClose", "sourceRows"},
           \A i \in 1..n : K[i] = "rowColumns" => op = "OpenSourceRows"
    PROVE  QueueOK(AskAll(op, K, of), FALSE)
  <1> DEFINE s == AskAll(op, K, of)
  <1>1. Asks(s, op, K, n, of)
    BY AskAllQueue
  <1> HIDE DEF s
  <1>2. \A i \in DOMAIN s : \A q \in s[i] :
          /\ q.in = op
          /\ q.kind \notin {"conn", "connClose", "sourceRows"}
          /\ q.kind = "rowColumns" => op = "OpenSourceRows"
    <2> TAKE i \in DOMAIN s
    <2> TAKE q \in s[i]
    <2>1. i \in 1..n /\ q.in = op /\ q.kind = K[i]
      BY <1>1 DEF Asks
    <2> QED BY <2>1
  <1>3. LeasesOnce(s)
    BY <1>2 DEF LeasesOnce
  <1>4. ~Has(s, "conn")
    BY <1>2 DEF Has
  <1> QED
    BY <1>1, <1>3, <1>4 DEF QueueOK, Asks, s

\* So does a call of one query.
LEMMA OneQueryQueue ==
    ASSUME NEW op, NEW of, NEW kind,
           kind \notin {"conn", "connClose", "sourceRows", "rowColumns"}
    PROVE  QueueOK(AskAll(op, <<kind>>, of), FALSE)
  <1> DEFINE K == <<kind>>
  <1>1. DOMAIN K = 1..1 /\ K[1] = kind
    OBVIOUS
  <1>2. QueueOK(AskAll(op, K, of), FALSE)
    <2> HIDE DEF K
    <2>1. \A i \in 1..1 : K[i] \notin {"conn", "connClose", "sourceRows", "rowColumns"}
      BY <1>1
    <2>2. 1 \in Nat
      OBVIOUS
    <2> QED BY <1>1, <2>1, <2>2, PlainQueue
  <1> QED BY <1>2

\* A lenient ListIndexes describes the collection after it read the indexes.
LEMMA ListIndexesQueue ==
    ASSUME NEW name, NEW l
    PROVE  QueueOK(AskAll("ListIndexes", <<"indexList">>, name) \o DescribeQueries(name, l), FALSE)
  <1> DEFINE a == AskAll("ListIndexes", <<"indexList">>, name)
             d == DescribeQueries(name, l)
             s == a \o d
             R == {a[i] : i \in DOMAIN a} \cup {d[i] : i \in DOMAIN d}
  <1>1. Asks(a, "ListIndexes", <<"indexList">>, 1, name)
    <2>1. DOMAIN <<"indexList">> = 1..1
      OBVIOUS
    <2> QED BY <2>1, AskAllQueue
  <1>2. QueueOK(d, FALSE) /\ Has(d, "connClose")
    BY DescribeQueue
  <1> HIDE DEF a, d
  <1>3. /\ a \in Seq(R) /\ d \in Seq(R) /\ Len(a) = 1 /\ a[1] # {} /\ \A q \in a[1] : q.in = "ListIndexes" /\ q.kind = "indexList"
        /\ DOMAIN d = 1..Len(d) /\ Len(d) \in Nat /\ \A i \in DOMAIN d : d[i] # {}
    BY <1>1, <1>2 DEF Asks, QueueOK, IsQueue
  <1> HIDE DEF R
  <1>4. /\ s \in Seq(R) /\ DOMAIN s = 1..Len(d) + 1 /\ s[1] = a[1]
        /\ \A i \in 1..Len(d) + 1 : i > 1 => s[i] = d[i - 1] /\ i - 1 \in DOMAIN d
    <2>1. s \in Seq(R) /\ Len(s) = 1 + Len(d)
      <3>1. a \in Seq(R) /\ d \in Seq(R)
        BY <1>3
      <3>2. s \in Seq(R)
        BY <3>1, ConcatProperties, Zenon
      <3>3. Len(s) = Len(a) + Len(d)
        BY <3>1, ConcatProperties, Zenon
      <3> QED BY <3>2, <3>3, <1>3
    <2>2. s[1] = a[1]
      BY <1>3, ConcatProperties
    <2>3. ASSUME NEW i \in 1..Len(d) + 1, i > 1 PROVE s[i] = d[i - 1] /\ i - 1 \in DOMAIN d
      <3>1. i \in 1..Len(a) + Len(d) /\ ~(i <= Len(a)) /\ i - Len(a) = i - 1
        BY <2>3, <1>3
      <3>2. s[i] = d[i - Len(a)]
        BY <3>1, <1>3, ConcatProperties
      <3> QED BY <3>1, <3>2, <1>3
    <2> QED BY <2>1, <2>2, <2>3, <1>3
  <1> HIDE DEF s
  <1>5. IsQueue(s)
    <2>1. s \in Seq({s[i] : i \in DOMAIN s})
      BY <1>4, OwnElements
    <2>2. \A i \in DOMAIN s : s[i] # {}
      <3> TAKE i \in DOMAIN s
      <3>1. CASE i = 1
        BY <3>1, <1>3, <1>4
      <3>2. CASE i # 1
        <4>1. i > 1
          BY <3>2, <1>3, <1>4
        <4> QED BY <4>1, <1>3, <1>4
      <3> QED BY <3>1, <3>2
    <2> QED BY <2>1, <2>2 DEF IsQueue
  <1>6. \A i \in DOMAIN s : \A q \in s[i] : (i = 1 /\ q \in a[1]) \/ (i > 1 /\ i - 1 \in DOMAIN d /\ q \in d[i - 1])
    BY <1>3, <1>4
  <1>7. \A i \in DOMAIN d : \A q \in d[i] : q.in # "OpenSourceRows"
    BY <1>2 DEF QueueOK, LeasesOnce, Has
  <1>8. \A i \in DOMAIN s : \A q \in s[i] :
          /\ q.in # "OpenSourceRows"
          /\ q.kind \notin {"rowColumns", "sourceRows"}
          /\ q.kind \in {"conn", "connClose"} => i > 1 /\ i - 1 \in DOMAIN d /\ q \in d[i - 1]
    BY <1>2, <1>3, <1>6, <1>7 DEF LeasesOnce, QueueOK
  <1>9. LeasesOnce(s)
    <2>1. ASSUME NEW i \in DOMAIN s, NEW j \in DOMAIN s, NEW x \in s[i], NEW y \in s[j]
          PROVE  /\ x.kind = "conn" /\ y.kind = "conn" => i = j /\ x = y
                 /\ x.kind = "conn" /\ y.kind = "connClose" => i < j
      <3>1. i \in Int /\ j \in Int
        BY <1>3, <1>4
      <3>2. DOMAIN d \subseteq Int
        BY <1>3
      <3> QED BY <3>1, <3>2, <1>2, <1>8 DEF LeasesOnce, QueueOK
    <2> QED BY <2>1, <1>8 DEF LeasesOnce
  <1>10. Has(s, "connClose")
    <2>1. PICK i \in DOMAIN d : \E q \in d[i] : q.kind = "connClose"
      BY <1>2 DEF Has
    <2>2. i + 1 \in DOMAIN s /\ s[i + 1] = d[i]
      BY <1>3, <1>4
    <2> QED BY <2>1, <2>2 DEF Has
  <1> QED
    BY <1>5, <1>9, <1>10 DEF QueueOK, s, a, d

\* Every call starts with a queue that leases once (CatalogQueries!Program).
LEMMA ProgramQueue ==
    ASSUME NEW r, r.op \in Operations
    PROVE  QueueOK(Program(r), FALSE)
  <1>1. CASE r.op = "DescribeCollection"
    BY <1>1, DescribeQueue DEF Program
  <1>2. CASE r.op = "ListIndexes" /\ r.lenient
    BY <1>2, ListIndexesQueue DEF Program
  <1>3. CASE r.op = "ListIndexes" /\ ~r.lenient
    <2> DEFINE a == AskAll(r.op, <<"indexList">>, r.name)
    <2>1. Program(r) = a \o <<>>
      BY <1>3 DEF Program
    <2>2. QueueOK(a, FALSE)
      BY OneQueryQueue
    <2> HIDE DEF a
    <2>3. a \o <<>> = a
      BY <2>2, ConcatEmptySeq DEF QueueOK, IsQueue
    <2> QED BY <2>1, <2>2, <2>3
  <1>4. CASE r.op = "ListConstraints"
    <2> DEFINE K == <<"pkProbe", "fkIds", "uniques">>
    <2>1. Program(r) = AskAll(r.op, K, r.name)
      BY <1>4 DEF Program
    <2>2. DOMAIN K = 1..3 /\ K[1] = "pkProbe" /\ K[2] = "fkIds" /\ K[3] = "uniques"
      OBVIOUS
    <2> HIDE DEF K
    <2>3. \A i \in 1..3 : K[i] \notin {"conn", "connClose", "sourceRows", "rowColumns"}
      BY <2>2
    <2>4. 3 \in Nat
      OBVIOUS
    <2> QED BY <2>1, <2>2, <2>3, <2>4, PlainQueue
  <1>5. CASE r.op \in {"ListCollections", "ListReferrers"}
    <2>1. Program(r) = AskAll(r.op, <<"tables">>, r.name)
      BY <1>5 DEF Program
    <2> QED BY <2>1, OneQueryQueue
  <1>6. CASE r.op \in {"ListViews", "ListSourceViews"}
    <2>1. Program(r) = AskAll(r.op, <<"views">>, r.name)
      BY <1>6 DEF Program
    <2> QED BY <2>1, OneQueryQueue
  <1>7. CASE r.op = "UnnamedObjects"
    <2>1. Program(r) = AskAll(r.op, <<"unnamed">>, r.name)
      BY <1>7 DEF Program
    <2> QED BY <2>1, OneQueryQueue
  <1>8. CASE r.op = "OpenSourceRows" /\ r.name # Empty
    <2> DEFINE K == <<"hidden", "rowColumns">>
    <2>1. Program(r) = AskAll(r.op, K, r.name)
      BY <1>8 DEF Program
    <2>2. DOMAIN K = 1..2 /\ K[1] = "hidden" /\ K[2] = "rowColumns"
      OBVIOUS
    <2> HIDE DEF K
    <2>3. \A i \in 1..2 : K[i] \notin {"conn", "connClose", "sourceRows"}
      BY <2>2
    <2>4. 2 \in Nat
      OBVIOUS
    <2> QED BY <1>8, <2>1, <2>2, <2>3, <2>4, PlainQueue
  <1>9. CASE r.op = "OpenSourceRows" /\ r.name = Empty
    <2>1. Program(r) = <<>>
      BY <1>9 DEF Program
    <2> QED BY <2>1 DEF QueueOK, IsQueue, LeasesOnce, Has
  <1> QED
    BY <1>1, <1>2, <1>3, <1>4, <1>5, <1>6, <1>7, <1>8, <1>9 DEF Operations

\* A queue goes on leasing once, with the lease its query leaves
\* (SchemaReader!Answered).
LEMMA AnsweredQueue ==
    ASSUME NEW s, NEW leased \in BOOLEAN, QueueOK(s, leased), s # <<>>, NEW q \in Head(s), NEW F,
           \A x \in F : /\ x.in = q.in
                        /\ x.kind \notin {"conn", "connClose", "rowColumns"}
                        /\ x.kind = "sourceRows" => q.kind = "rowColumns"
    PROVE  LET t == Left(F) \o Left(Head(s) \ {q}) \o Tail(s) IN
           /\ q.kind \notin {"conn", "connClose"} => QueueOK(t, leased)
           /\ q.kind = "conn" => ~leased /\ QueueOK(t, TRUE)
           /\ q.kind = "connClose" => QueueOK(t, FALSE)
  <1> DEFINE t == Left(F) \o Left(Head(s) \ {q}) \o Tail(s)
  <1>1. /\ IsQueue(s) /\ LeasesOnce(s) /\ 1 \in DOMAIN s /\ q \in s[1]
        /\ \A i \in DOMAIN s : i \in Int /\ i >= 1
    BY DEF QueueOK, IsQueue
  <1>2. IsQueue(t)
    BY <1>1, QueueStep
  <1>3. PICK d \in Int :
          /\ \A i \in DOMAIN t : \A x \in t[i] :
               x \in F \/ (i + d \in DOMAIN s /\ x \in s[i + d] /\ (i + d = 1 => x # q))
          /\ \A k \in DOMAIN s : \A x \in s[k] :
               x # q \/ k > 1 => k - d \in DOMAIN t /\ x \in t[k - d]
    BY <1>1, QueueStep
  <1> HIDE DEF t
  <1>4. \A i \in DOMAIN t : i \in Int
    BY <1>2 DEF IsQueue
  <1>5. LeasesOnce(t)
    <2>1. ASSUME NEW i \in DOMAIN t, NEW j \in DOMAIN t, NEW x \in t[i], NEW y \in t[j]
          PROVE  /\ x.kind = "conn" /\ y.kind = "conn" => i = j /\ x = y
                 /\ x.kind = "conn" /\ y.kind = "connClose" => i < j
      <3>1. ASSUME x.kind = "conn", y.kind \in {"conn", "connClose"}
            PROVE  /\ i + d \in DOMAIN s /\ x \in s[i + d]
                   /\ j + d \in DOMAIN s /\ y \in s[j + d]
        BY <3>1, <1>3
      <3>2. i \in Int /\ j \in Int
        BY <1>4
      <3> QED BY <3>1, <3>2, <1>1 DEF LeasesOnce
    <2>2. ASSUME NEW i \in DOMAIN t, NEW x \in t[i]
          PROVE  /\ x.in = "OpenSourceRows" => q.in = "OpenSourceRows"
                 /\ q.in = "OpenSourceRows" => x.in = "OpenSourceRows"
                 /\ x.kind \in {"conn", "connClose"} => x.in # "OpenSourceRows"
                 /\ x.kind \in {"rowColumns", "sourceRows"} => x.in = "OpenSourceRows"
      <3>1. CASE x \in F
        BY <3>1, <1>1 DEF LeasesOnce
      <3>2. CASE i + d \in DOMAIN s /\ x \in s[i + d]
        BY <3>2, <1>1 DEF LeasesOnce
      <3> QED BY <3>1, <3>2, <1>3
    <2> QED BY <2>1, <2>2 DEF LeasesOnce
  <1>6. Has(t, "conn") => Has(s, "conn")
    BY <1>3 DEF Has
  <1>7. q.kind # "connClose" /\ Has(s, "connClose") => Has(t, "connClose")
    BY <1>3 DEF Has
  <1>8. q.kind = "conn" => Has(s, "conn") /\ ~Has(t, "conn")
    <2> SUFFICES ASSUME q.kind = "conn" PROVE Has(s, "conn") /\ ~Has(t, "conn")
      OBVIOUS
    <2>1. Has(s, "conn")
      BY <1>1 DEF Has
    <2>2. ASSUME NEW i \in DOMAIN t, NEW x \in t[i], x.kind = "conn" PROVE FALSE
      BY <2>2, <1>1, <1>3 DEF LeasesOnce
    <2> QED BY <2>1, <2>2 DEF Has
  <1>9. q.kind = "connClose" => ~Has(t, "conn")
    <2> SUFFICES ASSUME q.kind = "connClose", NEW i \in DOMAIN t, NEW x \in t[i], x.kind = "conn"
                 PROVE  FALSE
      BY DEF Has
    <2>1. i + d \in DOMAIN s /\ x \in s[i + d]
      BY <1>3
    <2> QED BY <2>1, <1>1 DEF LeasesOnce
  <1> QED
    BY <1>2, <1>5, <1>6, <1>7, <1>8, <1>9 DEF QueueOK, t

\* OpenSourceRows asks its queries outside a sql.Conn.
LEMMA NoLeaseForRows ==
    ASSUME NEW s, NEW leased \in BOOLEAN, QueueOK(s, leased), s # <<>>, NEW q \in Head(s),
           q.kind = "sourceRows"
    PROVE  ~leased
  <1>1. 1 \in DOMAIN s /\ q \in s[1]
    BY DEF QueueOK, IsQueue
  <1> QED
    BY <1>1 DEF QueueOK, LeasesOnce, Has

-----------------------------------------------------------------------------
(* The steps.                                                              *)

\* Only the read r, and the connections it takes or gives back, change.
Frame(r) ==
    /\ PoolTypeOK'
    /\ rpc' \in [Readers -> {"idle", "next", "rows", "leaving", "cursor", "done"}]
    /\ on' \in [Readers -> Conns \cup {NoConn}]
    /\ lease' \in [Readers -> Conns \cup {NoConn}]
    /\ call' = [p \in Readers |-> call'[p]]
    /\ \A p \in Readers \ {r} :
         /\ rpc'[p] = rpc[p] /\ on'[p] = on[p] /\ lease'[p] = lease[p] /\ call'[p] = call[p]
         /\ \A c \in Conns : (owner'[c] = p) = (owner[c] = p)

\* A step of one read leaves the invariant to the others.
LEMMA FrameKeeps ==
    ASSUME PoolInv, NEW r \in Readers, Frame(r), HoldingInv(r)', CallInv(r)'
    PROVE  PoolInv'
  <1>1. ASSUME NEW p \in Readers \ {r} PROVE HoldingInv(p)' /\ CallInv(p)'
    <2>1. HoldingInv(p)'
      BY <1>1 DEF PoolInv, Frame, HoldingInv
    <2>2. CallInv(p)'
      BY <1>1 DEF PoolInv, Frame, CallInv, Query
    <2> QED BY <2>1, <2>2
  <1> QED
    BY <1>1 DEF PoolInv, Frame

\* The query in hand is one of the first loop.
LEMMA QueryInHand ==
    ASSUME PoolInv, NEW r \in Readers, rpc[r] \in {"next", "rows"}, call[r].todo # <<>>
    PROVE  Query(r) \in Head(call[r].todo)
  <1> DEFINE s == call[r].todo
  <1>1. IsQueue(s) /\ s # <<>>
    BY DEF PoolInv, CallInv, QueueOK
  <1>2. Head(s) # {}
    <2> HIDE DEF s
    <2> QED BY <1>1 DEF IsQueue
  <1> QED
    BY <1>2 DEF Query

\* What an answer makes of the calls.
LEMMA AnsweredCalls ==
    ASSUME PoolInv, NEW r \in Readers, rpc[r] \in {"next", "rows"}, call[r].todo # <<>>, NEW answer
    PROVE  LET new == Answered(r, answer)
               q == Query(r)
               leased == lease[r] # NoConn
           IN /\ new = [p \in Readers |-> new[p]]
              /\ \A p \in Readers \ {r} : new[p] = call[p]
              /\ IsCall(new[r])
              /\ q.kind \notin {"conn", "connClose"} => QueueOK(new[r].todo, leased)
              /\ q.kind = "conn" => ~leased /\ QueueOK(new[r].todo, TRUE)
              /\ q.kind = "connClose" => QueueOK(new[r].todo, FALSE)
  <1> DEFINE q == Query(r)
             got == Learn(call[r].got, q, answer)
             F == Following(q, answer, got)
             s == call[r].todo
             t == Left(F) \o Left(Head(s) \ {q}) \o Tail(s)
             new == Answered(r, answer)
  <1>1. q \in Head(s)
    BY QueryInHand
  <1>2. QueueOK(s, lease[r] # NoConn)
    BY DEF PoolInv, CallInv
  <1>3. \A x \in F : /\ x.in = q.in
                     /\ x.kind \notin {"conn", "connClose", "rowColumns"}
                     /\ x.kind = "sourceRows" => q.kind = "rowColumns"
    BY FollowingPlain
  <1>4. /\ q.kind \notin {"conn", "connClose"} => QueueOK(t, lease[r] # NoConn)
        /\ q.kind = "conn" => ~(lease[r] # NoConn) /\ QueueOK(t, TRUE)
        /\ q.kind = "connClose" => QueueOK(t, FALSE)
    <2> HIDE DEF q, F, s
    <2>1. (lease[r] # NoConn) \in BOOLEAN /\ s # <<>>
      BY DEF s
    <2> QED BY <1>1, <1>2, <1>3, <2>1, AnsweredQueue
  <1>5. call = [p \in Readers |-> call[p]] /\ IsCall(call[r])
    BY DEF PoolInv, CallInv
  <1>6. new = [call EXCEPT ![r] = [call[r] EXCEPT !.got = got, !.answer = Nil, !.todo = t]]
    BY <1>5 DEF Answered
  <1> HIDE DEF got, t, q, new
  <1>7. new = [p \in Readers |-> new[p]] /\ \A p \in Readers \ {r} : new[p] = call[p]
    BY <1>5, <1>6
  <1>8. IsCall(new[r]) /\ new[r].todo = t
    BY <1>5, <1>6 DEF IsCall
  <1> QED
    BY <1>4, <1>7, <1>8 DEF new, q

\* A call begins with a queue that leases once.
LEMMA CallKeeps ==
    ASSUME PoolInv, SchemaReaderAssumption, ConnPoolAssumption,
           NEW r \in Readers, NEW q \in Requests, Call(r, q)
    PROVE  PoolInv'
  <1>1. Frame(r)
    BY DEF PoolInv, Call, Frame, Goto, poolVars, world, PoolTypeOK
  <1>2. HoldingInv(r)'
    BY DEF PoolInv, HoldingInv, Call, Goto, poolVars
  <1>3. IsCall(NewCall(q)) /\ NewCall(q).todo = Program(q)
    BY DEF IsCall, NewCall
  <1>4. QueueOK(Program(q), FALSE)
    BY ProgramQueue DEF SchemaReaderAssumption
  <1>5. rpc'[r] = "next" /\ call'[r] = NewCall(q) /\ lease'[r] = NoConn
    BY DEF PoolInv, HoldingInv, Call, Goto
  <1>6. CallInv(r)'
    <2> HIDE DEF NewCall
    <2> QED BY <1>3, <1>4, <1>5 DEF CallInv
  <1> QED
    BY <1>1, <1>2, <1>6, FrameKeeps

\* A query is sent on the connection of the sql.Conn or on a free one.
LEMMA BeginKeeps ==
    ASSUME PoolInv, SchemaReaderAssumption, ConnPoolAssumption, NEW r \in Readers, Begin(r)
    PROVE  PoolInv'
  <1>1. /\ rpc[r] = "next" /\ rpc' = [rpc EXCEPT ![r] = "rows"]
        /\ call[r].todo # <<>> /\ Query(r).kind \notin {"conn", "connClose"}
        /\ lease' = lease /\ pool' = pool
        /\ call' = [call EXCEPT ![r].answer = RowsOf(Query(r), cat)]
    BY DEF Begin, Sending, Goto, world
  <1>2. PICK c \in Conns :
          /\ on' = [on EXCEPT ![r] = c]
          /\ \/ lease[r] = c /\ owner' = owner
             \/ lease[r] = NoConn /\ owner[c] = Nobody /\ owner' = [owner EXCEPT ![c] = r]
    BY DEF Begin, Take, PoolInv
  <1>3. Frame(r)
    <2>1. PoolTypeOK'
      BY <1>1, <1>2 DEF PoolInv, PoolTypeOK
    <2>2. \A p \in Readers \ {r} : \A d \in Conns : (owner'[d] = p) = (owner[d] = p)
      BY <1>1, <1>2 DEF PoolInv, PoolTypeOK, SchemaReaderAssumption, ConnPoolAssumption
    <2>3. /\ rpc' \in [Readers -> {"idle", "next", "rows", "leaving", "cursor", "done"}]
          /\ on' \in [Readers -> Conns \cup {NoConn}] /\ lease' \in [Readers -> Conns \cup {NoConn}]
      BY <1>1, <1>2 DEF PoolInv
    <2>4. \A p \in Readers \ {r} : rpc'[p] = rpc[p] /\ on'[p] = on[p] /\ lease'[p] = lease[p]
      BY <1>1, <1>2 DEF PoolInv
    <2>5. call' = [p \in Readers |-> call'[p]] /\ \A p \in Readers \ {r} : call'[p] = call[p]
      BY <1>1, <1>2 DEF PoolInv
    <2> QED BY <2>1, <2>2, <2>3, <2>4, <2>5 DEF Frame
  <1>4. HoldingInv(r)'
    BY <1>1, <1>2 DEF PoolInv, HoldingInv, PoolTypeOK, SchemaReaderAssumption, ConnPoolAssumption
  <1>5. call'[r].todo = call[r].todo /\ IsCall(call'[r])
    BY <1>1 DEF PoolInv, CallInv, IsCall
  <1>6. CallInv(r)'
    BY <1>1, <1>5 DEF PoolInv, CallInv, Query
  <1> QED
    BY <1>3, <1>4, <1>6, FrameKeeps

\* The rows of the query in hand are closed: the connection is free again, unless
\* the sql.Conn holds it.
LEMMA RowsClosed ==
    ASSUME PoolInv, SchemaReaderAssumption, ConnPoolAssumption, NEW r \in Readers,
           rpc[r] = "rows", CloseRows(r), pool' = pool, lease' = lease,
           rpc' = [rpc EXCEPT ![r] = "next"],
           call' = [p \in Readers |-> call'[p]],
           \A p \in Readers \ {r} : call'[p] = call[p]
    PROVE  Frame(r) /\ HoldingInv(r)'
  <1>1. /\ on' = [on EXCEPT ![r] = NoConn] /\ on[r] \in Conns
        /\ \/ lease[r] = NoConn /\ owner' = [c \in Conns |-> IF c = on[r] THEN Nobody ELSE owner[c]]
           \/ lease[r] = on[r] /\ owner' = owner
    BY DEF CloseRows, GiveBack, PoolInv, HoldingInv
  <1>2. \A c \in Conns : owner[c] = r <=> c = on[r] \/ c = lease[r]
    BY DEF PoolInv, HoldingInv
  <1>3. Frame(r)
    BY <1>1, <1>2 DEF PoolInv, Frame, PoolTypeOK, SchemaReaderAssumption, ConnPoolAssumption
  <1>4. HoldingInv(r)'
    BY <1>1, <1>2 DEF PoolInv, HoldingInv, PoolTypeOK, SchemaReaderAssumption, ConnPoolAssumption
  <1> QED
    BY <1>3, <1>4

\* The rows are read to their end.
LEMMA DrainKeeps ==
    ASSUME PoolInv, SchemaReaderAssumption, ConnPoolAssumption, NEW r \in Readers, Drain(r)
    PROVE  PoolInv'
  <1> DEFINE new == Answered(r, call[r].answer)
  <1>1. /\ rpc[r] = "rows" /\ rpc' = [rpc EXCEPT ![r] = "next"] /\ call' = new /\ CloseRows(r)
        /\ pool' = pool /\ lease' = lease
    BY DEF Drain, Goto
  <1>2. call[r].todo # <<>> /\ Query(r).kind \notin {"conn", "connClose"}
    BY <1>1 DEF PoolInv, CallInv
  <1>3. /\ new = [p \in Readers |-> new[p]] /\ \A p \in Readers \ {r} : new[p] = call[p]
        /\ IsCall(new[r]) /\ QueueOK(new[r].todo, lease[r] # NoConn)
    BY <1>1, <1>2, AnsweredCalls
  <1> HIDE DEF new
  <1>4. Frame(r) /\ HoldingInv(r)'
    BY <1>1, <1>3, RowsClosed
  <1>5. rpc'[r] = "next"
    BY <1>1 DEF PoolInv
  <1>6. CallInv(r)'
    BY <1>1, <1>3, <1>5 DEF CallInv
  <1> QED
    BY <1>4, <1>6, FrameKeeps

\* A row refuses the operation.
LEMMA RefuseKeeps ==
    ASSUME PoolInv, NEW r \in Readers, Refuse(r)
    PROVE  PoolInv'
  <1>1. Frame(r) /\ HoldingInv(r)'
    BY DEF PoolInv, Refuse, Frame, Goto, poolVars, world, PoolTypeOK, HoldingInv
  <1>2. CallInv(r)'
    BY DEF PoolInv, Refuse, Goto, CallInv
  <1> QED
    BY <1>1, <1>2, FrameKeeps

\* A query fails: the call leaves, or takes the failure for an answer.
LEMMA FailKeeps ==
    ASSUME PoolInv, SchemaReaderAssumption, ConnPoolAssumption, NEW r \in Readers, Fail(r),
           rpc[r] \in {"next", "rows"}, call[r].todo # <<>>
    PROVE  PoolInv'
  <1> DEFINE sw == Swallows(Query(r), rpc[r] = "rows")
             new == Answered(r, FALSE)
  <1>1. pool' = pool /\ lease' = lease
    BY DEF Fail
  <1>2. CASE sw
    <2>1. PICK h : /\ call' = [new EXCEPT ![r].hit = h] /\ rpc' = [rpc EXCEPT ![r] = "next"]
                   /\ IF rpc[r] = "rows" THEN CloseRows(r) ELSE owner' = owner /\ on' = on
      BY <1>2 DEF Fail, Goto
    <2>2. Query(r).kind \notin {"conn", "connClose"}
      BY <1>2 DEF Swallows
    <2>3. /\ new = [p \in Readers |-> new[p]] /\ \A p \in Readers \ {r} : new[p] = call[p]
          /\ IsCall(new[r]) /\ QueueOK(new[r].todo, lease[r] # NoConn)
      BY <2>2, AnsweredCalls
    <2> HIDE DEF new
    <2>4. /\ call' = [p \in Readers |-> call'[p]] /\ \A p \in Readers \ {r} : call'[p] = call[p]
          /\ IsCall(call'[r]) /\ call'[r].todo = new[r].todo
      BY <2>1, <2>3 DEF IsCall
    <2>5. Frame(r) /\ HoldingInv(r)'
      <3>1. CASE rpc[r] = "rows"
        BY <3>1, <1>1, <2>1, <2>4, RowsClosed
      <3>2. CASE rpc[r] = "next"
        <4>1. owner' = owner /\ on' = on
          BY <3>2, <2>1
        <4> QED
          BY <4>1, <3>2, <1>1, <2>1, <2>4 DEF PoolInv, Frame, PoolTypeOK, HoldingInv
      <3> QED BY <3>1, <3>2
    <2>6. rpc'[r] = "next"
      BY <2>1 DEF PoolInv
    <2>7. CallInv(r)'
      BY <1>1, <2>3, <2>4, <2>6 DEF CallInv
    <2> QED
      BY <2>5, <2>7, FrameKeeps
  <1>3. CASE ~sw
    <2>1. PICK h : /\ call' = [call EXCEPT ![r].hit = h] /\ rpc' = [rpc EXCEPT ![r] = "leaving"]
                   /\ owner' = owner /\ on' = on
      BY <1>3 DEF Fail, Goto
    <2>2. Frame(r)
      BY <1>1, <2>1 DEF PoolInv, Frame, PoolTypeOK
    <2>4. HoldingInv(r)'
      BY <1>1, <2>1 DEF PoolInv, HoldingInv
    <2>3. CallInv(r)'
      BY <1>1, <2>1 DEF PoolInv, CallInv, IsCall
    <2> QED
      BY <2>2, <2>3, <2>4, FrameKeeps
  <1> QED
    BY <1>2, <1>3

\* readForeignKeys takes its sql.Conn.
LEMMA HoldConnKeeps ==
    ASSUME PoolInv, SchemaReaderAssumption, ConnPoolAssumption, NEW r \in Readers, HoldConn(r)
    PROVE  PoolInv'
  <1> DEFINE new == Answered(r, TRUE)
  <1>1. /\ rpc[r] = "next" /\ call[r].todo # <<>> /\ Query(r).kind = "conn"
        /\ call' = new /\ pool' = pool /\ rpc' = rpc /\ on' = on
    BY DEF HoldConn, Sending, world
  <1>2. PICK c \in Conns : /\ owner[c] = Nobody /\ owner' = [owner EXCEPT ![c] = r]
                          /\ lease' = [lease EXCEPT ![r] = c]
    BY DEF HoldConn, Take
  <1>3. /\ new = [p \in Readers |-> new[p]] /\ \A p \in Readers \ {r} : new[p] = call[p]
        /\ IsCall(new[r]) /\ lease[r] = NoConn /\ QueueOK(new[r].todo, TRUE)
    BY <1>1, AnsweredCalls
  <1> HIDE DEF new
  <1>4. Frame(r)
    BY <1>1, <1>2, <1>3 DEF PoolInv, Frame, PoolTypeOK, SchemaReaderAssumption, ConnPoolAssumption
  <1>5. HoldingInv(r)'
    BY <1>1, <1>2, <1>3 DEF PoolInv, HoldingInv, PoolTypeOK, SchemaReaderAssumption, ConnPoolAssumption
  <1>6. lease'[r] # NoConn /\ rpc'[r] = "next"
    BY <1>1, <1>2 DEF PoolInv, ConnPoolAssumption
  <1>7. CallInv(r)'
    BY <1>1, <1>3, <1>6 DEF CallInv
  <1> QED
    BY <1>4, <1>5, <1>7, FrameKeeps

\* readForeignKeys gives its sql.Conn back.
LEMMA FreeConnKeeps ==
    ASSUME PoolInv, SchemaReaderAssumption, ConnPoolAssumption, NEW r \in Readers, FreeConn(r)
    PROVE  PoolInv'
  <1> DEFINE new == Answered(r, TRUE)
  <1>1. /\ rpc[r] = "next" /\ call[r].todo # <<>> /\ Query(r).kind = "connClose"
        /\ call' = new /\ pool' = pool /\ rpc' = rpc /\ on' = on
        /\ owner' = [c \in Conns |-> IF c = lease[r] THEN Nobody ELSE owner[c]]
        /\ lease' = [lease EXCEPT ![r] = NoConn]
    BY DEF FreeConn, Sending, world, GiveBack
  <1>2. /\ new = [p \in Readers |-> new[p]] /\ \A p \in Readers \ {r} : new[p] = call[p]
        /\ IsCall(new[r]) /\ QueueOK(new[r].todo, FALSE)
    BY <1>1, AnsweredCalls
  <1> HIDE DEF new
  <1>3. on[r] = NoConn /\ \A c \in Conns : owner[c] = r <=> c = on[r] \/ c = lease[r]
    BY <1>1 DEF PoolInv, HoldingInv
  <1>4. Frame(r)
    BY <1>1, <1>2, <1>3 DEF PoolInv, Frame, PoolTypeOK, SchemaReaderAssumption, ConnPoolAssumption
  <1>5. HoldingInv(r)'
    BY <1>1, <1>3 DEF PoolInv, HoldingInv, PoolTypeOK, SchemaReaderAssumption, ConnPoolAssumption
  <1>6. lease'[r] = NoConn /\ rpc'[r] = "next"
    BY <1>1 DEF PoolInv
  <1>7. CallInv(r)'
    BY <1>1, <1>2, <1>6 DEF CallInv
  <1> QED
    BY <1>4, <1>5, <1>7, FrameKeeps

\* Every query is answered: no sql.Conn is left, its Close was among them.
LEMMA FinishKeeps ==
    ASSUME PoolInv, NEW r \in Readers, Finish(r)
    PROVE  PoolInv'
  <1>1. /\ rpc[r] = "next" /\ call[r].todo = <<>> /\ rpc' = [rpc EXCEPT ![r] = "done"]
        /\ owner' = owner /\ pool' = pool /\ on' = on /\ lease' = lease
        /\ \E o : call' = [call EXCEPT ![r].outcome = o]
    BY DEF Finish, Goto, poolVars
  <1>2. lease[r] = NoConn
    <2>1. QueueOK(<<>>, lease[r] # NoConn)
      BY <1>1 DEF PoolInv, CallInv
    <2> QED BY <2>1 DEF QueueOK, Has
  <1>3. Frame(r) /\ HoldingInv(r)'
    BY <1>1, <1>2, SMTT(30) DEF PoolInv, Frame, PoolTypeOK, HoldingInv
  <1>4. CallInv(r)'
    BY <1>1 DEF PoolInv, CallInv, IsCall
  <1> QED
    BY <1>3, <1>4, FrameKeeps

\* The deferred calls give back whatever the read held.
LEMMA LeaveKeeps ==
    ASSUME PoolInv, SchemaReaderAssumption, ConnPoolAssumption, NEW r \in Readers, Leave(r)
    PROVE  PoolInv'
  <1>1. /\ rpc[r] = "leaving" /\ rpc' = [rpc EXCEPT ![r] = "done"] /\ pool' = pool
        /\ owner' = [c \in Conns |-> IF c = on[r] \/ c = lease[r] THEN Nobody ELSE owner[c]]
        /\ on' = [on EXCEPT ![r] = NoConn] /\ lease' = [lease EXCEPT ![r] = NoConn]
        /\ call' = [call EXCEPT ![r].outcome = "error"]
    BY DEF Leave, Goto, GiveBack
  <1>2. \A c \in Conns : owner[c] = r <=> c = on[r] \/ c = lease[r]
    BY DEF PoolInv, HoldingInv
  <1>3. Frame(r)
    <2>1. PoolTypeOK'
      BY <1>1, <1>2 DEF PoolInv, PoolTypeOK
    <2>2. \A p \in Readers \ {r} : \A c \in Conns : (owner'[c] = p) = (owner[c] = p)
      BY <1>1, <1>2 DEF PoolInv, PoolTypeOK, SchemaReaderAssumption, ConnPoolAssumption
    <2>3. /\ rpc' \in [Readers -> {"idle", "next", "rows", "leaving", "cursor", "done"}]
          /\ on' \in [Readers -> Conns \cup {NoConn}] /\ lease' \in [Readers -> Conns \cup {NoConn}]
      BY <1>1, <1>2 DEF PoolInv
    <2>4. \A p \in Readers \ {r} : rpc'[p] = rpc[p] /\ on'[p] = on[p] /\ lease'[p] = lease[p]
      BY <1>1, <1>2 DEF PoolInv
    <2>5. call' = [p \in Readers |-> call'[p]] /\ \A p \in Readers \ {r} : call'[p] = call[p]
      BY <1>1, <1>2 DEF PoolInv
    <2> QED BY <2>1, <2>2, <2>3, <2>4, <2>5 DEF Frame
  <1>4. HoldingInv(r)'
    BY <1>1, <1>2 DEF PoolInv, HoldingInv, PoolTypeOK, SchemaReaderAssumption, ConnPoolAssumption
  <1>5. CallInv(r)'
    BY <1>1 DEF PoolInv, CallInv, IsCall
  <1> QED
    BY <1>3, <1>4, <1>5, FrameKeeps

\* The context of a call ends.
LEMMA CancelKeeps ==
    ASSUME PoolInv, NEW r \in Readers, Cancel(r)
    PROVE  PoolInv'
  <1>1. /\ call' = [call EXCEPT ![r].live = FALSE] /\ rpc' = rpc /\ on' = on /\ lease' = lease
        /\ owner' = owner /\ pool' = pool
    BY DEF Cancel, poolVars
  <1>2. Frame(r) /\ HoldingInv(r)'
    BY <1>1 DEF PoolInv, Frame, PoolTypeOK, HoldingInv
  <1>3. rpc[r] # "idle" /\ IsCall(call[r])
    BY DEF Cancel, InCall, PoolInv, CallInv
  <1>4. IsCall(call'[r]) /\ call'[r].todo = call[r].todo
    BY <1>1, <1>3 DEF PoolInv, IsCall
  <1>5. CallInv(r)'
    BY <1>1, <1>4 DEF PoolInv, CallInv, Query
  <1> QED
    BY <1>2, <1>5, FrameKeeps

\* DDL commits: the calls only count it.
LEMMA CommitKeeps ==
    ASSUME PoolInv, Commit
    PROVE  PoolInv'
  <1>1. /\ rpc' = rpc /\ on' = on /\ lease' = lease /\ owner' = owner /\ pool' = pool
        /\ call' = [r \in Readers |-> IF InCall(r) THEN [call[r] EXCEPT !.since = @ + 1] ELSE call[r]]
    BY DEF Commit, poolVars
  <1>2. ASSUME NEW r \in Readers PROVE HoldingInv(r)' /\ CallInv(r)'
    <2>1. call'[r] = call[r] \/ call'[r] = [call[r] EXCEPT !.since = @ + 1]
      BY <1>1
    <2>2. HoldingInv(r)'
      BY <1>1, <1>2 DEF PoolInv, HoldingInv
    <2>3. CASE rpc[r] = "idle"
      BY <1>1, <1>2, <2>2, <2>3 DEF PoolInv, CallInv
    <2>4. CASE rpc[r] # "idle"
      <3>1. IsCall(call[r])
        BY <1>2, <2>4 DEF PoolInv, CallInv
      <3>2. IsCall(call'[r]) /\ call'[r].todo = call[r].todo
        BY <2>1, <3>1 DEF IsCall
      <3> QED
        BY <1>1, <1>2, <2>2, <3>2 DEF PoolInv, CallInv, Query
    <2> QED BY <2>2, <2>3, <2>4
  <1> QED
    BY <1>1, <1>2 DEF PoolInv, PoolTypeOK

\* Nothing the invariant is about changes, but the state of the pool.
LEMMA PoolInvStutters ==
    ASSUME PoolInv, pool' \in {"none", "open", "closed"}, UNCHANGED <<owner, rpc, on, lease, call>>
    PROVE  PoolInv'
  BY DEF PoolInv, PoolTypeOK, HoldingInv, CallInv, Query

\* Every step of the schema reads keeps the invariant.
LEMMA PoolInvStep ==
    ASSUME PoolInv, SchemaReaderAssumption, ConnPoolAssumption, [ReaderNext]_rvars
    PROVE  PoolInv'
  <1>1. ASSUME NEW r \in Readers, NEW q \in Requests, Call(r, q) PROVE PoolInv'
    BY <1>1, CallKeeps
  <1>2. ASSUME NEW r \in Readers, Progress(r) \/ Fault(r) \/ Cancel(r) PROVE PoolInv'
    <2>1. ASSUME Fault(r) \/ Interrupt(r) PROVE PoolInv'
      <3>1. Fail(r)
        BY <2>1 DEF Fault, Interrupt
      <3>2. rpc[r] \in {"next", "rows"} /\ call[r].todo # <<>>
        BY <2>1, <1>2 DEF Fault, Interrupt, Sending, PoolInv, CallInv
      <3> QED BY <1>2, <3>1, <3>2, FailKeeps
    <2> QED
      BY <1>2, <2>1, BeginKeeps, DrainKeeps, RefuseKeeps, HoldConnKeeps, FreeConnKeeps, FinishKeeps,
         LeaveKeeps, CancelKeeps DEF Progress
  <1>3. CASE Commit
    BY <1>3, CommitKeeps
  <1>4. CASE ClosePool
    BY <1>4, PoolInvStutters DEF ClosePool, world
  <1>5. CASE UNCHANGED rvars
    BY <1>5, PoolInvStutters DEF rvars, poolVars, PoolInv, PoolTypeOK
  <1> QED
    BY <1>1, <1>2, <1>3, <1>4, <1>5 DEF ReaderNext, ReadersRun

\* No call has begun.
LEMMA PoolInvInit ==
    ASSUME SchemaReaderAssumption, ConnPoolAssumption, pool \in {"none", "open"}, AllFree, ReadersInit
    PROVE  PoolInv
  BY DEF AllFree, ReadersInit, PoolInv, PoolTypeOK, HoldingInv, CallInv, SchemaReaderAssumption,
         ConnPoolAssumption

-----------------------------------------------------------------------------
(* What a step does to the result of a call.                               *)

\* The probes whose error the code does not look at (SchemaReader!Swallows).
Probes == {"autoInc", "pkProbe"}

\* What a call still asks and was refused changes nothing it was asked.
Untouched(c, d) == d.req = c.req /\ d.outcome = c.outcome /\ d.hit = c.hit

\* Taking in an answer leaves what was asked, the result and the hits.
LEMMA AnsweredUntouched ==
    ASSUME PoolInv, NEW r \in Readers, rpc[r] \in {"next", "rows"}, NEW answer
    PROVE  Untouched(call[r], Answered(r, answer)[r])
  <1>1. call = [p \in Readers |-> call[p]] /\ IsCall(call[r])
    BY DEF PoolInv, CallInv
  <1>2. PICK g, t : Answered(r, answer)
                      = [call EXCEPT ![r] = [call[r] EXCEPT !.got = g, !.answer = Nil, !.todo = t]]
    BY <1>1 DEF Answered
  <1>3. Answered(r, answer)[r] = [call[r] EXCEPT !.got = g, !.answer = Nil, !.todo = t]
    BY <1>1, <1>2
  <1> QED
    BY <1>1, <1>3 DEF IsCall, Untouched

\* A step of the call r leaves the other calls alone, and of r what it was asked;
\* it ends with a result, and a query whose failure it goes on after is a probe.
StepOf(r) ==
    /\ rpc[r] \in {"next", "rows", "leaving"}
    /\ rpc'[r] \in {"next", "rows", "leaving", "done"}
    /\ \A p \in Readers \ {r} : rpc'[p] = rpc[p] /\ call'[p] = call[p]
    /\ call'[r].req = call[r].req
    /\ IF rpc'[r] = "done" THEN call'[r].outcome \in {"ok", "error"}
                           ELSE call'[r].outcome = call[r].outcome
    /\ rpc[r] = "leaving" => \/ rpc'[r] = "leaving"
                             \/ rpc'[r] = "done" /\ call'[r].outcome = "error"
    /\ rpc'[r] # "leaving" => call'[r].hit \subseteq call[r].hit \cup Probes

\* So does a failure but for its hit, that of a probe where the call goes on.
LEMMA FailSteps ==
    ASSUME PoolInv, NEW r \in Readers, Fail(r), rpc[r] \in {"next", "rows"}
    PROVE  StepOf(r)
  <1> DEFINE q == Query(r)
             new == Answered(r, FALSE)
             sw == Swallows(q, rpc[r] = "rows")
  <1>1. call = [p \in Readers |-> call[p]] /\ IsCall(call[r]) /\ rpc = [p \in Readers |-> rpc[p]]
    BY DEF PoolInv, CallInv
  <1>2. CASE sw
    <2>1. q.kind \in Probes
      BY <1>2 DEF Swallows, Probes
    <2>2. call' = [new EXCEPT ![r].hit = @ \cup {q.kind}] /\ rpc' = [rpc EXCEPT ![r] = "next"]
      BY <1>2 DEF Fail, Goto
    <2>3. Untouched(call[r], new[r])
      BY AnsweredUntouched
    <2>4. /\ new = [p \in Readers |-> new[p]] /\ \A p \in Readers \ {r} : new[p] = call[p]
      BY <1>1 DEF Answered
    <2>5. IsCall(new[r])
      BY <1>1 DEF Answered, IsCall
    <2> HIDE DEF new, q
    <2>6. /\ call'[r] = [new[r] EXCEPT !.hit = @ \cup {q.kind}]
          /\ \A p \in Readers \ {r} : call'[p] = call[p]
      BY <2>2, <2>4
    <2>7. /\ call'[r].req = call[r].req /\ call'[r].outcome = call[r].outcome
          /\ call'[r].hit = call[r].hit \cup {q.kind}
      BY <2>3, <2>5, <2>6 DEF IsCall, Untouched
    <2>8. rpc'[r] = "next" /\ \A p \in Readers \ {r} : rpc'[p] = rpc[p]
      BY <1>1, <2>2
    <2>9. call'[r].hit \subseteq call[r].hit \cup Probes
      BY <2>1, <2>7
    <2> QED BY <2>6, <2>7, <2>8, <2>9 DEF StepOf
  <1>3. CASE ~sw
    <2>1. PICK h : /\ call' = [call EXCEPT ![r].hit = h] /\ rpc' = [rpc EXCEPT ![r] = "leaving"]
      BY <1>3 DEF Fail, Goto
    <2> QED BY <1>1, <2>1 DEF StepOf, IsCall
  <1> QED
    BY <1>2, <1>3

\* Every step of a read is one of its call alone.
LEMMA ReadSteps ==
    ASSUME PoolInv, NEW r \in Readers, Progress(r) \/ Fault(r) \/ Cancel(r)
    PROVE  StepOf(r)
  <1>1. call = [p \in Readers |-> call[p]] /\ rpc = [p \in Readers |-> rpc[p]]
    BY DEF PoolInv
  <1>2. rpc[r] # "idle" => IsCall(call[r])
    BY DEF PoolInv, CallInv
  <1>3. CASE Fault(r) \/ Interrupt(r)
    <2>1. Fail(r) /\ rpc[r] \in {"next", "rows"}
      BY <1>3 DEF Fault, Interrupt, Sending
    <2> QED BY <2>1, FailSteps
  <1>4. CASE Begin(r)
    <2>1. PICK a : /\ call' = [call EXCEPT ![r].answer = a] /\ rpc' = [rpc EXCEPT ![r] = "rows"]
                   /\ rpc[r] = "next"
      BY <1>4 DEF Begin, Goto, Sending
    <2>2. Untouched(call[r], call'[r]) /\ \A p \in Readers \ {r} : call'[p] = call[p]
      BY <1>1, <1>2, <2>1 DEF Untouched, IsCall
    <2>3. rpc'[r] = "rows" /\ \A p \in Readers \ {r} : rpc'[p] = rpc[p]
      BY <1>1, <2>1
    <2> QED BY <2>1, <2>2, <2>3 DEF StepOf, Untouched
  <1>5. ASSUME NEW a, call' = Answered(r, a), rpc[r] \in {"next", "rows"}, rpc'[r] = "next",
               \A p \in Readers \ {r} : rpc'[p] = rpc[p]
        PROVE  StepOf(r)
    <2>1. Untouched(call[r], call'[r])
      BY <1>5, AnsweredUntouched
    <2>2. \A p \in Readers \ {r} : call'[p] = call[p]
      BY <1>1, <1>5 DEF Answered
    <2>3. rpc'[r] = "next" /\ \A p \in Readers \ {r} : rpc'[p] = rpc[p]
      BY <1>5
    <2>4. rpc[r] \in {"next", "rows", "leaving"} /\ rpc[r] # "leaving"
      BY <1>5
    <2> QED BY <2>1, <2>2, <2>3, <2>4 DEF StepOf, Untouched
  <1>6. CASE Drain(r)
    <2>1. rpc[r] = "rows" /\ call' = Answered(r, call[r].answer) /\ rpc' = [rpc EXCEPT ![r] = "next"]
      BY <1>6 DEF Drain, Goto
    <2> QED BY <1>1, <1>5, <2>1
  <1>7. CASE HoldConn(r) \/ FreeConn(r)
    <2>1. rpc[r] = "next" /\ call' = Answered(r, TRUE) /\ rpc' = rpc
      BY <1>7 DEF HoldConn, FreeConn, Sending
    <2> QED BY <1>1, <1>5, <2>1
  <1>8. CASE Refuse(r)
    BY <1>1, <1>8 DEF Refuse, Goto, StepOf
  <1>9. CASE Finish(r)
    <2>1. PICK o \in {"ok", "error"} :
            /\ call' = [call EXCEPT ![r].outcome = o] /\ rpc' = [rpc EXCEPT ![r] = "done"]
            /\ rpc[r] = "next"
      BY <1>9 DEF Finish, Goto
    <2>2. /\ call'[r].req = call[r].req /\ call'[r].hit = call[r].hit /\ call'[r].outcome = o
          /\ \A p \in Readers \ {r} : call'[p] = call[p]
      BY <1>1, <1>2, <2>1 DEF IsCall
    <2>3. rpc'[r] = "done" /\ \A p \in Readers \ {r} : rpc'[p] = rpc[p]
      BY <1>1, <2>1
    <2> QED BY <2>1, <2>2, <2>3 DEF StepOf
  <1>10. CASE Leave(r)
    <2>1. /\ call' = [call EXCEPT ![r].outcome = "error"] /\ rpc' = [rpc EXCEPT ![r] = "done"]
          /\ rpc[r] = "leaving"
      BY <1>10 DEF Leave, Goto
    <2> QED BY <1>1, <1>2, <2>1 DEF StepOf, IsCall
  <1>11. CASE Cancel(r)
    <2>1. /\ call' = [call EXCEPT ![r].live = FALSE] /\ rpc' = rpc
          /\ rpc[r] \in {"next", "rows", "leaving"}
      BY <1>11 DEF Cancel, InCall
    <2>2. Untouched(call[r], call'[r]) /\ \A p \in Readers \ {r} : call'[p] = call[p]
      BY <1>1, <1>2, <2>1 DEF Untouched, IsCall
    <2> QED BY <2>1, <2>2 DEF StepOf, Untouched
  <1> QED
    BY <1>3, <1>4, <1>6, <1>7, <1>8, <1>9, <1>10, <1>11 DEF Progress

\* A commit only counts.
LEMMA CommitSteps ==
    ASSUME PoolInv, Commit, NEW r \in Readers
    PROVE  Untouched(call[r], call'[r]) /\ rpc' = rpc
  <1>1. /\ rpc' = rpc
        /\ call'[r] = IF InCall(r) THEN [call[r] EXCEPT !.since = @ + 1] ELSE call[r]
    BY DEF Commit
  <1>2. CASE InCall(r)
    BY <1>1, <1>2 DEF InCall, PoolInv, CallInv, IsCall, Untouched
  <1>3. CASE ~InCall(r)
    BY <1>1, <1>3 DEF Untouched
  <1> QED BY <1>1, <1>2, <1>3

\* Until a call leaves, only probes failed; from then on it returns an error.
HitsInv(r) ==
    /\ rpc[r] \in {"next", "rows"} => call[r].hit \subseteq Probes
    /\ rpc[r] = "done" => call[r].hit \subseteq Probes \/ call[r].outcome = "error"
    /\ rpc[r] # "cursor"

\* A step of any read keeps what HitsInv says of each.
LEMMA HitsStep ==
    ASSUME PoolInv, \A r \in Readers : HitsInv(r), [ReaderNext]_rvars, NEW p \in Readers
    PROVE  HitsInv(p)'
  <1>1. ASSUME NEW r \in Readers, NEW q \in Requests, Call(r, q) PROVE HitsInv(p)'
    <2>1. /\ rpc' = [rpc EXCEPT ![r] = "next"] /\ call' = [call EXCEPT ![r] = NewCall(q)]
          /\ NewCall(q).hit = {}
      BY <1>1 DEF Call, Goto, NewCall
    <2> HIDE DEF NewCall
    <2> QED BY <2>1 DEF PoolInv, HitsInv
  <1>2. ASSUME NEW r \in Readers, Progress(r) \/ Fault(r) \/ Cancel(r) PROVE HitsInv(p)'
    <2>1. StepOf(r)
      BY <1>2, ReadSteps
    <2> QED BY <2>1 DEF StepOf, HitsInv
  <1>3. CASE Commit
    BY <1>3, CommitSteps DEF Untouched, HitsInv
  <1>4. CASE ClosePool \/ UNCHANGED rvars
    BY <1>4 DEF ClosePool, rvars, HitsInv
  <1> QED
    BY <1>1, <1>2, <1>3, <1>4 DEF ReaderNext, ReadersRun

-----------------------------------------------------------------------------
(* The theorems.                                                           *)

\* The invariant holds of every run of the schema reads.
LEMMA PoolInvAlways ==
    ReaderSpec => []PoolInv
  <1>1. ReaderInit => PoolInv
    BY PoolInvInit, SchemaReaderAssumption, ConnPoolAssumption DEF ReaderInit
  <1>2. PoolInv /\ [ReaderNext]_rvars => PoolInv'
    BY PoolInvStep, SchemaReaderAssumption, ConnPoolAssumption
  <1> QED
    BY <1>1, <1>2, PTL DEF ReaderSpec

\* A schema read never holds two connections, so that a pool of one connection
\* serves it (describeCollection closes its rows before its next query).
THEOREM OneConnection ==
    ReaderSpec => []OneConnectionEach
  <1>1. PoolInv => OneConnectionEach
    BY ConnPoolAssumption DEF PoolInv, HoldingInv, OneConnectionEach
  <1> QED
    BY <1>1, PoolInvAlways, PTL

\* A schema read that returned, with an answer or an error, holds no connection
\* (the deferred Close of its rows and of the sql.Conn of readForeignKeys).
THEOREM ReturnedFree ==
    ReaderSpec => []ReturnedHoldsNothing
  <1>1. PoolInv => ReturnedHoldsNothing
    BY ConnPoolAssumption DEF PoolInv, HoldingInv, ReturnedHoldsNothing
  <1> QED
    BY <1>1, PoolInvAlways, PTL

\* A fault that hits a schema read, other than of the two probes that swallow it, is
\* returned by that read: no query's error, of the query or of its rows, is taken
\* for an answer (schema_reader_borrowed.go: "a fault is reported by the read that
\* hits it").
THEOREM FaultsReported == ReaderSpec => []OtherFaultsAreReported
  <1> DEFINE I == PoolInv /\ \A r \in Readers : HitsInv(r)
  <1>1. ReaderInit => I
    <2>1. ReaderInit => PoolInv
      BY PoolInvInit, SchemaReaderAssumption, ConnPoolAssumption DEF ReaderInit
    <2> QED BY <2>1 DEF ReaderInit, ReadersInit, HitsInv
  <1>2. I /\ [ReaderNext]_rvars => I'
    BY PoolInvStep, HitsStep, SchemaReaderAssumption, ConnPoolAssumption
  <1>3. I => OtherFaultsAreReported
    BY DEF HitsInv, OtherFaultsAreReported, Probes
  <1> QED
    BY <1>1, <1>2, <1>3, PTL DEF ReaderSpec

-----------------------------------------------------------------------------
(* The order of the queries of a call.                                     *)

\* The place of a kind of query in its operation.
Position(kind) ==
    CASE kind \in {"probeTable", "probeAny", "pkProbe", "tables", "views", "unnamed"} -> 1
      [] kind \in {"sidecar", "fkIds", "referrer", "viewColumns"} -> 2
      [] kind \in {"markers", "uniques"} -> 3
      [] kind = "tableInfo" -> 4
      [] kind = "autoInc" -> 5
      [] kind = "indexList" -> 6
      [] kind = "indexInfo" -> 7
      [] kind = "conn" -> 8
      [] kind = "fkState" -> 9
      [] kind = "fkList" -> 10
      [] kind = "spellings" -> 11
      [] kind = "targetPK" -> 12
      [] kind = "connClose" -> 13
      [] kind = "hidden" -> 14
      [] kind \in {"sourceSQL", "rowColumns"} -> 15
      [] kind \in {"sourceColumns", "sourceRows"} -> 16
      [] kind = "sourceIndexes" -> 17
      [] kind \in {"indexSQL", "indexTerms"} -> 18

\* A lenient ListIndexes describes the collection after its own queries.
Rank(q) == Position(q.kind) + (IF q.in = "DescribeCollection" THEN 20 ELSE 0)

\* The kinds of query an operation sends.
KindsOf(op, lenient) ==
    CASE op = "DescribeCollection" ->
           {"sidecar", "markers", "tableInfo", "autoInc", "indexList", "indexInfo", "conn",
            "fkState", "fkList", "spellings", "targetPK", "connClose", "sourceSQL",
            "sourceColumns", "sourceIndexes", "indexSQL", "indexTerms"}
           \cup (IF lenient THEN {"probeAny"} ELSE {"probeTable", "hidden"})
      [] op = "ListIndexes"     -> {"indexList", "indexInfo"}
      [] op = "ListConstraints" -> {"pkProbe", "fkIds", "uniques"}
      [] op = "ListCollections" -> {"tables"}
      [] op = "ListReferrers"   -> {"tables", "referrer"}
      [] op = "ListViews"       -> {"views"}
      [] op = "ListSourceViews" -> {"views", "viewColumns"}
      [] op = "UnnamedObjects"  -> {"unnamed"}
      [] op = "OpenSourceRows"  -> {"hidden", "rowColumns", "sourceRows"}

\* Those about an index, a key or another object, and all that only an answer asks for.
PartKinds == {"indexInfo", "indexSQL", "indexTerms", "targetPK", "referrer", "viewColumns", "sourceRows"}
ChildKinds == PartKinds \cup {"markers", "autoInc", "spellings"}

\* q is a query of the operation asked for.
Mine(q, req) ==
    /\ \/ q.in = req.op
       \/ q.in = "DescribeCollection" /\ req.op = "ListIndexes" /\ req.lenient
    /\ q.in \in Operations /\ q.kind \in KindsOf(q.in, req.lenient)
    /\ q.kind \notin PartKinds => q.of = req.name
    /\ q = Ask(q.in, q.kind, q.of)

Pending(s) == UNION {s[i] : i \in DOMAIN s}

\* The queries to send are in order; what an answer asks for comes first, and what
\* asks for more is sent alone.
Ordered(s) ==
    /\ \A i, j \in DOMAIN s : \A p \in s[i], q \in s[j] :
         /\ i < j => Rank(p) < Rank(q)
         /\ i = j => Rank(p) = Rank(q) /\ (p = q \/ p.kind \in PartKinds)
    /\ \A i \in DOMAIN s : i > 1 => \A q \in s[i] : q.kind \notin ChildKinds

\* The queries of an operation have a rank, those of a description above all others.
LEMMA RankIsNat ==
    ASSUME NEW q, NEW l, q.in \in Operations, q.kind \in KindsOf(q.in, l)
    PROVE  Rank(q) \in Int /\ ((Rank(q) > 20) <=> (q.in = "DescribeCollection"))
  <1>1. Position(q.kind) \in 1..18
    BY DEF Operations, KindsOf, Position
  <1> QED BY <1>1 DEF Rank

\* What an answer asks for is of the operation that asked (CatalogQueries!Following).
LEMMA FollowingShape ==
    ASSUME NEW q, NEW rows, NEW A, NEW x \in Following(q, rows, A)
    PROVE  /\ x = Ask(q.in, x.kind, x.of) /\ x.in = q.in
           /\ \/ q.kind = "sidecar" /\ x.kind = "markers" /\ x.of = q.of
              \/ q.kind = "tableInfo" /\ x.kind = "autoInc" /\ x.of = q.of
              \/ q.kind = "indexList" /\ x.kind = "indexInfo"
              \/ q.kind = "fkList" /\ x.kind = "spellings" /\ x.of = q.of
              \/ q.kind = "spellings" /\ x.kind = "targetPK"
              \/ q.kind = "sourceIndexes" /\ x.kind \in {"indexSQL", "indexTerms"}
              \/ q.kind = "rowColumns" /\ x.kind = "sourceRows" /\ x.of = <<q.of, rows>>
              \/ q.kind = "tables" /\ q.in = "ListReferrers" /\ x.kind = "referrer"
              \/ q.kind = "views" /\ q.in = "ListSourceViews" /\ x.kind = "viewColumns"
  BY DEF Following, Ask

\* It is the operation's own, and comes before what the operation asks next.
LEMMA FollowingInOrder ==
    ASSUME NEW req, NEW q, Mine(q, req), NEW rows, NEW A, NEW x \in Following(q, rows, A)
    PROVE  /\ Mine(x, req) /\ q.kind \notin PartKinds /\ x.kind \in ChildKinds
           /\ Rank(q) < Rank(x)
           /\ \A y : Mine(y, req) /\ y.kind \notin ChildKinds /\ Rank(q) < Rank(y) => Rank(x) < Rank(y)
  <1>1. x.in = q.in /\ x = Ask(x.in, x.kind, x.of)
    BY FollowingShape
  <1>2. ASSUME NEW y, Mine(y, req), y.kind \notin ChildKinds, Rank(q) < Rank(y)
        PROVE  Rank(x) < Rank(y)
    <2>1. CASE q.in = "DescribeCollection"
      <3>1. y.in = "DescribeCollection"
        BY <1>2, <2>1, RankIsNat DEF Mine
      <3>2. Position(q.kind) \in Int /\ Position(y.kind) \in Int /\ Position(q.kind) < Position(y.kind)
        BY <1>2, <2>1, <3>1 DEF Mine, KindsOf, Position, Rank
      <3>3. Position(x.kind) < Position(y.kind)
        BY <1>2, <2>1, <3>1, <3>2, FollowingShape DEF Mine, KindsOf, Position, ChildKinds, PartKinds
      <3>4. Position(x.kind) \in Int
        BY <1>1, <2>1, FollowingShape DEF Position
      <3> QED BY <1>1, <2>1, <3>1, <3>2, <3>3, <3>4 DEF Rank
    <2>2. CASE q.in # "DescribeCollection" /\ y.in = "DescribeCollection"
      <3>1. Rank(y) > 20 /\ Rank(y) \in Int
        BY <1>2, <2>2, RankIsNat DEF Mine
      <3>2. Rank(x) \in 1..18
        BY <1>1, <2>2, FollowingShape DEF Position, Rank
      <3> QED BY <3>1, <3>2
    <2>3. CASE q.in # "DescribeCollection" /\ y.in # "DescribeCollection"
      <3>1. y.in = q.in /\ q.in = req.op
        BY <1>2, <2>3 DEF Mine
      <3>2. Rank(q) = Position(q.kind) + 0 /\ Rank(y) = Position(y.kind) + 0 /\ Rank(x) = Position(x.kind) + 0
        BY <1>1, <2>3, <3>1 DEF Rank
      <3>3. \/ q.in = "ListIndexes" /\ q.kind = "indexList"
            \/ q.in = "OpenSourceRows" /\ q.kind = "rowColumns" /\ x.kind = "sourceRows"
            \/ q.in = "ListReferrers" /\ q.kind = "tables"
            \/ q.in = "ListSourceViews" /\ q.kind = "views"
        BY <2>3, <3>1, FollowingShape DEF Mine, KindsOf, Operations
      <3>4. CASE q.in = "ListIndexes" /\ q.kind = "indexList"
        BY <1>2, <3>1, <3>2, <3>4 DEF Mine, KindsOf, Position, ChildKinds, PartKinds
      <3>5. CASE q.in = "OpenSourceRows" /\ q.kind = "rowColumns" /\ x.kind = "sourceRows"
        BY <1>2, <3>1, <3>2, <3>5 DEF Mine, KindsOf, Position, ChildKinds, PartKinds
      <3>6. CASE q.in = "ListReferrers" /\ q.kind = "tables"
        BY <1>2, <3>1, <3>2, <3>6 DEF Mine, KindsOf, Position, ChildKinds, PartKinds
      <3>7. CASE q.in = "ListSourceViews" /\ q.kind = "views"
        BY <1>2, <3>1, <3>2, <3>7 DEF Mine, KindsOf, Position, ChildKinds, PartKinds
      <3> QED BY <3>3, <3>4, <3>5, <3>6, <3>7
    <2> QED BY <2>1, <2>2, <2>3
  <1>3. Rank(q) < Rank(x) /\ q.kind \notin PartKinds /\ x.kind \in ChildKinds
    BY <1>1, FollowingShape DEF Rank, Position, Mine, PartKinds, ChildKinds
  <1>4. Mine(x, req)
    BY <1>1, FollowingShape DEF Mine, PartKinds, KindsOf, Operations
  <1> QED BY <1>2, <1>3, <1>4

\* One loop takes the place of the first.
LEMMA OneReplaced ==
    ASSUME NEW s, IsQueue(s), s # <<>>, NEW F
    PROVE  LET t == <<F>> \o Tail(s) IN
           DOMAIN t = 1..Len(s) /\ t[1] = F /\ \A i \in 2..Len(s) : t[i] = s[i]
  <1> DEFINE R == {s[i] : i \in DOMAIN s} \cup {F}
             P == <<F>>
             t == P \o Tail(s)
  <1>1. s \in Seq(R) /\ P \in Seq(R) /\ Len(P) = 1 /\ P[1] = F /\ Len(s) > 0 /\ Len(s) \in Nat
    BY DEF IsQueue
  <1> HIDE DEF R, P
  <1>2. /\ t \in Seq(R) /\ Len(t) = Len(P) + Len(s) - 1
        /\ \A i \in 1..Len(t) : t[i] = IF i <= Len(P) THEN P[i] ELSE s[i - Len(P) + 1]
    BY <1>1, FrontReplaced
  <1> HIDE DEF t
  <1>3. Len(t) = Len(s) /\ DOMAIN t = 1..Len(s)
    BY <1>1, <1>2
  <1>4. \A i \in 1..Len(s) : t[i] = IF i <= 1 THEN F ELSE s[i - 1 + 1]
    BY <1>1, <1>2, <1>3
  <1>5. ASSUME NEW i \in 2..Len(s) PROVE t[i] = s[i]
    <2>1. i \in 1..Len(s) /\ ~(i <= 1) /\ i - 1 + 1 = i
      BY <1>1
    <2> QED BY <1>4, <2>1
  <1>6. t[1] = F
    BY <1>1, <1>4
  <1> QED BY <1>3, <1>5, <1>6 DEF t, P

\* The queries a queue starts from have ranks.
AllRanked(s) == \A q \in Pending(s) : Rank(q) \in Int

\* An answer leaves the queue in order, without the query answered and with what it
\* asks for (SchemaReader!Answered).
LEMMA OrderedStep ==
    ASSUME NEW s, IsQueue(s), s # <<>>, Ordered(s), AllRanked(s), NEW q \in Head(s), NEW F,
           \A x \in F :
             /\ x.kind \in ChildKinds /\ Rank(x) \in Int /\ Rank(q) < Rank(x)
             /\ \A y \in F : Rank(x) = Rank(y) /\ (x = y \/ x.kind \in PartKinds)
             /\ \A y \in Pending(s) :
                  y.kind \notin ChildKinds /\ Rank(q) < Rank(y) => Rank(x) < Rank(y),
           F # {} => q.kind \notin PartKinds
    PROVE  LET t == Left(F) \o Left(Head(s) \ {q}) \o Tail(s) IN
           /\ IsQueue(t) /\ Ordered(t) /\ Pending(t) = F \cup (Pending(s) \ {q})
           /\ \A y \in Pending(t) : y # q /\ Rank(q) <= Rank(y)
  <1> DEFINE t == Left(F) \o Left(Head(s) \ {q}) \o Tail(s)
  <1>1. /\ DOMAIN s = 1..Len(s) /\ Len(s) \in Nat /\ Len(s) > 0 /\ Head(s) = s[1] /\ q \in s[1]
        /\ 1 \in DOMAIN s
    BY DEF IsQueue
  <1>2. IsQueue(t)
    BY QueueStep
  <1>3. \A i \in DOMAIN s : \A y \in s[i] : y \in Pending(s) /\ Rank(y) \in Int
    BY DEF AllRanked, Pending
  <1>4. \A y \in Pending(s) : Rank(q) <= Rank(y)
    <2> TAKE y \in Pending(s)
    <2>1. PICK i \in DOMAIN s : y \in s[i]
      BY DEF Pending
    <2>2. i = 1 \/ 1 < i
      BY <1>1
    <2> QED BY <1>1, <1>3, <2>1, <2>2 DEF Ordered
  <1>5. CASE F = {}
    <2>1. PICK d \in Int :
            /\ \A i \in DOMAIN t : \A x \in t[i] : i + d \in DOMAIN s /\ x \in s[i + d] /\ (i + d = 1 => x # q)
            /\ \A k \in DOMAIN s : \A x \in s[k] :
                 x # q \/ k > 1 => k - d \in DOMAIN t /\ x \in t[k - d]
      <3>1. \A x : x \notin F
        BY <1>5
      <3> HIDE DEF t
      <3>2. PICK d \in Int :
              /\ \A i \in DOMAIN t : \A x \in t[i] :
                   x \in F \/ (i + d \in DOMAIN s /\ x \in s[i + d] /\ (i + d = 1 => x # q))
              /\ \A k \in DOMAIN s : \A x \in s[k] :
                   x # q \/ k > 1 => k - d \in DOMAIN t /\ x \in t[k - d]
        BY QueueStep DEF t
      <3> QED BY <3>1, <3>2
    <2> HIDE DEF t
    <2>2. DOMAIN t \subseteq Int /\ \A i \in DOMAIN t : i >= 1
      BY <1>2 DEF IsQueue
    <2>3. q \notin Pending(t)
      <3> SUFFICES ASSUME NEW i \in DOMAIN t, q \in t[i] PROVE FALSE
        BY DEF Pending
      <3>1. i + d \in DOMAIN s /\ q \in s[i + d] /\ i + d # 1 /\ 1 < i + d
        BY <1>1, <2>1
      <3> QED BY <1>1, <1>3, <3>1 DEF Ordered
    <2>4. Pending(t) = Pending(s) \ {q}
      BY <2>1, <2>3 DEF Pending
    <2>5. Ordered(t)
      <3>1. ASSUME NEW i \in DOMAIN t, NEW j \in DOMAIN t, NEW x \in t[i], NEW y \in t[j]
            PROVE  /\ i < j => Rank(x) < Rank(y)
                   /\ i = j => Rank(x) = Rank(y) /\ (x = y \/ x.kind \in PartKinds)
        <4>1. i + d \in DOMAIN s /\ x \in s[i + d] /\ j + d \in DOMAIN s /\ y \in s[j + d]
          BY <2>1
        <4>2. (i < j => i + d < j + d) /\ (i = j => i + d = j + d)
          BY <2>2
        <4> QED BY <4>1, <4>2 DEF Ordered
      <3>2. ASSUME NEW i \in DOMAIN t, i > 1, NEW x \in t[i] PROVE x.kind \notin ChildKinds
        <4>1. i + d \in DOMAIN s /\ x \in s[i + d]
          BY <2>1
        <4>2. 1 \in DOMAIN t /\ t[1] # {}
          BY <1>2, <2>2, <3>2 DEF IsQueue
        <4>3. PICK z \in t[1] : 1 + d \in DOMAIN s
          BY <2>1, <4>2
        <4>4. i + d > 1
          BY <1>1, <2>2, <3>2, <4>3
        <4> QED BY <4>1, <4>4 DEF Ordered
      <3> QED BY <3>1, <3>2 DEF Ordered
    <2> QED BY <1>2, <1>4, <1>5, <2>3, <2>4, <2>5 DEF t
  <1>6. CASE F # {}
    <2>1. Head(s) \ {q} = {}
      BY <1>1, <1>6 DEF Ordered
    <2>2. t = <<F>> \o Tail(s)
      <3>1. Left(F) = <<F>> /\ Left(Head(s) \ {q}) = <<>>
        BY <1>6, <2>1 DEF Left
      <3>2. <<F>> \o <<>> = <<F>>
        <4>1. <<F>> \in Seq({F})
          OBVIOUS
        <4> QED BY <4>1, ConcatEmptySeq
      <3> QED BY <3>1, <3>2
    <2> HIDE DEF t
    <2>3. /\ DOMAIN t = 1..Len(s) /\ t[1] = F /\ \A i \in 2..Len(s) : t[i] = s[i]
      BY <1>1, <2>2, OneReplaced
    <2>4. s[1] = {q}
      BY <1>1, <2>1
    <2>5. \A i \in DOMAIN s : i > 1 => \A y \in s[i] : Rank(q) < Rank(y) /\ y.kind \notin ChildKinds /\ y # q
      BY <1>1, <1>3 DEF Ordered
    <2>6. Pending(t) = F \cup (Pending(s) \ {q})
      <3>1. Pending(t) = F \cup UNION {s[i] : i \in 2..Len(s)}
        BY <1>1, <2>3 DEF Pending
      <3>2. Pending(s) = {q} \cup UNION {s[i] : i \in 2..Len(s)}
        BY <1>1, <2>4 DEF Pending
      <3>3. q \notin UNION {s[i] : i \in 2..Len(s)}
        BY <1>1, <2>5
      <3> QED BY <3>1, <3>2, <3>3
    <2>7. q \notin F
      BY <1>1, <1>3
    <2>8. Ordered(t)
      <3>1. ASSUME NEW i \in DOMAIN t, NEW j \in DOMAIN t, NEW x \in t[i], NEW y \in t[j]
            PROVE  /\ i < j => Rank(x) < Rank(y)
                   /\ i = j => Rank(x) = Rank(y) /\ (x = y \/ x.kind \in PartKinds)
        <4>1. CASE i > 1
          BY <1>1, <2>3, <3>1, <4>1 DEF Ordered
        <4>2. CASE i = 1 /\ j = 1
          BY <2>3, <3>1, <4>2
        <4>3. CASE i = 1 /\ j > 1
          <5>1. x \in F /\ j \in DOMAIN s /\ y \in s[j] /\ y \in Pending(s)
            BY <1>1, <1>3, <2>3, <4>3
          <5> QED BY <2>5, <4>3, <5>1
        <4> QED BY <1>1, <2>3, <4>1, <4>2, <4>3
      <3>2. ASSUME NEW i \in DOMAIN t, i > 1, NEW x \in t[i] PROVE x.kind \notin ChildKinds
        BY <1>1, <2>3, <2>5, <3>2
      <3> QED BY <3>1, <3>2 DEF Ordered
    <2>9. \A y \in Pending(t) : Rank(q) <= Rank(y)
      BY <1>1, <1>3, <1>4, <2>6
    <2> QED BY <1>2, <2>6, <2>7, <2>8, <2>9 DEF t
  <1> QED BY <1>5, <1>6

\* The queries of a call, answered or still to send.
Asked(c) == DOMAIN c.got \cup Pending(c.todo)

\* What the answers and the queries still to send are of each other.
Shape(c) ==
    /\ c.req \in Requests
    /\ IsQueue(c.todo) /\ Ordered(c.todo)
    /\ \A q \in Asked(c) : Mine(q, c.req)
    /\ \A g \in DOMAIN c.got, p \in Pending(c.todo) : g # p /\ Rank(g) <= Rank(p)
    /\ Pending(Program(c.req)) \subseteq Asked(c)
    /\ \A g \in DOMAIN c.got : /\ Following(g, c.got[g], c.got) \subseteq Asked(c)
                               /\ ~Refuses(g, c.got[g], c.got, c.req.lenient)
                               /\ g.kind # "sourceRows"
    /\ \A p \in Pending(c.todo) :
         p.kind = "sourceRows" => LET cols == Ask("OpenSourceRows", "rowColumns", c.req.name)
                                  IN cols \in DOMAIN c.got /\ p.of = <<c.req.name, c.got[cols]>>

-----------------------------------------------------------------------------
(* A call starts in order.                                                 *)

\* s asks the n queries of the kinds K about one object, one after the other.
AsksInOrder(s, op, K, n, of) ==
    /\ IsQueue(s) /\ DOMAIN s = 1..n /\ Len(s) = n /\ Ordered(s)
    /\ \A i \in 1..n : s[i] = {Ask(op, K[i], of)}

\* The queries of a list of kinds are in order if their kinds are (CatalogQueries!AskAll).
LEMMA AskAllOrdered ==
    ASSUME NEW op, NEW K, NEW n \in Nat, DOMAIN K = 1..n, NEW of,
           \A i \in 1..n : K[i] \notin ChildKinds /\ Position(K[i]) \in Int,
           \A i, j \in 1..n : i < j => Position(K[i]) < Position(K[j])
    PROVE  AsksInOrder(AskAll(op, K, of), op, K, n, of)
  <1> DEFINE s == AskAll(op, K, of)
             q(i) == Ask(op, K[i], of)
  <1>1. IsQueue(s) /\ DOMAIN s = 1..n /\ Len(s) = n
    <2>1. Asks(s, op, K, n, of)
      BY AskAllQueue
    <2> HIDE DEF s
    <2> QED BY <2>1 DEF Asks
  <1>2. \A i \in 1..n : s[i] = {q(i)}
    BY DEF AskAll
  <1>3. \A i \in 1..n : q(i).in = op /\ q(i).kind = K[i]
    BY DEF Ask
  <1>4. PICK d \in {0, 20} : \A i \in 1..n : Rank(q(i)) = Position(K[i]) + d
    <2> DEFINE e == IF op = "DescribeCollection" THEN 20 ELSE 0
    <2>1. \A i \in 1..n : Rank(q(i)) = Position(K[i]) + e
      BY <1>3 DEF Rank
    <2>2. e \in {0, 20}
      OBVIOUS
    <2> QED BY <2>1, <2>2
  <1> HIDE DEF s, q
  <1>5. \A i, j \in 1..n : i < j => Rank(q(i)) < Rank(q(j))
    BY <1>4
  <1>6. Ordered(s)
    <2>1. ASSUME NEW i \in DOMAIN s, NEW j \in DOMAIN s, NEW x \in s[i], NEW y \in s[j]
          PROVE  /\ i < j => Rank(x) < Rank(y)
                 /\ i = j => Rank(x) = Rank(y) /\ (x = y \/ x.kind \in PartKinds)
      BY <1>1, <1>2, <1>5, <2>1
    <2>2. ASSUME NEW i \in DOMAIN s, NEW x \in s[i] PROVE x.kind \notin ChildKinds
      BY <1>1, <1>2, <1>3, <2>2
    <2> QED BY <2>1, <2>2 DEF Ordered
  <1> QED BY <1>1, <1>2, <1>6 DEF AsksInOrder, s, q

\* The queries of a queue of single queries.
LEMMA PendingOfAsks ==
    ASSUME NEW s, NEW op, NEW K, NEW n \in Nat, NEW of, AsksInOrder(s, op, K, n, of)
    PROVE  /\ \A x \in Pending(s) : \E i \in 1..n : x = Ask(op, K[i], of)
           /\ \A i \in 1..n : Ask(op, K[i], of) \in Pending(s)
  BY DEF AsksInOrder, Pending

\* The kinds of query a description is certain to send.
DescribePlan(lenient) ==
    {"sidecar", "tableInfo", "indexList", "conn", "fkState", "fkList", "connClose",
     "sourceSQL", "sourceColumns", "sourceIndexes"}
    \cup (IF lenient THEN {"probeAny"} ELSE {"probeTable", "hidden"})

\* The queries of a description are in order (CatalogQueries!DescribeQueries).
LEMMA DescribeOrdered ==
    ASSUME NEW name, NEW l
    PROVE  LET s == DescribeQueries(name, l) IN
           /\ IsQueue(s) /\ Ordered(s)
           /\ Pending(s) = {Ask("DescribeCollection", k, name) : k \in DescribePlan(l)}
  <1> DEFINE K == DescribeKinds(l)
             s == DescribeQueries(name, l)
  <1>1. PICK n \in Nat :
          /\ DOMAIN K = 1..n
          /\ \A i \in 1..n : K[i] \notin ChildKinds /\ Position(K[i]) \in Int /\ K[i] \in DescribePlan(l)
          /\ \A i, j \in 1..n : i < j => Position(K[i]) < Position(K[j])
          /\ \A k \in DescribePlan(l) : \E i \in 1..n : K[i] = k
    <2>1. CASE l
      <3>1. K = <<"probeAny", "sidecar", "tableInfo", "indexList", "conn", "fkState", "fkList",
                  "connClose", "sourceSQL", "sourceColumns", "sourceIndexes">>
        BY <2>1 DEF DescribeKinds
      <3> HIDE DEF K
      <3>2. /\ DOMAIN K = 1..11
            /\ K[1] = "probeAny" /\ K[2] = "sidecar" /\ K[3] = "tableInfo" /\ K[4] = "indexList"
            /\ K[5] = "conn" /\ K[6] = "fkState" /\ K[7] = "fkList" /\ K[8] = "connClose"
            /\ K[9] = "sourceSQL" /\ K[10] = "sourceColumns" /\ K[11] = "sourceIndexes"
        BY <3>1
      <3>3. /\ Position(K[1]) = 1 /\ Position(K[2]) = 2 /\ Position(K[3]) = 4 /\ Position(K[4]) = 6
            /\ Position(K[5]) = 8 /\ Position(K[6]) = 9 /\ Position(K[7]) = 10 /\ Position(K[8]) = 13
            /\ Position(K[9]) = 15 /\ Position(K[10]) = 16 /\ Position(K[11]) = 17
        BY <3>2 DEF Position
      <3>4. \A i \in 1..11 : K[i] \notin ChildKinds /\ Position(K[i]) \in Int /\ K[i] \in DescribePlan(l)
        BY <2>1, <3>2, <3>3 DEF ChildKinds, PartKinds, DescribePlan
      <3>5. \A i, j \in 1..11 : i < j => Position(K[i]) < Position(K[j])
        BY <3>3
      <3>6. \A k \in DescribePlan(l) : \E i \in 1..11 : K[i] = k
        BY <2>1, <3>2 DEF DescribePlan
      <3> QED BY <3>2, <3>4, <3>5, <3>6
    <2>2. CASE ~l
      <3>1. K = <<"probeTable", "sidecar", "tableInfo", "indexList", "conn", "fkState", "fkList",
                  "connClose", "hidden", "sourceSQL", "sourceColumns", "sourceIndexes">>
        BY <2>2 DEF DescribeKinds
      <3> HIDE DEF K
      <3>2. /\ DOMAIN K = 1..12
            /\ K[1] = "probeTable" /\ K[2] = "sidecar" /\ K[3] = "tableInfo" /\ K[4] = "indexList"
            /\ K[5] = "conn" /\ K[6] = "fkState" /\ K[7] = "fkList" /\ K[8] = "connClose"
            /\ K[9] = "hidden" /\ K[10] = "sourceSQL" /\ K[11] = "sourceColumns"
            /\ K[12] = "sourceIndexes"
        BY <3>1
      <3>3. /\ Position(K[1]) = 1 /\ Position(K[2]) = 2 /\ Position(K[3]) = 4 /\ Position(K[4]) = 6
            /\ Position(K[5]) = 8 /\ Position(K[6]) = 9 /\ Position(K[7]) = 10 /\ Position(K[8]) = 13
            /\ Position(K[9]) = 14 /\ Position(K[10]) = 15 /\ Position(K[11]) = 16 /\ Position(K[12]) = 17
        BY <3>2 DEF Position
      <3>4. \A i \in 1..12 : K[i] \notin ChildKinds /\ Position(K[i]) \in Int /\ K[i] \in DescribePlan(l)
        BY <2>2, <3>2, <3>3 DEF ChildKinds, PartKinds, DescribePlan
      <3>5. \A i, j \in 1..12 : i < j => Position(K[i]) < Position(K[j])
        BY <3>3
      <3>6. \A k \in DescribePlan(l) : \E i \in 1..12 : K[i] = k
        BY <2>2, <3>2 DEF DescribePlan
      <3> QED BY <3>2, <3>4, <3>5, <3>6
    <2> QED BY <2>1, <2>2
  <1> HIDE DEF K
  <1>2. AsksInOrder(s, "DescribeCollection", K, n, name)
    BY <1>1, AskAllOrdered DEF DescribeQueries, K
  <1>3. /\ \A x \in Pending(s) : \E i \in 1..n : x = Ask("DescribeCollection", K[i], name)
        /\ \A i \in 1..n : Ask("DescribeCollection", K[i], name) \in Pending(s)
    <2> HIDE DEF s
    <2> QED BY <1>2, PendingOfAsks
  <1>4. Pending(s) = {Ask("DescribeCollection", k, name) : k \in DescribePlan(l)}
    BY <1>1, <1>3
  <1> QED BY <1>2, <1>4 DEF AsksInOrder

\* So is the query of an operation of one.
LEMMA OneQueryOrdered ==
    ASSUME NEW op, NEW of, NEW kind, kind \notin ChildKinds, Position(kind) \in Int
    PROVE  LET s == AskAll(op, <<kind>>, of) IN
           IsQueue(s) /\ Len(s) = 1 /\ DOMAIN s = 1..1 /\ Ordered(s) /\ Pending(s) = {Ask(op, kind, of)}
  <1> DEFINE K == <<kind>>
             s == AskAll(op, K, of)
  <1>1. DOMAIN K = 1..1 /\ K[1] = kind
    OBVIOUS
  <1>2. AsksInOrder(s, op, K, 1, of)
    <2> HIDE DEF K
    <2>1. 1 \in Nat /\ \A i, j \in 1..1 : i < j => Position(K[i]) < Position(K[j])
      OBVIOUS
    <2>2. \A i \in 1..1 : K[i] \notin ChildKinds /\ Position(K[i]) \in Int
      BY <1>1
    <2> QED BY <1>1, <2>1, <2>2, AskAllOrdered
  <1>3. Pending(s) = {Ask(op, kind, of)}
    <2> HIDE DEF s, K
    <2> QED BY <1>1, <1>2 DEF AsksInOrder, Pending
  <1> QED BY <1>2, <1>3 DEF AsksInOrder

\* The queries an operation is certain to send.
Planned(req) ==
    CASE req.op = "DescribeCollection" ->
           {Ask("DescribeCollection", k, req.name) : k \in DescribePlan(req.lenient)}
      [] req.op = "ListIndexes" ->
           {Ask("ListIndexes", "indexList", req.name)}
           \cup IF req.lenient THEN {Ask("DescribeCollection", k, req.name) : k \in DescribePlan(TRUE)} ELSE {}
      [] req.op = "ListConstraints" -> {Ask("ListConstraints", k, req.name) : k \in {"pkProbe", "fkIds", "uniques"}}
      [] req.op \in {"ListCollections", "ListReferrers"} -> {Ask(req.op, "tables", req.name)}
      [] req.op \in {"ListViews", "ListSourceViews"} -> {Ask(req.op, "views", req.name)}
      [] req.op = "UnnamedObjects" -> {Ask("UnnamedObjects", "unnamed", req.name)}
      [] req.op = "OpenSourceRows" ->
           IF req.name = Empty THEN {} ELSE {Ask("OpenSourceRows", k, req.name) : k \in {"hidden", "rowColumns"}}

\* A lenient ListIndexes asks its own query, then describes the collection.
LEMMA ListIndexesOrdered ==
    ASSUME NEW name
    PROVE  LET a == AskAll("ListIndexes", <<"indexList">>, name)
               d == DescribeQueries(name, TRUE)
           IN  Ordered(a \o d) /\ Pending(a \o d) = Pending(a) \cup Pending(d)
  <1> DEFINE a == AskAll("ListIndexes", <<"indexList">>, name)
             d == DescribeQueries(name, TRUE)
             s == a \o d
             R == {a[i] : i \in DOMAIN a} \cup {d[i] : i \in DOMAIN d}
             x0 == Ask("ListIndexes", "indexList", name)
  <1>1. IsQueue(a) /\ Len(a) = 1 /\ DOMAIN a = 1..1 /\ Ordered(a) /\ Pending(a) = {x0}
    BY OneQueryOrdered DEF ChildKinds, PartKinds, Position
  <1>2. /\ IsQueue(d) /\ Ordered(d)
        /\ Pending(d) = {Ask("DescribeCollection", k, name) : k \in DescribePlan(TRUE)}
    BY DescribeOrdered
  <1> HIDE DEF a, d
  <1>3. a \in Seq(R) /\ d \in Seq(R) /\ DOMAIN d = 1..Len(d) /\ Len(d) \in Nat
    BY <1>1, <1>2 DEF IsQueue
  <1> HIDE DEF R
  <1>4. Rank(x0) = 6
    BY DEF Ask, Rank, Position
  <1>5. \A i \in DOMAIN d : \A y \in d[i] : Rank(y) > 20 /\ Rank(y) \in Int /\ y.kind \notin ChildKinds
    <2> TAKE i \in DOMAIN d
    <2> TAKE y \in d[i]
    <2>1. PICK k \in DescribePlan(TRUE) : y = Ask("DescribeCollection", k, name)
      BY <1>2 DEF Pending
    <2>2. Position(k) \in 1..18 /\ k \notin ChildKinds
      BY DEF DescribePlan, Position, ChildKinds, PartKinds
    <2>3. y.in = "DescribeCollection" /\ y.kind = k
      BY <2>1 DEF Ask
    <2> QED BY <2>2, <2>3 DEF Rank
  <1>6. s \in Seq(R) /\ DOMAIN s = 1..Len(d) + 1 /\ s[1] = a[1]
    <2>1. s \in Seq(R) /\ Len(s) = Len(a) + Len(d)
      BY <1>3, ConcatProperties, Zenon
    <2>2. s[1] = a[1]
      BY <1>1, <1>3, ConcatProperties
    <2> QED BY <1>1, <1>3, <2>1, <2>2
  <1>7. ASSUME NEW i \in 1..Len(d) + 1, i > 1 PROVE s[i] = d[i - 1] /\ i - 1 \in DOMAIN d
    <2>1. i \in 1..Len(a) + Len(d) /\ ~(i <= Len(a)) /\ i - Len(a) = i - 1
      BY <1>1, <1>3, <1>7
    <2>2. s[i] = d[i - Len(a)]
      BY <1>3, <2>1, ConcatProperties
    <2> QED BY <1>3, <2>1, <2>2
  <1> HIDE DEF s
  <1>8. a[1] = {x0}
    BY <1>1 DEF Pending
  <1>9. \A i \in DOMAIN s : (i = 1 /\ s[i] = {x0}) \/ (i > 1 /\ i - 1 \in DOMAIN d /\ s[i] = d[i - 1])
    BY <1>3, <1>6, <1>7, <1>8
  <1>10. Ordered(s)
    <2>1. ASSUME NEW i \in DOMAIN s, NEW j \in DOMAIN s, NEW x \in s[i], NEW y \in s[j]
          PROVE  /\ i < j => Rank(x) < Rank(y)
                 /\ i = j => Rank(x) = Rank(y) /\ (x = y \/ x.kind \in PartKinds)
      <3>1. CASE i = 1 /\ j = 1
        BY <1>9, <2>1, <3>1
      <3>2. CASE i = 1 /\ j > 1
        BY <1>4, <1>5, <1>9, <2>1, <3>2
      <3>3. CASE i > 1 /\ j > 1
        <4>1. i - 1 \in DOMAIN d /\ j - 1 \in DOMAIN d /\ x \in d[i - 1] /\ y \in d[j - 1]
          BY <1>9, <2>1, <3>3
        <4>2. (i < j => i - 1 < j - 1) /\ (i = j => i - 1 = j - 1)
          BY <1>6
        <4> QED BY <1>2, <4>1, <4>2 DEF Ordered
      <3>4. CASE i > 1 /\ j = 1
        BY <1>6, <3>4
      <3> QED BY <1>6, <1>9, <3>1, <3>2, <3>3, <3>4
    <2>2. ASSUME NEW i \in DOMAIN s, i > 1, NEW x \in s[i] PROVE x.kind \notin ChildKinds
      BY <1>5, <1>9, <2>2
    <2> QED BY <2>1, <2>2 DEF Ordered
  <1>11. Pending(s) = {x0} \cup Pending(d)
    <2>1. Pending(s) \subseteq {x0} \cup Pending(d)
      BY <1>9 DEF Pending
    <2>2. x0 \in Pending(s)
      BY <1>3, <1>6, <1>8 DEF Pending
    <2>3. ASSUME NEW i \in DOMAIN d PROVE i + 1 \in DOMAIN s /\ s[i + 1] = d[i]
      BY <1>3, <1>6, <1>7
    <2>4. Pending(d) \subseteq Pending(s)
      BY <2>3 DEF Pending
    <2> QED BY <2>1, <2>2, <2>4
  <1> QED BY <1>1, <1>10, <1>11 DEF s, a, d

\* Every call starts in order (CatalogQueries!Program).
LEMMA ProgramOrdered ==
    ASSUME NEW r, r.op \in Operations
    PROVE  IsQueue(Program(r)) /\ Ordered(Program(r)) /\ Pending(Program(r)) = Planned(r)
  <1>0. IsQueue(Program(r))
    BY ProgramQueue DEF QueueOK
  <1>1. CASE r.op = "DescribeCollection"
    BY <1>1, DescribeOrdered DEF Program, Planned
  <1>2. CASE r.op = "ListIndexes" /\ r.lenient
    <2> DEFINE a == AskAll("ListIndexes", <<"indexList">>, r.name)
               d == DescribeQueries(r.name, TRUE)
    <2>1. Program(r) = a \o d
      BY <1>2 DEF Program
    <2>2. Ordered(a \o d) /\ Pending(a \o d) = Pending(a) \cup Pending(d)
      BY ListIndexesOrdered
    <2>3. Pending(a) = {Ask("ListIndexes", "indexList", r.name)}
      BY OneQueryOrdered DEF ChildKinds, PartKinds, Position
    <2>4. Pending(d) = {Ask("DescribeCollection", k, r.name) : k \in DescribePlan(TRUE)}
      BY DescribeOrdered
    <2> HIDE DEF a, d
    <2> QED BY <1>2, <2>1, <2>2, <2>3, <2>4, <1>0 DEF Planned
  <1>3. CASE r.op = "ListIndexes" /\ ~r.lenient
    <2> DEFINE a == AskAll(r.op, <<"indexList">>, r.name)
    <2>1. Program(r) = a \o <<>>
      BY <1>3 DEF Program
    <2>2. IsQueue(a) /\ Ordered(a) /\ Pending(a) = {Ask(r.op, "indexList", r.name)}
      BY OneQueryOrdered DEF ChildKinds, PartKinds, Position
    <2> HIDE DEF a
    <2>3. a \o <<>> = a
      BY <2>2, ConcatEmptySeq DEF IsQueue
    <2> QED BY <1>3, <2>1, <2>2, <2>3 DEF Planned
  <1>4. CASE r.op = "ListConstraints"
    <2> DEFINE K == <<"pkProbe", "fkIds", "uniques">>
    <2>1. Program(r) = AskAll(r.op, K, r.name)
      BY <1>4 DEF Program
    <2>2. DOMAIN K = 1..3 /\ K[1] = "pkProbe" /\ K[2] = "fkIds" /\ K[3] = "uniques"
      OBVIOUS
    <2> HIDE DEF K
    <2>3. Position(K[1]) = 1 /\ Position(K[2]) = 2 /\ Position(K[3]) = 3
      BY <2>2 DEF Position
    <2>4. AsksInOrder(AskAll(r.op, K, r.name), r.op, K, 3, r.name)
      <3>1. \A i \in 1..3 : K[i] \notin ChildKinds /\ Position(K[i]) \in Int
        BY <2>2, <2>3 DEF ChildKinds, PartKinds
      <3>2. \A i, j \in 1..3 : i < j => Position(K[i]) < Position(K[j])
        BY <2>3
      <3>3. 3 \in Nat
        OBVIOUS
      <3> QED BY <2>2, <3>1, <3>2, <3>3, AskAllOrdered
    <2>5. Pending(Program(r)) = {Ask(r.op, k, r.name) : k \in {"pkProbe", "fkIds", "uniques"}}
      BY <2>1, <2>2, <2>4 DEF AsksInOrder, Pending
    <2> QED BY <1>4, <2>1, <2>4, <2>5 DEF Planned, AsksInOrder
  <1>5. CASE r.op \in {"ListCollections", "ListReferrers"}
    <2>1. Program(r) = AskAll(r.op, <<"tables">>, r.name)
      BY <1>5 DEF Program
    <2>2. "tables" \notin ChildKinds /\ Position("tables") = 1
      BY DEF ChildKinds, PartKinds, Position
    <2>3. Ordered(Program(r)) /\ Pending(Program(r)) = {Ask(r.op, "tables", r.name)}
      BY <2>1, <2>2, OneQueryOrdered
    <2> QED BY <1>0, <1>5, <2>3 DEF Planned
  <1>6. CASE r.op \in {"ListViews", "ListSourceViews"}
    <2>1. Program(r) = AskAll(r.op, <<"views">>, r.name)
      BY <1>6 DEF Program
    <2>2. "views" \notin ChildKinds /\ Position("views") = 1
      BY DEF ChildKinds, PartKinds, Position
    <2>3. Ordered(Program(r)) /\ Pending(Program(r)) = {Ask(r.op, "views", r.name)}
      BY <2>1, <2>2, OneQueryOrdered
    <2> QED BY <1>0, <1>6, <2>3 DEF Planned
  <1>7. CASE r.op = "UnnamedObjects"
    <2>1. Program(r) = AskAll(r.op, <<"unnamed">>, r.name)
      BY <1>7 DEF Program
    <2>2. "unnamed" \notin ChildKinds /\ Position("unnamed") = 1
      BY DEF ChildKinds, PartKinds, Position
    <2>3. Ordered(Program(r)) /\ Pending(Program(r)) = {Ask(r.op, "unnamed", r.name)}
      BY <2>1, <2>2, OneQueryOrdered
    <2> QED BY <1>0, <1>7, <2>3 DEF Planned
  <1>8. CASE r.op = "OpenSourceRows" /\ r.name # Empty
    <2> DEFINE K == <<"hidden", "rowColumns">>
    <2>1. Program(r) = AskAll(r.op, K, r.name)
      BY <1>8 DEF Program
    <2>2. DOMAIN K = 1..2 /\ K[1] = "hidden" /\ K[2] = "rowColumns"
      OBVIOUS
    <2> HIDE DEF K
    <2>3. Position(K[1]) = 14 /\ Position(K[2]) = 15
      BY <2>2 DEF Position
    <2>4. AsksInOrder(AskAll(r.op, K, r.name), r.op, K, 2, r.name)
      <3>1. \A i \in 1..2 : K[i] \notin ChildKinds /\ Position(K[i]) \in Int
        BY <2>2, <2>3 DEF ChildKinds, PartKinds
      <3>2. \A i, j \in 1..2 : i < j => Position(K[i]) < Position(K[j])
        BY <2>3
      <3>3. 2 \in Nat
        OBVIOUS
      <3> QED BY <2>2, <3>1, <3>2, <3>3, AskAllOrdered
    <2>5. Pending(Program(r)) = {Ask(r.op, k, r.name) : k \in {"hidden", "rowColumns"}}
      BY <2>1, <2>2, <2>4 DEF AsksInOrder, Pending
    <2> QED BY <1>8, <2>1, <2>4, <2>5 DEF Planned, AsksInOrder
  <1>9. CASE r.op = "OpenSourceRows" /\ r.name = Empty
    <2>1. Program(r) = <<>>
      BY <1>9 DEF Program
    <2> QED BY <1>9, <2>1, <1>0 DEF Ordered, Pending, Planned
  <1> QED
    BY <1>0, <1>1, <1>2, <1>3, <1>4, <1>5, <1>6, <1>7, <1>8, <1>9 DEF Operations

\* What it is certain to ask is its own.
LEMMA PlannedMine ==
    ASSUME NEW req, req.op \in Operations, NEW q \in Planned(req)
    PROVE  Mine(q, req)
  BY DEF Operations, Planned, DescribePlan, Mine, KindsOf, PartKinds, Ask

-----------------------------------------------------------------------------
(* An answer keeps what a call knows in order.                             *)

\* What the queries an answer asks for, and its refusal, depend on has been answered.
Knows(A, g) ==
    /\ g.kind = "tableInfo" =>
         /\ Ask("DescribeCollection", "sidecar", g.of) \in DOMAIN A
         /\ About(A, "sidecar", g.of) => Ask("DescribeCollection", "markers", g.of) \in DOMAIN A
    /\ g.kind = "spellings" => Ask("DescribeCollection", "fkList", g.of) \in DOMAIN A

\* The kinds of requests (SchemaReader!Requests).
LEMMA ShapeRanks ==
    ASSUME NEW c, Shape(c)
    PROVE  /\ c.req.op \in Operations
           /\ \A q \in Asked(c) : Mine(q, c.req) /\ Rank(q) \in Int
  BY RankIsNat, SchemaReaderAssumption DEF Shape, Mine

\* A query of lower rank than one all those to send come after has been answered.
LEMMA AskedBefore ==
    ASSUME NEW c, Shape(c), NEW g \in Asked(c), \A p \in Pending(c.todo) : Rank(g) <= Rank(p),
           NEW x \in Asked(c), Rank(x) < Rank(g)
    PROVE  x \in DOMAIN c.got
  BY ShapeRanks DEF Asked

\* The marks are asked for if the sidecar is there.
LEMMA MarkersFollow ==
    ASSUME NEW q, q.kind = "sidecar", NEW rows, rows, NEW A
    PROVE  Ask(q.in, "markers", q.of) \in Following(q, rows, A)
  BY DEF Following

\* Whether the sidecar is there, and what it marks, is read before the columns, and
\* the keys before the names of their targets (schema_reader.go:158).
LEMMA KnowsEnough ==
    ASSUME NEW c, Shape(c), NEW g \in Asked(c), \A p \in Pending(c.todo) : Rank(g) <= Rank(p)
    PROVE  Knows(c.got, g)
  <1>0. Mine(g, c.req) /\ c.req.op \in Operations /\ Planned(c.req) \subseteq Asked(c)
    BY ShapeRanks, ProgramOrdered DEF Shape
  <1>1. ASSUME g.kind = "tableInfo"
        PROVE  /\ Ask("DescribeCollection", "sidecar", g.of) \in DOMAIN c.got
               /\ About(c.got, "sidecar", g.of) => Ask("DescribeCollection", "markers", g.of) \in DOMAIN c.got
    <2> DEFINE x == Ask("DescribeCollection", "sidecar", g.of)
               y == Ask("DescribeCollection", "markers", g.of)
    <2>1. g.in = "DescribeCollection" /\ g.of = c.req.name /\ Rank(g) = 24
      BY <1>0, <1>1 DEF Mine, KindsOf, PartKinds, Operations, Rank, Position
    <2>2. x \in Planned(c.req)
      BY <1>0, <2>1 DEF Mine, Planned, DescribePlan
    <2>3. Rank(x) = 22 /\ Rank(y) = 23 /\ x.kind = "sidecar" /\ x.in = "DescribeCollection" /\ x.of = g.of
      BY DEF Ask, Rank, Position
    <2>4. x \in DOMAIN c.got
      BY <1>0, <2>1, <2>2, <2>3, AskedBefore
    <2>5. ASSUME c.got[x] PROVE y \in DOMAIN c.got
      <3>1. y \in Following(x, c.got[x], c.got)
        <4> DEFINE rows == c.got[x]
        <4>1. Ask(x.in, "markers", x.of) \in Following(x, rows, c.got)
          <5> HIDE DEF x, rows
          <5>1. rows
            BY <2>5 DEF rows
          <5> QED BY <2>3, <5>1, MarkersFollow
        <4> QED BY <2>3, <4>1
      <3>2. y \in Asked(c)
        BY <2>4, <3>1 DEF Shape
      <3> QED BY <2>1, <2>3, <3>2, AskedBefore
    <2> QED BY <2>4, <2>5 DEF About
  <1>2. ASSUME g.kind = "spellings"
        PROVE  Ask("DescribeCollection", "fkList", g.of) \in DOMAIN c.got
    <2> DEFINE x == Ask("DescribeCollection", "fkList", g.of)
    <2>1. g.in = "DescribeCollection" /\ g.of = c.req.name /\ Rank(g) = 31
      BY <1>0, <1>2 DEF Mine, KindsOf, PartKinds, Operations, Rank, Position
    <2>2. x \in Planned(c.req)
      BY <1>0, <2>1 DEF Mine, Planned, DescribePlan
    <2>3. Rank(x) = 30
      BY DEF Ask, Rank, Position
    <2> QED BY <1>0, <2>1, <2>2, <2>3, AskedBefore
  <1> QED BY <1>1, <1>2 DEF Knows

\* A later answer changes neither.
LEMMA LearnKeeps ==
    ASSUME NEW A, NEW B, NEW q, q \notin DOMAIN A, NEW answer, B = Learn(A, q, answer),
           NEW g, Knows(A, g), NEW rows, NEW l
    PROVE  /\ Following(g, rows, B) = Following(g, rows, A)
           /\ Refuses(g, rows, B, l) <=> Refuses(g, rows, A, l)
  <1>1. DOMAIN B = DOMAIN A \cup {q} /\ \A p \in DOMAIN A : B[p] = A[p]
    BY DEF Learn
  <1>2. g.kind = "tableInfo" => Marked(B, g.of) = Marked(A, g.of)
    BY <1>1 DEF Knows, Marked, About
  <1>3. g.kind = "spellings" => About(B, "fkList", g.of) = About(A, "fkList", g.of)
    BY <1>1 DEF Knows, About
  <1>4. Following(g, rows, B) = Following(g, rows, A)
    <2>1. CASE g.kind = "tableInfo"
      BY <1>2, <2>1 DEF Following
    <2>2. CASE g.kind = "spellings"
      BY <1>3, <2>2 DEF Following
    <2>3. CASE g.kind \notin {"tableInfo", "spellings"}
      BY <2>3 DEF Following
    <2> QED BY <2>1, <2>2, <2>3
  <1>5. Refuses(g, rows, B, l) <=> Refuses(g, rows, A, l)
    <2>1. CASE g.kind = "tableInfo"
      BY <1>2, <2>1 DEF Refuses
    <2>2. CASE g.kind # "tableInfo"
      BY <2>2 DEF Refuses
    <2> QED BY <2>1, <2>2
  <1> QED BY <1>4, <1>5

\* What one answer asks for is asked in one loop.
LEMMA FollowingAlike ==
    ASSUME NEW q, NEW rows, NEW A, NEW x \in Following(q, rows, A), NEW y \in Following(q, rows, A)
    PROVE  Rank(x) = Rank(y) /\ (x = y \/ x.kind \in PartKinds)
  <1>1. /\ x = Ask(q.in, x.kind, x.of) /\ x.in = q.in /\ y = Ask(q.in, y.kind, y.of) /\ y.in = q.in
    BY FollowingShape
  <1>2. /\ Position(x.kind) = Position(y.kind)
        /\ x.kind \in PartKinds \/ (x.kind = y.kind /\ x.of = y.of)
    BY FollowingShape DEF PartKinds, Position
  <1> QED BY <1>1, <1>2 DEF Rank

\* The answer of a query that is not refused keeps the shape of its call
\* (SchemaReader!Answered).
LEMMA ShapeStep ==
    ASSUME NEW c, NEW d, Shape(c), c.todo # <<>>, NEW q \in Head(c.todo), NEW answer,
           ~Refuses(q, answer, c.got, c.req.lenient), q.kind # "sourceRows",
           d.req = c.req, d.got = Learn(c.got, q, answer),
           d.todo = Left(Following(q, answer, d.got)) \o Left(Head(c.todo) \ {q}) \o Tail(c.todo)
    PROVE  /\ Shape(d) /\ q \notin DOMAIN c.got
           /\ \A g \in DOMAIN c.got : Rank(g) <= Rank(q)
           /\ \A g \in DOMAIN c.got \cup {q} : Rank(g) \in Int
  <1> DEFINE s == c.todo
             F == Following(q, answer, d.got)
             t == Left(F) \o Left(Head(s) \ {q}) \o Tail(s)
  <1>1. 1 \in DOMAIN s /\ q \in s[1] /\ Head(s) = s[1] /\ q \in Pending(s) /\ IsQueue(s) /\ Ordered(s)
    BY DEF Shape, IsQueue, Pending
  <1>2. /\ q \in Asked(c) /\ Pending(s) \subseteq Asked(c)
        /\ \A p \in Asked(c) : Mine(p, c.req) /\ Rank(p) \in Int
    BY <1>1, ShapeRanks DEF Asked
  <1>3. AllRanked(s)
    BY <1>2 DEF AllRanked
  <1>4. \A x \in F : /\ Mine(x, c.req) /\ q.kind \notin PartKinds /\ x.kind \in ChildKinds
                     /\ Rank(q) < Rank(x)
                     /\ \A y : Mine(y, c.req) /\ y.kind \notin ChildKinds /\ Rank(q) < Rank(y)
                               => Rank(x) < Rank(y)
    BY <1>2, FollowingInOrder
  <1>5. \A x \in F : \A y \in F : Rank(x) = Rank(y) /\ (x = y \/ x.kind \in PartKinds)
    BY FollowingAlike
  <1>6. \A x \in F : Rank(x) \in Int
    BY <1>4, RankIsNat DEF Mine
  <1> HIDE DEF F
  <1>7. /\ IsQueue(t) /\ Ordered(t) /\ Pending(t) = F \cup (Pending(s) \ {q})
        /\ \A y \in Pending(t) : y # q /\ Rank(q) <= Rank(y)
    <2>1. \A x \in F : /\ x.kind \in ChildKinds /\ Rank(x) \in Int /\ Rank(q) < Rank(x)
                       /\ \A y \in F : Rank(x) = Rank(y) /\ (x = y \/ x.kind \in PartKinds)
                       /\ \A y \in Pending(s) :
                            y.kind \notin ChildKinds /\ Rank(q) < Rank(y) => Rank(x) < Rank(y)
      BY <1>2, <1>4, <1>5, <1>6
    <2>2. F # {} => q.kind \notin PartKinds
      BY <1>4
    <2>3. q \in Head(s) /\ s # <<>>
      OBVIOUS
    <2> HIDE DEF s
    <2> QED BY <1>1, <1>3, <2>1, <2>2, <2>3, OrderedStep
  <1>8. d.todo = t
    BY DEF F
  <1> HIDE DEF t
  <1>9. /\ q \notin DOMAIN c.got /\ DOMAIN d.got = DOMAIN c.got \cup {q} /\ d.got[q] = answer
        /\ \A p \in DOMAIN c.got : d.got[p] = c.got[p]
    BY <1>1 DEF Learn, Shape
  <1>10. Asked(d) = Asked(c) \cup F
    BY <1>1, <1>7, <1>8, <1>9 DEF Asked
  <1>11. \A p \in Pending(s) : Rank(q) <= Rank(p)
    BY <1>2, <1>7
  <1>12. \A g \in DOMAIN c.got : Rank(g) <= Rank(q)
    BY <1>1 DEF Shape
  <1>13. ASSUME NEW g \in DOMAIN d.got, NEW p \in Pending(d.todo) PROVE g # p /\ Rank(g) <= Rank(p)
    <2>1. CASE g = q
      BY <1>7, <1>8, <2>1
    <2>2. CASE g # q /\ p \in Pending(s)
      BY <1>9, <2>2 DEF Shape
    <2>3. CASE g # q /\ p \in F
      <3>1. g \in DOMAIN c.got /\ Rank(g) \in Int /\ Rank(q) \in Int /\ Rank(p) \in Int
        BY <1>2, <1>6, <1>9, <2>3 DEF Asked
      <3>2. Rank(g) <= Rank(q) /\ Rank(q) < Rank(p)
        BY <1>4, <1>12, <2>3, <3>1
      <3> QED BY <3>1, <3>2
    <2> QED BY <1>7, <1>8, <2>1, <2>2, <2>3
  <1>14. ASSUME NEW g \in DOMAIN c.got \cup {q} PROVE Knows(c.got, g)
    <2>1. g \in Asked(c) /\ \A p \in Pending(c.todo) : Rank(g) <= Rank(p)
      BY <1>2, <1>11, <1>14 DEF Asked, Shape
    <2> QED BY <2>1, KnowsEnough
  <1>15. ASSUME NEW g \in DOMAIN d.got
         PROVE  /\ Following(g, d.got[g], d.got) \subseteq Asked(d)
                /\ ~Refuses(g, d.got[g], d.got, d.req.lenient)
                /\ g.kind # "sourceRows"
    <2>1. /\ Following(g, d.got[g], d.got) = Following(g, d.got[g], c.got)
          /\ Refuses(g, d.got[g], d.got, d.req.lenient) <=> Refuses(g, d.got[g], c.got, d.req.lenient)
      <3> DEFINE A == c.got
                 B == d.got
                 rows == d.got[g]
                 l == d.req.lenient
      <3>1. q \notin DOMAIN A /\ B = Learn(A, q, answer)
        BY <1>9
      <3>0. g \in DOMAIN c.got \cup {q}
        BY <1>9
      <3>4. Knows(A, g)
        BY <1>14, <3>0
      <3> HIDE DEF A, B, rows, l
      <3>2. Following(g, rows, B) = Following(g, rows, A)
        BY <3>1, <3>4, LearnKeeps
      <3>3. Refuses(g, rows, B, l) <=> Refuses(g, rows, A, l)
        BY <3>1, <3>4, LearnKeeps
      <3> QED BY <3>2, <3>3 DEF A, B, rows, l
    <2>2. CASE g = q
      BY <1>9, <1>10, <2>1, <2>2 DEF F
    <2>3. CASE g # q
      <3>1. g \in DOMAIN c.got /\ d.got[g] = c.got[g]
        BY <1>9, <2>3
      <3> QED BY <1>10, <2>1, <3>1 DEF Shape
    <2> QED BY <2>2, <2>3
  <1>16. \A x \in Asked(d) : Mine(x, d.req)
    BY <1>2, <1>4, <1>10
  <1>17. Pending(Program(d.req)) \subseteq Asked(d) /\ d.req \in Requests
    BY <1>10 DEF Shape
  <1>18. ASSUME NEW p \in Pending(d.todo), p.kind = "sourceRows"
         PROVE  LET cols == Ask("OpenSourceRows", "rowColumns", d.req.name)
                IN cols \in DOMAIN d.got /\ p.of = <<d.req.name, d.got[cols]>>
    <2>1. CASE p \in Pending(s)
      BY <1>9, <1>18, <2>1 DEF Shape
    <2>2. CASE p \in F
      <3>1. q.kind = "rowColumns" /\ p.of = <<q.of, answer>>
        BY <1>18, <2>2, FollowingShape DEF F
      <3>2. q = Ask("OpenSourceRows", "rowColumns", c.req.name) /\ q.of = c.req.name
        BY <1>2, <3>1 DEF Mine, KindsOf, Operations, PartKinds
      <3> QED BY <1>9, <3>1, <3>2
    <2> QED BY <1>7, <1>8, <2>1, <2>2
  <1>19. Shape(d)
    BY <1>7, <1>8, <1>13, <1>15, <1>16, <1>17, <1>18 DEF Shape
  <1> QED BY <1>2, <1>9, <1>12, <1>19 DEF Asked

\* A call begins in shape.
LEMMA ShapeBegins ==
    ASSUME NEW req \in Requests
    PROVE  Shape(NewCall(req))
  <1> DEFINE c == NewCall(req)
  <1>1. c.req = req /\ c.todo = Program(req) /\ c.got = <<>>
    BY DEF NewCall
  <1>2. req.op \in Operations
    BY SchemaReaderAssumption
  <1>3. IsQueue(c.todo) /\ Ordered(c.todo) /\ \A q \in Pending(c.todo) : Mine(q, req)
    BY <1>1, <1>2, ProgramOrdered, PlannedMine
  <1>4. DOMAIN c.got = {}
    BY <1>1
  <1> HIDE DEF c
  <1>5. Asked(c) = Pending(Program(req))
    BY <1>1, <1>4 DEF Asked
  <1>6. \A q \in Asked(c) : Mine(q, c.req)
    BY <1>1, <1>3, <1>5
  <1>7. \A q \in Pending(c.todo) : q.kind # "sourceRows"
    BY <1>1, <1>2, ProgramOrdered DEF Planned, DescribePlan, Ask, Operations
  <1>8. Shape(c)
    BY <1>1, <1>3, <1>4, <1>5, <1>6, <1>7 DEF Shape
  <1> QED BY <1>8 DEF c

-----------------------------------------------------------------------------
(* What a step does to what a call knows.                                  *)

Kept(c, d) ==
    /\ d.req = c.req /\ d.todo = c.todo /\ d.got = c.got /\ d.from = c.from /\ d.since = c.since

\* The call c, at pc, becomes d, at pd, on its query q: a query is opened, answered,
\* refused or fails, the context ends, or the call returns.
Opens(c, d, pc, pd, q) ==
    /\ pc = "next" /\ pd = "rows" /\ c.todo # <<>> /\ d.hit = c.hit
    /\ Kept(c, d) /\ d.answer = RowsOf(q, cat)

Takes(c, d, pc, pd, q) ==
    /\ pc \in {"next", "rows"} /\ pd = "next" /\ c.todo # <<>> /\ q.kind # "sourceRows"
    /\ d.req = c.req /\ d.from = c.from /\ d.since = c.since
    /\ \E answer :
         /\ d.got = Learn(c.got, q, answer)
         /\ d.todo = Left(Following(q, answer, d.got)) \o Left(Head(c.todo) \ {q}) \o Tail(c.todo)
         /\ ~Refuses(q, answer, c.got, c.req.lenient)
         /\ \/ pc = "rows" /\ answer = c.answer
            \/ q.kind \in {"conn", "connClose"} /\ answer = TRUE
            \/ q.kind \in Probes \cap d.hit

Fails(c, d, pc, pd) ==
    pc \in {"next", "rows"} /\ pd = "leaving" /\ Kept(c, d) /\ d.hit # {}

IsRefused(c, d, pc, pd, q) ==
    /\ pc = "rows" /\ pd = "leaving" /\ Kept(c, d)
    /\ c.todo # <<>> /\ Refuses(q, c.answer, c.got, c.req.lenient)

Ending(c, d, pc, pd) ==
    pc = pd /\ pc # "idle" /\ Kept(c, d) /\ d.answer = c.answer /\ d.hit = c.hit /\ d.outcome = c.outcome

Returns(c, d, pc, pd) ==
    /\ pd = "done" /\ Kept(c, d) /\ d.hit = c.hit
    /\ \/ pc = "leaving" /\ d.outcome = "error"
       \/ /\ pc = "next" /\ c.todo = <<>>
          /\ LET fails == Nameless(c.req) \/ (Describes(c.req) /\ SourceDiffers(c.got, c.req.name))
             IN d.outcome = IF fails THEN "error" ELSE "ok"

CallStep(r) ==
    /\ cat' = cat /\ call[r].hit \subseteq call'[r].hit
    /\ \A p \in Readers \ {r} : rpc'[p] = rpc[p] /\ call'[p] = call[p]
    /\ \/ Opens(call[r], call'[r], rpc[r], rpc'[r], Query(r))
       \/ Takes(call[r], call'[r], rpc[r], rpc'[r], Query(r))
       \/ Fails(call[r], call'[r], rpc[r], rpc'[r])
       \/ IsRefused(call[r], call'[r], rpc[r], rpc'[r], Query(r))
       \/ Ending(call[r], call'[r], rpc[r], rpc'[r])
       \/ Returns(call[r], call'[r], rpc[r], rpc'[r])

\* What an answer makes of its call.
LEMMA AnsweredIs ==
    ASSUME PoolInv, NEW r \in Readers, rpc[r] \in {"next", "rows"}, NEW answer
    PROVE  LET new == Answered(r, answer)
               q == Query(r)
               c == call[r]
           IN /\ new = [p \in Readers |-> new[p]] /\ IsCall(new[r])
              /\ \A p \in Readers \ {r} : new[p] = call[p]
              /\ new[r].got = Learn(c.got, q, answer)
              /\ new[r].todo = Left(Following(q, answer, new[r].got)) \o Left(Head(c.todo) \ {q}) \o Tail(c.todo)
              /\ new[r].req = c.req /\ new[r].from = c.from /\ new[r].since = c.since /\ new[r].hit = c.hit
  <1> DEFINE q == Query(r)
             got == Learn(call[r].got, q, answer)
             t == Left(Following(q, answer, got)) \o Left(Head(call[r].todo) \ {q}) \o Tail(call[r].todo)
             new == Answered(r, answer)
  <1>1. call = [p \in Readers |-> call[p]] /\ IsCall(call[r])
    BY DEF PoolInv, CallInv
  <1>2. new = [call EXCEPT ![r] = [call[r] EXCEPT !.got = got, !.answer = Nil, !.todo = t]]
    BY <1>1 DEF Answered
  <1> HIDE DEF got, t, new
  <1>3. new[r] = [call[r] EXCEPT !.got = got, !.answer = Nil, !.todo = t]
    BY <1>1, <1>2
  <1>4. /\ IsCall(new[r]) /\ new[r].got = got /\ new[r].todo = t
        /\ new[r].req = call[r].req /\ new[r].from = call[r].from
        /\ new[r].since = call[r].since /\ new[r].hit = call[r].hit
    BY <1>1, <1>3 DEF IsCall
  <1>5. new = [p \in Readers |-> new[p]] /\ \A p \in Readers \ {r} : new[p] = call[p]
    BY <1>1, <1>2
  <1> QED BY <1>4, <1>5 DEF got, t, new

\* A failing query makes its call return, but a probe's.
LEMMA FailIsStep ==
    ASSUME PoolInv, NEW r \in Readers, Fail(r), rpc[r] \in {"next", "rows"}, call[r].todo # <<>>, cat' = cat
    PROVE  CallStep(r)
  <1> DEFINE q == Query(r)
             new == Answered(r, FALSE)
             sw == Swallows(q, rpc[r] = "rows")
  <1>1. call = [p \in Readers |-> call[p]] /\ IsCall(call[r]) /\ rpc = [p \in Readers |-> rpc[p]]
    BY DEF PoolInv, CallInv
  <1>2. CASE sw
    <2>1. q.kind \in Probes
      BY <1>2 DEF Swallows, Probes
    <2>2. call' = [new EXCEPT ![r].hit = @ \cup {q.kind}] /\ rpc' = [rpc EXCEPT ![r] = "next"]
      BY <1>2 DEF Fail, Goto
    <2>3. /\ new = [p \in Readers |-> new[p]] /\ IsCall(new[r])
          /\ \A p \in Readers \ {r} : new[p] = call[p]
          /\ new[r].got = Learn(call[r].got, q, FALSE)
          /\ new[r].todo = Left(Following(q, FALSE, new[r].got)) \o Left(Head(call[r].todo) \ {q}) \o Tail(call[r].todo)
          /\ new[r].req = call[r].req /\ new[r].from = call[r].from /\ new[r].since = call[r].since
          /\ new[r].hit = call[r].hit
      BY <1>1, AnsweredIs
    <2>4. q.kind # "sourceRows" /\ ~Refuses(q, FALSE, call[r].got, call[r].req.lenient)
      BY <2>1 DEF Probes, Refuses
    <2> HIDE DEF new, q, sw
    <2>5. call'[r] = [new[r] EXCEPT !.hit = @ \cup {q.kind}] /\ \A p \in Readers \ {r} : call'[p] = call[p]
      BY <2>2, <2>3
    <2>6. /\ call'[r].got = new[r].got /\ call'[r].todo = new[r].todo /\ call'[r].req = new[r].req
          /\ call'[r].from = new[r].from /\ call'[r].since = new[r].since
          /\ call'[r].hit = call[r].hit \cup {q.kind}
      BY <2>3, <2>5 DEF IsCall
    <2>7. rpc'[r] = "next" /\ \A p \in Readers \ {r} : rpc'[p] = rpc[p]
      BY <1>1, <2>2
    <2>8. Takes(call[r], call'[r], rpc[r], rpc'[r], q)
      BY <2>1, <2>3, <2>4, <2>6, <2>7 DEF Takes
    <2>9. call[r].hit \subseteq call'[r].hit
      BY <2>6
    <2> QED BY <2>5, <2>7, <2>8, <2>9 DEF CallStep, q
  <1>3. CASE ~sw
    <2>1. /\ call' = [call EXCEPT ![r].hit = @ \cup {q.kind}] /\ rpc' = [rpc EXCEPT ![r] = "leaving"]
      BY <1>3 DEF Fail, Goto
    <2> HIDE DEF q, sw
    <2>2. /\ Kept(call[r], call'[r]) /\ call'[r].hit = call[r].hit \cup {q.kind}
          /\ \A p \in Readers \ {r} : call'[p] = call[p]
      BY <1>1, <2>1 DEF IsCall, Kept
    <2>3. rpc'[r] = "leaving" /\ \A p \in Readers \ {r} : rpc'[p] = rpc[p]
      BY <1>1, <2>1
    <2>4. Fails(call[r], call'[r], rpc[r], rpc'[r])
      BY <2>2, <2>3 DEF Fails
    <2>5. call[r].hit \subseteq call'[r].hit
      BY <2>2
    <2> QED BY <2>2, <2>3, <2>4, <2>5 DEF CallStep
  <1> QED BY <1>2, <1>3

\* Every step of a read is one of these.
LEMMA CallSteps ==
    ASSUME PoolInv, NEW r \in Readers, Progress(r) \/ Fault(r) \/ Cancel(r)
    PROVE  CallStep(r)
  <1> DEFINE c == call[r]
             d == call'[r]
  <1>1. call = [p \in Readers |-> call[p]] /\ rpc = [p \in Readers |-> rpc[p]]
    BY DEF PoolInv
  <1>2. rpc[r] # "idle" => IsCall(call[r])
    BY DEF PoolInv, CallInv
  <1>3. CASE Fault(r) \/ Interrupt(r)
    <2>1. Fail(r) /\ rpc[r] \in {"next", "rows"} /\ call[r].todo # <<>>
      BY <1>3 DEF Fault, Interrupt, Sending, PoolInv, CallInv
    <2>2. cat' = cat
      BY <2>1 DEF Fail
    <2> QED BY <2>1, <2>2, FailIsStep
  <1>4. CASE Begin(r)
    <2>1. /\ call' = [call EXCEPT ![r].answer = RowsOf(Query(r), cat)] /\ rpc' = [rpc EXCEPT ![r] = "rows"]
          /\ rpc[r] = "next" /\ c.todo # <<>> /\ cat' = cat
      BY <1>4 DEF Begin, Goto, Sending, world
    <2>2. /\ Kept(c, d) /\ d.answer = RowsOf(Query(r), cat) /\ d.hit = c.hit
          /\ \A p \in Readers \ {r} : call'[p] = call[p]
      BY <1>1, <1>2, <2>1 DEF Kept, IsCall
    <2>3. rpc'[r] = "rows" /\ \A p \in Readers \ {r} : rpc'[p] = rpc[p]
      BY <1>1, <2>1
    <2>4. Opens(c, d, rpc[r], rpc'[r], Query(r))
      BY <2>1, <2>2, <2>3 DEF Opens
    <2> QED BY <2>1, <2>2, <2>3, <2>4 DEF CallStep
  <1>5. ASSUME NEW a, call' = Answered(r, a), rpc[r] \in {"next", "rows"}, rpc'[r] = "next", c.todo # <<>>,
               \A p \in Readers \ {r} : rpc'[p] = rpc[p], cat' = cat, Query(r).kind # "sourceRows",
               ~Refuses(Query(r), a, c.got, c.req.lenient),
               \/ rpc[r] = "rows" /\ a = c.answer
               \/ Query(r).kind \in {"conn", "connClose"} /\ a = TRUE
        PROVE  CallStep(r)
    <2>1. /\ \A p \in Readers \ {r} : call'[p] = call[p]
          /\ d.got = Learn(c.got, Query(r), a)
          /\ d.todo = Left(Following(Query(r), a, d.got)) \o Left(Head(c.todo) \ {Query(r)}) \o Tail(c.todo)
          /\ d.req = c.req /\ d.from = c.from /\ d.since = c.since /\ d.hit = c.hit
      <3> DEFINE new == Answered(r, a)
                 q == Query(r)
      <3>0. rpc[r] \in {"next", "rows"}
        BY <1>5
      <3>1. /\ \A p \in Readers \ {r} : new[p] = call[p]
            /\ new[r].got = Learn(call[r].got, q, a)
            /\ new[r].todo = Left(Following(q, a, new[r].got)) \o Left(Head(call[r].todo) \ {q}) \o Tail(call[r].todo)
            /\ new[r].req = call[r].req /\ new[r].from = call[r].from
            /\ new[r].since = call[r].since /\ new[r].hit = call[r].hit
        BY <3>0, AnsweredIs
      <3>2. call' = new
        BY <1>5
      <3> HIDE DEF new, q
      <3> QED BY <3>1, <3>2 DEF q
    <2>2. Takes(c, d, rpc[r], rpc'[r], Query(r))
      BY <1>5, <2>1 DEF Takes
    <2> QED BY <1>5, <2>1, <2>2 DEF CallStep
  <1>6. CASE Drain(r)
    <2>1. /\ rpc[r] = "rows" /\ call' = Answered(r, call[r].answer) /\ rpc' = [rpc EXCEPT ![r] = "next"]
          /\ ~Refused(r) /\ Query(r).kind # "sourceRows" /\ cat' = cat
      BY <1>6 DEF Drain, Goto, world
    <2>2. c.todo # <<>>
      BY <2>1 DEF PoolInv, CallInv
    <2> QED BY <1>1, <1>5, <2>1, <2>2 DEF Refused
  <1>7. CASE HoldConn(r) \/ FreeConn(r)
    <2>1. /\ rpc[r] = "next" /\ call' = Answered(r, TRUE) /\ rpc' = rpc /\ cat' = cat /\ c.todo # <<>>
          /\ Query(r).kind \in {"conn", "connClose"}
      BY <1>7 DEF HoldConn, FreeConn, Sending, world
    <2>2. ~Refuses(Query(r), TRUE, c.got, c.req.lenient)
      BY <2>1 DEF Refuses
    <2> QED BY <1>1, <1>5, <2>1, <2>2
  <1>8. CASE Refuse(r)
    <2>1. rpc[r] = "rows" /\ Refused(r) /\ rpc' = [rpc EXCEPT ![r] = "leaving"] /\ call' = call /\ cat' = cat
      BY <1>8 DEF Refuse, Goto, world
    <2>2. c.todo # <<>>
      BY <2>1 DEF PoolInv, CallInv
    <2>3. rpc'[r] = "leaving" /\ \A p \in Readers \ {r} : rpc'[p] = rpc[p]
      BY <1>1, <2>1
    <2>4. IsRefused(c, d, rpc[r], rpc'[r], Query(r))
      BY <2>1, <2>2, <2>3 DEF IsRefused, Refused, Kept
    <2> QED BY <2>1, <2>3, <2>4 DEF CallStep
  <1>9. CASE Finish(r)
    <2> DEFINE fails == Nameless(c.req) \/ (Describes(c.req) /\ SourceDiffers(c.got, c.req.name))
               o == IF fails THEN "error" ELSE "ok"
    <2>1. /\ call' = [call EXCEPT ![r].outcome = o] /\ rpc' = [rpc EXCEPT ![r] = "done"]
          /\ rpc[r] = "next" /\ c.todo = <<>> /\ cat' = cat
      <3>1. call' = [call EXCEPT ![r].outcome = o]
        BY <1>9, Zenon DEF Finish
      <3> QED BY <1>9, <3>1 DEF Finish, Goto, world
    <2> HIDE DEF fails
    <2>2. /\ Kept(c, d) /\ d.hit = c.hit /\ d.outcome = o
          /\ \A p \in Readers \ {r} : call'[p] = call[p]
      BY <1>1, <1>2, <2>1 DEF IsCall, Kept
    <2>3. rpc'[r] = "done" /\ \A p \in Readers \ {r} : rpc'[p] = rpc[p]
      BY <1>1, <2>1
    <2>4. Returns(c, d, rpc[r], rpc'[r])
      BY <2>1, <2>2, <2>3 DEF Returns, fails
    <2> QED BY <2>1, <2>2, <2>3, <2>4 DEF CallStep
  <1>10. CASE Leave(r)
    <2>1. /\ call' = [call EXCEPT ![r].outcome = "error"] /\ rpc' = [rpc EXCEPT ![r] = "done"]
          /\ rpc[r] = "leaving" /\ cat' = cat
      BY <1>10 DEF Leave, Goto, world
    <2>2. /\ Kept(c, d) /\ d.hit = c.hit /\ d.outcome = "error"
          /\ \A p \in Readers \ {r} : call'[p] = call[p]
      BY <1>1, <1>2, <2>1 DEF IsCall, Kept
    <2>3. rpc'[r] = "done" /\ \A p \in Readers \ {r} : rpc'[p] = rpc[p]
      BY <1>1, <2>1
    <2>4. Returns(c, d, rpc[r], rpc'[r])
      BY <2>1, <2>2, <2>3 DEF Returns
    <2> QED BY <2>1, <2>2, <2>3, <2>4 DEF CallStep
  <1>11. CASE Cancel(r)
    <2>1. /\ call' = [call EXCEPT ![r].live = FALSE] /\ rpc' = rpc /\ cat' = cat
          /\ rpc[r] \in {"next", "rows", "leaving"}
      BY <1>11 DEF Cancel, InCall, world
    <2>2. /\ Kept(c, d) /\ d.hit = c.hit /\ d.outcome = c.outcome /\ d.answer = c.answer
          /\ \A p \in Readers \ {r} : call'[p] = call[p]
      BY <1>1, <1>2, <2>1 DEF IsCall, Kept
    <2>3. Ending(c, d, rpc[r], rpc'[r])
      BY <2>1, <2>2 DEF Ending
    <2> QED BY <2>1, <2>2, <2>3 DEF CallStep
  <1> QED
    BY <1>3, <1>4, <1>6, <1>7, <1>8, <1>9, <1>10, <1>11 DEF Progress

-----------------------------------------------------------------------------
(* What a call heard of the catalog.                                       *)

First(c) == CHOOSE q \in Head(c.todo) : TRUE

Busy(pc) == pc \in {"next", "rows", "leaving"}

\* The answers of c are the rows of the catalog it began with and, of the late
\* queries and all after them, those of the catalog now; a probe may have failed.
Heard(c, now, late) ==
    /\ \A q \in DOMAIN c.got : \/ c.got[q] = RowsOf(q, IF q \in late THEN now ELSE c.from)
                               \/ q.kind \in Probes \cap c.hit
    /\ \A p \in late, q \in DOMAIN c.got : Rank(p) < Rank(q) => q \in late

\* While no DDL or one commits, the answers of the call c at pc are of one catalog
\* and then of one other, that of the file.
Truth(c, pc, file) ==
    /\ c.from \in Catalogs /\ c.since \in Nat
    /\ Busy(pc) /\ c.since = 0 => file = c.from
    /\ c.since <= 1 =>
         \E now \in Catalogs, late \in SUBSET DOMAIN c.got :
            /\ Heard(c, now, late)
            /\ Busy(pc) => now = file
            /\ c.since = 0 => now = c.from
            /\ pc = "rows" => \/ c.answer = RowsOf(First(c), now)
                              \/ late = {} /\ c.answer = RowsOf(First(c), c.from)

\* A call begins without an answer.
LEMMA TruthBegins ==
    ASSUME cat \in Catalogs, NEW req
    PROVE  Truth(NewCall(req), "next", cat)
  <1> DEFINE c == NewCall(req)
  <1>1. c.got = <<>> /\ c.from = cat /\ c.since = 0
    BY DEF NewCall
  <1> HIDE DEF c
  <1>2. Heard(c, cat, {}) /\ {} \in SUBSET DOMAIN c.got
    BY <1>1 DEF Heard
  <1>3. Truth(c, "next", cat)
    BY <1>1, <1>2 DEF Truth, Busy
  <1> QED BY <1>3 DEF c

\* Nothing the call heard changes.
LEMMA TruthKept ==
    ASSUME NEW c, NEW d, NEW pc, NEW pd, NEW file, Truth(c, pc, file), Kept(c, d), c.hit \subseteq d.hit,
           Busy(pd) => Busy(pc), pd = "rows" => pc = "rows" /\ d.answer = c.answer
    PROVE  Truth(d, pd, file)
  <1>1. CASE ~(c.since <= 1)
    BY <1>1 DEF Truth, Kept
  <1>2. CASE c.since <= 1
    <2>1. PICK now \in Catalogs, late \in SUBSET DOMAIN c.got :
            /\ Heard(c, now, late)
            /\ Busy(pc) => now = file
            /\ c.since = 0 => now = c.from
            /\ pc = "rows" => \/ c.answer = RowsOf(First(c), now)
                              \/ late = {} /\ c.answer = RowsOf(First(c), c.from)
      BY <1>2 DEF Truth
    <2>2. Heard(d, now, late)
      BY <2>1 DEF Heard, Kept
    <2>3. First(d) = First(c)
      BY DEF First, Kept
    <2> QED BY <1>2, <2>1, <2>2, <2>3 DEF Truth, Kept
  <1> QED BY <1>1, <1>2

\* A query is opened: its rows are those of the file.
LEMMA TruthOpens ==
    ASSUME NEW c, NEW d, NEW pc, NEW pd, cat \in Catalogs, Truth(c, pc, cat),
           Opens(c, d, pc, pd, First(c))
    PROVE  Truth(d, pd, cat)
  <1>0. pc = "next" /\ pd = "rows" /\ Kept(c, d) /\ d.answer = RowsOf(First(c), cat) /\ d.hit = c.hit
    BY DEF Opens
  <1>1. CASE ~(c.since <= 1)
    BY <1>0, <1>1 DEF Truth, Kept, Busy
  <1>2. CASE c.since <= 1
    <2>1. PICK now \in Catalogs, late \in SUBSET DOMAIN c.got :
            /\ Heard(c, now, late)
            /\ Busy(pc) => now = cat
            /\ c.since = 0 => now = c.from
      BY <1>2 DEF Truth
    <2>2. Heard(d, now, late)
      BY <1>0, <2>1 DEF Heard, Kept
    <2>3. First(d) = First(c) /\ now = cat
      BY <1>0, <2>1 DEF First, Kept, Busy
    <2>4. d.answer = RowsOf(First(d), now)
      BY <1>0, <2>3
    <2>5. d.from = c.from /\ d.since = c.since /\ d.got = c.got
      BY <1>0 DEF Kept
    <2>6. Busy(pd) /\ Busy(pc)
      BY <1>0 DEF Busy
    <2> QED BY <1>2, <2>1, <2>2, <2>3, <2>4, <2>5, <2>6 DEF Truth
  <1> QED BY <1>1, <1>2

\* The rows of an answer are those of the file when the query was opened.
LEMMA TruthTakes ==
    ASSUME NEW c, NEW d, NEW pc, NEW pd, NEW file, Truth(c, pc, file), Shape(c), c.hit \subseteq d.hit,
           First(c) \in Head(c.todo), Takes(c, d, pc, pd, First(c))
    PROVE  Truth(d, pd, file) /\ Shape(d)
  <1> DEFINE q == First(c)
  <1>1. /\ pc \in {"next", "rows"} /\ pd = "next" /\ c.todo # <<>> /\ q.kind # "sourceRows"
        /\ d.req = c.req /\ d.from = c.from /\ d.since = c.since
    BY DEF Takes
  <1>2. PICK answer :
          /\ d.got = Learn(c.got, q, answer)
          /\ d.todo = Left(Following(q, answer, d.got)) \o Left(Head(c.todo) \ {q}) \o Tail(c.todo)
          /\ ~Refuses(q, answer, c.got, c.req.lenient)
          /\ \/ pc = "rows" /\ answer = c.answer
             \/ q.kind \in {"conn", "connClose"} /\ answer = TRUE
             \/ q.kind \in Probes \cap d.hit
    BY DEF Takes
  <1>3. q \in Head(c.todo)
    OBVIOUS
  <1> HIDE DEF q
  <1>4. /\ Shape(d) /\ q \notin DOMAIN c.got
        /\ \A g \in DOMAIN c.got : Rank(g) <= Rank(q)
        /\ \A g \in DOMAIN c.got \cup {q} : Rank(g) \in Int
    BY <1>1, <1>2, <1>3, ShapeStep
  <1>5. /\ DOMAIN d.got = DOMAIN c.got \cup {q} /\ d.got[q] = answer
        /\ \A g \in DOMAIN c.got : d.got[g] = c.got[g]
    BY <1>2, <1>4 DEF Learn
  <1>6. CASE ~(c.since <= 1)
    BY <1>1, <1>4, <1>6 DEF Truth, Busy
  <1>7. CASE c.since <= 1
    <2>1. PICK now \in Catalogs, late \in SUBSET DOMAIN c.got :
            /\ Heard(c, now, late)
            /\ Busy(pc) => now = file
            /\ c.since = 0 => now = c.from
            /\ pc = "rows" => \/ c.answer = RowsOf(q, now)
                              \/ late = {} /\ c.answer = RowsOf(q, c.from)
      BY <1>7 DEF Truth, q
    <2>2. \/ answer = RowsOf(q, now)
          \/ late = {} /\ answer = RowsOf(q, c.from)
          \/ q.kind \in Probes \cap d.hit
      <3>1. CASE q.kind \in {"conn", "connClose"} /\ answer = TRUE
        BY <3>1 DEF RowsOf
      <3> QED BY <1>2, <2>1, <3>1
    <2>3. ASSUME NEW l \in SUBSET DOMAIN d.got, Heard(d, now, l) PROVE Truth(d, pd, file)
      <3>1. Busy(pc) /\ Busy(pd) /\ pd # "rows"
        BY <1>1 DEF Busy
      <3> QED BY <1>1, <1>7, <2>1, <2>3, <3>1 DEF Truth
    <2>4. \A g \in DOMAIN c.got : \/ d.got[g] = RowsOf(g, IF g \in late THEN now ELSE d.from)
                                  \/ g.kind \in Probes \cap d.hit
      BY <1>1, <1>5, <2>1 DEF Heard
    <2>5. CASE late = {} /\ answer = RowsOf(q, c.from)
      <3>1. Heard(d, now, {})
        BY <1>1, <1>5, <2>4, <2>5 DEF Heard
      <3> QED BY <1>4, <2>3, <3>1
    <2>6. CASE answer = RowsOf(q, now) \/ q.kind \in Probes \cap d.hit
      <3> DEFINE l == late \cup {q}
      <3>1. \A g \in DOMAIN d.got : \/ d.got[g] = RowsOf(g, IF g \in l THEN now ELSE d.from)
                                    \/ g.kind \in Probes \cap d.hit
        <4> TAKE g \in DOMAIN d.got
        <4>1. CASE g = q
          BY <1>5, <2>6, <4>1
        <4>2. CASE g # q
          BY <1>5, <2>4, <4>2
        <4> QED BY <4>1, <4>2
      <3>2. ASSUME NEW p \in l, NEW g \in DOMAIN d.got, Rank(p) < Rank(g) PROVE g \in l
        <4>1. CASE g = q
          BY <4>1
        <4>2. CASE g # q /\ p = q
          BY <1>4, <1>5, <3>2, <4>2
        <4>3. CASE g # q /\ p # q
          BY <1>5, <2>1, <3>2, <4>3 DEF Heard
        <4> QED BY <4>1, <4>2, <4>3
      <3>3. l \in SUBSET DOMAIN d.got
        BY <1>5
      <3> HIDE DEF l
      <3>4. Heard(d, now, l)
        BY <3>1, <3>2 DEF Heard
      <3> QED BY <1>4, <2>3, <3>3, <3>4
    <2> QED BY <2>2, <2>5, <2>6
  <1> QED BY <1>6, <1>7

\* Every answer so far is of the catalog before the commit.
LEMMA TruthCommits ==
    ASSUME NEW c, NEW d, NEW pc, NEW file, Truth(c, pc, file), NEW next \in Catalogs,
           d.got = c.got, d.todo = c.todo, d.from = c.from, d.hit = c.hit, d.answer = c.answer,
           Busy(pc), d.since = c.since + 1
    PROVE  Truth(d, pc, next)
  <1>0. d.since \in Nat /\ d.since # 0 /\ c.since \in Nat
    BY DEF Truth
  <1>1. CASE ~(d.since <= 1)
    BY <1>0, <1>1 DEF Truth
  <1>2. CASE d.since <= 1
    <2>1. c.since = 0 /\ c.since <= 1
      BY <1>0, <1>2
    <2>2. PICK now \in Catalogs, late \in SUBSET DOMAIN c.got :
            /\ Heard(c, now, late) /\ now = c.from
            /\ pc = "rows" => \/ c.answer = RowsOf(First(c), now)
                              \/ late = {} /\ c.answer = RowsOf(First(c), c.from)
      BY <2>1 DEF Truth
    <2>3. Heard(d, next, {})
      BY <2>2 DEF Heard
    <2>4. pc = "rows" => d.answer = RowsOf(First(d), d.from)
      BY <2>2 DEF First
    <2>5. {} \in SUBSET DOMAIN d.got /\ d.from \in Catalogs
      BY DEF Truth
    <2> QED BY <1>0, <2>3, <2>4, <2>5 DEF Truth
  <1> QED BY <1>1, <1>2

-----------------------------------------------------------------------------
(* What the catalogs are.                                                  *)

\* The answer for an unknown name is that of an object like any other.
LEMMA NoObjectSound == SoundObject(NoObject)
  <1>1. <<>> \in Seq({<<>>[i] : i \in DOMAIN <<>>})
    OBVIOUS
  <1>2. ToSet(<<>>) = {} /\ <<>> \in Seq(ToSet(<<>>))
    BY <1>1 DEF ToSet
  <1> QED BY <1>2 DEF SoundObject, NoObject

\* A name is of one object, and the pragmas find the object of the exact name.
LEMMA FoundObject ==
    ASSUME NEW c, SoundCatalog(c), NEW n
    PROVE  /\ SoundObject(ObjectAt(c, n)) /\ ObjectAt(c, n).kind \in {"none", "table", "view"}
           /\ ObjectAt(c, n).cols = <<>> <=> ObjectAt(c, n).kind = "none"
           /\ Exactly(c, n).kind \in {"none", "table", "view"}
           /\ Exactly(c, n).kind # "none" => ObjectAt(c, n) = Exactly(c, n)
           /\ Exactly(c, n).kind # "none" <=> n \in DOMAIN c.objects
           /\ \A m \in DOMAIN c.objects : Fold[m] = Fold[n] => ObjectAt(c, n) = c.objects[m]
           /\ (\A m \in DOMAIN c.objects : Fold[m] # Fold[n]) => ObjectAt(c, n) = NoObject
  <1> DEFINE same == {m \in DOMAIN c.objects : Fold[m] = Fold[n]}
             o == ObjectAt(c, n)
  <1>1. /\ \A m, k \in DOMAIN c.objects : Fold[m] = Fold[k] => m = k
        /\ \A m \in DOMAIN c.objects : /\ c.objects[m].kind \in {"table", "view"} /\ c.objects[m].cols # <<>>
                                       /\ SoundObject(c.objects[m])
    BY DEF SoundCatalog
  <1>2. o = IF same = {} THEN NoObject ELSE c.objects[CHOOSE m \in same : TRUE]
    BY DEF ObjectAt
  <1>3. NoObject.kind = "none" /\ NoObject.cols = <<>> /\ SoundObject(NoObject)
    BY NoObjectSound DEF NoObject
  <1> HIDE DEF o
  <1>4. ASSUME NEW m \in DOMAIN c.objects, Fold[m] = Fold[n] PROVE o = c.objects[m]
    <2>1. same = {m}
      BY <1>1, <1>4
    <2>2. (CHOOSE k \in same : TRUE) = m
      BY <2>1
    <2> QED BY <1>2, <2>1, <2>2
  <1>5. (\A m \in DOMAIN c.objects : Fold[m] # Fold[n]) => o = NoObject
    BY <1>2
  <1>6. o = NoObject \/ \E m \in DOMAIN c.objects : Fold[m] = Fold[n] /\ o = c.objects[m]
    BY <1>4, <1>5
  <1>7. SoundObject(o) /\ o.kind \in {"none", "table", "view"} /\ (o.cols = <<>> <=> o.kind = "none")
    <2> DEFINE fine == SoundObject(o) /\ o.kind \in {"none", "table", "view"} /\ (o.cols = <<>> <=> o.kind = "none")
    <2>1. CASE o = NoObject
      BY <1>3, <2>1
    <2>2. ASSUME NEW m \in DOMAIN c.objects, o = c.objects[m] PROVE fine
      BY <1>1, <2>2
    <2> QED BY <1>6, <2>1, <2>2
  <1>8. CASE n \in DOMAIN c.objects
    <2>1. Exactly(c, n) = c.objects[n] /\ c.objects[n].kind \in {"table", "view"}
      BY <1>1, <1>8 DEF Exactly
    <2>2. o = c.objects[n]
      BY <1>4, <1>8
    <2> QED BY <1>4, <1>5, <1>7, <1>8, <2>1, <2>2 DEF o
  <1>9. CASE n \notin DOMAIN c.objects
    <2>1. Exactly(c, n) = NoObject
      BY <1>9 DEF Exactly
    <2> QED BY <1>3, <1>4, <1>5, <1>7, <1>9, <2>1 DEF o
  <1> QED BY <1>8, <1>9

\* What holds of each column, index and key of a sound object.
SoundColumn(o, col) ==
    /\ col.pk \in Nat /\ col.decl \in Keywords /\ col.notnull \in BOOLEAN /\ col.name \notin o.hidden
    /\ o.autoinc /\ col.pk = 1 => col.decl = "INTEGER"

SoundKey(o, k) == ToSet(k.from) \subseteq NamesOf(o.cols) \cup o.hidden

SoundIndex(o, x) ==
    /\ x = [name |-> x.name, origin |-> x.origin, terms |-> x.terms]
    /\ x.terms # <<>> /\ ToSet(x.terms) \subseteq NamesOf(o.cols) \cup o.hidden \cup {Nil}

\* The rows of a sound object.
LEMMA SoundRows ==
    ASSUME NEW o, SoundObject(o)
    PROVE  /\ DOMAIN o.cols = 1..Len(o.cols) /\ Len(o.cols) \in Nat
           /\ DOMAIN o.indexes = 1..Len(o.indexes) /\ Len(o.indexes) \in Nat
           /\ DOMAIN o.keys = 1..Len(o.keys) /\ Len(o.keys) \in Nat
           /\ \A i \in DOMAIN o.cols : SoundColumn(o, o.cols[i]) /\ o.cols[i] \in ToSet(o.cols)
           /\ \A i, j \in DOMAIN o.cols : o.cols[i].name = o.cols[j].name => i = j
           /\ \A i \in DOMAIN o.indexes :
                SoundIndex(o, o.indexes[i]) /\ o.indexes[i] \in ToSet(o.indexes)
           /\ \A i \in DOMAIN o.keys : SoundKey(o, o.keys[i]) /\ o.keys[i] \in ToSet(o.keys)
  <1> DEFINE names == {o.cols[i].name : i \in DOMAIN o.cols}
  <1>1. names = NamesOf(o.cols)
    BY DEF NamesOf
  <1>2. /\ \A i \in DOMAIN o.cols : o.cols[i] \in ToSet(o.cols)
        /\ \A i \in DOMAIN o.indexes : o.indexes[i] \in ToSet(o.indexes)
        /\ \A i \in DOMAIN o.keys : o.keys[i] \in ToSet(o.keys)
    BY DEF ToSet
  <1>3. /\ o.cols \in Seq(ToSet(o.cols)) /\ o.indexes \in Seq(ToSet(o.indexes)) /\ o.keys \in Seq(ToSet(o.keys))
    BY DEF SoundObject
  <1>4. /\ DOMAIN o.cols = 1..Len(o.cols) /\ Len(o.cols) \in Nat
        /\ DOMAIN o.indexes = 1..Len(o.indexes) /\ Len(o.indexes) \in Nat
        /\ DOMAIN o.keys = 1..Len(o.keys) /\ Len(o.keys) \in Nat
    BY <1>3
  <1>5. \A i \in DOMAIN o.cols : SoundColumn(o, o.cols[i]) /\ o.cols[i] \in ToSet(o.cols)
    <2>1. ASSUME NEW col \in ToSet(o.cols) PROVE SoundColumn(o, col)
      <3>1. /\ col.pk \in Nat /\ col.decl \in Keywords /\ col.notnull \in BOOLEAN /\ col.name \notin o.hidden
        BY <2>1 DEF SoundObject
      <3>2. o.autoinc /\ col.pk = 1 => col.decl = "INTEGER"
        BY <2>1 DEF SoundObject
      <3> QED BY <3>1, <3>2 DEF SoundColumn
    <2> QED BY <1>2, <2>1
  <1>6. \A i, j \in DOMAIN o.cols : o.cols[i].name = o.cols[j].name => i = j
    BY DEF SoundObject
  <1>7. \A x \in ToSet(o.indexes) : SoundIndex(o, x)
    BY <1>1 DEF SoundObject, SoundIndex
  <1>8. \A k \in ToSet(o.keys) : SoundKey(o, k)
    BY <1>1 DEF SoundObject, SoundKey
  <1>9. \A i \in DOMAIN o.indexes : SoundIndex(o, o.indexes[i]) /\ o.indexes[i] \in ToSet(o.indexes)
    BY <1>2, <1>7
  <1>10. \A i \in DOMAIN o.keys : SoundKey(o, o.keys[i]) /\ o.keys[i] \in ToSet(o.keys)
    BY <1>2, <1>8
  <1> QED BY <1>4, <1>5, <1>6, <1>9, <1>10

\* A table has no key if none of its columns is of one.
LEMMA NoKey ==
    ASSUME NEW cols, NEW n \in Nat, DOMAIN cols = 1..n
    PROVE  PrimaryKeyOf(cols) = <<>> <=> \A i \in DOMAIN cols : ~(cols[i].pk > 0)
  <1> DEFINE key == {i \in DOMAIN cols : cols[i].pk > 0}
             at(k) == cols[CHOOSE i \in key : cols[i].pk = k].name
  <1>1. PrimaryKeyOf(cols) = [k \in 1..Cardinality(key) |-> at(k)]
    BY DEF PrimaryKeyOf
  <1>2. IsFiniteSet(key) /\ Cardinality(key) \in Nat /\ (Cardinality(key) = 0 <=> key = {})
    <2>1. IsFiniteSet(1..n)
      BY FS_Interval
    <2>2. IsFiniteSet(key)
      BY <2>1, FS_Subset
    <2> HIDE DEF key
    <2> QED BY <2>2, FS_CardinalityType, FS_EmptySet
  <1>3. key = {} <=> \A i \in DOMAIN cols : ~(cols[i].pk > 0)
    OBVIOUS
  <1> HIDE DEF key, at
  <1>4. PrimaryKeyOf(cols) = <<>> <=> 1..Cardinality(key) = {}
    <2>1. ASSUME 1..Cardinality(key) = {} PROVE PrimaryKeyOf(cols) = <<>>
      BY <1>1, <2>1
    <2>2. ASSUME PrimaryKeyOf(cols) = <<>> PROVE 1..Cardinality(key) = {}
      BY <1>1, <2>2
    <2> QED BY <2>1, <2>2
  <1>5. 1..Cardinality(key) = {} <=> Cardinality(key) = 0
    BY <1>2
  <1> QED BY <1>2, <1>3, <1>4, <1>5

\* The answers of a call on one catalog.
QuietCall(c) ==
    \A q \in DOMAIN c.got : c.got[q] = RowsOf(q, c.from)

\* What is read of the marks is what the catalog marks.
LEMMA MarkedIs ==
    ASSUME NEW A, NEW n, NEW c, SoundCatalog(c),
           About(A, "sidecar", n) = c.sidecar,
           c.sidecar => About(A, "markers", n) = {m[2] : m \in {x \in c.markers : x[1] = n}}
    PROVE  \A x : x \in Marked(A, n) <=> c.sidecar /\ <<n, x>> \in c.markers
  <1>1. c.sidecar \in BOOLEAN /\ \A m \in c.markers : m = <<m[1], m[2]>>
    BY DEF SoundCatalog
  <1>2. CASE ~c.sidecar
    BY <1>2 DEF Marked
  <1>3. CASE c.sidecar
    <2>1. Marked(A, n) = {m[2] : m \in {x \in c.markers : x[1] = n}}
      BY <1>3 DEF Marked
    <2>2. ASSUME NEW x, <<n, x>> \in c.markers PROVE x \in Marked(A, n)
      <3>1. <<n, x>>[1] = n /\ <<n, x>>[2] = x
        OBVIOUS
      <3> QED BY <2>1, <2>2, <3>1
    <2>3. ASSUME NEW x \in Marked(A, n) PROVE <<n, x>> \in c.markers
      <3>1. PICK m \in c.markers : m[1] = n /\ m[2] = x
        BY <2>1, <2>3
      <3> QED BY <1>1, <3>1
    <2> QED BY <1>3, <2>2, <2>3
  <1> QED BY <1>1, <1>2, <1>3

\* The queries a request plans are asked.
LEMMA PlannedAsked ==
    ASSUME NEW c, Shape(c)
    PROVE  c.req.op \in Operations /\ Planned(c.req) \subseteq Asked(c)
  BY SchemaReaderAssumption, ProgramOrdered DEF Shape

Probe(lenient) == IF lenient THEN "probeAny" ELSE "probeTable"

\* The collection is found before anything else is asked about it
\* (schema_reader.go:128, schema_reader_borrowed.go).
LEMMA ProbeFound ==
    ASSUME NEW c, Shape(c), QuietCall(c), c.from \in Catalogs,
           Ask("DescribeCollection", Probe(c.req.lenient), c.req.name) \in DOMAIN c.got
    PROVE  /\ Exactly(c.from, c.req.name).kind # "none"
           /\ ~c.req.lenient => Exactly(c.from, c.req.name).kind = "table"
           /\ ObjectAt(c.from, c.req.name) = Exactly(c.from, c.req.name)
  <1> DEFINE x == Ask("DescribeCollection", Probe(c.req.lenient), c.req.name)
  <1>1. x.kind = Probe(c.req.lenient) /\ x.of = c.req.name
    BY DEF Ask
  <1>2. ~Refuses(x, c.got[x], c.got, c.req.lenient) /\ c.got[x] = RowsOf(x, c.from)
    BY DEF Shape, QuietCall
  <1> HIDE DEF x
  <1>3. RowsOf(x, c.from) \in BOOLEAN /\ c.got[x] = RowsOf(x, c.from) /\ RowsOf(x, c.from) = TRUE
    <2>1. RowsOf(x, c.from) \in BOOLEAN
      BY <1>1 DEF RowsOf, Probe
    <2>2. c.got[x]
      BY <1>1, <1>2 DEF Refuses, Probe
    <2> QED BY <1>2, <2>1, <2>2
  <1>4. CASE c.req.lenient
    <2>1. RowsOf(x, c.from) = (Exactly(c.from, c.req.name).kind # "none")
      BY <1>1, <1>4 DEF RowsOf, Probe
    <2>2. Exactly(c.from, c.req.name).kind # "none"
      BY <1>3, <2>1
    <2>3. SoundCatalog(c.from)
      BY CatalogsAssumption
    <2> QED BY <1>4, <2>2, <2>3, FoundObject
  <1>5. CASE ~c.req.lenient
    BY <1>1, <1>3, <1>5, FoundObject, CatalogsAssumption DEF RowsOf, Probe
  <1> QED BY <1>4, <1>5

\* The probe is asked first.
LEMMA ProbeFirst ==
    ASSUME NEW c, Shape(c), NEW q \in Asked(c), \A p \in Pending(c.todo) : Rank(q) <= Rank(p),
           q.in = "DescribeCollection", q.kind \notin {"probeTable", "probeAny"}
    PROVE  Ask("DescribeCollection", Probe(c.req.lenient), c.req.name) \in DOMAIN c.got
  <1> DEFINE x == Ask("DescribeCollection", Probe(c.req.lenient), c.req.name)
  <1>1. Mine(q, c.req) /\ c.req.op \in Operations /\ Planned(c.req) \subseteq Asked(c)
    BY PlannedAsked DEF Shape
  <1>2. x \in Asked(c)
    BY <1>1 DEF Mine, Planned, DescribePlan, Probe
  <1>3. Rank(x) = 21
    BY DEF Rank, Position, Ask, Probe
  <1>4. Rank(q) > 21
    BY <1>1 DEF Mine, KindsOf, Rank, Position
  <1> QED BY <1>2, <1>3, <1>4, AskedBefore

\* The marks are read of the catalog.
LEMMA MarksRead ==
    ASSUME NEW c, Shape(c), QuietCall(c), c.from \in Catalogs,
           NEW q \in Asked(c), \A p \in Pending(c.todo) : Rank(q) <= Rank(p), q.kind = "tableInfo"
    PROVE  \A x : x \in Marked(c.got, q.of) <=> c.from.sidecar /\ <<q.of, x>> \in c.from.markers
  <1> DEFINE s == Ask("DescribeCollection", "sidecar", q.of)
             m == Ask("DescribeCollection", "markers", q.of)
  <1>1. s \in DOMAIN c.got /\ (c.got[s] => m \in DOMAIN c.got)
    BY KnowsEnough DEF Knows, About
  <1>2. s.kind = "sidecar" /\ m.kind = "markers" /\ m.of = q.of
    BY DEF Ask
  <1>3. c.from.sidecar \in BOOLEAN /\ SoundCatalog(c.from)
    BY CatalogsAssumption DEF SoundCatalog
  <1> HIDE DEF s, m
  <1>4. c.got[s] = c.from.sidecar
    BY <1>1, <1>2 DEF QuietCall, RowsOf
  <1>5. c.from.sidecar => c.got[m] = {y[2] : y \in {z \in c.from.markers : z[1] = q.of}}
    <2> SUFFICES ASSUME c.from.sidecar PROVE c.got[m] = {y[2] : y \in {z \in c.from.markers : z[1] = q.of}}
      OBVIOUS
    <2>1. m \in DOMAIN c.got /\ c.got[m] = RowsOf(m, c.from)
      BY <1>1, <1>4 DEF QuietCall
    <2>2. RowsOf(m, c.from) = {y[2] : y \in {z \in c.from.markers : z[1] = q.of}}
      BY <1>2 DEF RowsOf
    <2> QED BY <2>1, <2>2
  <1>6. /\ About(c.got, "sidecar", q.of) = c.from.sidecar
        /\ c.from.sidecar =>
             About(c.got, "markers", q.of) = {y[2] : y \in {z \in c.from.markers : z[1] = q.of}}
    BY <1>4, <1>5 DEF s, m, About
  <1> QED BY <1>3, <1>6, MarkedIs

\* An answer is refused only where the operation has nothing to report
\* (CatalogQueries!Refuses, MustRefuse).
LEMMA RefusedMust ==
    ASSUME NEW c, Shape(c), QuietCall(c), c.from \in Catalogs,
           c.todo # <<>>, NEW q \in Head(c.todo),
           Refuses(q, RowsOf(q, c.from), c.got, c.req.lenient)
    PROVE  MustRefuse(c.req, c.from)
  <1> DEFINE req == c.req
             n == c.req.name
             k == c.from
             o == Exactly(c.from, c.req.name)
             t == ObjectAt(c.from, c.req.name)
             rows == RowsOf(q, c.from)
  <1>1. 1 \in DOMAIN c.todo /\ q \in c.todo[1] /\ q \in Pending(c.todo) /\ IsQueue(c.todo) /\ Ordered(c.todo)
    BY DEF Shape, IsQueue, Pending
  <1>2. q \in Asked(c) /\ Mine(q, c.req) /\ c.req.op \in Operations
    BY <1>1, PlannedAsked DEF Shape, Asked
  <1>3. \A p \in Pending(c.todo) : Rank(q) <= Rank(p)
    <2> TAKE p \in Pending(c.todo)
    <2>1. PICK i \in DOMAIN c.todo : p \in c.todo[i]
      BY DEF Pending
    <2>2. i = 1 \/ 1 < i
      BY <1>1 DEF IsQueue
    <2>3. Rank(p) \in Int /\ Rank(q) \in Int
      BY <1>2, ShapeRanks DEF Asked
    <2> QED BY <1>1, <2>1, <2>2, <2>3 DEF Ordered
  <1>4. SoundCatalog(k)
    BY CatalogsAssumption
  <1>5. q.in = "DescribeCollection" /\ q.kind \notin {"probeTable", "probeAny"} =>
          /\ o.kind # "none" /\ t = o /\ (~req.lenient => o.kind = "table")
    BY <1>2, <1>3, ProbeFirst, ProbeFound
  <1>6. CASE q.kind \in {"probeTable", "probeAny"} /\ ~rows
    <2>1. q.in = "DescribeCollection" /\ q.of = n /\ (q.kind = "probeTable" <=> ~req.lenient)
      BY <1>2, <1>6 DEF Mine, KindsOf, Operations, PartKinds
    <2>2. req.op = "DescribeCollection" \/ (req.op = "ListIndexes" /\ req.lenient)
      BY <1>2, <2>1 DEF Mine
    <2>3. IF req.lenient THEN o.kind = "none" ELSE o.kind # "table"
      BY <1>6, <2>1 DEF RowsOf
    <2> QED BY <2>2, <2>3 DEF MustRefuse
  <1>7. CASE q.kind \in {"tables", "views"} /\ q.in # "ListSourceViews" /\ ~req.lenient /\ Empty \in rows
    <2>1. \/ q.kind = "tables" /\ req.op \in {"ListCollections", "ListReferrers"}
          \/ q.kind = "views" /\ req.op = "ListViews"
      BY <1>2, <1>7 DEF Mine, KindsOf, Operations
    <2>2. Exactly(k, Empty).kind = IF q.kind = "tables" THEN "table" ELSE "view"
      BY <1>7 DEF RowsOf, OfKind, Exactly
    <2> QED BY <1>7, <2>1, <2>2 DEF MustRefuse
  <1>8. CASE q.kind = "tableInfo" /\ ~req.lenient
               /\ \E i \in DOMAIN rows : TypeOfColumn(rows[i], Marked(c.got, q.of)) = "Null"
    <2>1. q.in = "DescribeCollection" /\ q.of = n /\ req.op = "DescribeCollection"
      BY <1>2, <1>8 DEF Mine, KindsOf, Operations, PartKinds
    <2>2. o.kind = "table" /\ t = o /\ rows = o.cols
      BY <1>5, <1>8, <2>1 DEF RowsOf
    <2>3. PICK i \in DOMAIN o.cols : TypeOfColumn(o.cols[i], Marked(c.got, n)) = "Null"
      BY <1>8, <2>1, <2>2
    <2>4. SoundObject(o) /\ o.cols[i].decl \in Keywords
      BY <1>4, <2>2, FoundObject, SoundRows DEF SoundColumn
    <2>5. o.cols[i].name \notin Marked(c.got, n) /\ o.cols[i].decl = "OTHER"
      BY <2>3, <2>4 DEF TypeOfColumn, DbschemaTypeFromSQLite, Keywords
    <2>6. ~IsMarked(k, n, o.cols[i])
      BY <1>2, <1>3, <1>8, <2>1, <2>5, MarksRead DEF IsMarked
    <2>7. Unsupported(k, n, o)
      BY <2>5, <2>6 DEF Unsupported
    <2> QED BY <1>8, <2>1, <2>7 DEF MustRefuse
  <1>9. CASE q.kind = "hidden" /\ rows # {}
    <2>1. /\ q.of = n
          /\ \/ q.in = "DescribeCollection" /\ ~req.lenient /\ req.op = "DescribeCollection"
             \/ req.op = "OpenSourceRows"
      BY <1>2, <1>9 DEF Mine, KindsOf, Operations, PartKinds
    <2>2. t.hidden # {}
      BY <1>9, <2>1 DEF RowsOf
    <2>3. CASE q.in = "DescribeCollection" /\ ~req.lenient /\ req.op = "DescribeCollection"
      <3>1. Unsupported(k, n, o)
        BY <1>5, <1>9, <2>2, <2>3 DEF Unsupported
      <3> QED BY <2>3, <3>1 DEF MustRefuse
    <2>4. CASE req.op = "OpenSourceRows"
      BY <2>2, <2>4 DEF MustRefuse
    <2> QED BY <2>1, <2>3, <2>4
  <1>10. CASE q.kind = "sourceSQL" /\ rows = Nil
    <2>1. q.in = "DescribeCollection" /\ q.of = n
      BY <1>2, <1>10 DEF Mine, KindsOf, Operations, PartKinds
    <2>2. rows = [rowid |-> o.rowid] /\ o = t
      BY <1>5, <1>10, <2>1 DEF RowsOf
    <2>3. o.rowid \in BOOLEAN
      BY <1>4, <2>2, FoundObject DEF SoundObject
    <2> QED BY <1>10, <2>2, <2>3, NilAssumption
  <1>11. CASE q.kind = "rowColumns" /\ (rows = <<>> \/ Unordered(rows))
    <2>1. q.of = n /\ req.op = "OpenSourceRows"
      BY <1>2, <1>11 DEF Mine, KindsOf, Operations, PartKinds
    <2>2. rows = t.cols
      BY <1>11, <2>1 DEF RowsOf
    <2>3. CASE t.cols = <<>>
      <3>1. t.kind = "none"
        BY <1>4, <2>3, FoundObject
      <3> QED BY <2>1, <3>1 DEF MustRefuse
    <2>4. CASE Unordered(t.cols)
      <3>1. SoundObject(t)
        BY <1>4, FoundObject
      <3>2. \A i \in DOMAIN t.cols : ~(t.cols[i].pk > 0)
        BY <2>4, <3>1, SoundRows, NoKey DEF Unordered
      <3>3. \A i \in DOMAIN t.cols : t.cols[i].pk = 0
        BY <3>1, <3>2, SoundRows DEF SoundColumn
      <3>4. {"_rowid_", "rowid", "oid"} \subseteq NamesOf(t.cols)
        BY <2>4 DEF Unordered
      <3> QED BY <2>1, <3>3, <3>4 DEF MustRefuse
    <2> QED BY <1>11, <2>2, <2>3, <2>4
  <1>12. CASE q.kind = "sourceRows" /\ ~rows
    <2>1. req.op = "OpenSourceRows"
      BY <1>2, <1>12 DEF Mine, KindsOf, Operations
    <2>2. q.of = <<n, t.cols>>
      <3> DEFINE x == Ask("OpenSourceRows", "rowColumns", n)
      <3>1. x \in DOMAIN c.got /\ q.of = <<n, c.got[x]>>
        BY <1>1, <1>12 DEF Shape
      <3>2. x.kind = "rowColumns" /\ x.of = n
        BY DEF Ask
      <3> HIDE DEF x
      <3>3. c.got[x] = t.cols
        BY <3>1, <3>2 DEF QuietCall, RowsOf
      <3> QED BY <3>1, <3>3
    <2>3. ~Selectable(t, t.cols)
      <3>1. rows = Selectable(ObjectAt(k, q.of[1]), q.of[2])
        BY <1>12 DEF RowsOf
      <3>2. q.of[1] = n /\ q.of[2] = t.cols
        BY <2>2
      <3> QED BY <1>12, <3>1, <3>2
    <2>4. PrimaryKeyOf(t.cols) = <<>> /\ t.kind # "table"
      BY <2>3 DEF Selectable
    <2>5. SoundObject(t) /\ t.kind \in {"none", "view"}
      BY <1>4, <2>4, FoundObject
    <2>6. \A i \in DOMAIN t.cols : t.cols[i].pk = 0
      <3>1. \A i \in DOMAIN t.cols : ~(t.cols[i].pk > 0)
        BY <2>4, <2>5, SoundRows, NoKey
      <3> QED BY <2>5, <3>1, SoundRows DEF SoundColumn
    <2> QED BY <2>1, <2>5, <2>6 DEF MustRefuse
  <1> QED BY <1>6, <1>7, <1>8, <1>9, <1>10, <1>11, <1>12 DEF Refuses

-----------------------------------------------------------------------------
(* How a call ends.                                                        *)

\* An operation that returned what it read had nothing more to ask and no reason to
\* refuse; one that returns an error while nothing changed and nothing failed, one.
EndsWell(c, pc) ==
    /\ pc = "done" => c.outcome \in {"ok", "error"}
    /\ pc = "done" /\ c.outcome = "ok" =>
         /\ c.todo = <<>> /\ ~Nameless(c.req)
         /\ ~(Describes(c.req) /\ SourceDiffers(c.got, c.req.name))
    /\ (pc = "leaving" \/ (pc = "done" /\ c.outcome = "error")) /\ c.since = 0 /\ c.hit = {} =>
         MustRefuse(c.req, c.from)

\* While nothing changes and nothing fails, the answers are those of one catalog.
LEMMA HeardQuietly ==
    ASSUME NEW c, NEW pc, NEW file, Truth(c, pc, file), c.since = 0, c.hit = {}
    PROVE  QuietCall(c) /\ (pc = "rows" => c.answer = RowsOf(First(c), c.from))
  <1>1. PICK now \in Catalogs, late \in SUBSET DOMAIN c.got :
          /\ Heard(c, now, late) /\ now = c.from
          /\ pc = "rows" => \/ c.answer = RowsOf(First(c), now)
                            \/ late = {} /\ c.answer = RowsOf(First(c), c.from)
    BY DEF Truth
  <1>2. QuietCall(c)
    <2> SUFFICES ASSUME NEW q \in DOMAIN c.got PROVE c.got[q] = RowsOf(q, c.from)
      BY DEF QuietCall
    <2> QED BY <1>1 DEF Heard
  <1> QED BY <1>1, <1>2

\* All that was asked is answered.
LEMMA AllAnswered ==
    ASSUME NEW c, Shape(c), c.todo = <<>>
    PROVE  Asked(c) = DOMAIN c.got /\ Planned(c.req) \subseteq DOMAIN c.got /\ Pending(c.todo) = {}
  <1>1. Pending(c.todo) = {}
    BY DEF Pending
  <1>2. Asked(c) = DOMAIN c.got
    BY <1>1 DEF Asked
  <1> QED BY <1>1, <1>2, PlannedAsked

\* The source columns differ from the others only if the catalog changed
\* (schema_source.go:17).
LEMMA QuietSource ==
    ASSUME NEW c, Shape(c), QuietCall(c), c.from \in Catalogs, c.todo = <<>>, Describes(c.req)
    PROVE  ~SourceDiffers(c.got, c.req.name)
  <1> DEFINE D == "DescribeCollection"
             x == Ask(D, "tableInfo", c.req.name)
             y == Ask(D, "sourceColumns", c.req.name)
             cols == ObjectAt(c.from, c.req.name).cols
  <1>1. x \in DOMAIN c.got /\ y \in DOMAIN c.got
    BY AllAnswered, PlannedAsked DEF Describes, Planned, DescribePlan
  <1>2. x.kind = "tableInfo" /\ x.of = c.req.name /\ y.kind = "sourceColumns" /\ y.of = c.req.name
    BY DEF Ask
  <1> HIDE DEF x, y
  <1>3. c.got[x] = cols /\ c.got[y] = cols
    BY <1>1, <1>2 DEF QuietCall, RowsOf
  <1>4. About(c.got, "tableInfo", c.req.name) = cols /\ About(c.got, "sourceColumns", c.req.name) = cols
    BY <1>3 DEF About, x, y
  <1>5. DOMAIN cols = 1..Len(cols) /\ Len(cols) \in Nat
    BY CatalogsAssumption, FoundObject, SoundRows
  <1> HIDE DEF cols
  <1> QED BY <1>4, <1>5 DEF SourceDiffers

\* Every step of a call ends it well.
LEMMA EndsWellStep ==
    ASSUME PoolInv, NEW r \in Readers, CallStep(r), Shape(call[r]), Truth(call[r], rpc[r], cat),
           EndsWell(call[r], rpc[r])
    PROVE  EndsWell(call'[r], rpc'[r])
  <1> DEFINE c == call[r]
             d == call'[r]
             pc == rpc[r]
             pd == rpc'[r]
             q == Query(r)
  <1>0. c.hit \subseteq d.hit
    BY DEF CallStep
  <1>1. CASE Opens(c, d, pc, pd, q) \/ Takes(c, d, pc, pd, q)
    BY <1>1 DEF Opens, Takes, EndsWell
  <1>2. CASE Fails(c, d, pc, pd)
    BY <1>2 DEF Fails, EndsWell
  <1>3. CASE IsRefused(c, d, pc, pd, q)
    <2>1. pc = "rows" /\ pd = "leaving" /\ Kept(c, d) /\ c.todo # <<>> /\ Refuses(q, c.answer, c.got, c.req.lenient)
      BY <1>3 DEF IsRefused
    <2>2. ASSUME d.since = 0, d.hit = {} PROVE MustRefuse(d.req, d.from)
      <3>1. c.since = 0 /\ c.hit = {} /\ d.req = c.req /\ d.from = c.from
        BY <1>0, <2>1, <2>2 DEF Kept
      <3>2. QuietCall(c) /\ c.answer = RowsOf(First(c), c.from)
        BY <2>1, <3>1, HeardQuietly
      <3>3. q = First(c) /\ q \in Head(c.todo)
        BY <2>1, QueryInHand DEF Query, First
      <3>4. c.from \in Catalogs
        BY DEF Truth
      <3> HIDE DEF c, q
      <3> QED BY <2>1, <3>1, <3>2, <3>3, <3>4, RefusedMust DEF c
    <2> QED BY <2>1, <2>2 DEF EndsWell
  <1>4. CASE Ending(c, d, pc, pd)
    BY <1>4 DEF Ending, EndsWell, Kept
  <1>5. CASE Returns(c, d, pc, pd) /\ pc = "leaving"
    BY <1>5 DEF Returns, EndsWell, Kept
  <1>6. CASE Returns(c, d, pc, pd) /\ pc # "leaving"
    <2> DEFINE fails == Nameless(c.req) \/ (Describes(c.req) /\ SourceDiffers(c.got, c.req.name))
    <2>1. pd = "done" /\ Kept(c, d) /\ d.hit = c.hit /\ c.todo = <<>> /\ d.outcome = IF fails THEN "error" ELSE "ok"
      BY <1>6 DEF Returns
    <2>2. ASSUME fails, d.since = 0, d.hit = {} PROVE MustRefuse(d.req, d.from)
      <3>1. c.since = 0 /\ c.hit = {} /\ d.req = c.req /\ d.from = c.from
        BY <2>1, <2>2 DEF Kept
      <3>2. QuietCall(c) /\ c.from \in Catalogs
        BY <3>1, HeardQuietly DEF Truth
      <3>3. ~(Describes(c.req) /\ SourceDiffers(c.got, c.req.name))
        BY <2>1, <3>2, QuietSource
      <3>4. Nameless(c.req)
        BY <2>2, <3>3
      <3> QED BY <3>1, <3>4 DEF Nameless, MustRefuse
    <2>3. CASE fails
      BY <2>1, <2>2, <2>3 DEF EndsWell
    <2>4. CASE ~fails
      BY <2>1, <2>4 DEF EndsWell, Kept
    <2> QED BY <2>3, <2>4
  <1> QED BY <1>1, <1>2, <1>3, <1>4, <1>5, <1>6 DEF CallStep

-----------------------------------------------------------------------------
(* The invariant of what the reads report.                                 *)

ReadInv(r) ==
    rpc[r] # "idle" => /\ Shape(call[r]) /\ Truth(call[r], rpc[r], cat) /\ EndsWell(call[r], rpc[r])

ReportInv == cat \in Catalogs /\ \A r \in Readers : ReadInv(r)

\* A step of the call r keeps it.
LEMMA CallKeepsReport ==
    ASSUME PoolInv, cat \in Catalogs, NEW r \in Readers, CallStep(r), ReadInv(r)
    PROVE  ReadInv(r)'
  <1> DEFINE c == call[r]
             d == call'[r]
             pc == rpc[r]
             pd == rpc'[r]
             q == Query(r)
  <1>0. cat' = cat /\ c.hit \subseteq d.hit
    BY DEF CallStep
  <1>1. pc # "idle"
    BY DEF CallStep, Opens, Takes, Fails, IsRefused, Ending, Returns
  <1>2. Shape(c) /\ Truth(c, pc, cat) /\ EndsWell(c, pc)
    BY <1>1 DEF ReadInv
  <1>3. EndsWell(d, pd)
    BY <1>2, EndsWellStep
  <1>4. q = First(c)
    BY DEF Query, First
  <1>5. ASSUME Kept(c, d) PROVE Shape(d)
    BY <1>2, <1>5 DEF Kept, Shape, Asked
  <1>6. Shape(d) /\ Truth(d, pd, cat)
    <2>1. CASE Opens(c, d, pc, pd, q)
      <3>1. Kept(c, d)
        BY <2>1 DEF Opens
      <3>2. Truth(d, pd, cat)
        <4> HIDE DEF c, d, pc, pd
        <4> QED BY <1>2, <1>4, <2>1, TruthOpens
      <3> QED BY <1>5, <3>1, <3>2
    <2>2. CASE Takes(c, d, pc, pd, q)
      <3>1. q \in Head(c.todo)
        BY <2>2, QueryInHand DEF Takes
      <3> HIDE DEF c, d, pc, pd
      <3> QED BY <1>0, <1>2, <1>4, <2>2, <3>1, TruthTakes
    <2>3. CASE Fails(c, d, pc, pd) \/ IsRefused(c, d, pc, pd, q) \/ Ending(c, d, pc, pd) \/ Returns(c, d, pc, pd)
      <3>1. Kept(c, d) /\ (Busy(pd) => Busy(pc)) /\ (pd = "rows" => pc = "rows" /\ d.answer = c.answer)
        BY <2>3 DEF Fails, IsRefused, Ending, Returns, Busy
      <3>2. Truth(d, pd, cat)
        <4> HIDE DEF c, d, pc, pd
        <4> QED BY <1>0, <1>2, <3>1, TruthKept
      <3> QED BY <1>5, <3>1, <3>2
    <2> QED BY <2>1, <2>2, <2>3 DEF CallStep
  <1> QED BY <1>0, <1>3, <1>6 DEF ReadInv

\* So does a commit.
LEMMA CommitKeepsReport ==
    ASSUME PoolInv, cat \in Catalogs, Commit, NEW r \in Readers, ReadInv(r)
    PROVE  ReadInv(r)'
  <1> DEFINE c == call[r]
             d == call'[r]
             pc == rpc[r]
  <1>1. rpc' = rpc /\ cat' \in Catalogs /\ d = IF InCall(r) THEN [c EXCEPT !.since = @ + 1] ELSE c
    BY DEF Commit
  <1>2. CASE pc = "idle"
    BY <1>1, <1>2 DEF ReadInv
  <1>3. CASE pc # "idle" /\ ~InCall(r)
    <2>1. d = c /\ ~Busy(pc) /\ pc # "rows"
      BY <1>1, <1>3 DEF InCall, Busy
    <2>2. Shape(c) /\ Truth(c, pc, cat) /\ EndsWell(c, pc)
      BY <1>3 DEF ReadInv
    <2>3. Truth(c, pc, cat')
      <3> HIDE DEF c, pc
      <3> QED BY <2>1, <2>2 DEF Truth
    <2> QED BY <1>1, <2>1, <2>2, <2>3 DEF ReadInv
  <1>4. CASE InCall(r)
    <2>1. IsCall(c) /\ Busy(pc) /\ pc # "idle"
      BY <1>4 DEF InCall, PoolInv, CallInv, Busy
    <2>2. Shape(c) /\ Truth(c, pc, cat) /\ EndsWell(c, pc)
      BY <2>1 DEF ReadInv
    <2>3. /\ d.req = c.req /\ d.todo = c.todo /\ d.got = c.got /\ d.from = c.from /\ d.hit = c.hit
          /\ d.answer = c.answer /\ d.since = c.since + 1 /\ d.outcome = c.outcome
      BY <1>1, <1>4, <2>1 DEF IsCall
    <2>4. Shape(d)
      BY <2>2, <2>3 DEF Shape, Asked
    <2>5. Truth(d, pc, cat')
      <3> HIDE DEF c, d, pc
      <3> QED BY <1>1, <2>1, <2>2, <2>3, TruthCommits
    <2>6. EndsWell(d, pc)
      <3>1. c.since \in Nat /\ d.since # 0 /\ pc # "done"
        BY <1>4, <2>2, <2>3 DEF Truth, InCall
      <3> QED BY <3>1 DEF EndsWell
    <2> QED BY <1>1, <2>4, <2>5, <2>6 DEF ReadInv
  <1> QED BY <1>2, <1>3, <1>4

\* Every step of the reads keeps the invariant.
LEMMA ReportInvStep ==
    ASSUME PoolInv, ReportInv, [ReaderNext]_rvars
    PROVE  ReportInv'
  <1>1. ASSUME NEW r \in Readers, NEW q \in Requests, Call(r, q) PROVE ReportInv'
    <2>1. /\ rpc' = [rpc EXCEPT ![r] = "next"] /\ call' = [call EXCEPT ![r] = NewCall(q)] /\ cat' = cat
      BY <1>1 DEF Call, Goto, world
    <2>2. rpc'[r] = "next" /\ call'[r] = NewCall(q)
      BY <2>1 DEF PoolInv
    <2>3. Shape(NewCall(q)) /\ Truth(NewCall(q), "next", cat)
      BY ShapeBegins, TruthBegins DEF ReportInv
    <2>4. EndsWell(NewCall(q), "next")
      BY DEF EndsWell
    <2>5. ReadInv(r)'
      BY <2>1, <2>2, <2>3, <2>4 DEF ReadInv
    <2>6. ASSUME NEW p \in Readers \ {r} PROVE ReadInv(p)'
      BY <2>1, <2>6 DEF PoolInv, ReportInv, ReadInv
    <2> QED BY <2>1, <2>5, <2>6 DEF ReportInv
  <1>2. ASSUME NEW r \in Readers, Progress(r) \/ Fault(r) \/ Cancel(r) PROVE ReportInv'
    <2>1. CallStep(r)
      BY <1>2, CallSteps
    <2>2. ReadInv(r)'
      BY <2>1, CallKeepsReport DEF ReportInv
    <2>3. ASSUME NEW p \in Readers \ {r} PROVE ReadInv(p)'
      BY <2>1, <2>3 DEF CallStep, ReportInv, ReadInv
    <2> QED BY <2>1, <2>2, <2>3 DEF ReportInv, CallStep
  <1>3. CASE Commit
    <2>1. cat' \in Catalogs
      BY <1>3 DEF Commit
    <2> QED BY <1>3, <2>1, CommitKeepsReport DEF ReportInv
  <1>4. CASE ClosePool \/ UNCHANGED rvars
    BY <1>4 DEF ClosePool, rvars, world, ReportInv, ReadInv
  <1> QED BY <1>1, <1>2, <1>3, <1>4 DEF ReaderNext, ReadersRun

\* It holds of every run of the schema reads.
LEMMA ReportInvAlways ==
    ReaderSpec => [](PoolInv /\ ReportInv)
  <1>1. ReaderInit => PoolInv /\ ReportInv
    BY PoolInvInit, SchemaReaderAssumption, ConnPoolAssumption
       DEF ReaderInit, ReadersInit, ReportInv, ReadInv
  <1>2. PoolInv /\ ReportInv /\ [ReaderNext]_rvars => (PoolInv /\ ReportInv)'
    BY PoolInvStep, ReportInvStep, SchemaReaderAssumption, ConnPoolAssumption
  <1> QED
    BY <1>1, <1>2, PTL DEF ReaderSpec

-----------------------------------------------------------------------------
(* The positions an operation keeps of a list.                             *)

\* A non-empty set of numbers has a least element.
LEMMA LeastNat ==
    ASSUME NEW T, T \subseteq Nat, T # {}
    PROVE  \E x \in T : \A y \in T : ~(y < x)
  <1>1. \E x \in T : \A y \in T : ~(<<y, x>> \in OpToRel(<, Nat))
    BY NatLessThanWellFounded, WFMin
  <1>2. PICK x \in T : \A y \in T : ~(<<y, x>> \in OpToRel(<, Nat))
    BY <1>1
  <1>3. ASSUME NEW y \in T PROVE ~(y < x)
    BY <1>2 DEF OpToRel
  <1> QED BY <1>3

\* Induction up to n, on the set of the numbers a fact holds of.
LEMMA SetInduction ==
    ASSUME NEW n \in Nat, NEW S, 0 \in S, \A i \in 0..(n-1) : i \in S => i + 1 \in S
    PROVE  0..n \subseteq S
  <1> DEFINE T == (0..n) \ S
  <1>1. SUFFICES ASSUME T # {} PROVE FALSE
    OBVIOUS
  <1>2. PICK x \in T : \A y \in T : ~(y < x)
    <2> HIDE DEF T
    <2>1. T \subseteq Nat
      BY DEF T
    <2> QED BY <1>1, <2>1, LeastNat
  <1>3. x # 0 /\ x - 1 \in 0..(n-1) /\ x - 1 \notin T
    BY <1>2
  <1> QED BY <1>3

\* What InOrder counts up to each position.
Counts(f, I, n) ==
    f = [i \in 0..n |-> IF i = 0 THEN <<>> ELSE IF i \in I THEN Append(f[i-1], i) ELSE f[i-1]]

\* InOrder is what counting up to the end of the list gives.
LEMMA InOrderCounts ==
    ASSUME NEW I, NEW n \in Nat
    PROVE  \E f : Counts(f, I, n) /\ InOrder(I, n) = f[n]
  <1> DEFINE S == {m \in Nat : \E f : Counts(f, I, m)}
  <1>1. 0 \in S
    <2>1. Counts([i \in 0..0 |-> <<>>], I, 0)
      BY DEF Counts
    <2> QED BY <2>1
  <1>2. ASSUME NEW m \in 0..(n-1), m \in S PROVE m + 1 \in S
    <2>1. PICK f : Counts(f, I, m)
      BY <1>2
    <2>2. m \in Nat
      OBVIOUS
    <2> DEFINE x == IF m + 1 \in I THEN Append(f[m], m + 1) ELSE f[m]
    <2> HIDE DEF x
    <2> DEFINE h == [i \in 0..(m+1) |-> IF i = m + 1 THEN x ELSE f[i]]
    <2>3. h = [i \in 0..(m+1) |-> h[i]] /\ h[m+1] = x /\ \A i \in 0..m : h[i] = f[i]
      BY <2>2
    <2> HIDE DEF h
    <2>4. ASSUME NEW i \in 0..(m+1)
          PROVE  h[i] = IF i = 0 THEN <<>> ELSE IF i \in I THEN Append(h[i-1], i) ELSE h[i-1]
      <3>1. CASE i = m + 1
        <4>1. i # 0 /\ i - 1 = m /\ m \in 0..m
          BY <2>2, <3>1
        <4> QED BY <2>3, <3>1, <4>1 DEF x
      <3>2. CASE i # m + 1
        <4>1. i \in 0..m /\ (i # 0 => i - 1 \in 0..m)
          BY <2>2, <3>2
        <4>2. f[i] = IF i = 0 THEN <<>> ELSE IF i \in I THEN Append(f[i-1], i) ELSE f[i-1]
          BY <2>1, <4>1 DEF Counts
        <4> QED BY <2>3, <4>1, <4>2
      <3> QED BY <3>1, <3>2
    <2>5. Counts(h, I, m + 1)
      BY <2>3, <2>4 DEF Counts
    <2> QED BY <2>2, <2>5
  <1>3. n \in S
    <2> HIDE DEF S
    <2>1. 0..n \subseteq S
      BY <1>1, <1>2, SetInduction
    <2> QED BY <2>1
  <1> DEFINE f == CHOOSE f : Counts(f, I, n)
  <1>4. Counts(f, I, n)
    BY <1>3
  <1>5. InOrder(I, n) = f[n]
    BY DEF InOrder, Counts
  <1> QED BY <1>4, <1>5

\* InOrder lists positions of the set alone (CatalogQueries!InOrder).
LEMMA InOrderWithin ==
    ASSUME NEW n \in Nat, NEW I \in SUBSET (1..n)
    PROVE  InOrder(I, n) \in Seq(I)
  <1>1. PICK f : Counts(f, I, n) /\ InOrder(I, n) = f[n]
    BY InOrderCounts
  <1> DEFINE S == {m \in Nat : m \in 0..n => f[m] \in Seq(I)}
  <1>2. 0 \in S
    BY <1>1 DEF Counts
  <1>3. ASSUME NEW m \in 0..(n-1), m \in S PROVE m + 1 \in S
    <2>1. m \in 0..n /\ m + 1 \in 0..n /\ m + 1 # 0 /\ (m + 1) - 1 = m /\ m + 1 \in Nat
      OBVIOUS
    <2>2. f[m+1] = IF m + 1 \in I THEN Append(f[m], m + 1) ELSE f[m]
      BY <1>1, <2>1 DEF Counts
    <2>3. f[m] \in Seq(I)
      BY <1>3, <2>1
    <2>4. f[m+1] \in Seq(I)
      BY <2>2, <2>3
    <2> QED BY <2>1, <2>4
  <1>4. n \in S
    <2> HIDE DEF S
    <2>1. 0..n \subseteq S
      BY <1>2, <1>3, SetInduction
    <2> QED BY <2>1
  <1> QED BY <1>1, <1>4

-----------------------------------------------------------------------------
(* What a description says of itself.                                      *)

\* What is reported of indexes is what was read of one of the list.
LEMMA IndexesReported ==
    ASSUME NEW A, NEW op, NEW n, NEW l, NEW m \in Nat, DOMAIN A[Ask(op, "indexList", n)] = 1..m,
           Len(A[Ask(op, "indexList", n)]) = m,
           NEW x \in ToSet(IndexesRead(A, op, n, l))
    PROVE  \E i \in 1..m :
             LET y == A[Ask(op, "indexList", n)][i] IN
             /\ y.origin # "pk" /\ x.name = y.name /\ x.fields = A[Ask(op, "indexInfo", y.name)]
             /\ x.fields # <<>> /\ Nil \notin ToSet(x.fields)
  <1> DEFINE list == A[Ask(op, "indexList", n)]
             terms(y) == A[Ask(op, "indexInfo", y.name)]
             I == {i \in DOMAIN list :
                     /\ list[i].origin # "pk"
                     /\ terms(list[i]) # <<>> /\ Nil \notin ToSet(terms(list[i]))
                     /\ l => ToSet(terms(list[i])) \subseteq NamesOf(Fields(A, n))}
             kept == InOrder(I, m)
  <1>1. IndexesRead(A, op, n, l)
          = [k \in DOMAIN kept |-> [name |-> list[kept[k]].name, fields |-> terms(list[kept[k]])]]
    BY DEF IndexesRead
  <1>2. I \in SUBSET (1..m)
    OBVIOUS
  <1>3. kept \in Seq(I)
    <2> HIDE DEF I
    <2> QED BY <1>2, InOrderWithin
  <1> HIDE DEF kept
  <1>4. \A k \in DOMAIN kept : kept[k] \in I
    <2> HIDE DEF I
    <2> QED BY <1>3
  <1>5. PICK k \in DOMAIN kept : x = [name |-> list[kept[k]].name, fields |-> terms(list[kept[k]])]
    BY <1>1 DEF ToSet
  <1>6. kept[k] \in I
    BY <1>4
  <1> QED BY <1>5, <1>6

\* An index is of the table that lists it.
LEMMA TermsOf ==
    ASSUME NEW c, SoundCatalog(c), NEW x, TermsAt(c, x) # <<>>
    PROVE  \E n \in DOMAIN c.objects : \E i \in DOMAIN c.objects[n].indexes :
             c.objects[n].indexes[i].name = x /\ TermsAt(c, x) = c.objects[n].indexes[i].terms
  <1> DEFINE held == {n \in DOMAIN c.objects : \E i \in DOMAIN c.objects[n].indexes :
                                               c.objects[n].indexes[i].name = x}
             n == CHOOSE n \in held : TRUE
             all == c.objects[n].indexes
             i == CHOOSE i \in DOMAIN all : all[i].name = x
  <1>1. TermsAt(c, x) = IF held = {} THEN <<>> ELSE all[i].terms
    BY DEF TermsAt
  <1>2. held # {}
    BY <1>1
  <1>3. n \in held
    BY <1>2
  <1>4. \E j \in DOMAIN all : all[j].name = x
    BY <1>3
  <1>5. i \in DOMAIN all /\ all[i].name = x
    BY <1>4
  <1> QED BY <1>1, <1>2, <1>3, <1>5

\* A strict description that reads one catalog and then another: all it reads between
\* its fields and its source is of its fields (schema_source.go:17).
LEMMA ColumnsAgree ==
    ASSUME NEW c, Shape(c), c.req.op = "DescribeCollection", ~c.req.lenient, c.todo = <<>>,
           ~SourceDiffers(c.got, c.req.name), ObjectAt(c.from, c.req.name).hidden = {},
           c.from \in Catalogs, NEW now \in Catalogs, NEW late \in SUBSET DOMAIN c.got, Heard(c, now, late),
           NEW q \in DOMAIN c.got, 24 < Rank(q), Rank(q) < 34,
           NEW file, file = IF q \in late THEN now ELSE c.from
    PROVE  /\ ObjectAt(file, c.req.name).hidden = {}
           /\ NamesOf(ObjectAt(file, c.req.name).cols) \subseteq NamesOf(About(c.got, "tableInfo", c.req.name))
  <1> DEFINE n == c.req.name
             D == "DescribeCollection"
             x == Ask(D, "tableInfo", n)
             h == Ask(D, "hidden", n)
             s == Ask(D, "sourceColumns", n)
             k(p) == IF p \in late THEN now ELSE c.from
  <1>1. x \in DOMAIN c.got /\ h \in DOMAIN c.got /\ s \in DOMAIN c.got
    BY AllAnswered DEF Planned, DescribePlan
  <1>2. /\ x.kind = "tableInfo" /\ x.of = n /\ h.kind = "hidden" /\ h.of = n
        /\ s.kind = "sourceColumns" /\ s.of = n /\ Rank(x) = 24 /\ Rank(h) = 34 /\ Rank(s) = 36
    BY DEF Ask, Rank, Position
  <1>3. About(c.got, "tableInfo", n) = c.got[x] /\ About(c.got, "sourceColumns", n) = c.got[s]
    BY DEF About
  <1> HIDE DEF x, h, s
  <1>4. c.got[x] = RowsOf(x, k(x)) /\ c.got[h] = RowsOf(h, k(h)) /\ c.got[s] = RowsOf(s, k(s))
    BY <1>1, <1>2 DEF Heard, Probes
  <1>5. Rank(q) \in Int
    BY ShapeRanks DEF Asked
  <1>6. CASE q \in late
    <2>1. h \in late /\ s \in late
      BY <1>1, <1>2, <1>5, <1>6 DEF Heard
    <2>2. c.got[h] = ObjectAt(now, n).hidden
      <3>1. c.got[h] = RowsOf(h, now)
        BY <1>4, <2>1
      <3> QED BY <1>2, <3>1 DEF RowsOf
    <2>3. c.got[s] = ObjectAt(now, n).cols
      <3>1. c.got[s] = RowsOf(s, now)
        BY <1>4, <2>1
      <3> QED BY <1>2, <3>1 DEF RowsOf
    <2>4. c.got[h] = {}
      BY <1>1, <1>2 DEF Shape, Refuses
    <2>5. NamesOf(c.got[s]) \subseteq NamesOf(c.got[x])
      <3>1. \A i \in DOMAIN c.got[s] : ~(i > Len(c.got[x])) /\ c.got[s][i].name = c.got[x][i].name
        BY <1>3 DEF SourceDiffers
      <3> DEFINE cols == ObjectAt(now, n).cols
                 was == ObjectAt(k(x), n).cols
      <3>2. DOMAIN cols = 1..Len(cols) /\ DOMAIN was = 1..Len(was) /\ Len(was) \in Nat /\ Len(cols) \in Nat
        BY CatalogsAssumption, FoundObject, SoundRows
      <3>3. c.got[x] = was
        <4> DEFINE kx == k(x)
        <4>1. c.got[x] = RowsOf(x, kx)
          BY <1>4
        <4> HIDE DEF kx
        <4>2. c.got[x] = ObjectAt(kx, n).cols
          BY <1>2, <4>1 DEF RowsOf
        <4> QED BY <4>2 DEF kx
      <3> HIDE DEF cols, was
      <3>4. \A i \in DOMAIN c.got[s] : i \in DOMAIN c.got[x]
        BY <2>3, <3>1, <3>2, <3>3 DEF cols
      <3> QED BY <3>1, <3>4 DEF NamesOf
    <2> QED BY <1>3, <1>6, <2>2, <2>3, <2>4, <2>5
  <1>7. CASE q \notin late
    <2>1. x \notin late
      BY <1>1, <1>2, <1>5, <1>7 DEF Heard
    <2>2. c.got[x] = ObjectAt(c.from, n).cols
      <3>1. c.got[x] = RowsOf(x, c.from)
        BY <1>4, <2>1
      <3> QED BY <1>2, <3>1 DEF RowsOf
    <2> QED BY <1>3, <1>7, <2>2
  <1> QED BY <1>6, <1>7

\* The names of the fields are those of the columns first read.
LEMMA FieldNames ==
    ASSUME NEW A, NEW n
    PROVE  {f.name : f \in ToSet(Fields(A, n))} = NamesOf(About(A, "tableInfo", n))
  <1> DEFINE fields == Fields(A, n)
             cols == About(A, "tableInfo", n)
  <1>1. DOMAIN fields = DOMAIN cols /\ \A i \in DOMAIN cols : fields[i].name = cols[i].name
    BY DEF Fields
  <1> HIDE DEF fields, cols
  <1> QED BY <1>1 DEF NamesOf, ToSet, fields, cols

\* The keys of a strict description are of its fields.
LEMMA KeysCohere ==
    ASSUME NEW c, Shape(c), c.req.op = "DescribeCollection", ~c.req.lenient, c.todo = <<>>,
           ~SourceDiffers(c.got, c.req.name), ObjectAt(c.from, c.req.name).hidden = {},
           c.from \in Catalogs, NEW now \in Catalogs, NEW late \in SUBSET DOMAIN c.got, Heard(c, now, late),
           NEW k \in ToSet(ForeignKeys(c.got, c.req.name))
    PROVE  ToSet(k.from) \subseteq NamesOf(About(c.got, "tableInfo", c.req.name))
  <1> DEFINE n == c.req.name
             q == Ask("DescribeCollection", "fkList", n)
             file == IF q \in late THEN now ELSE c.from
             o == ObjectAt(file, n)
             names == NamesOf(About(c.got, "tableInfo", n))
  <1>1. q \in DOMAIN c.got
    BY AllAnswered DEF Planned, DescribePlan
  <1>2. q.kind = "fkList" /\ q.of = n /\ Rank(q) = 30
    BY DEF Ask, Rank, Position
  <1>3. About(c.got, "fkList", n) = c.got[q]
    BY DEF About
  <1>4. PICK i \in DOMAIN c.got[q] : k.from = c.got[q][i].from
    <2> DEFINE keys == ForeignKeys(c.got, n)
               rows == c.got[q]
    <2>1. DOMAIN keys = DOMAIN rows /\ \A i \in DOMAIN rows : keys[i].from = rows[i].from
      BY <1>3 DEF ForeignKeys
    <2> HIDE DEF keys, rows
    <2> QED BY <2>1 DEF ToSet, keys, rows
  <1> HIDE DEF q
  <1>5. o.hidden = {} /\ NamesOf(o.cols) \subseteq names
    <2>1. file = (IF q \in late THEN now ELSE c.from) /\ 24 < Rank(q) /\ Rank(q) < 34
      BY <1>2
    <2> HIDE DEF file
    <2> QED BY <1>1, <2>1, ColumnsAgree
  <1> HIDE DEF names
  <1>6. c.got[q] = RowsOf(q, file) /\ SoundCatalog(file)
    BY <1>1, <1>2, CatalogsAssumption DEF Heard, Probes
  <1> HIDE DEF file
  <1>7. c.got[q] = o.keys
    BY <1>2, <1>6 DEF RowsOf
  <1>8. SoundObject(o)
    BY <1>6, FoundObject
  <1> HIDE DEF o
  <1>9. SoundKey(o, o.keys[i])
    BY <1>4, <1>7, <1>8, SoundRows
  <1> QED BY <1>4, <1>5, <1>7, <1>9 DEF SoundKey, names

\* So are its indexes, if no index is moved to another table.
LEMMA IndexesCohere ==
    ASSUME NEW c, Shape(c), c.req.op = "DescribeCollection", ~c.req.lenient, c.todo = <<>>,
           ~SourceDiffers(c.got, c.req.name), ObjectAt(c.from, c.req.name).hidden = {},
           c.from \in Catalogs, NEW now \in Catalogs, NEW late \in SUBSET DOMAIN c.got, Heard(c, now, late),
           IndexesStay, NEW x \in ToSet(IndexesRead(c.got, c.req.op, c.req.name, c.req.lenient))
    PROVE  ToSet(x.fields) \subseteq NamesOf(About(c.got, "tableInfo", c.req.name))
  <1> DEFINE n == c.req.name
             D == "DescribeCollection"
             q == Ask(D, "indexList", n)
             k(p) == IF p \in late THEN now ELSE c.from
             was == ObjectAt(k(q), n)
             names == NamesOf(About(c.got, "tableInfo", n))
  <1>1. q \in DOMAIN c.got
    BY AllAnswered DEF Planned, DescribePlan
  <1>2. q.kind = "indexList" /\ q.of = n /\ q.in = D /\ Rank(q) = 26
    BY DEF Ask, Rank, Position
  <1> DEFINE file == k(q)
  <1>3. c.got[q] = RowsOf(q, file) /\ SoundCatalog(file) /\ file \in Catalogs
    BY <1>1, <1>2, CatalogsAssumption DEF Heard, Probes
  <1>4. c.got[q] = Listed(ObjectAt(file, n))
    <2> HIDE DEF q, file
    <2> QED BY <1>2, <1>3 DEF RowsOf
  <1>5. /\ DOMAIN ObjectAt(file, n).indexes = 1..Len(ObjectAt(file, n).indexes)
        /\ Len(ObjectAt(file, n).indexes) \in Nat
    <2> HIDE DEF file
    <2> QED BY <1>3, FoundObject, SoundRows
  <1> DEFINE m == Len(ObjectAt(file, n).indexes)
             list == ObjectAt(file, n).indexes
  <1>6. DOMAIN c.got[q] = 1..m /\ Len(c.got[q]) = m
    <2> HIDE DEF file, q
    <2>1. c.got[q] = [i \in 1..m |-> [name |-> list[i].name, origin |-> list[i].origin]]
      BY <1>4, <1>5 DEF Listed
    <2> HIDE DEF m
    <2> QED BY <1>5, <2>1 DEF m
  <1>7. PICK i \in 1..m : /\ c.got[q][i].origin # "pk"
                          /\ x.fields = c.got[Ask(D, "indexInfo", c.got[q][i].name)]
                          /\ x.fields # <<>> /\ Nil \notin ToSet(x.fields)
    <2> DEFINE A == c.got
               size == m
    <2>1. size \in Nat /\ DOMAIN A[Ask(D, "indexList", n)] = 1..size /\ Len(A[Ask(D, "indexList", n)]) = size
      BY <1>5, <1>6
    <2>2. x \in ToSet(IndexesRead(A, D, n, c.req.lenient))
      OBVIOUS
    <2> HIDE DEF A, size
    <2>3. \E i \in 1..size :
             LET y == A[Ask(D, "indexList", n)][i] IN
             /\ y.origin # "pk" /\ x.name = y.name /\ x.fields = A[Ask(D, "indexInfo", y.name)]
             /\ x.fields # <<>> /\ Nil \notin ToSet(x.fields)
      BY <2>1, <2>2, IndexesReported
    <2> QED BY <2>3 DEF A, size
  <1> DEFINE name == list[i].name
             p == Ask(D, "indexInfo", name)
  <1>8. c.got[q][i].name = name /\ i \in DOMAIN list /\ i \in DOMAIN c.got[q]
    <2> HIDE DEF file, q
    <2> QED BY <1>4, <1>5, <1>6 DEF Listed
  <1>9. p \in DOMAIN c.got
    <2>1. p \in Following(q, c.got[q], c.got)
      <3> DEFINE rows == c.got[q]
      <3>1. rows[i] \in ToSet(rows) /\ rows[i].origin # "pk" /\ rows[i].name = name
        BY <1>7, <1>8 DEF ToSet
      <3> HIDE DEF q, rows, name
      <3>2. Ask(q.in, "indexInfo", name) \in {Ask(q.in, "indexInfo", y.name) : y \in {z \in ToSet(rows) : z.origin # "pk"}}
        BY <3>1
      <3> QED BY <1>2, <3>2 DEF Following, rows
    <2> QED BY <1>1, <2>1, AllAnswered DEF Shape
  <1>10. p.kind = "indexInfo" /\ p.of = name /\ Rank(p) = 27
    BY DEF Ask, Rank, Position
  <1> DEFINE then == k(p)
  <1>11. c.got[p] = TermsAt(then, name) /\ SoundCatalog(then) /\ then \in Catalogs
    <2>1. c.got[p] = RowsOf(p, then) /\ SoundCatalog(then) /\ then \in Catalogs
      BY <1>9, <1>10, CatalogsAssumption DEF Heard, Probes
    <2> HIDE DEF p, then
    <2> QED BY <1>10, <2>1 DEF RowsOf
  <1>12. x.fields = TermsAt(then, name) /\ x.fields # <<>> /\ Nil \notin ToSet(x.fields)
    BY <1>7, <1>8, <1>11
  <1>13. ObjectAt(then, n).hidden = {} /\ NamesOf(ObjectAt(then, n).cols) \subseteq names
    <2>1. then = (IF p \in late THEN now ELSE c.from) /\ 24 < Rank(p) /\ Rank(p) < 34
      BY <1>10
    <2> HIDE DEF p, then
    <2> QED BY <1>9, <2>1, ColumnsAgree
  <1>14. PICK a \in DOMAIN file.objects : Fold[a] = Fold[n] /\ ObjectAt(file, n) = file.objects[a]
    <2> HIDE DEF file
    <2>1. ObjectAt(file, n) # NoObject
      BY <1>5, <1>8 DEF NoObject
    <2>2. \E a \in DOMAIN file.objects : Fold[a] = Fold[n]
      BY <1>3, <2>1, FoundObject
    <2> QED BY <1>3, <2>2, FoundObject
  <1>21. PICK b \in DOMAIN then.objects : \E j \in DOMAIN then.objects[b].indexes :
            then.objects[b].indexes[j].name = name /\ x.fields = then.objects[b].indexes[j].terms
    <2> HIDE DEF then, name
    <2> QED BY <1>11, <1>12, TermsOf
  <1>15. PICK j \in DOMAIN then.objects[b].indexes :
            then.objects[b].indexes[j].name = name /\ x.fields = then.objects[b].indexes[j].terms
    BY <1>21
  <1>16. Fold[b] = Fold[n]
    <2>1. CASE file = then
      <3>1. a \in DOMAIN then.objects /\ i \in DOMAIN then.objects[a].indexes /\ then.objects[a].indexes[i].name = name
        BY <1>8, <1>14, <2>1
      <3> HIDE DEF then, name, file
      <3>2. a = b
        BY <1>11, <1>15, <3>1 DEF SoundCatalog
      <3> QED BY <1>14, <3>2
    <2>2. CASE file # then
      <3>1. q \notin late /\ p \in late /\ file = c.from /\ then = now
        BY <1>1, <1>2, <1>9, <1>10, <2>2 DEF Heard
      <3> DEFINE pr == Ask(D, "probeTable", n)
                 sq == Ask(D, "sourceSQL", n)
      <3>2. pr \in DOMAIN c.got /\ sq \in DOMAIN c.got
        BY AllAnswered DEF Planned, DescribePlan
      <3>3. /\ pr.kind = "probeTable" /\ pr.of = n /\ Rank(pr) = 21
            /\ sq.kind = "sourceSQL" /\ sq.of = n /\ Rank(sq) = 35
        BY DEF Ask, Rank, Position
      <3> HIDE DEF pr, sq
      <3>4. pr \notin late /\ sq \in late
        BY <1>1, <1>2, <1>9, <1>10, <3>1, <3>2, <3>3 DEF Heard
      <3>5. n \in DOMAIN c.from.objects
        <4>1. c.got[pr] = RowsOf(pr, c.from) /\ c.got[pr]
          BY <3>2, <3>3, <3>4 DEF Heard, Probes, Shape, Refuses
        <4>2. Exactly(c.from, n).kind = "table"
          BY <3>3, <4>1 DEF RowsOf
        <4> QED BY <4>2, FoundObject, CatalogsAssumption
      <3>6. n \in DOMAIN now.objects
        <4>1. c.got[sq] = RowsOf(sq, now) /\ c.got[sq] # Nil
          BY <3>2, <3>3, <3>4 DEF Heard, Probes, Shape, Refuses
        <4>2. Exactly(now, n).kind # "none"
          BY <3>3, <4>1 DEF RowsOf
        <4> QED BY <4>2, FoundObject, CatalogsAssumption
      <3>7. a = n
        <4> HIDE DEF file
        <4> QED BY <1>3, <1>14, <3>1, <3>5 DEF SoundCatalog
      <3>8. /\ i \in DOMAIN c.from.objects[n].indexes /\ c.from.objects[n].indexes[i].name = name
            /\ b \in DOMAIN now.objects /\ j \in DOMAIN now.objects[b].indexes
            /\ now.objects[b].indexes[j].name = name
        BY <1>8, <1>14, <1>15, <3>1, <3>7
      <3> HIDE DEF name
      <3>9. b = n
        BY <3>5, <3>6, <3>8 DEF IndexesStay
      <3> QED BY <3>9
    <2> QED BY <2>1, <2>2
  <1> DEFINE o == ObjectAt(then, n)
  <1>17. o = then.objects[b] /\ SoundObject(o)
    <2> HIDE DEF then
    <2> QED BY <1>11, <1>15, <1>16, FoundObject
  <1>18. o.hidden = {} /\ NamesOf(o.cols) \subseteq names /\ j \in DOMAIN o.indexes /\ x.fields = o.indexes[j].terms
    BY <1>13, <1>15, <1>17
  <1> HIDE DEF o, names
  <1>19. SoundIndex(o, o.indexes[j])
    BY <1>17, <1>18, SoundRows
  <1>20. ToSet(x.fields) \subseteq NamesOf(o.cols) \cup o.hidden \cup {Nil}
    BY <1>18, <1>19 DEF SoundIndex
  <1> QED BY <1>12, <1>18, <1>20 DEF names

\* No index of a strict description, and no foreign key, names a field it does not
\* describe, though one DDL commits in the middle of it: the columns read last are those
\* read first (schema_reader.go:122, schema_source.go:17).
THEOREM CoherentDescriptions ==
    ASSUME IndexesStay
    PROVE  ReaderSpec => []OneCommitIsCoherent
  <1>1. ReportInv => OneCommitIsCoherent
    <2> SUFFICES ASSUME ReportInv, NEW r \in Readers, Described(r), ~call[r].req.lenient, call[r].since <= 1,
                        ObjectAt(call[r].from, call[r].req.name).hidden = {}
                 PROVE  LET d == Report(call[r].req, call[r].got)
                            names == {f.name : f \in ToSet(d.fields)}
                        IN /\ \A x \in ToSet(d.indexes) : ToSet(x.fields) \subseteq names
                           /\ \A k \in ToSet(d.keys) : ToSet(k.from) \subseteq names
      BY DEF OneCommitIsCoherent
    <2> DEFINE c == call[r]
               n == c.req.name
               d == Report(c.req, c.got)
    <2>1. /\ Shape(c) /\ Truth(c, "done", cat) /\ c.todo = <<>> /\ ~SourceDiffers(c.got, n)
          /\ c.req.op = "DescribeCollection"
      BY DEF ReportInv, ReadInv, Described, EndsWell, Describes
    <2>2. PICK now \in Catalogs, late \in SUBSET DOMAIN c.got : Heard(c, now, late)
      BY <2>1 DEF Truth
    <2>3. c.from \in Catalogs
      BY <2>1 DEF Truth
    <2>4. /\ d.fields = Fields(c.got, n) /\ d.indexes = IndexesRead(c.got, c.req.op, n, c.req.lenient)
          /\ d.keys = ForeignKeys(c.got, n)
      BY <2>1 DEF Report
    <2>5. {f.name : f \in ToSet(Fields(c.got, n))} = NamesOf(About(c.got, "tableInfo", n))
      BY FieldNames
    <2>6. \A x \in ToSet(d.indexes) : ToSet(x.fields) \subseteq NamesOf(About(c.got, "tableInfo", n))
      <3> HIDE DEF c
      <3> QED BY <2>1, <2>2, <2>3, <2>4, IndexesCohere DEF c
    <2>7. \A k \in ToSet(d.keys) : ToSet(k.from) \subseteq NamesOf(About(c.got, "tableInfo", n))
      <3> HIDE DEF c
      <3> QED BY <2>1, <2>2, <2>3, <2>4, KeysCohere DEF c
    <2> QED BY <2>4, <2>5, <2>6, <2>7
  <1> QED BY <1>1, ReportInvAlways, PTL

-----------------------------------------------------------------------------
(* What an operation reads of a catalog that does not change.              *)

\* What SQLite answers the queries of the operations.
LEMMA RowsAre ==
    ASSUME NEW c, NEW op, NEW of
    PROVE  /\ RowsOf(Ask(op, "tables", of), c) = OfKind(c, "table")
           /\ RowsOf(Ask(op, "views", of), c) = OfKind(c, "view")
           /\ RowsOf(Ask(op, "unnamed", of), c) = {n \in DOMAIN c.objects : n = Empty}
           /\ RowsOf(Ask(op, "tableInfo", of), c) = ObjectAt(c, of).cols
           /\ RowsOf(Ask(op, "sourceColumns", of), c) = ObjectAt(c, of).cols
           /\ RowsOf(Ask(op, "viewColumns", of), c) = ObjectAt(c, of).cols
           /\ RowsOf(Ask(op, "autoInc", of), c) = Exactly(c, of).autoinc
           /\ RowsOf(Ask(op, "indexList", of), c) = Listed(ObjectAt(c, of))
           /\ RowsOf(Ask(op, "sourceIndexes", of), c) = Listed(ObjectAt(c, of))
           /\ RowsOf(Ask(op, "indexInfo", of), c) = TermsAt(c, of)
           /\ RowsOf(Ask(op, "indexTerms", of), c) = TermsAt(c, of)
           /\ RowsOf(Ask(op, "fkList", of), c) = ObjectAt(c, of).keys
           /\ RowsOf(Ask(op, "spellings", of), c) = OfKind(c, "table")
           /\ RowsOf(Ask(op, "targetPK", of), c) = PrimaryKeyOf(ObjectAt(c, of[2]).cols)
           /\ RowsOf(Ask(op, "hidden", of), c) = ObjectAt(c, of).hidden
           /\ RowsOf(Ask(op, "sourceSQL", of), c)
                = IF Exactly(c, of).kind = "none" THEN Nil ELSE [rowid |-> Exactly(c, of).rowid]
           /\ RowsOf(Ask(op, "pkProbe", of), c) = (PrimaryKeyOf(ObjectAt(c, of).cols) # <<>>)
           /\ RowsOf(Ask(op, "fkIds", of), c) = Len(ObjectAt(c, of).keys)
           /\ RowsOf(Ask(op, "uniques", of), c)
                = {x.name : x \in {y \in ToSet(Listed(ObjectAt(c, of))) : y.origin = "u"}}
           /\ RowsOf(Ask(op, "referrer", of), c)
                = {i \in DOMAIN ObjectAt(c, of[1]).keys :
                     Fold[ObjectAt(c, of[1]).keys[i].target] = Fold[of[2]]}
  <1>1. ASSUME NEW q, q.of = of, q.kind \in {"tables", "views", "unnamed"}
        PROVE  /\ q.kind = "tables" => RowsOf(q, c) = OfKind(c, "table")
               /\ q.kind = "views" => RowsOf(q, c) = OfKind(c, "view")
               /\ q.kind = "unnamed" => RowsOf(q, c) = {n \in DOMAIN c.objects : n = Empty}
    BY <1>1 DEF RowsOf
  <1>2. ASSUME NEW q, q.of = of
        PROVE  /\ q.kind \in {"tableInfo", "sourceColumns", "viewColumns"} => RowsOf(q, c) = ObjectAt(c, of).cols
               /\ q.kind = "autoInc" => RowsOf(q, c) = Exactly(c, of).autoinc
               /\ q.kind \in {"indexList", "sourceIndexes"} => RowsOf(q, c) = Listed(ObjectAt(c, of))
               /\ q.kind \in {"indexInfo", "indexTerms"} => RowsOf(q, c) = TermsAt(c, of)
               /\ q.kind = "fkList" => RowsOf(q, c) = ObjectAt(c, of).keys
               /\ q.kind = "spellings" => RowsOf(q, c) = OfKind(c, "table")
    BY <1>2 DEF RowsOf
  <1>3. ASSUME NEW q, q.of = of
        PROVE  /\ q.kind = "targetPK" => RowsOf(q, c) = PrimaryKeyOf(ObjectAt(c, of[2]).cols)
               /\ q.kind = "hidden" => RowsOf(q, c) = ObjectAt(c, of).hidden
               /\ q.kind = "sourceSQL" =>
                    RowsOf(q, c) = IF Exactly(c, of).kind = "none" THEN Nil ELSE [rowid |-> Exactly(c, of).rowid]
               /\ q.kind = "fkIds" => RowsOf(q, c) = Len(ObjectAt(c, of).keys)
    BY <1>3 DEF RowsOf
  <1>4. ASSUME NEW q, q.of = of, q.kind = "pkProbe"
        PROVE  RowsOf(q, c) = (PrimaryKeyOf(ObjectAt(c, of).cols) # <<>>)
    BY <1>4 DEF RowsOf
  <1>5. ASSUME NEW q, q.of = of, q.kind = "uniques"
        PROVE  RowsOf(q, c) = {x.name : x \in {y \in ToSet(Listed(ObjectAt(c, of))) : y.origin = "u"}}
    BY <1>5 DEF RowsOf
  <1>6. ASSUME NEW q, q.of = of, q.kind = "referrer"
        PROVE  RowsOf(q, c) = {i \in DOMAIN ObjectAt(c, of[1]).keys :
                                 Fold[ObjectAt(c, of[1]).keys[i].target] = Fold[of[2]]}
    BY <1>6 DEF RowsOf
  <1>7. ASSUME NEW kind PROVE Ask(op, kind, of).of = of /\ Ask(op, kind, of).kind = kind
    BY DEF Ask
  <1> QED BY <1>1, <1>2, <1>3, <1>4, <1>5, <1>6, <1>7

\* The terms of an index are those its table lists.
LEMMA OwnTerms ==
    ASSUME NEW c, SoundCatalog(c), NEW n, NEW i \in DOMAIN ObjectAt(c, n).indexes
    PROVE  TermsAt(c, ObjectAt(c, n).indexes[i].name) = ObjectAt(c, n).indexes[i].terms
  <1> DEFINE o == ObjectAt(c, n)
             x == o.indexes[i].name
             held == {m \in DOMAIN c.objects : \E j \in DOMAIN c.objects[m].indexes :
                                                  c.objects[m].indexes[j].name = x}
             m == CHOOSE m \in held : TRUE
             all == c.objects[m].indexes
             j == CHOOSE j \in DOMAIN all : all[j].name = x
  <1>1. TermsAt(c, x) = IF held = {} THEN <<>> ELSE all[j].terms
    BY DEF TermsAt
  <1>2. PICK a \in DOMAIN c.objects : Fold[a] = Fold[n] /\ o = c.objects[a]
    <2>1. o # NoObject
      BY DEF NoObject
    <2>2. \E a \in DOMAIN c.objects : Fold[a] = Fold[n]
      BY <2>1, FoundObject
    <2> QED BY <2>2, FoundObject
  <1>3. a \in held /\ i \in DOMAIN c.objects[a].indexes /\ c.objects[a].indexes[i].name = x
    BY <1>2
  <1>4. m \in held
    BY <1>3
  <1>5. j \in DOMAIN all /\ all[j].name = x
    <2>1. \E k \in DOMAIN all : all[k].name = x
      BY <1>4
    <2> QED BY <2>1
  <1>6. m = a /\ j = i
    <2>1. m \in DOMAIN c.objects
      BY <1>4
    <2> HIDE DEF m, j, x, o
    <2> QED BY <1>3, <1>5, <2>1 DEF SoundCatalog
  <1> QED BY <1>1, <1>2, <1>3, <1>6

\* The list of indexes a call reports is that of the catalog (schema_reader.go:344).
LEMMA IndexesExact ==
    ASSUME NEW A, NEW op, NEW n, NEW l, NEW o, SoundObject(o),
           A[Ask(op, "indexList", n)] = Listed(o),
           \A i \in DOMAIN o.indexes : o.indexes[i].origin # "pk" =>
             A[Ask(op, "indexInfo", o.indexes[i].name)] = o.indexes[i].terms,
           l => NamesOf(Fields(A, n)) = NamesOf(o.cols)
    PROVE  IndexesRead(A, op, n, l) = ExpectedIndexes(o, l)
  <1> DEFINE list == A[Ask(op, "indexList", n)]
             terms(y) == A[Ask(op, "indexInfo", y.name)]
             I == {i \in DOMAIN list :
                     /\ list[i].origin # "pk"
                     /\ terms(list[i]) # <<>> /\ Nil \notin ToSet(terms(list[i]))
                     /\ l => ToSet(terms(list[i])) \subseteq NamesOf(Fields(A, n))}
             J == {i \in DOMAIN o.indexes :
                   /\ o.indexes[i].origin # "pk" /\ Nil \notin ToSet(o.indexes[i].terms)
                   /\ ~l \/ ToSet(o.indexes[i].terms) \cap o.hidden = {}}
             m == Len(o.indexes)
             kept == InOrder(J, m)
  <1>1. DOMAIN o.indexes = 1..m /\ m \in Nat
    BY SoundRows
  <1>2. DOMAIN list = 1..m /\ Len(list) = m /\ \A i \in 1..m : list[i].name = o.indexes[i].name /\ list[i].origin = o.indexes[i].origin
    <2> DEFINE listed == Listed(o)
    <2> HIDE DEF m
    <2>1. listed = [i \in 1..m |-> [name |-> o.indexes[i].name, origin |-> o.indexes[i].origin]]
      BY <1>1 DEF Listed
    <2>2. DOMAIN listed = 1..m /\ Len(listed) = m
      BY <1>1, <2>1
    <2>3. \A i \in 1..m : listed[i].name = o.indexes[i].name /\ listed[i].origin = o.indexes[i].origin
      BY <2>1
    <2>4. list = listed
      OBVIOUS
    <2> HIDE DEF listed, list
    <2> QED BY <2>2, <2>3, <2>4
  <1>3. ASSUME NEW i \in 1..m, o.indexes[i].origin # "pk"
        PROVE  terms(list[i]) = o.indexes[i].terms /\ terms(o.indexes[i]) = o.indexes[i].terms
    BY <1>1, <1>2, <1>3
  <1>4. ASSUME NEW i \in 1..m, o.indexes[i].origin # "pk" PROVE i \in I <=> i \in J
    <2> DEFINE t == ToSet(o.indexes[i].terms)
               names == NamesOf(o.cols)
    <2>1. o.indexes[i].terms # <<>> /\ t \subseteq names \cup o.hidden \cup {Nil}
      BY <1>1, SoundRows DEF SoundIndex
    <2>2. names \cap o.hidden = {}
      BY SoundRows DEF SoundColumn, NamesOf
    <2>3. i \in I <=> Nil \notin t /\ (l => t \subseteq NamesOf(Fields(A, n)))
      BY <1>2, <1>3, <1>4, <2>1
    <2>4. i \in J <=> Nil \notin t /\ (~l \/ t \cap o.hidden = {})
      BY <1>1, <1>4
    <2> HIDE DEF I, J, t, names
    <2>5. Nil \notin t /\ l => (t \subseteq NamesOf(Fields(A, n)) <=> t \cap o.hidden = {})
      <3>1. Nil \notin t => (t \subseteq names <=> t \cap o.hidden = {})
        BY <2>1, <2>2
      <3>2. l => NamesOf(Fields(A, n)) = names
        BY DEF names
      <3> QED BY <3>1, <3>2
    <2> QED BY <2>3, <2>4, <2>5
  <1>5. I = J
    <2>1. \A i \in I : i \in 1..m /\ o.indexes[i].origin # "pk"
      BY <1>2
    <2>2. \A i \in J : i \in 1..m /\ o.indexes[i].origin # "pk"
      BY <1>1
    <2> HIDE DEF I, J
    <2> QED BY <1>4, <2>1, <2>2
  <1>6. J \in SUBSET (1..m)
    BY <1>1
  <1>7. kept \in Seq(J)
    <2> HIDE DEF J
    <2> QED BY <1>1, <1>6, InOrderWithin
  <1>8. \A k \in DOMAIN kept : kept[k] \in J
    <2> HIDE DEF J, kept
    <2> QED BY <1>7
  <1>9. \A k \in DOMAIN kept : kept[k] \in 1..m /\ o.indexes[kept[k]].origin # "pk"
    <2> HIDE DEF kept
    <2> QED BY <1>1, <1>8
  <1>10. IndexesRead(A, op, n, l) = [k \in DOMAIN kept |-> [name |-> list[kept[k]].name, fields |-> terms(list[kept[k]])]]
    <2>1. IndexesRead(A, op, n, l)
            = LET p == InOrder(I, Len(list))
              IN [k \in DOMAIN p |-> [name |-> list[p[k]].name, fields |-> terms(list[p[k]])]]
      BY DEF IndexesRead
    <2> HIDE DEF I, J, list
    <2> QED BY <1>2, <1>5, <2>1
  <1>11. ExpectedIndexes(o, l) = [k \in DOMAIN kept |-> [name |-> o.indexes[kept[k]].name, fields |-> o.indexes[kept[k]].terms]]
    BY DEF ExpectedIndexes
  <1> HIDE DEF kept, J
  <1>12. \A k \in DOMAIN kept : list[kept[k]].name = o.indexes[kept[k]].name /\ terms(list[kept[k]]) = o.indexes[kept[k]].terms
    BY <1>2, <1>3, <1>9
  <1> HIDE DEF list, terms
  <1> QED BY <1>10, <1>11, <1>12

\* A call has read all it asks for, of one catalog.
Settled(c) ==
    Shape(c) /\ QuietCall(c) /\ c.from \in Catalogs /\ c.todo = <<>> /\ ~Nameless(c.req)

\* What a settled call knows.
LEMMA Settles ==
    ASSUME NEW c, Settled(c)
    PROVE  /\ SoundCatalog(c.from) /\ c.req.op \in Operations /\ Planned(c.req) \subseteq DOMAIN c.got
           /\ \A q \in DOMAIN c.got :
                /\ c.got[q] = RowsOf(q, c.from) /\ Following(q, c.got[q], c.got) \subseteq DOMAIN c.got
                /\ ~Refuses(q, c.got[q], c.got, c.req.lenient) /\ q.kind # "sourceRows"
  <1>1. Shape(c) /\ c.todo = <<>> /\ QuietCall(c) /\ c.from \in Catalogs
    BY DEF Settled
  <1>2. Asked(c) = DOMAIN c.got /\ Planned(c.req) \subseteq DOMAIN c.got
    BY <1>1, AllAnswered
  <1>3. c.req.op \in Operations
    BY <1>1, PlannedAsked
  <1> QED BY <1>1, <1>2, <1>3, CatalogsAssumption DEF Shape, QuietCall

\* What a description is sure to read.
LEMMA DescribedOnce ==
    ASSUME NEW c, Settled(c), Describes(c.req)
    PROVE  LET n == c.req.name
               k == c.from
               o == ObjectAt(c.from, c.req.name)
           IN /\ Exactly(k, n) = o /\ o.kind \in {"table", "view"} /\ (~c.req.lenient => o.kind = "table")
              /\ About(c.got, "tableInfo", n) = o.cols
              /\ About(c.got, "sourceColumns", n) = o.cols
              /\ About(c.got, "indexList", n) = Listed(o)
              /\ About(c.got, "sourceIndexes", n) = Listed(o)
              /\ About(c.got, "fkList", n) = o.keys
              /\ About(c.got, "sourceSQL", n) = [rowid |-> o.rowid]
              /\ ~c.req.lenient => About(c.got, "hidden", n) = o.hidden /\ o.hidden = {}
              /\ \A x : x \in Marked(c.got, n) <=> k.sidecar /\ <<n, x>> \in k.markers
  <1> DEFINE n == c.req.name
             k == c.from
             o == ObjectAt(c.from, c.req.name)
             D == "DescribeCollection"
  <1>1. /\ SoundCatalog(k) /\ c.req.op \in Operations
        /\ \A q \in DOMAIN c.got : c.got[q] = RowsOf(q, k) /\ ~Refuses(q, c.got[q], c.got, c.req.lenient)
    BY Settles
  <1>2. \A kind \in DescribePlan(c.req.lenient) : Ask(D, kind, n) \in DOMAIN c.got
    BY Settles DEF Describes, Planned, DescribePlan
  <1>3. Exactly(k, n).kind # "none" /\ o = Exactly(k, n) /\ (~c.req.lenient => Exactly(k, n).kind = "table")
    <2>1. Ask(D, Probe(c.req.lenient), n) \in DOMAIN c.got
      BY <1>2 DEF DescribePlan, Probe
    <2> QED BY <2>1, ProbeFound DEF Settled
  <1>4. Exactly(k, n) = o /\ o.kind \in {"table", "view"} /\ (~c.req.lenient => o.kind = "table")
    BY <1>1, <1>3, FoundObject
  <1>5. \A kind \in DescribePlan(c.req.lenient) : About(c.got, kind, n) = RowsOf(Ask(D, kind, n), k)
    BY <1>1, <1>2 DEF About
  <1>6. /\ About(c.got, "tableInfo", n) = o.cols
        /\ About(c.got, "sourceColumns", n) = o.cols
        /\ About(c.got, "indexList", n) = Listed(o)
        /\ About(c.got, "sourceIndexes", n) = Listed(o)
        /\ About(c.got, "fkList", n) = o.keys
    BY <1>5, RowsAre DEF DescribePlan
  <1>7. About(c.got, "sourceSQL", n) = [rowid |-> o.rowid]
    <2>1. About(c.got, "sourceSQL", n) = IF Exactly(k, n).kind = "none" THEN Nil ELSE [rowid |-> Exactly(k, n).rowid]
      BY <1>5, RowsAre DEF DescribePlan
    <2> QED BY <1>3, <2>1
  <1>8. ASSUME ~c.req.lenient PROVE About(c.got, "hidden", n) = o.hidden /\ o.hidden = {}
    <2> DEFINE h == Ask(D, "hidden", n)
    <2>1. h \in DOMAIN c.got /\ About(c.got, "hidden", n) = o.hidden
      BY <1>2, <1>5, <1>8, RowsAre DEF DescribePlan
    <2>2. h.kind = "hidden" /\ About(c.got, "hidden", n) = c.got[h]
      BY DEF Ask, About
    <2> HIDE DEF h
    <2> QED BY <1>1, <2>1, <2>2 DEF Refuses
  <1>9. \A x : x \in Marked(c.got, n) <=> k.sidecar /\ <<n, x>> \in k.markers
    <2> DEFINE q == Ask(D, "tableInfo", n)
    <2>1. q \in Asked(c) /\ q.kind = "tableInfo" /\ q.of = n
      BY <1>2 DEF Asked, DescribePlan, Ask
    <2>2. \A p \in Pending(c.todo) : Rank(q) <= Rank(p)
      BY AllAnswered DEF Settled
    <2> HIDE DEF q
    <2>3. \A x : x \in Marked(c.got, q.of) <=> c.from.sidecar /\ <<q.of, x>> \in c.from.markers
      BY <2>1, <2>2, MarksRead DEF Settled
    <2> QED BY <2>1, <2>3
  <1> QED BY <1>4, <1>6, <1>7, <1>8, <1>9

\* A column is the sole column of the key if no other is of it.
LEMMA SoleKey ==
    ASSUME NEW o, SoundObject(o), NEW i \in DOMAIN o.cols, o.cols[i].pk = 1
    PROVE  Len(PrimaryKeyOf(o.cols)) = 1 <=> \A k \in ToSet(o.cols) : k # o.cols[i] => k.pk = 0
  <1> DEFINE key == {j \in DOMAIN o.cols : o.cols[j].pk > 0}
             at(m) == o.cols[CHOOSE j \in key : o.cols[j].pk = m].name
             size == Cardinality(key)
  <1>1. PrimaryKeyOf(o.cols) = [m \in 1..size |-> at(m)]
    BY DEF PrimaryKeyOf
  <1>2. DOMAIN o.cols = 1..Len(o.cols) /\ Len(o.cols) \in Nat
    BY SoundRows
  <1>3. IsFiniteSet(key)
    <2>1. IsFiniteSet(1..Len(o.cols))
      BY <1>2, FS_Interval
    <2>2. key \subseteq 1..Len(o.cols)
      BY <1>2
    <2> QED BY <2>1, <2>2, FS_Subset
  <1>4. size \in Nat /\ (size = 1 <=> \E x : key = {x})
    <2> HIDE DEF key
    <2> QED BY <1>3, FS_CardinalityType, FS_Singleton
  <1>5. i \in key
    OBVIOUS
  <1>6. size = 1 <=> key = {i}
    <2> HIDE DEF key, size
    <2> QED BY <1>4, <1>5
  <1>7. Len(PrimaryKeyOf(o.cols)) = size
    <2> HIDE DEF key, size, at
    <2> QED BY <1>1, <1>4
  <1>8. \A j \in DOMAIN o.cols : o.cols[j].pk \in Nat /\ (o.cols[j] = o.cols[i] => j = i)
    BY SoundRows DEF SoundColumn
  <1>9. key = {i} <=> \A j \in DOMAIN o.cols : j # i => o.cols[j].pk = 0
    <2>1. ASSUME key = {i}, NEW j \in DOMAIN o.cols, j # i PROVE o.cols[j].pk = 0
      <3>1. j \notin key
        BY <2>1
      <3> QED BY <1>8, <3>1
    <2>2. ASSUME \A j \in DOMAIN o.cols : j # i => o.cols[j].pk = 0 PROVE key = {i}
      <3>1. \A j \in key : j = i
        BY <2>2
      <3> HIDE DEF key
      <3> QED BY <1>5, <3>1
    <2> QED BY <2>1, <2>2
  <1>10. (\A j \in DOMAIN o.cols : j # i => o.cols[j].pk = 0) <=> \A k \in ToSet(o.cols) : k # o.cols[i] => k.pk = 0
    <2>1. ToSet(o.cols) = {o.cols[j] : j \in DOMAIN o.cols}
      BY DEF ToSet
    <2> QED BY <1>8, <2>1
  <1> HIDE DEF key, size
  <1> QED BY <1>6, <1>7, <1>9, <1>10

\* SQLite's rowid aliases are those the description finds (schema_source.go:17).
LEMMA RowidIs ==
    ASSUME NEW A, NEW n, NEW o, SoundObject(o), NEW i \in DOMAIN o.cols,
           About(A, "tableInfo", n) = o.cols, About(A, "sourceColumns", n) = o.cols,
           About(A, "sourceIndexes", n) = Listed(o), About(A, "sourceSQL", n) = [rowid |-> o.rowid]
    PROVE  RowidAlias(A, n, i) <=> IsRowid(o, o.cols[i])
  <1> DEFINE col == o.cols[i]
             noIndex == \A x \in ToSet(o.indexes) : x.origin # "pk"
             alone == \A k \in ToSet(o.cols) : k # col => k.pk = 0
  <1>1. (\A x \in ToSet(Listed(o)) : x.origin # "pk") <=> noIndex
    <2> DEFINE list == Listed(o)
    <2>1. DOMAIN list = DOMAIN o.indexes /\ \A j \in DOMAIN o.indexes : list[j].origin = o.indexes[j].origin
      BY DEF Listed
    <2> HIDE DEF list
    <2> QED BY <2>1 DEF ToSet, list
  <1>2. RowidAlias(A, n, i) <=> /\ Len(PrimaryKeyOf(o.cols)) = 1 /\ col.pk = 1 /\ col.decl = "INTEGER"
                                /\ noIndex /\ o.rowid
    <2>1. RowidAlias(A, n, i) <=> /\ Len(PrimaryKeyOf(o.cols)) = 1 /\ i \in DOMAIN o.cols /\ col.pk = 1
                                  /\ col.decl = "INTEGER"
                                  /\ \A x \in ToSet(Listed(o)) : x.origin # "pk"
                                  /\ [rowid |-> o.rowid].rowid
      BY DEF RowidAlias
    <2>2. [rowid |-> o.rowid].rowid = o.rowid
      OBVIOUS
    <2> HIDE DEF col, noIndex
    <2> QED BY <1>1, <2>1, <2>2
  <1>3. IsRowid(o, col) <=> col.pk = 1 /\ col.decl = "INTEGER" /\ o.rowid /\ alone /\ noIndex
    BY DEF IsRowid
  <1>4. col.pk = 1 => (Len(PrimaryKeyOf(o.cols)) = 1 <=> alone)
    BY SoleKey
  <1> HIDE DEF col, noIndex, alone
  <1> QED BY <1>2, <1>3, <1>4 DEF col

\* The fields of a quiet description are the columns of the catalog.
LEMMA FieldsExact ==
    ASSUME NEW c, Settled(c), Describes(c.req)
    PROVE  LET o == ObjectAt(c.from, c.req.name) IN
           Fields(c.got, c.req.name) = [i \in DOMAIN o.cols |-> ExpectedField(c.from, c.req.name, o, o.cols[i])]
  <1> DEFINE n == c.req.name
             k == c.from
             A == c.got
             o == ObjectAt(c.from, c.req.name)
             marked == Marked(A, n)
             field(i) == [name     |-> o.cols[i].name,
                          type     |-> TypeOfColumn(o.cols[i], marked),
                          nullable |-> ~o.cols[i].notnull /\ ~RowidAlias(A, n, i),
                          autoInc  |-> i \in AutoIncFields(o.cols, marked) /\ About(A, "autoInc", n)]
  <1>1. /\ Exactly(k, n) = o
        /\ About(A, "tableInfo", n) = o.cols /\ About(A, "sourceColumns", n) = o.cols
        /\ About(A, "sourceIndexes", n) = Listed(o) /\ About(A, "sourceSQL", n) = [rowid |-> o.rowid]
        /\ \A x : x \in marked <=> k.sidecar /\ <<n, x>> \in k.markers
    BY DescribedOnce
  <1>2. SoundObject(o) /\ SoundCatalog(k)
    BY Settles, FoundObject
  <1>3. Fields(A, n) = [i \in DOMAIN o.cols |-> field(i)]
    <2>1. Fields(A, n)
            = LET cols == About(A, "tableInfo", n) IN
              [i \in DOMAIN cols |->
                 [name     |-> cols[i].name,
                  type     |-> TypeOfColumn(cols[i], marked),
                  nullable |-> ~cols[i].notnull /\ ~RowidAlias(A, n, i),
                  autoInc  |-> i \in AutoIncFields(cols, marked) /\ About(A, "autoInc", n)]]
      BY DEF Fields
    <2> HIDE DEF o, marked, A, n
    <2> QED BY <1>1, <2>1
  <1>4. ASSUME NEW i \in DOMAIN o.cols PROVE field(i) = ExpectedField(k, n, o, o.cols[i])
    <2> DEFINE col == o.cols[i]
               time == IsMarked(k, n, col)
    <2>0. SoundColumn(o, col)
      BY <1>2, SoundRows
    <2>1. time <=> col.name \in marked
      BY <1>1 DEF IsMarked
    <2>2. time \in BOOLEAN
      BY <1>2 DEF IsMarked, SoundCatalog
    <2>3. TypeOfColumn(col, marked) = IF time THEN "Time" ELSE DbschemaTypeFromSQLite(col.decl)
      BY <2>1, <2>2 DEF TypeOfColumn
    <2>4. (~col.notnull /\ ~RowidAlias(A, n, i)) = ~(col.notnull \/ IsRowid(o, col))
      <3>1. RowidAlias(A, n, i) <=> IsRowid(o, col)
        BY <1>1, <1>2, RowidIs
      <3>2. RowidAlias(A, n, i) \in BOOLEAN /\ IsRowid(o, col) \in BOOLEAN /\ col.notnull \in BOOLEAN
        <4>1. col.notnull \in BOOLEAN
          BY <2>0 DEF SoundColumn
        <4>2. RowidAlias(A, n, i) \in BOOLEAN
          BY DEF RowidAlias
        <4>3. IsRowid(o, col) \in BOOLEAN
          BY DEF IsRowid
        <4> QED BY <4>1, <4>2, <4>3
      <3> HIDE DEF o, col, A, n
      <3> QED BY <3>1, <3>2
    <2>5. (i \in AutoIncFields(o.cols, marked) /\ About(A, "autoInc", n)) = (o.autoinc /\ col.pk = 1 /\ ~time)
      <3> DEFINE asks == i \in AutoIncFields(o.cols, marked)
      <3>1. asks <=> col.pk = 1 /\ TypeOfColumn(col, marked) = "Int"
        BY DEF AutoIncFields
      <3>2. o.autoinc \in BOOLEAN
        BY <1>2 DEF SoundObject
      <3>3. asks => About(A, "autoInc", n) = o.autoinc
        <4> SUFFICES ASSUME asks PROVE About(A, "autoInc", n) = o.autoinc
          OBVIOUS
        <4> DEFINE q == Ask("DescribeCollection", "tableInfo", n)
                   p == Ask("DescribeCollection", "autoInc", n)
        <4>1. q \in DOMAIN A
          BY Settles DEF Describes, Planned, DescribePlan
        <4>2. q.kind = "tableInfo" /\ q.of = n /\ q.in = "DescribeCollection" /\ A[q] = o.cols
          BY <1>1 DEF Ask, About
        <4>3. AutoIncFields(o.cols, marked) # {}
          OBVIOUS
        <4> HIDE DEF q
        <4>4. p \in Following(q, o.cols, A)
          BY <4>2, <4>3 DEF Following
        <4>5. p \in DOMAIN A /\ A[p] = RowsOf(p, k)
          BY <4>1, <4>2, <4>4, Settles
        <4>6. A[p] = Exactly(k, n).autoinc
          BY <4>5, RowsAre
        <4> QED BY <1>1, <4>6 DEF About
      <3>4. time => TypeOfColumn(col, marked) # "Int"
        BY <2>3
      <3>5. ~time /\ o.autoinc /\ col.pk = 1 => TypeOfColumn(col, marked) = "Int"
        <4>1. o.autoinc /\ col.pk = 1 => col.decl = "INTEGER"
          BY <2>0 DEF SoundColumn
        <4> QED BY <2>3, <4>1 DEF DbschemaTypeFromSQLite
      <3>6. asks => ~time /\ col.pk = 1
        BY <2>2, <3>1, <3>4
      <3>7. ~time /\ o.autoinc /\ col.pk = 1 => asks
        BY <3>1, <3>5
      <3>8. asks \in BOOLEAN
        OBVIOUS
      <3>9. CASE asks
        <4>1. (asks /\ About(A, "autoInc", n)) = o.autoinc
          <5>1. About(A, "autoInc", n) = o.autoinc
            BY <3>3, <3>9
          <5> HIDE DEF asks, A, o
          <5> QED BY <3>2, <3>9, <5>1
        <4>2. (o.autoinc /\ col.pk = 1 /\ ~time) = o.autoinc
          <5>1. ~time /\ col.pk = 1
            BY <3>6, <3>9
          <5> HIDE DEF time, col, o
          <5> QED BY <3>2, <5>1
        <4> QED BY <4>1, <4>2
      <3>10. CASE ~asks
        <4>1. (asks /\ About(A, "autoInc", n)) = FALSE
          <5> HIDE DEF asks
          <5> QED BY <3>10
        <4>2. (o.autoinc /\ col.pk = 1 /\ ~time) = FALSE
          <5>1. ~(~time /\ o.autoinc /\ col.pk = 1)
            BY <3>7, <3>10
          <5> HIDE DEF time, col, o
          <5> QED BY <5>1
        <4> QED BY <4>1, <4>2
      <3> QED BY <3>9, <3>10
    <2>6. ExpectedField(k, n, o, col)
            = [name |-> col.name,
               type |-> IF time THEN "Time" ELSE DbschemaTypeFromSQLite(col.decl),
               nullable |-> ~(col.notnull \/ IsRowid(o, col)),
               autoInc |-> o.autoinc /\ col.pk = 1 /\ ~time]
      BY DEF ExpectedField
    <2> QED BY <2>3, <2>4, <2>5, <2>6
  <1> HIDE DEF field, o, A
  <1> QED BY <1>3, <1>4 DEF o, A

\* The keys of a quiet description are those of the catalog, their targets spelled
\* as the catalog spells them (schema_reader.go:368).
LEMMA KeysExact ==
    ASSUME NEW c, Settled(c), Describes(c.req)
    PROVE  LET o == ObjectAt(c.from, c.req.name) IN
           ForeignKeys(c.got, c.req.name) = [i \in DOMAIN o.keys |-> ExpectedKey(c.from, o.keys[i])]
  <1> DEFINE n == c.req.name
             k == c.from
             A == c.got
             o == ObjectAt(c.from, c.req.name)
             D == "DescribeCollection"
             of(t) == {m \in OfKind(k, "table") : Fold[m] = Fold[t]}
             read(t) == {m \in About(A, "spellings", n) : Fold[m] = Fold[t]}
             key(i) == [target |-> IF read(o.keys[i].target) = {} THEN o.keys[i].target
                                   ELSE CHOOSE m \in read(o.keys[i].target) : TRUE,
                        from |-> o.keys[i].from,
                        to |-> IF o.keys[i].to # <<>> THEN o.keys[i].to
                               ELSE A[Ask(D, "targetPK", <<i, o.keys[i].target>>)]]
  <1>1. About(A, "fkList", n) = o.keys
    BY DescribedOnce
  <1>2. ForeignKeys(A, n) = [i \in DOMAIN o.keys |-> key(i)]
    <2>1. ForeignKeys(A, n)
            = LET keys == About(A, "fkList", n) IN
              [i \in DOMAIN keys |->
                 [target |-> IF read(keys[i].target) = {} THEN keys[i].target
                             ELSE CHOOSE m \in read(keys[i].target) : TRUE,
                  from |-> keys[i].from,
                  to |-> IF keys[i].to # <<>> THEN keys[i].to
                         ELSE A[Ask(D, "targetPK", <<i, keys[i].target>>)]]]
      BY DEF ForeignKeys
    <2> HIDE DEF A, n, o, read
    <2> QED BY <1>1, <2>1
  <1>3. ASSUME NEW i \in DOMAIN o.keys PROVE key(i) = ExpectedKey(k, o.keys[i])
    <2> DEFINE q == Ask(D, "fkList", n)
               p == Ask(D, "spellings", n)
               t == o.keys[i].target
               r == Ask(D, "targetPK", <<i, t>>)
    <2>1. q \in DOMAIN A
      BY Settles DEF Describes, Planned, DescribePlan
    <2>2. q.kind = "fkList" /\ q.of = n /\ q.in = D /\ A[q] = o.keys
      BY <1>1 DEF Ask, About
    <2>3. p \in DOMAIN A
      <3>1. o.keys # <<>>
        OBVIOUS
      <3> HIDE DEF q
      <3>2. p \in Following(q, o.keys, A)
        BY <2>2, <3>1 DEF Following
      <3> QED BY <2>1, <2>2, <3>2, Settles
    <2>4. A[p] = OfKind(k, "table")
      <3>1. A[p] = RowsOf(p, k)
        BY <2>3, Settles
      <3> QED BY <3>1, RowsAre
    <2>5. read(t) = of(t)
      BY <2>4 DEF About
    <2>6. o.keys[i].to = <<>> => A[r] = PrimaryKeyOf(ObjectAt(k, t).cols)
      <3> SUFFICES ASSUME o.keys[i].to = <<>> PROVE A[r] = PrimaryKeyOf(ObjectAt(k, t).cols)
        OBVIOUS
      <3>1. p.kind = "spellings" /\ p.of = n /\ p.in = D
        BY DEF Ask
      <3> DEFINE wanted == {j \in DOMAIN o.keys : o.keys[j].to = <<>>}
                 rows == A[p]
      <3>2. i \in wanted
        OBVIOUS
      <3>3. r \in {Ask(D, "targetPK", <<j, o.keys[j].target>>) : j \in wanted}
        BY <3>2
      <3> HIDE DEF p, rows, r, wanted
      <3>4. Following(p, rows, A) = {Ask(D, "targetPK", <<j, o.keys[j].target>>) : j \in wanted}
        <4>1. Following(p, rows, A)
                = LET keys == About(A, "fkList", n)
                  IN {Ask(D, "targetPK", <<j, keys[j].target>>) : j \in {m \in DOMAIN keys : keys[m].to = <<>>}}
          BY <3>1 DEF Following
        <4> HIDE DEF A, n, o
        <4> QED BY <1>1, <4>1 DEF wanted
      <3>5. r \in DOMAIN A
        BY <2>3, <3>3, <3>4, Settles DEF rows
      <3>6. A[r] = RowsOf(r, k)
        BY <3>5, Settles
      <3>7. A[r] = PrimaryKeyOf(ObjectAt(k, <<i, t>>[2]).cols)
        BY <3>6, RowsAre DEF r
      <3> QED BY <3>7
    <2>7. ExpectedKey(k, o.keys[i])
            = [from |-> o.keys[i].from,
               target |-> IF of(t) = {} THEN t ELSE CHOOSE m \in of(t) : TRUE,
               to |-> IF o.keys[i].to = <<>> THEN PrimaryKeyOf(ObjectAt(k, t).cols) ELSE o.keys[i].to]
      BY DEF ExpectedKey
    <2>8. key(i).target = IF of(t) = {} THEN t ELSE CHOOSE m \in of(t) : TRUE
      <3> DEFINE x == read(t)
                 y == of(t)
      <3>1. key(i).target = IF x = {} THEN t ELSE CHOOSE m \in x : TRUE
        <4> HIDE DEF read
        <4> QED OBVIOUS
      <3>2. x = y
        BY <2>5
      <3> HIDE DEF x, y
      <3>3. (CHOOSE m \in x : TRUE) = (CHOOSE m \in y : TRUE)
        BY <3>2
      <3>4. key(i).target = IF y = {} THEN t ELSE CHOOSE m \in y : TRUE
        <4> HIDE DEF key
        <4> QED BY <3>1, <3>2, <3>3
      <3> QED BY <3>4 DEF y
    <2>9. key(i).to = IF o.keys[i].to = <<>> THEN PrimaryKeyOf(ObjectAt(k, t).cols) ELSE o.keys[i].to
      BY <2>6
    <2>10. key(i) = [target |-> key(i).target, from |-> o.keys[i].from, to |-> key(i).to]
      OBVIOUS
    <2> DEFINE a == key(i)
               found == IF of(t) = {} THEN t ELSE CHOOSE m \in of(t) : TRUE
               to == IF o.keys[i].to = <<>> THEN PrimaryKeyOf(ObjectAt(k, t).cols) ELSE o.keys[i].to
               b == ExpectedKey(k, o.keys[i])
               from == o.keys[i].from
    <2>11. a.target = found /\ a.to = to /\ a = [target |-> a.target, from |-> from, to |-> a.to]
      BY <2>8, <2>9, <2>10
    <2>12. b = [from |-> from, target |-> found, to |-> to]
      BY <2>7
    <2> HIDE DEF a, b, found, to, from
    <2>13. a = b
      BY <2>11, <2>12
    <2> QED BY <2>13 DEF a, b
  <1> HIDE DEF key, o, A
  <1> QED BY <1>2, <1>3 DEF o, A

\* The source definition of a quiet description is that of the catalog.
LEMMA SourceExact ==
    ASSUME NEW c, Settled(c), Describes(c.req)
    PROVE  LET o == ObjectAt(c.from, c.req.name) IN
           Source(c.got, c.req.name) = [cols |-> o.cols, indexes |-> o.indexes]
  <1> DEFINE n == c.req.name
             k == c.from
             A == c.got
             o == ObjectAt(c.from, c.req.name)
             D == "DescribeCollection"
             m == Len(o.indexes)
             list == Listed(o)
             read == [i \in DOMAIN list |->
                        [name |-> list[i].name, origin |-> list[i].origin,
                         terms |-> About(A, "indexTerms", list[i].name)]]
  <1>1. About(A, "sourceColumns", n) = o.cols /\ About(A, "sourceIndexes", n) = list
    BY DescribedOnce
  <1>2. Source(A, n) = [cols |-> o.cols, indexes |-> read]
    <2>1. Source(A, n)
            = [cols    |-> About(A, "sourceColumns", n),
               indexes |-> LET l == About(A, "sourceIndexes", n) IN
                           [i \in DOMAIN l |->
                              [name |-> l[i].name, origin |-> l[i].origin,
                               terms |-> About(A, "indexTerms", l[i].name)]]]
      BY DEF Source
    <2> HIDE DEF A, n, o, list
    <2> QED BY <1>1, <2>1
  <1>3. SoundObject(o) /\ SoundCatalog(k)
    BY Settles, FoundObject
  <1>4. DOMAIN o.indexes = 1..m /\ m \in Nat /\ o.indexes = [i \in 1..m |-> o.indexes[i]]
    <2>1. o.indexes \in Seq(ToSet(o.indexes))
      BY <1>3 DEF SoundObject
    <2> DEFINE s == o.indexes
               S == ToSet(o.indexes)
    <2> HIDE DEF s, S
    <2>2. s \in Seq(S)
      BY <2>1 DEF s, S
    <2>3. DOMAIN s = 1..Len(s) /\ Len(s) \in Nat /\ s = [i \in 1..Len(s) |-> s[i]]
      BY <2>2
    <2> QED BY <2>3 DEF s
  <1>5. DOMAIN list = 1..m /\ \A i \in 1..m : list[i].name = o.indexes[i].name /\ list[i].origin = o.indexes[i].origin
    BY <1>4 DEF Listed
  <1>6. ASSUME NEW i \in 1..m PROVE About(A, "indexTerms", list[i].name) = o.indexes[i].terms
    <2> DEFINE q == Ask(D, "sourceIndexes", n)
               x == list[i].name
               p == Ask(D, "indexTerms", x)
    <2>1. q \in DOMAIN A
      BY Settles DEF Describes, Planned, DescribePlan
    <2>2. q.kind = "sourceIndexes" /\ q.in = D /\ A[q] = list
      BY <1>1 DEF Ask, About
    <2>3. list[i] \in ToSet(list)
      BY <1>5 DEF ToSet
    <2> HIDE DEF q, list
    <2>4. p \in Following(q, list, A)
      <3>1. Following(q, list, A) = {Ask(D, kind, y.name) : kind \in {"indexSQL", "indexTerms"}, y \in ToSet(list)}
        BY <2>2 DEF Following
      <3> QED BY <2>3, <3>1
    <2>5. A[p] = RowsOf(p, k)
      BY <2>1, <2>2, <2>4, Settles
    <2>6. A[p] = TermsAt(k, x)
      BY <2>5, RowsAre
    <2>7. TermsAt(k, o.indexes[i].name) = o.indexes[i].terms
      BY <1>3, <1>4, OwnTerms
    <2> QED BY <1>5, <2>6, <2>7 DEF About
  <1>7. \A i \in 1..m : o.indexes[i] = [name |-> o.indexes[i].name, origin |-> o.indexes[i].origin, terms |-> o.indexes[i].terms]
    BY <1>3, <1>4, SoundRows DEF SoundIndex
  <1>8. read = o.indexes
    <2>1. read = [i \in 1..m |-> [name |-> list[i].name, origin |-> list[i].origin,
                                  terms |-> About(A, "indexTerms", list[i].name)]]
      BY <1>5
    <2>2. \A i \in 1..m : [name |-> list[i].name, origin |-> list[i].origin,
                           terms |-> About(A, "indexTerms", list[i].name)] = o.indexes[i]
      <3> SUFFICES ASSUME NEW i \in 1..m
                   PROVE  [name |-> list[i].name, origin |-> list[i].origin,
                           terms |-> About(A, "indexTerms", list[i].name)] = o.indexes[i]
        OBVIOUS
      <3>1. list[i].name = o.indexes[i].name /\ list[i].origin = o.indexes[i].origin
        BY <1>5
      <3>2. About(A, "indexTerms", list[i].name) = o.indexes[i].terms
        BY <1>6
      <3> HIDE DEF list, o, A
      <3> QED BY <1>7, <3>1, <3>2
    <2> HIDE DEF read, list, o, A
    <2> QED BY <1>4, <2>1, <2>2
  <1> QED BY <1>2, <1>8

\* The indexes of a quiet description or listing are those of the catalog.
LEMMA ListedExactly ==
    ASSUME NEW c, Settled(c), c.req.op \in {"DescribeCollection", "ListIndexes"}
    PROVE  IndexesRead(c.got, c.req.op, c.req.name, c.req.lenient)
             = ExpectedIndexes(ObjectAt(c.from, c.req.name), c.req.lenient)
  <1> DEFINE n == c.req.name
             k == c.from
             A == c.got
             op == c.req.op
             l == c.req.lenient
             o == ObjectAt(c.from, c.req.name)
             q == Ask(op, "indexList", n)
             list == Listed(o)
  <1>1. q \in DOMAIN A
    BY Settles DEF Planned, DescribePlan
  <1>2. q.kind = "indexList" /\ q.in = op
    BY DEF Ask
  <1>3. A[q] = list
    <2>1. A[q] = RowsOf(q, k)
      BY <1>1, Settles
    <2> QED BY <2>1, RowsAre
  <1>4. SoundObject(o) /\ SoundCatalog(k)
    BY Settles, FoundObject
  <1>5. ASSUME NEW i \in DOMAIN o.indexes, o.indexes[i].origin # "pk"
        PROVE  A[Ask(op, "indexInfo", o.indexes[i].name)] = o.indexes[i].terms
    <2> DEFINE x == o.indexes[i].name
               p == Ask(op, "indexInfo", x)
    <2>1. DOMAIN list = DOMAIN o.indexes /\ list[i].name = x /\ list[i].origin # "pk"
      BY <1>5 DEF Listed
    <2>2. list[i] \in ToSet(list)
      BY <2>1 DEF ToSet
    <2> HIDE DEF q, list, x
    <2>3. p \in Following(q, list, A)
      <3>1. Following(q, list, A) = {Ask(op, "indexInfo", y.name) : y \in {z \in ToSet(list) : z.origin # "pk"}}
        BY <1>2 DEF Following
      <3> QED BY <2>1, <2>2, <3>1
    <2>4. A[p] = RowsOf(p, k)
      BY <1>1, <1>3, <2>3, Settles
    <2>5. A[p] = TermsAt(k, x)
      BY <2>4, RowsAre
    <2>6. TermsAt(k, x) = o.indexes[i].terms
      BY <1>4, OwnTerms DEF x
    <2> QED BY <2>5, <2>6 DEF x
  <1>6. l => NamesOf(Fields(A, n)) = NamesOf(o.cols)
    <2> SUFFICES ASSUME l PROVE NamesOf(Fields(A, n)) = NamesOf(o.cols)
      OBVIOUS
    <2>1. About(A, "tableInfo", n) = o.cols
      BY DescribedOnce DEF Describes
    <2> DEFINE fields == Fields(A, n)
    <2>2. DOMAIN fields = DOMAIN o.cols /\ \A i \in DOMAIN o.cols : fields[i].name = o.cols[i].name
      BY <2>1 DEF Fields
    <2> HIDE DEF fields, o
    <2> QED BY <2>2 DEF NamesOf, fields
  <1> HIDE DEF A, op, n, l, o, list, k, q
  <1>7. A[Ask(op, "indexList", n)] = Listed(o)
    BY <1>3 DEF q, list
  <1>8. IndexesRead(A, op, n, l) = ExpectedIndexes(o, l)
    BY <1>4, <1>5, <1>6, <1>7, IndexesExact
  <1> QED BY <1>8 DEF A, op, n, l, o, k

\* A cursor is not a report: OpenSourceRows does not return, it leaves its rows open.
LEMMA NoCursorSettles ==
    ASSUME NEW c, Settled(c)
    PROVE  c.req.op # "OpenSourceRows"
  <1> SUFFICES ASSUME c.req.op = "OpenSourceRows" PROVE FALSE
    OBVIOUS
  <1> DEFINE q == Ask("OpenSourceRows", "rowColumns", c.req.name)
             rows == c.got[q]
             p == Ask("OpenSourceRows", "sourceRows", <<c.req.name, rows>>)
  <1>1. q \in DOMAIN c.got
    BY Settles DEF Planned, Settled, Nameless
  <1>2. q.kind = "rowColumns" /\ q.in = "OpenSourceRows" /\ q.of = c.req.name /\ p.kind = "sourceRows"
    BY DEF Ask
  <1>3. p \in Following(q, rows, c.got)
    <2> HIDE DEF q, rows
    <2> QED BY <1>2 DEF Following
  <1> HIDE DEF q, p
  <1> QED BY <1>1, <1>2, <1>3, Settles

\* What an operation may not report it does not (CatalogQueries!Refuses).
LEMMA NothingMissed ==
    ASSUME NEW c, Settled(c)
    PROVE  ~MustRefuse(c.req, c.from)
  <1> DEFINE n == c.req.name
             k == c.from
             o == Exactly(c.from, c.req.name)
             l == c.req.lenient
  <1>0. SoundCatalog(k) /\ c.req.op \in Operations
    BY Settles
  <1>1. Describes(c.req) => o.kind \in {"table", "view"}
    <2>1. ASSUME Describes(c.req) PROVE o.kind \in {"table", "view"}
      <3>1. o = ObjectAt(k, n) /\ ObjectAt(k, n).kind \in {"table", "view"}
        BY <2>1, DescribedOnce
      <3> QED BY <3>1
    <2> QED BY <2>1
  <1>2. CASE c.req.op = "DescribeCollection" /\ l
    BY <1>1, <1>2 DEF MustRefuse, Describes
  <1>3. CASE c.req.op = "DescribeCollection" /\ ~l
    <2>1. o.kind = "table" /\ o.hidden = {} /\ About(c.got, "tableInfo", n) = o.cols
      BY <1>3, DescribedOnce DEF Describes
    <2>2. \A x : x \in Marked(c.got, n) <=> k.sidecar /\ <<n, x>> \in k.markers
      BY <1>3, DescribedOnce DEF Describes
    <2>3. ASSUME NEW i \in DOMAIN o.cols, o.cols[i].decl = "OTHER", ~IsMarked(k, n, o.cols[i]) PROVE FALSE
      <3> DEFINE q == Ask("DescribeCollection", "tableInfo", n)
      <3>1. q \in DOMAIN c.got
        BY <1>3, Settles DEF Planned, DescribePlan
      <3>2. q.kind = "tableInfo" /\ q.of = n /\ c.got[q] = o.cols
        BY <2>1 DEF Ask, About
      <3> HIDE DEF q
      <3>3. TypeOfColumn(c.got[q][i], Marked(c.got, q.of)) # "Null"
        <4>1. ~Refuses(q, c.got[q], c.got, l)
          BY <3>1, Settles
        <4> QED BY <1>3, <3>2, <4>1 DEF Refuses
      <3>4. o.cols[i].name \notin Marked(c.got, n)
        BY <2>2, <2>3 DEF IsMarked
      <3>5. TypeOfColumn(o.cols[i], Marked(c.got, n)) = "Null"
        BY <2>3, <3>4 DEF TypeOfColumn, DbschemaTypeFromSQLite
      <3> QED BY <3>2, <3>3, <3>5
    <2>4. ~Unsupported(k, n, o)
      BY <2>1, <2>3 DEF Unsupported
    <2> QED BY <1>3, <2>1, <2>4 DEF MustRefuse
  <1>4. CASE c.req.op = "ListIndexes"
    BY <1>1, <1>4 DEF MustRefuse, Describes
  <1>5. CASE c.req.op \in {"ListCollections", "ListReferrers"}
    <2> DEFINE q == Ask(c.req.op, "tables", n)
    <2>1. q \in DOMAIN c.got
      BY <1>5, Settles DEF Planned
    <2>2. c.got[q] = OfKind(k, "table")
      <3>1. c.got[q] = RowsOf(q, k)
        BY <2>1, Settles
      <3> QED BY <3>1, RowsAre
    <2>3. q.kind = "tables" /\ q.in = c.req.op
      BY DEF Ask
    <2>4. ~Refuses(q, c.got[q], c.got, l)
      BY <2>1, Settles
    <2> HIDE DEF q
    <2>5. ~l => Empty \notin OfKind(k, "table")
      BY <1>5, <2>2, <2>3, <2>4 DEF Refuses
    <2>6. Exactly(k, Empty).kind = "table" => Empty \in OfKind(k, "table")
      BY DEF Exactly, NoObject, OfKind
    <2> QED BY <1>5, <2>5, <2>6 DEF MustRefuse
  <1>6. CASE c.req.op = "ListViews"
    <2> DEFINE q == Ask(c.req.op, "views", n)
    <2>1. q \in DOMAIN c.got
      BY <1>6, Settles DEF Planned
    <2>2. c.got[q] = OfKind(k, "view")
      <3>1. c.got[q] = RowsOf(q, k)
        BY <2>1, Settles
      <3> QED BY <3>1, RowsAre
    <2>3. q.kind = "views" /\ q.in = c.req.op
      BY DEF Ask
    <2>4. ~Refuses(q, c.got[q], c.got, l)
      BY <2>1, Settles
    <2> HIDE DEF q
    <2>5. ~l => Empty \notin OfKind(k, "view")
      BY <1>6, <2>2, <2>3, <2>4 DEF Refuses
    <2>6. Exactly(k, Empty).kind = "view" => Empty \in OfKind(k, "view")
      BY DEF Exactly, NoObject, OfKind
    <2> QED BY <1>6, <2>5, <2>6 DEF MustRefuse
  <1>7. CASE c.req.op \in {"ListConstraints", "ListSourceViews", "UnnamedObjects"}
    BY <1>7 DEF MustRefuse
  <1> QED BY <1>0, <1>2, <1>3, <1>4, <1>5, <1>6, <1>7, NoCursorSettles DEF Operations

-----------------------------------------------------------------------------
(* What each of the other operations reports of a quiet catalog.           *)

\* The counts of the constraints, and the names of the unique ones (schema_constraints.go:20).
LEMMA ConstraintsExact ==
    ASSUME NEW c, Settled(c), c.req.op = "ListConstraints"
    PROVE  Report(c.req, c.got) = Expected(c.req, c.from)
  <1> DEFINE n == c.req.name
             k == c.from
             o == ObjectAt(c.from, c.req.name)
             op == "ListConstraints"
             list == Listed(o)
             got(kind) == c.got[Ask(op, kind, n)]
  <1>1. SoundObject(o)
    BY Settles, FoundObject
  <1>2. \A kind \in {"pkProbe", "fkIds", "uniques"} : got(kind) = RowsOf(Ask(op, kind, n), k)
    BY Settles DEF Planned
  <1>3. got("pkProbe") = (PrimaryKeyOf(o.cols) # <<>>)
    BY <1>2, RowsAre
  <1>4. got("fkIds") = Len(o.keys)
    BY <1>2, RowsAre
  <1>5. got("uniques") = {x.name : x \in {y \in ToSet(list) : y.origin = "u"}}
    BY <1>2, RowsAre
  <1>6. (PrimaryKeyOf(o.cols) # <<>>) = \E i \in DOMAIN o.cols : o.cols[i].pk > 0
    <2>1. PrimaryKeyOf(o.cols) = <<>> <=> \A i \in DOMAIN o.cols : ~(o.cols[i].pk > 0)
      BY <1>1, SoundRows, NoKey
    <2> HIDE DEF o
    <2> QED BY <2>1
  <1>7. {x.name : x \in {y \in ToSet(list) : y.origin = "u"}}
          = {x.name : x \in {y \in ToSet(o.indexes) : y.origin = "u"}}
    <2>1. DOMAIN list = DOMAIN o.indexes
          /\ \A i \in DOMAIN o.indexes : list[i].name = o.indexes[i].name /\ list[i].origin = o.indexes[i].origin
      BY DEF Listed
    <2> DEFINE s == o.indexes
    <2> HIDE DEF list, s
    <2>2. {x.name : x \in {y \in ToSet(list) : y.origin = "u"}} = {list[i].name : i \in {j \in DOMAIN s : list[j].origin = "u"}}
      BY <2>1 DEF ToSet, s
    <2>3. {x.name : x \in {y \in ToSet(s) : y.origin = "u"}} = {s[i].name : i \in {j \in DOMAIN s : s[j].origin = "u"}}
      BY DEF ToSet
    <2>4. {list[i].name : i \in {j \in DOMAIN s : list[j].origin = "u"}} = {s[i].name : i \in {j \in DOMAIN s : s[j].origin = "u"}}
      BY <2>1 DEF s
    <2> QED BY <2>2, <2>3, <2>4 DEF s
  <1>8. Report(c.req, c.got) = [key |-> got("pkProbe"), keys |-> got("fkIds"), uniques |-> got("uniques")]
    BY DEF Report
  <1>9. Expected(c.req, k)
          = [key     |-> \E i \in DOMAIN o.cols : o.cols[i].pk > 0,
             keys    |-> Len(o.keys),
             uniques |-> {x.name : x \in {y \in ToSet(o.indexes) : y.origin = "u"}}]
    BY DEF Expected
  <1>10. got("pkProbe") = \E i \in DOMAIN o.cols : o.cols[i].pk > 0
    BY <1>3, <1>6
  <1>11. got("uniques") = {x.name : x \in {y \in ToSet(o.indexes) : y.origin = "u"}}
    BY <1>5, <1>7
  <1> HIDE DEF got, o, list
  <1> QED BY <1>4, <1>8, <1>9, <1>10, <1>11

\* The tables with a key on the collection, itself left out (schema_constraints.go:107).
LEMMA ReferrersExact ==
    ASSUME NEW c, Settled(c), c.req.op = "ListReferrers"
    PROVE  Report(c.req, c.got) = Expected(c.req, c.from)
  <1> DEFINE n == c.req.name
             k == c.from
             op == "ListReferrers"
             q == Ask(op, "tables", n)
             tables == OfKind(k, "table")
  <1>1. q \in DOMAIN c.got
    BY Settles DEF Planned
  <1>2. c.got[q] = tables
    <2>1. c.got[q] = RowsOf(q, k)
      BY <1>1, Settles
    <2> QED BY <2>1, RowsAre
  <1>3. q.kind = "tables" /\ q.in = op /\ q.of = n
    BY DEF Ask
  <1>4. SoundCatalog(k)
    BY Settles
  <1>5. ASSUME NEW m \in tables \ {n, Empty}
        PROVE  c.got[Ask(op, "referrer", <<m, n>>)] # {} <=> \E x \in ToSet(k.objects[m].keys) : Fold[x.target] = Fold[n]
    <2> DEFINE p == Ask(op, "referrer", <<m, n>>)
    <2> HIDE DEF q
    <2>1. p \in Following(q, tables, c.got)
      <3>1. Following(q, tables, c.got) = {Ask(op, "referrer", <<x, n>>) : x \in tables \ {n, Empty}}
        BY <1>3 DEF Following
      <3> QED BY <3>1
    <2>2. c.got[p] = RowsOf(p, k)
      BY <1>1, <1>2, <2>1, Settles
    <2>3. <<m, n>>[1] = m /\ <<m, n>>[2] = n
      OBVIOUS
    <2>4. m \in DOMAIN k.objects
      BY DEF OfKind
    <2>5. ObjectAt(k, m) = k.objects[m]
      BY <1>4, <2>4, FoundObject
    <2> DEFINE keys == k.objects[m].keys
               of == <<m, n>>
    <2>6. c.got[p] = {i \in DOMAIN ObjectAt(k, of[1]).keys : Fold[ObjectAt(k, of[1]).keys[i].target] = Fold[of[2]]}
      BY <2>2, RowsAre
    <2> HIDE DEF p
    <2>7. c.got[p] = {i \in DOMAIN keys : Fold[keys[i].target] = Fold[n]}
      BY <2>3, <2>5, <2>6
    <2> HIDE DEF keys
    <2> QED BY <2>7 DEF ToSet, keys, p
  <1>6. Report(c.req, c.got) = {m \in tables \ {n, Empty} : c.got[Ask(op, "referrer", <<m, n>>)] # {}}
    <2>1. Report(c.req, c.got) = {m \in c.got[q] \ {n, Empty} : c.got[Ask(op, "referrer", <<m, n>>)] # {}}
      BY DEF Report
    <2> QED BY <1>2, <2>1
  <1>7. Expected(c.req, k)
          = {m \in tables \ {n, Empty} : \E x \in ToSet(k.objects[m].keys) : Fold[x.target] = Fold[n]}
    BY DEF Expected
  <1> HIDE DEF tables
  <1> QED BY <1>5, <1>6, <1>7

\* The columns of every view.
LEMMA ViewsExact ==
    ASSUME NEW c, Settled(c), c.req.op = "ListSourceViews"
    PROVE  Report(c.req, c.got) = Expected(c.req, c.from)
  <1> DEFINE n == c.req.name
             k == c.from
             op == "ListSourceViews"
             q == Ask(op, "views", n)
             views == OfKind(k, "view")
  <1>1. q \in DOMAIN c.got
    BY Settles DEF Planned
  <1>2. c.got[q] = views
    <2>1. c.got[q] = RowsOf(q, k)
      BY <1>1, Settles
    <2> QED BY <2>1, RowsAre
  <1>3. q.kind = "views" /\ q.in = op
    BY DEF Ask
  <1>4. SoundCatalog(k)
    BY Settles
  <1>5. ASSUME NEW v \in views PROVE c.got[Ask(op, "viewColumns", v)] = k.objects[v].cols
    <2> DEFINE p == Ask(op, "viewColumns", v)
    <2> HIDE DEF q
    <2>1. p \in Following(q, views, c.got)
      <3>1. Following(q, views, c.got) = {Ask(op, "viewColumns", x) : x \in views}
        BY <1>3 DEF Following
      <3> QED BY <3>1
    <2>2. c.got[p] = RowsOf(p, k)
      BY <1>1, <1>2, <2>1, Settles
    <2>3. c.got[p] = ObjectAt(k, v).cols
      BY <2>2, RowsAre
    <2>4. ObjectAt(k, v) = k.objects[v]
      BY <1>4, FoundObject DEF OfKind
    <2> QED BY <2>3, <2>4
  <1>6. Report(c.req, c.got) = [v \in views |-> c.got[Ask(op, "viewColumns", v)]]
    <2>1. Report(c.req, c.got) = [v \in c.got[q] |-> c.got[Ask(op, "viewColumns", v)]]
      BY DEF Report
    <2> QED BY <1>2, <2>1
  <1>7. Expected(c.req, k) = [v \in views |-> k.objects[v].cols]
    BY DEF Expected
  <1> HIDE DEF views
  <1> QED BY <1>5, <1>6, <1>7

\* The names of the tables or views, and whether one has no name.
LEMMA NamesExact ==
    ASSUME NEW c, Settled(c), c.req.op \in {"ListCollections", "ListViews", "UnnamedObjects"}
    PROVE  Report(c.req, c.got) = Expected(c.req, c.from)
  <1> DEFINE n == c.req.name
             k == c.from
             op == c.req.op
             got(kind) == c.got[Ask(op, kind, n)]
  <1>1. CASE op = "ListCollections"
    <2>1. got("tables") = RowsOf(Ask(op, "tables", n), k)
      BY <1>1, Settles DEF Planned
    <2>2. got("tables") = OfKind(k, "table")
      BY <2>1, RowsAre
    <2> QED BY <1>1, <2>2 DEF Report, Expected
  <1>2. CASE op = "ListViews"
    <2>1. got("views") = RowsOf(Ask(op, "views", n), k)
      BY <1>2, Settles DEF Planned
    <2>2. got("views") = OfKind(k, "view")
      BY <2>1, RowsAre
    <2> QED BY <1>2, <2>2 DEF Report, Expected
  <1>3. CASE op = "UnnamedObjects"
    <2>1. got("unnamed") = RowsOf(Ask(op, "unnamed", n), k)
      BY <1>3, Settles DEF Planned
    <2>2. got("unnamed") = {m \in DOMAIN k.objects : m = Empty}
      BY <2>1, RowsAre
    <2>3. Report(c.req, c.got) = Cardinality(got("unnamed"))
      BY <1>3 DEF Report
    <2>4. Expected(c.req, k) = IF Empty \in DOMAIN k.objects THEN 1 ELSE 0
      BY <1>3 DEF Expected
    <2>5. CASE Empty \in DOMAIN k.objects
      <3>1. got("unnamed") = {Empty}
        BY <2>2, <2>5
      <3> QED BY <2>3, <2>4, <2>5, <3>1, FS_Singleton
    <2>6. CASE Empty \notin DOMAIN k.objects
      <3>1. got("unnamed") = {}
        BY <2>2, <2>6
      <3> QED BY <2>3, <2>4, <2>6, <3>1, FS_EmptySet
    <2> QED BY <2>5, <2>6
  <1> QED BY <1>1, <1>2, <1>3

\* A description of a collection, part by part.
LEMMA DescriptionExact ==
    ASSUME NEW c, Settled(c), c.req.op = "DescribeCollection"
    PROVE  Report(c.req, c.got) = Expected(c.req, c.from)
  <1> DEFINE n == c.req.name
             k == c.from
             A == c.got
             l == c.req.lenient
             o == ObjectAt(c.from, c.req.name)
             fields == [i \in DOMAIN o.cols |-> ExpectedField(k, n, o, o.cols[i])]
             keys == [i \in DOMAIN o.keys |-> ExpectedKey(k, o.keys[i])]
  <1>0. Describes(c.req)
    BY DEF Describes
  <1>1. Fields(A, n) = fields
    BY <1>0, FieldsExact
  <1>2. ForeignKeys(A, n) = keys
    BY <1>0, KeysExact
  <1>3. Source(A, n) = [cols |-> o.cols, indexes |-> o.indexes]
    BY <1>0, SourceExact
  <1>4. IndexesRead(A, "DescribeCollection", n, l) = ExpectedIndexes(o, l)
    BY ListedExactly
  <1>5. PrimaryKeyOf(About(A, "tableInfo", n)) = PrimaryKeyOf(o.cols)
    BY <1>0, DescribedOnce
  <1>6. Report(c.req, A)
          = [fields  |-> Fields(A, n),
             key     |-> PrimaryKeyOf(About(A, "tableInfo", n)),
             indexes |-> IndexesRead(A, "DescribeCollection", n, l),
             keys    |-> ForeignKeys(A, n),
             source  |-> Source(A, n)]
    BY DEF Report
  <1>7. Expected(c.req, k)
          = [fields |-> fields, key |-> PrimaryKeyOf(o.cols), indexes |-> ExpectedIndexes(o, l),
             keys |-> keys, source |-> [cols |-> o.cols, indexes |-> o.indexes]]
    BY DEF Expected
  <1> HIDE DEF fields, keys, o, A
  <1> QED BY <1>1, <1>2, <1>3, <1>4, <1>5, <1>6, <1>7 DEF A

\* What a call reports of a catalog that does not change is what the catalog holds.
LEMMA ReportExact ==
    ASSUME NEW c, Settled(c)
    PROVE  Report(c.req, c.got) = Expected(c.req, c.from)
  <1>1. c.req.op \in Operations /\ c.req.op # "OpenSourceRows"
    BY Settles, NoCursorSettles
  <1>2. CASE c.req.op = "ListIndexes"
    <2>1. Report(c.req, c.got) = IndexesRead(c.got, c.req.op, c.req.name, c.req.lenient)
      BY <1>2 DEF Report
    <2>2. Expected(c.req, c.from) = ExpectedIndexes(ObjectAt(c.from, c.req.name), c.req.lenient)
      BY <1>2 DEF Expected
    <2> QED BY <1>2, <2>1, <2>2, ListedExactly
  <1> QED BY <1>1, <1>2, ConstraintsExact, ReferrersExact, ViewsExact, NamesExact, DescriptionExact
          DEF Operations

\* There is something to report or there is not.
LEMMA MustRefuseType ==
    ASSUME NEW q, q.op \in Operations, NEW c
    PROVE  MustRefuse(q, c) \in BOOLEAN
  BY DEF MustRefuse, Operations

\* While no DDL commits and nothing fails, a schema read reports exactly what the
\* catalog holds and returns an error exactly where it may not report it: the many
\* queries of describeCollection, sent one after the other outside a transaction, lose,
\* add and mix nothing (schema_reader.go:122, schema_source.go:17).
THEOREM QuietReadsExact ==
    ReaderSpec => []QuietReadIsExact
  <1>1. ReportInv => QuietReadIsExact
    <2> SUFFICES ASSUME ReportInv, NEW r \in Readers, rpc[r] = "done", call[r].since = 0, call[r].hit = {}
                 PROVE  /\ (call[r].outcome = "error") = MustRefuse(call[r].req, call[r].from)
                        /\ call[r].outcome = "ok" =>
                             Report(call[r].req, call[r].got) = Expected(call[r].req, call[r].from)
      BY DEF QuietReadIsExact
    <2> DEFINE c == call[r]
    <2>1. Shape(c) /\ Truth(c, "done", cat) /\ EndsWell(c, "done")
      BY DEF ReportInv, ReadInv
    <2>2. QuietCall(c) /\ c.from \in Catalogs
      BY <2>1, HeardQuietly DEF Truth
    <2>3. CASE c.outcome = "ok"
      <3>1. Settled(c)
        BY <2>1, <2>2, <2>3 DEF EndsWell, Settled
      <3>2. ~MustRefuse(c.req, c.from) /\ Report(c.req, c.got) = Expected(c.req, c.from)
        BY <3>1, NothingMissed, ReportExact
      <3>3. MustRefuse(c.req, c.from) \in BOOLEAN
        BY <3>1, Settles, MustRefuseType
      <3> QED BY <2>3, <3>2, <3>3
    <2>4. CASE c.outcome = "error"
      <3>1. MustRefuse(c.req, c.from)
        BY <2>1, <2>4 DEF EndsWell
      <3>2. c.req.op \in Operations
        BY <2>1, PlannedAsked
      <3>3. MustRefuse(c.req, c.from) \in BOOLEAN
        BY <3>2, MustRefuseType
      <3> QED BY <2>4, <3>1, <3>3
    <2> QED BY <2>1, <2>3, <2>4 DEF EndsWell
  <1> QED BY <1>1, ReportInvAlways, PTL

=============================================================================
