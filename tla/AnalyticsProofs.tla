--------------------------- MODULE AnalyticsProofs --------------------------
(***************************************************************************)
(* Theorems about the figures of the dashboard, for any number of          *)
(* shipments, companies and drivers, any width of the day and any number   *)
(* of writes between the queries of an overview.                           *)
(***************************************************************************)
EXTENDS Analytics, FiniteSetTheorems, WellFoundedInduction, TLAPS

(* The function by which MapThenSumSet adds up w over the subsets of S.      *)
IsSumOf(f, w, S) ==
  f = [T \in SUBSET S |->
         IF T = {} THEN 0
         ELSE LET x == CHOOSE x \in T : TRUE IN w[x] + f[T \ {x}]]

LEMMA LeastNat ==
  ASSUME NEW S \in SUBSET Nat, S # {}
  PROVE  \E n \in S : \A m \in S : n <= m
<1> DEFINE less == {ss \in Nat \X Nat : ss[1] < ss[2]}
<1>1. less = OpToRel(<, Nat)
  BY DEF OpToRel
<1>2. IsWellFoundedOn(less, Nat)
  BY <1>1, NatLessThanWellFounded
<1>3. \E n \in S : \A m \in S : <<m, n>> \notin less
  <2> HIDE DEF less
  <2> QED BY <1>2, WFMin
<1>4. \A n, m \in Nat : <<m, n>> \notin less => n <= m
  OBVIOUS
<1> HIDE DEF less
<1> QED BY <1>3, <1>4

(* A closed form that grows by w[x] with each element x is the sum.          *)
LEMMA SumIs ==
  ASSUME NEW S, IsFiniteSet(S), NEW w, NEW g \in [SUBSET S -> Int],
         g[{}] = 0,
         \A T \in SUBSET S : \A x \in T : g[T] = w[x] + g[T \ {x}]
  PROVE  /\ IsSumOf(g, w, S)
         /\ \A f : IsSumOf(f, w, S) => f[S] = g[S]
<1>1. IsSumOf(g, w, S)
  <2>1. \A T \in SUBSET S :
          g[T] = IF T = {} THEN 0
                 ELSE LET x == CHOOSE x \in T : TRUE IN w[x] + g[T \ {x}]
    OBVIOUS
  <2> QED BY <2>1 DEF IsSumOf
<1>2. ASSUME NEW f, IsSumOf(f, w, S), f[S] # g[S] PROVE FALSE
  <2>1. \A T \in SUBSET S :
          f[T] = IF T = {} THEN 0
                 ELSE LET x == CHOOSE x \in T : TRUE IN w[x] + f[T \ {x}]
    BY <1>2 DEF IsSumOf
  <2>2. \A T \in SUBSET S : IsFiniteSet(T) /\ Cardinality(T) \in Nat
    BY FS_Subset, FS_CardinalityType
  <2> DEFINE wrong == {Cardinality(T) : T \in {T \in SUBSET S : f[T] # g[T]}}
  <2>3. wrong \in SUBSET Nat /\ wrong # {}
    BY <1>2, <2>2
  <2>4. PICK n \in wrong : \A m \in wrong : n <= m
    <3> HIDE DEF wrong
    <3> QED BY <2>3, LeastNat
  <2>5. PICK T \in SUBSET S : f[T] # g[T] /\ n = Cardinality(T)
    BY <2>4
  <2>6. PICK x : x = CHOOSE y \in T : TRUE
    OBVIOUS
  <2>7. T # {} /\ x \in T /\ f[T] = w[x] + f[T \ {x}]
    BY <2>1, <2>5, <2>6
  <2>8. g[T] = w[x] + g[T \ {x}]
    BY <2>7
  <2>9. T \ {x} \in SUBSET S /\ f[T \ {x}] # g[T \ {x}]
    BY <2>5, <2>7, <2>8
  <2>10. Cardinality(T \ {x}) = Cardinality(T) - 1
    BY <2>2, <2>7, FS_RemoveElement
  <2>11. Cardinality(T \ {x}) \in wrong
    BY <2>9
  <2>12. Cardinality(T) \in Nat
    BY <2>2
  <2> HIDE DEF wrong
  <2> QED BY <2>4, <2>5, <2>10, <2>11, <2>12
<1> QED BY <1>1, <1>2

LEMMA SumOfFunction ==
  ASSUME NEW S, NEW w, NEW g, IsSumOf(g, w, S),
         \A f : IsSumOf(f, w, S) => f[S] = g[S]
  PROVE  MapThenSumSet(LAMBDA x : w[x], S) = g[S]
<1> DEFINE iter == CHOOSE f : IsSumOf(f, w, S)
<1>1. MapThenSumSet(LAMBDA x : w[x], S) = iter[S]
  BY DEF MapThenSumSet, MapThenFoldSet, IsSumOf
<1>2. IsSumOf(iter, w, S)
  OBVIOUS
<1> QED BY <1>1, <1>2

(* The same for the sums of a field of records, and of the hours of timings. *)
LEMMA SumOfCreated ==
  ASSUME NEW S, NEW F, NEW w, w = [x \in S |-> F[x].created],
         NEW g, IsSumOf(g, w, S), \A f : IsSumOf(f, w, S) => f[S] = g[S]
  PROVE  MapThenSumSet(LAMBDA x : F[x].created, S) = g[S]
<1> DEFINE Sums(f) == f = [T \in SUBSET S |->
                             IF T = {} THEN 0
                             ELSE LET x == CHOOSE x \in T : TRUE
                                  IN  F[x].created + f[T \ {x}]]
           iter == CHOOSE f : Sums(f)
<1>1. MapThenSumSet(LAMBDA x : F[x].created, S) = iter[S]
  BY DEF MapThenSumSet, MapThenFoldSet
<1>2. \A f : Sums(f) <=> IsSumOf(f, w, S)
  BY ZenonT(60) DEF IsSumOf
<1>3. Sums(g)
  BY <1>2
<1> HIDE DEF Sums
<1>4. Sums(iter)
  BY <1>3
<1> QED BY <1>1, <1>2, <1>4

LEMMA SumOfDelivered ==
  ASSUME NEW S, NEW F, NEW w, w = [x \in S |-> F[x].delivered],
         NEW g, IsSumOf(g, w, S), \A f : IsSumOf(f, w, S) => f[S] = g[S]
  PROVE  MapThenSumSet(LAMBDA x : F[x].delivered, S) = g[S]
<1> DEFINE Sums(f) == f = [T \in SUBSET S |->
                             IF T = {} THEN 0
                             ELSE LET x == CHOOSE x \in T : TRUE
                                  IN  F[x].delivered + f[T \ {x}]]
           iter == CHOOSE f : Sums(f)
<1>1. MapThenSumSet(LAMBDA x : F[x].delivered, S) = iter[S]
  BY DEF MapThenSumSet, MapThenFoldSet
<1>2. \A f : Sums(f) <=> IsSumOf(f, w, S)
  BY ZenonT(60) DEF IsSumOf
<1>3. Sums(g)
  BY <1>2
<1> HIDE DEF Sums
<1>4. Sums(iter)
  BY <1>3
<1> QED BY <1>1, <1>2, <1>4

LEMMA SumOfDeliveries ==
  ASSUME NEW S, NEW F, NEW w, w = [x \in S |-> F[x].deliveries],
         NEW g, IsSumOf(g, w, S), \A f : IsSumOf(f, w, S) => f[S] = g[S]
  PROVE  MapThenSumSet(LAMBDA x : F[x].deliveries, S) = g[S]
<1> DEFINE Sums(f) == f = [T \in SUBSET S |->
                             IF T = {} THEN 0
                             ELSE LET x == CHOOSE x \in T : TRUE
                                  IN  F[x].deliveries + f[T \ {x}]]
           iter == CHOOSE f : Sums(f)
<1>1. MapThenSumSet(LAMBDA x : F[x].deliveries, S) = iter[S]
  BY DEF MapThenSumSet, MapThenFoldSet
<1>2. \A f : Sums(f) <=> IsSumOf(f, w, S)
  BY ZenonT(60) DEF IsSumOf
<1>3. Sums(g)
  BY <1>2
<1> HIDE DEF Sums
<1>4. Sums(iter)
  BY <1>3
<1> QED BY <1>1, <1>2, <1>4

LEMMA SumOfHours ==
  ASSUME NEW S, NEW F, NEW w,
         w = [x \in S |-> F[x].deliveredAt - F[x].assignedAt],
         NEW g, IsSumOf(g, w, S), \A f : IsSumOf(f, w, S) => f[S] = g[S]
  PROVE  MapThenSumSet(LAMBDA x : F[x].deliveredAt - F[x].assignedAt, S) = g[S]
<1> DEFINE Sums(f) == f = [T \in SUBSET S |->
                             IF T = {} THEN 0
                             ELSE LET x == CHOOSE x \in T : TRUE
                                  IN  (F[x].deliveredAt - F[x].assignedAt) + f[T \ {x}]]
           iter == CHOOSE f : Sums(f)
<1>1. MapThenSumSet(LAMBDA x : F[x].deliveredAt - F[x].assignedAt, S) = iter[S]
  BY DEF MapThenSumSet, MapThenFoldSet
<1>2. \A f : Sums(f) <=> IsSumOf(f, w, S)
  BY ZenonT(60) DEF IsSumOf
<1>3. Sums(g)
  BY <1>2
<1> HIDE DEF Sums
<1>4. Sums(iter)
  BY <1>3
<1> QED BY <1>1, <1>2, <1>4

(* An image of a finite set is finite.                                       *)
LEMMA ImageIsFinite ==
  ASSUME NEW S, IsFiniteSet(S), NEW F
  PROVE  IsFiniteSet({F[x] : x \in S})
<1> DEFINE T == {F[x] : x \in S}
           f == [x \in S |-> F[x]]
<1>1. f \in Surjection(S, T)
  BY DEF Surjection
<1> QED BY <1>1, FS_Surjection

(* The cardinalities of disjoint finite sets add up to that of their union.  *)
LEMMA SumOfDisjoint ==
  ASSUME NEW S, IsFiniteSet(S), NEW A, \A x \in S : IsFiniteSet(A[x]),
         \A x, y \in S : x # y => A[x] \cap A[y] = {},
         NEW w, \A x \in S : w[x] = Cardinality(A[x])
  PROVE  \E g : /\ IsSumOf(g, w, S)
                /\ \A f : IsSumOf(f, w, S) => f[S] = g[S]
                /\ g[S] = Cardinality(UNION {A[x] : x \in S})
<1> DEFINE all(T) == UNION {A[x] : x \in T}
           g == [T \in SUBSET S |-> Cardinality(all(T))]
<1>1. ASSUME NEW T \in SUBSET S PROVE IsFiniteSet(all(T))
  <2>1. IsFiniteSet(T)
    BY FS_Subset
  <2>2. IsFiniteSet({A[x] : x \in T})
    BY <2>1, ImageIsFinite
  <2>3. \A U \in {A[x] : x \in T} : IsFiniteSet(U)
    OBVIOUS
  <2> QED BY <2>2, <2>3, FS_UNION
<1>2. g \in [SUBSET S -> Int]
  BY <1>1, FS_CardinalityType
<1>3. g[{}] = 0
  <2>1. all({}) = {}
    OBVIOUS
  <2> QED BY <2>1, FS_EmptySet
<1>4. ASSUME NEW T \in SUBSET S, NEW x \in T
      PROVE  g[T] = w[x] + g[T \ {x}]
  <2>1. PICK rest : rest = all(T \ {x})
    OBVIOUS
  <2>2. all(T) = A[x] \cup rest
    BY <2>1
  <2>7. A[x] \cap rest = {}
    BY <2>1
  <2>3. IsFiniteSet(A[x]) /\ IsFiniteSet(rest)
    BY <1>1, <2>1
  <2>4. Cardinality(A[x] \cup rest)
          = Cardinality(A[x]) + Cardinality(rest) - Cardinality(A[x] \cap rest)
    BY <2>3, FS_Union
  <2>5. Cardinality({}) = 0 /\ Cardinality(A[x]) \in Int
          /\ Cardinality(rest) \in Int
    BY <2>3, FS_EmptySet, FS_CardinalityType
  <2>6. Cardinality(all(T)) = w[x] + Cardinality(rest)
    <3>1. Cardinality(all(T)) = Cardinality(A[x] \cup rest)
      BY <2>2
    <3>2. Cardinality(A[x] \cap rest) = 0
      BY <2>7, <2>5
    <3>3. w[x] = Cardinality(A[x])
      OBVIOUS
    <3> HIDE DEF all
    <3> QED BY <3>1, <3>2, <3>3, <2>4, <2>5
  <2>8. g[T] = Cardinality(all(T)) /\ g[T \ {x}] = Cardinality(rest)
    BY <2>1
  <2> QED BY <2>6, <2>8
<1>5. g[S] = Cardinality(UNION {A[x] : x \in S})
  OBVIOUS
<1> HIDE DEF g
<1> QED BY <1>2, <1>3, <1>4, <1>5, SumIs

(* A sum of naturals is one.                                                 *)
LEMMA SumOfNats ==
  ASSUME NEW S, IsFiniteSet(S), NEW w, \A x \in S : w[x] \in Nat
  PROVE  \E g : /\ IsSumOf(g, w, S)
                /\ \A f : IsSumOf(f, w, S) => f[S] = g[S]
                /\ g[S] \in Nat
<1> DEFINE A == [x \in S |-> {x} \X (1 .. w[x])]
<1>1. ASSUME NEW x \in S
      PROVE  IsFiniteSet(A[x]) /\ w[x] = Cardinality(A[x])
  <2>1. IsFiniteSet({x}) /\ Cardinality({x}) = 1
    BY FS_Singleton
  <2>2. IsFiniteSet(1 .. w[x]) /\ Cardinality(1 .. w[x]) = w[x]
    BY FS_Interval
  <2>3. /\ IsFiniteSet({x} \X (1 .. w[x]))
        /\ Cardinality({x} \X (1 .. w[x])) = 1 * w[x]
    BY <2>1, <2>2, FS_Product
  <2> QED BY <2>3
<1>2. ASSUME NEW x \in S, NEW y \in S, x # y
      PROVE  A[x] \cap A[y] = {}
  <2>1. \A e \in A[x] : e[1] = x
    OBVIOUS
  <2>2. \A e \in A[y] : e[1] = y
    OBVIOUS
  <2> HIDE DEF A
  <2> QED BY <1>2, <2>1, <2>2
<1>3. IsFiniteSet(UNION {A[x] : x \in S})
  <2> HIDE DEF A
  <2>1. IsFiniteSet({A[x] : x \in S})
    BY ImageIsFinite
  <2>2. \A U \in {A[x] : x \in S} : IsFiniteSet(U)
    BY <1>1
  <2> QED BY <2>1, <2>2, FS_UNION
<1>4. Cardinality(UNION {A[x] : x \in S}) \in Nat
  BY <1>3, FS_CardinalityType
<1> HIDE DEF A
<1>5. \E g : /\ IsSumOf(g, w, S)
             /\ \A f : IsSumOf(f, w, S) => f[S] = g[S]
             /\ g[S] = Cardinality(UNION {A[x] : x \in S})
  BY <1>1, <1>2, SumOfDisjoint, SMTT(40)
<1> QED BY <1>4, <1>5


-----------------------------------------------------------------------------
(* The table: finitely many rows, none with a date to come, and each         *)
(* delivered one with a driver and with both of its dates in their order.    *)

Present == {s \in ShipmentIds : shipments[s] # NoShipment}

RowFact(r) ==
  /\ r.createdAt # 0 /\ r.createdAt <= clock
  /\ r.assignedAt <= clock
  /\ r.deliveredAt <= clock
  /\ r.status = "DELIVERED" <=> r.deliveredAt # 0
  /\ r.status = "DELIVERED" =>
       /\ r.driver # NoDriver
       /\ r.assignedAt # 0
       /\ r.assignedAt <= r.deliveredAt

TableInv ==
  /\ shipments \in [ShipmentIds -> Row \cup {NoShipment}]
  /\ clock \in Nat \ {0}
  /\ IsFiniteSet(Present)
  /\ \A s \in Present : RowFact(shipments[s])

(* The overview being computed: what a query has read is as far from the     *)
(* table of now, and from what another has read, as there were writes.       *)

StatusTotal(m) ==
  m["PENDING"] + m["ASSIGNED"] + m["IN_TRANSIT"] + m["DELIVERED"] + m["CANCELLED"]

(* What each answer says of a table with t shipments, d of them delivered,   *)
(* up to n writes before it.                                                 *)
Near(query, r, t, d, n) ==
  CASE query = "status" ->
         /\ r.status \in [ShipmentStatus -> Nat]
         /\ t <= StatusTotal(r.status) + n
         /\ r.status["DELIVERED"] <= d + n
         /\ d <= r.status["DELIVERED"] + n
    [] query = "created" -> r.created \in Nat /\ r.created <= t
    [] query = "delivered" -> r.delivered \in Nat /\ r.delivered <= d + n
    [] query = "timings" ->
         /\ r.timings.count \in Nat /\ r.timings.hours \in Nat
         /\ r.timings.count <= d + n
         /\ d <= r.timings.count + n

(* What each answer says beside that of the status counts.                   *)
Agree(query, r, n) ==
  CASE query = "status" -> TRUE
    [] query = "created" -> r.created <= StatusTotal(r.status) + n
    [] query = "delivered" -> r.delivered <= r.status["DELIVERED"] + n
    [] query = "timings" ->
         /\ r.timings.count <= r.status["DELIVERED"] + n
         /\ r.status["DELIVERED"] <= r.timings.count + n

RequestTyped ==
  /\ request = [ company |-> request.company, since |-> request.since,
                 read |-> request.read, writes |-> request.writes ]
  /\ request.company \in Companies
  /\ request.since \in Int
  /\ request.writes \in Nat
  /\ request.read = [q \in DOMAIN request.read |-> request.read[q]]
  /\ DOMAIN request.read \subseteq Queries

RequestInv ==
  request # Idle =>
    /\ RequestTyped
    /\ \A q \in DOMAIN request.read :
         /\ Near(q, request.read, Cardinality(Of(request.company)),
                 Cardinality(Delivered(request.company)), request.writes)
         /\ "status" \in DOMAIN request.read
              => Agree(q, request.read, request.writes)

AnalyticsInv == TableInv /\ RequestInv

LEMMA OfFinite ==
  ASSUME TableInv, NEW c
  PROVE  /\ Of(c) \subseteq Present /\ IsFiniteSet(Of(c))
         /\ Cardinality(Of(c)) \in Nat
         /\ Delivered(c) \subseteq Of(c) /\ IsFiniteSet(Delivered(c))
         /\ Cardinality(Delivered(c)) \in Nat
<1>1. Of(c) \subseteq Present /\ Delivered(c) \subseteq Of(c)
  BY DEF Of, Delivered, Present
<1>2. IsFiniteSet(Of(c)) /\ IsFiniteSet(Delivered(c))
  BY <1>1, FS_Subset DEF TableInv
<1> QED BY <1>1, <1>2, FS_CardinalityType

LEMMA PartOf ==
  ASSUME NEW A, NEW B, IsFiniteSet(B), A \subseteq B
  PROVE  /\ IsFiniteSet(A) /\ Cardinality(A) \in Nat /\ Cardinality(B) \in Nat
         /\ Cardinality(A) <= Cardinality(B)
BY FS_Subset, FS_CardinalityType

(* Sets that agree but for one element differ by one in size.                *)
LEMMA OneElementApart ==
  ASSUME NEW A, NEW B, NEW s, IsFiniteSet(A), A \ {s} = B \ {s}
  PROVE  /\ IsFiniteSet(B)
         /\ Cardinality(A) \in Nat /\ Cardinality(B) \in Nat
         /\ Cardinality(B) <= Cardinality(A) + 1
         /\ Cardinality(A) <= Cardinality(B) + 1
<1>1. PICK rest : rest = A \ {s}
  OBVIOUS
<1>2. IsFiniteSet(rest)
  BY <1>1, FS_Subset
<1>3. IsFiniteSet(rest \cup {s}) /\ IsFiniteSet(rest)
        /\ Cardinality(rest) \in Nat
        /\ Cardinality(rest \cup {s}) = Cardinality(rest) + 1
  BY <1>1, <1>2, FS_AddElement, FS_CardinalityType
<1>4. (A = rest \/ A = rest \cup {s}) /\ (B = rest \/ B = rest \cup {s})
  BY <1>1
<1> QED BY <1>3, <1>4

LEMMA StatusesAre ==
  /\ ShipmentStatus
       = {"PENDING", "ASSIGNED", "IN_TRANSIT", "DELIVERED", "CANCELLED"}
  /\ IsFiniteSet(ShipmentStatus)
<1>1. ShipmentStatus
        = {"PENDING", "ASSIGNED", "IN_TRANSIT", "DELIVERED", "CANCELLED"}
  BY DEF ShipmentStatus
<1>2. IsFiniteSet({"PENDING"} \cup {"ASSIGNED"})
  BY FS_Singleton, FS_AddElement
<1>3. IsFiniteSet(({"PENDING"} \cup {"ASSIGNED"}) \cup {"IN_TRANSIT"})
  BY <1>2, FS_AddElement
<1>4. IsFiniteSet((({"PENDING"} \cup {"ASSIGNED"}) \cup {"IN_TRANSIT"})
                    \cup {"DELIVERED"})
  BY <1>3, FS_AddElement
<1>5. IsFiniteSet(((({"PENDING"} \cup {"ASSIGNED"}) \cup {"IN_TRANSIT"})
                    \cup {"DELIVERED"}) \cup {"CANCELLED"})
  BY <1>4, FS_AddElement
<1>6. ShipmentStatus = ((({"PENDING"} \cup {"ASSIGNED"}) \cup {"IN_TRANSIT"})
                         \cup {"DELIVERED"}) \cup {"CANCELLED"}
  BY <1>1
<1> QED BY <1>1, <1>5, <1>6

(* The sum over the statuses, written out.                                   *)
LEMMA StatusSum ==
  ASSUME NEW m \in [ShipmentStatus -> Nat]
  PROVE  MapThenSumSet(LAMBDA st : m[st], ShipmentStatus) = StatusTotal(m)
<1> DEFINE term(T, st) == IF st \in T THEN m[st] ELSE 0
           g == [T \in SUBSET ShipmentStatus |->
                   term(T, "PENDING") + term(T, "ASSIGNED")
                     + term(T, "IN_TRANSIT") + term(T, "DELIVERED")
                     + term(T, "CANCELLED")]
<1>1. IsFiniteSet(ShipmentStatus)
  BY StatusesAre
<1>2. \A T, st : term(T, st) = IF st \in T THEN m[st] ELSE 0
  OBVIOUS
<1>3. \A st \in ShipmentStatus : m[st] \in Nat
  OBVIOUS
<1>4. \A T : \A st \in ShipmentStatus : term(T, st) \in Nat
  BY <1>3
<1>5. \A T \in SUBSET ShipmentStatus :
        g[T] = term(T, "PENDING") + term(T, "ASSIGNED")
                 + term(T, "IN_TRANSIT") + term(T, "DELIVERED")
                 + term(T, "CANCELLED")
  OBVIOUS
<1>6. g \in [SUBSET ShipmentStatus -> Int]
  <2>1. \A T \in SUBSET ShipmentStatus : g[T] \in Int
    <3> HIDE DEF term, g
    <3> QED BY <1>4, <1>5, StatusesAre
  <2> QED BY <2>1
<1>7. g[{}] = 0
  OBVIOUS
<1>8. ASSUME NEW T \in SUBSET ShipmentStatus, NEW x \in T
      PROVE  g[T] = m[x] + g[T \ {x}]
  <2>1. \A st \in ShipmentStatus :
          /\ st # x => term(T \ {x}, st) = term(T, st)
          /\ st = x => term(T \ {x}, st) = 0 /\ term(T, st) = m[x]
    BY <1>8
  <2>2. T \ {x} \in SUBSET ShipmentStatus
    OBVIOUS
  <2> HIDE DEF term, g
  <2> QED BY <1>3, <1>4, <1>5, <2>1, <2>2, StatusesAre
<1>9. g[ShipmentStatus] = StatusTotal(m)
  BY StatusesAre DEF StatusTotal
<1> HIDE DEF g
<1>10. IsSumOf(g, m, ShipmentStatus)
         /\ \A f : IsSumOf(f, m, ShipmentStatus)
              => f[ShipmentStatus] = g[ShipmentStatus]
  BY <1>1, <1>6, <1>7, <1>8, SumIs
<1>11. MapThenSumSet(LAMBDA st : m[st], ShipmentStatus) = g[ShipmentStatus]
  BY <1>10, SumOfFunction
<1> QED BY <1>9, <1>11

-----------------------------------------------------------------------------
(* Rounding.                                                                 *)

LEMMA Quotient ==
  ASSUME NEW a \in Int, NEW b \in Nat \ {0}
  PROVE  /\ a \div b \in Int
         /\ b * (a \div b) <= a
         /\ a < b * (a \div b) + b
BY Z3

LEMMA RoundedNat ==
  ASSUME NEW a \in Nat, NEW b \in Nat \ {0}
  PROVE  RoundedRatio(a, b) \in Nat
<1> DEFINE q == (2 * a + b) \div (2 * b)
<1>1. 2 * a + b \in Int /\ 2 * b \in Nat \ {0}
  OBVIOUS
<1>2. q \in Int /\ 2 * a + b < (2 * b) * q + 2 * b
  BY <1>1, Quotient
<1>3. q >= 0
  <2> SUFFICES ASSUME q <= -1 PROVE FALSE
    BY <1>2
  <2>1. PICK k \in Nat : q = -1 - k
    <3> HIDE DEF q
    <3>1. -1 - q \in Nat /\ q = -1 - (-1 - q)
      BY <1>2
    <3> QED BY <3>1
  <2>2. (2 * b) * (-1 - k) = -(2 * b) - (2 * b) * k
    BY Z3
  <2>3. (2 * b) * k >= 0
    BY Z3
  <2>4. (2 * b) * q = -(2 * b) - (2 * b) * k
    BY <2>1, <2>2
  <2>5. (2 * b) * q \in Int /\ (2 * b) * k \in Int
    BY <1>2
  <2> HIDE DEF q
  <2> QED BY <1>2, <2>3, <2>4, <2>5
<1> QED BY <1>2, <1>3 DEF RoundedRatio

(* The rate of d in c: at most 1000 tenths of a percent, and as many only if *)
(* fewer than one in 2000 are missing.                                       *)
RateFact(d, c) ==
  /\ RoundedRatio(1000 * d, c) \in 0 .. 1000
  /\ RoundedRatio(1000 * d, c) = 1000 => 2000 * (c - d) <= c

LEMMA RateOf ==
  ASSUME NEW c \in Nat \ {0}, NEW d \in Nat, d <= c
  PROVE  RateFact(d, c)
<1> DEFINE q == RoundedRatio(1000 * d, c)
<1>1. 1000 * d \in Nat /\ q \in Nat
  BY RoundedNat
<1>2. (2 * c) * q <= 2 * (1000 * d) + c
  <2>1. 2 * (1000 * d) + c \in Int /\ 2 * c \in Nat \ {0}
    OBVIOUS
  <2> QED BY <2>1, Quotient DEF RoundedRatio
<1>3. ASSUME q >= 1001 PROVE FALSE
  <2>1. PICK k \in Nat : q = 1001 + k
    <3> HIDE DEF q
    <3>1. q - 1001 \in Nat /\ q = 1001 + (q - 1001)
      BY <1>1, <1>3
    <3> QED BY <3>1
  <2>2. (2 * c) * (1001 + k) = 2002 * c + (2 * c) * k
    BY Z3
  <2>3. (2 * c) * k \in Nat
    OBVIOUS
  <2>4. 2002 * c + (2 * c) * k <= 2000 * d + c
    BY <1>2, <2>1, <2>2
  <2> QED BY <2>3, <2>4
<1>4. ASSUME q = 1000 PROVE 2000 * (c - d) <= c
  <2>1. (2 * c) * 1000 <= 2 * (1000 * d) + c
    BY <1>2, <1>4
  <2> QED BY <2>1
<1> HIDE DEF q
<1>5. q \in 0 .. 1000
  BY <1>1, <1>3
<1> QED BY <1>4, <1>5 DEF q, RateFact

LEMMA DaysAreOrdered ==
  ASSUME NEW a \in Int, NEW b \in Int, a <= b
  PROVE  DayOf(a) \in Int /\ DayOf(b) \in Int /\ DayOf(a) <= DayOf(b)
<1> DEFINE p == DayOf(a)  q == DayOf(b)  h == HoursPerDay
<1>1. h \in Nat \ {0}
  BY AnalyticsAssumption
<1>2. p \in Int /\ q \in Int /\ h * p <= a /\ b < h * q + h
  BY <1>1, Quotient DEF DayOf
<1>3. ASSUME p > q PROVE FALSE
  <2>1. PICK k \in Nat : p = q + 1 + k
    <3> HIDE DEF p, q
    <3>1. p - q - 1 \in Nat /\ p = q + 1 + (p - q - 1)
      BY <1>2, <1>3
    <3> QED BY <3>1
  <2> HIDE DEF p, q, h
  <2>2. h * (q + 1 + k) = h * q + h + h * k
    BY <1>1, <1>2, Z3
  <2>3. h * k \in Nat /\ h * q \in Int
    BY <1>1, <1>2
  <2>4. h * q + h + h * k <= a
    BY <1>2, <2>1, <2>2
  <2> QED BY <1>1, <1>2, <2>3, <2>4
<1> HIDE DEF p, q
<1>4. p <= q
  BY <1>2, <1>3
<1> QED BY <1>2, <1>4 DEF p, q

-----------------------------------------------------------------------------
(* What the queries read.                                                    *)

LEMMA RowsAreTyped ==
  ASSUME TableInv, NEW c, NEW s \in Of(c)
  PROVE  /\ shipments[s] \in Row /\ shipments[s].company = c
         /\ RowFact(shipments[s]) /\ s \in Present
         /\ shipments[s].status \in ShipmentStatus
         /\ shipments[s].driver \in Drivers \cup {NoDriver}
         /\ shipments[s].createdAt \in Nat /\ shipments[s].assignedAt \in Nat
         /\ shipments[s].deliveredAt \in Nat
<1>1. s \in Present /\ shipments[s] \in Row /\ shipments[s].company = c
  BY DEF TableInv, Of, Present
<1>2. RowFact(shipments[s])
  BY <1>1 DEF TableInv
<1> QED BY <1>1, <1>2 DEF Row

LEMMA StatusRead ==
  ASSUME TableInv, NEW c
  PROVE  /\ toStatusMap(c) \in [ShipmentStatus -> Nat]
         /\ StatusTotal(toStatusMap(c)) = Cardinality(Of(c))
         /\ toStatusMap(c)["DELIVERED"] = Cardinality(Delivered(c))
<1> DEFINE A == [st \in ShipmentStatus |->
                   {s \in Of(c) : shipments[s].status = st}]
           w == toStatusMap(c)
<1>1. \A st \in ShipmentStatus :
        /\ A[st] \subseteq Of(c) /\ IsFiniteSet(A[st])
        /\ Cardinality(A[st]) \in Nat /\ w[st] = Cardinality(A[st])
  <2>1. \A st \in ShipmentStatus : A[st] \subseteq Of(c)
    OBVIOUS
  <2>2. \A st \in ShipmentStatus : w[st] = Cardinality(A[st])
    BY DEF toStatusMap
  <2>3. IsFiniteSet(Of(c))
    BY OfFinite
  <2> HIDE DEF A, w
  <2> QED BY <2>1, <2>2, <2>3, PartOf
<1>2. w = [st \in ShipmentStatus |-> w[st]]
  BY DEF toStatusMap
<1>3. w \in [ShipmentStatus -> Nat]
  <2> HIDE DEF A, w
  <2> QED BY <1>1, <1>2
<1>4. \A x, y \in ShipmentStatus : x # y => A[x] \cap A[y] = {}
  OBVIOUS
<1>5. UNION {A[st] : st \in ShipmentStatus} = Of(c)
  <2>1. \A s \in Of(c) : shipments[s].status \in ShipmentStatus
    BY RowsAreTyped
  <2> QED BY <2>1
<1>6. "DELIVERED" \in ShipmentStatus /\ A["DELIVERED"] = Delivered(c)
  BY StatusesAre DEF Delivered
<1>7. IsFiniteSet(ShipmentStatus)
  BY StatusesAre
<1> HIDE DEF A, w
<1>8. PICK g : /\ IsSumOf(g, w, ShipmentStatus)
               /\ \A f : IsSumOf(f, w, ShipmentStatus)
                    => f[ShipmentStatus] = g[ShipmentStatus]
               /\ g[ShipmentStatus]
                    = Cardinality(UNION {A[st] : st \in ShipmentStatus})
  BY <1>1, <1>4, <1>7, SumOfDisjoint
<1>9. MapThenSumSet(LAMBDA st : w[st], ShipmentStatus) = g[ShipmentStatus]
  BY <1>8, SumOfFunction
<1>10. MapThenSumSet(LAMBDA st : w[st], ShipmentStatus) = StatusTotal(w)
  BY <1>3, StatusSum
<1>11. w["DELIVERED"] = Cardinality(Delivered(c))
  BY <1>1, <1>6
<1> QED BY <1>3, <1>5, <1>8, <1>9, <1>10, <1>11 DEF w

LEMMA DatesRead ==
  ASSUME TableInv, NEW c, NEW since
  PROVE  /\ createdSince(c, since) \in Nat
         /\ createdSince(c, since) <= Cardinality(Of(c))
         /\ deliveredSince(c, since) \in Nat
         /\ deliveredSince(c, since) <= Cardinality(Delivered(c))
<1>1. {s \in Of(c) : shipments[s].createdAt >= since} \subseteq Of(c)
  OBVIOUS
<1>2. {s \in Delivered(c) : shipments[s].deliveredAt >= since}
        \subseteq Delivered(c)
  OBVIOUS
<1>3. /\ createdSince(c, since) \in Nat
      /\ createdSince(c, since) <= Cardinality(Of(c))
  BY <1>1, OfFinite, PartOf DEF createdSince
<1>4. /\ deliveredSince(c, since) \in Nat
      /\ deliveredSince(c, since) <= Cardinality(Delivered(c))
  BY <1>2, OfFinite, PartOf DEF deliveredSince
<1> QED BY <1>3, <1>4

(* Every delivery has its two dates, in their order.                         *)
LEMMA TimingsRead ==
  ASSUME TableInv, NEW c
  PROVE  /\ timings(c).count = Cardinality(Delivered(c))
         /\ timings(c).hours \in Nat
<1> DEFINE rows == {s \in Delivered(c) : shipments[s].assignedAt # 0
                                           /\ shipments[s].deliveredAt # 0}
           w == [s \in rows |->
                   shipments[s].deliveredAt - shipments[s].assignedAt]
<1>1. \A s \in Delivered(c) :
        /\ s \in Of(c) /\ shipments[s].status = "DELIVERED"
        /\ RowFact(shipments[s])
        /\ shipments[s].assignedAt \in Nat /\ shipments[s].deliveredAt \in Nat
  BY RowsAreTyped DEF Delivered
<1>2. rows = Delivered(c)
  BY <1>1 DEF RowFact
<1>3. \A s \in rows : w[s] \in Nat
  BY <1>1 DEF RowFact
<1>4. IsFiniteSet(rows)
  BY <1>2, OfFinite
<1>5. w = [s \in rows |-> shipments[s].deliveredAt - shipments[s].assignedAt]
  OBVIOUS
<1>6. /\ timings(c).count = Cardinality(rows)
      /\ timings(c).hours
           = MapThenSumSet(
               LAMBDA s : shipments[s].deliveredAt - shipments[s].assignedAt,
               rows)
  BY DEF timings
<1> HIDE DEF rows, w
<1>7. PICK g : /\ IsSumOf(g, w, rows)
               /\ \A f : IsSumOf(f, w, rows) => f[rows] = g[rows]
               /\ g[rows] \in Nat
  BY <1>3, <1>4, SumOfNats
<1>8. MapThenSumSet(
        LAMBDA s : shipments[s].deliveredAt - shipments[s].assignedAt, rows)
        = g[rows]
  BY <1>5, <1>7, SumOfHours
<1> QED BY <1>2, <1>6, <1>7, <1>8

-----------------------------------------------------------------------------
(* The invariant.                                                            *)

LEMMA WriteTable ==
  ASSUME TableInv, NEW s \in ShipmentIds, NEW row \in Row,
         shipments' = [shipments EXCEPT ![s] = row], RowFact(row),
         UNCHANGED clock
  PROVE  TableInv'
<1>1. shipments' \in [ShipmentIds -> Row \cup {NoShipment}]
  BY DEF TableInv
<1>2. (clock \in Nat \ {0})'
  BY DEF TableInv
<1>3. IsFiniteSet(Present')
  <2>1. Present' \subseteq Present \cup {s}
    BY DEF Present, TableInv
  <2>2. IsFiniteSet(Present \cup {s})
    BY FS_AddElement DEF TableInv
  <2> QED BY <2>1, <2>2, FS_Subset
<1>4. ASSUME NEW t \in Present' PROVE RowFact(shipments[t])'
  <2>1. CASE t = s
    BY <2>1 DEF RowFact, TableInv
  <2>2. CASE t # s
    <3>1. t \in Present /\ shipments'[t] = shipments[t]
      BY <2>2 DEF Present, TableInv
    <3> QED BY <3>1 DEF RowFact, TableInv
  <2> QED BY <2>1, <2>2
<1> QED BY <1>1, <1>2, <1>3, <1>4 DEF TableInv

LEMMA TableNext ==
  ASSUME TableInv, [Next]_vars
  PROVE  TableInv'
<1>1. ASSUME NEW s \in ShipmentIds, NEW c \in Companies, Create(s, c)
      PROVE  TableInv'
  <2> DEFINE row == [ company |-> c, status |-> "PENDING", driver |-> NoDriver,
                      createdAt |-> clock, assignedAt |-> 0, deliveredAt |-> 0 ]
  <2>1. row \in Row
    BY StatusesAre DEF Row, TableInv
  <2>2. RowFact(row)
    BY DEF RowFact, TableInv
  <2>3. shipments' = [shipments EXCEPT ![s] = row] /\ UNCHANGED clock
    BY <1>1 DEF Create
  <2> QED BY <2>1, <2>2, <2>3, WriteTable
<1>2. ASSUME NEW s \in ShipmentIds, NEW to \in ShipmentStatus,
             NEW d \in Drivers \cup {NoDriver}, NEW at \in 0 .. clock,
             Change(s, to, d, at)
      PROVE  TableInv'
  <2> DEFINE row == [ shipments[s] EXCEPT
                        !.status = to, !.driver = d, !.assignedAt = at,
                        !.deliveredAt = IF to = "DELIVERED" THEN clock ELSE 0 ]
  <2>1. shipments[s] \in Row /\ RowFact(shipments[s]) /\ clock \in Nat \ {0}
    BY <1>2 DEF Change, TableInv, Present
  <2>2. at \in Nat /\ at <= clock
    BY <2>1
  <2>3. row \in Row
    BY <2>1, <2>2 DEF Row
  <2>4. /\ row.createdAt = shipments[s].createdAt /\ row.status = to
        /\ row.driver = d /\ row.assignedAt = at
        /\ row.deliveredAt = IF to = "DELIVERED" THEN clock ELSE 0
    BY <2>1 DEF Row
  <2>5. to = "DELIVERED" => d # NoDriver /\ at # 0
    BY <1>2 DEF Change
  <2>6. RowFact(row)
    <3> HIDE DEF row
    <3> QED BY <2>1, <2>2, <2>4, <2>5 DEF RowFact
  <2>7. shipments' = [shipments EXCEPT ![s] = row] /\ UNCHANGED clock
    BY <1>2 DEF Change
  <2> HIDE DEF row
  <2> QED BY <2>3, <2>6, <2>7, WriteTable
<1>3. ASSUME UNCHANGED shipments, clock' \in Nat, clock' >= clock
      PROVE  TableInv'
  <2>1. Present' = Present
    BY <1>3 DEF Present
  <2>2. clock \in Nat \ {0}
    BY DEF TableInv
  <2>3. ASSUME NEW s \in Present PROVE RowFact(shipments[s])'
    <3>1. RowFact(shipments[s]) /\ shipments[s] \in Row
      BY DEF TableInv, Present
    <3>2. /\ shipments[s].createdAt \in Nat /\ shipments[s].assignedAt \in Nat
          /\ shipments[s].deliveredAt \in Nat
      BY <3>1 DEF Row
    <3> QED BY <1>3, <2>2, <3>1, <3>2 DEF RowFact
  <2>4. (clock \in Nat \ {0})'
    BY <1>3, <2>2
  <2> QED BY <1>3, <2>1, <2>3, <2>4 DEF TableInv
<1>4. clock \in Nat
  BY DEF TableInv
<1>5. ASSUME Tick PROVE TableInv'
  BY <1>3, <1>4, <1>5 DEF Tick
<1>6. ASSUME NEW c \in Companies \cup {NoCompany}, AskOverview(c)
      PROVE  TableInv'
  BY <1>3, <1>4, <1>6 DEF AskOverview
<1>7. ASSUME NEW q \in Queries, Read(q) PROVE TableInv'
  BY <1>3, <1>4, <1>7 DEF Read
<1>8. ASSUME AnswerOverview PROVE TableInv'
  BY <1>3, <1>4, <1>8 DEF AnswerOverview
<1>9. ASSUME UNCHANGED vars PROVE TableInv'
  BY <1>3, <1>4, <1>9 DEF vars
<1> QED BY <1>1, <1>2, <1>5, <1>6, <1>7, <1>8, <1>9 DEF Next

(* A write adds at most one shipment to a company, takes none from it, and   *)
(* adds or takes at most one delivery.                                       *)
LEMMA WriteMovesByOne ==
  ASSUME TableInv, NEW s \in ShipmentIds, NEW c,
         shipments' = [shipments EXCEPT ![s] = shipments'[s]],
         shipments'[s] # NoShipment,
         shipments[s] # NoShipment
           => shipments'[s].company = shipments[s].company
  PROVE  /\ Cardinality(Of(c))' \in Nat /\ Cardinality(Delivered(c))' \in Nat
         /\ Cardinality(Of(c)) <= Cardinality(Of(c))'
         /\ Cardinality(Of(c))' <= Cardinality(Of(c)) + 1
         /\ Cardinality(Delivered(c))' <= Cardinality(Delivered(c)) + 1
         /\ Cardinality(Delivered(c)) <= Cardinality(Delivered(c))' + 1
<1>1. \A t \in ShipmentIds \ {s} : shipments'[t] = shipments[t]
  BY DEF TableInv
<1>2. PICK O, D : O = Of(c)' /\ D = Delivered(c)'
  OBVIOUS
<1>3. Of(c) \ {s} = O \ {s} /\ Of(c) \subseteq O
  BY <1>1, <1>2 DEF Of
<1>4. Delivered(c) \ {s} = D \ {s}
  BY <1>1, <1>2 DEF Delivered, Of
<1>5. /\ IsFiniteSet(O)
      /\ Cardinality(Of(c)) \in Nat /\ Cardinality(O) \in Nat
      /\ Cardinality(O) <= Cardinality(Of(c)) + 1
  BY <1>3, OfFinite, OneElementApart
<1>6. /\ Cardinality(Delivered(c)) \in Nat /\ Cardinality(D) \in Nat
      /\ Cardinality(D) <= Cardinality(Delivered(c)) + 1
      /\ Cardinality(Delivered(c)) <= Cardinality(D) + 1
  BY <1>4, OfFinite, OneElementApart
<1>7. Cardinality(Of(c)) <= Cardinality(O)
  BY <1>3, <1>5, PartOf
<1> QED BY <1>2, <1>5, <1>6, <1>7

LEMMA NearMoves ==
  ASSUME NEW q \in Queries, NEW r, NEW t \in Nat, NEW d \in Nat, NEW n \in Nat,
         NEW t2 \in Nat, NEW d2 \in Nat, Near(q, r, t, d, n),
         t <= t2, t2 <= t + 1, d2 <= d + 1, d <= d2 + 1
  PROVE  Near(q, r, t2, d2, n + 1)
<1>1. CASE q = "status"
  <2>1. /\ r.status \in [ShipmentStatus -> Nat]
        /\ t <= StatusTotal(r.status) + n
        /\ r.status["DELIVERED"] <= d + n
        /\ d <= r.status["DELIVERED"] + n
    BY <1>1 DEF Near
  <2>2. StatusTotal(r.status) \in Nat /\ r.status["DELIVERED"] \in Nat
    BY <2>1, StatusesAre DEF StatusTotal
  <2>3. /\ t2 <= StatusTotal(r.status) + (n + 1)
        /\ r.status["DELIVERED"] <= d2 + (n + 1)
        /\ d2 <= r.status["DELIVERED"] + (n + 1)
    BY <2>1, <2>2
  <2> QED BY <1>1, <2>1, <2>3 DEF Near
<1>2. CASE q = "created"
  BY <1>2 DEF Near
<1>3. CASE q = "delivered"
  BY <1>3 DEF Near
<1>4. CASE q = "timings"
  BY <1>4 DEF Near
<1> QED BY <1>1, <1>2, <1>3, <1>4 DEF Queries

LEMMA AgreeMoves ==
  ASSUME NEW q \in Queries, NEW r, NEW t \in Nat, NEW d \in Nat, NEW n \in Nat,
         Near(q, r, t, d, n), Near("status", r, t, d, n), Agree(q, r, n)
  PROVE  Agree(q, r, n + 1)
<1>1. r.status \in [ShipmentStatus -> Nat]
  BY DEF Near
<1>2. StatusTotal(r.status) \in Nat /\ r.status["DELIVERED"] \in Nat
  BY <1>1, StatusesAre DEF StatusTotal
<1>3. CASE q = "status"
  BY <1>3 DEF Agree
<1>4. CASE q = "created"
  BY <1>2, <1>4 DEF Agree, Near
<1>5. CASE q = "delivered"
  BY <1>2, <1>5 DEF Agree, Near
<1>6. CASE q = "timings"
  BY <1>2, <1>6 DEF Agree, Near
<1> QED BY <1>3, <1>4, <1>5, <1>6 DEF Queries

(* Whatever the order of the two queries, what both read of one table        *)
(* differs by the writes in between.                                         *)
LEMMA NearAgree ==
  ASSUME NEW q \in Queries, NEW r, NEW t \in Nat, NEW d \in Nat, NEW n \in Nat,
         Near(q, r, t, d, n), Near("status", r, t, d, n),
         \/ StatusTotal(r.status) = t /\ r.status["DELIVERED"] = d
         \/ q = "created"
         \/ q = "delivered" /\ r.delivered <= d
         \/ q = "timings" /\ r.timings.count = d
  PROVE  Agree(q, r, n)
<1>1. /\ r.status \in [ShipmentStatus -> Nat]
      /\ t <= StatusTotal(r.status) + n
      /\ r.status["DELIVERED"] <= d + n
      /\ d <= r.status["DELIVERED"] + n
  BY DEF Near
<1>2. StatusTotal(r.status) \in Nat /\ r.status["DELIVERED"] \in Nat
  BY <1>1, StatusesAre DEF StatusTotal
<1>3. CASE q = "status"
  BY <1>3 DEF Agree
<1>4. CASE q = "created"
  <2>1. r.created \in Nat /\ r.created <= t
    BY <1>4 DEF Near
  <2> QED BY <1>1, <1>2, <1>4, <2>1 DEF Agree
<1>5. CASE q = "delivered"
  <2>1. r.delivered \in Nat /\ r.delivered <= d + n
    BY <1>5 DEF Near
  <2>2. r.delivered <= r.status["DELIVERED"] + n
    BY <1>1, <1>2, <1>5, <2>1
  <2> QED BY <1>5, <2>2 DEF Agree
<1>6. CASE q = "timings"
  <2>1. /\ r.timings.count \in Nat
        /\ r.timings.count <= d + n
        /\ d <= r.timings.count + n
    BY <1>6 DEF Near
  <2>2. /\ r.timings.count <= r.status["DELIVERED"] + n
        /\ r.status["DELIVERED"] <= r.timings.count + n
    BY <1>1, <1>2, <1>6, <2>1
  <2> QED BY <1>6, <2>2 DEF Agree
<1> QED BY <1>3, <1>4, <1>5, <1>6 DEF Queries

(* What is said of an answer depends on nothing but the answer.              *)
LEMMA NearOfSame ==
  ASSUME NEW q \in Queries, NEW r, NEW r2, NEW t, NEW d, NEW n,
         r2[q] = r[q], Near(q, r, t, d, n)
  PROVE  Near(q, r2, t, d, n)
<1>1. CASE q = "status"
  BY <1>1 DEF Near
<1>2. CASE q = "created"
  BY <1>2 DEF Near
<1>3. CASE q = "delivered"
  BY <1>3 DEF Near
<1>4. CASE q = "timings"
  BY <1>4 DEF Near
<1> QED BY <1>1, <1>2, <1>3, <1>4 DEF Queries

LEMMA AgreeOfSame ==
  ASSUME NEW q \in Queries, NEW r, NEW r2, NEW n,
         r2[q] = r[q], r2["status"] = r["status"], Agree(q, r, n)
  PROVE  Agree(q, r2, n)
<1>1. CASE q = "status"
  BY <1>1 DEF Agree
<1>2. CASE q = "created"
  BY <1>2 DEF Agree
<1>3. CASE q = "delivered"
  BY <1>3 DEF Agree
<1>4. CASE q = "timings"
  BY <1>4 DEF Agree
<1> QED BY <1>1, <1>2, <1>3, <1>4 DEF Queries

(* An answer is true of the table it is read from.                           *)
LEMMA NearWhenRead ==
  ASSUME TableInv, NEW q \in Queries, NEW c, NEW since, NEW r, NEW n \in Nat,
         r[q] = Figure(q, c, since)
  PROVE  /\ Near(q, r, Cardinality(Of(c)), Cardinality(Delivered(c)), n)
         /\ \/ /\ StatusTotal(r.status) = Cardinality(Of(c))
               /\ r.status["DELIVERED"] = Cardinality(Delivered(c))
            \/ q = "created"
            \/ q = "delivered" /\ r.delivered <= Cardinality(Delivered(c))
            \/ q = "timings" /\ r.timings.count = Cardinality(Delivered(c))
<1>1. Cardinality(Of(c)) \in Nat /\ Cardinality(Delivered(c)) \in Nat
  BY OfFinite
<1>2. CASE q = "status"
  <2>1. r.status = toStatusMap(c)
    BY <1>2 DEF Figure
  <2>2. /\ r.status \in [ShipmentStatus -> Nat]
        /\ StatusTotal(r.status) = Cardinality(Of(c))
        /\ r.status["DELIVERED"] = Cardinality(Delivered(c))
    BY <2>1, StatusRead
  <2>3. /\ Cardinality(Of(c)) <= StatusTotal(r.status) + n
        /\ r.status["DELIVERED"] <= Cardinality(Delivered(c)) + n
        /\ Cardinality(Delivered(c)) <= r.status["DELIVERED"] + n
    BY <1>1, <2>2
  <2> QED BY <1>2, <2>2, <2>3 DEF Near
<1>3. CASE q = "created"
  <2>1. r.created = createdSince(c, since)
    BY <1>3 DEF Figure
  <2> QED BY <1>3, <2>1, DatesRead DEF Near
<1>4. CASE q = "delivered"
  <2>1. r.delivered = deliveredSince(c, since)
    BY <1>4 DEF Figure
  <2>2. r.delivered \in Nat /\ r.delivered <= Cardinality(Delivered(c))
    BY <2>1, DatesRead
  <2>3. r.delivered <= Cardinality(Delivered(c)) + n
    BY <1>1, <2>2
  <2> QED BY <1>4, <2>2, <2>3 DEF Near
<1>5. CASE q = "timings"
  <2>1. r.timings = timings(c)
    BY <1>5 DEF Figure
  <2>2. r.timings.count = Cardinality(Delivered(c)) /\ r.timings.hours \in Nat
    BY <2>1, TimingsRead
  <2>3. /\ r.timings.count <= Cardinality(Delivered(c)) + n
        /\ Cardinality(Delivered(c)) <= r.timings.count + n
    BY <1>1, <2>2
  <2> QED BY <1>1, <1>5, <2>2, <2>3 DEF Near
<1> QED BY <1>2, <1>3, <1>4, <1>5 DEF Queries

LEMMA RequestWritten ==
  ASSUME TableInv, TableInv', RequestInv, NEW s \in ShipmentIds,
         shipments' = [shipments EXCEPT ![s] = shipments'[s]],
         shipments'[s] # NoShipment,
         shipments[s] # NoShipment
           => shipments'[s].company = shipments[s].company,
         Written
  PROVE  RequestInv'
<1>1. CASE request = Idle
  BY <1>1 DEF Written, RequestInv, Idle
<1>2. CASE request # Idle
  <2>1. PICK c, since, r, n : c = request.company /\ since = request.since
                                /\ r = request.read /\ n = request.writes
    OBVIOUS
  <2>2. /\ request = [company |-> c, since |-> since, read |-> r, writes |-> n]
        /\ c \in Companies /\ since \in Int /\ n \in Nat
        /\ r = [q \in DOMAIN r |-> r[q]] /\ DOMAIN r \subseteq Queries
    BY <1>2, <2>1 DEF RequestInv, RequestTyped
  <2>3. request' = [company |-> c, since |-> since, read |-> r, writes |-> n + 1]
    BY <1>2, <2>2 DEF Written
  <2>4. RequestTyped'
    BY <2>2, <2>3 DEF RequestTyped
  <2>5. PICK t, d, t2, d2 :
          /\ t = Cardinality(Of(c)) /\ t2 = Cardinality(Of(c))'
          /\ d = Cardinality(Delivered(c)) /\ d2 = Cardinality(Delivered(c))'
    OBVIOUS
  <2>6. /\ t \in Nat /\ d \in Nat /\ t2 \in Nat /\ d2 \in Nat
        /\ t <= t2 /\ t2 <= t + 1 /\ d2 <= d + 1 /\ d <= d2 + 1
    <3>1. t \in Nat /\ d \in Nat
      BY <2>5, OfFinite
    <3>2. /\ t2 \in Nat /\ d2 \in Nat /\ t <= t2 /\ t2 <= t + 1
          /\ d2 <= d + 1 /\ d <= d2 + 1
      BY <2>5, WriteMovesByOne
    <3> QED BY <3>1, <3>2
  <2>7. \A q \in DOMAIN r : /\ Near(q, r, t, d, n)
                            /\ "status" \in DOMAIN r => Agree(q, r, n)
    BY <1>2, <2>1, <2>5 DEF RequestInv
  <2>8. ASSUME NEW q \in DOMAIN r
        PROVE  /\ Near(q, r, t2, d2, n + 1)
               /\ "status" \in DOMAIN r => Agree(q, r, n + 1)
    <3>1. q \in Queries
      BY <2>2
    <3>2. Near(q, r, t2, d2, n + 1)
      BY <2>2, <2>6, <2>7, <3>1, NearMoves
    <3>3. ASSUME "status" \in DOMAIN r PROVE Agree(q, r, n + 1)
      BY <2>2, <2>6, <2>7, <3>1, <3>3, AgreeMoves
    <3> QED BY <3>2, <3>3
  <2>9. (Of(request.company))' = (Of(c))'
          /\ (Delivered(request.company))' = (Delivered(c))'
    BY <2>3 DEF Of, Delivered
  <2>10. request'.read = r /\ request'.writes = n + 1
    BY <2>3
  <2>11. \A q \in DOMAIN request'.read :
          /\ Near(q, request'.read, Cardinality(Of(request.company))',
                  Cardinality(Delivered(request.company))', request'.writes)
          /\ "status" \in DOMAIN request'.read
               => Agree(q, request'.read, request'.writes)
    BY <2>5, <2>8, <2>9, <2>10
  <2> QED BY <2>4, <2>11 DEF RequestInv
<1> QED BY <1>1, <1>2

LEMMA RequestRead ==
  ASSUME TableInv, RequestInv, NEW query \in Queries, Read(query)
  PROVE  RequestInv'
<1>1. PICK c, since, r, n : c = request.company /\ since = request.since
                              /\ r = request.read /\ n = request.writes
  OBVIOUS
<1>2. /\ request = [company |-> c, since |-> since, read |-> r, writes |-> n]
      /\ c \in Companies /\ since \in Int /\ n \in Nat
      /\ r = [q \in DOMAIN r |-> r[q]] /\ DOMAIN r \subseteq Queries
  BY <1>1 DEF RequestInv, RequestTyped, Read
<1>3. PICK r2 : r2 = [q \in DOMAIN r \cup {query} |->
                        IF q = query THEN Figure(q, c, since) ELSE r[q]]
  OBVIOUS
<1>4. /\ query \notin DOMAIN r /\ UNCHANGED shipments
      /\ request' = [company |-> c, since |-> since, read |-> r2, writes |-> n]
  BY <1>2, <1>3 DEF Read
<1>5. /\ DOMAIN r2 = DOMAIN r \cup {query}
      /\ r2 = [q \in DOMAIN r2 |-> r2[q]]
      /\ r2[query] = Figure(query, c, since)
      /\ \A q \in DOMAIN r : r2[q] = r[q]
  BY <1>3, <1>4
<1>6. RequestTyped'
  BY <1>2, <1>4, <1>5 DEF RequestTyped
<1>7. PICK t, d : t = Cardinality(Of(c)) /\ d = Cardinality(Delivered(c))
  OBVIOUS
<1>8. t \in Nat /\ d \in Nat
  BY <1>7, OfFinite
<1>9. \A q \in DOMAIN r : /\ Near(q, r, t, d, n)
                          /\ "status" \in DOMAIN r => Agree(q, r, n)
  BY <1>1, <1>4, <1>7 DEF RequestInv, Read
<1>10. \A q \in DOMAIN r2 : q \in Queries
  BY <1>2, <1>5
<1>11. /\ Near(query, r2, t, d, n)
       /\ \/ StatusTotal(r2.status) = t /\ r2.status["DELIVERED"] = d
          \/ query = "created"
          \/ query = "delivered" /\ r2.delivered <= d
          \/ query = "timings" /\ r2.timings.count = d
  BY <1>2, <1>5, <1>7, NearWhenRead
<1>12. ASSUME NEW q \in DOMAIN r2 PROVE Near(q, r2, t, d, n)
  <2>1. CASE q = query
    BY <1>11, <2>1
  <2>2. CASE q # query
    <3>1. q \in DOMAIN r /\ r2[q] = r[q] /\ Near(q, r, t, d, n)
      BY <1>5, <1>9, <2>2
    <3> QED BY <1>10, <3>1, NearOfSame
  <2> QED BY <2>1, <2>2
<1>13. ASSUME NEW q \in DOMAIN r2, "status" \in DOMAIN r2
       PROVE  Agree(q, r2, n)
  <2>1. q \in Queries /\ Near(q, r2, t, d, n) /\ Near("status", r2, t, d, n)
    BY <1>10, <1>12, <1>13
  <2>2. CASE q = query
    BY <1>8, <1>2, <1>11, <2>1, <2>2, NearAgree
  <2>3. CASE query = "status"
    <3>1. StatusTotal(r2.status) = t /\ r2.status["DELIVERED"] = d
      BY <1>11, <2>3
    <3> QED BY <1>8, <1>2, <2>1, <3>1, NearAgree
  <2>4. CASE q # query /\ query # "status"
    <3>1. q \in DOMAIN r /\ "status" \in DOMAIN r
      BY <1>5, <1>13, <2>4
    <3>2. r2[q] = r[q] /\ r2["status"] = r["status"] /\ Agree(q, r, n)
      BY <1>5, <1>9, <3>1
    <3> QED BY <2>1, <3>2, AgreeOfSame
  <2> QED BY <2>2, <2>3, <2>4
<1>14. (Of(request.company))' = Of(c) /\ (Delivered(request.company))' = Delivered(c)
  BY <1>4 DEF Of, Delivered
<1>15. request'.read = r2 /\ request'.writes = n
  BY <1>4
<1>16. \A q \in DOMAIN request'.read :
         /\ Near(q, request'.read, Cardinality(Of(request.company))',
                 Cardinality(Delivered(request.company))', request'.writes)
         /\ "status" \in DOMAIN request'.read
              => Agree(q, request'.read, request'.writes)
  BY <1>7, <1>12, <1>13, <1>14, <1>15
<1> QED BY <1>6, <1>16 DEF RequestInv

LEMMA RequestNext ==
  ASSUME TableInv, TableInv', RequestInv, [Next]_vars
  PROVE  RequestInv'
<1>1. ASSUME NEW s \in ShipmentIds, NEW c \in Companies, Create(s, c)
      PROVE  RequestInv'
  <2>1. shipments' = [shipments EXCEPT ![s] = shipments'[s]]
    BY <1>1 DEF Create, TableInv
  <2>2. shipments'[s] \in Row
    <3> DEFINE row == [ company |-> c, status |-> "PENDING", driver |-> NoDriver,
                        createdAt |-> clock, assignedAt |-> 0, deliveredAt |-> 0 ]
    <3>1. row \in Row
      BY StatusesAre DEF Row, TableInv
    <3>2. shipments'[s] = row
      BY <1>1 DEF Create, TableInv
    <3> QED BY <3>1, <3>2
  <2>3. shipments[s] = NoShipment /\ Written
    BY <1>1 DEF Create
  <2>4. shipments'[s] # NoShipment
    BY <2>2, NoShipmentAssumption
  <2> QED BY <2>1, <2>3, <2>4, RequestWritten
<1>2. ASSUME NEW s \in ShipmentIds, NEW to \in ShipmentStatus,
             NEW d \in Drivers \cup {NoDriver}, NEW at \in 0 .. clock,
             Change(s, to, d, at)
      PROVE  RequestInv'
  <2>1. shipments[s] \in Row /\ clock \in Nat
    BY <1>2 DEF Change, TableInv
  <2>2. shipments'[s] = [ shipments[s] EXCEPT
                            !.status = to, !.driver = d, !.assignedAt = at,
                            !.deliveredAt = IF to = "DELIVERED" THEN clock ELSE 0 ]
    BY <1>2 DEF Change, TableInv
  <2>3. /\ shipments'[s] \in Row
        /\ shipments'[s].company = shipments[s].company
    <3>1. PICK old, new : old = shipments[s] /\ new = shipments'[s]
      OBVIOUS
    <3>2. at \in Nat /\ old \in Row
            /\ (IF to = "DELIVERED" THEN clock ELSE 0) \in Nat
      BY <2>1, <3>1
    <3>3. new = [ old EXCEPT
                    !.status = to, !.driver = d, !.assignedAt = at,
                    !.deliveredAt = IF to = "DELIVERED" THEN clock ELSE 0 ]
      BY <2>2, <3>1
    <3>4. new \in Row /\ new.company = old.company
      BY <3>2, <3>3 DEF Row
    <3> QED BY <3>1, <3>4
  <2>4. shipments'[s] # NoShipment
    BY <2>3, NoShipmentAssumption
  <2>5. shipments' = [shipments EXCEPT ![s] = shipments'[s]] /\ Written
    BY <1>2 DEF Change, TableInv
  <2> QED BY <2>3, <2>4, <2>5, RequestWritten
<1>3. ASSUME UNCHANGED <<shipments, request>> PROVE RequestInv'
  <2>1. \A c : Of(c)' = Of(c) /\ Delivered(c)' = Delivered(c)
    BY <1>3 DEF Of, Delivered
  <2>2. Of(request.company)' = Of(request.company)
          /\ Delivered(request.company)' = Delivered(request.company)
    BY <1>3 DEF Of, Delivered
  <2> QED BY <1>3, <2>2 DEF RequestInv, RequestTyped
<1>4. ASSUME Tick PROVE RequestInv'
  BY <1>3, <1>4 DEF Tick
<1>5. ASSUME NEW c \in Companies \cup {NoCompany}, AskOverview(c)
      PROVE  RequestInv'
  <2>1. /\ c \in Companies
        /\ request' = [ company |-> c, since |-> daysAgo(Week),
                        read |-> <<>>, writes |-> 0 ]
    BY <1>5 DEF AskOverview
  <2>2. daysAgo(Week) \in Int
    BY AnalyticsAssumption DEF daysAgo, TableInv
  <2>3. PICK empty : empty = <<>>
    OBVIOUS
  <2>4. DOMAIN empty = {} /\ empty = [q \in {} |-> empty[q]]
    BY <2>3
  <2>5. request' = [ company |-> c, since |-> daysAgo(Week),
                     read |-> empty, writes |-> 0 ]
    BY <2>1, <2>3
  <2>6. /\ request'.company = c /\ request'.since = daysAgo(Week)
        /\ request'.read = empty /\ request'.writes = 0
    BY <2>5
  <2>7. RequestTyped'
    BY <2>1, <2>2, <2>4, <2>5, <2>6 DEF RequestTyped
  <2>8. DOMAIN request'.read = {}
    BY <2>4, <2>6
  <2> QED BY <2>7, <2>8 DEF RequestInv
<1>6. ASSUME NEW q \in Queries, Read(q) PROVE RequestInv'
  BY <1>6, RequestRead
<1>7. ASSUME AnswerOverview PROVE RequestInv'
  BY <1>7 DEF AnswerOverview, RequestInv, Idle
<1>8. ASSUME UNCHANGED vars PROVE RequestInv'
  BY <1>3, <1>8 DEF vars
<1> QED BY <1>1, <1>2, <1>4, <1>5, <1>6, <1>7, <1>8 DEF Next

LEMMA InitAnalytics ==
  ASSUME Init
  PROVE  AnalyticsInv
<1>1. Present = {}
  BY DEF Init, Present
<1>2. shipments \in [ShipmentIds -> Row \cup {NoShipment}]
        /\ clock \in Nat \ {0} /\ IsFiniteSet(Present)
  BY <1>1, FS_EmptySet, AnalyticsAssumption DEF Init
<1>3. request = Idle
  BY DEF Init
<1> QED BY <1>1, <1>2, <1>3 DEF AnalyticsInv, TableInv, RequestInv, Idle

(* Whatever is written while it is computed, each answer of an overview is   *)
(* as near to the table, and to the status counts, as there were writes      *)
(* since; and every delivered row has a driver and both of its dates.        *)
THEOREM AnalyticsInvariant == Spec => []AnalyticsInv
<1>1. Init => AnalyticsInv
  BY InitAnalytics
<1>2. AnalyticsInv /\ [Next]_vars => AnalyticsInv'
  BY TableNext, RequestNext DEF AnalyticsInv
<1> QED BY <1>1, <1>2, PTL DEF Spec

-----------------------------------------------------------------------------
(* The figures of one overview agree.                                        *)

LEMMA SummaryIs ==
  ASSUME NEW r, r.status \in [ShipmentStatus -> Nat],
         r.timings.count \in Nat, r.timings.hours \in Nat
  PROVE  LET o == Summary(r)
         IN  /\ o.total = StatusTotal(r.status)
             /\ o.active = r.status["PENDING"] + r.status["ASSIGNED"]
                             + r.status["IN_TRANSIT"]
             /\ o.rate \in 0 .. 1000
             /\ o.rate = 1000 => 2000 * o.active <= o.total
             /\ o.average >= -1
<1> DEFINE o == Summary(r)
<1>1. PICK p, a, i, d, x :
        /\ p = r.status["PENDING"] /\ a = r.status["ASSIGNED"]
        /\ i = r.status["IN_TRANSIT"] /\ d = r.status["DELIVERED"]
        /\ x = r.status["CANCELLED"]
  OBVIOUS
<1>2. p \in Nat /\ a \in Nat /\ i \in Nat /\ d \in Nat /\ x \in Nat
  BY <1>1, StatusesAre
<1>3. PICK t : t = MapThenSumSet(LAMBDA st : r.status[st], ShipmentStatus)
  OBVIOUS
<1>4. t = StatusTotal(r.status) /\ t = p + a + i + d + x
  BY <1>1, <1>3, StatusSum DEF StatusTotal
<1>5. /\ o.total = t
      /\ o.active = t - d - x
      /\ o.rate = IF t - x > 0 THEN RoundedRatio(1000 * d, t - x) ELSE 0
      /\ o.average = averageDeliveryHours(r.timings)
  BY <1>1, <1>3 DEF Summary
<1>6. o.active = p + a + i
  BY <1>2, <1>4, <1>5
<1>7. o.rate \in 0 .. 1000 /\ (o.rate = 1000 => 2000 * o.active <= o.total)
  <2>1. CASE t - x > 0
    <3>1. t - x \in Nat \ {0} /\ d <= t - x /\ (t - x) - d = p + a + i
      BY <1>2, <1>4, <2>1
    <3>2. PICK c \in Nat \ {0} : c = t - x
      BY <3>1
    <3>3. /\ RoundedRatio(1000 * d, c) \in 0 .. 1000
          /\ RoundedRatio(1000 * d, c) = 1000 => 2000 * (c - d) <= c
      <4>1. d <= c
        BY <3>1, <3>2
      <4>2. d \in Nat
        BY <1>2
      <4> HIDE DEF o
      <4>3. RateFact(d, c)
        BY <4>1, <4>2, RateOf
      <4> QED BY <4>3 DEF RateFact
    <3>4. o.rate = RoundedRatio(1000 * d, c)
      BY <1>5, <2>1, <3>2
    <3>5. c <= t /\ c - d = p + a + i /\ c \in Nat /\ t \in Nat
      BY <1>2, <1>4, <3>1, <3>2
    <3> HIDE DEF o
    <3> QED BY <1>2, <1>5, <1>6, <3>3, <3>4, <3>5
  <2>2. CASE ~ (t - x > 0)
    BY <1>5, <2>2
  <2> QED BY <2>1, <2>2
<1>8. o.average >= -1
  <2>1. CASE r.timings.count = 0
    BY <1>5, <2>1 DEF averageDeliveryHours
  <2>2. CASE r.timings.count # 0
    <3>1. RoundedRatio(10 * r.timings.hours, r.timings.count) \in Nat
      BY <2>2, RoundedNat
    <3> QED BY <1>5, <2>2, <3>1 DEF averageDeliveryHours
  <2> QED BY <2>1, <2>2
<1> HIDE DEF o
<1>9. o.active = r.status["PENDING"] + r.status["ASSIGNED"]
                   + r.status["IN_TRANSIT"]
  BY <1>1, <1>6
<1>10. o.total = StatusTotal(r.status)
  BY <1>4, <1>5
<1> QED BY <1>7, <1>8, <1>9, <1>10 DEF o

LEMMA OverviewOfInv ==
  ASSUME AnalyticsInv
  PROVE  OverviewIsConsistent
<1> SUFFICES ASSUME Answered PROVE OverviewIsConsistent
  BY DEF OverviewIsConsistent
<1>1. PICK r, n, t, d :
        /\ r = request.read /\ n = request.writes
        /\ t = Cardinality(Of(request.company))
        /\ d = Cardinality(Delivered(request.company))
  OBVIOUS
<1>2. /\ DOMAIN r = Queries /\ n \in Nat
      /\ \A q \in Queries : Near(q, r, t, d, n) /\ Agree(q, r, n)
  BY <1>1 DEF AnalyticsInv, RequestInv, RequestTyped, Answered, Queries
<1>3. /\ Near("status", r, t, d, n) /\ Near("created", r, t, d, n)
      /\ Near("delivered", r, t, d, n) /\ Near("timings", r, t, d, n)
      /\ Agree("created", r, n) /\ Agree("delivered", r, n)
      /\ Agree("timings", r, n)
  BY <1>2 DEF Queries
<1>4. /\ r.status \in [ShipmentStatus -> Nat]
      /\ r.timings.count \in Nat /\ r.timings.hours \in Nat
  BY <1>3 DEF Near
<1>5. PICK o : o = Summary(r)
  OBVIOUS
<1>6. /\ o.total = StatusTotal(r.status)
      /\ o.active = r.status["PENDING"] + r.status["ASSIGNED"]
                      + r.status["IN_TRANSIT"]
      /\ o.rate \in 0 .. 1000
      /\ o.rate = 1000 => 2000 * o.active <= o.total
      /\ o.average >= -1
  BY <1>4, <1>5, SummaryIs
<1>7. /\ r.created <= o.total + n
      /\ r.delivered <= r.status["DELIVERED"] + n
  BY <1>3, <1>6 DEF Agree
<1>8. r.timings.count \in r.status["DELIVERED"] - n .. r.status["DELIVERED"] + n
  <2>1. /\ r.timings.count <= r.status["DELIVERED"] + n
        /\ r.status["DELIVERED"] <= r.timings.count + n
    BY <1>3 DEF Agree
  <2>2. r.status["DELIVERED"] \in Nat
    BY <1>4, StatusesAre
  <2> QED BY <1>2, <1>4, <2>1, <2>2
<1> QED BY <1>1, <1>5, <1>6, <1>7, <1>8 DEF OverviewIsConsistent

(* The figures of one overview agree with one another, whatever is written   *)
(* between its queries and in whichever order they are answered.             *)
THEOREM OverviewFiguresAgree == Spec => []OverviewIsConsistent
<1>1. AnalyticsInv => OverviewIsConsistent
  BY OverviewOfInv
<1> QED BY <1>1, AnalyticsInvariant, PTL

-----------------------------------------------------------------------------
(* The trend.                                                                *)

OnDay(X, date, day) == {s \in X : DayOf(date[s]) = day}

From(X, date, since) == {s \in X : date[s] >= since}

(* What is counted by the day adds up to what is dated on those days.         *)
Within(X, date, days) == {s \in X : DayOf(date[s]) \in days}

LEMMA DaysAddUp ==
  ASSUME NEW X, IsFiniteSet(X), NEW date, NEW days, IsFiniteSet(days),
         NEW w, \A day \in days : w[day] = Cardinality(OnDay(X, date, day))
  PROVE  \E g : /\ IsSumOf(g, w, days)
                /\ \A f : IsSumOf(f, w, days) => f[days] = g[days]
                /\ g[days] = Cardinality(Within(X, date, days))
<1> DEFINE A == [day \in days |-> OnDay(X, date, day)]
<1>1. \A day \in days : A[day] \subseteq X
  BY DEF OnDay
<1>2. \A day \in days : w[day] = Cardinality(A[day])
  OBVIOUS
<1>3. \A x, y \in days : x # y => A[x] \cap A[y] = {}
  BY DEF OnDay
<1>4. UNION {A[day] : day \in days} = Within(X, date, days)
  BY DEF OnDay, Within
<1> HIDE DEF A
<1>5. \A day \in days : IsFiniteSet(A[day])
  BY <1>1, FS_Subset
<1>6. \E g : /\ IsSumOf(g, w, days)
             /\ \A f : IsSumOf(f, w, days) => f[days] = g[days]
             /\ g[days] = Cardinality(UNION {A[day] : day \in days})
  BY <1>2, <1>3, <1>5, SumOfDisjoint
<1> QED BY <1>4, <1>6

(* Counted by the day, what is dated since a moment is what the days from    *)
(* that moment's to today count, but for some of the first day.              *)
Dated(X, date) == \A s \in X : date[s] \in Int /\ date[s] <= clock

Counts(w, X, date, days) ==
  \A day \in days : w[day] = Cardinality(OnDay(X, date, day))

Covers(g, w, X, date, since, days) ==
  /\ IsSumOf(g, w, days)
  /\ \A f : IsSumOf(f, w, days) => f[days] = g[days]
  /\ Cardinality(From(X, date, since))
       \in g[days] - w[DayOf(since)] .. g[days]

LEMMA DaysCount ==
  ASSUME clock \in Int, NEW since \in Int, since <= clock,
         NEW X, IsFiniteSet(X), NEW date, Dated(X, date),
         NEW days, days = DayOf(since) .. DayOf(clock),
         NEW w, Counts(w, X, date, days)
  PROVE  \E g : Covers(g, w, X, date, since, days)
<1> DEFINE recent == From(X, date, since)
           covered == Within(X, date, days)
           first == OnDay(X, date, DayOf(since))
<1>1. /\ DayOf(since) \in Int /\ DayOf(clock) \in Int
      /\ DayOf(since) <= DayOf(clock) /\ DayOf(since) \in days
  BY DaysAreOrdered
<1>2. \A s \in X : DayOf(date[s]) \in Int /\ DayOf(date[s]) <= DayOf(clock)
  BY DaysAreOrdered DEF Dated
<1>3. \A s \in X : date[s] >= since => DayOf(date[s]) >= DayOf(since)
  BY <1>1, <1>2, DaysAreOrdered DEF Dated
<1>4. \A s \in X : date[s] < since => DayOf(date[s]) <= DayOf(since)
  BY <1>1, <1>2, DaysAreOrdered DEF Dated
<1>5. IsFiniteSet(days)
  BY <1>1, FS_Interval
<1>6. recent \subseteq covered
  BY <1>1, <1>2, <1>3 DEF From, Within
<1>7. covered \subseteq first \cup recent
  <2>1. ASSUME NEW s \in covered, s \notin recent PROVE s \in first
    <3>1. s \in X /\ DayOf(date[s]) \in days /\ date[s] < since
      BY <2>1 DEF Within, From, Dated
    <3>2. DayOf(date[s]) <= DayOf(since) /\ DayOf(date[s]) >= DayOf(since)
      BY <1>1, <1>4, <3>1
    <3>3. DayOf(date[s]) = DayOf(since)
      BY <1>1, <1>2, <3>1, <3>2
    <3> QED BY <3>1, <3>3 DEF OnDay
  <2> QED BY <2>1
<1>8. covered \subseteq X /\ recent \subseteq X /\ first \subseteq X
  BY DEF OnDay, From, Within
<1>9. PICK g : /\ IsSumOf(g, w, days)
               /\ \A f : IsSumOf(f, w, days) => f[days] = g[days]
               /\ g[days] = Cardinality(covered)
  BY <1>5, DaysAddUp, ZenonT(60) DEF Counts
<1>10. w[DayOf(since)] = Cardinality(first)
  BY <1>1 DEF Counts
<1> HIDE DEF covered, recent, first
<1>13. IsFiniteSet(first) /\ Cardinality(first) \in Nat
  BY <1>8, PartOf
<1>14. /\ IsFiniteSet(covered) /\ Cardinality(covered) \in Nat
       /\ IsFiniteSet(recent) /\ Cardinality(recent) \in Nat
       /\ Cardinality(recent) <= Cardinality(covered)
  BY <1>6, <1>8, PartOf
<1>15. Cardinality(covered) <= Cardinality(first) + Cardinality(recent)
  <2>1. IsFiniteSet(first \cup recent)
          /\ Cardinality(first \cup recent)
               = Cardinality(first) + Cardinality(recent)
                   - Cardinality(first \cap recent)
    BY <1>13, <1>14, FS_Union
  <2>2. Cardinality(first \cap recent) \in Nat
    BY <1>13, PartOf
  <2>3. Cardinality(covered) <= Cardinality(first \cup recent)
    BY <1>7, <2>1, PartOf
  <2> QED BY <1>13, <1>14, <2>1, <2>2, <2>3
<1>16. Cardinality(recent) \in g[days] - w[DayOf(since)] .. g[days]
  BY <1>9, <1>10, <1>13, <1>14, <1>15
<1> QED BY <1>9, <1>16 DEF recent, Covers

LEMMA TrendOfTable ==
  ASSUME TableInv, NEW c, NEW since \in Int, since <= clock
  PROVE  LET trend == getShipmentTrend(c, since)
             first == trend[DayOf(since)]
             created == MapThenSumSet(LAMBDA day : trend[day].created,
                                      DOMAIN trend)
             delivered == MapThenSumSet(LAMBDA day : trend[day].delivered,
                                        DOMAIN trend)
         IN  /\ createdSince(c, since) \in created - first.created .. created
             /\ deliveredSince(c, since)
                  \in delivered - first.delivered .. delivered
<1>1. PICK trend, days :
        /\ trend = getShipmentTrend(c, since)
        /\ days = DayOf(since) .. DayOf(clock)
  OBVIOUS
<1>2. clock \in Int
  BY DEF TableInv
<1>3. DayOf(since) \in days
  BY <1>1, <1>2, DaysAreOrdered
<1>4. /\ IsFiniteSet(Of(c)) /\ IsFiniteSet(Delivered(c))
      /\ Delivered(c) \subseteq Of(c) /\ Of(c) \subseteq ShipmentIds
  BY OfFinite DEF Of
<1>5. \A s \in Of(c) :
        /\ shipments[s].createdAt \in Nat /\ shipments[s].createdAt <= clock
        /\ shipments[s].createdAt # 0
        /\ shipments[s].deliveredAt \in Nat /\ shipments[s].deliveredAt <= clock
        /\ shipments[s].status = "DELIVERED" => shipments[s].deliveredAt # 0
  BY RowsAreTyped DEF RowFact
<1>6. \A s \in Delivered(c) : shipments[s].deliveredAt # 0
  BY <1>5 DEF Delivered
<1>7. DOMAIN trend = days
  BY <1>1 DEF getShipmentTrend
<1>8. PICK made, done : /\ made = [s \in ShipmentIds |-> shipments[s].createdAt]
                        /\ done = [s \in ShipmentIds |-> shipments[s].deliveredAt]
  OBVIOUS
<1>9. \A day \in days :
        /\ trend[day].created = Cardinality(OnDay(Of(c), made, day))
        /\ trend[day].delivered
             = Cardinality(OnDay(Delivered(c), done, day))
  <2> SUFFICES ASSUME NEW day \in days
               PROVE  /\ trend[day].created
                           = Cardinality(OnDay(Of(c), made, day))
                      /\ trend[day].delivered
                           = Cardinality(OnDay(Delivered(c), done, day))
    OBVIOUS
  <2>1. OnDay(Of(c), made, day)
          = {s \in Of(c) : shipments[s].createdAt # 0
                             /\ DayOf(shipments[s].createdAt) = day}
    BY <1>4, <1>5, <1>8 DEF OnDay
  <2>2. OnDay(Delivered(c), done, day)
          = {s \in Delivered(c) : shipments[s].deliveredAt # 0
                                    /\ DayOf(shipments[s].deliveredAt) = day}
    BY <1>4, <1>6, <1>8 DEF OnDay
  <2>3. /\ trend[day].created
             = Cardinality({s \in Of(c) : shipments[s].createdAt # 0
                                /\ DayOf(shipments[s].createdAt) = day})
        /\ trend[day].delivered
             = Cardinality({s \in Delivered(c) : shipments[s].deliveredAt # 0
                                /\ DayOf(shipments[s].deliveredAt) = day})
    BY <1>1 DEF getShipmentTrend
  <2> QED BY <2>1, <2>2, <2>3
<1>10. PICK w, v : /\ w = [day \in days |-> trend[day].created]
                   /\ v = [day \in days |-> trend[day].delivered]
  OBVIOUS
<1>11. PICK R, D : /\ R = From(Of(c), made, since)
                   /\ D = From(Delivered(c), done, since)
  OBVIOUS
<1>12. createdSince(c, since) = Cardinality(R)
  <2>1. R = {s \in Of(c) : shipments[s].createdAt >= since}
    BY <1>4, <1>8, <1>11 DEF From
  <2> QED BY <2>1 DEF createdSince
<1>13. deliveredSince(c, since) = Cardinality(D)
  <2>1. D = {s \in Delivered(c) : shipments[s].deliveredAt >= since}
    BY <1>4, <1>8, <1>11 DEF From
  <2> QED BY <2>1 DEF deliveredSince
<1>14. \A s \in Of(c) : made[s] \in Int /\ made[s] <= clock
  BY <1>4, <1>5, <1>8
<1>15. \A s \in Delivered(c) : done[s] \in Int /\ done[s] <= clock
  BY <1>4, <1>5, <1>8
<1>16. \A day \in days :
         /\ w[day] = Cardinality(OnDay(Of(c), made, day))
         /\ v[day] = Cardinality(OnDay(Delivered(c), done, day))
  BY <1>9, <1>10
<1>17. PICK g : /\ IsSumOf(g, w, days)
                /\ \A f : IsSumOf(f, w, days) => f[days] = g[days]
                /\ Cardinality(R) \in g[days] - w[DayOf(since)] .. g[days]
  <2>1. days = DayOf(since) .. DayOf(clock) /\ IsFiniteSet(Of(c))
    BY <1>1, <1>4
  <2>2. Dated(Of(c), made) /\ Counts(w, Of(c), made, days)
    BY <1>14, <1>16 DEF Dated, Counts
  <2>3. \E g : Covers(g, w, Of(c), made, since, days)
    BY <1>2, <2>1, <2>2, DaysCount
  <2> QED BY <1>11, <2>3 DEF Covers
<1>18. PICK h : /\ IsSumOf(h, v, days)
                /\ \A f : IsSumOf(f, v, days) => f[days] = h[days]
                /\ Cardinality(D) \in h[days] - v[DayOf(since)] .. h[days]
  <2>1. days = DayOf(since) .. DayOf(clock) /\ IsFiniteSet(Delivered(c))
    BY <1>1, <1>4
  <2>2. Dated(Delivered(c), done) /\ Counts(v, Delivered(c), done, days)
    BY <1>15, <1>16 DEF Dated, Counts
  <2>3. \E h : Covers(h, v, Delivered(c), done, since, days)
    BY <1>2, <2>1, <2>2, DaysCount
  <2> QED BY <1>11, <2>3 DEF Covers
<1>19. MapThenSumSet(LAMBDA day : trend[day].created, days) = g[days]
  BY <1>10, <1>17, SumOfCreated
<1>20. MapThenSumSet(LAMBDA day : trend[day].delivered, days) = h[days]
  BY <1>10, <1>18, SumOfDelivered
<1>21. /\ w[DayOf(since)] = trend[DayOf(since)].created
       /\ v[DayOf(since)] = trend[DayOf(since)].delivered
  BY <1>3, <1>10
<1>22. /\ createdSince(c, since) \in
            MapThenSumSet(LAMBDA day : trend[day].created, DOMAIN trend)
              - trend[DayOf(since)].created
            .. MapThenSumSet(LAMBDA day : trend[day].created, DOMAIN trend)
       /\ deliveredSince(c, since) \in
            MapThenSumSet(LAMBDA day : trend[day].delivered, DOMAIN trend)
              - trend[DayOf(since)].delivered
            .. MapThenSumSet(LAMBDA day : trend[day].delivered, DOMAIN trend)
  BY <1>7, <1>12, <1>13, <1>17, <1>18, <1>19, <1>20, <1>21
<1> QED BY <1>1, <1>22

LEMMA TrendOfInv ==
  ASSUME AnalyticsInv
  PROVE  TrendCoversTheWeek
<1>1. TableInv
  BY DEF AnalyticsInv
<1>2. Week * HoursPerDay \in Nat
  BY AnalyticsAssumption
<1>3. \A since \in {daysAgo(Week), daysAgo(Week) - 1} :
        since \in Int /\ since <= clock
  <2>1. PICK week \in Nat : week = Week * HoursPerDay
    BY <1>2
  <2>2. daysAgo(Week) = clock - week
    BY <2>1 DEF daysAgo
  <2>3. clock \in Nat
    BY DEF AnalyticsInv, TableInv
  <2> QED BY <2>2, <2>3
<1> QED BY <1>1, <1>3, TrendOfTable DEF TrendCoversTheWeek

(* The overview and the trend count the same shipments of the week, for any  *)
(* table and at any hour.                                                    *)
THEOREM TheTrendCoversTheWeek == Spec => []TrendCoversTheWeek
<1>1. AnalyticsInv => TrendCoversTheWeek
  BY TrendOfInv
<1> QED BY <1>1, AnalyticsInvariant, PTL

-----------------------------------------------------------------------------
(* The ranking.                                                              *)

By(c, d) == {s \in Delivered(c) : shipments[s].driver = d}

Ranked(c) == {d \in Drivers : Deliveries(c, d) > 0}

LEMMA DeliveriesOf ==
  ASSUME TableInv, NEW c, NEW d
  PROVE  /\ Deliveries(c, d) = Cardinality(By(c, d))
         /\ IsFiniteSet(By(c, d)) /\ By(c, d) \subseteq Delivered(c)
         /\ Deliveries(c, d) \in Nat
         /\ Deliveries(c, d) > 0 <=> By(c, d) # {}
<1>1. By(c, d) \subseteq Delivered(c)
  BY DEF By
<1>2. Deliveries(c, d) = Cardinality(By(c, d))
  BY DEF Deliveries, By
<1>3. IsFiniteSet(By(c, d)) /\ Cardinality(By(c, d)) \in Nat
  BY <1>1, OfFinite, PartOf
<1>4. Cardinality(By(c, d)) = 0 <=> By(c, d) = {}
  BY <1>3, FS_EmptySet
<1> QED BY <1>1, <1>2, <1>3, <1>4

LEMMA RankedFinite ==
  ASSUME TableInv, NEW c
  PROVE  IsFiniteSet(Ranked(c))
<1> DEFINE F == [s \in Delivered(c) |-> shipments[s].driver]
<1>1. Ranked(c) \subseteq {F[s] : s \in Delivered(c)}
  <2>1. ASSUME NEW d \in Ranked(c) PROVE \E s \in Delivered(c) : F[s] = d
    <3>1. By(c, d) # {}
      BY DeliveriesOf DEF Ranked
    <3> QED BY <3>1 DEF By
  <2> QED BY <2>1
<1> HIDE DEF F
<1>2. IsFiniteSet({F[s] : s \in Delivered(c)})
  BY OfFinite, ImageIsFinite
<1> QED BY <1>1, <1>2, FS_Subset

(* A sequence that lists each element of a finite set once lists them all.   *)
LEMMA ListedOnce ==
  ASSUME NEW D, IsFiniteSet(D), NEW p \in SetToSeqs(D)
  PROVE  /\ Cardinality(D) \in Nat /\ p \in [1 .. Cardinality(D) -> D]
         /\ IsFiniteSet(1 .. Cardinality(D))
         /\ \A i, j \in 1 .. Cardinality(D) : p[i] = p[j] => i = j
         /\ \A d \in D : \E i \in 1 .. Cardinality(D) : p[i] = d
<1>1. PICK k \in Nat : k = Cardinality(D)
  BY FS_CardinalityType
<1>2. /\ p \in [1 .. k -> D]
      /\ \A i, j \in 1 .. k : p[i] = p[j] => i = j
  BY <1>1 DEF SetToSeqs
<1>3. p \in Injection(1 .. k, D)
  BY <1>2 DEF Injection, IsInjective
<1>4. IsFiniteSet(1 .. k) /\ Cardinality(1 .. k) = k
  BY FS_Interval
<1>5. p \in Surjection(1 .. k, D)
  BY <1>1, <1>3, <1>4, FS_Injection
<1>6. \A d \in D : \E i \in 1 .. k : p[i] = d
  BY <1>5 DEF Surjection
<1> QED BY <1>1, <1>2, <1>4, <1>6

(* The counts of a list of different drivers add up to the deliveries that   *)
(* have one of them.                                                         *)
WithDriver(c, listed) == {s \in Delivered(c) : shipments[s].driver \in listed}

Listed(p, S) == {p[i] : i \in S}

CountsOf(w, c, p, S) ==
  /\ \A i, j \in S : p[i] = p[j] => i = j
  /\ \A i \in S : w[i] = Deliveries(c, p[i])

LEMMA ListAddsUp ==
  ASSUME TableInv, NEW c, NEW S, IsFiniteSet(S), NEW p, NEW w,
         CountsOf(w, c, p, S)
  PROVE  \E g : /\ IsSumOf(g, w, S)
                /\ \A f : IsSumOf(f, w, S) => f[S] = g[S]
                /\ g[S] = Cardinality(WithDriver(c, Listed(p, S)))
<1> DEFINE A == [i \in S |-> By(c, p[i])]
<1>1. \A i \in S : IsFiniteSet(A[i])
  BY DeliveriesOf
<1>2. \A i \in S : w[i] = Cardinality(A[i])
  BY DeliveriesOf DEF CountsOf
<1>3. \A x, y \in S : x # y => A[x] \cap A[y] = {}
  BY DEF By, CountsOf
<1>4. UNION {A[i] : i \in S} = WithDriver(c, Listed(p, S))
  BY DEF By, WithDriver, Listed
<1> HIDE DEF A
<1>5. \E g : /\ IsSumOf(g, w, S)
             /\ \A f : IsSumOf(f, w, S) => f[S] = g[S]
             /\ g[S] = Cardinality(UNION {A[i] : i \in S})
  BY <1>1, <1>2, <1>3, SumOfDisjoint, SMTT(40)
<1> QED BY <1>4, <1>5

(* What a ranking is: some of the drivers who have delivered, each once, and *)
(* none who delivered less than one left out.                                *)
LEMMA RankingIs ==
  ASSUME NEW c, NEW ranking \in getDriverPerformance(c)
  PROVE  \E D \in SUBSET Ranked(c) : \E p \in SetToSeqs(D) :
           /\ \A d \in D, e \in Ranked(c) \ D :
                Deliveries(c, d) >= Deliveries(c, e)
           /\ ranking = [i \in DOMAIN p |->
                           [driver |-> p[i], deliveries |-> Deliveries(c, p[i])]]
<1> DEFINE size == Min({TopDrivers, Cardinality(Ranked(c))})
           best(D) == \A d \in D, e \in Ranked(c) \ D :
                        Deliveries(c, d) >= Deliveries(c, e)
           row(p) == [i \in DOMAIN p |->
                        [driver |-> p[i], deliveries |-> Deliveries(c, p[i])]]
           sorted(p) == \A i, j \in DOMAIN p :
                          i < j => Deliveries(c, p[i]) >= Deliveries(c, p[j])
<1>1. getDriverPerformance(c)
        = { row(p) : p \in { q \in UNION {SetToSeqs(D) : D \in
                               {D \in SUBSET Ranked(c) :
                                  Cardinality(D) = size /\ best(D)}} :
                             sorted(q) } }
  BY DEF getDriverPerformance, Ranked
<1> HIDE DEF size, best, row, sorted
<1>2. PICK p : ranking = row(p)
                 /\ p \in UNION {SetToSeqs(D) : D \in
                                   {D \in SUBSET Ranked(c) :
                                      Cardinality(D) = size /\ best(D)}}
  BY <1>1
<1>3. PICK D \in SUBSET Ranked(c) : p \in SetToSeqs(D) /\ best(D)
  BY <1>2
<1> QED BY <1>2, <1>3 DEF best, row

LEMMA RankingOfTable ==
  ASSUME TableInv, NEW c, NEW ranking \in getDriverPerformance(c)
  PROVE  LET sum == MapThenSumSet(LAMBDA i : ranking[i].deliveries,
                                  DOMAIN ranking)
             listed == {ranking[i].driver : i \in DOMAIN ranking}
         IN  /\ sum <= Cardinality(Delivered(c))
             /\ {d \in Drivers : Deliveries(c, d) > 0} \subseteq listed
                  => sum = Cardinality(Delivered(c))
             /\ \A d \in Drivers \ listed, i \in DOMAIN ranking :
                  Deliveries(c, d) <= ranking[i].deliveries
<1>0. PICK D \in SUBSET Ranked(c) : \E p \in SetToSeqs(D) :
        /\ \A d \in D, e \in Ranked(c) \ D : Deliveries(c, d) >= Deliveries(c, e)
        /\ ranking = [i \in DOMAIN p |->
                        [driver |-> p[i], deliveries |-> Deliveries(c, p[i])]]
  BY RankingIs
<1>1. PICK p \in SetToSeqs(D) :
        /\ \A d \in D, e \in Ranked(c) \ D : Deliveries(c, d) >= Deliveries(c, e)
        /\ ranking = [i \in DOMAIN p |->
                        [driver |-> p[i], deliveries |-> Deliveries(c, p[i])]]
  BY <1>0
<1>2. IsFiniteSet(D)
  BY RankedFinite, FS_Subset
<1>3. PICK S : S = 1 .. Cardinality(D)
  OBVIOUS
<1>4. /\ p \in [S -> D] /\ IsFiniteSet(S)
      /\ \A i, j \in S : p[i] = p[j] => i = j
      /\ \A d \in D : \E i \in S : p[i] = d
  BY <1>2, <1>3, ListedOnce
<1>5. PICK listed : listed = {p[i] : i \in S}
  OBVIOUS
<1>6. /\ DOMAIN ranking = S
      /\ \A i \in S : /\ ranking[i].driver = p[i]
                      /\ ranking[i].deliveries = Deliveries(c, p[i])
  BY <1>1, <1>4
<1>7. {ranking[i].driver : i \in DOMAIN ranking} = listed
  BY <1>5, <1>6
<1>8. PICK w : w = [i \in S |-> ranking[i].deliveries]
  OBVIOUS
<1>9. \A i \in S : w[i] = Deliveries(c, p[i])
  BY <1>6, <1>8
<1>10. PICK g : /\ IsSumOf(g, w, S)
                /\ \A f : IsSumOf(f, w, S) => f[S] = g[S]
                /\ g[S] = Cardinality(WithDriver(c, listed))
  <2>1. IsFiniteSet(S) /\ CountsOf(w, c, p, S)
    BY <1>4, <1>9 DEF CountsOf
  <2>2. \E g : /\ IsSumOf(g, w, S)
              /\ \A f : IsSumOf(f, w, S) => f[S] = g[S]
              /\ g[S] = Cardinality(WithDriver(c, Listed(p, S)))
    BY <2>1, ListAddsUp
  <2>3. listed = Listed(p, S)
    BY <1>5 DEF Listed
  <2> QED BY <2>2, <2>3
<1>11. MapThenSumSet(LAMBDA i : ranking[i].deliveries, S) = g[S]
  BY <1>8, <1>10, SumOfDeliveries
<1>12. PICK sum : sum = MapThenSumSet(LAMBDA i : ranking[i].deliveries,
                                      DOMAIN ranking)
  OBVIOUS
<1>13. sum = Cardinality(WithDriver(c, listed))
  BY <1>5, <1>6, <1>10, <1>11, <1>12
<1>14. sum <= Cardinality(Delivered(c))
  <2>1. WithDriver(c, listed) \subseteq Delivered(c)
    BY DEF WithDriver
  <2> QED BY <1>13, <2>1, OfFinite, PartOf
<1>15. ASSUME {d \in Drivers : Deliveries(c, d) > 0} \subseteq listed
       PROVE  sum = Cardinality(Delivered(c))
  <2>1. ASSUME NEW s \in Delivered(c) PROVE shipments[s].driver \in listed
    <3>1. s \in Of(c) /\ shipments[s].status = "DELIVERED"
      BY DEF Delivered
    <3>2. shipments[s].driver \in Drivers
      BY <3>1, RowsAreTyped DEF RowFact
    <3>3. By(c, shipments[s].driver) # {}
      BY DEF By
    <3>4. Deliveries(c, shipments[s].driver) > 0
      BY <3>3, DeliveriesOf
    <3> QED BY <1>15, <3>2, <3>4
  <2>2. WithDriver(c, listed) = Delivered(c)
    BY <2>1 DEF WithDriver
  <2> QED BY <1>13, <2>2
<1>16. ASSUME NEW d \in Drivers \ listed, NEW i \in S
       PROVE  Deliveries(c, d) <= ranking[i].deliveries
  <2>1. ranking[i].deliveries = Deliveries(c, p[i]) /\ p[i] \in D
    BY <1>4, <1>6
  <2>2. Deliveries(c, d) \in Nat /\ Deliveries(c, p[i]) \in Nat
    BY DeliveriesOf
  <2>3. d \notin D
    BY <1>4, <1>5
  <2>4. CASE d \in Ranked(c)
    <3>1. Deliveries(c, p[i]) >= Deliveries(c, d)
      BY <1>1, <2>1, <2>3, <2>4
    <3> QED BY <2>1, <2>2, <3>1
  <2>5. CASE d \notin Ranked(c)
    <3>1. Deliveries(c, d) = 0
      BY <2>2, <2>5 DEF Ranked
    <3> QED BY <2>1, <2>2, <3>1
  <2> QED BY <2>4, <2>5
<1> QED BY <1>6, <1>7, <1>12, <1>14, <1>15, <1>16

LEMMA RankingOfInv ==
  ASSUME AnalyticsInv
  PROVE  RankingCountsTheDeliveries
<1>1. TableInv
  BY DEF AnalyticsInv
<1> QED BY <1>1, RankingOfTable DEF RankingCountsTheDeliveries

(* A ranking counts each delivery at most once, all of them unless a driver  *)
(* is left out, and leaves out nobody who delivered more than one it lists.  *)
THEOREM TheRankingCountsTheDeliveries == Spec => []RankingCountsTheDeliveries
<1>1. AnalyticsInv => RankingCountsTheDeliveries
  BY RankingOfInv
<1> QED BY <1>1, AnalyticsInvariant, PTL
=============================================================================
