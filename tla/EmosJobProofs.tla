--------------------------- MODULE EmosJobProofs ---------------------------
(***************************************************************************)
(* Proofs about the eMOS job, for every set of connections, samples,       *)
(* thresholds and ICE failures, and any number of jobs, errors and         *)
(* statistics that arrive while a job runs.                                *)
(***************************************************************************)
EXTENDS EmosJob, WellFoundedInduction, FiniteSetTheorems, TLAPS

-----------------------------------------------------------------------------
(* A non-empty set of numbers has a least one. *)
LEMMA Least ==
  ASSUME NEW S \in SUBSET Nat, S # {}
  PROVE  \E d \in S : \A e \in S : d <= e
<1> DEFINE R == OpToRel(<, Nat)
<1>1. IsWellFoundedOn(R, Nat)  BY NatLessThanWellFounded, Zenon
<1>2. PICK d \in S : \A e \in S : ~(<<e, d>> \in R)
  <2> HIDE DEF R
  <2> QED  BY <1>1, WFMin, Zenon
<1>3. ASSUME NEW e \in S PROVE d <= e
  <2>1. ~(e < d)
    <3>1. d \in Nat /\ e \in Nat  OBVIOUS
    <3>2. e < d => <<e, d>> \in R  BY <3>1 DEF OpToRel
    <3> QED  BY <1>2, <3>2, Zenon
  <2> QED  BY <2>1
<1> QED  BY <1>3

-----------------------------------------------------------------------------
(* The medians and the score *)

(* A function on a finite set has a greatest value. *)
LEMMA Greatest ==
  ASSUME NEW f
  PROVE  \A n \in Nat : \A D :
           IsFiniteSet(D) /\ Cardinality(D) = n /\ D # {} /\ (\A x \in D : f[x] \in Nat)
           => \E x \in D : \A y \in D : f[y] <= f[x]
<1> DEFINE P(D) == \E x \in D : \A y \in D : f[y] <= f[x]
           Q(n) == \A D : IsFiniteSet(D) /\ Cardinality(D) = n /\ D # {}
                          /\ (\A x \in D : f[x] \in Nat) => P(D)
           Not == {n \in Nat : ~Q(n)}
<1> SUFFICES ASSUME Not # {} PROVE FALSE  OBVIOUS
<1>0. Not \in SUBSET Nat  OBVIOUS
<1>1. PICK n \in Not : \A m \in Not : n <= m
  <2> HIDE DEF Not
  <2> QED  BY <1>0, Least, Zenon
<1>2. n \in Nat /\ ~Q(n)  OBVIOUS
<1>3. PICK D : IsFiniteSet(D) /\ Cardinality(D) = n /\ D # {} /\ (\A x \in D : f[x] \in Nat) /\ ~P(D)
  BY <1>2
<1>4. PICK d \in D : TRUE  BY <1>3
<1> DEFINE E == D \ {d}
<1>5. IsFiniteSet(E) /\ Cardinality(E) = n - 1  BY Zenon, <1>3, <1>4, FS_RemoveElement
<1>6. CASE E = {}
  <2>1. \A y \in D : y = d  BY <1>6
  <2> QED  BY <1>3, <1>4, <2>1
<1>7. CASE E # {}
  <2>1. n - 1 \in Nat  BY <1>5, FS_CardinalityType
  <2>2. n - 1 \notin Not  BY <1>1, <1>2, <2>1
  <2>3. Q(n - 1)  BY <2>1, <2>2
  <2>4. \A x \in E : f[x] \in Nat /\ x \in D  BY <1>3
  <2>5. PICK e \in E : \A y \in E : f[y] <= f[e]
    <3> HIDE DEF E
    <3> QED  BY <1>5, <1>7, <2>3, <2>4
  <2>6. f[d] \in Nat /\ f[e] \in Nat /\ e \in D /\ \A y \in D : y = d \/ y \in E  BY <1>3, <1>4, <2>4
  <2>7. CASE f[d] <= f[e]  BY Zenon, <1>3, <2>5, <2>6, <2>7
  <2>8. CASE f[e] <= f[d]
    <3>1. \A y \in D : f[y] <= f[d]  BY <1>3, <2>4, <2>5, <2>6, <2>8
    <3> QED  BY Zenon, <1>3, <1>4, <3>1
  <2> QED  BY <2>6, <2>7, <2>8
<1> QED  BY <1>6, <1>7

(* v has fewer than k values below it, and at least k up to it. *)
IsRank(f, k, v) ==
  /\ Cardinality({x \in DOMAIN f : f[x] < v}) < k
  /\ Cardinality({x \in DOMAIN f : f[x] <= v}) >= k

(* The value Ranked takes from a finite table of numbers has that rank. *)
LEMMA RankIs ==
  ASSUME NEW f, IsFiniteSet(DOMAIN f), \A x \in DOMAIN f : f[x] \in Nat,
         NEW k \in 1..Cardinality(DOMAIN f)
  PROVE  Ranked(f, k) \in Nat /\ IsRank(f, k, Ranked(f, k))
<1> DEFINE D == DOMAIN f
           UpTo(v) == {x \in D : f[x] <= v}
           Below(v) == {x \in D : f[x] < v}
           Values == {f[x] : x \in D}
           Good == {v \in Values : Cardinality(UpTo(v)) >= k}
<1>0. Cardinality(D) \in Nat /\ k \in Nat /\ 1 <= k /\ k <= Cardinality(D)
  BY FS_CardinalityType
<1>1. D # {}  BY <1>0, FS_EmptySet
<1>2. Values \in SUBSET Nat  OBVIOUS
<1>3. \A v : /\ IsFiniteSet(UpTo(v)) /\ Cardinality(UpTo(v)) \in Nat
             /\ IsFiniteSet(Below(v)) /\ Cardinality(Below(v)) \in Nat
  <2> TAKE v
  <2>1. UpTo(v) \in SUBSET D /\ Below(v) \in SUBSET D  OBVIOUS
  <2> HIDE DEF UpTo, Below, D
  <2>2. IsFiniteSet(D)  BY DEF D
  <2>3. IsFiniteSet(UpTo(v)) /\ IsFiniteSet(Below(v))  BY Zenon, <2>1, <2>2, FS_Subset
  <2> QED  BY <2>3, FS_CardinalityType
<1>4. PICK top \in D : \A y \in D : f[y] <= f[top]
  <2> HIDE DEF D
  <2> QED  BY Zenon, <1>0, <1>1, Greatest DEF D
<1>5. Good # {}
  <2>1. UpTo(f[top]) = D  BY <1>4
  <2>2. f[top] \in Values  BY <1>4
  <2> HIDE DEF D, UpTo, Values
  <2> QED  BY Zenon, <1>0, <2>1, <2>2
<1>6. Good \in SUBSET Nat  BY <1>2
<1>7. PICK v \in Good : \A w \in Good : v <= w
  <2> HIDE DEF Good
  <2> QED  BY <1>5, <1>6, Least, Zenon
<1>8. v \in Values /\ v \in Nat /\ Cardinality(UpTo(v)) >= k  BY <1>2
<1>9. Cardinality(Below(v)) < k
  <2> SUFFICES ASSUME Cardinality(Below(v)) >= k PROVE FALSE  BY <1>0, <1>3
  <2>1. IsFiniteSet(Below(v)) /\ Cardinality(Below(v)) \in Nat  BY Zenon, <1>3
  <2>2. Below(v) # {}
    <3> HIDE DEF Below
    <3> QED  BY <1>0, <2>1, FS_EmptySet
  <2>3. \A x \in Below(v) : f[x] \in Nat /\ x \in D /\ f[x] < v  OBVIOUS
  <2>4. PICK b \in Below(v) : \A y \in Below(v) : f[y] <= f[b]
    <3> HIDE DEF Below
    <3> QED  BY Zenon, <2>1, <2>2, <2>3, Greatest
  <2>5. UpTo(f[b]) = Below(v)
    <3>1. ASSUME NEW x \in D PROVE f[x] <= f[b] <=> f[x] < v
      <4>1. f[x] \in Nat /\ f[b] \in Nat /\ f[b] < v  BY <2>3
      <4>2. f[x] < v => f[x] <= f[b]  BY <2>4
      <4> QED  BY <4>1, <4>2, <1>8
    <3> QED  BY <3>1
  <2>6. f[b] \in Values  BY <2>3
  <2>7. f[b] \in Good
    <3> HIDE DEF UpTo, Below, Values
    <3> QED  BY Zenon, <2>5, <2>6
  <2> HIDE DEF Good
  <2> QED  BY <1>7, <1>8, <2>3, <2>7
<1>10. v \in {f[x] : x \in DOMAIN f} /\ IsRank(f, k, v)  BY <1>8, <1>9 DEF IsRank
<1>11. Ranked(f, k) \in {f[x] : x \in DOMAIN f} /\ IsRank(f, k, Ranked(f, k))
  BY <1>10, Zenon DEF Ranked, IsRank
<1> QED  BY <1>11

(* Greater values have a greater k-th value. *)
LEMMA RankMonotone ==
  ASSUME NEW f, NEW g, IsFiniteSet(DOMAIN f), DOMAIN g = DOMAIN f,
         \A x \in DOMAIN f : f[x] \in Nat /\ g[x] \in Nat /\ f[x] <= g[x],
         NEW k \in 1..Cardinality(DOMAIN f)
  PROVE  Ranked(f, k) <= Ranked(g, k)
<1> DEFINE u == Ranked(f, k)
           v == Ranked(g, k)
           A == {x \in DOMAIN g : g[x] <= v}
           B == {x \in DOMAIN f : f[x] < u}
<1>1. u \in Nat /\ IsRank(f, k, u)  BY RankIs
<1>2. v \in Nat /\ IsRank(g, k, v)  BY RankIs
<1>3. Cardinality(B) < k /\ Cardinality(A) >= k  BY <1>1, <1>2 DEF IsRank
<1> HIDE DEF u, v
<1> SUFFICES ASSUME v < u PROVE FALSE  BY <1>1, <1>2 DEF u, v
<1>4. A \in SUBSET B
  <2>1. ASSUME NEW x \in DOMAIN f, g[x] <= v PROVE f[x] < u
    BY <1>1, <1>2, <2>1
  <2> QED  BY <2>1
<1>5. B \in SUBSET DOMAIN f  OBVIOUS
<1> HIDE DEF A, B
<1>6. IsFiniteSet(B)  BY Zenon, <1>5, FS_Subset
<1>7. IsFiniteSet(A) /\ Cardinality(A) <= Cardinality(B)  BY Zenon, <1>4, <1>6, FS_Subset
<1>8. Cardinality(A) \in Nat /\ Cardinality(B) \in Nat  BY Zenon, <1>6, <1>7, FS_CardinalityType
<1>9. Cardinality(DOMAIN f) \in Nat  BY Zenon, FS_CardinalityType
<1> QED  BY <1>3, <1>7, <1>8, <1>9

(* A median does not fall when values grow. *)
LEMMA MedianMonotone ==
  ASSUME NEW f, NEW g, IsFiniteSet(DOMAIN f), DOMAIN f # {}, DOMAIN g = DOMAIN f,
         \A x \in DOMAIN f : f[x] \in Nat /\ g[x] \in Nat /\ f[x] <= g[x]
  PROVE  Median(f) \in Nat /\ Median(g) \in Nat /\ Median(f) <= Median(g)
<1> DEFINE n == Cardinality(DOMAIN f)
           k == (n + 1) \div 2
           l == n \div 2 + 1
<1>1. n \in Nat /\ n # 0  BY FS_CardinalityType, FS_EmptySet
<1>2. k \in 1..n /\ l \in 1..n
  <2> HIDE DEF n
  <2> QED  BY <1>1
<1> HIDE DEF k, l
<1>3. /\ Ranked(f, k) \in Nat /\ Ranked(f, l) \in Nat
      /\ Ranked(g, k) \in Nat /\ Ranked(g, l) \in Nat
  BY Zenon, <1>2, RankIs
<1>4. Ranked(f, k) <= Ranked(g, k) /\ Ranked(f, l) <= Ranked(g, l)  BY <1>2, RankMonotone
<1>5. /\ Median(f) = (Ranked(f, k) + Ranked(f, l)) \div 2
      /\ Median(g) = (Ranked(g, k) + Ranked(g, l)) \div 2
  BY DEF Median, k, l
<1> QED  BY <1>3, <1>4, <1>5

(* More loss impairs more, and so does a longer round trip. *)
LEMMA ImpairmentGrows ==
  ASSUME NEW a \in Nat, NEW b \in Nat, a <= b
  PROVE  /\ Ie(a) \in Nat /\ Ie(b) \in Nat /\ Ie(a) <= Ie(b)
         /\ Id(a) \in Nat /\ Id(b) \in Nat /\ Id(a) <= Id(b)
<1>1. Ie(a) \in Nat /\ Ie(b) \in Nat /\ Ie(a) <= Ie(b)
  <2>1. LossCoeff \in Nat  BY EmosAssumption
  <2>2. ASSUME NEW x \in Nat, NEW y \in Nat, x <= y
        PROVE  /\ (x * LossCoeff) \div 10 \in Nat /\ (y * LossCoeff) \div 10 \in Nat
               /\ (x * LossCoeff) \div 10 <= (y * LossCoeff) \div 10
    <3>1. x * LossCoeff \in Nat /\ y * LossCoeff \in Nat /\ x * LossCoeff <= y * LossCoeff
      BY <2>1, <2>2
    <3> QED  BY <3>1
  <2>3. CASE a >= 50
    <3>1. a - 50 \in Nat /\ b - 50 \in Nat /\ a - 50 <= b - 50  BY <2>3
    <3> DEFINE x == ((a - 50) * LossCoeff) \div 10  y == ((b - 50) * LossCoeff) \div 10
    <3>2. x \in Nat /\ y \in Nat /\ x <= y  BY Zenon, <2>2, <3>1
    <3>3. Ie(a) = 120 + x /\ Ie(b) = 120 + y
      <4>1. ~(a < 10) /\ ~(a < 50) /\ ~(b < 10) /\ ~(b < 50)  BY <2>3
      <4> QED  BY Zenon, <4>1 DEF Ie
    <3> HIDE DEF x, y
    <3> QED  BY <3>2, <3>3
  <2>4. CASE b < 50
    BY <2>4 DEF Ie
  <2>5. CASE a < 50 /\ b >= 50
    <3>1. b - 50 \in Nat /\ b - 50 <= b - 50  BY <2>5
    <3> DEFINE y == ((b - 50) * LossCoeff) \div 10
    <3>2. y \in Nat  BY Zenon, <2>2, <3>1
    <3>3. Ie(b) = 120 + y
      <4>1. ~(b < 10) /\ ~(b < 50)  BY <2>5
      <4> QED  BY Zenon, <4>1 DEF Ie
    <3>4. Ie(a) \in 0..120  BY <2>5 DEF Ie
    <3> HIDE DEF y
    <3> QED  BY <3>2, <3>3, <3>4
  <2> QED  BY <2>3, <2>4, <2>5
<1>2. Id(a) \in Nat /\ Id(b) \in Nat /\ Id(a) <= Id(b)  BY DEF Id
<1> QED  BY <1>1, <1>2

(* The cubic of Mos, and its divisions; the R factor, and where Mos is at    *)
(* least 1.                                                                  *)
Cubic(r) == r * (r * (1600 - r) - 100000)
Scaled(x) == 1000 + ((7 * x) \div 1000) \div 1000
RFactor == 0..1000
Upper == 66..1000

(* Mos's cubic grows between 66 and 1000, ... *)
LEMMA CubicGrows ==
  ASSUME NEW r \in Upper, NEW s \in Upper, r <= s
  PROVE  Cubic(r) <= Cubic(s)
<1> DEFINE e == r + s - 1600
           B == r * (1600 - r) - 100000 - s * e
<1>1. r \in Int /\ s \in Int /\ 66 <= r /\ r <= s /\ s <= 1000  BY DEF Upper
<1>2. e \in Int /\ B \in Int  BY <1>1
<1>3. B >= 0
  <2>1. CASE e <= 0
    <3>1. s * e <= 0  BY <1>1, <1>2, <2>1
    <3>2. (r - 66) * (1534 - r) >= 0  BY <1>1
    <3>3. r * (1600 - r) = (r - 66) * (1534 - r) + 101244  BY <1>1
    <3> QED  BY <1>1, <1>2, <3>1, <3>2, <3>3
  <2>2. CASE e > 0
    <3>1. s * e <= 400000
      <4>1. e <= 400  BY <1>1
      <4> HIDE DEF e
      <4>2. (1000 - s) * e >= 0  BY <1>1, <1>2, <2>2
      <4>3. s * e = 1000 * e - (1000 - s) * e  BY <1>1, <1>2
      <4> QED  BY <1>1, <1>2, <4>1, <4>2, <4>3
    <3>2. (r - 600) * (1000 - r) >= 0  BY <1>1, <2>2
    <3>3. r * (1600 - r) = (r - 600) * (1000 - r) + 600000  BY <1>1
    <3> QED  BY <1>1, <1>2, <3>1, <3>2, <3>3
  <2> QED  BY <1>2, <2>1, <2>2
<1>4. Cubic(s) - Cubic(r) = (s - r) * B  BY <1>1 DEF Cubic
<1>5. Cubic(s) \in Int /\ Cubic(r) \in Int  BY <1>1 DEF Cubic
<1> HIDE DEF B, e
<1>6. (s - r) * B >= 0  BY <1>1, <1>2, <1>3
<1> QED  BY <1>4, <1>5, <1>6

(* ... and is not positive before that, where Mos is cut off at 1. *)
LEMMA CubicLow ==
  ASSUME NEW r \in 0..65
  PROVE  Cubic(r) <= 0
<1>1. r * (1600 - r) - 100000 <= 0
  <2>1. (65 - r) * (1535 - r) >= 0  OBVIOUS
  <2>2. r * (1600 - r) = 99775 - (65 - r) * (1535 - r)  OBVIOUS
  <2>3. (65 - r) * (1535 - r) \in Int /\ r * (1600 - r) \in Int  OBVIOUS
  <2> QED  BY <2>1, <2>2, <2>3
<1>2. r * (1600 - r) - 100000 \in Int  OBVIOUS
<1> DEFINE z == r * (1600 - r) - 100000
<1> HIDE DEF z
<1>3. r * z <= 0  BY <1>1, <1>2 DEF z
<1> QED  BY <1>3 DEF Cubic, z

(* Mos divides twice. *)
LEMMA MosIs ==
  ASSUME NEW r \in RFactor
  PROVE  Cubic(r) \in Int /\ Mos(r) = Scaled(Cubic(r))
<1> DEFINE X == r * (r - 600) * (1000 - r) * 7
           C == Cubic(r)
<1>0. r \in 0..1000  BY DEF RFactor
<1>1. X \in Int /\ C \in Int  BY <1>0 DEF Cubic
<1>2. 7 * C = 1000 * (3500 * r) + X  BY <1>0 DEF Cubic
<1>3. Mos(r) = 1000 + (3500 * r + X \div 1000) \div 1000  BY Zenon DEF Mos
<1> HIDE DEF X, C
<1>4. (1000 * (3500 * r) + X) \div 1000 = 3500 * r + X \div 1000  BY <1>0, <1>1
<1> QED  BY <1>1, <1>2, <1>3, <1>4 DEF C, Scaled

(* A higher R factor gives no lower Mos. *)
LEMMA MosGrows ==
  ASSUME NEW r \in RFactor, NEW s \in RFactor, r <= s
  PROVE  Clamp(Mos(r), 1000, 5000) <= Clamp(Mos(s), 1000, 5000)
<1> DEFINE a == Cubic(r)
           b == Cubic(s)
<1>1. a \in Int /\ b \in Int /\ Mos(r) = Scaled(a) /\ Mos(s) = Scaled(b)  BY MosIs
<1>2. a <= 0 \/ a <= b
  <2>1. CASE r \in 0..65  BY <2>1, CubicLow
  <2>2. CASE r \notin 0..65
    <3>1. r \in 0..1000 /\ s \in 0..1000  BY DEF RFactor
    <3>2. r \in 66..1000  BY <2>2, <3>1
    <3>3. s \in 66..1000  BY <3>1, <3>2
    <3>4. r \in Upper /\ s \in Upper  BY <3>2, <3>3 DEF Upper
    <3>5. Cubic(r) <= Cubic(s)  BY <3>4, CubicGrows, Zenon
    <3> QED  BY <3>5, Zenon
  <2> QED  BY <2>1, <2>2
<1> HIDE DEF a, b
<1>3. Scaled(a) \in Int /\ Scaled(b) \in Int  BY <1>1 DEF Scaled
<1>4. Scaled(a) <= 1000 \/ Scaled(a) <= Scaled(b)  BY <1>1, <1>2 DEF Scaled
<1>5. Clamp(Scaled(a), 1000, 5000) <= Clamp(Scaled(b), 1000, 5000)  BY <1>3, <1>4 DEF Clamp
<1> QED  BY <1>1, <1>5

(* More loss and a longer round trip never give a higher score. *)
THEOREM EmosGrowsWorse ==
  ASSUME NEW l \in Nat, NEW m \in Nat, l <= m, NEW d \in Nat, NEW e \in Nat, d <= e
  PROVE  ComputeEMOS(m, e).emos <= ComputeEMOS(l, d).emos
<1> DEFINE r == Clamp(932 - Ie(l) - Id(d), 0, 1000)
           s == Clamp(932 - Ie(m) - Id(e), 0, 1000)
<1>1. /\ Ie(l) \in Nat /\ Ie(m) \in Nat /\ Ie(l) <= Ie(m)
      /\ Id(d) \in Nat /\ Id(e) \in Nat /\ Id(d) <= Id(e)
  BY Zenon, ImpairmentGrows
<1>2. r \in RFactor /\ s \in RFactor /\ s <= r
  <2> DEFINE x == 932 - Ie(l) - Id(d)
             y == 932 - Ie(m) - Id(e)
  <2>1. x \in Int /\ y \in Int /\ y <= x  BY <1>1
  <2> HIDE DEF x, y
  <2>2. /\ Clamp(x, 0, 1000) \in RFactor /\ Clamp(y, 0, 1000) \in RFactor
        /\ Clamp(y, 0, 1000) <= Clamp(x, 0, 1000)
    BY <2>1 DEF Clamp, RFactor
  <2>3. Clamp(x, 0, 1000) = r /\ Clamp(y, 0, 1000) = s  BY Zenon DEF x, y
  <2> HIDE DEF r, s
  <2> QED  BY <2>2, <2>3
<1>3. /\ ComputeEMOS(l, d).emos = Clamp(Mos(r), 1000, 5000)
      /\ ComputeEMOS(m, e).emos = Clamp(Mos(s), 1000, 5000)
  BY DEF ComputeEMOS
<1> HIDE DEF r, s
<1>4. Clamp(Mos(s), 1000, 5000) <= Clamp(Mos(r), 1000, 5000)  BY <1>2, MosGrows
<1> QED  BY <1>3, <1>4

(* The statistics are samples, and only Store adds one. *)
StatsInv == stats \in [Conn -> [Instant -> Sample \union {NoRow}]]

(* Every step keeps this. *)
LEMMA StatsStep == StatsInv /\ [Next]_vars => StatsInv'
<1> SUFFICES ASSUME StatsInv, [Next]_vars PROVE StatsInv'  OBVIOUS
<1>1. CASE stats' = stats  BY <1>1 DEF StatsInv
<1>2. ASSUME NEW c \in Conn, NEW t \in Instant, NEW x \in Sample, Store(c, t, x) PROVE StatsInv'
  BY <1>2 DEF Store, StatsInv
<1>3. stats' = stats \/ \E c \in Conn, t \in Instant, x \in Sample : Store(c, t, x)
  BY Zenon DEF Next, vars, jobVars, RunJob, Statement, QuerySessions, QueryConnections,
         QueryConnectionsError, JobError, Upsert, EvaluateConnection, EvaluateError,
         insertObservationIfNew, InsertError, NextConnection, JobDone, Acquire, Release, Quiet
<1> QED  BY <1>1, <1>2, <1>3

(* A session's score falls when one of its samples gets worse. *)
LEMMA ScoreFalls ==
  ASSUME StatsInv, NEW c \in Conn, NEW t \in Instant, NEW x \in Sample,
         stats[c][t] # NoRow, x.loss >= stats[c][t].loss, x.rtt >= stats[c][t].rtt
  PROVE  Score([stats EXCEPT ![c][t] = x], SessionOf[c]).emos <= Score(stats, SessionOf[c]).emos
<1> DEFINE worse == [stats EXCEPT ![c][t] = x]
           s == SessionOf[c]
           D == RowsOf(stats, s)
           L(st) == [y \in RowsOf(st, s) |-> st[y[1]][y[2]].loss]
           R(st) == [y \in RowsOf(st, s) |-> st[y[1]][y[2]].rtt]
<1>1. \A a \in Conn, u \in Instant :
        worse[a][u] = IF a = c /\ u = t THEN x ELSE stats[a][u]
  BY Zenon DEF StatsInv
<1>2. x # NoRow  BY EmosAssumption
<1> HIDE DEF worse
<1>3. RowsOf(worse, s) = D  BY ZenonT(60), <1>1, <1>2 DEF RowsOf
<1>4. \A y \in D : y[1] \in Conn /\ y[2] \in Instant /\ stats[y[1]][y[2]] # NoRow  BY Zenon DEF RowsOf
<1>5. \A y \in D : stats[y[1]][y[2]] \in Sample  BY Zenon, <1>4 DEF StatsInv
<1>6. \A z \in Sample : z.loss \in Nat /\ z.rtt \in Nat
  <2> SUFFICES ASSUME NEW z \in Sample PROVE z.loss \in Nat /\ z.rtt \in Nat  BY Zenon
  <2>1. z.loss \in 0..1000 /\ z.rtt \in Nat  BY EmosAssumption, ZenonT(60)
  <2> QED  BY SMTT(30), <2>1
<1>7. ASSUME NEW y \in D
      PROVE  /\ stats[y[1]][y[2]].loss \in Nat /\ worse[y[1]][y[2]].loss \in Nat
             /\ stats[y[1]][y[2]].loss <= worse[y[1]][y[2]].loss
             /\ stats[y[1]][y[2]].rtt \in Nat /\ worse[y[1]][y[2]].rtt \in Nat
             /\ stats[y[1]][y[2]].rtt <= worse[y[1]][y[2]].rtt
  <2>1. y[1] \in Conn /\ y[2] \in Instant /\ stats[y[1]][y[2]] \in Sample  BY Zenon, <1>4, <1>5
  <2>2. CASE y[1] = c /\ y[2] = t
    <3>1. worse[y[1]][y[2]] = x  BY ZenonT(60), <1>1, <2>1, <2>2
    <3> QED  BY Zenon, <1>6, <2>1, <2>2, <3>1
  <2>3. CASE ~(y[1] = c /\ y[2] = t)
    <3>1. worse[y[1]][y[2]] = stats[y[1]][y[2]]  BY Zenon, <1>1, <2>1, <2>3
    <3> QED  BY <1>6, <2>1, <3>1
  <2> QED  BY <2>2, <2>3, Zenon
<1>8. IsFiniteSet(D)
  <2>1. MaxInstant \in Int /\ 0 \in Int /\ IsFiniteSet(Conn)  BY EmosAssumption
  <2>2. IsFiniteSet(Instant)  BY Zenon, <2>1, FS_Interval DEF Instant
  <2>3. IsFiniteSet(Conn \X Instant)  BY Zenon, <2>1, <2>2, FS_Product
  <2>4. D \in SUBSET (Conn \X Instant)  BY Zenon DEF RowsOf
  <2> HIDE DEF D
  <2> QED  BY Zenon, <2>3, <2>4, FS_Subset
<1>9. D # {}
  <2>1. <<c, t>> \in D  BY Zenon DEF RowsOf
  <2> HIDE DEF D
  <2> QED  BY Zenon, <2>1
<1> HIDE DEF D
<1>10. DOMAIN L(stats) = D /\ DOMAIN L(worse) = D /\ DOMAIN R(stats) = D /\ DOMAIN R(worse) = D
  BY Zenon, <1>3 DEF D
<1>11. \A y \in D : /\ L(stats)[y] = stats[y[1]][y[2]].loss /\ L(worse)[y] = worse[y[1]][y[2]].loss
                    /\ R(stats)[y] = stats[y[1]][y[2]].rtt /\ R(worse)[y] = worse[y[1]][y[2]].rtt
  BY Zenon, <1>3 DEF D
<1>12. /\ Score(stats, s) = ComputeEMOS(Median(L(stats)), Median(R(stats)))
       /\ Score(worse, s) = ComputeEMOS(Median(L(worse)), Median(R(worse)))
  BY Zenon DEF Score
<1> HIDE DEF L, R, s
<1>13. \A y \in D : /\ L(stats)[y] \in Nat /\ L(worse)[y] \in Nat /\ L(stats)[y] <= L(worse)[y]
                    /\ R(stats)[y] \in Nat /\ R(worse)[y] \in Nat /\ R(stats)[y] <= R(worse)[y]
  BY Zenon, <1>7, <1>11
<1>14. /\ Median(L(stats)) \in Nat /\ Median(L(worse)) \in Nat
       /\ Median(L(stats)) <= Median(L(worse))
  BY Zenon, <1>8, <1>9, <1>10, <1>13, MedianMonotone
<1>15. /\ Median(R(stats)) \in Nat /\ Median(R(worse)) \in Nat
       /\ Median(R(stats)) <= Median(R(worse))
  BY Zenon, <1>8, <1>9, <1>10, <1>13, MedianMonotone
<1>16. Score(worse, s).emos <= Score(stats, s).emos
  BY Zenon, <1>12, <1>14, <1>15, EmosGrowsWorse
<1> QED  BY <1>16 DEF worse, s

(* More loss or a longer round trip never gives a session a higher score,    *)
(* for every loss, round trip and set of samples (ComputeEMOS, RunJob).      *)
THEOREM WorseIsNeverBetter == Spec => []ScoreMonotone
<1>1. Init => StatsInv  BY DEF Init, StatsInv
<1>2. EmosFalls
  <2> SUFFICES ASSUME NEW loss \in 0..300, NEW d \in 0..100
               PROVE  /\ ComputeEMOS(loss + 1, 100 * d).emos <= ComputeEMOS(loss, 100 * d).emos
                      /\ ComputeEMOS(loss, 100 * d + 100).emos <= ComputeEMOS(loss, 100 * d).emos
    BY Zenon DEF EmosFalls
  <2>1. /\ loss \in Nat /\ loss + 1 \in Nat /\ loss <= loss + 1 /\ loss <= loss
        /\ 100 * d \in Nat /\ 100 * d + 100 \in Nat /\ 100 * d <= 100 * d + 100 /\ 100 * d <= 100 * d
    OBVIOUS
  <2>2. ComputeEMOS(loss + 1, 100 * d).emos <= ComputeEMOS(loss, 100 * d).emos
    BY <2>1, EmosGrowsWorse, Zenon
  <2>3. ComputeEMOS(loss, 100 * d + 100).emos <= ComputeEMOS(loss, 100 * d).emos
    BY <2>1, EmosGrowsWorse, Zenon
  <2> QED  BY <2>2, <2>3
<1>3. StatsInv => ScoreMonotone  BY Zenon, <1>2, ScoreFalls DEF ScoreMonotone
<1> QED  BY <1>1, <1>3, StatsStep, PTL DEF Spec
-----------------------------------------------------------------------------
(* The loop of the sustained rules *)

(* r is a maximal run of at least min bad samples that ends before sample i *)
Ended(r, i, bad, min) ==
  /\ 1 <= r[1] /\ r[2] < i /\ r[2] - r[1] + 1 >= min
  /\ r[1]..r[2] \subseteq bad
  /\ r[1] - 1 \notin bad /\ r[2] + 1 \notin bad

(* What the loop knows after i samples *)
LoopInv(p, i, bad, min) ==
  /\ p \in [start : Nat, count : Nat, out : Seq(Nat \X Nat)]
  /\ IF p.count = 0 THEN i \notin bad
     ELSE /\ 1 <= p.start /\ i = p.start + p.count - 1
          /\ p.start..i \subseteq bad /\ p.start - 1 \notin bad
  /\ \A k \in DOMAIN p.out : Ended(p.out[k], i, bad, min)
  /\ \A r \in Nat \X Nat : Ended(r, i, bad, min) => \E k \in DOMAIN p.out : p.out[k] = r
  /\ \A k, l \in DOMAIN p.out : k < l => p.out[k][2] < p.out[l][1]

(* One more sample. *)
LEMMA StepKeeps ==
  ASSUME NEW bad \in SUBSET Nat, NEW min \in Nat \ {0}, NEW i \in Nat \ {0},
         NEW p, LoopInv(p, i - 1, bad, min)
  PROVE  LoopInv(RunStep(p, i, bad, min), i, bad, min)
<1> DEFINE q == RunStep(p, i, bad, min)
<1> SUFFICES LoopInv(q, i, bad, min)  BY Zenon
<1>0. p.start \in Nat /\ p.count \in Nat /\ p.out \in Seq(Nat \X Nat)  BY Zenon DEF LoopInv
<1>1. CASE i \in bad
  <2>1. q = [start |-> IF p.count = 0 THEN i ELSE p.start, count |-> p.count + 1, out |-> p.out]
    BY <1>1 DEF RunStep
  <2>2. q \in [start : Nat, count : Nat, out : Seq(Nat \X Nat)] /\ q.count # 0
    BY <1>0, <2>1
  <2>3. /\ 1 <= q.start /\ i = q.start + q.count - 1
        /\ q.start..i \subseteq bad /\ q.start - 1 \notin bad
    <3>1. CASE p.count = 0
      <4>1. q.start = i /\ q.count = 1  BY <3>1, <2>1
      <4>2. i - 1 \notin bad  BY Zenon, <3>1 DEF LoopInv
      <4> QED  BY <4>1, <4>2, <1>1
    <3>2. CASE p.count # 0
      <4>1. q.start = p.start /\ q.count = p.count + 1  BY <3>2, <2>1
      <4>2. /\ 1 <= p.start /\ i - 1 = p.start + p.count - 1
            /\ p.start..(i - 1) \subseteq bad /\ p.start - 1 \notin bad
        BY Zenon, <3>2 DEF LoopInv
      <4>3. p.start..i = p.start..(i - 1) \union {i}  BY <4>2, <1>0, <3>2
      <4>4. i = p.start + (p.count + 1) - 1  BY <4>2, <1>0
      <4> HIDE DEF q
      <4> QED  BY Zenon, <4>1, <4>2, <4>3, <4>4, <1>1
    <3> QED  BY Zenon, <3>1, <3>2
  <2>4. \A r \in Nat \X Nat : Ended(r, i, bad, min) <=> Ended(r, i - 1, bad, min)
    <3> SUFFICES ASSUME NEW r \in Nat \X Nat
                 PROVE  Ended(r, i, bad, min) <=> Ended(r, i - 1, bad, min)
      OBVIOUS
    <3>1. r[1] \in Nat /\ r[2] \in Nat  OBVIOUS
    <3>2. r[2] + 1 \notin bad => r[2] # i - 1  BY <1>1, <3>1
    <3> QED  BY <3>1, <3>2 DEF Ended
  <2>5. q.out = p.out /\ \A k \in DOMAIN p.out : p.out[k] \in Nat \X Nat  BY <1>0, <2>1
  <2> HIDE DEF q
  <2> QED  BY Zenon, <2>2, <2>3, <2>4, <2>5 DEF LoopInv
<1>2. CASE i \notin bad
  <2> DEFINE new == <<p.start, i - 1>>
  <2>1. q = [start |-> p.start, count |-> 0,
             out |-> IF p.count >= min THEN Append(p.out, new) ELSE p.out]
    BY Zenon, <1>2 DEF RunStep
  <2>2. new \in Nat \X Nat  BY <1>0
  <2>3. q \in [start : Nat, count : Nat, out : Seq(Nat \X Nat)] /\ q.count = 0
    BY <1>0, <2>1, <2>2
  <2>4. ASSUME NEW r \in Nat \X Nat, Ended(r, i - 1, bad, min)
        PROVE  Ended(r, i, bad, min) /\ (p.count # 0 => r[2] < p.start)
    <3>1. r[1] \in Nat /\ r[2] \in Nat  OBVIOUS
    <3>2. ASSUME p.count # 0 PROVE r[2] < p.start
      <4>1. p.start..(i - 1) \subseteq bad  BY Zenon, <3>2 DEF LoopInv
      <4>2. r[2] < i - 1 /\ r[2] + 1 \notin bad  BY Zenon, <2>4 DEF Ended
      <4>3. r[2] >= p.start => r[2] + 1 \in p.start..(i - 1)  BY <4>2, <3>1, <1>0
      <4> QED  BY <4>1, <4>2, <4>3, <3>1, <1>0
    <3> QED  BY <2>4, <3>1, <3>2 DEF Ended
  <2>5. p.count >= min => Ended(new, i, bad, min)
    <3> SUFFICES ASSUME p.count >= min PROVE Ended(new, i, bad, min)  OBVIOUS
    <3>1. p.count # 0  BY <1>0
    <3>2. /\ 1 <= p.start /\ i - 1 = p.start + p.count - 1
          /\ p.start..(i - 1) \subseteq bad /\ p.start - 1 \notin bad
      BY Zenon, <3>1 DEF LoopInv
    <3> QED  BY SMTT(30), <3>2, <1>0, <1>2 DEF Ended
  <2>6. ASSUME NEW r \in Nat \X Nat, Ended(r, i, bad, min), ~Ended(r, i - 1, bad, min)
        PROVE  p.count >= min /\ r = new
    <3>1. r[1] \in Nat /\ r[2] \in Nat /\ r = <<r[1], r[2]>>  OBVIOUS
    <3>2. r[2] = i - 1  BY <2>6, <3>1 DEF Ended
    <3>3. /\ 1 <= r[1] /\ i - r[1] >= min
          /\ r[1]..(i - 1) \subseteq bad /\ r[1] - 1 \notin bad
      BY <2>6, <3>1, <3>2 DEF Ended
    <3>4. i - 1 \in bad  BY <3>1, <3>3
    <3>5. p.count # 0  BY Zenon, <3>4 DEF LoopInv
    <3>6. /\ 1 <= p.start /\ i - 1 = p.start + p.count - 1
          /\ p.start..(i - 1) \subseteq bad /\ p.start - 1 \notin bad
      BY <3>5 DEF LoopInv
    <3>7. ~(r[1] < p.start)
      <4>1. r[1] < p.start => p.start - 1 \in r[1]..(i - 1)  BY SMTT(30), <1>0, <3>1, <3>6
      <4> QED  BY Zenon, <4>1, <3>3, <3>6
    <3>8. ~(p.start < r[1])
      <4>1. p.start < r[1] => r[1] - 1 \in p.start..(i - 1)  BY SMTT(30), <1>0, <3>1, <3>3
      <4> QED  BY <4>1, <3>3, <3>6
    <3>9. r[1] = p.start  BY <3>7, <3>8, <3>1, <1>0
    <3> QED  BY SMTT(30), <3>1, <3>2, <3>3, <3>6, <3>9, <1>0
  <2>7. \A k \in DOMAIN p.out : p.out[k] \in Nat \X Nat /\ Ended(p.out[k], i - 1, bad, min)
    BY <1>0 DEF LoopInv
  <2>8. /\ \A r \in Nat \X Nat : Ended(r, i - 1, bad, min) => \E k \in DOMAIN p.out : p.out[k] = r
        /\ \A k, l \in DOMAIN p.out : k < l => p.out[k][2] < p.out[l][1]
    BY Zenon DEF LoopInv
  <2>9. CASE p.count >= min
    <3> DEFINE m == Len(p.out)
    <3>1. /\ q.out = Append(p.out, new) /\ m \in Nat /\ DOMAIN p.out = 1..m
          /\ DOMAIN q.out = 1..(m + 1) /\ q.out[m + 1] = new
          /\ \A k \in 1..m : q.out[k] = p.out[k]
      BY <1>0, <2>1, <2>2, <2>9
    <3>2. p.count # 0  BY <1>0, <2>9
    <3> HIDE DEF q, new, m
    <3>3. \A k \in DOMAIN q.out : Ended(q.out[k], i, bad, min)
      <4> SUFFICES ASSUME NEW k \in 1..(m + 1) PROVE Ended(q.out[k], i, bad, min)  BY Zenon, <3>1
      <4>1. CASE k = m + 1  BY Zenon, <4>1, <3>1, <2>5, <2>9
      <4>2. CASE k \in 1..m  BY Zenon, <4>2, <3>1, <2>4, <2>7
      <4> QED  BY <4>1, <4>2, <3>1
    <3>4. \A r \in Nat \X Nat : Ended(r, i, bad, min) => \E k \in DOMAIN q.out : q.out[k] = r
      <4> SUFFICES ASSUME NEW r \in Nat \X Nat, Ended(r, i, bad, min)
                   PROVE  \E k \in DOMAIN q.out : q.out[k] = r
        OBVIOUS
      <4>1. CASE Ended(r, i - 1, bad, min)
        <5>1. PICK k \in 1..m : p.out[k] = r  BY Zenon, <4>1, <2>8, <3>1
        <5>2. k \in 1..(m + 1) /\ q.out[k] = r  BY <5>1, <3>1
        <5> QED  BY <5>2, <3>1, Zenon
      <4>2. CASE ~Ended(r, i - 1, bad, min)
        <5>1. r = new  BY <4>2, <2>6
        <5>2. m + 1 \in DOMAIN q.out  BY <3>1
        <5> QED  BY Zenon, <5>1, <5>2, <3>1
      <4> QED  BY <4>1, <4>2
    <3>5. \A k, l \in DOMAIN q.out : k < l => q.out[k][2] < q.out[l][1]
      <4> SUFFICES ASSUME NEW k \in 1..(m + 1), NEW l \in 1..(m + 1), k < l
                   PROVE  q.out[k][2] < q.out[l][1]
        BY Zenon, <3>1
      <4>1. k \in 1..m /\ (l \in 1..m \/ l = m + 1)  BY <3>1
      <4>2. CASE l \in 1..m  BY <4>1, <4>2, <3>1, <2>8, Zenon
      <4>3. CASE l = m + 1
        <5>1. p.out[k][2] < p.start  BY <4>1, <2>4, <2>7, <3>1, <3>2, Zenon
        <5>2. new[1] = p.start  BY Zenon DEF new
        <5> QED  BY Zenon, <4>1, <4>3, <5>1, <5>2, <3>1
      <4> QED  BY <4>1, <4>2, <4>3
    <3> QED  BY Zenon, <1>2, <2>3, <3>3, <3>4, <3>5 DEF LoopInv
  <2>10. CASE ~(p.count >= min)
    <3>1. q.out = p.out  BY <2>1, <2>10
    <3> HIDE DEF q
    <3>2. \A k \in DOMAIN q.out : Ended(q.out[k], i, bad, min)  BY Zenon, <3>1, <2>4, <2>7
    <3>3. \A r \in Nat \X Nat : Ended(r, i, bad, min) => \E k \in DOMAIN q.out : q.out[k] = r
      BY Zenon, <3>1, <2>6, <2>8, <2>10
    <3> QED  BY Zenon, <1>2, <2>3, <2>8, <3>1, <3>2, <3>3 DEF LoopInv
  <2> QED  BY Zenon, <2>9, <2>10
<1> QED  BY <1>1, <1>2

(* The recursive definition of the loop has a solution for n samples: f has  *)
(* the state before each sample.                                             *)
IsLoop(f, n, bad, min) ==
  f = [i \in 0..n |-> IF i = 0 THEN [start |-> 0, count |-> 0, out |-> <<>>]
                      ELSE RunStep(f[i - 1], i, bad, min)]

(* By the least n for which there is none. *)
LEMMA LoopExists ==
  ASSUME NEW bad, NEW min
  PROVE  \A n \in Nat : \E f : IsLoop(f, n, bad, min)
<1> DEFINE None == {n \in Nat : ~\E f : IsLoop(f, n, bad, min)}
           zero == [start |-> 0, count |-> 0, out |-> <<>>]
<1> SUFFICES ASSUME None # {} PROVE FALSE  OBVIOUS
<1>1. PICK n \in None : \A m \in None : n <= m  BY Least, Zenon
<1>2. n \in Nat /\ ~\E f : IsLoop(f, n, bad, min)  BY Zenon
<1>3. CASE n = 0
  <2> DEFINE f == [i \in 0..0 |-> zero]
  <2>1. IsLoop(f, 0, bad, min)  BY DEF IsLoop
  <2> QED  BY Zenon, <1>2, <1>3, <2>1
<1>4. CASE n # 0
  <2>1. n - 1 \in Nat /\ n - 1 \notin None  BY <1>1, <1>2, <1>4
  <2>2. PICK g : IsLoop(g, n - 1, bad, min)  BY Zenon, <2>1
  <2> DEFINE f == [i \in 0..n |-> IF i = n THEN RunStep(g[n - 1], n, bad, min) ELSE g[i]]
  <2>3. \A i \in 0..(n - 1) : g[i] = IF i = 0 THEN zero ELSE RunStep(g[i - 1], i, bad, min)
    BY Zenon, <2>2 DEF IsLoop
  <2>4. ASSUME NEW i \in 0..n
        PROVE  f[i] = IF i = 0 THEN zero ELSE RunStep(f[i - 1], i, bad, min)
    <3>1. CASE i = n
      <4>1. i - 1 \in 0..n /\ i - 1 # n /\ i # 0  BY <1>2, <1>4, <3>1
      <4>2. f[i - 1] = g[i - 1]  BY Zenon, <4>1
      <4>3. f[i] = RunStep(g[n - 1], n, bad, min)  BY Zenon, <3>1
      <4> QED  BY Zenon, <3>1, <4>1, <4>2, <4>3
    <3>2. CASE i # n
      <4>1. i \in 0..(n - 1)  BY <1>2, <3>2
      <4>2. f[i] = g[i]  BY Zenon, <3>2
      <4>3. ASSUME i # 0 PROVE f[i - 1] = g[i - 1]
        <5>1. i - 1 \in 0..n /\ i - 1 # n  BY <4>1, <4>3, <1>2
        <5> QED  BY Zenon, <5>1
      <4> HIDE DEF f
      <4> QED  BY Zenon, <4>1, <4>2, <4>3, <2>3
    <3> QED  BY Zenon, <3>1, <3>2
  <2>5. f = [i \in 0..n |-> f[i]]  OBVIOUS
  <2> HIDE DEF f
  <2>6. IsLoop(f, n, bad, min)  BY <2>4, <2>5, Zenon DEF IsLoop
  <2> QED  BY Zenon, <1>2, <2>6
<1> QED  BY Zenon, <1>3, <1>4

(* After all samples *)
LEMMA LoopResult ==
  ASSUME NEW n \in Nat, NEW bad \in SUBSET (1..n), NEW min \in Nat \ {0}
  PROVE  LoopInv(RunLoop(n, bad, min), n, bad, min)
<1> DEFINE f == CHOOSE g : IsLoop(g, n, bad, min)
<1>1. IsLoop(f, n, bad, min)  BY Zenon, LoopExists
<1>2. RunLoop(n, bad, min) = f[n]  BY Zenon DEF RunLoop, IsLoop
<1> HIDE DEF f
<1>3. \A i \in 0..n : f[i] = IF i = 0 THEN [start |-> 0, count |-> 0, out |-> <<>>]
                             ELSE RunStep(f[i - 1], i, bad, min)
  BY Zenon, <1>1 DEF IsLoop
<1>4. LoopInv(f[0], 0, bad, min)
  <2>1. f[0] = [start |-> 0, count |-> 0, out |-> <<>>]  BY <1>3
  <2>2. \A r \in Nat \X Nat : ~Ended(r, 0, bad, min)  BY DEF Ended
  <2>3. f[0] \in [start : Nat, count : Nat, out : Seq(Nat \X Nat)] /\ DOMAIN f[0].out = {}
    BY <2>1
  <2> QED  BY <2>1, <2>2, <2>3 DEF LoopInv
<1> DEFINE Broken == {i \in 0..n : ~LoopInv(f[i], i, bad, min)}
<1>5. ASSUME Broken # {} PROVE FALSE
  <2>0. Broken \in SUBSET Nat  OBVIOUS
  <2>1. PICK i \in Broken : \A j \in Broken : i <= j
    <3> HIDE DEF Broken
    <3> QED  BY Zenon, <1>5, <2>0, Least
  <2>2. i \in 1..n  BY <1>4
  <2>3. LoopInv(f[i - 1], i - 1, bad, min)  BY <2>1, <2>2
  <2>4. LoopInv(RunStep(f[i - 1], i, bad, min), i, bad, min)  BY <2>2, <2>3, StepKeeps
  <2> QED  BY <1>3, <2>1, <2>2, <2>4
<1> QED  BY <1>2, <1>5

(* The loop finds the maximal runs, once each and in order. *)
THEOREM RunsAreMaximal ==
  ASSUME NEW n \in Nat, NEW bad \in SUBSET (1..n), NEW min \in Nat \ {0}
  PROVE  /\ Runs(n, bad, min) \in Seq((1..n) \X (1..n))
         /\ Range(Runs(n, bad, min)) = MaximalRuns(n, bad, min)
         /\ \A i, j \in DOMAIN Runs(n, bad, min) :
              i < j => Runs(n, bad, min)[i][2] < Runs(n, bad, min)[j][1]
<1> DEFINE q == RunStep(RunLoop(n, bad, min), n + 1, bad, min)
<1>1. LoopInv(q, n + 1, bad, min)
  <2>1. n + 1 \in Nat \ {0} /\ (n + 1) - 1 = n /\ bad \in SUBSET Nat  OBVIOUS
  <2> QED  BY Zenon, <2>1, LoopResult, StepKeeps
<1>2. Runs(n, bad, min) = q.out
  <2>1. n + 1 \notin bad /\ (n + 1) - 1 = n  OBVIOUS
  <2> QED  BY <2>1 DEF Runs, RunStep
<1> DEFINE out == q.out
<1>3. out \in Seq(Nat \X Nat)  BY Zenon, <1>1 DEF LoopInv
<1>4. \A r \in Nat \X Nat : Ended(r, n + 1, bad, min) <=> r \in MaximalRuns(n, bad, min)
  <2> SUFFICES ASSUME NEW r \in Nat \X Nat
               PROVE  Ended(r, n + 1, bad, min) <=> r \in MaximalRuns(n, bad, min)
    OBVIOUS
  <2>1. r[1] \in Nat /\ r[2] \in Nat /\ r = <<r[1], r[2]>>  OBVIOUS
  <2>2. r \in (1..n) \X (1..n) <=> r[1] \in 1..n /\ r[2] \in 1..n  BY Zenon, <2>1
  <2>3. r[2] - r[1] + 1 >= min => r[1] <= r[2]  BY <2>1
  <2> QED  BY <2>1, <2>2, <2>3 DEF Ended, MaximalRuns
<1>5. MaximalRuns(n, bad, min) \subseteq Nat \X Nat  BY DEF MaximalRuns
<1>6. /\ \A k \in DOMAIN out : out[k] \in MaximalRuns(n, bad, min)
      /\ \A r \in MaximalRuns(n, bad, min) : \E k \in DOMAIN out : out[k] = r
      /\ \A i, j \in DOMAIN out : i < j => out[i][2] < out[j][1]
  <2> HIDE DEF q
  <2> QED  BY <1>1, <1>3, <1>4, <1>5 DEF LoopInv
<1> HIDE DEF out
<1>7. Range(out) = MaximalRuns(n, bad, min)  BY Zenon, <1>6 DEF Range
<1>8. out \in Seq((1..n) \X (1..n))
  <2>1. MaximalRuns(n, bad, min) \subseteq (1..n) \X (1..n)  BY DEF MaximalRuns
  <2> QED  BY <1>3, <1>6, <2>1
<1>9. Runs(n, bad, min) = out  BY <1>2 DEF out
<1> QED  BY Zenon, <1>6, <1>7, <1>8, <1>9

-----------------------------------------------------------------------------
(* A set of numbers in order *)
Ascends(s) == \A i, j \in DOMAIN s : i < j => s[i] < s[j]

(* A finite set of numbers can be listed in order. *)
LEMMA CanBeListed ==
  \A n \in Nat : \A S \in SUBSET Nat :
    IsFiniteSet(S) /\ Cardinality(S) = n => \E s \in [1..n -> S] : Ascends(s)
<1> DEFINE P(n) == \A S \in SUBSET Nat : IsFiniteSet(S) /\ Cardinality(S) = n
                                          => \E s \in [1..n -> S] : Ascends(s)
           Not == {n \in Nat : ~P(n)}
<1> SUFFICES ASSUME Not # {} PROVE FALSE  OBVIOUS
<1>0. Not \in SUBSET Nat  OBVIOUS
<1>1. PICK n \in Not : \A m \in Not : n <= m
  <2> HIDE DEF Not
  <2> QED  BY Zenon, <1>0, Least
<1>2. n \in Nat /\ ~P(n)  OBVIOUS
<1>3. PICK S \in SUBSET Nat : /\ IsFiniteSet(S) /\ Cardinality(S) = n
                              /\ ~\E s \in [1..n -> S] : Ascends(s)
  BY <1>2
<1>4. CASE n = 0
  <2> DEFINE s == [i \in 1..0 |-> 0]
  <2>1. s \in [1..n -> S] /\ Ascends(s)  BY <1>4 DEF Ascends
  <2> QED  BY <1>3, <2>1, Zenon
<1>5. CASE n # 0
  <2>1. S # {}  BY Zenon, <1>3, <1>5, FS_EmptySet
  <2>2. PICK d \in S : \A e \in S : d <= e  BY Zenon, <2>1, Least
  <2> DEFINE T == S \ {d}
  <2>3. T \in SUBSET Nat /\ IsFiniteSet(T) /\ Cardinality(T) = n - 1
    BY Zenon, <1>3, FS_RemoveElement
  <2>4. n - 1 \in Nat /\ n - 1 \notin Not  BY <1>1, <1>2, <1>5
  <2>5. PICK t \in [1..(n - 1) -> T] : Ascends(t)
    <3>1. P(n - 1)  BY Zenon, <2>4
    <3> HIDE DEF T
    <3> QED  BY Zenon, <2>3, <3>1
  <2> DEFINE s == [i \in 1..n |-> IF i = 1 THEN d ELSE t[i - 1]]
  <2>6. \A i \in 1..n : i # 1 => i - 1 \in 1..(n - 1) /\ s[i] = t[i - 1] /\ t[i - 1] \in T
    BY <1>2
  <2>7. s \in [1..n -> S]  BY Zenon, <2>6
  <2>8. \A e \in T : e \in Nat /\ d < e  BY <2>2
  <2>9. ASSUME NEW i \in 1..n, NEW j \in 1..n, i < j PROVE s[i] < s[j]
    <3>1. j # 1 /\ s[j] = t[j - 1] /\ t[j - 1] \in T /\ j - 1 \in 1..(n - 1)  BY <2>6, <2>9, <1>2
    <3>2. CASE i = 1
      <4>1. s[i] = d  BY Zenon, <3>2
      <4> QED  BY <3>1, <4>1, <2>8, Zenon
    <3>3. CASE i # 1
      <4>1. s[i] = t[i - 1] /\ i - 1 \in 1..(n - 1) /\ i - 1 < j - 1  BY <2>6, <2>9, <3>3, <1>2
      <4> QED  BY Zenon, <3>1, <4>1, <2>5 DEF Ascends
    <3> QED  BY Zenon, <3>2, <3>3
  <2>10. DOMAIN s = 1..n  BY Zenon
  <2> HIDE DEF s
  <2>11. Ascends(s)  BY Zenon, <2>9, <2>10 DEF Ascends
  <2> QED  BY Zenon, <1>3, <2>7, <2>11
<1> QED  BY Zenon, <1>4, <1>5

(* InOrder lists a finite set of numbers. *)
LEMMA InOrderIs ==
  ASSUME NEW S \in SUBSET Nat, IsFiniteSet(S)
  PROVE  Cardinality(S) \in Nat /\ InOrder(S) \in [1..Cardinality(S) -> S]
<1>1. Cardinality(S) \in Nat  BY Zenon, FS_CardinalityType
<1>2. \E s \in [1..Cardinality(S) -> S] : Ascends(s)  BY Zenon, <1>1, CanBeListed
<1> QED  BY <1>1, <1>2 DEF InOrder, Ascends

-----------------------------------------------------------------------------
(* What the rules give is a list of observations with times. *)
RuleName == {"packet_loss_sustained", "packet_loss_spike", "rtt_high", "rtt_spike",
             "jitter_high", "video_freeze_repeated", "audio_concealment_high",
             "bitrate_collapse", "ice_failure"}
Observation == [rule : RuleName, start : Nat, end : Nat]

(* A function on 1..m is a sequence. *)
LEMMA SeqOf ==
  ASSUME NEW Y, NEW m \in Nat, NEW f \in [1..m -> Y]
  PROVE  f \in Seq(Y)
OBVIOUS

(* rows has n samples, each with a time. *)
Samples(rows, n) == Len(rows) = n /\ DOMAIN rows = 1..n /\ \A i \in 1..n : rows[i].ts \in Nat

(* loadConnectionStats returns a list of samples. *)
LEMMA RowsAreSamples ==
  ASSUME NEW c
  PROVE  \E n \in Nat : Samples(loadConnectionStats(c), n)
<1> DEFINE S == {t \in Instant : stats[c][t] # NoRow}
           ts == InOrder(S)
           rows == loadConnectionStats(c)
<1>1. S \in SUBSET Nat /\ IsFiniteSet(S)
  <2>1. Instant \subseteq Nat /\ IsFiniteSet(Instant)
    BY EmosAssumption, FS_Interval DEF Instant
  <2> QED  BY <2>1, FS_Subset, Zenon
<1> HIDE DEF S
<1>2. PICK n \in Nat : ts \in [1..n -> S]  BY Zenon, <1>1, InOrderIs
<1>3. /\ rows = [i \in 1..n |-> rows[i]]
      /\ \A i \in 1..n : rows[i].ts = ts[i] /\ ts[i] \in Nat
  BY <1>1, <1>2, Zenon DEF loadConnectionStats, S
<1> HIDE DEF rows
<1>4. Len(rows) = n  BY <1>3
<1> QED  BY Zenon, <1>3, <1>4 DEF Samples, rows

(* The list has the times and losses that are stored, in their order. *)
LEMMA RowsMirrorStats ==
  ASSUME NEW c
  PROVE  \E n \in Nat :
           LET rows == loadConnectionStats(c)
               ts == InOrder({t \in Instant : stats[c][t] # NoRow}) IN
           /\ Len(rows) = n /\ Len(ts) = n /\ DOMAIN rows = 1..n /\ DOMAIN ts = 1..n
           /\ \A i \in 1..n : rows[i].ts = ts[i] /\ rows[i].loss = stats[c][ts[i]].loss
<1> DEFINE S == {t \in Instant : stats[c][t] # NoRow}
           ts == InOrder(S)
           rows == loadConnectionStats(c)
<1>1. S \in SUBSET Nat /\ IsFiniteSet(S)
  <2>1. Instant \subseteq Nat /\ IsFiniteSet(Instant)
    BY EmosAssumption, FS_Interval DEF Instant
  <2> QED  BY <2>1, FS_Subset, Zenon
<1> HIDE DEF S
<1>2. PICK n \in Nat : ts \in [1..n -> S]  BY Zenon, <1>1, InOrderIs
<1>3. /\ DOMAIN ts = 1..n /\ DOMAIN rows = 1..n
      /\ \A i \in 1..n : rows[i].ts = ts[i] /\ rows[i].loss = stats[c][ts[i]].loss
  BY <1>2, Zenon DEF loadConnectionStats, S
<1>4. rows = [i \in 1..n |-> rows[i]]
  BY <1>2, Zenon DEF loadConnectionStats, S
<1> HIDE DEF rows, ts
<1>5. Len(rows) = n  BY <1>4
<1>6. Len(ts) = n  BY <1>2
<1> QED  BY Zenon, <1>3, <1>5, <1>6 DEF rows, ts, S

(* Obs of two samples of the list is an observation. *)
LEMMA ObsIs ==
  ASSUME NEW rule \in RuleName, NEW rows, NEW n \in Nat, Samples(rows, n),
         NEW i \in 1..n, NEW j \in 1..n
  PROVE  Obs(rule, rows, i, j) \in Observation
BY Zenon DEF Obs, Observation, Samples

(* A sustained rule gives observations. *)
LEMMA SustainedIs ==
  ASSUME NEW rule \in RuleName, NEW rows, NEW n \in Nat, Samples(rows, n),
         NEW bad \in SUBSET (1..n), NEW min \in Nat \ {0}
  PROVE  Sustained(rule, rows, bad, min) \in Seq(Observation)
<1> DEFINE out == Runs(n, bad, min)
<1>1. out \in Seq((1..n) \X (1..n))  BY RunsAreMaximal, Zenon
<1>2. Len(rows) = n  BY Zenon DEF Samples
<1> HIDE DEF out
<1>3. \A k \in DOMAIN out : Obs(rule, rows, out[k][1], out[k][2]) \in Observation
  <2> SUFFICES ASSUME NEW k \in DOMAIN out
               PROVE  Obs(rule, rows, out[k][1], out[k][2]) \in Observation
    BY Zenon
  <2>1. out[k][1] \in 1..n /\ out[k][2] \in 1..n  BY <1>1
  <2> QED  BY Zenon, <2>1, ObsIs
<1>4. DOMAIN out = 1..Len(out) /\ Len(out) \in Nat  BY <1>1
<1>5. [k \in DOMAIN out |-> Obs(rule, rows, out[k][1], out[k][2])] \in [1..Len(out) -> Observation]
  BY Zenon, <1>3, <1>4
<1>6. [k \in DOMAIN out |-> Obs(rule, rows, out[k][1], out[k][2])] \in Seq(Observation)
  BY Zenon, <1>4, <1>5, SeqOf
<1> QED  BY Zenon, <1>2, <1>6 DEF Sustained, out

(* A run of freezes begins at the second sample or later, so that the        *)
(* sample before it exists.                                                  *)
LEMMA FreezeIs ==
  ASSUME NEW rows, NEW n \in Nat, Samples(rows, n)
  PROVE  evaluateVideoFreezeRepeated(rows) \in Seq(Observation)
<1> DEFINE bad == {i \in DOMAIN rows : i > 1 /\ rows[i].freeze > rows[i - 1].freeze}
           out == Runs(n, bad, 2)
<1>0. Len(rows) = n /\ DOMAIN rows = 1..n  BY Zenon DEF Samples
<1>1. bad \in SUBSET (1..n) /\ 1 \notin bad  BY <1>0
<1> HIDE DEF bad
<1>2. out \in Seq((1..n) \X (1..n)) /\ Range(out) = MaximalRuns(n, bad, 2)
  <2>1. 2 \in Nat \ {0}  OBVIOUS
  <2> QED  BY <1>1, <2>1, RunsAreMaximal, Zenon
<1> HIDE DEF out
<1>3. \A k \in DOMAIN out :
        Obs("video_freeze_repeated", rows, out[k][1] - 1, out[k][2]) \in Observation
  <2> SUFFICES ASSUME NEW k \in DOMAIN out
               PROVE  Obs("video_freeze_repeated", rows, out[k][1] - 1, out[k][2]) \in Observation
    BY Zenon
  <2>1. out[k][1] \in 1..n /\ out[k][2] \in 1..n  BY <1>2
  <2>2. out[k] \in MaximalRuns(n, bad, 2)  BY Zenon, <1>2 DEF Range
  <2>3. out[k][2] - out[k][1] + 1 >= 2 /\ out[k][1]..out[k][2] \subseteq bad  BY Zenon, <2>2 DEF MaximalRuns
  <2>4. out[k][1] \in bad  BY <2>1, <2>3
  <2>5. out[k][1] - 1 \in 1..n  BY <1>1, <2>1, <2>4
  <2>6. "video_freeze_repeated" \in RuleName  BY DEF RuleName
  <2> QED  BY Zenon, <2>1, <2>5, <2>6, ObsIs
<1>4. DOMAIN out = 1..Len(out) /\ Len(out) \in Nat  BY <1>2
<1>5. [k \in DOMAIN out |-> Obs("video_freeze_repeated", rows, out[k][1] - 1, out[k][2])]
        \in [1..Len(out) -> Observation]
  BY Zenon, <1>3, <1>4
<1>6. [k \in DOMAIN out |-> Obs("video_freeze_repeated", rows, out[k][1] - 1, out[k][2])]
        \in Seq(Observation)
  BY Zenon, <1>4, <1>5, SeqOf
<1> QED  BY Zenon, <1>0, <1>6 DEF evaluateVideoFreezeRepeated, out, bad

(* A rule on single samples gives observations, and so does one on a sample  *)
(* and the one before it if it passes over the first.                        *)
LEMMA SpikesAre ==
  ASSUME NEW rule \in RuleName, NEW rows, NEW n \in Nat, Samples(rows, n),
         NEW hit \in SUBSET (1..n)
  PROVE  /\ Spikes(rule, rows, hit) \in Seq(Observation)
         /\ 1 \notin hit => Pairs(rule, rows, hit) \in Seq(Observation)
<1> DEFINE s == InOrder(hit)
<1>1. hit \in SUBSET Nat /\ IsFiniteSet(hit)
  <2>1. hit \in SUBSET Nat  OBVIOUS
  <2>2. IsFiniteSet(1..n)  BY FS_Interval
  <2>3. IsFiniteSet(hit)  BY <2>2, FS_Subset, Zenon
  <2> QED  BY Zenon, <2>1, <2>3
<1>2. PICK m \in Nat : s \in [1..m -> hit]  BY <1>1, InOrderIs
<1>3. \A k \in 1..m : s[k] \in 1..n /\ s[k] \in hit  BY <1>2, Zenon
<1>4. DOMAIN s = 1..m  BY Zenon, <1>2
<1> HIDE DEF s
<1>5. \A k \in 1..m : Obs(rule, rows, s[k], s[k]) \in Observation  BY Zenon, <1>3, ObsIs
<1>6. [k \in 1..m |-> Obs(rule, rows, s[k], s[k])] \in Seq(Observation)
  <2>1. [k \in 1..m |-> Obs(rule, rows, s[k], s[k])] \in [1..m -> Observation]  BY Zenon, <1>5
  <2> QED  BY Zenon, <2>1, SeqOf
<1>7. ASSUME 1 \notin hit PROVE [k \in 1..m |-> Obs(rule, rows, s[k] - 1, s[k])] \in Seq(Observation)
  <2>1. \A k \in 1..m : s[k] - 1 \in 1..n  BY <1>3, <1>7
  <2>2. \A k \in 1..m : Obs(rule, rows, s[k] - 1, s[k]) \in Observation  BY Zenon, <1>3, <2>1, ObsIs
  <2>3. [k \in 1..m |-> Obs(rule, rows, s[k] - 1, s[k])] \in [1..m -> Observation]  BY Zenon, <2>2
  <2> QED  BY Zenon, <2>3, SeqOf
<1> QED  BY Zenon, <1>4, <1>6, <1>7 DEF Spikes, Pairs, s

(* Every sustained rule asks for at least one sample. *)
LEMMA MinimaPositive ==
  /\ loadThresholds.packet_loss_sustained_min \in Nat \ {0}
  /\ loadThresholds.rtt_high_min \in Nat \ {0}
  /\ loadThresholds.jitter_high_min \in Nat \ {0}
  /\ loadThresholds.audio_concealment_high_min \in Nat \ {0}
BY EmosAssumption DEF loadThresholds, Defaults

(* The rules give observations, ... *)
LEMMA RulesGiveObservations ==
  ASSUME NEW rows, NEW n \in Nat, Samples(rows, n)
  PROVE  RuleObservations(rows, loadThresholds) \in Seq(Observation)
<1> DEFINE th == loadThresholds
<1>0. DOMAIN rows = 1..n  BY Zenon DEF Samples
<1>1. evaluatePacketLossSustained(rows, th) \in Seq(Observation)
  <2> DEFINE hit == {i \in DOMAIN rows : rows[i].loss > th.packet_loss_sustained}
  <2>1. hit \in SUBSET (1..n)  BY Zenon, <1>0
  <2>2. "packet_loss_sustained" \in RuleName  BY Zenon DEF RuleName
  <2> HIDE DEF hit, th
  <2>3. th.packet_loss_sustained_min \in Nat \ {0}  BY Zenon, MinimaPositive DEF th
  <2> QED  BY Zenon, <2>1, <2>2, <2>3, SustainedIs DEF evaluatePacketLossSustained, hit
<1>2. evaluateRTTHigh(rows, th) \in Seq(Observation)
  <2> DEFINE hit == {i \in DOMAIN rows : rows[i].rtt > th.rtt_high}
  <2>1. hit \in SUBSET (1..n)  BY Zenon, <1>0
  <2>2. "rtt_high" \in RuleName  BY DEF RuleName
  <2> HIDE DEF hit, th
  <2>3. th.rtt_high_min \in Nat \ {0}  BY Zenon, MinimaPositive DEF th
  <2> QED  BY Zenon, <2>1, <2>2, <2>3, SustainedIs DEF evaluateRTTHigh, hit
<1>3. evaluateJitterHigh(rows, th) \in Seq(Observation)
  <2> DEFINE hit == {i \in DOMAIN rows : rows[i].jitter > th.jitter_high}
  <2>1. hit \in SUBSET (1..n)  BY <1>0
  <2>2. "jitter_high" \in RuleName  BY Zenon DEF RuleName
  <2> HIDE DEF hit, th
  <2>3. th.jitter_high_min \in Nat \ {0}  BY Zenon, MinimaPositive DEF th
  <2> QED  BY Zenon, <2>1, <2>2, <2>3, SustainedIs DEF evaluateJitterHigh, hit
<1>4. evaluateAudioConcealmentHigh(rows, th) \in Seq(Observation)
  <2> DEFINE hit == {i \in DOMAIN rows : rows[i].concealment > th.audio_concealment_high}
  <2>1. hit \in SUBSET (1..n)  BY Zenon, <1>0
  <2>2. "audio_concealment_high" \in RuleName  BY DEF RuleName
  <2> HIDE DEF hit, th
  <2>3. th.audio_concealment_high_min \in Nat \ {0}  BY Zenon, MinimaPositive DEF th
  <2> QED  BY Zenon, <2>1, <2>2, <2>3, SustainedIs DEF evaluateAudioConcealmentHigh, hit
<1>5. evaluatePacketLossSpike(rows, th) \in Seq(Observation)
  <2> DEFINE hit == {i \in DOMAIN rows : rows[i].loss > th.packet_loss_spike}
  <2>1. hit \in SUBSET (1..n)  BY Zenon, <1>0
  <2>2. "packet_loss_spike" \in RuleName  BY Zenon DEF RuleName
  <2> HIDE DEF hit, th
  <2> QED  BY Zenon, <2>1, <2>2, SpikesAre DEF evaluatePacketLossSpike, hit
<1>6. evaluateRTTSpike(rows, th) \in Seq(Observation)
  <2> DEFINE hit == {i \in DOMAIN rows : i > 1 /\ rows[i].rtt - rows[i - 1].rtt > th.rtt_spike_delta}
  <2>1. hit \in SUBSET (1..n) /\ 1 \notin hit  BY <1>0
  <2>2. "rtt_spike" \in RuleName  BY Zenon DEF RuleName
  <2> HIDE DEF hit, th
  <2> QED  BY Zenon, <2>1, <2>2, SpikesAre DEF evaluateRTTSpike, hit
<1>7. evaluateBitrateCollapse(rows, th) \in Seq(Observation)
  <2> DEFINE hit == {i \in DOMAIN rows :
                       /\ i > 1
                       /\ rows[i - 1].bitrate > 0
                       /\ 100 * rows[i].bitrate
                            < (100 - th.bitrate_collapse_ratio) * rows[i - 1].bitrate}
  <2>1. hit \in SUBSET (1..n) /\ 1 \notin hit  BY <1>0
  <2>2. "bitrate_collapse" \in RuleName  BY Zenon DEF RuleName
  <2> HIDE DEF hit, th
  <2> QED  BY Zenon, <2>1, <2>2, SpikesAre DEF evaluateBitrateCollapse, hit
<1>8. evaluateVideoFreezeRepeated(rows) \in Seq(Observation)  BY Zenon, FreezeIs
<1> HIDE DEF th
<1> QED  BY <1>1, <1>2, <1>3, <1>4, <1>5, <1>6, <1>7, <1>8 DEF RuleObservations, th

(* ... and so does the one on ICE failures. *)
LEMMA IceGivesObservations ==
  ASSUME NEW c \in Conn
  PROVE  evaluateICEFailure(c) \in Seq(Observation)
<1> DEFINE s == InOrder(Ice[c])
<1>1. Ice[c] \in SUBSET Nat /\ IsFiniteSet(Ice[c])
  <2>1. Ice[c] \subseteq 0..MaxInstant /\ MaxInstant \in Nat  BY ZenonT(60), EmosAssumption
  <2>2. IsFiniteSet(0..MaxInstant)  BY <2>1, FS_Interval
  <2>3. IsFiniteSet(Ice[c])  BY Zenon, <2>1, <2>2, FS_Subset
  <2>4. Ice[c] \in SUBSET Nat  BY <2>1
  <2> QED  BY Zenon, <2>3, <2>4
<1>2. PICK m \in Nat : s \in [1..m -> Ice[c]]  BY Zenon, <1>1, InOrderIs
<1>3. DOMAIN s = 1..m /\ \A k \in 1..m : s[k] \in Nat  BY Zenon, <1>1, <1>2
<1> HIDE DEF s
<1>4. \A k \in 1..m : [rule |-> "ice_failure", start |-> s[k], end |-> s[k]] \in Observation
  BY Zenon, <1>3 DEF Observation, RuleName
<1>5. [k \in DOMAIN s |-> [rule |-> "ice_failure", start |-> s[k], end |-> s[k]]]
        \in [1..m -> Observation]
  BY Zenon, <1>3, <1>4
<1>6. [k \in DOMAIN s |-> [rule |-> "ice_failure", start |-> s[k], end |-> s[k]]]
        \in Seq(Observation)
  BY Zenon, <1>5, SeqOf
<1> QED  BY Zenon, <1>6 DEF evaluateICEFailure, s

(* The loop of evaluatePacketLossSustained finds each maximal run of samples *)
(* over the threshold, for every list of statistics and every configuration. *)
LEMMA SustainedHolds == SustainedIsMaximal
<1>1. LoopIsMaximal
  <2> SUFFICES ASSUME NEW n \in 0..7, NEW bad \in SUBSET (1..n), NEW min \in 1..4
               PROVE  /\ Range(Runs(n, bad, min)) = MaximalRuns(n, bad, min)
                      /\ \A i, j \in DOMAIN Runs(n, bad, min) :
                           i < j => Runs(n, bad, min)[i][2] < Runs(n, bad, min)[j][1]
    BY DEF LoopIsMaximal
  <2>1. n \in Nat /\ min \in Nat \ {0}  OBVIOUS
  <2> QED  BY <2>1, RunsAreMaximal, Zenon
<1>2. ASSUME NEW c
      PROVE  LET rows == loadConnectionStats(c)
                 bad == {i \in DOMAIN rows : rows[i].loss > loadThresholds.packet_loss_sustained}
             IN Range(evaluatePacketLossSustained(rows, loadThresholds)) =
                  {Obs("packet_loss_sustained", rows, r[1], r[2]) :
                     r \in MaximalRuns(Len(rows), bad, loadThresholds.packet_loss_sustained_min)}
  <2> DEFINE rows == loadConnectionStats(c)
             min == loadThresholds.packet_loss_sustained_min
             bad == {i \in DOMAIN rows : rows[i].loss > loadThresholds.packet_loss_sustained}
             out == Runs(Len(rows), bad, min)
             obs == evaluatePacketLossSustained(rows, loadThresholds)
             O(r) == Obs("packet_loss_sustained", rows, r[1], r[2])
  <2>1. Len(rows) \in Nat /\ DOMAIN rows = 1..Len(rows)
    BY Zenon, RowsAreSamples DEF Samples
  <2>2. bad \in SUBSET (1..Len(rows)) /\ min \in Nat \ {0}  BY Zenon, <2>1, MinimaPositive
  <2>3. obs = [k \in DOMAIN out |-> O(out[k])]
    BY DEF evaluatePacketLossSustained, Sustained
  <2> HIDE DEF rows, min, bad, obs
  <2>4. Range(out) = MaximalRuns(Len(rows), bad, min)  BY <2>1, <2>2, RunsAreMaximal, Zenon
  <2> HIDE DEF out
  <2>5. Range(obs) = {O(r) : r \in Range(out)}
    <3> HIDE DEF O
    <3> QED  BY <2>3 DEF Range
  <2> QED  BY Zenon, <2>4, <2>5 DEF rows, min, bad, obs
<1>3. ASSUME NEW c
      PROVE  Range(evaluatePacketLossSustained(loadConnectionStats(c), loadThresholds))
               = LossRuns(c)
  <2> DEFINE rows == loadConnectionStats(c)
             ts == InOrder({t \in Instant : stats[c][t] # NoRow})
             min == loadThresholds.packet_loss_sustained_min
             bad == {i \in DOMAIN rows : rows[i].loss > loadThresholds.packet_loss_sustained}
             off == {i \in DOMAIN ts : stats[c][ts[i]].loss > loadThresholds.packet_loss_sustained}
             R == MaximalRuns(Len(ts), off, min)
             T(r) == [rule |-> "packet_loss_sustained", start |-> ts[r[1]], end |-> ts[r[2]]]
             O(r) == Obs("packet_loss_sustained", rows, r[1], r[2])
  <2>1. PICK n \in Nat :
          /\ Len(rows) = n /\ Len(ts) = n /\ DOMAIN rows = 1..n /\ DOMAIN ts = 1..n
          /\ \A i \in 1..n : rows[i].ts = ts[i] /\ rows[i].loss = stats[c][ts[i]].loss
    BY Zenon, RowsMirrorStats
  <2>2. bad = off  BY Zenon, <2>1
  <2>3. \A r \in R : r[1] \in 1..n /\ r[2] \in 1..n  BY <2>1 DEF MaximalRuns
  <2>4. \A r \in R : O(r) = T(r)  BY Zenon, <2>1, <2>3 DEF Obs
  <2>5. LossRuns(c) = {T(r) : r \in R}  BY Zenon DEF LossRuns
  <2>6. Range(evaluatePacketLossSustained(rows, loadThresholds)) = {O(r) : r \in R}
    <3>1. Range(evaluatePacketLossSustained(rows, loadThresholds))
            = {O(r) : r \in MaximalRuns(Len(rows), bad, min)}
      BY Zenon, <1>2
    <3>2. Len(rows) = Len(ts)  BY Zenon, <2>1
    <3> HIDE DEF rows, ts, bad, off, min, O
    <3> QED  BY Zenon, <2>2, <3>1, <3>2
  <2> HIDE DEF T, O, R
  <2>7. {T(r) : r \in R} = {O(r) : r \in R}  BY Zenon, <2>4
  <2> QED  BY Zenon, <2>5, <2>6, <2>7
<1> QED  BY Zenon, <1>1, <1>3 DEF SustainedIsMaximal

(* Every run of samples over the threshold is found whole and once in what   *)
(* is stored about a connection, if it can be loaded, for any statistics and *)
(* configuration (evaluatePacketLossSustained and its copies).               *)
THEOREM RunsFoundWhole == Spec => []SustainedIsMaximal
BY SustainedHolds, PTL
-----------------------------------------------------------------------------
(* Only insertObservationIfNew writes observations. *)
LEMMA EventsFrame ==
  ASSUME [Next]_vars
  PROVE  events' = events \/ insertObservationIfNew
BY Zenon DEF Next, vars, jobVars, Store, RunJob, Statement, QuerySessions, QueryConnections,
       QueryConnectionsError, JobError, Upsert, EvaluateConnection, EvaluateError, InsertError,
       NextConnection, JobDone, Acquire, Release, Quiet

(* A row at the end of a table. *)
LEMMA AppendRow ==
  ASSUME NEW s, s \in Seq(Range(s)), NEW x
  PROVE  /\ Append(s, x) \in Seq(Range(Append(s, x)))
         /\ Range(Append(s, x)) = Range(s) \union {x}
         /\ Len(s) \in Nat /\ DOMAIN s = 1..Len(s) /\ DOMAIN Append(s, x) = 1..(Len(s) + 1)
         /\ \A i \in 1..Len(s) : Append(s, x)[i] = s[i]
         /\ Append(s, x)[Len(s) + 1] = x
<1> DEFINE t == Append(s, x)
           n == Len(s)
           U == Range(s) \union {x}
<1>1. /\ n \in Nat /\ DOMAIN s = 1..n /\ DOMAIN t = 1..(n + 1)
      /\ (\A i \in 1..n : t[i] = s[i]) /\ t[n + 1] = x
  OBVIOUS
<1>2. t \in Seq(U)
  <2>1. s \in [1..n -> U]  OBVIOUS
  <2>2. s \in Seq(U) /\ x \in U  BY Zenon, <1>1, <2>1, SeqOf
  <2> HIDE DEF U
  <2> QED  BY <2>2
<1>3. Range(s) = {s[i] : i \in 1..n} /\ Range(t) = {t[i] : i \in 1..(n + 1)}  BY Zenon, <1>1 DEF Range
<1> HIDE DEF t, n
<1>4. \A i \in 1..n : i \in 1..(n + 1)  BY <1>1
<1>5. n + 1 \in 1..(n + 1) /\ \A i \in 1..(n + 1) : i \in 1..n \/ i = n + 1  BY <1>1
<1>6. Range(t) \subseteq U
  BY Zenon, <1>1, <1>3, <1>5
<1>7. U \subseteq Range(t)
  BY Zenon, <1>1, <1>3, <1>4, <1>5
<1> HIDE DEF U
<1>8. Range(t) = U  BY <1>6, <1>7, Zenon
<1> QED  BY Zenon, <1>1, <1>2, <1>8 DEF t, n, U

(* events is a table, and an observation in whole seconds is in it once. *)
WholeInv == events \in Seq(Range(events)) /\ WholeSecondsOnce

(* Every step keeps it: a stored observation in whole seconds is found by    *)
(* the check.                                                                *)
LEMMA WholeStep == WholeInv /\ [Next]_vars => WholeInv'
<1> SUFFICES ASSUME WholeInv, [Next]_vars PROVE WholeInv'  OBVIOUS
<1>1. CASE events' = events
  BY Zenon, <1>1 DEF WholeInv, WholeSecondsOnce, RFC3339, Range
<1>2. CASE insertObservationIfNew /\ events' # events
  <2> DEFINE o == Head(todo)
             x == [conn |-> at, obs |-> o]
             n == Len(events)
             OnTheSecond(y) == RFC3339(y.obs.start) = y.obs.start /\ RFC3339(y.obs.end) = y.obs.end
  <2>1. ~Exists(at, o) /\ events' = Append(events, x)
    BY Zenon, <1>2 DEF insertObservationIfNew
  <2>2. events \in Seq(Range(events))  BY Zenon DEF WholeInv
  <2>3. x.conn = at /\ x.obs = o  BY Zenon
  <2>4. OnTheSecond(x) => x \notin Range(events)  BY Zenon, <2>1, <2>3 DEF Exists
  <2> HIDE DEF x, o
  <2>5. /\ events' \in Seq(Range(events'))
        /\ n \in Nat /\ DOMAIN events = 1..n /\ DOMAIN events' = 1..(n + 1)
        /\ \A i \in 1..n : events'[i] = events[i]
        /\ events'[n + 1] = x
    BY <2>1, <2>2, AppendRow
  <2> HIDE DEF n
  <2>6. \A i, j \in 1..n : events[i] = events[j] /\ OnTheSecond(events[i]) => i = j
    BY Zenon, <2>5 DEF WholeInv, WholeSecondsOnce
  <2> HIDE DEF OnTheSecond
  <2>7. \A i \in 1..n : events[i] \in Range(events)  BY Zenon, <2>5 DEF Range
  <2>8. ASSUME NEW i \in 1..(n + 1), NEW j \in 1..(n + 1),
               events'[i] = events'[j], OnTheSecond(events'[i])
        PROVE  i = j
    <3>1. (i \in 1..n \/ i = n + 1) /\ (j \in 1..n \/ j = n + 1)  BY <2>5
    <3>2. CASE i \in 1..n /\ j \in 1..n  BY Zenon, <2>5, <2>6, <2>8, <3>2
    <3>3. CASE i = n + 1 /\ j \in 1..n  BY <2>4, <2>5, <2>7, <2>8, <3>3, Zenon
    <3>4. CASE j = n + 1 /\ i \in 1..n  BY <2>4, <2>5, <2>7, <2>8, <3>4, Zenon
    <3> QED  BY <3>1, <3>2, <3>3, <3>4
  <2>9. WholeSecondsOnce'  BY Zenon, <2>5, <2>8 DEF WholeSecondsOnce, OnTheSecond, RFC3339
  <2> QED  BY Zenon, <2>5, <2>9 DEF WholeInv, Range
<1> QED  BY Zenon, <1>1, <1>2, EventsFrame

(* An observation in whole seconds is stored once, for every number of jobs, *)
(* statistics that arrive between them, errors and connections               *)
(* (insertObservationIfNew).                                                 *)
THEOREM StoredOnce == Spec => []WholeSecondsOnce
<1>1. Init => WholeInv
  BY DEF Init, WholeInv, WholeSecondsOnce, Range
<1>2. WholeInv => WholeSecondsOnce  BY Zenon DEF WholeInv
<1> QED  BY <1>1, <1>2, WholeStep, PTL DEF Spec
-----------------------------------------------------------------------------
(* o is in the events table to the second. *)
StoredAs(c, o) ==
  \E e \in Range(events) :
    /\ e.conn = c /\ e.obs.rule = o.rule
    /\ RFC3339(e.obs.start) = RFC3339(o.start)
    /\ RFC3339(e.obs.end) = RFC3339(o.end)

(* What the rules found on a connection is still to be inserted, or stored. *)
FoundInv ==
  /\ conns \subseteq Conn
  /\ todo \in Seq(Observation)
  /\ events \in Seq(Range(events))
  /\ \A e \in Range(events) : e.obs \in Observation
  /\ found \subseteq Observation
  /\ at \notin Conn => found = {}
  /\ \A o \in found : o \in Range(todo) \/ StoredAs(at, o)

(* Formatting a formatted time changes nothing. *)
LEMMA RFC3339Twice ==
  ASSUME NEW t \in Nat
  PROVE  RFC3339(RFC3339(t)) = RFC3339(t)
BY EmosAssumption DEF RFC3339

(* What the check finds is stored. *)
LEMMA ExistsIsStored ==
  ASSUME NEW c, NEW o, Exists(c, o), \A e \in Range(events) : e.obs \in Observation
  PROVE  StoredAs(c, o)
<1>1. PICK e \in Range(events) :
        e.conn = c /\ e.obs.rule = o.rule /\ RFC3339(e.obs.start) = o.start /\ RFC3339(e.obs.end) = o.end
  BY Zenon DEF Exists
<1>2. e.obs.start \in Nat /\ e.obs.end \in Nat  BY Zenon DEF Observation
<1>3. RFC3339(o.start) = RFC3339(e.obs.start) /\ RFC3339(o.end) = RFC3339(e.obs.end)
  BY Zenon, <1>1, <1>2, RFC3339Twice
<1> QED  BY Zenon, <1>1, <1>3 DEF StoredAs

(* The rows of the table after an insert. *)
LEMMA InsertAdds ==
  ASSUME insertObservationIfNew, ~Exists(at, Head(todo)), events \in Seq(Range(events))
  PROVE  /\ events' \in Seq(Range(events'))
         /\ Range(events') = Range(events) \union {[conn |-> at, obs |-> Head(todo)]}
<1> DEFINE x == [conn |-> at, obs |-> Head(todo)]
<1>1. events' = Append(events, x)  BY Zenon DEF insertObservationIfNew
<1> HIDE DEF x
<1>2. /\ events' \in Seq(Range(events')) /\ Range(events') = Range(events) \union {x}
  BY Zenon, <1>1, AppendRow
<1> QED  BY Zenon, <1>2 DEF x

(* What is stored stays stored. *)
LEMMA StoredStays ==
  ASSUME NEW o, StoredAs(at, o), at' = at, Range(events) \subseteq Range(events')
  PROVE  StoredAs(at, o)'
BY Zenon DEF StoredAs, Range, RFC3339

(* The head of a list and the rest of it. *)
LEMMA HeadAndTail ==
  ASSUME NEW S, NEW s \in Seq(S), s # <<>>
  PROVE  /\ Head(s) \in S /\ Tail(s) \in Seq(S)
         /\ Range(s) = Range(Tail(s)) \union {Head(s)}
<1>1. Head(s) \in S /\ Tail(s) \in Seq(S) /\ Head(s) = s[1]  OBVIOUS
<1>2. Len(s) \in Nat \ {0} /\ DOMAIN s = 1..Len(s) /\ DOMAIN Tail(s) = 1..(Len(s) - 1)  OBVIOUS
<1>3. \A i \in 1..(Len(s) - 1) : Tail(s)[i] = s[i + 1]  OBVIOUS
<1>4. ASSUME NEW i \in 1..Len(s) PROVE s[i] = Head(s) \/ \E j \in 1..(Len(s) - 1) : s[i] = Tail(s)[j]
  <2>1. CASE i = 1  BY Zenon, <1>1, <2>1
  <2>2. CASE i # 1
    <3>1. i - 1 \in 1..(Len(s) - 1) /\ (i - 1) + 1 = i  BY <1>2, <2>2
    <3> QED  BY <1>3, <3>1, Zenon
  <2> QED  BY Zenon, <2>1, <2>2
<1>5. ASSUME NEW j \in 1..(Len(s) - 1) PROVE \E i \in 1..Len(s) : s[i] = Tail(s)[j]
  <2>1. j + 1 \in 1..Len(s)  BY <1>2
  <2> QED  BY Zenon, <1>3, <2>1
<1>6. \E i \in 1..Len(s) : s[i] = Head(s)  BY <1>1, <1>2
<1>7. Range(s) = {s[i] : i \in 1..Len(s)} /\ Range(Tail(s)) = {Tail(s)[i] : i \in 1..(Len(s) - 1)}
  BY <1>2, Zenon DEF Range
<1>8. Range(s) \subseteq Range(Tail(s)) \union {Head(s)}  BY Zenon, <1>4, <1>7
<1>9. Range(Tail(s)) \union {Head(s)} \subseteq Range(s)  BY Zenon, <1>5, <1>6, <1>7
<1> QED  BY Zenon, <1>1, <1>8, <1>9

(* Every step keeps it: an observation leaves todo when it is stored, when   *)
(* one like it is, or when it failed and leaves found too.                   *)
LEMMA FoundStep == FoundInv /\ [Next]_vars => FoundInv'
<1> SUFFICES ASSUME FoundInv, [Next]_vars PROVE FoundInv'  OBVIOUS
<1>1. ASSUME UNCHANGED <<events, at, todo, found>>, conns' \subseteq Conn PROVE FoundInv'
  BY <1>1 DEF FoundInv, StoredAs, Range, RFC3339
<1>2. ASSUME UNCHANGED <<events, todo>>, found' = {}, conns' \subseteq Conn PROVE FoundInv'
  BY Zenon, <1>2 DEF FoundInv, Range
<1>3. at \in {"idle", "score", "connections"} => found = {}
  BY ZenonT(60), EmosAssumption DEF FoundInv
<1>4. CASE \E c \in Conn, t \in Instant, x \in Sample : Store(c, t, x)
  BY Zenon, <1>1, <1>4 DEF Store, FoundInv
<1>5. CASE QuerySessions \/ QueryConnections \/ QueryConnectionsError \/ JobError
  BY Zenon, <1>2, <1>3, <1>5 DEF QuerySessions, QueryConnections, QueryConnectionsError, JobError, FoundInv
<1>6. CASE \E row \in scores : Upsert(row)
  BY Zenon, <1>1, <1>6 DEF Upsert, FoundInv
<1>7. ASSUME NEW c \in conns, EvaluateConnection(c) PROVE FoundInv'
  <2> DEFINE rows == loadConnectionStats(c)
             obs == RuleObservations(rows, loadThresholds)
  <2>0. c \in Conn /\ conns' \subseteq Conn /\ events' = events
    BY Zenon, <1>7 DEF EvaluateConnection, FoundInv
  <2>1. CASE ~Scans(c) \/ rows = <<>>
    BY Zenon, <1>2, <1>7, <2>0, <2>1 DEF EvaluateConnection
  <2>2. CASE Scans(c) /\ rows # <<>>
    <3>1. at' = c /\ (todo' = obs \o evaluateICEFailure(c) \/ todo' = obs) /\ found' = Range(todo')
      BY Zenon, <1>7, <2>2 DEF EvaluateConnection
    <3>2. obs \in Seq(Observation)  BY Zenon, RowsAreSamples, RulesGiveObservations
    <3>3. evaluateICEFailure(c) \in Seq(Observation)  BY Zenon, <2>0, IceGivesObservations
    <3> HIDE DEF obs, rows
    <3>4. todo' \in Seq(Observation)
      <4>1. obs \o evaluateICEFailure(c) \in Seq(Observation)  BY <3>2, <3>3
      <4> QED  BY <3>1, <3>2, <4>1, Zenon
    <3>5. found' \subseteq Observation  BY <3>1, <3>4 DEF Range
    <3> QED  BY Zenon, <2>0, <3>1, <3>4, <3>5 DEF FoundInv, Range
  <2> QED  BY Zenon, <2>1, <2>2
<1>8. ASSUME NEW c \in conns, EvaluateError(c) PROVE FoundInv'
  BY Zenon, <1>2, <1>8 DEF EvaluateError, FoundInv
<1>9. CASE insertObservationIfNew
  <2>1. /\ at \in Conn /\ todo # <<>> /\ todo' = Tail(todo) /\ UNCHANGED <<at, conns, found>>
    BY Zenon, <1>9 DEF insertObservationIfNew
  <2>2. /\ Head(todo) \in Observation /\ Tail(todo) \in Seq(Observation)
        /\ Range(todo) = Range(Tail(todo)) \union {Head(todo)}
    BY Zenon, <2>1, HeadAndTail DEF FoundInv
  <2>3. /\ events' \in Seq(Range(events'))
        /\ Range(events) \subseteq Range(events')
        /\ \A e \in Range(events') : e.obs \in Observation
        /\ \A o : o = Head(todo) => StoredAs(at, o)'
    <3>1. CASE Exists(at, Head(todo))
      <4>1. events' = events  BY Zenon, <1>9, <3>1 DEF insertObservationIfNew
      <4>2. events \in Seq(Range(events)) /\ \A e \in Range(events) : e.obs \in Observation
        BY Zenon DEF FoundInv
      <4>3. StoredAs(at, Head(todo))  BY Zenon, <3>1, <4>2, ExistsIsStored
      <4> QED  BY Zenon, <2>1, <4>1, <4>2, <4>3, StoredStays
    <3>2. CASE ~Exists(at, Head(todo))
      <4> DEFINE x == [conn |-> at, obs |-> Head(todo)]
      <4>0. events \in Seq(Range(events))  BY Zenon DEF FoundInv
      <4>1. events' \in Seq(Range(events')) /\ Range(events') = Range(events) \union {x}
        BY Zenon, <1>9, <3>2, <4>0, InsertAdds
      <4>2. x.conn = at /\ x.obs = Head(todo) /\ x \in Range(events')  BY Zenon, <4>1
      <4> HIDE DEF x
      <4>3. ASSUME NEW o, o = Head(todo) PROVE StoredAs(at, o)'
        BY Zenon, <2>1, <4>2, <4>3 DEF StoredAs, Range
      <4> QED  BY Zenon, <2>2, <4>1, <4>2, <4>3 DEF FoundInv
    <3> QED  BY Zenon, <3>1, <3>2
  <2>4. Range(events)' = Range(events') /\ Range(todo)' = Range(todo')  BY Zenon DEF Range
  <2>5. ASSUME NEW o \in found PROVE o \in Range(todo') \/ StoredAs(at, o)'
    <3>1. o \in Range(todo) \/ StoredAs(at, o)  BY Zenon DEF FoundInv
    <3>2. CASE StoredAs(at, o)  BY Zenon, <3>2, <2>1, <2>3, StoredStays
    <3>3. CASE o \in Range(todo)  BY Zenon, <3>3, <2>1, <2>2, <2>3
    <3> QED  BY Zenon, <3>1, <3>2, <3>3
  <2> QED  BY Zenon, <2>1, <2>2, <2>3, <2>4, <2>5 DEF FoundInv
<1>10. CASE InsertError
  <2>1. /\ todo # <<>> /\ todo' = Tail(todo) /\ UNCHANGED <<at, conns, events>>
        /\ found' = found \ {Head(todo)}
    BY Zenon, <1>10 DEF InsertError
  <2>2. /\ Tail(todo) \in Seq(Observation)
        /\ Range(todo) = Range(Tail(todo)) \union {Head(todo)}
    BY Zenon, <2>1, HeadAndTail DEF FoundInv
  <2>3. Range(events)' = Range(events) /\ Range(todo)' = Range(todo')  BY Zenon, <2>1 DEF Range
  <2>4. \A o : StoredAs(at, o) => StoredAs(at, o)'  BY Zenon, <2>1, <2>3, StoredStays DEF Range
  <2> QED  BY Zenon, <2>1, <2>2, <2>3, <2>4 DEF FoundInv
<1>11. CASE NextConnection \/ JobDone
  BY Zenon, <1>2, <1>11 DEF NextConnection, JobDone, FoundInv
<1>12. CASE Acquire \/ Release \/ Quiet \/ UNCHANGED vars
  BY Zenon, <1>1, <1>12 DEF Acquire, Release, Quiet, vars, jobVars, FoundInv
<1> QED  BY ZenonT(60), <1>4, <1>5, <1>6, <1>7, <1>8, <1>9, <1>10, <1>11, <1>12
         DEF Next, RunJob, Statement

(* What the rules found on a connection is in the events table to the second *)
(* when EvaluateConnection is done with it, except what failed to be         *)
(* inserted, for every number of jobs, errors and statistics that arrive.    *)
THEOREM NothingFoundIsLost == Spec => []FoundIsStored
<1>1. Init => FoundInv
  BY DEF Init, FoundInv, Range
<1>2. FoundInv => FoundIsStored  BY DEF FoundInv, FoundIsStored, StoredAs, Range
<1> QED  BY <1>1, <1>2, FoundStep, PTL DEF Spec
=============================================================================
