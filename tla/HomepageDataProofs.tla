------------------------- MODULE HomepageDataProofs -------------------------
(***************************************************************************)
(* Proofs about HomepageData, for any number of algorithms and any growth  *)
(* of the chain: how refreshes leave the rows, what a page made of them    *)
(* shows, and which entry of the reward schedule nominalEpochReward finds. *)
(* Steps with numbers as large as those of the schedule name SMT, as Zenon *)
(* does not count that far.                                                *)
(***************************************************************************)
EXTENDS HomepageData, SumLemmas

\* What Upsert can write for a nominal reward, and as a row.
Nominals == {Nominal[a][d][r] : a \in Algo, d \in Heights, r \in Heights}

AnyRow == [dyn : 0..MaxHeight, supply : 0..MaxHeight, reward : 0..MaxHeight,
           nominal : {0} \cup Nominals]

Shape ==
    /\ tip \in Heights
    /\ index \in 0..tip
    /\ rows \in [Algo -> AnyRow]
    /\ pass \in Pass
    /\ draft \in Draft
    /\ status \in Status
    /\ page \in Page

\* Shape as the provers need it: what is a number, and what a function.
Figures ==
    /\ tip \in Nat /\ index \in Nat /\ index <= tip
    /\ rows = [a \in Algo |-> rows[a]]
    /\ \A a \in Algo : rows[a].supply \in Nat /\ rows[a].dyn \in Nat
    /\ pass.algo \in Nat /\ pass.dyn \in Nat /\ pass.supply \in Nat
    /\ draft.status.node \in Nat /\ draft.status.listed \in Nat /\ draft.status.behind \in Nat
    /\ \A a \in Algo : draft.page.shown[a] \in Nat /\ draft.page.total[a] \in Nat

\* Rows and locals come from the past; what a pass has written is the upper
\* part of the table, and no row is newer than the pass.
PassInv ==
    /\ \A a \in Algo : rows[a].supply <= tip /\ rows[a].dyn <= tip
    /\ ipc \in {"supply", "reward", "upsert"} =>
        /\ pass.algo \in Algo
        /\ pass.dyn \in 1..tip
        /\ \A a \in Algo : /\ rows[a].dyn <= pass.dyn
                           /\ a < pass.algo => rows[a].dyn = pass.dyn
    /\ ipc \in {"reward", "upsert"} => /\ pass.supply \in 1..tip
                                       /\ rows[pass.algo].supply <= pass.supply
    /\ ipc = "upsert" => pass.reward \in 1..tip

\* What generate has read so far agrees with what the tables hold now.
DraftInv ==
    /\ draft.status.node <= tip
    /\ gpc \in {"rows", "total", "write"} /\ draft.status.listed > 0 =>
        draft.status.node - draft.status.listed <= draft.status.behind
    /\ gpc \in {"total", "write"} => \A a \in Algo : draft.page.shown[a] <= rows[a].supply
    /\ gpc = "write" => \A a \in Algo : draft.page.shown[a] <= draft.page.total[a]

PageInv ==
    /\ status.listed > 0 => status.node - status.listed <= status.behind
    /\ TotalNotBehindRows

IInv == Shape /\ PassInv /\ RowsInOrder /\ DraftInv /\ PageInv

-----------------------------------------------------------------------------
(* The schedule, and the entry of it that is nearest.                      *)

\* Entry k after the entries of f, and the schedule written out.
NextEntry(f, k) == IF k = 0 THEN 2000000
                   ELSE IF k % 2 = 1 THEN (f[k - 1] * 3) \div 4
                                     ELSE (f[k - 1] * 2) \div 3

Follows(f) == f = [k \in 0..LastEra |-> NextEntry(f, k)]

Entry(k) ==
    CASE k = 0 -> 2000000 [] k = 1 -> 1500000 [] k = 2 -> 1000000 [] k = 3 -> 750000
      [] k = 4 -> 500000 [] k = 5 -> 375000 [] k = 6 -> 250000 [] k = 7 -> 187500
      [] k = 8 -> 125000 [] k = 9 -> 93750 [] k = 10 -> 62500 [] k = 11 -> 46875
      [] k = 12 -> 31250

\* The schedule is what its equation says: thirteen numbers.
LEMMA ScheduleIs == \A k \in 0..LastEra : Schedule[k] = Entry(k)
  <1> DEFINE w == [k \in 0..LastEra |-> Entry(k)]
  <1>1. \A k : k \in 0..LastEra <=> k \in {0, 1, 2, 3, 4, 5, 6, 7, 8, 9, 10, 11, 12}
    BY SMT DEF LastEra
  <1>2. \A k \in 0..LastEra : w[k] = Entry(k)
    BY SMT
  <1>3. w = [k \in 0..LastEra |-> w[k]]
    BY SMT
  <1> HIDE DEF w
  <1>4. \A k \in 0..LastEra : w[k] = NextEntry(w, k)
    <2>1. /\ w[0] = 2000000 /\ w[1] = 1500000 /\ w[2] = 1000000 /\ w[3] = 750000
          /\ w[4] = 500000 /\ w[5] = 375000 /\ w[6] = 250000 /\ w[7] = 187500
          /\ w[8] = 125000 /\ w[9] = 93750 /\ w[10] = 62500 /\ w[11] = 46875 /\ w[12] = 31250
      BY SMT, <1>1, <1>2 DEF Entry
    <2> QED BY SMT, <1>1, <2>1 DEF NextEntry
  <1>5. Follows(w)
    <2>1. [k \in 0..LastEra |-> w[k]] = [k \in 0..LastEra |-> NextEntry(w, k)]
      BY SMT, <1>4
    <2> QED BY SMT, <1>3, <2>1 DEF Follows
  <1>6. Follows(Schedule)
    <2>1. Schedule = CHOOSE f : Follows(f)
      BY SMT DEF Schedule, Follows, NextEntry
    <2> QED BY SMT, <1>5, <2>1
  <1>7. \A k \in 0..LastEra : Schedule[k] = NextEntry(Schedule, k)
    <2> DEFINE g == [k \in 0..LastEra |-> NextEntry(Schedule, k)]
    <2>1. Schedule = g
      BY Zenon, <1>6 DEF Follows
    <2>2. \A k \in 0..LastEra : g[k] = NextEntry(Schedule, k)
      BY SMT
    <2> HIDE DEF g
    <2> QED BY SMT, <2>1, <2>2
  <1>8. Schedule[0] = w[0] /\ Schedule[1] = w[1] /\ Schedule[2] = w[2] /\ Schedule[3] = w[3]
    BY SMT, <1>1, <1>4, <1>7 DEF NextEntry
  <1>9. Schedule[4] = w[4] /\ Schedule[5] = w[5] /\ Schedule[6] = w[6]
    BY SMT, <1>1, <1>4, <1>7, <1>8 DEF NextEntry
  <1>10. Schedule[7] = w[7] /\ Schedule[8] = w[8] /\ Schedule[9] = w[9]
    BY SMT, <1>1, <1>4, <1>7, <1>9 DEF NextEntry
  <1>11. Schedule[10] = w[10] /\ Schedule[11] = w[11] /\ Schedule[12] = w[12]
    BY SMT, <1>1, <1>4, <1>7, <1>10 DEF NextEntry
  <1> QED BY SMT, <1>1, <1>2, <1>8, <1>9, <1>10, <1>11

\* It falls by a quarter at least from one entry to the next.
LEMMA ScheduleFalls ==
    /\ \A k \in 0..LastEra : Schedule[k] \in Nat /\ Schedule[k] >= 31250
    /\ \A j, k \in 0..LastEra : j < k => 4 * Schedule[k] <= 3 * Schedule[j]
  <1>1. \A k : k \in 0..LastEra <=> k \in {0, 1, 2, 3, 4, 5, 6, 7, 8, 9, 10, 11, 12}
    BY SMT DEF LastEra
  <1>2. /\ Schedule[0] = 2000000 /\ Schedule[1] = 1500000 /\ Schedule[2] = 1000000
        /\ Schedule[3] = 750000 /\ Schedule[4] = 500000 /\ Schedule[5] = 375000
        /\ Schedule[6] = 250000 /\ Schedule[7] = 187500 /\ Schedule[8] = 125000
        /\ Schedule[9] = 93750 /\ Schedule[10] = 62500 /\ Schedule[11] = 46875
        /\ Schedule[12] = 31250
    BY SMT, <1>1, ScheduleIs DEF Entry
  <1> QED BY SMT, <1>1, <1>2

\* 1 + ESF is between 1 and 2, in numbers that are no less than its base.
LEMMA WeightFacts ==
    ASSUME NEW a \in Algo, NEW h \in Heights
    PROVE  /\ Base(a, h) \in Nat /\ Base(a, h) > 0
           /\ Weight(a, h) \in Nat /\ Weight(a, h) >= Base(a, h)
  <1>1. PeakAt[a][h] \in Nat /\ HashAt[a][h] \in Nat
    BY HomepageDataAssumption
  <1> QED BY <1>1 DEF Base, Capped, Weight

\* Among finitely many entries one is the nearest, and the first of those.
LEMMA NearestExists ==
    ASSUME NEW reward \in Int, NEW a \in Algo, NEW d \in Heights
    PROVE  NominalEpochReward(reward, a, d) \in 0..LastEra
  <1> DEFINE D(k) == Distance(reward, a, d, k)
             all == {D(k) : k \in 0..LastEra}
  <1>1. \A k \in 0..LastEra : D(k) \in Nat
    <2> SUFFICES ASSUME NEW k \in 0..LastEra PROVE D(k) \in Nat
      OBVIOUS
    <2>1. 2 * Base(a, d) * reward \in Int /\ Schedule[k] * Weight(a, d) \in Int
      BY ScheduleFalls, WeightFacts
    <2> QED BY <2>1 DEF Distance
  <1> HIDE DEF D
  <1>2. all \in SUBSET Nat /\ all # {}
    <2>1. 0 \in 0..LastEra
      BY DEF LastEra
    <2> QED BY <1>1, <2>1
  <1>3. PICK m \in all : \A n \in all : m <= n
    BY <1>2, LeastNumber
  <1> DEFINE first == {k \in 0..LastEra : D(k) = m}
  <1>4. first \in SUBSET Nat /\ first # {}
    BY <1>3
  <1>5. PICK k \in first : \A j \in first : k <= j
    <2> HIDE DEF first
    <2> QED BY <1>4, LeastNumber
  <1>6. \A j \in 0..LastEra : D(k) < D(j) \/ (D(k) = D(j) /\ k <= j)
    <2> SUFFICES ASSUME NEW j \in 0..LastEra PROVE D(k) < D(j) \/ (D(k) = D(j) /\ k <= j)
      OBVIOUS
    <2>1. D(k) = m /\ D(k) <= D(j) /\ D(k) \in Nat /\ D(j) \in Nat
      BY <1>1, <1>3, <1>5
    <2>2. D(k) = D(j) => j \in first
      BY <2>1
    <2> QED BY <1>5, <2>1, <2>2
  <1>7. k \in 0..LastEra
    BY <1>5
  <1> QED BY <1>6, <1>7 DEF NominalEpochReward, D

\* The whole-unit reward, times what it was divided by, is short of the
\* dividend by less than the divisor.
LEMMA WholeUnits ==
    ASSUME NEW n \in Nat, NEW m \in Nat, m > 0
    PROVE  n \div m \in Nat /\ m * (n \div m) <= n /\ n < m * (n \div m) + m
  BY SMT

\* s is the entry of the epoch, t another one; y and z are 1 + ESF at the two
\* heights and x is twice the reward, all times p, the product of their bases.
LEMMA EpochIsNearer ==
    ASSUME NEW s \in Nat, NEW t \in Nat, s >= 31250, 4 * t <= 3 * s \/ 4 * s <= 3 * t,
           NEW p \in Nat, p > 0, NEW y \in Nat, y >= p, NEW z \in Nat,
           9 * z <= 10 * y, 9 * y <= 10 * z,
           NEW x \in Int, x <= s * z, s * z < x + 2 * p
    PROVE  (IF x - s * y < 0 THEN -(x - s * y) ELSE x - s * y)
               < (IF x - t * y < 0 THEN -(x - t * y) ELSE x - t * y)
  <1> DEFINE A == s * y
             C == s * z
             B == t * y
  <1>1. A \in Nat /\ B \in Nat /\ C \in Nat
    OBVIOUS
  <1>2. 9 * C <= 10 * A /\ 9 * A <= 10 * C
    <2>1. s * (9 * z) <= s * (10 * y) /\ s * (9 * y) <= s * (10 * z)
      BY SMT
    <2> QED BY SMT, <2>1
  <1>3. A >= 31250 * p
    <2>1. s * y >= 31250 * y
      BY SMT
    <2> QED BY SMT, <2>1
  <1>4. 4 * B <= 3 * A \/ 4 * A <= 3 * B
    <2>1. CASE 4 * t <= 3 * s
      <3>1. (4 * t) * y <= (3 * s) * y
        BY SMT, <2>1
      <3> QED BY SMT, <3>1
    <2>2. CASE 4 * s <= 3 * t
      <3>1. (4 * s) * y <= (3 * t) * y
        BY SMT, <2>2
      <3> QED BY SMT, <3>1
    <2> QED BY <2>1, <2>2
  <1>5. x <= C /\ C < x + 2 * p
    OBVIOUS
  <1> HIDE DEF A, B, C
  <1>6. CASE 4 * B <= 3 * A
    <2>1. x > B /\ A + B < 2 * x
      BY SMT, <1>1, <1>2, <1>3, <1>5, <1>6
    <2>2. (IF x - A < 0 THEN -(x - A) ELSE x - A) < (IF x - B < 0 THEN -(x - B) ELSE x - B)
      BY SMT, <1>1, <1>3, <1>6, <2>1
    <2> QED BY <2>2 DEF A, B
  <1>7. CASE 4 * A <= 3 * B
    <2>1. x < B /\ 2 * x < A + B
      BY SMT, <1>1, <1>2, <1>3, <1>5, <1>7
    <2>2. (IF x - A < 0 THEN -(x - A) ELSE x - A) < (IF x - B < 0 THEN -(x - B) ELSE x - B)
      BY SMT, <1>1, <1>3, <1>7, <2>1
    <2> QED BY <2>2 DEF A, B
  <1> QED BY <1>4, <1>6, <1>7

\* A common factor does not change which of two numbers is further from 0.
LEMMA CommonFactor ==
    ASSUME NEW q \in Nat, q > 0, NEW m \in Int, NEW n \in Int,
           (IF q * m < 0 THEN -(q * m) ELSE q * m) < (IF q * n < 0 THEN -(q * n) ELSE q * n)
    PROVE  (IF m < 0 THEN -m ELSE m) < (IF n < 0 THEN -n ELSE n)
  <1> DEFINE u == IF m < 0 THEN -m ELSE m
             v == IF n < 0 THEN -n ELSE n
  <1>1. u \in Nat /\ v \in Nat
    OBVIOUS
  <1>2. (IF q * m < 0 THEN -(q * m) ELSE q * m) = q * u
    BY SMT
  <1>3. (IF q * n < 0 THEN -(q * n) ELSE q * n) = q * v
    BY SMT
  <1>4. q * u < q * v
    BY <1>2, <1>3
  <1> HIDE DEF u, v
  <1>5. ~(v <= u)
    <2> SUFFICES ASSUME v <= u PROVE FALSE
      OBVIOUS
    <2>1. q * v <= q * u
      BY SMT, <1>1
    <2> QED BY SMT, <1>1, <1>4, <2>1
  <1>6. u < v
    BY <1>1, <1>5
  <1> QED BY <1>6 DEF u, v

\* What the node pays at height r is nearest to the entry of its epoch, seen
\* from any height d between which and r 1 + ESF is steady.
LEMMA NearestIsEpoch ==
    ASSUME NEW a \in Algo, NEW d \in Heights, NEW r \in Heights, Steady(a, d, r)
    PROVE  Nominal[a][d][r] = EraAt[a][r]
  <1> DEFINE e == EraAt[a][r]
             s == Schedule[e]
             b == Base(a, d)
             w == Weight(a, d)
             q == Base(a, r)
             v == Weight(a, r)
             reward == NodeReward(a, r)
             y == w * q
             z == v * b
             p == b * q
             x == 2 * p * reward
  <1>1. /\ e \in 0..LastEra
        /\ b \in Nat /\ b > 0 /\ w \in Nat /\ w >= b
        /\ q \in Nat /\ q > 0 /\ v \in Nat /\ v >= q
    BY HomepageDataAssumption, WeightFacts
  <1>2. s \in Nat /\ s >= 31250
    BY <1>1, ScheduleFalls
  <1>3. 9 * v * b <= 10 * w * q /\ 9 * w * q <= 10 * v * b
    BY DEF Steady
  <1>4. reward \in Nat /\ 2 * q * reward <= s * v /\ s * v < 2 * q * reward + 2 * q
    <2>1. s * v \in Nat /\ 2 * q \in Nat /\ 2 * q > 0
      BY <1>1, <1>2
    <2>2. reward = (s * v) \div (2 * q)
      BY DEF NodeReward
    <2> HIDE DEF s, v, q, reward
    <2>3. /\ reward \in Nat /\ (2 * q) * reward <= s * v
          /\ s * v < (2 * q) * reward + 2 * q
      BY <2>1, <2>2, WholeUnits
    <2> QED BY <2>3
  <1> HIDE DEF s, b, w, q, v, reward
  <1>5. /\ p \in Nat /\ p > 0 /\ y \in Nat /\ y >= p /\ z \in Nat
        /\ 9 * z <= 10 * y /\ 9 * y <= 10 * z
    <2>1. p \in Nat /\ y \in Nat /\ z \in Nat
      BY <1>1
    <2>2. p > 0 /\ w * q >= b * q
      BY SMT, <1>1
    <2>3. 9 * z = 9 * v * b /\ 10 * y = 10 * w * q /\ 9 * y = 9 * w * q /\ 10 * z = 10 * v * b
      BY SMT, <1>1
    <2> QED BY <1>3, <2>1, <2>2, <2>3
  <1>6. x \in Int /\ x <= s * z /\ s * z < x + 2 * p
    <2> DEFINE m == 2 * q * reward
               n == s * v
    <2>1. m \in Nat /\ n \in Nat /\ m <= n /\ n < m + 2 * q
      BY <1>1, <1>2, <1>4
    <2>2. x = m * b /\ s * z = n * b /\ 2 * p = (2 * q) * b
      BY SMT, <1>1, <1>2, <1>4
    <2> HIDE DEF m, n, x, z, p
    <2>3. m * b <= n * b /\ n * b < (m + 2 * q) * b
      BY SMT, <1>1, <2>1
    <2>4. (m + 2 * q) * b = m * b + (2 * q) * b /\ m * b \in Int
      BY SMT, <1>1, <2>1
    <2> QED BY <2>2, <2>3, <2>4
  <1>7. ASSUME NEW k \in 0..LastEra, k # e
        PROVE  Distance(reward, a, d, e) < Distance(reward, a, d, k)
    <2> DEFINE t == Schedule[k]
               m == 2 * b * reward - s * w
               n == 2 * b * reward - t * w
    <2>1. t \in Nat /\ (4 * t <= 3 * s \/ 4 * s <= 3 * t)
      <3>1. e < k \/ k < e
        BY <1>1, <1>7 DEF LastEra
      <3> QED BY <1>1, <3>1, ScheduleFalls DEF s
    <2>2. /\ Distance(reward, a, d, e) = IF m < 0 THEN -m ELSE m
          /\ Distance(reward, a, d, k) = IF n < 0 THEN -n ELSE n
      BY DEF Distance, s, b, w
    <2> HIDE DEF t, e
    <2>3. (IF x - s * y < 0 THEN -(x - s * y) ELSE x - s * y)
              < (IF x - t * y < 0 THEN -(x - t * y) ELSE x - t * y)
      <3> HIDE DEF x, y, z, p
      <3> QED BY <1>2, <1>5, <1>6, <2>1, EpochIsNearer
    <2>4. x - s * y = q * m /\ x - t * y = q * n /\ m \in Int /\ n \in Int
      BY SMT, <1>1, <1>2, <1>4, <2>1
    <2> HIDE DEF m, n, x, y, z, p
    <2>5. (IF m < 0 THEN -m ELSE m) < (IF n < 0 THEN -n ELSE n)
      <3>1. (IF q * m < 0 THEN -(q * m) ELSE q * m) < (IF q * n < 0 THEN -(q * n) ELSE q * n)
        BY <2>3, <2>4
      <3> QED BY <1>1, <2>4, <3>1, CommonFactor
    <2> QED BY <2>2, <2>5
  <1> HIDE DEF y, z, p, x, e
  <1> DEFINE D(k) == Distance(reward, a, d, k)
             Best(k) == \A j \in 0..LastEra : D(k) < D(j) \/ (D(k) = D(j) /\ k <= j)
  <1>8. e \in 0..LastEra
    BY <1>1
  <1>9. \A k \in 0..LastEra : D(k) \in Int
    <2> SUFFICES ASSUME NEW k \in 0..LastEra PROVE D(k) \in Int
      OBVIOUS
    <2>1. 2 * b * reward \in Int /\ Schedule[k] * w \in Int
      BY <1>1, <1>4, ScheduleFalls
    <2> QED BY <2>1 DEF Distance, b, w
  <1> HIDE DEF D
  <1>10. \A k \in 0..LastEra : Best(k) => k = e
    <2> SUFFICES ASSUME NEW k \in 0..LastEra, Best(k), k # e PROVE FALSE
      OBVIOUS
    <2>1. D(k) < D(e) \/ (D(k) = D(e) /\ k <= e)
      BY <1>8
    <2>2. D(e) < D(k)
      BY <1>7 DEF D
    <2> QED BY <1>8, <1>9, <2>1, <2>2
  <1>11. Best(e)
    <2> SUFFICES ASSUME NEW j \in 0..LastEra PROVE D(e) < D(j) \/ (D(e) = D(j) /\ e <= j)
      OBVIOUS
    <2>1. CASE j = e
      BY <1>8, <2>1 DEF LastEra
    <2>2. CASE j # e
      BY <1>7, <2>2 DEF D
    <2> QED BY <2>1, <2>2
  <1>12. NominalEpochReward(reward, a, d) = e
    <2>1. NominalEpochReward(reward, a, d) = CHOOSE k \in 0..LastEra : Best(k)
      BY DEF NominalEpochReward, D
    <2> HIDE DEF Best
    <2> QED BY <1>8, <1>10, <1>11, <2>1
  <1> QED BY <1>12 DEF Nominal, e, reward

-----------------------------------------------------------------------------
\* The two bounds.
LEMMA Bounds == Algos \in Nat \ {0} /\ MaxHeight \in Nat \ {0}
  BY HomepageDataAssumption

\* Before the first block is ingested there are neither rows nor a page.
LEMMA InitInv == Init => IInv
  <1> SUFFICES ASSUME Init PROVE IInv
    OBVIOUS
  <1> USE Bounds DEF Init, NoRow, NoPass, NoPage, NoStatus, NoDraft, Algo, Heights
  <1>1. Shape
    BY DEF Shape, AnyRow, Pass, Page, Status, Draft
  <1>2. PassInv /\ RowsInOrder /\ DraftInv /\ PageInv
    BY DEF PassInv, RowsInOrder, DraftInv, PageInv, TotalNotBehindRows
  <1> QED BY <1>1, <1>2 DEF IInv

\* The shape of the state gives the figures.
LEMMA ShapeGivesFigures == Shape => Figures
  <1> SUFFICES ASSUME Shape PROVE Figures
    OBVIOUS
  <1> USE Bounds
  <1>1. tip \in Nat /\ index \in Nat /\ index <= tip
    BY DEF Shape, Heights
  <1>2. rows = [a \in Algo |-> rows[a]] /\ \A a \in Algo : rows[a] \in AnyRow
    BY DEF Shape
  <1>3. \A a \in Algo : rows[a].supply \in Nat /\ rows[a].dyn \in Nat
    BY <1>2 DEF AnyRow
  <1>4. pass.algo \in Nat /\ pass.dyn \in Nat /\ pass.supply \in Nat
    BY DEF Shape, Pass
  <1>5. /\ draft.status.node \in Nat /\ draft.status.listed \in Nat /\ draft.status.behind \in Nat
        /\ \A a \in Algo : draft.page.shown[a] \in Nat /\ draft.page.total[a] \in Nat
    BY DEF Shape, Draft, Page, Status
  <1> QED BY <1>1, <1>2, <1>3, <1>4, <1>5 DEF Figures

\* Every step keeps the shape of tables, locals and page.
LEMMA ShapeNext == IInv /\ [Next]_vars => Shape'
  <1> SUFFICES ASSUME IInv, [Next]_vars PROVE Shape'
    OBVIOUS
  <1> USE Bounds
      DEF IInv, Shape, indexer, generator
  <1>1. CASE NodeExtend
    BY <1>1 DEF NodeExtend, Heights
  <1>2. CASE Trouble
    BY <1>2 DEF Trouble
  <1>3. CASE Ingest
    BY <1>3 DEF Ingest, Heights
  <1>4. CASE AtTip
    BY <1>4 DEF AtTip
  <1>5. CASE ChainDynamics
    <2>1. pass' = [algo |-> 1, dyn |-> tip, supply |-> 0, reward |-> 0]
      BY <1>5 DEF ChainDynamics, NoPass
    <2>2. (pass \in Pass)'
      BY <2>1 DEF Pass, Algo, Heights
    <2> QED BY <1>5, <2>2 DEF ChainDynamics
  <1>6. CASE MoneySupply
    <2>1. pass' = [pass EXCEPT !.supply = tip]
      BY <1>6 DEF MoneySupply
    <2>2. (pass \in Pass)'
      BY <2>1 DEF Pass, Heights
    <2> QED BY <1>6, <2>2 DEF MoneySupply
  <1>7. CASE BlockReward
    <2>1. pass' = [pass EXCEPT !.reward = tip] /\ tip \in 0..MaxHeight
      BY <1>7 DEF BlockReward, Heights
    <2>2. pass \in Pass
      OBVIOUS
    <2>3. (pass \in Pass)'
      BY ONLY <2>1, <2>2 DEF Pass
    <2> QED BY <1>7, <2>3 DEF BlockReward
  <1>8. CASE Upsert
    <2>1. /\ ipc = "upsert" /\ pass.algo \in Algo
          /\ pass.dyn \in Heights /\ pass.supply \in Heights /\ pass.reward \in Heights
      BY <1>8 DEF Upsert, PassInv, Heights
    <2>2. Nominal[pass.algo][pass.dyn][pass.reward] \in Nominals
      BY <2>1 DEF Nominals
    <2>3. /\ Written.dyn = pass.dyn /\ Written.supply = pass.supply
          /\ Written.reward = pass.reward
          /\ Heights \subseteq 0..MaxHeight
      BY DEF Written, Heights
    <2>4. Written \in AnyRow
      BY <2>1, <2>2, <2>3 DEF AnyRow, Written
    <2>5. rows' \in [Algo -> AnyRow]
      BY <1>8, <2>4 DEF Upsert
    <2>6. NoPass \in Pass
      BY DEF NoPass, Pass
    <2>7. pass.algo < Algos => pass.algo + 1 \in 0..Algos
      BY <2>1 DEF Algo
    <2>8. pass.algo < Algos => NextAlgo \in Pass
      BY <2>1, <2>3, <2>7 DEF NextAlgo, Pass
    <2>9. pass' \in Pass
      BY <1>8, <2>6, <2>8 DEF Upsert
    <2> QED BY <1>8, <2>5, <2>9 DEF Upsert
  <1>9. CASE RefreshStops
    BY <1>9 DEF RefreshStops, NoPass, Pass
  <1>10. CASE WaitOver
    BY <1>10 DEF WaitOver
  <1>11. CASE QueryNode
    <2>1. PICK answer \in {0, tip} : draft' = [NoDraft EXCEPT !.status.node = answer]
      BY <1>11 DEF QueryNode
    <2>2. draft' = [page |-> NoPage, status |-> [node |-> answer, listed |-> 0, behind |-> 0]]
      BY <2>1 DEF NoDraft, NoStatus
    <2>3. (draft \in Draft)'
      BY <2>2 DEF Draft, Status, Page, NoPage, Heights
    <2> QED BY <1>11, <2>3 DEF QueryNode
  <1>12. CASE ReadLatestBlocks
    <2>1. PICK newest \in {0, index} :
            draft' = [draft EXCEPT !.status.listed = newest, !.status.behind = tip - index]
      BY <1>12 DEF ReadLatestBlocks
    <2>2. newest \in 0..MaxHeight /\ tip - index \in 0..MaxHeight
      BY DEF Heights
    <2>3. (draft \in Draft)'
      BY <2>1, <2>2 DEF Draft, Status
    <2> QED BY <1>12, <2>3 DEF ReadLatestBlocks
  <1>13. CASE ReadAlgoStats
    <2>1. PICK n \in 0..Algos :
            draft' = [draft EXCEPT !.page.shown =
                        [a \in Algo |-> IF a <= n THEN rows[a].supply ELSE 0]]
      BY <1>13 DEF ReadAlgoStats
    <2>2. [a \in Algo |-> IF a <= n THEN rows[a].supply ELSE 0] \in [Algo -> 0..MaxHeight]
      BY DEF AnyRow
    <2>3. (draft \in Draft)'
      BY <2>1, <2>2 DEF Draft, Page
    <2> QED BY <1>13, <2>3 DEF ReadAlgoStats
  <1>14. CASE ReadGlobalStats
    <2>1. /\ draft' = [draft EXCEPT !.page.total = [a \in Algo |-> rows[a].supply]]
          /\ status' = draft.status
      BY <1>14 DEF ReadGlobalStats
    <2>2. [a \in Algo |-> rows[a].supply] \in [Algo -> 0..MaxHeight]
      BY DEF AnyRow
    <2>3. (draft \in Draft)' /\ (status \in Status)'
      BY <2>1, <2>2 DEF Draft, Page
    <2> QED BY <1>14, <2>3 DEF ReadGlobalStats
  <1>15. CASE WritePage
    <2>1. NoDraft \in Draft
      BY DEF NoDraft, Draft, NoPage, Page, NoStatus, Status
    <2> QED BY <1>15, <2>1 DEF WritePage, Draft
  <1>16. CASE GenerateFails
    <2>1. NoDraft \in Draft
      BY DEF NoDraft, Draft, NoPage, Page, NoStatus, Status
    <2> QED BY <1>16, <2>1 DEF GenerateFails
  <1>17. CASE UNCHANGED vars
    BY <1>17 DEF vars
  <1> QED BY <1>1, <1>2, <1>3, <1>4, <1>5, <1>6, <1>7, <1>8, <1>9, <1>10,
         <1>11, <1>12, <1>13, <1>14, <1>15, <1>16, <1>17
         DEF Next, Indexer, Refresh, Generate

\* A pass goes down the table, from one height on.
LEMMA PassNext == IInv /\ [Next]_vars => PassInv'
  <1> SUFFICES ASSUME IInv, [Next]_vars PROVE PassInv'
    OBVIOUS
  <1>0. Figures
    BY ShapeGivesFigures DEF IInv
  <1> USE <1>0, Bounds
      DEF IInv, PassInv, indexer, generator, Figures
  <1>1. CASE NodeExtend
    BY <1>1 DEF NodeExtend
  <1>2. CASE Trouble
    BY <1>2 DEF Trouble
  <1>3. CASE Ingest
    BY <1>3 DEF Ingest
  <1>4. CASE AtTip
    BY <1>4 DEF AtTip
  <1>5. CASE ChainDynamics
    <2>1. /\ ipc' = "supply" /\ pass'.algo = 1 /\ pass'.dyn = tip
          /\ UNCHANGED <<rows, tip>> /\ tip \in 1..tip
      BY <1>5 DEF ChainDynamics, NoPass, Shape, Heights
    <2>2. 1 \in Algo /\ \A a \in Algo : ~(a < 1)
      BY DEF Algo
    <2> QED BY <2>1, <2>2
  <1>6. CASE MoneySupply
    <2>1. /\ ipc = "supply" /\ ipc' = "reward"
          /\ pass'.algo = pass.algo /\ pass'.dyn = pass.dyn /\ pass'.supply = tip
          /\ UNCHANGED <<rows, tip>> /\ tip \in 1..tip
      BY <1>6 DEF MoneySupply, Shape, Heights, Pass
    <2> QED BY <2>1
  <1>7. CASE BlockReward
    <2>1. /\ ipc = "reward" /\ ipc' = "upsert"
          /\ pass'.algo = pass.algo /\ pass'.dyn = pass.dyn
          /\ pass'.supply = pass.supply /\ pass'.reward = tip
          /\ UNCHANGED <<rows, tip>> /\ tip \in 1..tip
      BY <1>7 DEF BlockReward, Shape, Heights, Pass
    <2> QED BY <2>1
  <1>8. CASE Upsert
    <2>1. /\ ipc = "upsert" /\ pass.algo \in Algo
          /\ rows' = [rows EXCEPT ![pass.algo] = Written]
          /\ tip' = tip
      BY <1>8 DEF Upsert, PassInv
    <2>2. Written.dyn = pass.dyn /\ Written.supply = pass.supply
      BY DEF Written
    <2>3. \A a \in Algo : rows'[a] = IF a = pass.algo THEN Written ELSE rows[a]
      BY <2>1
    <2>4. CASE pass.algo < Algos
      <3>1. /\ ipc' = "supply"
            /\ pass'.algo = pass.algo + 1 /\ pass'.dyn = pass.dyn
        BY <1>8, <2>4 DEF Upsert, NextAlgo
      <3>2. pass'.algo \in Algo
        BY <3>1, <2>1, <2>4 DEF Algo
      <3>3. \A a \in Algo : a < pass'.algo => a < pass.algo \/ a = pass.algo
        BY <3>1, <2>1 DEF Algo
      <3> QED BY <2>1, <2>2, <2>3, <3>1, <3>2, <3>3
    <2>5. CASE ~(pass.algo < Algos)
      <3>1. ipc' = "wait"
        BY <1>8, <2>5 DEF Upsert
      <3> QED BY <2>1, <2>2, <2>3, <3>1
    <2> QED BY <2>4, <2>5
  <1>9. CASE RefreshStops
    BY <1>9 DEF RefreshStops
  <1>10. CASE WaitOver
    BY <1>10 DEF WaitOver
  <1>11. CASE QueryNode
    BY <1>11 DEF QueryNode
  <1>12. CASE ReadLatestBlocks
    BY <1>12 DEF ReadLatestBlocks
  <1>13. CASE ReadAlgoStats
    BY <1>13 DEF ReadAlgoStats
  <1>14. CASE ReadGlobalStats
    BY <1>14 DEF ReadGlobalStats
  <1>15. CASE WritePage
    BY <1>15 DEF WritePage
  <1>16. CASE GenerateFails
    BY <1>16 DEF GenerateFails
  <1>17. CASE UNCHANGED vars
    BY <1>17 DEF vars
  <1> QED BY <1>1, <1>2, <1>3, <1>4, <1>5, <1>6, <1>7, <1>8, <1>9, <1>10,
         <1>11, <1>12, <1>13, <1>14, <1>15, <1>16, <1>17
         DEF Next, Indexer, Refresh, Generate

\* A row that is written is not newer than those above it.
LEMMA OrderNext == IInv /\ [Next]_vars => RowsInOrder'
  <1> SUFFICES ASSUME IInv, [Next]_vars PROVE RowsInOrder'
    OBVIOUS
  <1>0. Figures
    BY ShapeGivesFigures DEF IInv
  <1> USE <1>0, Bounds
      DEF IInv, RowsInOrder, indexer, generator, Figures
  <1>1. CASE NodeExtend
    BY <1>1 DEF NodeExtend
  <1>2. CASE Trouble
    BY <1>2 DEF Trouble
  <1>3. CASE Ingest
    BY <1>3 DEF Ingest
  <1>4. CASE AtTip
    BY <1>4 DEF AtTip
  <1>5. CASE ChainDynamics
    BY <1>5 DEF ChainDynamics
  <1>6. CASE MoneySupply
    BY <1>6 DEF MoneySupply
  <1>7. CASE BlockReward
    BY <1>7 DEF BlockReward
  <1>8. CASE Upsert
    <2>1. /\ ipc = "upsert" /\ pass.algo \in Algo
          /\ rows' = [rows EXCEPT ![pass.algo] = Written]
          /\ tip' = tip
      BY <1>8 DEF Upsert, PassInv
    <2>2. Written.dyn = pass.dyn /\ Written.supply = pass.supply
      BY DEF Written
    <2>3. \A a \in Algo : rows'[a] = IF a = pass.algo THEN Written ELSE rows[a]
      BY <2>1
    <2>4. \A a \in Algo : rows[a].dyn <= pass.dyn /\ (a < pass.algo => rows[a].dyn = pass.dyn)
      BY <2>1 DEF PassInv
    <2>5. pass.algo \in Int /\ \A a \in Algo : a \in Int
      BY <2>1 DEF Algo
    <2> QED BY <2>1, <2>2, <2>3, <2>4, <2>5
  <1>9. CASE RefreshStops
    BY <1>9 DEF RefreshStops
  <1>10. CASE WaitOver
    BY <1>10 DEF WaitOver
  <1>11. CASE QueryNode
    BY <1>11 DEF QueryNode
  <1>12. CASE ReadLatestBlocks
    BY <1>12 DEF ReadLatestBlocks
  <1>13. CASE ReadAlgoStats
    BY <1>13 DEF ReadAlgoStats
  <1>14. CASE ReadGlobalStats
    BY <1>14 DEF ReadGlobalStats
  <1>15. CASE WritePage
    BY <1>15 DEF WritePage
  <1>16. CASE GenerateFails
    BY <1>16 DEF GenerateFails
  <1>17. CASE UNCHANGED vars
    BY <1>17 DEF vars
  <1> QED BY <1>1, <1>2, <1>3, <1>4, <1>5, <1>6, <1>7, <1>8, <1>9, <1>10,
         <1>11, <1>12, <1>13, <1>14, <1>15, <1>16, <1>17
         DEF Next, Indexer, Refresh, Generate

\* Supplies only grow, so what was read stays behind what is read next.
LEMMA DraftNext == IInv /\ [Next]_vars => DraftInv'
  <1> SUFFICES ASSUME IInv, [Next]_vars PROVE DraftInv'
    OBVIOUS
  <1>0. Figures
    BY ShapeGivesFigures DEF IInv
  <1> USE <1>0, Bounds
      DEF IInv, DraftInv, indexer, generator, Figures
  <1>1. CASE NodeExtend
    BY <1>1 DEF NodeExtend
  <1>2. CASE Trouble
    BY <1>2 DEF Trouble
  <1>3. CASE Ingest
    BY <1>3 DEF Ingest
  <1>4. CASE AtTip
    BY <1>4 DEF AtTip
  <1>5. CASE ChainDynamics
    BY <1>5 DEF ChainDynamics
  <1>6. CASE MoneySupply
    BY <1>6 DEF MoneySupply
  <1>7. CASE BlockReward
    BY <1>7 DEF BlockReward
  <1>8. CASE Upsert
    <2>1. /\ ipc = "upsert" /\ pass.algo \in Algo
          /\ rows' = [rows EXCEPT ![pass.algo] = Written]
          /\ tip' = tip
      BY <1>8 DEF Upsert, PassInv
    <2>2. Written.dyn = pass.dyn /\ Written.supply = pass.supply
      BY DEF Written
    <2>3. \A a \in Algo : rows'[a] = IF a = pass.algo THEN Written ELSE rows[a]
      BY <2>1
    <2>4. rows[pass.algo].supply <= pass.supply
      BY <2>1 DEF PassInv
    <2> QED BY <1>8, <2>1, <2>2, <2>3, <2>4 DEF Upsert
  <1>9. CASE RefreshStops
    BY <1>9 DEF RefreshStops
  <1>10. CASE WaitOver
    BY <1>10 DEF WaitOver
  <1>11. CASE QueryNode
    <2>1. gpc' = "latest" /\ tip' = tip /\ draft'.status.node \in {0, tip}
      BY <1>11 DEF QueryNode, NoDraft, NoStatus
    <2> QED BY <2>1
  <1>12. CASE ReadLatestBlocks
    <2>1. PICK newest \in {0, index} :
            draft' = [draft EXCEPT !.status.listed = newest, !.status.behind = tip - index]
      BY <1>12 DEF ReadLatestBlocks
    <2>2. draft \in Draft
      BY DEF Shape
    <2>3. /\ draft'.status.node = draft.status.node
          /\ draft'.status.listed = newest /\ draft'.status.behind = tip - index
      BY ONLY <2>1, <2>2 DEF Draft, Status
    <2>4. gpc' = "rows" /\ tip' = tip
      BY <1>12 DEF ReadLatestBlocks
    <2> QED BY <2>3, <2>4
  <1>13. CASE ReadAlgoStats
    <2>1. /\ gpc = "rows" /\ gpc' = "total" /\ UNCHANGED <<tip, rows>>
          /\ draft'.status = draft.status
          /\ \A a \in Algo : \/ draft'.page.shown[a] = rows[a].supply
                              \/ draft'.page.shown[a] = 0
      BY <1>13 DEF ReadAlgoStats, Shape, Draft, Page
    <2> QED BY <2>1
  <1>14. CASE ReadGlobalStats
    <2>1. /\ gpc = "total" /\ gpc' = "write" /\ UNCHANGED <<tip, rows>>
          /\ draft'.status = draft.status /\ draft'.page.shown = draft.page.shown
          /\ \A a \in Algo : draft'.page.total[a] = rows[a].supply
      BY <1>14 DEF ReadGlobalStats, Shape, Draft, Page
    <2> QED BY <2>1
  <1>15. CASE WritePage
    BY <1>15 DEF WritePage, NoDraft, NoStatus
  <1>16. CASE GenerateFails
    BY <1>16 DEF GenerateFails, NoDraft, NoStatus
  <1>17. CASE UNCHANGED vars
    BY <1>17 DEF vars
  <1> QED BY <1>1, <1>2, <1>3, <1>4, <1>5, <1>6, <1>7, <1>8, <1>9, <1>10,
         <1>11, <1>12, <1>13, <1>14, <1>15, <1>16, <1>17
         DEF Next, Indexer, Refresh, Generate

\* The page in place, and what the terminal shows, come from complete drafts.
LEMMA PageNext == IInv /\ [Next]_vars => PageInv'
  <1> SUFFICES ASSUME IInv, [Next]_vars PROVE PageInv'
    OBVIOUS
  <1>0. Figures
    BY ShapeGivesFigures DEF IInv
  <1> USE <1>0, Bounds
      DEF IInv, DraftInv, PageInv, TotalNotBehindRows, indexer, generator, Figures
  <1>1. CASE NodeExtend
    BY <1>1 DEF NodeExtend
  <1>2. CASE Trouble
    BY <1>2 DEF Trouble
  <1>3. CASE Ingest
    BY <1>3 DEF Ingest
  <1>4. CASE AtTip
    BY <1>4 DEF AtTip
  <1>5. CASE ChainDynamics
    BY <1>5 DEF ChainDynamics
  <1>6. CASE MoneySupply
    BY <1>6 DEF MoneySupply
  <1>7. CASE BlockReward
    BY <1>7 DEF BlockReward
  <1>8. CASE Upsert
    BY <1>8 DEF Upsert
  <1>9. CASE RefreshStops
    BY <1>9 DEF RefreshStops
  <1>10. CASE WaitOver
    BY <1>10 DEF WaitOver
  <1>11. CASE QueryNode
    BY <1>11 DEF QueryNode
  <1>12. CASE ReadLatestBlocks
    BY <1>12 DEF ReadLatestBlocks
  <1>13. CASE ReadAlgoStats
    BY <1>13 DEF ReadAlgoStats
  <1>14. CASE ReadGlobalStats
    BY <1>14 DEF ReadGlobalStats
  <1>15. CASE WritePage
    BY <1>15 DEF WritePage
  <1>16. CASE GenerateFails
    BY <1>16 DEF GenerateFails
  <1>17. CASE UNCHANGED vars
    BY <1>17 DEF vars
  <1> QED BY <1>1, <1>2, <1>3, <1>4, <1>5, <1>6, <1>7, <1>8, <1>9, <1>10,
         <1>11, <1>12, <1>13, <1>14, <1>15, <1>16, <1>17
         DEF Next, Indexer, Refresh, Generate

-----------------------------------------------------------------------------
\* IInv is inductive, and holds from the start on.
THEOREM Invariant == Spec => []IInv
  <1>1. IInv /\ [Next]_vars => IInv'
    BY ShapeNext, PassNext, OrderNext, DraftNext, PageNext DEF IInv
  <1> QED BY InitInv, <1>1, PTL DEF Spec

\* doUpdateAlgoStats (algo_stats.go): however a refresh ends, the table is its
\* rows followed by older ones.
THEOREM RowsStayInOrder == Spec => []RowsInOrder
  BY Invariant, PTL DEF IInv

\* AlgoStats and GlobalStats (stats.go), read while a refresh writes: the total
\* on the page is not behind its rows.
THEOREM TotalCoversRows == Spec => []TotalNotBehindRows
  <1>1. IInv => TotalNotBehindRows
    BY DEF IInv, PageInv
  <1> QED BY Invariant, <1>1, PTL

\* SetNodeStatus (main.go, generate): the list is not further behind the node
\* than the heights on the operator's terminal say it was when it was read.
THEOREM StatusIsTrue == Spec => []StatusNotExaggerated
  <1>1. IInv => StatusNotExaggerated
    BY DEF IInv, PageInv, StatusNotExaggerated
  <1> QED BY Invariant, <1>1, PTL

-----------------------------------------------------------------------------
(* Where the processes are, and what a row that was written holds.         *)

Places ==
    /\ good \in BOOLEAN
    /\ ipc \in {"ingest", "dynamics", "supply", "reward", "upsert", "wait"}
    /\ gpc \in {"idle", "latest", "rows", "total", "write"}

NominalInv ==
    \A a \in Algo : rows[a].dyn # 0 =>
        /\ rows[a].dyn \in Heights /\ rows[a].reward \in Heights
        /\ rows[a].nominal = Nominal[a][rows[a].dyn][rows[a].reward]

\* Every step leads to a place that there is.
LEMMA PlacesNext == Places /\ [Next]_vars => Places'
  <1> SUFFICES ASSUME Places, [Next]_vars PROVE Places'
    OBVIOUS
  <1> USE DEF Places
  <1>1. CASE NodeExtend \/ Trouble
    BY <1>1 DEF NodeExtend, Trouble, indexer, generator
  <1>2. CASE Ingest \/ AtTip \/ ChainDynamics \/ MoneySupply \/ BlockReward
    BY <1>2 DEF Ingest, AtTip, ChainDynamics, MoneySupply, BlockReward, generator
  <1>3. CASE Upsert \/ RefreshStops \/ WaitOver
    BY <1>3 DEF Upsert, RefreshStops, WaitOver, generator
  <1>4. CASE Generate
    BY <1>4 DEF Generate, QueryNode, ReadLatestBlocks, ReadAlgoStats, ReadGlobalStats,
                WritePage, GenerateFails, indexer
  <1>5. CASE UNCHANGED vars
    BY <1>5 DEF vars, indexer, generator
  <1> QED BY <1>1, <1>2, <1>3, <1>4, <1>5 DEF Next, Indexer, Refresh

\* Only Upsert writes a row, with what its pass has asked for.
LEMMA NominalNext == IInv /\ NominalInv /\ [Next]_vars => NominalInv'
  <1> SUFFICES ASSUME IInv, NominalInv, [Next]_vars PROVE NominalInv'
    OBVIOUS
  <1>1. CASE rows' = rows
    BY <1>1 DEF NominalInv
  <1>2. CASE Upsert
    <2>1. /\ ipc = "upsert" /\ rows' = [rows EXCEPT ![pass.algo] = Written]
          /\ rows \in [Algo -> AnyRow]
      BY <1>2 DEF Upsert, IInv, Shape
    <2>2. pass.dyn \in Heights /\ pass.reward \in Heights
      BY <2>1, Bounds DEF IInv, PassInv, Shape, Heights
    <2>3. /\ Written.dyn = pass.dyn /\ Written.reward = pass.reward
          /\ Written.nominal = Nominal[pass.algo][pass.dyn][pass.reward]
      BY DEF Written
    <2>4. \A a \in Algo : rows'[a] = IF a = pass.algo THEN Written ELSE rows[a]
      BY <2>1
    <2> QED BY <2>2, <2>3, <2>4 DEF NominalInv
  <1>3. rows' = rows \/ Upsert
    BY DEF Next, NodeExtend, Trouble, Indexer, Refresh, Generate, Ingest, AtTip, ChainDynamics,
           MoneySupply, BlockReward, RefreshStops, WaitOver, QueryNode, ReadLatestBlocks,
           ReadAlgoStats, ReadGlobalStats, WritePage, GenerateFails, vars, indexer
  <1> QED BY <1>1, <1>2, <1>3

\* What can be written for a nominal reward is an entry of the schedule.
LEMMA NominalsType == Nominals \subseteq 0..LastEra
  <1> SUFFICES ASSUME NEW a \in Algo, NEW d \in Heights, NEW r \in Heights
               PROVE  Nominal[a][d][r] \in 0..LastEra
    BY DEF Nominals
  <1>1. EraAt[a][r] \in 0..LastEra
    BY HomepageDataAssumption
  <1>2. Schedule[EraAt[a][r]] * Weight(a, r) \in Nat /\ 2 * Base(a, r) \in Nat /\ 2 * Base(a, r) > 0
    BY <1>1, ScheduleFalls, WeightFacts
  <1>3. NodeReward(a, r) \in Nat
    BY <1>2, WholeUnits DEF NodeReward
  <1>4. NominalEpochReward(NodeReward(a, r), a, d) \in 0..LastEra
    BY <1>3, NearestExists
  <1> QED BY <1>4 DEF Nominal

\* The two invariants side by side.
LEMMA RowsInvariant == Spec => [](IInv /\ Places /\ NominalInv)
  <1>1. Init => Places /\ NominalInv
    BY DEF Init, Places, NominalInv, NoRow
  <1> QED BY <1>1, Invariant, PlacesNext, NominalNext, PTL DEF Spec

\* Every variable keeps its type: doUpdateAlgoStats (algo_stats.go) stays within
\* its algorithms, nominalEpochReward finds an entry for any reward and any
\* hashrate, and the page holds heights of the node.
THEOREM TypeCorrect == Spec => []TypeOK
  <1>1. IInv /\ Places /\ NominalInv => TypeOK
    <2> SUFFICES ASSUME IInv, Places, NominalInv PROVE TypeOK
      OBVIOUS
    <2>1. 0 \in 0..LastEra
      BY DEF LastEra
    <2>2. AnyRow \subseteq Row
      BY <2>1, NominalsType DEF AnyRow, Row
    <2>3. rows \in [Algo -> Row]
      BY <2>2 DEF IInv, Shape
    <2> QED BY <2>3 DEF IInv, Shape, PassInv, Places, TypeOK
  <1> QED BY <1>1, RowsInvariant, PTL

\* doUpdateAlgoStats and nominalEpochReward (algo_stats.go): a row whose
\* hashrate and reward were asked for at heights between which 1 + ESF was
\* steady names the epoch of its reward, whatever hashrates, peaks and epochs
\* are and whatever the reward was cut to.
THEOREM NominalNamesEpoch == Spec => []NominalIsEpoch
  <1>1. NominalInv => NominalIsEpoch
    BY NearestIsEpoch DEF NominalInv, NominalIsEpoch
  <1> QED BY <1>1, RowsInvariant, PTL
=============================================================================
