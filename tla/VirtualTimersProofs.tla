------------------------- MODULE VirtualTimersProofs ------------------------
(***************************************************************************)
(* Proofs about the kernel's virtual timers, for every set of timers and   *)
(* every width of systime_t.  The types hold whatever the delays are.  The *)
(* rest needs delays that fit the range, DelaysFit: then the distances of  *)
(* the delta list are the timers' own deadlines, and the alarm is always   *)
(* set, or its interrupt pending, before the first of them is late.        *)
(***************************************************************************)
EXTENDS VirtualTimers, ThreadLists, WellFoundedInduction

(* The distance of a timer from lasttime in a delta list. *)
DistanceOf(t, list, delta) ==
  Distances(list, delta)[CHOOSE k \in DOMAIN list : list[k] = t]

Due(t) == DistanceOf(t, vtlist, vt_delta)

(* No timer is further from lasttime than it was when it was set. *)
Reaches ==
  \A t \in Range(vtlist) : \E d \in Delays[t] : Due(t) <= Span + AtLeastDelta(d)

(* The first timer is overdue by an alarm moved to the shortest delay and  *)
(* the ticks its interrupt has been pending, at most.                      *)
InTime == vtlist # <<>> => Elapsed <= FirstDelta + CH_CFG_ST_TIMEDELTA - 1 + lag

Ahead(time) == Wrap(time - now)

(* An alarm at that time is not missed, and comes soon enough. *)
Serves(time) ==
  /\ Ahead(time) >= 1
  /\ Elapsed + Ahead(time) <= FirstDelta + CH_CFG_ST_TIMEDELTA - 1

Writing == cpu.at \in {"start_alarm", "set_alarm"}

(* The alarm of the first timer is set or its interrupt pending, or an     *)
(* operation is about to write it with more ticks to go than it may take.  *)
AlarmSet ==
  /\ ~Writing => slip = 0
  /\ Writing => vtlist # <<>> /\ Serves(cpu.time)
                /\ Ahead(cpu.time) >= CH_CFG_ST_TIMEDELTA - slip
  /\ vtlist # <<>> /\ cpu.at # "start_alarm" => tim.cc1ie
  /\ vtlist # <<>> /\ cpu.at = "thread" => (latched /\ tim.cc1if) \/ Serves(tim.ccr)

(* An interrupt that is served when no timer is armed finds the header far *)
(* ahead.                                                                  *)
EmptyQuiet ==
  vtlist = <<>> =>
    /\ ~tim.cc1ie
    /\ latched \/ cpu.at = "isr" =>
         Periodic # {} \/ Elapsed - lag + MaxLag < HeaderDelta
    /\ latched /\ cpu.at = "isr" => Elapsed <= CH_CFG_ST_TIMEDELTA - 1 + lag

(* A periodic timer that is not armed expired recently. *)
PeriodicRecent == \A t \in Periodic : t \in Range(vtlist) \/ Elapsed <= Span

IInv == TypeOK /\ Reaches /\ InTime /\ AlarmSet /\ EmptyQuiet /\ PeriodicRecent

-----------------------------------------------------------------------------
(* Induction over the positions of a list.  The library's induction rule   *)
(* has an operator as a parameter; its statement that < is well-founded on *)
(* Nat has none, and gives the same.                                       *)

(* A set of natural numbers has a least one. *)
LEMMA Least ==
  ASSUME NEW T \in SUBSET Nat, T # {}
  PROVE  \E n \in T : \A m \in T : n <= m
  <1> DEFINE Less == {p \in Nat \X Nat : p[1] < p[2]}
  <1>1. IsWellFoundedOn(Less, Nat)
    BY NatLessThanWellFounded DEF OpToRel
  <1> HIDE DEF Less
  <1>2. PICK x \in T : \A y \in T : ~ (<<y, x>> \in Less)
    BY <1>1, WFMin, ZenonT(30)
  <1>3. \A y \in T : y \in Nat /\ x \in Nat /\ ~ (y < x)
    BY <1>2, ZenonT(30) DEF Less
  <1>4. QED
    BY <1>3

(* A set with 0 that has the successor of every member below n reaches n. *)
LEMMA Induction ==
  ASSUME NEW n \in Nat, NEW T, 0 \in T, \A m \in 0..(n - 1) : m \in T => m + 1 \in T
  PROVE  \A m \in 0..n : m \in T
  <1> SUFFICES ASSUME NEW j \in 0..n, j \notin T PROVE FALSE
    OBVIOUS
  <1> DEFINE Bad == {m \in 0..n : m \notin T}
  <1>1. Bad \in SUBSET Nat /\ Bad # {}
    OBVIOUS
  <1>2. \E m \in Bad : \A i \in Bad : m <= i
    <2> HIDE DEF Bad
    <2> QED
      BY <1>1, Least
  <1>3. PICK m \in Bad : \A i \in Bad : m <= i
    BY <1>2
  <1>4. m \in 1..n /\ m \notin T
    OBVIOUS
  <1>5. m - 1 \in 0..(n - 1) /\ (m - 1) + 1 = m
    BY <1>4
  <1>6. m - 1 \notin T
    BY <1>4, <1>5
  <1>7. m - 1 \in Bad
    BY <1>4, <1>6
  <1>8. QED
    BY <1>3, <1>4, <1>7

(* The first n members of a family of numbers can be summed up. *)
LEMMA PartialSums ==
  ASSUME NEW n \in Nat, NEW a \in [1..n -> Int]
  PROVE  \E f \in [0..n -> Int] : f[0] = 0 /\ \A k \in 1..n : f[k] = f[k - 1] + a[k]
  <1> DEFINE P(m) == \E f \in [0..m -> Int] :
                       f[0] = 0 /\ \A k \in 1..m : f[k] = f[k - 1] + a[k]
             T == {m \in 0..n : P(m)}
  <1>1. P(0)
    <2> DEFINE f == [k \in 0..0 |-> 0]
    <2>1. f \in [0..0 -> Int] /\ f[0] = 0 /\ \A k \in 1..0 : f[k] = f[k - 1] + a[k]
      OBVIOUS
    <2>2. QED
      BY <2>1, ZenonT(30)
  <1>2. ASSUME NEW m \in 0..(n - 1), P(m) PROVE P(m + 1)
    <2>1. PICK f \in [0..m -> Int] :
            f[0] = 0 /\ \A k \in 1..m : f[k] = f[k - 1] + a[k]
      BY <1>2, ZenonT(30)
    <2> DEFINE g == [k \in 0..(m + 1) |-> IF k = m + 1 THEN f[m] + a[m + 1] ELSE f[k]]
    <2>2. g \in [0..(m + 1) -> Int] /\ g[0] = 0
      BY <2>1
    <2>3. ASSUME NEW k \in 1..(m + 1) PROVE g[k] = g[k - 1] + a[k]
      <3>1. CASE k = m + 1
        BY <3>1
      <3>2. CASE k \in 1..m
        BY <2>1, <3>2
      <3>3. QED
        BY <3>1, <3>2
    <2>4. QED
      BY <2>2, <2>3, ZenonT(30)
  <1> HIDE DEF P
  <1>3. 0 \in T /\ \A m \in 0..(n - 1) : m \in T => m + 1 \in T
    BY <1>1, <1>2
  <1>4. n \in T
    <2> HIDE DEF T
    <2>1. \A m \in 0..n : m \in T
      BY <1>3, Induction, ZenonT(30)
    <2>2. QED
      BY <2>1
  <1>5. P(n)
    BY <1>4
  <1>6. QED
    BY <1>5, ZenonT(30) DEF P

-----------------------------------------------------------------------------
(* The distances of a delta list *)

(* The distance at a position is the one before it and its delta. *)
LEMMA DistancesFacts ==
  ASSUME NEW S, NEW s \in Seq(S), NEW d \in [S -> Int]
  PROVE  /\ Distances(s, d) \in [0..Len(s) -> Int]
         /\ Distances(s, d)[0] = 0
         /\ \A k \in 1..Len(s) : Distances(s, d)[k] = Distances(s, d)[k - 1] + d[s[k]]
  <1> DEFINE n == Len(s)
             a == [k \in 1..n |-> d[s[k]]]
             F(f) == f = [k \in 0..n |-> IF k = 0 THEN 0 ELSE f[k - 1] + d[s[k]]]
             D == Distances(s, d)
  <1>1. n \in Nat /\ a \in [1..n -> Int] /\ \A k \in 1..n : a[k] = d[s[k]]
    OBVIOUS
  <1>2. PICK f \in [0..n -> Int] : f[0] = 0 /\ \A k \in 1..n : f[k] = f[k - 1] + d[s[k]]
    <2> HIDE DEF n, a
    <2>1. PICK f \in [0..n -> Int] : f[0] = 0 /\ \A k \in 1..n : f[k] = f[k - 1] + a[k]
      BY <1>1, PartialSums, ZenonT(30)
    <2>2. QED
      BY <1>1, <2>1, ZenonT(30)
  <1>3. F(f)
    <2> HIDE DEF n
    <2>1. ASSUME NEW k \in 0..n PROVE f[k] = IF k = 0 THEN 0 ELSE f[k - 1] + d[s[k]]
      BY <1>1, <1>2
    <2>2. QED
      BY <2>1
  <1>4. D = CHOOSE g : F(g)
    BY DEF Distances
  <1>5. F(D)
    BY <1>3, <1>4, ZenonT(30)
  <1> HIDE DEF n, D
  <1>6. /\ D = [k \in 0..n |-> D[k]] /\ D[0] = 0
        /\ \A k \in 1..n : D[k] = D[k - 1] + d[s[k]]
    <2>1. D = [k \in 0..n |-> D[k]]
      BY <1>5
    <2>2. \A k \in 0..n : D[k] = IF k = 0 THEN 0 ELSE D[k - 1] + d[s[k]]
      BY <1>5, ZenonT(30)
    <2>3. 0 \in 0..n /\ \A k \in 1..n : k \in 0..n /\ k # 0
      BY <1>1
    <2>4. QED
      BY <2>1, <2>2, <2>3, ZenonT(30)
  <1> DEFINE T == {k \in 0..n : D[k] \in Int}
  <1>7. 0 \in T /\ \A k \in 0..(n - 1) : k \in T => k + 1 \in T
    <2>1. ASSUME NEW k \in 0..(n - 1), D[k] \in Int PROVE D[k + 1] \in Int
      <3>1. k + 1 \in 1..n /\ (k + 1) - 1 = k
        BY <1>1
      <3>2. D[k + 1] = D[k] + a[k + 1] /\ a[k + 1] \in Int
        BY <1>1, <1>6, <3>1, ZenonT(30)
      <3>3. QED
        BY <2>1, <3>2
    <2>2. 0 \in T
      BY <1>1, <1>6
    <2>3. \A k \in 0..(n - 1) : k + 1 \in 0..n
      BY <1>1
    <2>4. QED
      BY <2>1, <2>2, <2>3
  <1>8. \A k \in 0..n : k \in T
    <2> HIDE DEF T
    <2> QED
      BY <1>1, <1>7, Induction, ZenonT(30)
  <1>9. D \in [0..n -> Int]
    BY <1>6, <1>8
  <1>10. QED
    BY <1>6, <1>9, ZenonT(30) DEF n, D

(* Nothing else has these distances. *)
LEMMA DistancesUnique ==
  ASSUME NEW S, NEW s \in Seq(S), NEW d \in [S -> Int],
         NEW g \in [0..Len(s) -> Int], g[0] = 0,
         \A k \in 1..Len(s) : g[k] = g[k - 1] + d[s[k]]
  PROVE  Distances(s, d) = g
  <1> DEFINE n == Len(s)
             D == Distances(s, d)
             T == {k \in 0..n : D[k] = g[k]}
  <1>1. /\ n \in Nat /\ D \in [0..n -> Int] /\ D[0] = 0
        /\ \A k \in 1..n : D[k] = D[k - 1] + d[s[k]]
        /\ g \in [0..n -> Int] /\ \A k \in 1..n : g[k] = g[k - 1] + d[s[k]]
    BY DistancesFacts
  <1> HIDE DEF n, D
  <1>2. ASSUME NEW k \in 0..(n - 1), k \in T PROVE k + 1 \in T
    <2>1. k + 1 \in 1..n /\ (k + 1) - 1 = k
      BY <1>1
    <2>2. D[k + 1] = D[k] + d[s[k + 1]] /\ g[k + 1] = g[k] + d[s[k + 1]]
      BY <1>1, <2>1, SMTT(30)
    <2>3. QED
      BY <1>1, <1>2, <2>1, <2>2
  <1>3. \A k \in 0..n : k \in T
    <2>1. 0 \in T
      BY <1>1
    <2> HIDE DEF T
    <2>2. QED
      BY <1>1, <1>2, <2>1, Induction, ZenonT(30)
  <1>4. QED
    BY <1>1, <1>3 DEF D

(* A timer further back in the list is not closer. *)
LEMMA DistancesOrdered ==
  ASSUME NEW S, NEW s \in Seq(S), NEW d \in [S -> Nat],
         NEW j \in 0..Len(s), NEW k \in 0..Len(s), j <= k
  PROVE  Distances(s, d)[j] <= Distances(s, d)[k]
  <1> DEFINE n == Len(s)
             D == Distances(s, d)
             T == {m \in 0..n : j <= m => D[j] <= D[m]}
  <1>1. /\ n \in Nat /\ D \in [0..n -> Int]
        /\ \A m \in 1..n : D[m] = D[m - 1] + d[s[m]] /\ d[s[m]] \in Nat
    BY DistancesFacts
  <1> HIDE DEF n, D
  <1>2. j \in 0..n /\ k \in 0..n
    BY DEF n
  <1>3. ASSUME NEW m \in 0..(n - 1), m \in T PROVE m + 1 \in T
    <2>1. D[m + 1] = D[m] + d[s[m + 1]] /\ d[s[m + 1]] \in Nat
      BY <1>1
    <2> DEFINE e == d[s[m + 1]]
    <2>2. D[m] \in Int /\ D[m + 1] \in Int /\ D[j] \in Int
      BY <1>1, <1>2
    <2>3. CASE j = m + 1
      BY <1>1, <2>2, <2>3
    <2>4. CASE j # m + 1
      <3>1. ASSUME j <= m + 1 PROVE D[j] <= D[m] /\ m \in 0..n
        BY <1>1, <1>2, <1>3, <2>4, <3>1
      <3>2. D[m] <= D[m] + e
        <4> HIDE DEF e
        <4> QED
          BY <2>1, <2>2 DEF e
      <3>3. QED
        BY <1>1, <2>1, <2>2, <3>1, <3>2
    <2>5. QED
      BY <2>3, <2>4
  <1>4. 0 \in T
    BY <1>1, <1>2
  <1>5. \A m \in 0..n : m \in T
    <2> HIDE DEF T
    <2> QED
      BY <1>1, <1>3, <1>4, Induction, ZenonT(30)
  <1>6. QED
    BY <1>2, <1>5 DEF D

-----------------------------------------------------------------------------
(* System time *)

(* The constants, one by one. *)
LEMMA Constants ==
  /\ SYSTIME_VALUES \in Nat /\ SYSTIME_VALUES >= 3
  /\ CH_CFG_ST_TIMEDELTA \in Nat /\ CH_CFG_ST_TIMEDELTA >= 1
  /\ CH_CFG_ST_TIMEDELTA <= SYSTIME_VALUES - 2
  /\ MaxSpan \in Nat /\ MaxLag \in Nat
  /\ MaxSlip \in Nat /\ MaxSlip <= CH_CFG_ST_TIMEDELTA - 1
  BY VirtualTimersAssumption

(* What wrapping to systime_t does to a sum or a difference of times. *)
LEMMA WrapFacts ==
  ASSUME NEW x \in Int
  PROVE  /\ Wrap(x) \in systime_t
         /\ x \in 0..(SYSTIME_VALUES - 1) => Wrap(x) = x
         /\ x \in SYSTIME_VALUES..(2 * SYSTIME_VALUES - 1) => Wrap(x) = x - SYSTIME_VALUES
         /\ x \in (-SYSTIME_VALUES)..(-1) => Wrap(x) = x + SYSTIME_VALUES
  <1>1. SYSTIME_VALUES \in Nat \ {0}
    BY Constants
  <1>2. Wrap(x) \in systime_t
    BY <1>1 DEF Wrap, systime_t
  <1>3. ASSUME x \in 0..(SYSTIME_VALUES - 1) PROVE x % SYSTIME_VALUES = x
    BY <1>1, <1>3
  <1>4. ASSUME x \in SYSTIME_VALUES..(2 * SYSTIME_VALUES - 1)
        PROVE  x % SYSTIME_VALUES = x - SYSTIME_VALUES
    BY <1>1, <1>4
  <1>5. ASSUME x \in (-SYSTIME_VALUES)..(-1) PROVE x % SYSTIME_VALUES = x + SYSTIME_VALUES
    BY <1>1, <1>5
  <1>6. QED
    BY <1>2, <1>3, <1>4, <1>5 DEF Wrap

(* The difference of two times is y if the second is y ticks after the     *)
(* first, possibly after the counter has started from 0 again.             *)
LEMMA DifferenceIs ==
  ASSUME NEW a \in systime_t, NEW b \in systime_t, NEW y \in Nat, y < SYSTIME_VALUES,
         a = b + y \/ a = b + y - SYSTIME_VALUES
  PROVE  Wrap(a - b) = y
  <1>1. a \in Nat /\ a < SYSTIME_VALUES /\ b \in Nat /\ b < SYSTIME_VALUES /\ a - b \in Int
    BY Constants DEF systime_t
  <1>2. CASE a = b + y
    <2>1. a - b \in 0..(SYSTIME_VALUES - 1) /\ a - b = y
      BY <1>1, <1>2, Constants
    <2>2. QED
      BY <1>1, <2>1, WrapFacts
  <1>3. CASE a = b + y - SYSTIME_VALUES
    <2>1. a - b \in (-SYSTIME_VALUES)..(-1) /\ a - b + SYSTIME_VALUES = y
      BY <1>1, <1>3, Constants
    <2>2. QED
      BY <1>1, <2>1, WrapFacts
  <1>4. QED
    BY <1>2, <1>3

(* Two times always differ so. *)
LEMMA DifferenceFacts ==
  ASSUME NEW a \in systime_t, NEW b \in systime_t
  PROVE  /\ a \in Nat /\ a < SYSTIME_VALUES /\ b \in Nat /\ b < SYSTIME_VALUES
         /\ Wrap(a - b) \in Nat /\ Wrap(a - b) < SYSTIME_VALUES
         /\ a = b + Wrap(a - b) \/ a = b + Wrap(a - b) - SYSTIME_VALUES
  <1>1. a \in Nat /\ a < SYSTIME_VALUES /\ b \in Nat /\ b < SYSTIME_VALUES
    BY Constants DEF systime_t
  <1>2. PICK y \in Nat : y < SYSTIME_VALUES /\ (a = b + y \/ a = b + y - SYSTIME_VALUES)
    <2>1. CASE a >= b
      <3>1. a - b \in Nat /\ a - b < SYSTIME_VALUES /\ a = b + (a - b)
        BY <1>1, <2>1, Constants
      <3>2. QED
        BY <3>1
    <2>2. CASE a < b
      <3> DEFINE y == a - b + SYSTIME_VALUES
      <3>1. y \in Nat /\ y < SYSTIME_VALUES /\ a = b + y - SYSTIME_VALUES
        BY <1>1, <2>2, Constants
      <3> HIDE DEF y
      <3>2. QED
        BY <3>1
    <2>3. QED
      BY <1>1, <2>1, <2>2
  <1>3. Wrap(a - b) = y
    BY <1>2, DifferenceIs
  <1>4. QED
    BY <1>1, <1>2, <1>3

(* The time y ticks after another. *)
LEMMA SumFacts ==
  ASSUME NEW a \in systime_t, NEW y \in Nat, y < SYSTIME_VALUES
  PROVE  /\ Wrap(a + y) \in systime_t
         /\ Wrap(a + y) = a + y \/ Wrap(a + y) = a + y - SYSTIME_VALUES
  <1>1. a \in Nat /\ a < SYSTIME_VALUES /\ a + y \in Int
    BY Constants DEF systime_t
  <1>2. CASE a + y < SYSTIME_VALUES
    <2>1. a + y \in 0..(SYSTIME_VALUES - 1)
      BY <1>1, <1>2, Constants
    <2>2. QED
      BY <1>1, <2>1, WrapFacts
  <1>3. CASE a + y >= SYSTIME_VALUES
    <2>1. a + y \in SYSTIME_VALUES..(2 * SYSTIME_VALUES - 1)
      BY <1>1, <1>3, Constants
    <2> DEFINE x == a + y
    <2> HIDE DEF x
    <2>2. x \in Int /\ x \in SYSTIME_VALUES..(2 * SYSTIME_VALUES - 1)
      BY <1>1, <2>1 DEF x
    <2>3. Wrap(x) \in systime_t /\ Wrap(x) = x - SYSTIME_VALUES
      BY <2>2, WrapFacts
    <2>4. QED
      BY <1>1, <2>3, Constants DEF x
  <1>4. QED
    BY <1>1, <1>2, <1>3, Constants

(* A tick of the counter brings every time one tick closer, until it is    *)
(* reached.                                                                *)
LEMMA TickClock ==
  ASSUME now \in systime_t, lasttime \in systime_t, now' = Wrap(now + 1), lasttime' = lasttime
  PROVE  /\ now' \in systime_t
         /\ Elapsed' \in Nat /\ Elapsed' <= Elapsed + 1
         /\ Elapsed < HeaderDelta => Elapsed' = Elapsed + 1
         /\ \A c \in systime_t :
              /\ Ahead(c) = 1 => c = now'
              /\ Ahead(c) >= 1 => Wrap(c - now') = Ahead(c) - 1
  <1>1. /\ now \in Nat /\ now < SYSTIME_VALUES /\ lasttime \in Nat /\ lasttime < SYSTIME_VALUES
        /\ Elapsed \in Nat /\ Elapsed < SYSTIME_VALUES
        /\ now = lasttime + Elapsed \/ now = lasttime + Elapsed - SYSTIME_VALUES
    BY DifferenceFacts DEF Elapsed
  <1>2. now' \in systime_t /\ (now' = now + 1 \/ now' = now + 1 - SYSTIME_VALUES)
    BY SumFacts, Constants
  <1>3. /\ now' \in Nat /\ now' < SYSTIME_VALUES
        /\ Elapsed' \in Nat /\ Elapsed' < SYSTIME_VALUES
        /\ now' = lasttime + Elapsed' \/ now' = lasttime + Elapsed' - SYSTIME_VALUES
    BY <1>2, DifferenceFacts DEF Elapsed
  <1>4. Elapsed' <= Elapsed + 1 /\ (Elapsed < HeaderDelta => Elapsed' = Elapsed + 1)
    BY <1>1, <1>2, <1>3, Constants DEF HeaderDelta
  <1>5. ASSUME NEW c \in systime_t
        PROVE  /\ Ahead(c) = 1 => c = now'
               /\ Ahead(c) >= 1 => Wrap(c - now') = Ahead(c) - 1
    <2>1. /\ Ahead(c) \in Nat /\ Ahead(c) < SYSTIME_VALUES
          /\ c = now + Ahead(c) \/ c = now + Ahead(c) - SYSTIME_VALUES
          /\ c \in Nat /\ c < SYSTIME_VALUES
      BY DifferenceFacts DEF Ahead
    <2> DEFINE z == Wrap(c - now')
    <2>2. z \in Nat /\ z < SYSTIME_VALUES /\ (c = now' + z \/ c = now' + z - SYSTIME_VALUES)
      BY <1>2, DifferenceFacts
    <2> HIDE DEF z
    <2>3. Ahead(c) = 1 => c = now'
      BY <1>1, <1>2, <1>3, <2>1, Constants
    <2>4. Ahead(c) >= 1 => z = Ahead(c) - 1
      BY <1>1, <1>2, <1>3, <2>1, <2>2, Constants
    <2>5. QED
      BY <2>3, <2>4 DEF z
  <1>6. QED
    BY <1>2, <1>3, <1>4, <1>5

(* Alarms as the code computes them: y ticks from now, and y ticks from    *)
(* lasttime, which is y - Elapsed from now.                                *)
LEMMA AlarmClock ==
  ASSUME now \in systime_t, lasttime \in systime_t, NEW y \in Nat, y < SYSTIME_VALUES
  PROVE  /\ Ahead(Wrap(now + y)) = y
         /\ Ahead(Wrap(lasttime + Elapsed + y)) = y
         /\ y >= Elapsed => /\ Ahead(Wrap(lasttime + y)) = y - Elapsed
                            /\ Wrap(lasttime + y - now) = y - Elapsed
  <1>1. /\ now \in Nat /\ now < SYSTIME_VALUES /\ lasttime \in Nat /\ lasttime < SYSTIME_VALUES
        /\ Elapsed \in Nat /\ Elapsed < SYSTIME_VALUES
        /\ now = lasttime + Elapsed \/ now = lasttime + Elapsed - SYSTIME_VALUES
    BY DifferenceFacts DEF Elapsed
  <1>2. Ahead(Wrap(now + y)) = y
    <2> DEFINE c == Wrap(now + y)
    <2>1. c \in systime_t /\ (c = now + y \/ c = now + y - SYSTIME_VALUES)
      BY SumFacts
    <2> HIDE DEF c
    <2>2. Ahead(c) = y
      BY <2>1, DifferenceIs DEF Ahead
    <2>3. QED
      BY <2>2 DEF c
  <1>3. Wrap(lasttime + Elapsed + y) = Wrap(now + y)
    BY <1>1, Constants DEF Wrap
  <1>4. ASSUME y >= Elapsed
        PROVE  Ahead(Wrap(lasttime + y)) = y - Elapsed /\ Wrap(lasttime + y - now) = y - Elapsed
    <2> DEFINE c == Wrap(lasttime + y)
    <2>1. c \in systime_t /\ (c = lasttime + y \/ c = lasttime + y - SYSTIME_VALUES)
      BY SumFacts
    <2> HIDE DEF c
    <2>2. /\ y - Elapsed \in Nat /\ y - Elapsed < SYSTIME_VALUES
          /\ c \in Nat /\ c < SYSTIME_VALUES
          /\ c = now + (y - Elapsed) \/ c = now + (y - Elapsed) - SYSTIME_VALUES
      BY <1>1, <1>4, <2>1, Constants DEF systime_t
    <2>3. Ahead(c) = y - Elapsed
      BY <2>1, <2>2, DifferenceIs DEF Ahead
    <2>4. Wrap(lasttime + y - now) = y - Elapsed
      <3>1. \/ lasttime + y - now = y - Elapsed
            \/ lasttime + y - now = y - Elapsed + SYSTIME_VALUES
        BY <1>1, Constants
      <3> DEFINE z == lasttime + y - now
      <3>2. /\ z \in Int
            /\ \/ z \in 0..(SYSTIME_VALUES - 1)
               \/ z \in SYSTIME_VALUES..(2 * SYSTIME_VALUES - 1)
        BY <1>1, <2>2, <3>1, Constants
      <3> HIDE DEF z
      <3>3. Wrap(z) = z \/ Wrap(z) = z - SYSTIME_VALUES
        BY <3>2, WrapFacts
      <3>4. Wrap(z) \in Nat /\ Wrap(z) < SYSTIME_VALUES
        BY <3>2, WrapFacts, Constants DEF systime_t
      <3>5. Wrap(z) = y - Elapsed
        BY <1>1, <2>2, <3>1, <3>2, <3>3, <3>4, Constants DEF z
      <3>6. QED
        BY <3>5 DEF z
    <2>5. QED
      BY <2>3, <2>4 DEF c
  <1>5. QED
    BY <1>2, <1>3, <1>4

(* When lasttime moves to a time that has passed, that much less has       *)
(* passed since.                                                           *)
LEMMA ExpiryClock ==
  ASSUME now \in systime_t, lasttime \in systime_t, NEW f \in Nat, f <= Elapsed
  PROVE  Wrap(lasttime + f) \in systime_t /\ Wrap(now - Wrap(lasttime + f)) = Elapsed - f
  <1>1. /\ now \in Nat /\ now < SYSTIME_VALUES /\ lasttime \in Nat /\ lasttime < SYSTIME_VALUES
        /\ Elapsed \in Nat /\ Elapsed < SYSTIME_VALUES
        /\ now = lasttime + Elapsed \/ now = lasttime + Elapsed - SYSTIME_VALUES
    BY DifferenceFacts DEF Elapsed
  <1> DEFINE b == Wrap(lasttime + f)
  <1>2. b \in systime_t /\ (b = lasttime + f \/ b = lasttime + f - SYSTIME_VALUES)
    BY <1>1, SumFacts, Constants
  <1> HIDE DEF b
  <1>3. /\ Elapsed - f \in Nat /\ Elapsed - f < SYSTIME_VALUES
        /\ b \in Nat /\ b < SYSTIME_VALUES
        /\ now = b + (Elapsed - f) \/ now = b + (Elapsed - f) - SYSTIME_VALUES
    BY <1>1, <1>2, Constants DEF systime_t
  <1>4. Wrap(now - b) = Elapsed - f
    BY <1>2, <1>3, DifferenceIs
  <1>5. QED
    BY <1>2, <1>4 DEF b

-----------------------------------------------------------------------------
(* The delta list *)

(* A timer's distance is the one at its position; the first timer's is its *)
(* delta, and no other is smaller.                                         *)
LEMMA ListFacts ==
  ASSUME NEW s \in Seq(Timer), IsInjective(s), NEW d \in [Timer -> Nat]
  PROVE  /\ \A k \in 1..Len(s) : DistanceOf(s[k], s, d) = Distances(s, d)[k]
         /\ \A t \in Range(s) : t \in Timer /\ DistanceOf(t, s, d) \in Nat
         /\ s # <<>> => /\ Head(s) \in Range(s)
                        /\ DistanceOf(Head(s), s, d) = d[Head(s)]
                        /\ \A t \in Range(s) : d[Head(s)] <= DistanceOf(t, s, d)
         /\ s = <<>> <=> Range(s) = {}
  <1> DEFINE D == Distances(s, d)
             n == Len(s)
  <1>1. n \in Nat /\ DOMAIN s = 1..n /\ d \in [Timer -> Int]
    OBVIOUS
  <1>2. D \in [0..n -> Int] /\ D[0] = 0 /\ \A k \in 1..n : D[k] = D[k - 1] + d[s[k]]
    BY <1>1, DistancesFacts, ZenonT(30)
  <1>3. \A j, k \in 0..n : j <= k => D[j] <= D[k]
    BY DistancesOrdered
  <1>4. \A k \in 1..n : DistanceOf(s[k], s, d) = D[k]
    <2> SUFFICES ASSUME NEW k \in 1..n PROVE DistanceOf(s[k], s, d) = D[k]
      OBVIOUS
    <2>1. \A j \in DOMAIN s : s[j] = s[k] <=> j = k
      BY <1>1, ZenonT(30) DEF IsInjective
    <2>2. (CHOOSE j \in DOMAIN s : s[j] = s[k]) = k
      BY <1>1, <2>1
    <2>3. QED
      BY <2>2, ZenonT(30) DEF DistanceOf
  <1>5. \A t \in Range(s) : \E k \in 1..n : t = s[k]
    BY <1>1 DEF Range
  <1>6. \A k \in 1..n : s[k] \in Range(s) /\ s[k] \in Timer
    BY <1>1 DEF Range
  <1> HIDE DEF D, n
  <1>7. \A k \in 1..n : D[k] \in Nat
    <2>1. \A k \in 1..n : k \in 0..n /\ 0 \in 0..n /\ 0 <= k
      BY <1>1
    <2>2. \A k \in 1..n : 0 <= D[k] /\ D[k] \in Int
      BY <1>2, <1>3, <2>1, ZenonT(30)
    <2>3. QED
      BY <2>2
  <1>8. \A t \in Range(s) : t \in Timer /\ DistanceOf(t, s, d) \in Nat
    BY <1>4, <1>5, <1>6, <1>7, ZenonT(30)
  <1>9. ASSUME s # <<>>
        PROVE  /\ Head(s) \in Range(s) /\ DistanceOf(Head(s), s, d) = d[Head(s)]
               /\ \A t \in Range(s) : d[Head(s)] <= DistanceOf(t, s, d)
    <2>1. n >= 1 /\ Head(s) = s[1]
      BY <1>9 DEF n
    <2>2. 1 \in 1..n /\ 1 - 1 = 0 /\ d[s[1]] \in Int
      BY <1>1, <1>6, <2>1
    <2>3. D[1] = d[s[1]]
      BY <1>2, <2>2
    <2>4. \A k \in 1..n : D[1] <= D[k]
      BY <1>1, <1>3, <2>1
    <2>5. \A t \in Range(s) : D[1] <= DistanceOf(t, s, d)
      BY <1>4, <1>5, <2>4
    <2>6. QED
      BY <1>4, <1>6, <2>1, <2>2, <2>3, <2>5
  <1>10. s = <<>> => Range(s) = {}
    BY DEF Range
  <1>11. QED
    BY <1>4, <1>8, <1>9, <1>10 DEF D, n

(* The deltas e of a list into which a timer is inserted before the i-th,  *)
(* with its delta x taken off that one's.                                  *)
TakenOff(s, d, i, x, e) ==
  \A k \in 1..Len(s) : e[s[k]] = IF k = i THEN d[s[k]] - x ELSE d[s[k]]

(* The distances after the insertion of timer t: its own, and the others'. *)
KeepsDistances(s, d, t, i, x, e) ==
  /\ DistanceOf(t, With(s, i, t), e) = Distances(s, d)[i - 1] + x
  /\ \A u \in Range(s) : DistanceOf(u, With(s, i, t), e) = DistanceOf(u, s, d)

(* The others keep their distances. *)
LEMMA InsertDistances ==
  ASSUME NEW s \in Seq(Timer), IsInjective(s), NEW d \in [Timer -> Nat],
         NEW t \in Timer, t \notin Range(s), NEW i \in 1..(Len(s) + 1), NEW x \in Nat,
         NEW e \in [Timer -> Nat], e[t] = x, TakenOff(s, d, i, x, e)
  PROVE  KeepsDistances(s, d, t, i, x, e)
  <1> DEFINE r == With(s, i, t)
             n == Len(s)
             D == Distances(s, d)
             g == [k \in 0..(n + 1) |-> IF k < i THEN D[k]
                                        ELSE IF k = i THEN D[i - 1] + x ELSE D[k - 1]]
  <1>1. /\ n \in Nat /\ i \in 1..(n + 1) /\ DOMAIN s = 1..n
        /\ \A k \in 1..n : s[k] \in Timer /\ s[k] \in Range(s) /\ s[k] # t
        /\ \A j, k \in 1..n : s[j] = s[k] => j = k
        /\ \A u \in Range(s) : \E k \in 1..n : u = s[k]
    <2>1. n \in Nat /\ i \in 1..(n + 1) /\ DOMAIN s = 1..n /\ \A k \in 1..n : s[k] \in Timer
      OBVIOUS
    <2> HIDE DEF n
    <2>2. \A j, k \in 1..n : s[j] = s[k] => j = k
      BY <2>1, ZenonT(30) DEF IsInjective
    <2>3. \A k \in 1..n : s[k] \in Range(s)
      BY <2>1, ZenonT(30) DEF Range
    <2>4. \A u \in Range(s) : \E k \in 1..n : u = s[k]
      BY <2>1 DEF Range
    <2>5. QED
      BY <2>1, <2>2, <2>3, <2>4
  <1>2. /\ r \in Seq(Timer) /\ Len(r) = n + 1 /\ IsInjective(r) /\ r[i] = t
        /\ \A k \in 1..(n + 1) : (k < i => r[k] = s[k]) /\ (k > i => r[k] = s[k - 1])
    <2> HIDE DEF r, n
    <2>1. /\ r \in Seq(Timer) /\ Len(r) = n + 1
          /\ \A k \in 1..(n + 1) :
               r[k] = IF k < i THEN s[k] ELSE IF k = i THEN t ELSE s[k - 1]
      BY InsertElements DEF r, n
    <2>2. IsInjective(r)
      BY InsertMembers DEF r
    <2>3. QED
      BY <1>1, <2>1, <2>2
  <1>3. D \in [0..n -> Int] /\ D[0] = 0 /\ \A k \in 1..n : D[k] = D[k - 1] + d[s[k]]
    <2>1. d \in [Timer -> Int]
      OBVIOUS
    <2>2. QED
      BY <2>1, DistancesFacts, SMTT(30)
  <1>4. \A k \in 1..n : e[s[k]] = IF k = i THEN d[s[k]] - x ELSE d[s[k]]
    BY DEF TakenOff
  <1> HIDE DEF r, n, D
  <1>6. /\ g \in [0..(n + 1) -> Int] /\ g[0] = 0 /\ g[i] = D[i - 1] + x
        /\ \A k \in 0..(n + 1) : (k < i => g[k] = D[k]) /\ (k > i => g[k] = D[k - 1])
    <2>1. i - 1 \in 0..n /\ D[i - 1] \in Int /\ 0 < i
      BY <1>1, <1>3, SMTT(30)
    <2>2. \A k \in 0..(n + 1) : (k < i => k \in 0..n) /\ (k > i => k - 1 \in 0..n)
      BY <1>1
    <2>3. \A k \in 0..(n + 1) :
            /\ g[k] \in Int /\ (k = i => g[k] = D[i - 1] + x)
            /\ (k < i => g[k] = D[k]) /\ (k > i => g[k] = D[k - 1])
      BY <1>1, <1>3, <2>1, <2>2
    <2>4. i \in 0..(n + 1) /\ 0 \in 0..(n + 1)
      BY <1>1
    <2>5. g \in [0..(n + 1) -> Int]
      BY <2>3
    <2> HIDE DEF g
    <2>6. QED
      BY <1>3, <2>1, <2>3, <2>4, <2>5
  <1>7. \A k \in 1..(n + 1) : g[k] = g[k - 1] + e[r[k]]
    <2> HIDE DEF g
    <2> SUFFICES ASSUME NEW k \in 1..(n + 1) PROVE g[k] = g[k - 1] + e[r[k]]
      OBVIOUS
    <2>1. k \in 0..(n + 1) /\ k - 1 \in 0..(n + 1)
      BY <1>1
    <2>2. CASE k < i
      <3>1. k \in 1..n /\ k # i /\ k - 1 < i
        BY <1>1, <2>2
      <3>2. r[k] = s[k] /\ g[k] = D[k] /\ g[k - 1] = D[k - 1]
        BY <1>2, <1>6, <2>1, <2>2, <3>1, ZenonT(30)
      <3>3. QED
        BY <1>3, <1>4, <3>1, <3>2
    <2>3. CASE k = i
      <3>1. r[k] = t /\ g[k] = D[k - 1] + x /\ g[k - 1] = D[k - 1]
        <4>1. k - 1 < i
          BY <1>1, <2>3
        <4>2. QED
          BY <1>2, <1>6, <2>1, <2>3, <4>1
      <3>2. QED
        BY <3>1
    <2>4. CASE k = i + 1
      <3>1. i <= n /\ i \in 1..n /\ k - 1 = i /\ k > i
        BY <1>1, <2>4
      <3>2. r[k] = s[i] /\ g[k] = D[i] /\ g[k - 1] = D[i - 1] + x
        <4>1. r[k] = s[k - 1] /\ g[k] = D[k - 1]
          BY <1>2, <1>6, <2>1, <3>1, ZenonT(30)
        <4>2. QED
          BY <1>6, <3>1, <4>1
      <3>3. D[i] = D[i - 1] + d[s[i]] /\ e[s[i]] = d[s[i]] - x
        BY <1>3, <1>4, <3>1
      <3>4. D[i - 1] \in Int /\ d[s[i]] \in Nat
        BY <1>1, <1>3, <3>1
      <3> DEFINE a == D[i - 1]
                 b == d[s[i]]
      <3>5. a + b = (a + x) + (b - x)
        <4>1. a \in Int /\ b \in Int /\ x \in Int
          BY <3>4
        <4> HIDE DEF a, b
        <4>2. QED
          BY <4>1
      <3>6. QED
        BY <3>2, <3>3, <3>5, ZenonT(30)
    <2>5. CASE k > i + 1
      <3>1. k - 1 \in 1..n /\ k - 1 # i /\ k > i /\ k - 1 > i
        BY <1>1, <2>5
      <3>2. r[k] = s[k - 1] /\ g[k] = D[k - 1] /\ g[k - 1] = D[(k - 1) - 1]
        BY <1>1, <1>2, <1>6, <2>1, <2>5, <3>1, ZenonT(30)
      <3>3. QED
        BY <1>3, <1>4, <3>1, <3>2
    <2>6. QED
      BY <1>1, <2>2, <2>3, <2>4, <2>5
  <1>8. Distances(r, e) = g
    <2> HIDE DEF g
    <2>1. e \in [Timer -> Int] /\ r \in Seq(Timer)
      BY <1>2
    <2>2. /\ g \in [0..Len(r) -> Int] /\ g[0] = 0
          /\ \A k \in 1..Len(r) : g[k] = g[k - 1] + e[r[k]]
      BY <1>2, <1>6, <1>7
    <2>3. QED
      BY ONLY <2>1, <2>2, DistancesUnique, ZenonT(30)
  <1> HIDE DEF g
  <1>9. /\ \A k \in 1..(n + 1) : DistanceOf(r[k], r, e) = g[k]
        /\ \A k \in 1..n : DistanceOf(s[k], s, d) = D[k]
    <2>1. \A k \in 1..Len(r) : DistanceOf(r[k], r, e) = Distances(r, e)[k]
      BY <1>2, ListFacts, ZenonT(30)
    <2>2. \A k \in 1..Len(s) : DistanceOf(s[k], s, d) = Distances(s, d)[k]
      BY ListFacts, ZenonT(30)
    <2>3. QED
      BY <1>2, <1>8, <2>1, <2>2 DEF n, D
  <1>10. DistanceOf(t, r, e) = D[i - 1] + x
    BY <1>1, <1>2, <1>6, <1>9, ZenonT(30)
  <1>11. ASSUME NEW u \in Range(s) PROVE DistanceOf(u, r, e) = DistanceOf(u, s, d)
    <2>1. PICK k \in 1..n : u = s[k]
      BY <1>1
    <2>2. CASE k < i
      <3>0. k \in 1..(n + 1) /\ k \in 0..(n + 1)
        BY <1>1
      <3>1. k \in 1..(n + 1) /\ r[k] = s[k] /\ g[k] = D[k]
        BY <1>2, <1>6, <2>2, <3>0
      <3>2. QED
        BY <1>9, <2>1, <3>1
    <2>3. CASE k >= i
      <3>1. k + 1 \in 1..(n + 1) /\ k + 1 \in 0..(n + 1) /\ k + 1 > i /\ (k + 1) - 1 = k
        BY <1>1, <2>3
      <3>2. r[k + 1] = s[k] /\ g[k + 1] = D[k]
        BY <1>1, <1>2, <1>6, <3>1, ZenonT(30)
      <3>3. QED
        BY <1>9, <2>1, <3>1, <3>2, ZenonT(30)
    <2>4. QED
      BY <1>1, <2>2, <2>3
  <1>12. QED
    BY <1>10, <1>11 DEF r, D, KeepsDistances

(* The deltas e of a list from which the i-th timer is removed, with its   *)
(* delta added to that of the one after it.                                *)
AddedOn(s, d, i, e) ==
  \A k \in 1..Len(s) :
    e[s[k]] = IF k = i THEN 0 ELSE IF k = i + 1 THEN d[s[k]] + d[s[i]] ELSE d[s[k]]

(* The others keep their distances. *)
LEMMA RemoveDistances ==
  ASSUME NEW s \in Seq(Timer), IsInjective(s), NEW d \in [Timer -> Nat],
         NEW i \in 1..Len(s), NEW e \in [Timer -> Nat], AddedOn(s, d, i, e)
  PROVE  \A u \in Range(s) \ {s[i]} : DistanceOf(u, Without(s, i), e) = DistanceOf(u, s, d)
  <1> DEFINE r == Without(s, i)
             n == Len(s)
             D == Distances(s, d)
             g == [k \in 0..(n - 1) |-> IF k < i THEN D[k] ELSE D[k + 1]]
  <1>1. /\ n \in Nat /\ i \in 1..n /\ DOMAIN s = 1..n
        /\ \A u \in Range(s) : \E k \in 1..n : u = s[k]
        /\ \A k \in 1..n : d[s[k]] \in Nat
    <2>1. n \in Nat /\ i \in 1..n /\ DOMAIN s = 1..n /\ \A k \in 1..n : s[k] \in Timer
      OBVIOUS
    <2> HIDE DEF n
    <2>2. \A u \in Range(s) : \E k \in 1..n : u = s[k]
      BY <2>1 DEF Range
    <2>3. QED
      BY <2>1, <2>2
  <1>2. /\ r \in Seq(Timer) /\ Len(r) = n - 1 /\ IsInjective(r)
        /\ \A k \in 1..(n - 1) : (k < i => r[k] = s[k]) /\ (k >= i => r[k] = s[k + 1])
    <2> HIDE DEF r, n
    <2>1. /\ r \in Seq(Timer) /\ Len(r) = n - 1
          /\ \A k \in 1..(n - 1) : r[k] = IF k < i THEN s[k] ELSE s[k + 1]
      BY RemoveElements, ZenonT(30) DEF r, n
    <2>2. IsInjective(r)
      BY <1>1, RemoveMembers DEF r
    <2>3. ASSUME NEW k \in 1..(n - 1)
          PROVE  (k < i => r[k] = s[k]) /\ (k >= i => r[k] = s[k + 1])
      <3>1. k >= i => ~ (k < i)
        BY <1>1
      <3>2. r[k] = IF k < i THEN s[k] ELSE s[k + 1]
        BY <2>1, ZenonT(30)
      <3>3. QED
        BY <3>1, <3>2, ZenonT(30)
    <2>4. QED
      BY <2>1, <2>2, <2>3, ZenonT(30)
  <1>3. D \in [0..n -> Int] /\ D[0] = 0 /\ \A k \in 1..n : D[k] = D[k - 1] + d[s[k]]
    <2>1. d \in [Timer -> Int]
      OBVIOUS
    <2>2. QED
      BY <2>1, DistancesFacts
  <1>4. \A k \in 1..n : e[s[k]] = IF k = i THEN 0
                                  ELSE IF k = i + 1 THEN d[s[k]] + d[s[i]] ELSE d[s[k]]
    BY DEF AddedOn
  <1> HIDE DEF r, n, D
  <1>5. /\ g \in [0..(n - 1) -> Int] /\ g[0] = 0
        /\ \A k \in 0..(n - 1) : (k < i => g[k] = D[k]) /\ (k >= i => g[k] = D[k + 1])
    <2>1. \A k \in 0..(n - 1) : k \in 0..n /\ k + 1 \in 0..n
      BY <1>1
    <2>2. \A k \in 0..(n - 1) :
            g[k] \in Int /\ (k < i => g[k] = D[k]) /\ (k >= i => g[k] = D[k + 1])
      <3> SUFFICES ASSUME NEW k \in 0..(n - 1)
                   PROVE  g[k] \in Int /\ (k < i => g[k] = D[k]) /\ (k >= i => g[k] = D[k + 1])
        OBVIOUS
      <3>1. D[k] \in Int /\ D[k + 1] \in Int
        BY <1>3, <2>1, ZenonT(30)
      <3>2. g[k] = IF k < i THEN D[k] ELSE D[k + 1]
        BY ZenonT(30)
      <3> HIDE DEF g
      <3>3. QED
        BY <1>1, <3>1, <3>2
    <2>3. 0 \in 0..(n - 1) /\ 0 < i
      BY <1>1
    <2>4. g \in [0..(n - 1) -> Int]
      BY <2>2
    <2> HIDE DEF g
    <2>5. QED
      BY <1>3, <2>2, <2>3, <2>4
  <1> HIDE DEF g
  <1>6. \A k \in 1..(n - 1) : g[k] = g[k - 1] + e[r[k]]
    <2> SUFFICES ASSUME NEW k \in 1..(n - 1) PROVE g[k] = g[k - 1] + e[r[k]]
      OBVIOUS
    <2>1. /\ k \in 0..(n - 1) /\ k - 1 \in 0..(n - 1) /\ k \in 1..n /\ k - 1 \in 0..n
          /\ k + 1 \in 1..n /\ (k + 1) - 1 = k /\ (k - 1) + 1 = k
      BY <1>1
    <2>2. CASE k < i
      <3>1. k # i /\ k # i + 1 /\ k - 1 < i
        BY <1>1, <2>2
      <3>2. r[k] = s[k] /\ g[k] = D[k] /\ g[k - 1] = D[k - 1]
        BY <1>2, <1>5, <2>1, <2>2, <3>1, ZenonT(30)
      <3>3. QED
        BY <1>3, <1>4, <2>1, <3>1, <3>2, SMTT(30)
    <2>3. CASE k = i
      <3>1. k - 1 < i /\ k >= i /\ k + 1 # i
        BY <1>1, <2>3
      <3>2. r[k] = s[k + 1] /\ g[k] = D[k + 1] /\ g[k - 1] = D[k - 1]
        BY <1>2, <1>5, <2>1, <3>1, ZenonT(30)
      <3>3. D[k + 1] = D[k] + d[s[k + 1]] /\ D[k] = D[k - 1] + d[s[k]]
        BY <1>3, <2>1, SMTT(30)
      <3>4. e[s[k + 1]] = d[s[k + 1]] + d[s[k]]
        BY <1>4, <2>1, <2>3, <3>1
      <3> DEFINE a == D[k - 1]
                 b == d[s[k]]
                 c == d[s[k + 1]]
      <3>5. (a + b) + c = a + (c + b)
        <4>1. b \in Nat /\ c \in Nat
          BY <1>1, <2>1, ZenonT(30)
        <4>2. a \in Int
          BY <1>3, <2>1, ZenonT(30)
        <4> HIDE DEF a, b, c
        <4>3. QED
          BY <4>1, <4>2
      <3>6. QED
        BY <3>2, <3>3, <3>4, <3>5, ZenonT(30)
    <2>4. CASE k > i
      <3>1. k - 1 >= i /\ k >= i /\ k + 1 # i /\ k + 1 # i + 1
        BY <1>1, <2>4
      <3>2. r[k] = s[k + 1] /\ g[k] = D[k + 1] /\ g[k - 1] = D[k]
        <4>1. r[k] = s[k + 1] /\ g[k] = D[k + 1]
          BY <1>2, <1>5, <2>1, <3>1
        <4>2. g[k - 1] = D[(k - 1) + 1]
          BY <1>5, <2>1, <3>1
        <4>3. QED
          BY <2>1, <4>1, <4>2
      <3>3. QED
        BY <1>3, <1>4, <2>1, <3>1, <3>2
    <2>5. QED
      BY <1>1, <2>2, <2>3, <2>4
  <1>7. Distances(r, e) = g
    <2>1. e \in [Timer -> Int] /\ r \in Seq(Timer)
      BY <1>2
    <2>2. /\ g \in [0..Len(r) -> Int] /\ g[0] = 0
          /\ \A k \in 1..Len(r) : g[k] = g[k - 1] + e[r[k]]
      BY <1>2, <1>5, <1>6
    <2>3. QED
      BY ONLY <2>1, <2>2, DistancesUnique, ZenonT(30)
  <1>8. /\ \A k \in 1..(n - 1) : DistanceOf(r[k], r, e) = g[k]
        /\ \A k \in 1..n : DistanceOf(s[k], s, d) = D[k]
    <2>1. \A k \in 1..Len(r) : DistanceOf(r[k], r, e) = Distances(r, e)[k]
      BY <1>2, ListFacts, ZenonT(30)
    <2>2. \A k \in 1..Len(s) : DistanceOf(s[k], s, d) = Distances(s, d)[k]
      BY ListFacts, ZenonT(30)
    <2>3. QED
      BY <1>2, <1>7, <2>1, <2>2 DEF n, D
  <1>9. ASSUME NEW u \in Range(s) \ {s[i]} PROVE DistanceOf(u, r, e) = DistanceOf(u, s, d)
    <2>1. PICK k \in 1..n : u = s[k]
      BY <1>1
    <2>2. k # i
      BY <1>9, <2>1
    <2>3. CASE k < i
      <3>1. k \in 1..(n - 1) /\ k \in 0..(n - 1)
        BY <1>1, <2>3
      <3>2. r[k] = s[k] /\ g[k] = D[k]
        BY <1>2, <1>5, <2>3, <3>1
      <3>3. QED
        BY <1>8, <2>1, <3>1, <3>2
    <2>4. CASE k > i
      <3>1. k - 1 \in 1..(n - 1) /\ k - 1 \in 0..(n - 1) /\ k - 1 >= i /\ (k - 1) + 1 = k
        BY <1>1, <2>4
      <3>2. r[k - 1] = s[k] /\ g[k - 1] = D[k]
        BY <1>2, <1>5, <3>1, ZenonT(30)
      <3>3. QED
        BY <1>8, <2>1, <3>1, <3>2, ZenonT(30)
    <2>5. QED
      BY <1>1, <2>2, <2>3, <2>4
  <1>10. QED
    BY <1>9 DEF r

(* The first timer removed, and the distances counted from when it was     *)
(* due: they are that much less.                                           *)
LEMMA TailDistances ==
  ASSUME NEW s \in Seq(Timer), IsInjective(s), s # <<>>, NEW d \in [Timer -> Nat],
         NEW e, e = [d EXCEPT ![Head(s)] = 0]
  PROVE  \A u \in Range(s) \ {Head(s)} :
           DistanceOf(u, Tail(s), e) = DistanceOf(u, s, d) - d[Head(s)]
  <1> DEFINE r == Tail(s)
             n == Len(s)
             D == Distances(s, d)
             g == [k \in 0..(n - 1) |-> D[k + 1] - D[1]]
  <1>1. /\ n \in Nat /\ n >= 1 /\ DOMAIN s = 1..n /\ Head(s) = s[1]
        /\ \A u \in Range(s) : \E k \in 1..n : u = s[k]
        /\ \A k \in 1..n : s[k] \in Timer /\ (k # 1 => s[k] # s[1])
    <2>1. /\ n \in Nat /\ n >= 1 /\ DOMAIN s = 1..n /\ Head(s) = s[1]
          /\ \A k \in 1..n : s[k] \in Timer
      OBVIOUS
    <2> HIDE DEF n
    <2>2. \A u \in Range(s) : \E k \in 1..n : u = s[k]
      BY <2>1 DEF Range
    <2>3. \A k \in 1..n : k # 1 => s[k] # s[1]
      <3>1. \A a, b \in 1..n : s[a] = s[b] => a = b
        BY <2>1, ZenonT(30) DEF IsInjective
      <3>2. 1 \in 1..n
        BY <2>1
      <3>3. QED
        BY <3>1, <3>2, ZenonT(30)
    <2>4. QED
      BY <2>1, <2>2, <2>3
  <1>2. /\ r \in Seq(Timer) /\ Len(r) = n - 1 /\ IsInjective(r)
        /\ \A k \in 1..(n - 1) : r[k] = s[k + 1]
    BY <1>1, TailMembers
  <1>3. D \in [0..n -> Int] /\ D[0] = 0 /\ \A k \in 1..n : D[k] = D[k - 1] + d[s[k]]
    <2>1. d \in [Timer -> Int]
      OBVIOUS
    <2>2. QED
      BY <2>1, DistancesFacts
  <1>4. e \in [Timer -> Nat] /\ \A k \in 1..n : k # 1 => e[s[k]] = d[s[k]]
    BY <1>1
  <1> HIDE DEF r, n, D
  <1>5. /\ g \in [0..(n - 1) -> Int] /\ g[0] = 0
        /\ \A k \in 0..(n - 1) : g[k] = D[k + 1] - D[1]
    <2>1. \A k \in 0..(n - 1) : k + 1 \in 0..n /\ 1 \in 0..n
      BY <1>1
    <2>2. \A k \in 0..(n - 1) : D[k + 1] \in Int /\ D[1] \in Int
      BY <1>3, <2>1, ZenonT(30)
    <2>3. \A k \in 0..(n - 1) : g[k] = D[k + 1] - D[1] /\ g[k] \in Int
      BY <2>2
    <2>4. g \in [0..(n - 1) -> Int]
      BY <2>3
    <2>5. 0 \in 0..(n - 1)
      BY <1>1
    <2> HIDE DEF g
    <2>6. g[0] = 0
      <3>1. g[0] = D[0 + 1] - D[1] /\ D[1] \in Int
        BY <2>2, <2>3, <2>5
      <3>2. QED
        BY <3>1
    <2>7. QED
      BY <2>3, <2>4, <2>6
  <1> HIDE DEF g
  <1>6. ASSUME NEW k \in 1..(n - 1) PROVE g[k] = g[k - 1] + e[r[k]]
    <2>1. /\ k \in 0..(n - 1) /\ k - 1 \in 0..(n - 1) /\ (k - 1) + 1 = k
          /\ k + 1 \in 1..n /\ (k + 1) - 1 = k /\ k + 1 # 1 /\ k \in 0..n /\ 1 \in 0..n
      BY <1>1
    <2>2. g[k] = D[k + 1] - D[1] /\ g[k - 1] = D[k] - D[1]
      BY <1>5, <2>1
    <2>3. D[k + 1] = D[k] + d[s[k + 1]] /\ e[r[k]] = d[s[k + 1]]
      BY <1>2, <1>3, <1>4, <2>1
    <2> DEFINE a == D[k]
               b == d[s[k + 1]]
               c == D[1]
    <2>4. (a + b) - c = (a - c) + b
      <3>1. a \in Int /\ b \in Int /\ c \in Int
        BY <1>1, <1>3, <2>1
      <3> HIDE DEF a, b, c
      <3>2. QED
        BY <3>1
    <2>5. QED
      BY <2>2, <2>3, <2>4, ZenonT(30)
  <1>7. Distances(r, e) = g
    <2>1. e \in [Timer -> Int] /\ r \in Seq(Timer)
      BY <1>2, <1>4
    <2>2. /\ g \in [0..Len(r) -> Int] /\ g[0] = 0
          /\ \A k \in 1..Len(r) : g[k] = g[k - 1] + e[r[k]]
      BY <1>2, <1>5, <1>6
    <2>3. QED
      BY ONLY <2>1, <2>2, DistancesUnique, ZenonT(30)
  <1>8. /\ \A k \in 1..(n - 1) : DistanceOf(r[k], r, e) = g[k]
        /\ \A k \in 1..n : DistanceOf(s[k], s, d) = D[k]
    <2>1. \A k \in 1..Len(r) : DistanceOf(r[k], r, e) = Distances(r, e)[k]
      BY <1>2, <1>4, ListFacts, ZenonT(30)
    <2>2. \A k \in 1..Len(s) : DistanceOf(s[k], s, d) = Distances(s, d)[k]
      BY ListFacts, ZenonT(30)
    <2>3. QED
      BY <1>2, <1>7, <2>1, <2>2, ZenonT(30) DEF n, D
  <1>9. ASSUME NEW u \in Range(s) \ {Head(s)}
        PROVE  DistanceOf(u, r, e) = DistanceOf(u, s, d) - d[Head(s)]
    <2>1. PICK k \in 1..n : u = s[k]
      BY <1>1
    <2>2. /\ k # 1 /\ k - 1 \in 1..(n - 1) /\ k - 1 \in 0..(n - 1) /\ (k - 1) + 1 = k
          /\ 1 \in 1..n /\ 1 - 1 = 0
      BY <1>1, <1>9, <2>1
    <2>3. r[k - 1] = s[k] /\ g[k - 1] = D[k] - D[1]
      BY <1>2, <1>5, <2>2
    <2>4. D[1] = d[s[1]]
      <3>1. D[1] = 0 + d[s[1]] /\ d[s[1]] \in Int
        BY <1>1, <1>3, <2>2
      <3>2. QED
        BY <3>1
    <2>5. DistanceOf(u, r, e) = D[k] - D[1] /\ DistanceOf(u, s, d) = D[k]
      BY <1>8, <2>1, <2>2, <2>3, ZenonT(30)
    <2>6. QED
      BY <1>1, <2>4, <2>5, ZenonT(30)
  <1>10. QED
    BY <1>9, ZenonT(30) DEF r

(* The scan stops at the place of a timer x ticks behind the one before    *)
(* from, and leaves it the ticks behind its predecessor.                   *)
LEMMA ScanFacts ==
  ASSUME vtlist \in Seq(Timer), vt_delta \in [Timer -> Nat],
         NEW from \in 1..(Len(vtlist) + 1), NEW x \in Nat
  PROVE  /\ Scan(from, x).at \in from..(Len(vtlist) + 1)
         /\ Scan(from, x).delta \in Nat /\ Scan(from, x).delta <= x
         /\ Scan(from, x).at <= Len(vtlist) =>
              Scan(from, x).delta <= vt_delta[vtlist[Scan(from, x).at]]
         /\ Distances(vtlist, vt_delta)[Scan(from, x).at - 1] + Scan(from, x).delta
              = Distances(vtlist, vt_delta)[from - 1] + x
  <1> DEFINE n == Len(vtlist)
             D == Distances(vtlist, vt_delta)
             step(k) == vt_delta[vtlist[k]]
             Rest(k) == x - (D[k - 1] - D[from - 1])
             Stops(k) == /\ \A j \in from..(k - 1) : step(j) < Rest(j)
                         /\ k <= n => step(k) >= Rest(k)
             at == CHOOSE k \in from..(n + 1) : Stops(k)
  <1>1. n \in Nat /\ from \in 1..(n + 1)
    OBVIOUS
  <1>2. /\ D \in [0..n -> Int]
        /\ \A k \in 1..n : D[k] = D[k - 1] + step(k) /\ step(k) \in Nat
    <2>1. vt_delta \in [Timer -> Int]
      OBVIOUS
    <2>2. D \in [0..n -> Int] /\ \A k \in 1..n : D[k] = D[k - 1] + step(k)
      BY <2>1, DistancesFacts
    <2>3. \A k \in 1..n : step(k) \in Nat
      OBVIOUS
    <2>4. QED
      BY <2>2, <2>3
  <1>3. \A j, k \in 0..n : j <= k => D[j] <= D[k]
    BY DistancesOrdered
  <1>4. Scan(from, x) = [at |-> at, delta |-> Rest(at)]
    BY DEF Scan
  <1> HIDE DEF n, D, step
  <1>5. \A k \in from..(n + 1) : k - 1 \in 0..n /\ D[k - 1] \in Int /\ Rest(k) \in Int
    <2>1. \A k \in from..(n + 1) : k - 1 \in 0..n
      BY <1>1
    <2>2. from \in from..(n + 1)
      BY <1>1
    <2>3. D[from - 1] \in Int /\ \A k \in from..(n + 1) : D[k - 1] \in Int
      BY <1>2, <2>1, <2>2, ZenonT(30)
    <2>4. QED
      BY <2>1, <2>3
  <1> HIDE DEF Rest
  <1>6. \E k \in from..(n + 1) : Stops(k)
    <2> DEFINE T == {k \in from..(n + 1) : k <= n => step(k) >= Rest(k)}
    <2>1. T \in SUBSET Nat /\ T # {}
      <3>1. n + 1 \in T
        BY <1>1
      <3>2. from..(n + 1) \subseteq Nat
        BY <1>1
      <3>3. QED
        BY <3>1, <3>2, ZenonT(30)
    <2>2. \E k \in T : \A j \in T : k <= j
      <3> HIDE DEF T
      <3> QED
        BY <2>1, Least, ZenonT(30)
    <2>3. PICK k \in T : \A j \in T : k <= j
      BY <2>2
    <2>4. ASSUME NEW j \in from..(k - 1) PROVE step(j) < Rest(j)
      <3>1. j \in from..(n + 1) /\ j \in 1..n /\ ~(k <= j)
        BY <1>1
      <3>2. ~(step(j) >= Rest(j))
        BY <2>3, <3>1
      <3>3. step(j) \in Nat /\ Rest(j) \in Int
        BY <1>2, <1>5, <3>1
      <3> HIDE DEF T
      <3>4. QED
        BY <3>2, <3>3
    <2>5. QED
      BY <2>4
  <1>7. at \in from..(n + 1) /\ Stops(at)
    <2> HIDE DEF Stops
    <2> QED
      BY <1>6
  <1> HIDE DEF at
  <1>8. Rest(at) >= 0
    <2>1. CASE at = from
      <3>1. D[from - 1] \in Int
        BY <1>5, <1>7, <2>1
      <3>2. QED
        BY <2>1, <3>1 DEF Rest
    <2>2. CASE at # from
      <3>1. at - 1 \in from..(at - 1) /\ at - 1 \in 1..n /\ at - 1 \in from..(n + 1)
        BY <1>1, <1>7, <2>2
      <3>2. step(at - 1) < Rest(at - 1)
        BY <1>7, <3>1
      <3>3. D[at - 1] = D[(at - 1) - 1] + step(at - 1)
        BY <1>2, <3>1
      <3> DEFINE a == D[(at - 1) - 1]
                 b == D[from - 1]
                 c == step(at - 1)
      <3>4. a \in Int /\ b \in Int /\ c \in Nat /\ c < x - (a - b)
        <4>1. a \in Int /\ c \in Nat
          BY <1>2, <1>5, <3>1
        <4>2. b \in Int
          BY <1>1, <1>5
        <4>3. c < x - (a - b)
          BY <3>2 DEF Rest
        <4>4. QED
          BY <4>1, <4>2, <4>3
      <3>5. Rest(at) = x - ((a + c) - b)
        BY <3>3 DEF Rest
      <3> HIDE DEF a, b, c
      <3>6. QED
        BY <3>4, <3>5
    <2>3. QED
      BY <2>1, <2>2
  <1>9. Rest(at) \in Nat /\ Rest(at) <= x /\ D[at - 1] + Rest(at) = D[from - 1] + x
    <2> DEFINE a == D[at - 1]
               b == D[from - 1]
    <2>1. at - 1 \in 0..n /\ from - 1 \in 0..n /\ from - 1 <= at - 1
      BY <1>1, <1>7
    <2>2. a \in Int /\ b \in Int /\ b <= a
      BY <1>2, <1>3, <2>1, ZenonT(30)
    <2>3. Rest(at) = x - (a - b)
      BY DEF Rest
    <2> HIDE DEF a, b
    <2>4. Rest(at) \in Nat /\ Rest(at) <= x /\ a + Rest(at) = b + x
      BY <1>8, <2>2, <2>3
    <2>5. QED
      BY <2>4 DEF a, b
  <1>10. at <= n => Rest(at) <= step(at)
    <2>1. ASSUME at <= n PROVE step(at) \in Nat
      BY <1>1, <1>2, <1>7, <2>1
    <2>2. QED
      BY <1>7, <1>9, <2>1
  <1>11. QED
    BY <1>4, <1>7, <1>9, <1>10 DEF n, D, step

-----------------------------------------------------------------------------
(* The operations on the list *)

(* What TypeOK says of the list. *)
LEMMA TypedList ==
  ASSUME TypeOK
  PROVE  /\ vtlist \in Seq(Timer) /\ IsInjective(vtlist)
         /\ vt_delta \in [Timer -> systime_t] /\ vt_delta \in [Timer -> Nat]
         /\ Len(vtlist) \in Nat /\ DOMAIN vtlist = 1..Len(vtlist)
         /\ systime_t \subseteq Nat
  BY Constants DEF TypeOK, systime_t

(* The armed timers are those with a distance; the first one is the        *)
(* closest.                                                                *)
LEMMA FirstFacts ==
  ASSUME TypeOK
  PROVE  /\ FirstDelta \in Nat /\ FirstDelta < SYSTIME_VALUES
         /\ \A t \in Range(vtlist) : t \in Timer /\ Due(t) \in Nat
         /\ vtlist # <<>> =>
              /\ Head(vtlist) \in Range(vtlist) /\ FirstDelta = Due(Head(vtlist))
              /\ \A t \in Range(vtlist) : FirstDelta <= Due(t)
         /\ vtlist = <<>> <=> Range(vtlist) = {}
  <1>1. /\ \A t \in Range(vtlist) : t \in Timer /\ Due(t) \in Nat
        /\ vtlist # <<>> => /\ Head(vtlist) \in Range(vtlist)
                            /\ Due(Head(vtlist)) = vt_delta[Head(vtlist)]
                            /\ \A t \in Range(vtlist) : vt_delta[Head(vtlist)] <= Due(t)
        /\ vtlist = <<>> <=> Range(vtlist) = {}
    BY TypedList, ListFacts, ZenonT(30) DEF Due
  <1>2. FirstDelta \in systime_t
    <2>1. CASE vtlist = <<>>
      BY <2>1, Constants DEF FirstDelta, HeaderDelta, systime_t
    <2>2. CASE vtlist # <<>>
      BY <1>1, <2>2, TypedList DEF FirstDelta
    <2>3. QED
      BY <2>1, <2>2
  <1>3. FirstDelta \in Nat /\ FirstDelta < SYSTIME_VALUES
    BY <1>2, Constants DEF systime_t
  <1>4. QED
    BY <1>1, <1>3 DEF FirstDelta

(* The same of the next state. *)
LEMMA NextFirstFacts ==
  ASSUME TypeOK'
  PROVE  /\ FirstDelta' \in Nat /\ FirstDelta' < SYSTIME_VALUES
         /\ \A t \in Range(vtlist') : t \in Timer /\ Due(t)' \in Nat
         /\ vtlist' # <<>> =>
              /\ Head(vtlist') \in Range(vtlist') /\ FirstDelta' = Due(Head(vtlist))'
              /\ \A t \in Range(vtlist') : FirstDelta' <= Due(t)'
         /\ vtlist' = <<>> <=> Range(vtlist') = {}
  <1>0. /\ vtlist' \in Seq(Timer) /\ IsInjective(vtlist')
        /\ vt_delta' \in [Timer -> systime_t] /\ vt_delta' \in [Timer -> Nat]
    BY Constants DEF TypeOK, systime_t
  <1>1. /\ \A t \in Range(vtlist') : t \in Timer /\ Due(t)' \in Nat
        /\ vtlist' # <<>> => /\ Head(vtlist') \in Range(vtlist')
                             /\ Due(Head(vtlist))' = vt_delta'[Head(vtlist')]
                             /\ \A t \in Range(vtlist') : vt_delta'[Head(vtlist')] <= Due(t)'
        /\ vtlist' = <<>> <=> Range(vtlist') = {}
    BY <1>0, ListFacts, ZenonT(30) DEF Due
  <1>2. FirstDelta' \in systime_t
    <2>1. CASE vtlist' = <<>>
      BY <2>1, Constants DEF FirstDelta, HeaderDelta, systime_t
    <2>2. CASE vtlist' # <<>>
      BY <1>0, <1>1, <2>2 DEF FirstDelta
    <2>3. QED
      BY <2>1, <2>2
  <1>3. FirstDelta' \in Nat /\ FirstDelta' < SYSTIME_VALUES
    BY <1>2, Constants DEF systime_t
  <1>4. QED
    BY <1>1, <1>3 DEF FirstDelta

(* A place at which a timer can be inserted, x ticks from lasttime. *)
PlaceAt(place, x) ==
  /\ place.at \in 1..(Len(vtlist) + 1) /\ place.delta \in systime_t
  /\ place.at <= Len(vtlist) => place.delta <= vt_delta[vtlist[place.at]]
  /\ Distances(vtlist, vt_delta)[place.at - 1] + place.delta = x

(* The places the code computes: from the start of the list, from behind   *)
(* its first timer, and in an empty list.                                  *)
LEMMA Places ==
  ASSUME TypeOK, NEW x \in systime_t
  PROVE  /\ PlaceAt(Scan(1, x), x)
         /\ vtlist # <<>> => PlaceAt(Scan(2, x), FirstDelta + x)
         /\ vtlist = <<>> => PlaceAt([at |-> 1, delta |-> x], x)
  <1> DEFINE D == Distances(vtlist, vt_delta)
             n == Len(vtlist)
  <1>1. /\ x \in Nat /\ n \in Nat /\ \A y \in Nat : y <= x => y \in systime_t
        /\ D \in [0..n -> Int] /\ D[0] = 0
    <2>1. x \in Nat /\ \A y \in Nat : y <= x => y \in systime_t
      BY Constants DEF systime_t
    <2>2. vt_delta \in [Timer -> Int]
      BY TypedList
    <2>3. QED
      BY <2>1, <2>2, TypedList, DistancesFacts
  <1>2. ASSUME NEW from \in 1..(n + 1) PROVE PlaceAt(Scan(from, x), D[from - 1] + x)
    <2> DEFINE p == Scan(from, x)
    <2>1. /\ p.at \in from..(n + 1) /\ p.delta \in Nat /\ p.delta <= x
          /\ p.at <= n => p.delta <= vt_delta[vtlist[p.at]]
          /\ D[p.at - 1] + p.delta = D[from - 1] + x
      BY <1>1, TypedList, ScanFacts, ZenonT(30)
    <2> HIDE DEF p
    <2>2. p.at \in 1..(n + 1) /\ p.delta \in systime_t
      BY <1>1, <2>1
    <2>3. QED
      BY <2>1, <2>2, ZenonT(30) DEF PlaceAt, p
  <1>3. PlaceAt(Scan(1, x), x)
    <2>1. 1 \in 1..(n + 1) /\ D[1 - 1] + x = x
      BY <1>1
    <2>2. PlaceAt(Scan(1, x), D[1 - 1] + x)
      BY <1>2, <2>1
    <2> HIDE DEF D, n
    <2>3. QED
      BY <2>1, <2>2
  <1>4. ASSUME vtlist # <<>> PROVE PlaceAt(Scan(2, x), FirstDelta + x)
    <2>1. 2 \in 1..(n + 1) /\ 1 \in 1..n /\ vtlist[1] = Head(vtlist)
      BY <1>4, TypedList
    <2>2. D[1] = FirstDelta
      <3>1. DistanceOf(vtlist[1], vtlist, vt_delta) = D[1]
        BY <2>1, TypedList, ListFacts, ZenonT(30)
      <3>2. QED
        BY <1>4, <2>1, <3>1, FirstFacts DEF Due
    <2>3. PlaceAt(Scan(2, x), D[2 - 1] + x)
      BY <1>2, <2>1
    <2> HIDE DEF D, n
    <2>4. QED
      BY <2>2, <2>3
  <1>5. ASSUME vtlist = <<>> PROVE PlaceAt([at |-> 1, delta |-> x], x)
    <2>1. n = 0 /\ D[1 - 1] + x = x
      BY <1>1, <1>5
    <2>2. 1 \in 1..(n + 1) /\ ~(1 <= n)
      BY <2>1
    <2>3. QED
      BY <2>1, <2>2 DEF PlaceAt
  <1>6. QED
    BY <1>3, <1>4, <1>5

(* Inserting a timer x ticks from lasttime moves no other. *)
LEMMA InsertStep ==
  ASSUME TypeOK, NEW t \in Timer, t \notin Range(vtlist), NEW place, NEW x,
         PlaceAt(place, x), Insert(t, place)
  PROVE  /\ vtlist' \in Seq(Timer) /\ IsInjective(vtlist')
         /\ vt_delta' \in [Timer -> systime_t]
         /\ Range(vtlist') = Range(vtlist) \cup {t}
         /\ Due(t)' = x
         /\ \A u \in Range(vtlist) : Due(u)' = Due(u)
  <1> DEFINE i == place.at
             y == place.delta
             n == Len(vtlist)
  <1>1. /\ i \in 1..(n + 1) /\ y \in systime_t /\ y \in Nat
        /\ i <= n => y <= vt_delta[vtlist[i]]
        /\ Distances(vtlist, vt_delta)[i - 1] + y = x
    BY TypedList DEF PlaceAt
  <1>2. /\ vtlist' = With(vtlist, i, t)
        /\ vt_delta' = [u \in Timer |-> CASE u = t -> y
                                          [] i <= n /\ u = vtlist[i] -> vt_delta[u] - y
                                          [] OTHER -> vt_delta[u]]
    BY DEF Insert, With
  <1>3. /\ n \in Nat
        /\ \A k \in 1..n : /\ vtlist[k] \in Timer /\ vtlist[k] # t
                           /\ vtlist[k] = vtlist[i] /\ i <= n => k = i
    BY <1>1, TypedList DEF Range, IsInjective
  <1> HIDE DEF i, y, n
  <1>4. /\ vtlist' \in Seq(Timer) /\ IsInjective(vtlist')
        /\ Range(vtlist') = Range(vtlist) \cup {t}
    <2>1. vtlist \in Seq(Timer) /\ IsInjective(vtlist) /\ i \in 1..(Len(vtlist) + 1)
      BY <1>1, TypedList DEF n
    <2>2. With(vtlist, i, t) \in Seq(Timer)
      BY <2>1, InsertElements, ZenonT(30)
    <2>3. /\ IsInjective(With(vtlist, i, t))
          /\ Range(With(vtlist, i, t)) = Range(vtlist) \cup {t}
      BY <2>1, InsertMembers
    <2>4. QED
      BY <1>2, <2>2, <2>3, ZenonT(30)
  <1>5. ASSUME NEW u \in Timer
        PROVE  /\ u = t => vt_delta'[u] = y
               /\ u # t /\ i <= n /\ u = vtlist[i] => vt_delta'[u] = vt_delta[u] - y
               /\ u # t /\ ~(i <= n /\ u = vtlist[i]) => vt_delta'[u] = vt_delta[u]
    <2>1. vt_delta'[u] = CASE u = t -> y
                           [] i <= n /\ u = vtlist[i] -> vt_delta[u] - y
                           [] OTHER -> vt_delta[u]
      BY <1>2, ZenonT(30)
    <2>2. QED
      BY ONLY <1>1, <1>3, <2>1
  <1>6. vt_delta' \in [Timer -> systime_t] /\ vt_delta' \in [Timer -> Nat]
    <2>1. ASSUME NEW u \in Timer PROVE vt_delta'[u] \in systime_t
      <3>1. vt_delta[u] \in systime_t
        BY TypedList
      <3>2. i <= n /\ u = vtlist[i] => vt_delta[u] - y \in systime_t
        BY <1>1, <3>1, Constants DEF systime_t
      <3>3. QED
        BY <1>1, <1>5, <3>1, <3>2
    <2>2. vt_delta' = [u \in Timer |-> vt_delta'[u]]
      BY <1>2
    <2>3. vt_delta' \in [Timer -> systime_t]
      BY <2>1, <2>2
    <2>4. QED
      BY <2>3, TypedList
  <1>7. \A k \in 1..n : vt_delta'[vtlist[k]] = IF k = i THEN vt_delta[vtlist[k]] - y
                                               ELSE vt_delta[vtlist[k]]
    <2> SUFFICES ASSUME NEW k \in 1..n
                 PROVE  vt_delta'[vtlist[k]] = IF k = i THEN vt_delta[vtlist[k]] - y
                                               ELSE vt_delta[vtlist[k]]
      OBVIOUS
    <2>1. vtlist[k] \in Timer /\ vtlist[k] # t /\ (i <= n /\ vtlist[k] = vtlist[i] <=> k = i)
      BY <1>3
    <2>2. QED
      BY <1>5, <2>1
  <1>8. vt_delta'[t] = y
    BY <1>5
  <1>9. QED
    <2> DEFINE e == vt_delta'
               r == With(vtlist, i, t)
    <2>1. /\ vtlist \in Seq(Timer) /\ IsInjective(vtlist) /\ vt_delta \in [Timer -> Nat]
          /\ i \in 1..(Len(vtlist) + 1) /\ y \in Nat /\ e \in [Timer -> Nat] /\ e[t] = y
      BY <1>1, <1>6, <1>8, TypedList DEF n
    <2>0. TakenOff(vtlist, vt_delta, i, y, e)
      BY <1>7 DEF TakenOff, n
    <2> HIDE DEF e
    <2>2. /\ DistanceOf(t, r, e) = Distances(vtlist, vt_delta)[i - 1] + y
          /\ \A u \in Range(vtlist) : DistanceOf(u, r, e) = DistanceOf(u, vtlist, vt_delta)
      <3>1. t \in Timer /\ t \notin Range(vtlist)
        BY <1>1
      <3>2. KeepsDistances(vtlist, vt_delta, t, i, y, e)
        BY ONLY <2>0, <2>1, <3>1, InsertDistances, ZenonT(30)
      <3>3. QED
        BY <3>2, ZenonT(30) DEF KeepsDistances, r
    <2>3. vtlist' = r
      BY <1>2
    <2> HIDE DEF r
    <2>4. QED
      BY <1>1, <1>4, <1>6, <2>2, <2>3 DEF Due, e

(* Removing the k-th timer moves no other, if the delta of the next one    *)
(* can take its delta on.                                                  *)
LEMMA UnlinkStep ==
  ASSUME TypeOK, NEW k \in DOMAIN vtlist, Unlink(k)
  PROVE  /\ vtlist' \in Seq(Timer) /\ IsInjective(vtlist')
         /\ vt_delta' \in [Timer -> systime_t]
         /\ vtlist[k] \in Range(vtlist) /\ Range(vtlist') = Range(vtlist) \ {vtlist[k]}
         /\ (k < Len(vtlist) =>
               vt_delta[vtlist[k + 1]] + vt_delta[vtlist[k]] < SYSTIME_VALUES) =>
              \A u \in Range(vtlist) \ {vtlist[k]} : Due(u)' = Due(u)
  <1> DEFINE n == Len(vtlist)
             e == vt_delta'
             r == Without(vtlist, k)
  <1>1. n \in Nat /\ k \in 1..n /\ \A j \in 1..n : vtlist[j] \in Timer
    BY TypedList
  <1>2. /\ vtlist' = r
        /\ e = [u \in Timer |->
                  CASE u = vtlist[k] -> 0
                    [] k < n /\ u = vtlist[k + 1] -> Wrap(vt_delta[u] + vt_delta[vtlist[k]])
                    [] OTHER -> vt_delta[u]]
    BY DEF Unlink, Without
  <1>3. r \in Seq(Timer) /\ IsInjective(r) /\ Range(r) = Range(vtlist) \ {vtlist[k]}
    BY TypedList, RemoveMembers
  <1>4. vtlist[k] \in Range(vtlist)
    BY <1>1, TypedList DEF Range
  <1> HIDE DEF n, e, r
  <1>5. ASSUME NEW u \in Timer
        PROVE  /\ u = vtlist[k] => e[u] = 0
               /\ u # vtlist[k] /\ k < n /\ u = vtlist[k + 1] =>
                    e[u] = Wrap(vt_delta[u] + vt_delta[vtlist[k]])
               /\ u # vtlist[k] /\ ~(k < n /\ u = vtlist[k + 1]) => e[u] = vt_delta[u]
    <2>1. e[u] = CASE u = vtlist[k] -> 0
                   [] k < n /\ u = vtlist[k + 1] -> Wrap(vt_delta[u] + vt_delta[vtlist[k]])
                   [] OTHER -> vt_delta[u]
      BY <1>2, ZenonT(30)
    <2> DEFINE w == Wrap(vt_delta[u] + vt_delta[vtlist[k]])
    <2>2. /\ u = vtlist[k] => e[u] = 0
          /\ u # vtlist[k] /\ k < n /\ u = vtlist[k + 1] => e[u] = w
          /\ u # vtlist[k] /\ ~(k < n /\ u = vtlist[k + 1]) => e[u] = vt_delta[u]
      <3> HIDE DEF w
      <3>1. e[u] = CASE u = vtlist[k] -> 0
                     [] k < n /\ u = vtlist[k + 1] -> w
                     [] OTHER -> vt_delta[u]
        BY <2>1, ZenonT(30) DEF w
      <3>2. k < n => vtlist[k + 1] # vtlist[k]
        BY <1>1, TypedList DEF IsInjective, n
      <3>3. QED
        BY ONLY <3>1, <3>2
    <2>3. QED
      BY <2>2, ZenonT(30)
  <1>6. e \in [Timer -> systime_t] /\ e \in [Timer -> Nat]
    <2>1. ASSUME NEW u \in Timer PROVE e[u] \in systime_t
      <3>1. vt_delta[u] \in systime_t /\ vt_delta[vtlist[k]] \in systime_t /\ 0 \in systime_t
        BY <1>1, TypedList, Constants DEF systime_t
      <3>2. vt_delta[u] + vt_delta[vtlist[k]] \in Int
        BY <3>1, TypedList
      <3>3. Wrap(vt_delta[u] + vt_delta[vtlist[k]]) \in systime_t
        BY <3>2, WrapFacts
      <3>4. QED
        BY <1>5, <3>1, <3>3, ZenonT(30)
    <2>2. e = [u \in Timer |-> e[u]]
      BY <1>2
    <2>3. e \in [Timer -> systime_t]
      BY <2>1, <2>2
    <2>4. QED
      BY <2>3, TypedList
  <1>7. ASSUME k < n => vt_delta[vtlist[k + 1]] + vt_delta[vtlist[k]] < SYSTIME_VALUES
        PROVE  AddedOn(vtlist, vt_delta, k, e)
    <2> SUFFICES ASSUME NEW j \in 1..n
                 PROVE  e[vtlist[j]] = IF j = k THEN 0
                                       ELSE IF j = k + 1
                                            THEN vt_delta[vtlist[j]] + vt_delta[vtlist[k]]
                                            ELSE vt_delta[vtlist[j]]
      BY DEF AddedOn, n
    <2>1. /\ vtlist[j] \in Timer
          /\ vtlist[j] = vtlist[k] <=> j = k
          /\ k < n /\ vtlist[j] = vtlist[k + 1] <=> j = k + 1
      BY <1>1, TypedList DEF IsInjective, n
    <2>2. CASE j = k + 1
      <3> DEFINE a == vt_delta[vtlist[j]]
                 b == vt_delta[vtlist[k]]
      <3>1. a \in Nat /\ b \in Nat /\ a + b < SYSTIME_VALUES
        <4>1. k < n /\ a \in Nat /\ b \in Nat
          BY <1>1, <2>1, <2>2, TypedList
        <4>2. QED
          BY <1>7, <2>2, <4>1
      <3> HIDE DEF a, b
      <3>2. a + b \in Int /\ a + b \in 0..(SYSTIME_VALUES - 1)
        BY <3>1, Constants
      <3>3. Wrap(a + b) = a + b
        BY <3>2, WrapFacts
      <3>4. e[vtlist[j]] = Wrap(a + b)
        BY <1>1, <1>5, <2>1, <2>2 DEF a, b
      <3>5. j # k
        BY <1>1, <2>2
      <3>6. QED
        BY <2>2, <3>3, <3>4, <3>5 DEF a, b
    <2>3. CASE j # k + 1
      BY <1>5, <2>1, <2>3
    <2>4. QED
      BY <2>2, <2>3
  <1>8. ASSUME k < n => vt_delta[vtlist[k + 1]] + vt_delta[vtlist[k]] < SYSTIME_VALUES
        PROVE  \A u \in Range(vtlist) \ {vtlist[k]} : Due(u)' = Due(u)
    <2>1. AddedOn(vtlist, vt_delta, k, e)
      BY <1>7, <1>8
    <2>2. k \in 1..Len(vtlist)
      BY <1>1 DEF n
    <2>3. \A u \in Range(vtlist) \ {vtlist[k]} :
            DistanceOf(u, r, e) = DistanceOf(u, vtlist, vt_delta)
      BY <1>6, <2>1, <2>2, TypedList, RemoveDistances, ZenonT(30) DEF r
    <2>4. QED
      BY <1>2, <2>3, ZenonT(30) DEF Due, e
  <1>9. QED
    BY <1>2, <1>3, <1>4, <1>6, <1>8 DEF n, e

(* When the first timer expires and lasttime moves to when it was due, the *)
(* others are that much closer.                                            *)
LEMMA ExpiryStep ==
  ASSUME TypeOK, vtlist # <<>>, vtlist' = Tail(vtlist),
         vt_delta' = [vt_delta EXCEPT ![Head(vtlist)] = 0]
  PROVE  /\ vtlist' \in Seq(Timer) /\ IsInjective(vtlist')
         /\ vt_delta' \in [Timer -> systime_t]
         /\ Head(vtlist) \in Range(vtlist)
         /\ Range(vtlist') = Range(vtlist) \ {Head(vtlist)}
         /\ \A u \in Range(vtlist') : Due(u)' = Due(u) - FirstDelta
  <1>1. /\ Tail(vtlist) \in Seq(Timer) /\ IsInjective(Tail(vtlist))
        /\ Head(vtlist) \in Range(vtlist)
        /\ Range(Tail(vtlist)) = Range(vtlist) \ {Head(vtlist)}
    <2>1. /\ Tail(vtlist) \in Seq(Timer) /\ Head(vtlist) \in Range(vtlist)
          /\ Range(vtlist) = {Head(vtlist)} \cup Range(Tail(vtlist))
          /\ IsInjective(Tail(vtlist)) /\ Head(vtlist) \notin Range(Tail(vtlist))
      BY TypedList, TailMembers, ZenonT(30)
    <2>2. QED
      BY <2>1, ZenonT(30)
  <1>2. vt_delta' \in [Timer -> systime_t]
    <2>1. 0 \in systime_t
      BY Constants DEF systime_t
    <2>2. QED
      BY <2>1, TypedList
  <1>3. \A u \in Range(vtlist) \ {Head(vtlist)} :
          DistanceOf(u, Tail(vtlist), vt_delta')
            = DistanceOf(u, vtlist, vt_delta) - vt_delta[Head(vtlist)]
    BY TypedList, TailDistances, ZenonT(30)
  <1>4. FirstDelta = vt_delta[Head(vtlist)]
    BY DEF FirstDelta
  <1>5. QED
    BY <1>1, <1>2, <1>3, <1>4, ZenonT(30) DEF Due

(* A requested delay as it is used. *)
LEMMA DelayFacts ==
  ASSUME NEW t \in Timer, NEW d \in Delays[t]
  PROVE  /\ AtLeastDelta(d) \in Nat /\ AtLeastDelta(d) >= CH_CFG_ST_TIMEDELTA
         /\ AtLeastDelta(d) <= SYSTIME_VALUES - 2
  <1>1. d \in 1..(SYSTIME_VALUES - 2)
    BY VirtualTimersAssumption
  <1>2. QED
    BY <1>1, Constants DEF AtLeastDelta

(* Setting a timer: it is put the delay after now, and the alarm is set if *)
(* it is the first.                                                        *)
LEMMA SetStep ==
  ASSUME TypeOK, NEW t \in Timer, NEW d \in Delays[t], chVTDoSetI(t, d)
  PROVE  /\ cpu.at = "thread" /\ t \notin Range(vtlist)
         /\ UNCHANGED <<now, tim, latched, lag, slip>>
         /\ vtlist' \in Seq(Timer) /\ IsInjective(vtlist') /\ vt_delta' \in [Timer -> systime_t]
         /\ Range(vtlist') = Range(vtlist) \cup {t}
         /\ \A u \in Range(vtlist) : Due(u)' = Due(u)
         /\ \/ /\ vtlist = <<>> /\ lasttime' = now /\ Due(t)' = AtLeastDelta(d)
               /\ cpu' = StartAlarm(now + AtLeastDelta(d))
            \/ /\ vtlist # <<>> /\ lasttime' = lasttime /\ cpu' = cpu
               /\ Elapsed + AtLeastDelta(d) >= SYSTIME_VALUES
               /\ Elapsed + AtLeastDelta(d) - FirstDelta < SYSTIME_VALUES =>
                    Due(t)' = Elapsed + AtLeastDelta(d)
            \/ /\ vtlist # <<>> /\ lasttime' = lasttime
               /\ Elapsed + AtLeastDelta(d) < SYSTIME_VALUES
               /\ Due(t)' = Elapsed + AtLeastDelta(d)
               /\ cpu' = IF Elapsed + AtLeastDelta(d) < FirstDelta
                         THEN SetAlarm(lasttime + (Elapsed + AtLeastDelta(d))) ELSE cpu
  <1> DEFINE a == AtLeastDelta(d)
             E == Elapsed
             F == FirstDelta
             delta == Wrap(E + a)
  <1>1. /\ a \in Nat /\ a <= SYSTIME_VALUES - 2 /\ SYSTIME_VALUES \in Nat
        /\ E \in Nat /\ E < SYSTIME_VALUES /\ F \in Nat /\ F < SYSTIME_VALUES
        /\ a \in systime_t /\ E \in systime_t
    <2>1. a \in Nat /\ a <= SYSTIME_VALUES - 2
      BY DelayFacts
    <2>2. E \in Nat /\ E < SYSTIME_VALUES
      BY DifferenceFacts DEF TypeOK, Elapsed
    <2>3. F \in Nat /\ F < SYSTIME_VALUES
      BY FirstFacts
    <2> HIDE DEF a, E, F
    <2>4. a \in systime_t /\ E \in systime_t
      BY <2>1, <2>2, Constants DEF systime_t
    <2>5. QED
      BY <2>1, <2>2, <2>3, <2>4, Constants
  <1>2. /\ cpu.at = "thread" /\ t \notin Range(vtlist)
        /\ UNCHANGED <<now, tim, latched, lag, slip>>
        /\ \/ /\ vtlist = <<>> /\ lasttime' = now /\ Insert(t, [at |-> 1, delta |-> a])
              /\ cpu' = StartAlarm(now + a)
           \/ /\ vtlist # <<>> /\ delta < E /\ Insert(t, PlaceBeyondRange(delta))
              /\ UNCHANGED <<lasttime, cpu>>
           \/ /\ vtlist # <<>> /\ delta >= E /\ Insert(t, Scan(1, delta))
              /\ cpu' = IF delta < F THEN SetAlarm(lasttime + delta) ELSE cpu
              /\ UNCHANGED lasttime
    BY ZenonT(30) DEF chVTDoSetI
  <1>3. /\ delta \in systime_t /\ delta \in Nat
        /\ E + a < SYSTIME_VALUES => delta = E + a /\ delta >= E
        /\ E + a >= SYSTIME_VALUES => delta = E + a - SYSTIME_VALUES /\ delta < E
    <2> HIDE DEF a, E
    <2>1. E + a \in Int /\ E + a >= 0 /\ E + a < 2 * SYSTIME_VALUES
      BY <1>1
    <2>2. delta \in systime_t
      BY <2>1, WrapFacts
    <2>3. ASSUME E + a < SYSTIME_VALUES PROVE delta = E + a /\ delta >= E
      <3>1. E + a \in 0..(SYSTIME_VALUES - 1)
        BY <1>1, <2>1, <2>3
      <3>2. delta = E + a
        BY <2>1, <3>1, WrapFacts
      <3>3. QED
        BY <1>1, <3>2
    <2>4. ASSUME E + a >= SYSTIME_VALUES PROVE delta = E + a - SYSTIME_VALUES /\ delta < E
      <3>1. E + a \in SYSTIME_VALUES..(2 * SYSTIME_VALUES - 1)
        BY <1>1, <2>1, <2>4
      <3>2. delta = (E + a) - SYSTIME_VALUES
        BY <2>1, <3>1, WrapFacts
      <3>3. QED
        BY <1>1, <3>2
    <2>5. QED
      BY <2>2, <2>3, <2>4, Constants DEF systime_t
  <1> HIDE DEF delta
  <1>4. CASE /\ vtlist = <<>> /\ lasttime' = now /\ Insert(t, [at |-> 1, delta |-> a])
             /\ cpu' = StartAlarm(now + a)
    <2>1. PlaceAt([at |-> 1, delta |-> a], a)
      BY <1>1, <1>4, Places, ZenonT(30)
    <2> HIDE DEF a
    <2>2. QED
      BY <1>2, <1>4, <2>1, InsertStep, ZenonT(30) DEF a
  <1>5. CASE /\ vtlist # <<>> /\ delta < E /\ Insert(t, PlaceBeyondRange(delta))
             /\ UNCHANGED <<lasttime, cpu>>
    <2> DEFINE y == Wrap(delta - F)
    <2>1. E + a >= SYSTIME_VALUES
      <3> HIDE DEF a, E
      <3> QED
        BY <1>1, <1>3, <1>5
    <2>2. delta - F \in Int /\ y \in systime_t
      <3>1. delta - F \in Int
        <4> HIDE DEF F
        <4> QED
          BY <1>1, <1>3
      <3>2. QED
        BY <3>1, WrapFacts
    <2>3. PlaceAt(Scan(2, y), F + y)
      BY <1>5, <2>2, Places, ZenonT(30)
    <2>4. Insert(t, Scan(2, y))
      BY <1>5, ZenonT(30) DEF PlaceBeyondRange
    <2>5. ASSUME E + a - F < SYSTIME_VALUES PROVE F + y = E + a
      <3> HIDE DEF E, a, F
      <3>1. delta - F \in (-SYSTIME_VALUES)..(-1)
        BY <1>1, <1>3, <2>1, <2>5
      <3>2. y = (delta - F) + SYSTIME_VALUES
        BY <2>2, <3>1, WrapFacts
      <3>3. QED
        BY <1>1, <1>3, <2>1, <3>2
    <2> HIDE DEF y
    <2>6. /\ vtlist' \in Seq(Timer) /\ IsInjective(vtlist')
          /\ vt_delta' \in [Timer -> systime_t] /\ Range(vtlist') = Range(vtlist) \cup {t}
          /\ Due(t)' = F + y /\ \A u \in Range(vtlist) : Due(u)' = Due(u)
      BY <1>2, <2>3, <2>4, InsertStep, ZenonT(30)
    <2>7. QED
      BY <1>2, <1>5, <2>1, <2>5, <2>6, ZenonT(30)
  <1>6. CASE /\ vtlist # <<>> /\ delta >= E /\ Insert(t, Scan(1, delta))
             /\ cpu' = IF delta < F THEN SetAlarm(lasttime + delta) ELSE cpu
             /\ UNCHANGED lasttime
    <2>1. E + a < SYSTIME_VALUES /\ delta = E + a
      <3> HIDE DEF a, E
      <3> QED
        BY <1>1, <1>3, <1>6
    <2>2. PlaceAt(Scan(1, delta), delta)
      BY <1>3, Places, ZenonT(30)
    <2>3. /\ vtlist' \in Seq(Timer) /\ IsInjective(vtlist')
          /\ vt_delta' \in [Timer -> systime_t] /\ Range(vtlist') = Range(vtlist) \cup {t}
          /\ Due(t)' = delta /\ \A u \in Range(vtlist) : Due(u)' = Due(u)
      BY <1>2, <1>6, <2>2, InsertStep, ZenonT(30)
    <2>4. QED
      BY <1>2, <1>6, <2>1, <2>3, ZenonT(30)
  <1>7. QED
    BY <1>2, <1>4, <1>5, <1>6, ZenonT(30)

-----------------------------------------------------------------------------
(* Type correctness *)

CpuType ==
  [at : {"thread", "isr"}] \cup [at : {"start_alarm", "set_alarm"}, time : systime_t]

(* The values the code gives to cpu. *)
LEMMA CpuFacts ==
  ASSUME NEW x \in Int
  PROVE  /\ StartAlarm(x) \in CpuType /\ StartAlarm(x).at = "start_alarm"
         /\ SetAlarm(x) \in CpuType /\ SetAlarm(x).at = "set_alarm"
         /\ StartAlarm(x).time = Wrap(x) /\ SetAlarm(x).time = Wrap(x)
         /\ Done \in CpuType /\ Done.at = "thread"
         /\ [at |-> "isr"] \in CpuType /\ [at |-> "isr"].at = "isr"
  <1>1. Wrap(x) \in systime_t
    BY WrapFacts
  <1>2. QED
    BY <1>1 DEF StartAlarm, SetAlarm, Done, CpuType

(* What TypeOK says of cpu and of TIM2. *)
LEMMA TypedTim ==
  ASSUME TypeOK
  PROVE  /\ cpu \in CpuType
         /\ cpu.at \in {"thread", "isr", "start_alarm", "set_alarm"}
         /\ Writing => cpu.time \in systime_t
         /\ tim.ccr \in systime_t /\ tim.cc1ie \in BOOLEAN /\ tim.cc1if \in BOOLEAN
         /\ latched \in BOOLEAN
         /\ now \in systime_t /\ lasttime \in systime_t /\ now \in Nat /\ lasttime \in Nat
         /\ lag \in Nat /\ lag <= MaxLag /\ slip \in Nat /\ slip <= MaxSlip
         /\ Elapsed \in Nat /\ Elapsed < SYSTIME_VALUES
  <1>1. /\ cpu \in CpuType /\ cpu.at \in {"thread", "isr", "start_alarm", "set_alarm"}
        /\ Writing => cpu.time \in systime_t
    BY DEF TypeOK, CpuType, Writing
  <1>2. /\ tim.ccr \in systime_t /\ tim.cc1ie \in BOOLEAN /\ tim.cc1if \in BOOLEAN
        /\ latched \in BOOLEAN
    BY DEF TypeOK
  <1>3. lag \in Nat /\ lag <= MaxLag /\ slip \in Nat /\ slip <= MaxSlip
    BY Constants DEF TypeOK
  <1>4. /\ now \in systime_t /\ lasttime \in systime_t /\ now \in Nat /\ lasttime \in Nat
        /\ Elapsed \in Nat /\ Elapsed < SYSTIME_VALUES
    BY DifferenceFacts DEF TypeOK, Elapsed
  <1>5. QED
    BY <1>1, <1>2, <1>3, <1>4

(* The initial states are well typed. *)
LEMMA InitTypeOK == Init => TypeOK
  <1> SUFFICES ASSUME Init PROVE TypeOK
    OBVIOUS
  <1>1. 0 \in systime_t /\ 0 \in 0..MaxLag /\ 0 \in 0..MaxSlip
    BY Constants DEF systime_t
  <1>2. vtlist \in Seq(Timer) /\ IsInjective(vtlist)
    BY DEF Init, IsInjective
  <1>3. vt_delta \in [Timer -> systime_t]
    BY <1>1 DEF Init
  <1>4. tim \in [ccr : systime_t, cc1ie : BOOLEAN, cc1if : BOOLEAN]
    BY <1>1 DEF Init
  <1>5. QED
    BY <1>1, <1>2, <1>3, <1>4, ZenonT(30) DEF Init, TypeOK

(* What resetting does to the timers and to the alarm. *)
LEMMA ResetStep ==
  ASSUME TypeOK, NEW t \in Timer, chVTDoResetI(t)
  PROVE  \E k \in DOMAIN vtlist :
           /\ vtlist[k] = t /\ Unlink(k) /\ cpu.at = "thread"
           /\ UNCHANGED <<now, lasttime, latched, lag, slip>>
           /\ \/ k > 1 /\ UNCHANGED <<tim, cpu>>
              \/ k = 1 /\ vtlist' = <<>> /\ tim' = StopAlarm /\ UNCHANGED cpu
              \/ /\ k = 1 /\ vtlist' # <<>> /\ UNCHANGED tim
                 /\ \/ Elapsed >= FirstDelta' /\ UNCHANGED cpu
                    \/ /\ Elapsed < FirstDelta'
                       /\ cpu' = SetAlarm(lasttime + Elapsed
                                          + AtLeastDelta(FirstDelta' - Elapsed))
  <1>1. PICK k \in DOMAIN vtlist :
          /\ vtlist[k] = t /\ Unlink(k)
          /\ \/ k > 1 /\ UNCHANGED <<tim, cpu>>
             \/ k = 1 /\ vtlist' = <<>> /\ tim' = StopAlarm /\ UNCHANGED cpu
             \/ /\ k = 1 /\ vtlist' # <<>> /\ UNCHANGED tim
                /\ cpu' = IF Elapsed >= vt_delta'[Head(vtlist')]
                          THEN cpu
                          ELSE SetAlarm(lasttime + Elapsed
                                 + AtLeastDelta(vt_delta'[Head(vtlist')] - Elapsed))
    BY ZenonT(30) DEF chVTDoResetI
  <1>2. cpu.at = "thread" /\ UNCHANGED <<now, lasttime, latched, lag, slip>>
    BY ZenonT(30) DEF chVTDoResetI
  <1>3. CASE k = 1 /\ vtlist' # <<>>
    <2>1. FirstDelta' = vt_delta'[Head(vtlist')]
      BY <1>3, ZenonT(30) DEF FirstDelta
    <2>2. FirstDelta' \in Nat /\ Elapsed \in Nat
      <3>1. /\ vtlist' \in Seq(Timer) /\ vt_delta' \in [Timer -> systime_t]
            /\ Head(vtlist') \in Timer
        BY <1>1, <1>3, UnlinkStep
      <3>2. QED
        BY <2>1, <3>1, TypedList, TypedTim, ZenonT(30)
    <2>3. Elapsed >= FirstDelta' \/ Elapsed < FirstDelta'
      BY <2>2
    <2>4. Elapsed < FirstDelta' => ~(Elapsed >= FirstDelta')
      BY <2>2
    <2>5. QED
      BY <1>1, <1>2, <1>3, <2>1, <2>3, <2>4, ZenonT(30)
  <1>4. CASE k > 1 \/ vtlist' = <<>>
    <2>1. k > 1 => k # 1
      OBVIOUS
    <2>2. QED
      BY <1>1, <1>2, <1>4, <2>1, ZenonT(30)
  <1>5. QED
    <2>1. k > 1 \/ k = 1
      BY TypedList
    <2>2. QED
      BY <1>3, <1>4, <2>1, ZenonT(30)

(* Every step keeps the types. *)
LEMMA NextTypeOK ==
  ASSUME TypeOK, [Next]_vars
  PROVE  TypeOK'
  <1>1. CASE Tick
    <2>1. now' \in systime_t
      BY <1>1, TypedTim, TickClock DEF Tick
    <2>2. tim' \in [ccr : systime_t, cc1ie : BOOLEAN, cc1if : BOOLEAN] /\ latched' \in BOOLEAN
      BY <1>1, ZenonT(30) DEF Tick, TypeOK
    <2>3. lag' \in 0..MaxLag /\ slip' \in 0..MaxSlip
      BY <1>1, TypedTim, Constants DEF Tick
    <2>4. QED
      BY <1>1, <2>1, <2>2, <2>3 DEF Tick, TypeOK
  <1>2. CASE WriteAlarm
    <2>1. cpu.time \in systime_t
      BY <1>2, TypedTim DEF WriteAlarm, Writing
    <2>2. tim' \in [ccr : systime_t, cc1ie : BOOLEAN, cc1if : BOOLEAN]
      BY <1>2, <2>1, ZenonT(30) DEF WriteAlarm, TypeOK
    <2>3. cpu' \in CpuType /\ slip' \in 0..MaxSlip
      BY <1>2, CpuFacts, Constants DEF WriteAlarm
    <2>4. QED
      BY <1>2, <2>2, <2>3 DEF WriteAlarm, TypeOK, CpuType
  <1>3. CASE EnterIsr
    <2>1. tim' \in [ccr : systime_t, cc1ie : BOOLEAN, cc1if : BOOLEAN]
      BY <1>3, ZenonT(30) DEF EnterIsr, TypeOK
    <2>2. cpu' \in CpuType
      BY <1>3, CpuFacts DEF EnterIsr
    <2>3. lag' \in 0..MaxLag
      BY <1>3, Constants DEF EnterIsr, TypeOK
    <2>4. QED
      BY <1>3, <2>1, <2>2, <2>3, ZenonT(30) DEF EnterIsr, TypeOK, CpuType
  <1>4. CASE Fire
    <2>1. /\ vtlist' \in Seq(Timer) /\ IsInjective(vtlist')
          /\ vt_delta' \in [Timer -> systime_t]
      BY <1>4, ExpiryStep, ZenonT(30) DEF Fire
    <2>2. tim' \in [ccr : systime_t, cc1ie : BOOLEAN, cc1if : BOOLEAN]
      BY <1>4, ZenonT(30) DEF Fire, StopAlarm, TypeOK
    <2>3. lasttime' \in systime_t
      BY <1>4, TypedTim, FirstFacts, ExpiryClock DEF Fire
    <2>4. QED
      BY <1>4, <2>1, <2>2, <2>3 DEF Fire, TypeOK
  <1>5. CASE LeaveIsr
    <2>1. AtLeastDelta(Wrap(lasttime + FirstDelta - now)) \in Int
      <3>1. Wrap(lasttime + FirstDelta - now) \in systime_t
        BY TypedTim, FirstFacts, WrapFacts
      <3>2. QED
        BY <3>1, TypedList, Constants DEF AtLeastDelta
    <2>2. cpu' \in CpuType
      <3>1. now + AtLeastDelta(Wrap(lasttime + FirstDelta - now)) \in Int
        BY <2>1, TypedTim
      <3>2. QED
        BY <1>5, <3>1, CpuFacts DEF LeaveIsr
    <2>3. lag' \in 0..MaxLag
      BY <1>5, Constants DEF LeaveIsr
    <2>4. QED
      BY <1>5, <2>2, <2>3 DEF LeaveIsr, TypeOK, CpuType
  <1>6. ASSUME NEW t \in Timer, SetTimer(t) PROVE TypeOK'
    <2>1. PICK d \in Delays[t] : chVTDoSetI(t, d)
      BY <1>6 DEF SetTimer
    <2>2. AtLeastDelta(d) \in Nat
      BY DelayFacts
    <2>3. /\ now + AtLeastDelta(d) \in Int
          /\ lasttime + (Elapsed + AtLeastDelta(d)) \in Int
      BY <2>2, TypedTim
    <2>4. /\ UNCHANGED <<now, tim, latched, lag, slip>>
          /\ vtlist' \in Seq(Timer) /\ IsInjective(vtlist')
          /\ vt_delta' \in [Timer -> systime_t]
          /\ lasttime' = now \/ lasttime' = lasttime
          /\ \/ cpu' = StartAlarm(now + AtLeastDelta(d))
             \/ cpu' = SetAlarm(lasttime + (Elapsed + AtLeastDelta(d)))
             \/ cpu' = cpu
      BY <2>1, SetStep, ZenonT(30)
    <2>5. cpu' \in CpuType
      BY <2>3, <2>4, CpuFacts, TypedTim, ZenonT(30)
    <2>6. QED
      BY <2>4, <2>5 DEF TypeOK, CpuType
  <1>7. ASSUME NEW t \in Resettable, chVTDoResetI(t) PROVE TypeOK'
    <2>1. t \in Timer
      BY VirtualTimersAssumption
    <2>2. PICK k \in DOMAIN vtlist :
            /\ vtlist[k] = t /\ Unlink(k) /\ cpu.at = "thread"
            /\ UNCHANGED <<now, lasttime, latched, lag, slip>>
            /\ \/ k > 1 /\ UNCHANGED <<tim, cpu>>
               \/ k = 1 /\ vtlist' = <<>> /\ tim' = StopAlarm /\ UNCHANGED cpu
               \/ /\ k = 1 /\ vtlist' # <<>> /\ UNCHANGED tim
                  /\ \/ Elapsed >= FirstDelta' /\ UNCHANGED cpu
                     \/ /\ Elapsed < FirstDelta'
                        /\ cpu' = SetAlarm(lasttime + Elapsed
                                           + AtLeastDelta(FirstDelta' - Elapsed))
      BY <1>7, <2>1, ResetStep, ZenonT(30)
    <2>3. /\ vtlist' \in Seq(Timer) /\ IsInjective(vtlist')
          /\ vt_delta' \in [Timer -> systime_t]
      BY <2>2, UnlinkStep, ZenonT(30)
    <2>4. tim' \in [ccr : systime_t, cc1ie : BOOLEAN, cc1if : BOOLEAN]
      BY <2>2, ZenonT(30) DEF StopAlarm, TypeOK
    <2>5. cpu' \in CpuType
      <3>1. FirstDelta' \in Int
        BY <2>3, Constants DEF FirstDelta, HeaderDelta, systime_t
      <3>2. lasttime + Elapsed + AtLeastDelta(FirstDelta' - Elapsed) \in Int
        BY <3>1, TypedTim, Constants DEF AtLeastDelta
      <3>3. QED
        BY <2>2, <3>2, CpuFacts, TypedTim, ZenonT(30)
    <2>6. QED
      BY <2>2, <2>3, <2>4, <2>5 DEF TypeOK, CpuType
  <1>8. CASE UNCHANGED vars
    BY <1>8 DEF vars, TypeOK
  <1>9. QED
    BY <1>1, <1>2, <1>3, <1>4, <1>5, <1>6, <1>7, <1>8 DEF Next

(* Times stay in the range of systime_t and the list holds every armed     *)
(* timer once, whatever the delays are: also when a reset adds two deltas  *)
(* that go over the range.                                                 *)
THEOREM TimersTypeCorrect == SafeSpec => []TypeOK
  <1>1. TypeOK /\ [Next]_vars => TypeOK'
    BY NextTypeOK
  <1>2. QED
    BY InitTypeOK, <1>1, PTL DEF SafeSpec

-----------------------------------------------------------------------------
(* The inductive invariant, one lemma per action *)

(* The bounds the invariant is stated with. *)
LEMMA Bounds ==
  /\ MaxLate \in Nat /\ MaxLate = CH_CFG_ST_TIMEDELTA - 1 + MaxLag
  /\ Span \in Nat /\ MaxLate <= Span /\ MaxSpan <= Span
  /\ HeaderDelta \in Nat /\ HeaderDelta = SYSTIME_VALUES - 1
  BY Constants DEF MaxLate, Span, HeaderDelta

(* A time is some ticks ahead. *)
LEMMA AheadFacts ==
  ASSUME TypeOK, NEW c \in systime_t
  PROVE  Ahead(c) \in Nat /\ Ahead(c) < SYSTIME_VALUES
  BY TypedTim, DifferenceFacts DEF Ahead

(* A timer's distance from lasttime is at most what it was set to. *)
LEMMA ReachesFacts ==
  ASSUME TypeOK, Reaches, NEW t \in Range(vtlist)
  PROVE  \E d \in Delays[t] : /\ AtLeastDelta(d) \in Nat /\ Due(t) \in Nat
                              /\ Due(t) <= Span + AtLeastDelta(d)
  <1>1. t \in Timer /\ Due(t) \in Nat
    BY FirstFacts
  <1>2. QED
    BY <1>1, DelayFacts DEF Reaches

(* If a timer that fits is armed, the first one is not so late that the    *)
(* time since lasttime goes over the range.                                *)
LEMMA FitsFacts ==
  ASSUME TypeOK, Reaches, NEW t \in Range(vtlist), Fits(t)
  PROVE  FirstDelta + MaxLate < HeaderDelta
  <1>1. PICK d \in Delays[t] : /\ AtLeastDelta(d) \in Nat /\ Due(t) \in Nat
                               /\ Due(t) <= Span + AtLeastDelta(d)
    BY ReachesFacts
  <1>2. Span + AtLeastDelta(d) + MaxLate < HeaderDelta
    BY DEF Fits, HeaderDelta
  <1>3. FirstDelta \in Nat /\ FirstDelta <= Due(t)
    BY FirstFacts
  <1>4. QED
    BY <1>1, <1>2, <1>3, Bounds

(* The time since lasttime does not go round. *)
LEMMA ElapsedSmall ==
  ASSUME IInv, DelaysFit
  PROVE  vtlist # <<>> \/ Periodic # {} \/ latched \/ cpu.at = "isr" => Elapsed < HeaderDelta
  <1>0. /\ TypeOK /\ Elapsed \in Nat /\ lag \in Nat /\ lag <= MaxLag
        /\ Span + MaxLate < HeaderDelta
    BY TypedTim DEF IInv, DelaysFit, HeaderDelta
  <1>1. ASSUME NEW p \in Periodic, p \notin Range(vtlist) PROVE Elapsed < HeaderDelta
    <2>1. Elapsed <= Span
      BY <1>1 DEF IInv, PeriodicRecent
    <2>2. QED
      BY <1>0, <2>1, Bounds
  <1>2. ASSUME NEW p \in Range(vtlist), Fits(p) PROVE Elapsed < HeaderDelta
    <2>1. FirstDelta + MaxLate < HeaderDelta
      BY <1>2, FitsFacts DEF IInv
    <2>2. vtlist # <<>> /\ FirstDelta \in Nat
      BY <1>0, <1>2, FirstFacts
    <2>3. Elapsed <= FirstDelta + CH_CFG_ST_TIMEDELTA - 1 + lag
      BY <2>2 DEF IInv, InTime
    <2>4. QED
      BY <1>0, <2>1, <2>2, <2>3, Bounds, Constants
  <1>3. CASE vtlist # <<>>
    <2>1. Head(vtlist) \in Range(vtlist) /\ Head(vtlist) \in Timer
      BY <1>0, <1>3, FirstFacts
    <2>2. CASE \A t \in Timer : Fits(t)
      BY <1>2, <2>1, <2>2
    <2>3. CASE \E t \in Periodic : Fits(t)
      BY <1>1, <1>2, <2>3
    <2>4. QED
      BY <2>2, <2>3 DEF DelaysFit
  <1>4. CASE vtlist = <<>>
    <2>1. Range(vtlist) = {}
      BY <1>0, <1>4, FirstFacts
    <2>2. CASE Periodic # {}
      BY <1>1, <2>1, <2>2
    <2>3. CASE Periodic = {} /\ (latched \/ cpu.at = "isr")
      <3>1. Elapsed - lag + MaxLag < HeaderDelta
        BY <1>4, <2>3 DEF IInv, EmptyQuiet
      <3>2. QED
        BY <1>0, <3>1, Bounds, Constants
    <2>4. QED
      BY <1>4, <2>2, <2>3
  <1>5. QED
    BY <1>3, <1>4

(* A step that leaves the list alone leaves the distances alone. *)
LEMMA SameList ==
  ASSUME vtlist' = vtlist, vt_delta' = vt_delta
  PROVE  /\ FirstDelta' = FirstDelta /\ (Reaches => Reaches')
         /\ Range(vtlist') = Range(vtlist)
         /\ \A u : Due(u)' = Due(u)
  <1>1. FirstDelta' = FirstDelta
    BY DEF FirstDelta, HeaderDelta
  <1>2. \A u : Due(u)' = Due(u)
    BY ZenonT(30) DEF Due
  <1>3. Reaches => Reaches'
    BY <1>2, ZenonT(30) DEF Reaches
  <1>4. QED
    BY <1>1, <1>2, <1>3

(* A tick: the alarm comes closer, or is reached and becomes pending. *)
LEMMA TickIInv ==
  ASSUME IInv, DelaysFit, Tick, TypeOK'
  PROVE  IInv'
  <1>0. /\ TypeOK /\ Reaches /\ InTime /\ AlarmSet /\ EmptyQuiet /\ PeriodicRecent
        /\ UNCHANGED <<vtlist, vt_delta, lasttime, cpu>>
    BY DEF IInv, Tick
  <1>1. FirstDelta' = FirstDelta /\ Reaches' /\ Range(vtlist') = Range(vtlist)
    BY <1>0, SameList
  <1>2. /\ Elapsed' \in Nat /\ Elapsed' <= Elapsed + 1
        /\ Elapsed < HeaderDelta => Elapsed' = Elapsed + 1
        /\ \A c \in systime_t :
             /\ Ahead(c) = 1 => c = now'
             /\ Ahead(c) >= 1 => Wrap(c - now') = Ahead(c) - 1
    BY <1>0, TickClock, TypedTim DEF Tick
  <1>3. vtlist # <<>> \/ latched \/ cpu.at = "isr" => Elapsed' = Elapsed + 1
    BY <1>2, ElapsedSmall
  <1>4. /\ Elapsed \in Nat /\ lag \in Nat /\ lag <= MaxLag /\ slip \in Nat
        /\ FirstDelta \in Nat /\ CH_CFG_ST_TIMEDELTA \in Nat
        /\ MaxSlip \in Nat /\ MaxSlip <= CH_CFG_ST_TIMEDELTA - 1
    BY <1>0, TypedTim, FirstFacts, Constants
  <1>5. ASSUME NEW c \in systime_t, Serves(c), vtlist # <<>>
        PROVE  /\ Ahead(c) \in Nat /\ Ahead(c) >= 1
               /\ Elapsed + 1 <= FirstDelta + CH_CFG_ST_TIMEDELTA - 1
               /\ Wrap(c - now') = Ahead(c) - 1
               /\ Ahead(c) = 1 => c = now'
               /\ Elapsed' + Wrap(c - now') <= FirstDelta + CH_CFG_ST_TIMEDELTA - 1
    <2>1. /\ Ahead(c) \in Nat /\ Ahead(c) >= 1
          /\ Elapsed + Ahead(c) <= FirstDelta + CH_CFG_ST_TIMEDELTA - 1
          /\ Wrap(c - now') = Ahead(c) - 1 /\ (Ahead(c) = 1 => c = now')
      BY <1>0, <1>2, <1>5, AheadFacts DEF Serves
    <2>2. QED
      BY <1>3, <1>4, <1>5, <2>1
  <1>6. PeriodicRecent'
    <2> SUFFICES ASSUME NEW p \in Periodic, p \notin Range(vtlist) PROVE Elapsed' <= Span
      BY <1>1 DEF PeriodicRecent
    <2>1. Elapsed < MaxSpan
      BY DEF Tick
    <2>2. QED
      BY <1>2, <1>4, <2>1, Bounds, Constants
  <1>7. EmptyQuiet'
    <2> SUFFICES ASSUME vtlist = <<>>
                 PROVE  /\ ~tim'.cc1ie
                        /\ latched' \/ cpu.at = "isr" =>
                             Periodic # {} \/ Elapsed' - lag' + MaxLag < HeaderDelta
                        /\ latched' /\ cpu.at = "isr" =>
                             Elapsed' <= CH_CFG_ST_TIMEDELTA - 1 + lag'
      BY <1>0, ZenonT(30) DEF EmptyQuiet, HeaderDelta
    <2>1. /\ ~tim.cc1ie
          /\ latched \/ cpu.at = "isr" =>
               Periodic # {} \/ Elapsed - lag + MaxLag < HeaderDelta
          /\ latched /\ cpu.at = "isr" => Elapsed <= CH_CFG_ST_TIMEDELTA - 1 + lag
      BY <1>0 DEF EmptyQuiet
    <2>2. tim'.cc1ie = tim.cc1ie /\ latched' = latched
      BY <1>0, <2>1, TypedTim DEF Tick, TypeOK
    <2>3. latched \/ cpu.at = "isr" => lag' = lag + 1 /\ Elapsed' = Elapsed + 1
      BY <1>3 DEF Tick
    <2>4. QED
      BY <1>4, <2>1, <2>2, <2>3, Bounds, Constants
  <1>8. Writing => vtlist # <<>> /\ cpu.time \in systime_t /\ Serves(cpu.time)
    BY <1>0, TypedTim DEF AlarmSet
  <1>9. InTime'
    <2> SUFFICES ASSUME vtlist # <<>>
                 PROVE  Elapsed' <= FirstDelta + CH_CFG_ST_TIMEDELTA - 1 + lag'
      BY <1>0, <1>1, ZenonT(30) DEF InTime
    <2>1. CASE latched \/ cpu.at = "isr"
      <3>1. lag' = lag + 1 /\ Elapsed' = Elapsed + 1
        BY <1>3, <2>1 DEF Tick
      <3>2. Elapsed <= FirstDelta + CH_CFG_ST_TIMEDELTA - 1 + lag
        BY <1>0 DEF InTime
      <3>3. QED
        BY <1>4, <3>1, <3>2
    <2>2. CASE ~latched /\ cpu.at # "isr"
      <3>1. Elapsed + 1 <= FirstDelta + CH_CFG_ST_TIMEDELTA - 1
        <4>1. CASE Writing
          BY <1>5, <1>8, <4>1
        <4>2. CASE cpu.at = "thread"
          <5>1. Serves(tim.ccr)
            BY <1>0, <2>2, <4>2 DEF AlarmSet
          <5>2. QED
            BY <1>0, <1>5, <5>1, TypedTim
        <4>3. QED
          BY <1>0, <2>2, <4>1, <4>2, TypedTim DEF Writing
      <3>2. lag' = lag /\ Elapsed' = Elapsed + 1
        BY <1>3, <2>2 DEF Tick
      <3>3. QED
        BY <1>4, <3>1, <3>2
    <2>3. QED
      BY <2>1, <2>2
  <1>10. tim'.ccr = tim.ccr /\ tim'.cc1ie = tim.cc1ie
    BY <1>0 DEF Tick, TypeOK
  <1>11. ~Writing => slip' = 0
    BY <1>0 DEF Tick, AlarmSet, Writing
  <1>12. ASSUME Writing
         PROVE  /\ Wrap(cpu.time - now') >= 1
                /\ Elapsed' + Wrap(cpu.time - now') <= FirstDelta + CH_CFG_ST_TIMEDELTA - 1
                /\ Wrap(cpu.time - now') >= CH_CFG_ST_TIMEDELTA - slip'
    <2>1. slip < MaxSlip /\ slip' = slip + 1
      BY <1>12 DEF Tick, Writing
    <2>2. Ahead(cpu.time) >= CH_CFG_ST_TIMEDELTA - slip
      BY <1>0, <1>12 DEF AlarmSet
    <2>3. /\ Ahead(cpu.time) \in Nat /\ Wrap(cpu.time - now') = Ahead(cpu.time) - 1
          /\ Elapsed' + Wrap(cpu.time - now') <= FirstDelta + CH_CFG_ST_TIMEDELTA - 1
      BY <1>5, <1>8, <1>12
    <2>4. QED
      BY <1>4, <2>1, <2>2, <2>3
  <1>13. ASSUME vtlist # <<>>, cpu.at = "thread"
         PROVE  \/ latched' /\ tim'.cc1if
                \/ /\ Wrap(tim.ccr - now') >= 1
                   /\ Elapsed' + Wrap(tim.ccr - now') <= FirstDelta + CH_CFG_ST_TIMEDELTA - 1
    <2>1. CASE latched /\ tim.cc1if
      BY <1>0, <2>1 DEF Tick, TypeOK
    <2>2. CASE Serves(tim.ccr)
      <3>1. /\ Ahead(tim.ccr) \in Nat /\ Ahead(tim.ccr) >= 1
            /\ Wrap(tim.ccr - now') = Ahead(tim.ccr) - 1
            /\ Ahead(tim.ccr) = 1 => tim.ccr = now'
            /\ Elapsed' + Wrap(tim.ccr - now') <= FirstDelta + CH_CFG_ST_TIMEDELTA - 1
        BY <1>0, <1>5, <1>13, <2>2, TypedTim
      <3>2. CASE Ahead(tim.ccr) = 1
        <4>1. tim.cc1ie
          BY <1>0, <1>13 DEF AlarmSet
        <4>2. QED
          BY <1>0, <3>1, <3>2, <4>1 DEF Tick, TypeOK
      <3>3. CASE Ahead(tim.ccr) # 1
        BY <3>1, <3>3
      <3>4. QED
        BY <3>2, <3>3
    <2>3. QED
      BY <1>0, <1>13, <2>1, <2>2 DEF AlarmSet
  <1>14. AlarmSet'
    <2>1. /\ cpu' = cpu /\ vtlist' = vtlist /\ Writing' = Writing
          /\ vtlist # <<>> /\ cpu.at # "start_alarm" => tim.cc1ie
      BY <1>0 DEF AlarmSet, Writing
    <2>2. QED
      BY <1>1, <1>8, <1>10, <1>11, <1>12, <1>13, <2>1, ZenonT(60) DEF AlarmSet, Serves, Ahead
  <1>15. QED
    BY <1>1, <1>6, <1>7, <1>9, <1>14 DEF IInv

(* Writing the alarm: it was computed to serve and still does. *)
LEMMA WriteAlarmIInv ==
  ASSUME IInv, WriteAlarm, TypeOK'
  PROVE  IInv'
  <1>0. /\ TypeOK /\ Reaches /\ InTime /\ AlarmSet /\ EmptyQuiet /\ PeriodicRecent
        /\ Writing /\ UNCHANGED <<now, vtlist, vt_delta, lasttime, latched, lag>>
    BY DEF IInv, WriteAlarm, Writing
  <1>1. /\ FirstDelta' = FirstDelta /\ Reaches' /\ Range(vtlist') = Range(vtlist)
        /\ Elapsed' = Elapsed
    BY <1>0, SameList DEF Elapsed
  <1>2. vtlist # <<>> /\ Serves(cpu.time)
    BY <1>0 DEF AlarmSet
  <1>3. tim'.ccr = cpu.time /\ tim'.cc1ie /\ cpu'.at = "thread" /\ slip' = 0
    BY <1>0, <1>2, CpuFacts DEF WriteAlarm, AlarmSet, TypeOK
  <1>4. Serves(tim.ccr)'
    BY <1>0, <1>1, <1>2, <1>3, ZenonT(30) DEF Serves, Ahead
  <1>5. AlarmSet'
    <2>1. ~Writing'
      BY <1>3 DEF Writing
    <2>2. QED
      BY <1>3, <1>4, <2>1, ZenonT(30) DEF AlarmSet
  <1>6. InTime' /\ EmptyQuiet' /\ PeriodicRecent'
    BY <1>0, <1>1, <1>2, ZenonT(30) DEF InTime, EmptyQuiet, PeriodicRecent
  <1>7. QED
    BY <1>1, <1>5, <1>6 DEF IInv

(* Entering the handler.  If the interrupt is one that stayed latched      *)
(* after its flag was cleared, the alarm is still to come.                 *)
LEMMA EnterIsrIInv ==
  ASSUME IInv, EnterIsr, TypeOK'
  PROVE  IInv'
  <1>0. /\ TypeOK /\ Reaches /\ InTime /\ AlarmSet /\ EmptyQuiet /\ PeriodicRecent
        /\ cpu.at = "thread" /\ latched /\ ~latched'
        /\ UNCHANGED <<now, vtlist, vt_delta, lasttime, slip>>
    BY DEF IInv, EnterIsr
  <1>1. /\ FirstDelta' = FirstDelta /\ Reaches' /\ Range(vtlist') = Range(vtlist)
        /\ Elapsed' = Elapsed
    BY <1>0, SameList DEF Elapsed
  <1>2. tim'.ccr = tim.ccr /\ tim'.cc1ie = tim.cc1ie
    BY DEF EnterIsr, TypeOK, IInv
  <1>3. /\ ~Writing /\ ~Writing' /\ slip = 0 /\ slip' = 0 /\ cpu'.at # "start_alarm"
        /\ tim.cc1if => cpu'.at = "isr" /\ lag' = lag
        /\ ~tim.cc1if => cpu'.at = "thread" /\ lag' = 0
    <2>1. ~Writing /\ slip = 0 /\ slip' = 0
      BY <1>0 DEF Writing, AlarmSet
    <2>2. /\ tim.cc1if => cpu'.at = "isr" /\ lag' = lag
          /\ ~tim.cc1if => cpu'.at = "thread" /\ lag' = 0
      BY DEF EnterIsr, Done
    <2>3. QED
      BY <2>1, <2>2 DEF Writing
  <1>4. vtlist # <<>> => tim.cc1ie /\ (tim.cc1if \/ Serves(tim.ccr))
    BY <1>0 DEF AlarmSet
  <1>5. InTime'
    <2> SUFFICES ASSUME vtlist # <<>>
                 PROVE  Elapsed <= FirstDelta + CH_CFG_ST_TIMEDELTA - 1 + lag'
      BY <1>0, <1>1, ZenonT(30) DEF InTime
    <2>1. CASE tim.cc1if
      BY <1>0, <1>3, <2>1 DEF InTime
    <2>2. CASE ~tim.cc1if
      <3>1. /\ Ahead(tim.ccr) \in Nat /\ Ahead(tim.ccr) >= 1
            /\ Elapsed + Ahead(tim.ccr) <= FirstDelta + CH_CFG_ST_TIMEDELTA - 1
        BY <1>0, <1>4, <2>2, TypedTim, AheadFacts DEF Serves
      <3>2. QED
        BY <1>0, <1>3, <2>2, <3>1, TypedTim, FirstFacts, Constants
    <2>3. QED
      BY <2>1, <2>2
  <1>6. Serves(tim.ccr) => Serves(tim.ccr)'
    BY <1>0, <1>1, <1>2, ZenonT(30) DEF Serves, Ahead
  <1>7. AlarmSet'
    <2>1. vtlist' # <<>> /\ cpu'.at = "thread" => Serves(tim.ccr)'
      <3>1. "thread" # "isr"
        OBVIOUS
      <3>2. QED
        BY <1>0, <1>3, <1>4, <1>6, <3>1, ZenonT(30)
    <2>2. QED
      BY <1>0, <1>2, <1>3, <1>4, <2>1, ZenonT(30) DEF AlarmSet
  <1>8. EmptyQuiet'
    <2>1. CASE tim.cc1if
      BY <1>0, <1>1, <1>2, <1>3, <2>1, ZenonT(30) DEF EmptyQuiet
    <2>2. CASE ~tim.cc1if
      <3>1. cpu'.at # "isr"
        BY <1>3, <2>2
      <3>2. QED
        BY <1>0, <1>2, <3>1, ZenonT(30) DEF EmptyQuiet
    <2>3. QED
      BY <2>1, <2>2
  <1>9. PeriodicRecent'
    BY <1>0, <1>1, ZenonT(30) DEF PeriodicRecent
  <1>10. QED
    BY <1>1, <1>5, <1>7, <1>8, <1>9 DEF IInv

(* An expiry: lasttime moves to when the first timer was due, so the time  *)
(* since is how late it is.                                                *)
LEMMA FireIInv ==
  ASSUME IInv, DelaysFit, Fire, TypeOK'
  PROVE  IInv' /\ Elapsed' = Elapsed - FirstDelta
  <1>0. /\ TypeOK /\ Reaches /\ InTime /\ AlarmSet /\ EmptyQuiet /\ PeriodicRecent
        /\ cpu.at = "isr" /\ vtlist # <<>> /\ FirstDelta <= Elapsed
        /\ UNCHANGED <<now, latched, cpu, lag, slip>>
    BY DEF IInv, Fire
  <1>1. /\ Elapsed \in Nat /\ FirstDelta \in Nat /\ lag \in Nat /\ lag <= MaxLag
        /\ lag' = lag
    BY <1>0, TypedTim, FirstFacts
  <1>2. Elapsed' = Elapsed - FirstDelta
    <2>1. Wrap(now - Wrap(lasttime + FirstDelta)) = Elapsed - FirstDelta
      BY <1>0, <1>1, TypedTim, ExpiryClock
    <2>2. QED
      BY <1>0, <2>1 DEF Fire, Elapsed
  <1>3. /\ Elapsed' <= CH_CFG_ST_TIMEDELTA - 1 + lag /\ Elapsed' \in Nat /\ Elapsed' <= MaxLate
    <2>1. Elapsed <= FirstDelta + CH_CFG_ST_TIMEDELTA - 1 + lag
      BY <1>0 DEF InTime
    <2>2. QED
      BY <1>0, <1>1, <1>2, <2>1, Bounds, Constants
  <1>4. /\ Range(vtlist') \subseteq Range(vtlist)
        /\ \A u \in Range(vtlist') : Due(u)' = Due(u) - FirstDelta
    BY <1>0, ExpiryStep, ZenonT(30) DEF Fire
  <1>5. Reaches'
    <2> SUFFICES ASSUME NEW u \in Range(vtlist')
                 PROVE  \E d \in Delays[u] : Due(u)' <= Span + AtLeastDelta(d)
      BY ZenonT(30) DEF Reaches
    <2>1. PICK d \in Delays[u] : /\ AtLeastDelta(d) \in Nat /\ Due(u) \in Nat
                                 /\ Due(u) <= Span + AtLeastDelta(d)
      BY <1>0, <1>4, ReachesFacts
    <2>2. Due(u)' <= Span + AtLeastDelta(d)
      BY <1>1, <1>4, <2>1, Bounds
    <2>3. QED
      BY <2>2
  <1>6. InTime'
    <2>1. PICK f \in Nat : f = FirstDelta'
      BY NextFirstFacts
    <2>2. Elapsed' <= f + CH_CFG_ST_TIMEDELTA - 1 + lag'
      BY <1>1, <1>3, Constants
    <2>3. QED
      BY <2>1, <2>2, ZenonT(30) DEF InTime
  <1>7. PeriodicRecent'
    <2>1. Elapsed' <= Span
      BY <1>3, Bounds
    <2>2. QED
      BY <2>1 DEF PeriodicRecent
  <1>8. /\ vtlist' = <<>> => ~tim'.cc1ie
        /\ vtlist' # <<>> => tim'.cc1ie
    <2>1. vtlist \in Seq(Timer) /\ vtlist' = Tail(vtlist)
      BY <1>0, TypedList DEF Fire
    <2>2. vtlist' = <<>> <=> Len(vtlist) = 1
      <3>1. Len(vtlist) \in Nat /\ Len(vtlist) # 0
        BY <1>0, <2>1
      <3>2. PICK r \in Seq(Timer) : r = vtlist' /\ Len(r) = Len(vtlist) - 1
        BY <1>0, <2>1
      <3>3. r = <<>> <=> Len(r) = 0
        OBVIOUS
      <3>4. QED
        BY <3>1, <3>2, <3>3
    <2>3. tim.cc1ie
      BY <1>0 DEF AlarmSet
    <2>4. StopAlarm.cc1ie = FALSE
      BY <1>0 DEF StopAlarm, TypeOK
    <2>5. QED
      BY <2>2, <2>3, <2>4 DEF Fire
  <1>9. AlarmSet'
    <2>1. ~Writing /\ ~Writing' /\ cpu'.at = "isr" /\ cpu'.at # "thread"
      BY <1>0 DEF Writing
    <2>2. slip' = 0
      BY <1>0, <2>1 DEF AlarmSet
    <2>3. QED
      BY <1>8, <2>1, <2>2, ZenonT(30) DEF AlarmSet
  <1>10. EmptyQuiet'
    <2>1. Elapsed' - lag' + MaxLag < HeaderDelta
      <3>1. Span + MaxLate < HeaderDelta
        BY DEF DelaysFit, HeaderDelta
      <3>2. PICK e \in Nat : e = Elapsed'
        BY <1>3
      <3>3. e <= CH_CFG_ST_TIMEDELTA - 1 + lag
        BY <1>3, <3>2
      <3>4. e - lag + MaxLag < HeaderDelta
        BY <1>1, <3>1, <3>3, Bounds, Constants
      <3>5. QED
        BY <1>1, <3>2, <3>4, ZenonT(30)
    <2>2. Elapsed' <= CH_CFG_ST_TIMEDELTA - 1 + lag'
      BY <1>0, <1>3
    <2>3. QED
      BY <1>8, <2>1, <2>2, ZenonT(30) DEF EmptyQuiet, HeaderDelta
  <1>11. QED
    BY <1>2, <1>5, <1>6, <1>7, <1>9, <1>10 DEF IInv

(* An alarm for the first timer, raised to the shortest delay. *)
LEMMA RaisedAlarm ==
  ASSUME NEW e \in Nat, NEW f \in Nat, e < f, f < SYSTIME_VALUES, NEW y,
         y = AtLeastDelta(f - e)
  PROVE  /\ y \in Nat /\ y < SYSTIME_VALUES /\ y >= 1 /\ y >= CH_CFG_ST_TIMEDELTA
         /\ e + y <= f + CH_CFG_ST_TIMEDELTA - 1
  BY Constants DEF AtLeastDelta

(* Leaving the handler: the alarm of the timer that is first now. *)
LEMMA LeaveIsrIInv ==
  ASSUME IInv, DelaysFit, LeaveIsr, TypeOK'
  PROVE  IInv'
  <1>0. /\ TypeOK /\ Reaches /\ InTime /\ AlarmSet /\ EmptyQuiet /\ PeriodicRecent
        /\ cpu.at = "isr" /\ Elapsed < FirstDelta /\ lag' = 0
        /\ UNCHANGED <<now, vtlist, vt_delta, lasttime, tim, latched, slip>>
    <2>1. /\ cpu.at = "isr" /\ Elapsed < FirstDelta /\ lag' = 0
          /\ UNCHANGED <<now, vtlist, vt_delta, lasttime, tim, latched, slip>>
      BY TypedTim, FirstFacts DEF LeaveIsr, IInv
    <2>2. QED
      BY <2>1 DEF IInv
  <1>1. /\ FirstDelta' = FirstDelta /\ Reaches' /\ Range(vtlist') = Range(vtlist)
        /\ Elapsed' = Elapsed
    BY <1>0, SameList DEF Elapsed
  <1>2. /\ Elapsed \in Nat /\ FirstDelta \in Nat /\ FirstDelta < SYSTIME_VALUES
        /\ lag \in Nat /\ lag <= MaxLag /\ slip = 0 /\ slip' = 0
    <2>1. slip = 0
      BY <1>0 DEF AlarmSet, Writing
    <2>2. QED
      BY <1>0, <2>1, TypedTim, FirstFacts
  <1>3. PeriodicRecent'
    BY <1>0, <1>1, ZenonT(30) DEF PeriodicRecent
  <1>4. InTime'
    <2>1. Elapsed <= FirstDelta + CH_CFG_ST_TIMEDELTA - 1 + 0
      BY <1>0, <1>2, Constants
    <2>2. QED
      BY <1>0, <1>1, <2>1, ZenonT(30) DEF InTime
  <1>5. CASE vtlist = <<>>
    <2>1. cpu'.at = "thread" /\ ~Writing' /\ cpu'.at # "isr"
      BY <1>5, CpuFacts DEF LeaveIsr, Writing
    <2>2. AlarmSet'
      BY <1>0, <1>2, <1>5, <2>1, ZenonT(30) DEF AlarmSet
    <2>3. ~tim.cc1ie /\ (latched => Elapsed <= CH_CFG_ST_TIMEDELTA - 1 + lag)
      BY <1>0, <1>5 DEF EmptyQuiet
    <2>4. latched => Elapsed - 0 + MaxLag < HeaderDelta
      <3>1. Span + MaxLate < HeaderDelta
        BY DEF DelaysFit, HeaderDelta
      <3>2. QED
        BY <1>2, <2>3, <3>1, Bounds, Constants
    <2>5. EmptyQuiet'
      BY <1>0, <1>1, <2>1, <2>3, <2>4, ZenonT(30) DEF EmptyQuiet, HeaderDelta
    <2>6. QED
      BY <1>1, <1>3, <1>4, <2>2, <2>5 DEF IInv
  <1>6. CASE vtlist # <<>>
    <2>1. Wrap(lasttime + FirstDelta - now) = FirstDelta - Elapsed
      BY <1>0, <1>2, TypedTim, AlarmClock
    <2>2. PICK y : y = AtLeastDelta(FirstDelta - Elapsed)
      OBVIOUS
    <2>3. /\ y \in Nat /\ y < SYSTIME_VALUES /\ y >= 1 /\ y >= CH_CFG_ST_TIMEDELTA
          /\ Elapsed + y <= FirstDelta + CH_CFG_ST_TIMEDELTA - 1
      BY <1>0, <1>2, <2>2, RaisedAlarm
    <2>4. cpu' = SetAlarm(now + y)
      BY <1>6, <2>1, <2>2, ZenonT(30) DEF LeaveIsr
    <2>5. cpu'.at = "set_alarm" /\ cpu'.time = Wrap(now + y)
      BY <2>4, ZenonT(30) DEF SetAlarm
    <2>6. Ahead(cpu.time)' = y
      <3>1. Ahead(Wrap(now + y)) = y
        BY <1>0, <2>3, TypedTim, AlarmClock
      <3>2. QED
        BY <1>0, <2>5, <3>1, ZenonT(30) DEF Ahead
    <2>7. Writing' /\ cpu'.at # "thread" /\ tim.cc1ie
      BY <1>0, <1>6, <2>5 DEF Writing, AlarmSet
    <2>8. y >= CH_CFG_ST_TIMEDELTA - 0
      BY <2>3, Constants
    <2>9. Serves(cpu.time)'
      BY <1>1, <2>3, <2>6, ZenonT(30) DEF Serves
    <2>10. AlarmSet'
      BY <1>0, <1>2, <1>6, <2>6, <2>7, <2>8, <2>9, ZenonT(30) DEF AlarmSet
    <2>11. EmptyQuiet'
      BY <1>0, <1>6 DEF EmptyQuiet
    <2>12. QED
      BY <1>1, <1>3, <1>4, <2>10, <2>11 DEF IInv
  <1>7. QED
    BY <1>5, <1>6

(* A thread that gives the list another first timer and computes its       *)
(* alarm, y ticks ahead.                                                   *)
LEMMA NewAlarm ==
  ASSUME vtlist' # <<>>, Writing', slip' = 0, NEW y \in Nat, Ahead(cpu.time)' = y,
         y >= 1, y >= CH_CFG_ST_TIMEDELTA,
         NEW e \in Nat, e = Elapsed', NEW f \in Nat, f = FirstDelta',
         e + y <= f + CH_CFG_ST_TIMEDELTA - 1,
         cpu'.at = "start_alarm" \/ tim'.cc1ie
  PROVE  AlarmSet'
  <1>1. y >= CH_CFG_ST_TIMEDELTA - 0 /\ cpu'.at # "thread"
    BY Constants DEF Writing
  <1>2. Serves(cpu.time)'
    BY ZenonT(30) DEF Serves
  <1>3. QED
    BY <1>1, <1>2, ZenonT(30) DEF AlarmSet

(* A thread that leaves the alarm alone: it serves a later first timer     *)
(* too.                                                                    *)
LEMMA SameAlarm ==
  ASSUME TypeOK, AlarmSet, cpu.at = "thread", vtlist # <<>>,
         cpu' = cpu, tim' = tim, latched' = latched, slip' = slip, now' = now,
         Elapsed' = Elapsed, NEW f \in Nat, f = FirstDelta', FirstDelta <= f
  PROVE  AlarmSet'
  <1>1. Serves(tim.ccr) => Serves(tim.ccr)'
    <2> SUFFICES ASSUME Serves(tim.ccr) PROVE Serves(tim.ccr)'
      OBVIOUS
    <2>1. PICK y \in Nat : y = Ahead(tim.ccr) /\ y = Ahead(tim.ccr)'
      <3>1. Ahead(tim.ccr)' = Ahead(tim.ccr)
        BY ZenonT(30) DEF Ahead
      <3>2. QED
        BY <3>1, TypedTim, AheadFacts
    <2>2. Elapsed + y <= FirstDelta + CH_CFG_ST_TIMEDELTA - 1 /\ y >= 1
      BY <2>1 DEF Serves
    <2>3. Elapsed + y <= f + CH_CFG_ST_TIMEDELTA - 1
      BY <2>2, TypedTim, FirstFacts, Constants, SMTT(30)
    <2>4. QED
      BY <2>1, <2>2, <2>3, ZenonT(30) DEF Serves
  <1>2. /\ ~Writing /\ ~Writing' /\ slip = 0 /\ tim.cc1ie
        /\ (latched /\ tim.cc1if) \/ Serves(tim.ccr)
    BY DEF AlarmSet, Writing
  <1>3. QED
    BY <1>1, <1>2, ZenonT(30) DEF AlarmSet

(* Setting a timer: its deadline is the delay after now. *)
LEMMA SetIInv ==
  ASSUME IInv, DelaysFit, NEW t \in Timer, t \in Periodic \/ RecentExpiry,
         NEW d \in Delays[t], chVTDoSetI(t, d), TypeOK'
  PROVE  /\ IInv' /\ t \notin Range(vtlist) /\ Range(vtlist') = Range(vtlist) \cup {t}
         /\ Elapsed' \in Nat /\ now' = now
         /\ Due(t)' = Elapsed' + AtLeastDelta(d)
         /\ \A u \in Range(vtlist) : Due(u)' = Due(u) /\ Elapsed' = Elapsed
  <1> DEFINE a == AtLeastDelta(d)
  <1>0. /\ TypeOK /\ Reaches /\ InTime /\ AlarmSet /\ EmptyQuiet /\ PeriodicRecent
        /\ cpu.at = "thread" /\ t \notin Range(vtlist)
        /\ now' = now /\ tim' = tim /\ latched' = latched /\ lag' = lag /\ slip' = slip
        /\ Range(vtlist') = Range(vtlist) \cup {t}
        /\ \A u \in Range(vtlist) : Due(u)' = Due(u)
    BY SetStep DEF IInv
  <1>1. \/ /\ vtlist = <<>> /\ lasttime' = now /\ Due(t)' = a
           /\ cpu' = StartAlarm(now + a)
        \/ /\ vtlist # <<>> /\ lasttime' = lasttime /\ cpu' = cpu
           /\ Elapsed + a >= SYSTIME_VALUES
           /\ Elapsed + a - FirstDelta < SYSTIME_VALUES => Due(t)' = Elapsed + a
        \/ /\ vtlist # <<>> /\ lasttime' = lasttime
           /\ Elapsed + a < SYSTIME_VALUES
           /\ Due(t)' = Elapsed + a
           /\ cpu' = IF Elapsed + a < FirstDelta
                     THEN SetAlarm(lasttime + (Elapsed + a)) ELSE cpu
    BY <1>0, SetStep, ZenonT(30)
  <1>2. /\ a \in Nat /\ a >= CH_CFG_ST_TIMEDELTA /\ a >= 1 /\ a < SYSTIME_VALUES
        /\ a + MaxLate < SYSTIME_VALUES
    <2>1. a + MaxLate < SYSTIME_VALUES
      BY DEF DelaysFit
    <2>2. a \in Nat /\ a >= CH_CFG_ST_TIMEDELTA /\ a <= SYSTIME_VALUES - 2
      BY DelayFacts
    <2> HIDE DEF a
    <2>3. QED
      BY <2>1, <2>2, Constants
  <1> HIDE DEF a
  <1>3. /\ Elapsed \in Nat /\ FirstDelta \in Nat /\ FirstDelta < SYSTIME_VALUES
        /\ lag \in Nat /\ lag <= MaxLag /\ slip = 0 /\ slip' = 0
    <2>1. slip = 0
      BY <1>0 DEF AlarmSet, Writing
    <2>2. QED
      BY <1>0, <2>1, TypedTim, FirstFacts
  <1>4. vtlist' # <<>> /\ EmptyQuiet'
    <2>1. vtlist' # <<>>
      BY <1>0, NextFirstFacts
    <2>2. QED
      BY <2>1 DEF EmptyQuiet
  <1>5. PICK f \in Nat : /\ f = FirstDelta' /\ f <= Due(t)'
                         /\ \A u \in Range(vtlist) : f <= Due(u)
                         /\ f = Due(t)' \/ \E u \in Range(vtlist) : f = Due(u)
    <2>1. /\ FirstDelta' \in Nat /\ Head(vtlist') \in Range(vtlist')
          /\ FirstDelta' = Due(Head(vtlist))'
          /\ \A u \in Range(vtlist') : FirstDelta' <= Due(u)'
      BY <1>4, NextFirstFacts
    <2>2. FirstDelta' = Due(t)' \/ \E u \in Range(vtlist) : FirstDelta' = Due(u)
      <3>1. CASE Head(vtlist') = t
        <4>1. Due(Head(vtlist))' = Due(t)'
          BY <3>1, ZenonT(30) DEF Due
        <4>2. QED
          BY <2>1, <4>1
      <3>2. CASE Head(vtlist') \in Range(vtlist)
        <4>1. PICK u \in Range(vtlist) : u = Head(vtlist')
          BY <3>2
        <4>2. Due(Head(vtlist))' = Due(u)'
          BY <4>1, ZenonT(30) DEF Due
        <4>3. QED
          BY <1>0, <2>1, <4>2
      <3>3. QED
        BY <1>0, <2>1, <3>1, <3>2
    <2>3. FirstDelta' <= Due(t)' /\ \A u \in Range(vtlist) : FirstDelta' <= Due(u)
      <3>1. t \in Range(vtlist') /\ \A u \in Range(vtlist) : u \in Range(vtlist')
        BY <1>0
      <3>2. QED
        BY <1>0, <2>1, <3>1, ZenonT(30)
    <2>4. QED
      BY <2>1, <2>2, <2>3, ZenonT(30)
  <1>6. CASE /\ vtlist = <<>> /\ lasttime' = now /\ Due(t)' = a
             /\ cpu' = StartAlarm(now + a)
    <2>1. Range(vtlist) = {} /\ f = a
      BY <1>0, <1>5, <1>6, FirstFacts
    <2>2. Elapsed' = 0
      <3>1. Wrap(now - now) = 0
        BY <1>0, TypedTim, Constants DEF Wrap
      <3>2. QED
        BY <1>0, <1>6, <3>1 DEF Elapsed
    <2>3. cpu'.at = "start_alarm" /\ cpu'.time = Wrap(now + a) /\ Writing'
      BY <1>6 DEF StartAlarm, Writing
    <2>4. Ahead(cpu.time)' = a
      <3>1. Ahead(Wrap(now + a)) = a
        BY <1>0, <1>2, TypedTim, AlarmClock
      <3>2. QED
        BY <1>0, <2>3, <3>1, ZenonT(30) DEF Ahead
    <2>5. AlarmSet'
      <3>1. 0 + a <= f + CH_CFG_ST_TIMEDELTA - 1
        BY <1>2, <2>1, Constants
      <3>2. QED
        BY <1>2, <1>3, <1>4, <1>5, <2>2, <2>3, <2>4, <3>1, NewAlarm
    <2>6. InTime'
      <3>1. 0 <= f + CH_CFG_ST_TIMEDELTA - 1 + lag
        BY <1>3, Constants
      <3>2. QED
        BY <1>0, <1>5, <2>2, <3>1, ZenonT(30) DEF InTime
    <2>7. PeriodicRecent'
      BY <2>2, Bounds DEF PeriodicRecent
    <2>8. Reaches'
      <3>1. a <= Span + a
        BY <1>2, Bounds
      <3>2. QED
        BY <1>0, <1>6, <2>1, <3>1, ZenonT(30) DEF Reaches, a
    <2>9. Due(t)' = Elapsed' + a
      BY <1>2, <1>6, <2>2
    <2>10. QED
      BY <1>0, <1>4, <2>1, <2>2, <2>5, <2>6, <2>7, <2>8, <2>9 DEF IInv, a
  <1>7. CASE vtlist # <<>> /\ lasttime' = lasttime
    <2>1. Elapsed' = Elapsed
      BY <1>0, <1>7 DEF Elapsed
    <2>2. Elapsed <= Span
      <3>1. CASE t \in Periodic
        BY <1>0, <3>1 DEF PeriodicRecent
      <3>2. CASE RecentExpiry
        BY <1>3, <1>7, <3>2, Bounds, Constants DEF RecentExpiry
      <3>3. QED
        BY <3>1, <3>2
    <2>3. Elapsed <= FirstDelta + CH_CFG_ST_TIMEDELTA - 1 + lag
      BY <1>0, <1>7 DEF InTime
    <2>4. Due(t)' = Elapsed + a
      <3>1. Elapsed + a - FirstDelta < SYSTIME_VALUES
        BY <1>2, <1>3, <2>3, Bounds, Constants
      <3>2. QED
        BY <1>1, <1>7, <3>1, ZenonT(30)
    <2>5. /\ f <= FirstDelta /\ f <= Elapsed + a
          /\ f = Elapsed + a \/ f = FirstDelta
      <3>1. /\ Head(vtlist) \in Range(vtlist) /\ FirstDelta = Due(Head(vtlist))
            /\ \A u \in Range(vtlist) : Due(u) \in Nat /\ FirstDelta <= Due(u)
        BY <1>0, <1>7, FirstFacts
      <3>2. f <= FirstDelta
        BY <1>5, <3>1
      <3>3. f <= Elapsed + a /\ (f = Elapsed + a \/ \E u \in Range(vtlist) : f = Due(u))
        BY <1>5, <2>4, ZenonT(30)
      <3>4. (\E u \in Range(vtlist) : f = Due(u)) => f = FirstDelta
        BY <1>3, <3>1, <3>2
      <3>5. QED
        BY <3>2, <3>3, <3>4, ZenonT(30)
    <2>6. Reaches'
      <3> SUFFICES ASSUME NEW u \in Range(vtlist')
                   PROVE  \E c \in Delays[u] : Due(u)' <= Span + AtLeastDelta(c)
        BY ZenonT(30) DEF Reaches
      <3>1. CASE u = t
        <4>1. Elapsed + a <= Span + a
          BY <1>2, <1>3, <2>2, Bounds
        <4>2. QED
          BY <2>4, <3>1, <4>1, ZenonT(30) DEF a
      <3>2. CASE u \in Range(vtlist)
        BY <1>0, <3>2, ZenonT(30) DEF Reaches
      <3>3. QED
        BY <1>0, <3>1, <3>2
    <2>7. PeriodicRecent'
      BY <2>1, <2>2, ZenonT(30) DEF PeriodicRecent
    <2>8. /\ Due(t)' = Elapsed' + a /\ Elapsed' \in Nat
          /\ \A u \in Range(vtlist) : Due(u)' = Due(u) /\ Elapsed' = Elapsed
      BY <1>0, <1>3, <2>1, <2>4, ZenonT(30)
    <2>9. CASE cpu' = cpu /\ f = FirstDelta
      <3>1. AlarmSet'
        <4>1. FirstDelta <= f
          BY <2>9
        <4>2. QED
          BY <1>0, <1>5, <1>7, <2>1, <2>9, <4>1, SameAlarm
      <3>2. InTime'
        BY <1>0, <1>5, <2>1, <2>3, <2>9, ZenonT(30) DEF InTime
      <3>3. QED
        BY <1>0, <1>4, <2>6, <2>7, <2>8, <3>1, <3>2 DEF IInv, a
    <2>10. CASE /\ cpu' = SetAlarm(lasttime + (Elapsed + a)) /\ f = Elapsed + a
                /\ Elapsed + a < SYSTIME_VALUES
      <3>1. cpu'.at = "set_alarm" /\ cpu'.time = Wrap(lasttime + (Elapsed + a)) /\ Writing'
        BY <2>10 DEF SetAlarm, Writing
      <3>2. Ahead(cpu.time)' = a
        <4>1. PICK y \in Nat : y = Elapsed + a /\ y < SYSTIME_VALUES
          BY <1>2, <1>3, <2>10
        <4>2. y >= Elapsed /\ y - Elapsed = a
          BY <1>2, <1>3, <4>1
        <4>3. Ahead(Wrap(lasttime + y)) = y - Elapsed
          BY <1>0, <4>1, <4>2, TypedTim, AlarmClock
        <4>4. QED
          BY <1>0, <3>1, <4>1, <4>2, <4>3, ZenonT(30) DEF Ahead
      <3>3. tim.cc1ie
        BY <1>0, <1>7 DEF AlarmSet
      <3>4. AlarmSet'
        <4>1. Elapsed + a <= f + CH_CFG_ST_TIMEDELTA - 1
          BY <1>2, <1>3, <2>10, Constants
        <4>2. QED
          BY <1>0, <1>2, <1>3, <1>4, <1>5, <2>1, <3>1, <3>2, <3>3, <4>1, NewAlarm
      <3>5. InTime'
        <4>1. Elapsed <= f + CH_CFG_ST_TIMEDELTA - 1 + lag
          BY <1>2, <1>3, <2>10, Constants
        <4>2. QED
          BY <1>0, <1>5, <2>1, <4>1, ZenonT(30) DEF InTime
      <3>6. QED
        BY <1>0, <1>4, <2>6, <2>7, <2>8, <3>4, <3>5 DEF IInv, a
    <2>11. \/ cpu' = cpu /\ f = FirstDelta
           \/ /\ cpu' = SetAlarm(lasttime + (Elapsed + a)) /\ f = Elapsed + a
              /\ Elapsed + a < SYSTIME_VALUES
      <3>1. CASE Elapsed + a < FirstDelta
        <4>1. /\ f = Elapsed + a /\ Elapsed + a < SYSTIME_VALUES
              /\ ~(Elapsed + a >= SYSTIME_VALUES)
          BY <1>2, <1>3, <2>5, <3>1, Constants
        <4>2. QED
          BY <1>1, <1>7, <3>1, <4>1, ZenonT(30)
      <3>2. CASE ~(Elapsed + a < FirstDelta)
        <4>1. f = FirstDelta
          BY <1>2, <1>3, <2>5, <3>2
        <4>2. QED
          BY <1>1, <1>7, <3>2, <4>1, ZenonT(30)
      <3>3. QED
        BY <3>1, <3>2
    <2>12. QED
      BY <2>9, <2>10, <2>11
  <1>8. QED
    BY <1>1, <1>6, <1>7, ZenonT(30)

(* The deltas of two timers in a row are within the distance of the second. *)
LEMMA PairDistance ==
  ASSUME TypeOK, NEW k \in DOMAIN vtlist, k < Len(vtlist)
  PROVE  /\ vtlist[k + 1] \in Range(vtlist) /\ vtlist[k + 1] # vtlist[k]
         /\ vt_delta[vtlist[k + 1]] + vt_delta[vtlist[k]] <= Due(vtlist[k + 1])
  <1> DEFINE n == Len(vtlist)
             D == Distances(vtlist, vt_delta)
  <1>1. n \in Nat /\ k \in 1..n /\ k + 1 \in 1..n /\ k - 1 \in 0..n /\ 0 \in 0..n /\ 0 <= k - 1
    BY TypedList
  <1>2. vtlist[k + 1] \in Range(vtlist) /\ vtlist[k + 1] # vtlist[k]
    BY <1>1, TypedList DEF Range, IsInjective
  <1>3. /\ D[0] = 0
        /\ D[k] = D[k - 1] + vt_delta[vtlist[k]]
        /\ D[k + 1] = D[(k + 1) - 1] + vt_delta[vtlist[k + 1]]
    <2>1. vt_delta \in [Timer -> Int]
      BY TypedList
    <2>2. QED
      BY <1>1, <2>1, TypedList, DistancesFacts, ZenonT(30)
  <1>4. D[0] <= D[k - 1]
    BY <1>1, TypedList, DistancesOrdered, ZenonT(30)
  <1>5. D[k - 1] \in Int
    <2>1. vt_delta \in [Timer -> Int]
      BY TypedList
    <2>2. D \in [0..n -> Int]
      BY <2>1, TypedList, DistancesFacts, ZenonT(30)
    <2> HIDE DEF D
    <2>3. QED
      BY <1>1, <2>2
  <1>6. Due(vtlist[k + 1]) = D[k + 1]
    BY <1>1, TypedList, ListFacts, ZenonT(30) DEF Due
  <1>7. vt_delta[vtlist[k]] \in Nat /\ vt_delta[vtlist[k + 1]] \in Nat /\ (k + 1) - 1 = k
    BY <1>1, TypedList
  <1> HIDE DEF D, n
  <1>8. D[k + 1] = D[k - 1] + vt_delta[vtlist[k]] + vt_delta[vtlist[k + 1]]
    BY <1>3, <1>7
  <1>9. QED
    BY <1>2, <1>3, <1>4, <1>5, <1>6, <1>7, <1>8, SMTT(30)

(* Resetting a timer: the others keep their deadlines. *)
LEMMA ResetIInv ==
  ASSUME IInv, DelaysFit, NEW t \in Resettable, chVTDoResetI(t), TypeOK'
  PROVE  /\ IInv' /\ t \in Range(vtlist) /\ Range(vtlist') = Range(vtlist) \ {t}
         /\ Elapsed' = Elapsed /\ now' = now
         /\ \A u \in Range(vtlist) \ {t} : Due(u)' = Due(u)
  <1>a. t \in Timer /\ t \notin Periodic
    BY VirtualTimersAssumption
  <1>b. /\ TypeOK /\ Reaches /\ InTime /\ AlarmSet /\ EmptyQuiet /\ PeriodicRecent
    BY DEF IInv
  <1>0. PICK k \in DOMAIN vtlist :
          /\ vtlist[k] = t /\ Unlink(k) /\ cpu.at = "thread"
          /\ UNCHANGED <<now, lasttime, latched, lag, slip>>
          /\ \/ k > 1 /\ UNCHANGED <<tim, cpu>>
             \/ k = 1 /\ vtlist' = <<>> /\ tim' = StopAlarm /\ UNCHANGED cpu
             \/ /\ k = 1 /\ vtlist' # <<>> /\ UNCHANGED tim
                /\ \/ Elapsed >= FirstDelta' /\ UNCHANGED cpu
                   \/ /\ Elapsed < FirstDelta'
                      /\ cpu' = SetAlarm(lasttime + Elapsed
                                         + AtLeastDelta(FirstDelta' - Elapsed))
    BY <1>a, <1>b, ResetStep, ZenonT(30)
  <1>1. /\ t \in Range(vtlist) /\ Range(vtlist') = Range(vtlist) \ {t} /\ vtlist # <<>>
        /\ \A u \in Range(vtlist') : Due(u)' = Due(u)
    <2>1. ASSUME k < Len(vtlist)
          PROVE  vt_delta[vtlist[k + 1]] + vt_delta[vtlist[k]] < SYSTIME_VALUES
      <3>1. /\ vtlist[k + 1] \in Range(vtlist) /\ vtlist[k + 1] # t
            /\ vt_delta[vtlist[k + 1]] + vt_delta[vtlist[k]] <= Due(vtlist[k + 1])
        BY <1>b, <1>0, <2>1, PairDistance
      <3>2. PICK u \in Range(vtlist) : u = vtlist[k + 1] /\ u # t
        BY <3>1
      <3>3. PICK d \in Delays[u] : /\ AtLeastDelta(d) \in Nat /\ Due(u) \in Nat
                                   /\ Due(u) <= Span + AtLeastDelta(d)
        BY <1>b, ReachesFacts
      <3>4. u \in Timer /\ vtlist[k] \in Timer
        BY <1>0, <1>a, <1>b, FirstFacts
      <3>5. Span + AtLeastDelta(d) < SYSTIME_VALUES
        BY <3>2, <3>4 DEF DelaysFit
      <3>6. vt_delta[u] \in Nat /\ vt_delta[vtlist[k]] \in Nat
        BY <1>b, <3>4, TypedList
      <3>7. vt_delta[u] + vt_delta[vtlist[k]] <= Due(u)
        BY <3>1, <3>2, ZenonT(30)
      <3>8. vt_delta[u] + vt_delta[vtlist[k]] < SYSTIME_VALUES
        <4> DEFINE x == vt_delta[u]
                   y == vt_delta[vtlist[k]]
                   z == Due(u)
                   w == AtLeastDelta(d)
        <4>1. x \in Nat /\ y \in Nat /\ z \in Nat /\ w \in Nat
          BY <3>3, <3>6, ZenonT(30)
        <4>2. x + y <= z /\ z <= Span + w /\ Span + w < SYSTIME_VALUES
          BY <3>3, <3>5, <3>7, ZenonT(30)
        <4>3. Span \in Nat /\ SYSTIME_VALUES \in Nat
          BY Bounds, Constants, ZenonT(30)
        <4> HIDE DEF x, y, z, w
        <4>4. x + y < SYSTIME_VALUES
          BY <4>1, <4>2, <4>3
        <4>5. QED
          BY <4>4, ZenonT(30) DEF x, y
      <3>9. QED
        BY <3>2, <3>8, ZenonT(30)
    <2>2. /\ t \in Range(vtlist) /\ Range(vtlist') = Range(vtlist) \ {t}
          /\ \A u \in Range(vtlist) \ {t} : Due(u)' = Due(u)
      BY <1>b, <1>0, <2>1, UnlinkStep, ZenonT(30)
    <2>3. vtlist # <<>>
      BY <1>b, <2>2, FirstFacts
    <2>4. QED
      BY <2>2, <2>3, ZenonT(30)
  <1>2. /\ Elapsed' = Elapsed /\ now' = now /\ latched' = latched /\ lag' = lag /\ slip' = slip
    BY <1>0 DEF Elapsed
  <1>3. Reaches'
    <2>1. \A u \in Range(vtlist') : u \in Range(vtlist) /\ Due(u)' = Due(u)
      BY <1>1
    <2>2. QED
      BY <1>b, <2>1, ZenonT(30) DEF Reaches
  <1>4. PeriodicRecent'
    <2>1. \A p \in Periodic : p \in Range(vtlist) => p \in Range(vtlist')
      BY <1>a, <1>1
    <2>2. QED
      BY <1>b, <1>2, <2>1, ZenonT(30) DEF PeriodicRecent
  <1>5. /\ Elapsed \in Nat /\ FirstDelta \in Nat /\ lag \in Nat /\ lag <= MaxLag
        /\ slip = 0 /\ tim.cc1ie
        /\ Elapsed <= FirstDelta + CH_CFG_ST_TIMEDELTA - 1 + lag
    <2>1. slip = 0 /\ tim.cc1ie
      BY <1>b, <1>0, <1>1 DEF AlarmSet, Writing
    <2>2. Elapsed <= FirstDelta + CH_CFG_ST_TIMEDELTA - 1 + lag
      BY <1>b, <1>1 DEF InTime
    <2>3. QED
      BY <1>b, <2>1, <2>2, TypedTim, FirstFacts
  <1>6. CASE vtlist' # <<>>
    <2>1. PICK f \in Nat : f = FirstDelta' /\ f < SYSTIME_VALUES /\ FirstDelta <= f
      <3>1. /\ FirstDelta' \in Nat /\ FirstDelta' < SYSTIME_VALUES
            /\ Head(vtlist') \in Range(vtlist') /\ FirstDelta' = Due(Head(vtlist))'
        BY <1>6, NextFirstFacts
      <3>2. PICK u \in Range(vtlist') : u = Head(vtlist')
        BY <3>1
      <3>3. Due(Head(vtlist))' = Due(u)'
        BY <3>2, ZenonT(30) DEF Due
      <3>4. FirstDelta' = Due(u) /\ u \in Range(vtlist)
        BY <1>1, <3>1, <3>3
      <3>5. FirstDelta <= Due(u)
        BY <1>b, <1>1, <3>4, FirstFacts
      <3>6. FirstDelta <= FirstDelta'
        BY <3>4, <3>5, ZenonT(30)
      <3>7. QED
        BY <3>1, <3>6, ZenonT(30)
    <2>2. InTime'
      <3>1. FirstDelta <= f
        BY <2>1, ZenonT(30)
      <3>2. Elapsed <= f + CH_CFG_ST_TIMEDELTA - 1 + lag
        BY <1>5, <3>1, Constants
      <3>3. QED
        BY <1>2, <2>1, <3>2, ZenonT(30) DEF InTime
    <2>3. EmptyQuiet'
      BY <1>6 DEF EmptyQuiet
    <2>4. CASE tim' = tim /\ cpu' = cpu
      <3>1. AlarmSet'
        BY <1>b, <1>0, <1>1, <1>2, <2>1, <2>4, SameAlarm
      <3>2. QED
        BY <1>1, <1>2, <1>3, <1>4, <2>2, <2>3, <3>1 DEF IInv
    <2>5. CASE /\ tim' = tim /\ Elapsed < FirstDelta'
               /\ cpu' = SetAlarm(lasttime + Elapsed + AtLeastDelta(FirstDelta' - Elapsed))
      <3>1. PICK y : y = AtLeastDelta(f - Elapsed)
        OBVIOUS
      <3>2. /\ y \in Nat /\ y < SYSTIME_VALUES /\ y >= 1 /\ y >= CH_CFG_ST_TIMEDELTA
            /\ Elapsed + y <= f + CH_CFG_ST_TIMEDELTA - 1
        <4>1. Elapsed < f
          BY <2>1, <2>5
        <4>2. QED
          BY <1>5, <2>1, <3>1, <4>1, RaisedAlarm
      <3>3. cpu' = SetAlarm(lasttime + Elapsed + y)
        BY <2>1, <2>5, <3>1, ZenonT(30)
      <3>4. cpu'.at = "set_alarm" /\ cpu'.time = Wrap(lasttime + Elapsed + y) /\ Writing'
        BY <3>3 DEF SetAlarm, Writing
      <3>5. Ahead(cpu.time)' = y
        <4>1. Ahead(Wrap(lasttime + Elapsed + y)) = y
          BY <1>b, <3>2, TypedTim, AlarmClock
        <4>2. QED
          BY <1>2, <3>4, <4>1, ZenonT(30) DEF Ahead
      <3>6. AlarmSet'
        BY <1>2, <1>5, <1>6, <2>1, <2>5, <3>2, <3>4, <3>5, NewAlarm
      <3>7. QED
        BY <1>1, <1>2, <1>3, <1>4, <2>2, <2>3, <3>6 DEF IInv
    <2>6. QED
      BY <1>0, <1>6, <2>4, <2>5, ZenonT(30)
  <1>7. CASE vtlist' = <<>>
    <2>1. Range(vtlist') = {}
      BY <1>7, NextFirstFacts
    <2>2. tim' = StopAlarm /\ cpu' = cpu
      <3>1. ~(k > 1)
        <4>1. 1 \in DOMAIN vtlist /\ k \in Nat
          BY <1>b, <1>1, TypedList
        <4>2. vtlist[1] \in Range(vtlist)
          BY <4>1 DEF Range
        <4>3. vtlist[1] = vtlist[k]
          BY <1>0, <1>1, <2>1, <4>2
        <4>4. k = 1
          BY <1>b, <4>1, <4>3, TypedList DEF IsInjective
        <4>5. QED
          BY <4>4
      <3>2. QED
        BY <1>0, <1>7, <3>1, ZenonT(30)
    <2>3. ~tim'.cc1ie /\ cpu'.at = "thread" /\ cpu'.at # "isr" /\ ~Writing'
      BY <1>b, <1>0, <2>2 DEF StopAlarm, TypeOK, Writing
    <2>4. AlarmSet'
      BY <1>2, <1>5, <1>7, <2>3, ZenonT(30) DEF AlarmSet
    <2>5. Periodic # {} \/ Elapsed - lag + MaxLag < HeaderDelta
      <3>1. CASE \A u \in Timer : Fits(u)
        <4>1. FirstDelta + MaxLate < HeaderDelta
          BY <1>a, <1>b, <1>1, <3>1, FitsFacts
        <4>2. QED
          BY <1>5, <4>1, Bounds, Constants
      <3>2. QED
        BY <3>1 DEF DelaysFit
    <2>6. EmptyQuiet'
      BY <1>2, <2>3, <2>5, ZenonT(30) DEF EmptyQuiet, HeaderDelta
    <2>7. InTime'
      BY <1>7 DEF InTime
    <2>8. QED
      BY <1>1, <1>2, <1>3, <1>4, <2>4, <2>6, <2>7, <2>1 DEF IInv
  <1>8. QED
    BY <1>6, <1>7

-----------------------------------------------------------------------------
(* The theorems that need DelaysFit *)

(* The invariant holds at first: no timer is armed, no interrupt pending. *)
LEMMA InitIInv == Init => IInv
  <1> SUFFICES ASSUME Init PROVE IInv
    OBVIOUS
  <1>1. TypeOK
    BY InitTypeOK
  <1>2. vtlist = <<>> /\ Range(vtlist) = {}
    BY <1>1, FirstFacts DEF Init
  <1>3. Elapsed = 0
    BY Constants DEF Init, Elapsed, Wrap
  <1>4. Reaches /\ InTime
    BY <1>2 DEF Reaches, InTime
  <1>5. AlarmSet /\ EmptyQuiet
    BY <1>2 DEF Init, AlarmSet, EmptyQuiet, Writing
  <1>6. PeriodicRecent
    BY <1>3, Bounds DEF PeriodicRecent
  <1>7. QED
    BY <1>1, <1>4, <1>5, <1>6 DEF IInv

(* Every step keeps it. *)
LEMMA NextIInv ==
  ASSUME DelaysFit, IInv, [Next]_vars
  PROVE  IInv'
  <1>0. TypeOK'
    BY NextTypeOK DEF IInv
  <1>1. CASE Tick
    BY <1>0, <1>1, TickIInv
  <1>2. CASE WriteAlarm
    BY <1>0, <1>2, WriteAlarmIInv
  <1>3. CASE EnterIsr
    BY <1>0, <1>3, EnterIsrIInv
  <1>4. CASE Fire
    BY <1>0, <1>4, FireIInv
  <1>5. CASE LeaveIsr
    BY <1>0, <1>5, LeaveIsrIInv
  <1>6. ASSUME NEW t \in Timer, SetTimer(t) PROVE IInv'
    <2>1. PICK d \in Delays[t] : chVTDoSetI(t, d)
      BY <1>6 DEF SetTimer
    <2>2. t \in Periodic \/ RecentExpiry
      BY <1>6 DEF SetTimer
    <2>3. QED
      BY <1>0, <2>1, <2>2, SetIInv
  <1>7. ASSUME NEW t \in Resettable, chVTDoResetI(t) PROVE IInv'
    BY <1>0, <1>7, ResetIInv
  <1>8. CASE UNCHANGED vars
    <2>1. UNCHANGED <<now, vtlist, vt_delta, lasttime, tim, latched, cpu, lag, slip>>
      BY <1>8 DEF vars
    <2>2. /\ FirstDelta' = FirstDelta /\ Reaches' /\ Range(vtlist') = Range(vtlist)
          /\ Elapsed' = Elapsed
      BY <2>1, SameList DEF Elapsed, IInv
    <2>3. InTime' /\ PeriodicRecent' /\ EmptyQuiet'
      BY <2>1, <2>2, ZenonT(30) DEF IInv, InTime, PeriodicRecent, EmptyQuiet, HeaderDelta
    <2>4. AlarmSet'
      BY <2>1, <2>2, ZenonT(30) DEF IInv, AlarmSet, Writing, Serves, Ahead
    <2>5. QED
      BY <1>0, <2>2, <2>3, <2>4 DEF IInv
  <1>9. QED
    BY <1>1, <1>2, <1>3, <1>4, <1>5, <1>6, <1>7, <1>8 DEF Next

(* chVTDoTickI never takes the header of the list for a timer that is due, *)
(* for every number of timers and every width of systime_t, as long as the *)
(* delays fit: the interrupt of a timer that is served late, or was reset  *)
(* meanwhile, comes before the time since lasttime reaches the header.     *)
THEOREM HeaderSafe ==
  ASSUME DelaysFit
  PROVE  SafeSpec => []HeaderNeverDue
  <1>1. Init => IInv
    BY InitIInv
  <1>2. IInv /\ [Next]_vars => IInv'
    BY NextIInv
  <1>3. IInv => HeaderNeverDue
    BY ElapsedSmall DEF HeaderNeverDue
  <1>4. QED
    BY <1>1, <1>2, <1>3, PTL DEF SafeSpec

-----------------------------------------------------------------------------
(* The promise of module Timers *)

(* The ticks left to a timer are those from now to its deadline. *)
LEMMA LeftFacts ==
  /\ Left = [u \in Range(vtlist) |-> Due(u) - Elapsed]
  /\ Left' = [u \in Range(vtlist') |-> Due(u)' - Elapsed']
  BY ZenonT(30) DEF Left, Position, Due, DistanceOf

(* At first no timer is armed. *)
LEMMA CountdownInit == Init => Countdown!Init
  <1> SUFFICES ASSUME Init PROVE Left = [t \in {} |-> 0]
    BY DEF Countdown!Init
  <1>1. Range(vtlist) = {}
    BY InitTypeOK, FirstFacts DEF Init
  <1>2. Left = [u \in {} |-> Due(u) - Elapsed]
    BY <1>1, LeftFacts
  <1>3. QED
    BY <1>2

(* A tick takes one from the time left to every timer, and comes in time. *)
LEMMA CountdownTick ==
  ASSUME IInv, DelaysFit, Tick, IInv'
  PROVE  Countdown!Tick
  <1>0. /\ TypeOK /\ UNCHANGED <<vtlist, vt_delta, lasttime>>
        /\ Range(vtlist') = Range(vtlist) /\ \A u : Due(u)' = Due(u)
        /\ FirstDelta' = FirstDelta
    <2>1. TypeOK /\ UNCHANGED <<vtlist, vt_delta, lasttime>>
      BY DEF IInv, Tick
    <2>2. QED
      BY <2>1, SameList
  <1>1. ASSUME NEW u \in Range(vtlist)
        PROVE  Due(u) - Elapsed > -MaxLate /\ Due(u)' - Elapsed' = Due(u) - Elapsed - 1
    <2>1. /\ vtlist # <<>> /\ Due(u) \in Nat /\ FirstDelta \in Nat /\ FirstDelta <= Due(u)
          /\ Elapsed \in Nat
      BY <1>0, FirstFacts, TypedTim
    <2>2. Elapsed < HeaderDelta
      BY <2>1, ElapsedSmall
    <2>3. Elapsed' = Elapsed + 1
      BY <1>0, <2>2, TypedTim, TickClock DEF Tick
    <2>4. PICK l \in Nat : l = lag' /\ l <= MaxLag
      BY Constants DEF IInv, TypeOK
    <2>5. Elapsed + 1 <= FirstDelta + CH_CFG_ST_TIMEDELTA - 1 + l
      <3>1. Elapsed' <= FirstDelta' + CH_CFG_ST_TIMEDELTA - 1 + lag'
        BY <1>0, <2>1 DEF IInv, InTime
      <3>2. QED
        BY <1>0, <2>3, <2>4, <3>1, ZenonT(30)
    <2>6. Due(u) - Elapsed > -MaxLate
      <3>1. l <= MaxLag
        BY <2>4, ZenonT(30)
      <3>2. QED
        BY <2>1, <2>5, <3>1, Bounds, Constants
    <2>7. Due(u) - (Elapsed + 1) = Due(u) - Elapsed - 1
      BY <2>1
    <2>8. QED
      BY <1>0, <2>3, <2>6, <2>7, ZenonT(30)
  <1>2. Left' = [u \in Range(vtlist) |-> Due(u) - Elapsed - 1]
    BY <1>0, <1>1, LeftFacts
  <1>3. /\ DOMAIN Left = Range(vtlist)
        /\ \A u \in Range(vtlist) : Left[u] = Due(u) - Elapsed
    BY LeftFacts
  <1>4. Left' = [u \in DOMAIN Left |-> Left[u] - 1]
    BY <1>2, <1>3
  <1>5. \A u \in DOMAIN Left : Left[u] > -MaxLate
    BY <1>1, <1>3
  <1>6. QED
    BY <1>4, <1>5 DEF Countdown!Tick, Countdown!Armed

(* The timer whose callback is called has run out and was the first. *)
LEMMA CountdownFire ==
  ASSUME IInv, DelaysFit, Fire, IInv'
  PROVE  \E t \in Timer : Countdown!Fire(t)
  <1>0. TypeOK /\ TypeOK' /\ vtlist # <<>> /\ FirstDelta <= Elapsed
    BY DEF IInv, Fire
  <1>1. PICK t \in Range(vtlist) :
          /\ t \in Timer /\ FirstDelta = Due(t)
          /\ Range(vtlist') = Range(vtlist) \ {t}
          /\ \A u \in Range(vtlist') : Due(u)' = Due(u) - FirstDelta
    <2>1. /\ Head(vtlist) \in Range(vtlist)
          /\ Range(vtlist') = Range(vtlist) \ {Head(vtlist)}
          /\ \A u \in Range(vtlist') : Due(u)' = Due(u) - FirstDelta
      BY <1>0, ExpiryStep, ZenonT(30) DEF Fire
    <2>2. Head(vtlist) \in Timer /\ FirstDelta = Due(Head(vtlist))
      BY <1>0, <2>1, FirstFacts
    <2>3. QED
      BY <2>1, <2>2, ZenonT(30)
  <1>2. /\ Elapsed' = Elapsed - FirstDelta /\ Elapsed \in Nat /\ FirstDelta \in Nat
        /\ \A u \in Range(vtlist) : Due(u) \in Nat /\ FirstDelta <= Due(u)
    BY <1>0, FireIInv, FirstFacts, TypedTim
  <1>3. /\ DOMAIN Left = Range(vtlist)
        /\ \A u \in Range(vtlist) : Left[u] = Due(u) - Elapsed
    BY LeftFacts
  <1>4. ASSUME NEW u \in Range(vtlist) \ {t} PROVE Due(u)' - Elapsed' = Left[u]
    <2>1. (Due(u) - FirstDelta) - (Elapsed - FirstDelta) = Due(u) - Elapsed
      BY <1>2
    <2>2. Due(u)' = Due(u) - FirstDelta
      BY <1>1
    <2>3. QED
      BY <1>2, <1>3, <2>1, <2>2, ZenonT(30)
  <1>5. Left' = [u \in Range(vtlist) \ {t} |-> Left[u]]
    BY <1>1, <1>4, LeftFacts
  <1>6. Left[t] <= 0 /\ \A u \in Range(vtlist) : Left[t] <= Left[u]
    <2>1. Left[t] = FirstDelta - Elapsed
      BY <1>1, <1>3
    <2>2. \A u \in Range(vtlist) : FirstDelta - Elapsed <= Due(u) - Elapsed
      BY <1>2
    <2>3. FirstDelta - Elapsed <= 0
      BY <1>0, <1>2
    <2>4. QED
      BY <1>3, <2>1, <2>2, <2>3, ZenonT(30)
  <1>7. Countdown!Fire(t)
    BY <1>1, <1>3, <1>5, <1>6 DEF Countdown!Fire, Countdown!Armed, Countdown!Restrict
  <1>8. QED
    BY <1>1, <1>7

(* A timer that is set has its delay left, the others what they had. *)
LEMMA CountdownSet ==
  ASSUME IInv, DelaysFit, NEW t \in Timer, SetTimer(t), IInv'
  PROVE  Countdown!Set(t)
  <1>1. PICK d \in Delays[t] : chVTDoSetI(t, d)
    BY DEF SetTimer
  <1>2. PICK a \in CH_CFG_ST_TIMEDELTA..(SYSTIME_VALUES - 2) : a = AtLeastDelta(d)
    BY DelayFacts, Constants
  <1>3. /\ t \notin Range(vtlist) /\ Range(vtlist') = Range(vtlist) \cup {t}
        /\ Elapsed' \in Nat /\ Due(t)' = Elapsed' + a
        /\ \A u \in Range(vtlist) : Due(u)' = Due(u) /\ Elapsed' = Elapsed
    <2>1. t \in Periodic \/ RecentExpiry
      BY DEF SetTimer
    <2>2. TypeOK'
      BY DEF IInv
    <2>3. QED
      BY <1>1, <1>2, <2>1, <2>2, SetIInv, ZenonT(30)
  <1>4. /\ DOMAIN Left = Range(vtlist)
        /\ \A u \in Range(vtlist) : Left[u] = Due(u) - Elapsed
    BY LeftFacts
  <1>5. Due(t)' - Elapsed' = a
    <2>1. PICK e \in Nat : e = Elapsed'
      BY <1>3
    <2>2. (e + a) - e = a
      BY Constants
    <2>3. QED
      BY <1>3, <2>1, <2>2, ZenonT(30)
  <1>6. \A u \in Range(vtlist) : Due(u)' - Elapsed' = Left[u]
    BY <1>3, <1>4, ZenonT(30)
  <1>7. Left' = [u \in Range(vtlist) \cup {t} |-> IF u = t THEN a ELSE Left[u]]
    <2>1. Left' = [u \in Range(vtlist) \cup {t} |-> Due(u)' - Elapsed']
      BY <1>3, LeftFacts
    <2>2. \A u \in Range(vtlist) \cup {t} :
            Due(u)' - Elapsed' = IF u = t THEN a ELSE Left[u]
      BY <1>3, <1>5, <1>6, ZenonT(30)
    <2>3. QED
      BY <2>1, <2>2
  <1>8. QED
    BY <1>2, <1>3, <1>4, <1>7 DEF Countdown!Set, Countdown!Armed

(* A timer that is reset is gone, and the others have left what they had. *)
LEMMA CountdownReset ==
  ASSUME IInv, DelaysFit, NEW t \in Resettable, chVTDoResetI(t), IInv'
  PROVE  t \in Timer /\ Countdown!Reset(t)
  <1>1. /\ t \in Range(vtlist) /\ Range(vtlist') = Range(vtlist) \ {t}
        /\ Elapsed' = Elapsed
        /\ \A u \in Range(vtlist) \ {t} : Due(u)' = Due(u)
    BY ResetIInv DEF IInv
  <1>2. /\ DOMAIN Left = Range(vtlist)
        /\ \A u \in Range(vtlist) : Left[u] = Due(u) - Elapsed
    BY LeftFacts
  <1>3. \A u \in Range(vtlist) \ {t} : Due(u)' - Elapsed' = Left[u]
    BY <1>1, <1>2, ZenonT(30)
  <1>4. Left' = [u \in Range(vtlist) \ {t} |-> Left[u]]
    BY <1>1, <1>3, LeftFacts
  <1>5. t \in Timer
    BY VirtualTimersAssumption
  <1>6. QED
    BY <1>1, <1>2, <1>4, <1>5 DEF Countdown!Reset, Countdown!Armed, Countdown!Restrict

(* A step that changes neither the list nor the times changes nothing of   *)
(* what is left.                                                           *)
LEMMA CountdownSame ==
  ASSUME UNCHANGED <<now, vtlist, vt_delta, lasttime>>
  PROVE  Left' = Left
  <1>1. /\ vtlist' = vtlist /\ vt_delta' = vt_delta /\ now' = now /\ lasttime' = lasttime
    OBVIOUS
  <1>2. Range(vtlist') = Range(vtlist) /\ Elapsed' = Elapsed /\ \A u : Due(u)' = Due(u)
    BY <1>1, SameList DEF Elapsed
  <1>3. QED
    BY <1>2, LeftFacts

(* Every step of the code is a step of the promise or leaves it alone. *)
LEMMA CountdownNext ==
  ASSUME DelaysFit, IInv, [Next]_vars, IInv'
  PROVE  [Countdown!Next]_Left
  <1>1. CASE Tick
    BY <1>1, CountdownTick DEF Countdown!Next
  <1>2. CASE WriteAlarm
    BY <1>2, CountdownSame DEF WriteAlarm
  <1>3. CASE EnterIsr
    BY <1>3, CountdownSame DEF EnterIsr
  <1>4. CASE Fire
    BY <1>4, CountdownFire DEF Countdown!Next
  <1>5. CASE LeaveIsr
    BY <1>5, CountdownSame DEF LeaveIsr
  <1>6. ASSUME NEW t \in Timer, SetTimer(t) PROVE Countdown!Next
    BY <1>6, CountdownSet DEF Countdown!Next
  <1>7. ASSUME NEW t \in Resettable, chVTDoResetI(t) PROVE Countdown!Next
    BY <1>7, CountdownReset DEF Countdown!Next
  <1>8. CASE UNCHANGED vars
    BY <1>8, CountdownSame DEF vars
  <1>9. QED
    BY <1>1, <1>2, <1>3, <1>4, <1>5, <1>6, <1>7, <1>8 DEF Next

(* The delta list, the alarm and the handler together keep the promise of  *)
(* module Timers, for every number of timers and every width of systime_t, *)
(* as long as the delays fit: no timer moves another, no callback comes    *)
(* early, out of order or more than MaxLate ticks late.                    *)
THEOREM TimersImplemented ==
  ASSUME DelaysFit
  PROVE  SafeSpec => ImplementsTimers
  <1>1. Init => IInv /\ Countdown!Init
    BY InitIInv, CountdownInit
  <1>2. IInv /\ [Next]_vars => IInv' /\ [Countdown!Next]_Left
    BY NextIInv, CountdownNext
  <1>3. QED
    BY <1>1, <1>2, PTL DEF SafeSpec, ImplementsTimers, Countdown!Spec
=============================================================================
