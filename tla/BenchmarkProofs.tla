--------------------------- MODULE BenchmarkProofs ---------------------------
(***************************************************************************)
(* The time a sample and a calibration stand for, what a row's summary     *)
(* withstands, and the ratios published of several passes: for counters of *)
(* any width, cores any ticks apart, windows that open wherever the        *)
(* counter stands, any stalls shorter than the counter takes to come       *)
(* round, and any command lines, schedule and number of passes.            *)
(***************************************************************************)
EXTENDS Benchmark, StatsProofs

Ticks == 0 .. (TscMod - 1)

\* The window open now was opened u ticks ago.
Opened(u) ==
    \E s \in Ticks : start = Reading(CounterAt(s)) /\ now = (s + u) % TscMod

\* How long the thread can have been held up so far.
Held == disturbed * MaxStall

Typed ==
    /\ "modes" \in DOMAIN cfg /\ cfg.modes \subseteq CacheModes
    /\ core \in Cores
    /\ now \in Ticks
    /\ start \in [hi : Nat, lo : Nat]
    /\ disturbed \in 0 .. MaxDisturb
    /\ calib \in [ns : Int, ticks : Int, edge : Int]

CellInv == pc \in {"start", "call", "row"} => cell \in 0 .. Len(Plan)

\* The samples are empty wherever main_impl may yet pin itself.
SamplesInv ==
    /\ pc \notin {"start", "call", "row", "exit"} => samples = <<>> /\ truth = <<>>
    /\ pc = "exit" /\ status = 0 => samples = <<>> /\ truth = <<>>
    /\ pinned => samples = truth

WindowInv ==
    pc = "call" =>
        /\ lapse \in 0 .. Held
        /\ pinned => Opened(lapse)

\* Before the loop has ended, the stamp is lapse + edge ticks old; then, ns + edge.
CalibInv ==
    /\ pc \in {"parse", "pin", "gate", "calibrate", "calib_start", "spin", "calib_stop"}
          => calib.ticks = 0
    /\ pc = "calib_start" => lapse \in 0 .. Held /\ lapse + calib.edge = 0
    /\ pc = "spin" =>
          /\ lapse \in 0 .. (CalibTicks + Held)
          /\ lapse < CalibTicks + Held
          /\ lapse + calib.edge \in 0 .. lapse
          /\ pinned => Opened(lapse + calib.edge)
    /\ pc = "calib_stop" =>
          /\ lapse \in 0 .. (CalibTicks + Held)
          /\ calib.ns + calib.edge \in 0 .. lapse
          /\ pinned => Opened(calib.ns + calib.edge)
    /\ CalibrationError

IInv == Typed /\ CellInv /\ SamplesInv /\ WindowInv /\ CalibInv
-----------------------------------------------------------------------------
(* Unsigned arithmetic.                                                     *)

LEMMA ModIs ==
    ASSUME NEW m \in Nat \ {0}, NEW y \in Int, NEW r \in 0 .. (m - 1), NEW q \in Int,
           y = q * m + r
    PROVE  y % m = r
OBVIOUS

\* Sums and differences of two values of the counter wrap at most once.
LEMMA Once ==
    ASSUME NEW m \in Nat \ {0}, NEW y \in Int, -m <= y, y < 2 * m
    PROVE  y % m = IF y < 0 THEN y + m ELSE IF y < m THEN y ELSE y - m
<1>1. CASE y < 0
  <2>1. y = (-1) * m + (y + m) /\ y + m \in 0 .. (m - 1)
    BY <1>1
  <2>. QED
    BY <1>1, <2>1, ModIs
<1>2. CASE y >= 0 /\ y < m
  <2>1. y = 0 * m + y /\ y \in 0 .. (m - 1)
    BY <1>2
  <2>. QED
    BY <1>2, <2>1, ModIs
<1>3. CASE y >= m
  <2>1. y = 1 * m + (y - m) /\ y - m \in 0 .. (m - 1)
    BY <1>3
  <2>. QED
    BY <1>3, <2>1, ModIs
<1>. QED
  BY <1>1, <1>2, <1>3

LEMMA Small ==
    ASSUME NEW m \in Nat \ {0}, NEW y \in 0 .. (m - 1)
    PROVE  y % m = y
OBVIOUS

LEMMA OnceSum ==
    ASSUME NEW m \in Nat \ {0}, NEW x \in 0 .. (m - 1), NEW y \in 0 .. (m - 1)
    PROVE  (x + y) % m = IF x + y < m THEN x + y ELSE x + y - m
<1>. DEFINE z == x + y
<1>1. z \in Int /\ -m <= z /\ z < 2 * m /\ z >= 0
  OBVIOUS
<1>. HIDE DEF z
<1>2. \A w \in Int : -m <= w /\ w < 2 * m =>
          w % m = IF w < 0 THEN w + m ELSE IF w < m THEN w ELSE w - m
  BY Once
<1>3. z % m = IF z < m THEN z ELSE z - m
  BY <1>1, <1>2
<1>. QED
  BY <1>3 DEF z

LEMMA WidthsTyped == HalfMod \in Nat \ {0} /\ TscMod \in Nat \ {0}
BY BenchmarkAssumption DEF TscMod

\* The two halves, kept apart, are put together again.
LEMMA Assembled ==
    ASSUME NEW c \in Ticks
    PROVE  Assemble(Reading(c)) = c
<1>1. c \in Nat /\ HalfMod \in Nat \ {0}
  BY WidthsTyped DEF Ticks
<1>2. c = (c \div HalfMod) * HalfMod + (c % HalfMod)
  BY <1>1
<1>. QED
  BY <1>2 DEF Assemble, Reading

LEMMA ReadingTyped ==
    ASSUME NEW c \in Ticks
    PROVE  Reading(c) \in [hi : Nat, lo : Nat]
<1>1. c \in Nat /\ HalfMod \in Nat \ {0}
  BY WidthsTyped DEF Ticks
<1>2. c \div HalfMod \in Nat /\ c % HalfMod \in Nat
  BY <1>1
<1>. QED
  BY <1>2 DEF Reading

LEMMA CounterTyped ==
    ASSUME core \in Cores, NEW t \in Ticks
    PROVE  CounterAt(t) \in Ticks
<1>1. Offset[core] \in Ticks /\ TscMod \in Nat \ {0}
  BY WidthsTyped, BenchmarkAssumption DEF Ticks
<1>2. t \in 0 .. (TscMod - 1)
  BY DEF Ticks
<1>. DEFINE m == TscMod
            o == Offset[core]
<1>3. m \in Nat \ {0} /\ o \in 0 .. (m - 1) /\ t \in 0 .. (m - 1)
  BY <1>1, <1>2 DEF Ticks
<1>4. CounterAt(t) = (t + o) % m
  BY DEF CounterAt
<1>. HIDE DEF m, o
<1>5. (t + o) % m \in 0 .. (m - 1)
  BY <1>3, OnceSum
<1>. QED
  BY <1>4, <1>5 DEF m, Ticks

\* A stamp taken u ticks later, on the same core, is worth u ticks, wherever the
\* counter stood and whichever half, or the whole of it, came round.
LEMMA Worth ==
    ASSUME core \in Cores, NEW s \in Ticks, NEW u \in Ticks
    PROVE  ElapsedTo(Reading(CounterAt(s)), CounterAt((s + u) % TscMod)) = u
<1>. DEFINE m == TscMod
            o == Offset[core]
            c == CounterAt(s)
            n == (s + u) % m
            d == CounterAt(n)
<1>2. m \in Nat \ {0} /\ o \in 0 .. (m - 1) /\ s \in 0 .. (m - 1) /\ u \in 0 .. (m - 1)
  BY WidthsTyped, BenchmarkAssumption DEF Ticks
<1>3. c \in Ticks /\ Assemble(Reading(c)) = c
  BY CounterTyped, Assembled
<1>4. c = (s + o) % m /\ d = (n + o) % m /\ n = (s + u) % m
  BY DEF CounterAt
<1>. HIDE DEF m, o, c, d, n
<1>5. \A x, y \in 0 .. (m - 1) : (x + y) % m = IF x + y < m THEN x + y ELSE x + y - m
  BY <1>2, OnceSum
<1>6. c = IF s + o < m THEN s + o ELSE s + o - m
  BY <1>2, <1>4, <1>5
<1>7. n = IF s + u < m THEN s + u ELSE s + u - m
  BY <1>2, <1>4, <1>5
<1>8. n \in 0 .. (m - 1)
  BY <1>2, <1>7
<1>9. d = IF n + o < m THEN n + o ELSE n + o - m
  BY <1>2, <1>4, <1>8, <1>5
<1>10. d - c = u \/ d - c = u - m
  BY <1>2, <1>6, <1>7, <1>9
<1>11. (d - c) % m = u
  BY <1>2, <1>10, Once
<1>. QED
  BY <1>3, <1>11 DEF ElapsedTo, m, n, c, d

\* d ticks pass.
LEMMA Passing ==
    ASSUME NEW s \in Ticks, NEW u \in Nat, NEW d \in Nat, u + d \in Ticks
    PROVE  (((s + u) % TscMod) + d) % TscMod = (s + (u + d)) % TscMod
<1>. DEFINE m == TscMod
            n == (s + u) % m
<1>2. m \in Nat \ {0} /\ s \in 0 .. (m - 1) /\ u \in 0 .. (m - 1) /\ d \in 0 .. (m - 1)
      /\ u + d \in 0 .. (m - 1)
  BY WidthsTyped DEF Ticks
<1>3. n = (s + u) % m
  OBVIOUS
<1>. HIDE DEF m, n
<1>4. \A x, y \in 0 .. (m - 1) : (x + y) % m = IF x + y < m THEN x + y ELSE x + y - m
  BY <1>2, OnceSum
<1>5. n = IF s + u < m THEN s + u ELSE s + u - m
  BY <1>2, <1>3, <1>4
<1>6. n \in 0 .. (m - 1)
  BY <1>2, <1>5
<1>7. (n + d) % m = IF n + d < m THEN n + d ELSE n + d - m
  BY <1>2, <1>6, <1>4
<1>8. (s + (u + d)) % m = IF s + (u + d) < m THEN s + (u + d) ELSE s + (u + d) - m
  BY <1>2, <1>4
<1>9. (n + d) % m = (s + (u + d)) % m
  BY <1>2, <1>5, <1>7, <1>8
<1>. QED
  BY <1>9 DEF m, n

LEMMA Pass ==
    ASSUME NEW u \in Nat, NEW d \in Nat, u + d \in Ticks, Opened(u),
           UNCHANGED <<core, start>>, now' = (now + d) % TscMod
    PROVE  Opened(u + d)'
<1>1. PICK s \in Ticks : start = Reading(CounterAt(s)) /\ now = (s + u) % TscMod
  BY DEF Opened
<1>2. now' = (s + (u + d)) % TscMod
  BY <1>1, Passing
<1>3. start' = Reading(CounterAt(s))'
  BY <1>1 DEF Reading, CounterAt
<1>. QED
  BY <1>2, <1>3 DEF Opened, Ticks, TscMod

\* A stamp is taken.
LEMMA Stamp ==
    ASSUME NEW t \in Ticks, now' = t, start' = Reading(CounterAt(t)), core' = core
    PROVE  Opened(0)'
<1>1. TscMod \in Nat \ {0} /\ t \in 0 .. (TscMod - 1)
  BY WidthsTyped DEF Ticks
<1>2. (t + 0) % TscMod = t
  <2>. DEFINE m == TscMod
  <2>1. m \in Nat \ {0} /\ t \in 0 .. (m - 1)
    BY <1>1
  <2>. HIDE DEF m
  <2>2. t % m = t
    BY <2>1, Small
  <2>. QED
    BY <1>1, <2>2 DEF m
<1>3. start' = Reading(CounterAt(t)')
  BY DEF Reading, CounterAt
<1>. QED
  BY <1>1, <1>2, <1>3 DEF Opened, Ticks, TscMod
-----------------------------------------------------------------------------
(* The bounds.                                                              *)

LEMMA HeldTyped ==
    ASSUME disturbed \in 0 .. MaxDisturb
    PROVE  /\ Held \in 0 .. (MaxDisturb * MaxStall)
           /\ MaxDisturb * MaxStall \in Nat
<1>. DEFINE a == disturbed
            b == MaxDisturb
            l == MaxStall
<1>1. a \in Nat /\ b \in Nat /\ l \in Nat /\ b - a \in Nat
  BY BenchmarkAssumption
<1>. HIDE DEF a, b, l
<1>2. a * l \in Nat /\ b * l \in Nat /\ (b - a) * l \in Nat
  BY <1>1
<1>3. b * l = a * l + (b - a) * l
  BY <1>1
<1>4. a * l \in 0 .. (b * l)
  BY <1>2, <1>3
<1>. QED
  BY <1>2, <1>4 DEF Held, a, b, l

LEMMA HeldGrows ==
    ASSUME disturbed \in 0 .. MaxDisturb, disturbed < MaxDisturb,
           NEW d \in Stalls, disturbed' = disturbed + 1
    PROVE  Held \in Nat /\ Held' \in Nat /\ d \in Nat /\ Held + d <= Held'
<1>. DEFINE a == disturbed
            l == MaxStall
<1>1. a \in Nat /\ l \in Nat /\ d \in 1 .. l
  BY BenchmarkAssumption
<1>2. Held' = (a + 1) * l /\ Held = a * l
  BY DEF Held
<1>. HIDE DEF a, l
<1>3. (a + 1) * l = a * l + l /\ a * l \in Nat
  BY <1>1
<1>. QED
  BY <1>1, <1>2, <1>3

LEMMA TicksPass ==
    ASSUME now \in Ticks, NEW d \in Nat
    PROVE  (now + d) % TscMod \in Ticks
<1>1. TscMod \in Nat \ {0} /\ now + d \in Nat
  BY WidthsTyped DEF Ticks
<1>2. \A x \in Nat, m \in Nat \ {0} : x % m \in 0 .. (m - 1)
  OBVIOUS
<1>. QED
  BY <1>1, <1>2 DEF Ticks

LEMMA ModesTyped == Modes \in Seq(CacheModes)
<1>1. \A m \in CacheModes : IfAsked(m) \in Seq(CacheModes)
  BY DEF IfAsked
<1>2. \A a, b \in Seq(CacheModes) : a \o b \in Seq(CacheModes)
  OBVIOUS
<1>3. /\ IfAsked("warm") \in Seq(CacheModes) /\ IfAsked("clflush") \in Seq(CacheModes)
      /\ IfAsked("sweep") \in Seq(CacheModes)
  BY <1>1 DEF CacheModes
<1>. HIDE DEF CacheModes
<1>4. Modes \in Seq(CacheModes)
  BY <1>2, <1>3 DEF Modes
<1>. QED
  BY <1>4

\* A cell of the plan has a variant of the schedule and a mode.
LEMMA PlanAt ==
    ASSUME cfg.modes \subseteq CacheModes, NEW c \in 1 .. Len(Plan)
    PROVE  /\ \E r \in 1 .. Len(Schedule) : Plan[c].v = Schedule[r]
           /\ Plan[c].mode \in CacheModes
<1>. DEFINE s == Len(Schedule)
            q == (c - 1) \div s
            r == (c - 1) % s
<1>1. Modes \in Seq(CacheModes) /\ Len(Modes) \in Nat
  BY ModesTyped
<1>2. s \in Nat
  BY BenchmarkAssumption
<1>3. c \in 1 .. (Len(Modes) * s) /\ Len(Modes) * s \in Nat
  <2>1. Len(Modes) * s \in Nat
    BY <1>1, <1>2
  <2>2. Len(Plan) = Len(Modes) * s
    BY <2>1 DEF Plan
  <2>. QED
    BY <2>1, <2>2
<1>4. Plan[c] = [mode |-> Modes[q + 1], v |-> Schedule[r + 1]]
  BY <1>3 DEF Plan
<1>. HIDE DEF s, q, r
<1>5. s \in Nat \ {0}
  <2>1. s # 0
    <3>. SUFFICES ASSUME s = 0 PROVE FALSE
      OBVIOUS
    <3>1. Len(Modes) * s = 0
      BY <1>1
    <3>. QED
      BY <1>3, <3>1
  <2>. QED
    BY <1>2, <2>1
<1>6. c - 1 = q * s + r /\ q \in Nat /\ r \in 0 .. (s - 1)
  <2>1. \A x \in Nat, m \in Nat \ {0} :
            x = (x \div m) * m + (x % m) /\ x \div m \in Nat /\ x % m \in 0 .. (m - 1)
    OBVIOUS
  <2>. DEFINE x == c - 1
  <2>2. x \in Nat
    BY <1>3
  <2>3. q = x \div s /\ r = x % s
    BY DEF q, r
  <2>. HIDE DEF x
  <2>4. x = q * s + r /\ q \in Nat /\ r \in 0 .. (s - 1)
    BY <1>5, <2>1, <2>2, <2>3
  <2>. QED
    BY <2>4 DEF x
<1>7. q < Len(Modes)
  <2>. DEFINE n == Len(Modes)
  <2>1. n \in Nat
    BY <1>1
  <2>. HIDE DEF n
  <2>2. q * s < n * s
    BY <1>3, <1>5, <1>6, <2>1 DEF n
  <2>3. ~(q >= n)
    <3>. SUFFICES ASSUME q >= n PROVE FALSE
      OBVIOUS
    <3>1. q - n \in Nat /\ (q - n) * s \in Nat /\ q * s = (q - n) * s + n * s
      BY <1>5, <1>6, <2>1
    <3>. QED
      BY <1>5, <1>6, <2>1, <2>2, <3>1
  <2>. QED
    BY <1>6, <2>1, <2>3 DEF n
<1>8. Modes[q + 1] \in CacheModes
  BY <1>1, <1>6, <1>7
<1>9. r + 1 \in 1 .. Len(Schedule)
  BY <1>5, <1>6 DEF s
<1>. QED
  BY <1>4, <1>8, <1>9

\* A cell is the noise floor or one of the plan.
LEMMA WorkFits ==
    ASSUME cfg.modes \subseteq CacheModes, cell \in 0 .. Len(Plan)
    PROVE  WorkAt(cell) \in Nat /\ Fits(WorkAt(cell))
<1>1. CASE cell = 0
  BY <1>1, BenchmarkAssumption, WindowAssumption DEF WorkAt
<1>2. CASE cell # 0
  <2>1. cell \in 1 .. Len(Plan)
    BY <1>2
  <2>2. /\ \E r \in 1 .. Len(Schedule) : Plan[cell].v = Schedule[r]
        /\ Plan[cell].mode \in CacheModes
    BY <2>1, PlanAt
  <2>. QED
    BY <1>2, <2>2, WindowAssumption DEF WorkAt
<1>. QED
  BY <1>1, <1>2
-----------------------------------------------------------------------------
(* The invariant.                                                           *)

LEMMA PlanTyped ==
    ASSUME cfg.modes \subseteq CacheModes
    PROVE  Len(Plan) \in Nat
<1>1. Modes \in Seq(CacheModes)
  BY ModesTyped
<1>2. Len(Modes) * Len(Schedule) \in Nat
  BY <1>1, BenchmarkAssumption
<1>. QED
  BY <1>2 DEF Plan

LEMMA SamePlan ==
    ASSUME cfg' = cfg
    PROVE  Plan' = Plan
BY DEF Plan, Modes, IfAsked

LEMMA InitIInv == Init => IInv
<1>. SUFFICES ASSUME Init PROVE IInv
  OBVIOUS
<1>1. 0 \in Ticks /\ 0 \in 0 .. MaxDisturb
  BY WidthsTyped, BenchmarkAssumption DEF Ticks
<1>2. Reading(0) \in [hi : Nat, lo : Nat]
  BY <1>1, ReadingTyped
<1>. QED
  BY <1>1, <1>2 DEF Init, DefaultConfig, IInv, Typed, CellInv, SamplesInv, WindowInv, CalibInv,
     CalibrationError

\* What the command line does.
LEMMA ParseStep ==
    ASSUME IInv, ParseOption \/ ParseEnd \/ Pin \/ Verify
    PROVE  IInv'
<1>1. ASSUME ParseOption PROVE cfg'.modes \subseteq CacheModes /\ "modes" \in DOMAIN cfg'
  <2>1. \A opt \in TakesValue : \A val :
            /\ "modes" \in DOMAIN WithValue(cfg, opt, val)
            /\ WithValue(cfg, opt, val).modes \subseteq CacheModes
    BY DEF TakesValue, WithValue, IInv, Typed
  <2>. QED
    BY <1>1, <2>1 DEF ParseOption, IInv, Typed
<1>2. /\ UNCHANGED <<now, start, lapse, calib, samples, truth, disturbed>>
      /\ pc \in {"parse", "pin", "gate"}
      /\ pc' \in {"parse", "pin", "gate", "calibrate", "exit"}
      /\ cfg'.modes \subseteq CacheModes /\ "modes" \in DOMAIN cfg'
      /\ core' \in Cores
  BY <1>1 DEF ParseOption, ParseEnd, Pin, Verify, Exit, clock, results, IInv, Typed
<1>. QED
  BY <1>2 DEF IInv, Typed, CellInv, SamplesInv, WindowInv, CalibInv, CalibrationError

LEMMA CalibrateStep ==
    ASSUME IInv, CalibrateStart \/ CalibrateStamp \/ Spin \/ CalibrateEnd
    PROVE  IInv'
<1>. USE DEF results, clock
<1>1. /\ Held \in Nat
      /\ TscMod \in Nat \ {0}
      /\ \A u \in 0 .. (CalibTicks + Held) : u \in Ticks
      /\ CalibTicks \in Nat \ {0}
  <2>1. /\ Held \in 0 .. (MaxDisturb * MaxStall) /\ MaxDisturb * MaxStall \in Nat
        /\ CalibTicks \in Nat \ {0} /\ CalibTicks + MaxDisturb * MaxStall < TscMod
        /\ TscMod \in Nat \ {0}
    BY HeldTyped, WindowAssumption, BenchmarkAssumption, WidthsTyped DEF IInv, Typed, Fits
  <2>. DEFINE l == MaxDisturb * MaxStall
              h == Held
              m == TscMod
  <2>2. h \in 0 .. l /\ l \in Nat /\ CalibTicks \in Nat \ {0} /\ CalibTicks + l < m /\ m \in Nat \ {0}
    BY <2>1
  <2>. HIDE DEF l, h, m
  <2>3. \A u \in 0 .. (CalibTicks + h) : u \in 0 .. (m - 1)
    BY <2>2
  <2>. QED
    BY <2>2, <2>3 DEF h, m, Ticks
<1>2. CASE CalibrateStart
  <2>1. now' \in Ticks
    BY <1>2, BenchmarkAssumption DEF CalibrateStart, Ticks
  <2>2. Held' = Held
    BY <1>2 DEF CalibrateStart, Held
  <2>3. /\ pc = "calibrate" /\ pc' = "calib_start" /\ lapse' = 0
        /\ calib' = [ns |-> 0, ticks |-> 0, edge |-> 0]
        /\ UNCHANGED <<cfg, core, start, pinned, disturbed, samples, truth>>
    BY <1>2 DEF CalibrateStart
  <2>6. calib'.ticks = 0 /\ lapse' + calib'.edge = 0 /\ lapse' \in 0 .. Held'
    <3>1. calib'.ticks = 0 /\ calib'.edge = 0 /\ lapse' = 0
      BY <2>3
    <3>2. 0 \in 0 .. Held
      BY <1>1
    <3>. QED
      BY <2>2, <3>1, <3>2
  <2>4. CalibInv'
    BY <2>3, <2>6 DEF CalibInv, CalibrationError
  <2>5. Typed'
    BY <2>1, <2>3 DEF IInv, Typed
  <2>. QED
    BY <2>3, <2>4, <2>5 DEF IInv, CellInv, SamplesInv, WindowInv
<1>3. CASE CalibrateStamp
  <2>1. Held' = Held
    BY <1>3 DEF CalibrateStamp, Held
  <2>6. PICK t \in Ticks : now = t
    BY DEF IInv, Typed
  <2>7. start' = Reading(CounterAt(t)) /\ now' = t /\ core' = core
    BY <1>3, <2>6 DEF CalibrateStamp
  <2>2. Opened(0)'
    BY <2>7, Stamp
  <2>8. start' \in [hi : Nat, lo : Nat]
    BY <2>7, CounterTyped, ReadingTyped DEF IInv, Typed
  <2>3. lapse' \in 0 .. Held /\ lapse' + calib'.edge = 0 /\ calib' = calib /\ pc' = "spin"
    BY <1>1, <1>3 DEF CalibrateStamp, IInv, Typed, CalibInv
  <2>4. Opened(lapse + calib.edge)'
    BY <2>2, <2>3 DEF Opened
  <2>5. CalibInv'
    BY <1>1, <1>3, <2>1, <2>3, <2>4 DEF CalibrateStamp, IInv, CalibInv, CalibrationError
  <2>. QED
    BY <1>3, <2>5, <2>8
       DEF CalibrateStamp, IInv, Typed, CellInv, SamplesInv, WindowInv
<1>4. CASE Spin
  <2>1. Held' = Held
    BY <1>4 DEF Spin, Held
  <2>. DEFINE u == lapse + calib.edge
  <2>2. /\ lapse \in 0 .. (CalibTicks + Held) /\ lapse < CalibTicks + Held
        /\ u \in 0 .. lapse /\ calib \in [ns : Int, ticks : Int, edge : Int]
        /\ calib.ticks = 0
        /\ pinned => Opened(u)
    BY <1>4 DEF Spin, IInv, Typed, CalibInv
  <2>3. /\ lapse' = lapse + 1 /\ calib' = [calib EXCEPT !.ns = lapse + 1]
        /\ pc' \in {"spin", "calib_stop"}
        /\ pc' = "spin" => lapse' < CalibTicks
        /\ UNCHANGED <<core, start, pinned, disturbed, cfg, samples, truth>>
        /\ now' = (now + 1) % TscMod
    BY <1>1, <1>4, <2>2 DEF Spin
  <2>4. /\ calib'.ns = lapse + 1 /\ calib'.edge = calib.edge /\ calib'.ticks = 0
        /\ calib' \in [ns : Int, ticks : Int, edge : Int]
        /\ lapse' + calib'.edge = u + 1 /\ calib'.ns + calib'.edge = u + 1
        /\ lapse' \in 0 .. (CalibTicks + Held) /\ u + 1 \in 0 .. lapse'
    BY <1>1, <2>2, <2>3
  <2>5. PICK n \in Nat : n = u
    BY <2>2
  <2>9. pinned => Opened(n + 1)'
    <3>1. n + 1 \in Ticks /\ 1 \in Nat
      BY <1>1, <2>4, <2>5
    <3>2. pinned => Opened(n)
      BY <2>2, <2>5 DEF Opened
    <3>. QED
      BY <2>3, <3>1, <3>2, Pass
  <2>6. pinned' => /\ Opened(lapse + calib.edge)'
                   /\ Opened(calib.ns + calib.edge)'
    BY <2>3, <2>4, <2>5, <2>9 DEF Opened
  <2>7. CalibInv'
    BY <1>1, <2>1, <2>3, <2>4, <2>6 DEF CalibInv, CalibrationError
  <2>8. now' \in Ticks
    BY <2>3, TicksPass DEF IInv, Typed
  <2>. QED
    BY <1>4, <2>3, <2>4, <2>7, <2>8 DEF Spin, IInv, Typed, CellInv, SamplesInv, WindowInv
<1>5. CASE CalibrateEnd
  <2>. DEFINE u == calib.ns + calib.edge
  <2>1. /\ lapse \in 0 .. (CalibTicks + Held) /\ u \in 0 .. lapse
        /\ calib \in [ns : Int, ticks : Int, edge : Int]
        /\ pinned => Opened(u)
    BY <1>5 DEF CalibrateEnd, IInv, Typed, CalibInv
  <2>2. u \in Ticks
    BY <1>1, <2>1
  <2>3. pinned => ElapsedTo(start, CounterAt(now)) = u
    <3>1. SUFFICES ASSUME pinned PROVE ElapsedTo(start, CounterAt(now)) = u
      OBVIOUS
    <3>2. PICK s \in Ticks : start = Reading(CounterAt(s)) /\ now = (s + u) % TscMod
      BY <2>1, <3>1 DEF Opened
    <3>. HIDE DEF u
    <3>. QED
      BY <2>2, <3>2, Worth DEF IInv, Typed
  <2>4. ElapsedTo(start, CounterAt(now)) \in Int
    <3>1. start \in [hi : Nat, lo : Nat] /\ HalfMod \in Nat /\ CounterAt(now) \in Ticks
      BY CounterTyped, WidthsTyped DEF IInv, Typed
    <3>2. CounterAt(now) - Assemble(start) \in Int
      BY <3>1 DEF Assemble, Ticks
    <3>3. \A x \in Int, m \in Nat \ {0} : x % m \in Int
      OBVIOUS
    <3>. QED
      BY <1>1, <3>2, <3>3 DEF ElapsedTo
  <2>5. /\ calib'.ns = calib.ns /\ calib'.edge = calib.edge
        /\ calib'.ticks = ElapsedTo(start, CounterAt(now))
        /\ calib' \in [ns : Int, ticks : Int, edge : Int]
        /\ pc' = "start" /\ cell' = 0
        /\ UNCHANGED <<cfg, core, now, start, pinned, disturbed, samples, truth>>
    BY <1>5, <2>1, <2>4 DEF CalibrateEnd
  <2>6. CalibInv'
    BY <2>1, <2>3, <2>5 DEF CalibInv, CalibrationError
  <2>7. CellInv'
    BY <2>5, PlanTyped, SamePlan DEF IInv, Typed, CellInv
  <2>. QED
    BY <1>5, <2>5, <2>6, <2>7 DEF CalibrateEnd, IInv, Typed, SamplesInv, WindowInv
<1>. QED
  BY <1>2, <1>3, <1>4, <1>5

LEMMA SampleStep ==
    ASSUME IInv, ReserveFails \/ Start \/ Call \/ PushRow \/ PrintReport
    PROVE  IInv'
<1>. USE DEF results, clock
<1>1. CASE ReserveFails
  BY <1>1 DEF ReserveFails, Exit, Aborted, IInv, Typed, CellInv, SamplesInv, WindowInv, CalibInv,
     CalibrationError
<1>2. CASE Start
  <2>1. now' \in Ticks
    BY <1>2, BenchmarkAssumption DEF Start, Ticks
  <2>2. Held' = Held /\ Held \in Nat
    BY <1>2, HeldTyped DEF Start, Held, IInv, Typed
  <2>3. PICK t \in Ticks : t = now'
    BY <2>1
  <2>4. core' = core /\ start' = Reading(CounterAt(t)) /\ now' = t /\ lapse' = 0
    BY <1>2, <2>3 DEF Start, CounterAt
  <2>5. Opened(lapse)'
    <3>1. Opened(0)'
      BY <2>4, Stamp
    <3>. QED
      BY <2>4, <3>1 DEF Opened
  <2>6. CellInv'
    BY <1>2, SamePlan DEF Start, IInv, CellInv
  <2>7. start' \in [hi : Nat, lo : Nat]
    BY <2>4, CounterTyped, ReadingTyped DEF IInv, Typed
  <2>. QED
    BY <1>2, <2>1, <2>2, <2>4, <2>5, <2>6, <2>7
       DEF Start, IInv, Typed, SamplesInv, WindowInv, CalibInv, CalibrationError
<1>3. CASE Call
  <2>1. /\ cell \in 0 .. Len(Plan) /\ lapse \in 0 .. Held
        /\ WorkAt(cell) \in Nat /\ Fits(WorkAt(cell))
        /\ pinned => Opened(lapse)
    BY <1>3, WorkFits DEF Call, IInv, Typed, CellInv, WindowInv
  <2>2. lapse + WorkAt(cell) \in Ticks /\ lapse \in Nat
    <3>. DEFINE w == WorkAt(cell)
                l == MaxDisturb * MaxStall
                h == Held
                m == TscMod
    <3>1. h \in 0 .. l /\ l \in Nat /\ w \in Nat /\ w + l < m /\ m \in Nat \ {0} /\ lapse \in 0 .. h
      BY <2>1, HeldTyped, WidthsTyped DEF IInv, Typed, Fits
    <3>. HIDE DEF w, l, h, m
    <3>2. lapse + w \in 0 .. (m - 1) /\ lapse \in Nat
      BY <3>1
    <3>. QED
      BY <3>2 DEF w, m, Ticks
  <2>3. /\ now' = (now + WorkAt(cell)) % TscMod /\ lapse' = lapse + WorkAt(cell)
        /\ UNCHANGED <<core, start, pinned, cfg, cell, calib, disturbed>>
        /\ samples' = Append(samples, ElapsedTo(start, CounterAt(now')))
        /\ truth' = Append(truth, lapse')
        /\ pc' \in {"start", "row"}
    BY <1>3 DEF Call
  <2>4. now' \in Ticks
    BY <2>1, <2>3, TicksPass DEF IInv, Typed
  <2>5. pinned => ElapsedTo(start, CounterAt(now')) = lapse'
    <3>1. SUFFICES ASSUME pinned PROVE ElapsedTo(start, CounterAt(now')) = lapse'
      OBVIOUS
    <3>. DEFINE w == WorkAt(cell)
    <3>2. PICK s \in Ticks : start = Reading(CounterAt(s)) /\ now = (s + lapse) % TscMod
      BY <2>1, <3>1 DEF Opened
    <3>3. lapse + w \in Ticks /\ lapse \in Nat /\ w \in Nat
      BY <2>1, <2>2
    <3>4. now' = (now + w) % TscMod /\ lapse' = lapse + w
      BY <2>3
    <3>. HIDE DEF w
    <3>5. now' = (s + (lapse + w)) % TscMod
      BY <3>2, <3>3, <3>4, Passing
    <3>. QED
      BY <3>2, <3>3, <3>4, <3>5, Worth DEF IInv, Typed
  <2>6. SamplesInv'
    BY <1>3, <2>3, <2>5 DEF Call, IInv, SamplesInv
  <2>7. CellInv'
    BY <2>1, <2>3, SamePlan DEF CellInv
  <2>. QED
    BY <2>3, <2>4, <2>6, <2>7 DEF IInv, Typed, WindowInv, CalibInv, CalibrationError
<1>4. CASE PushRow
  <2>1. /\ pc' \in {"start", "report"} /\ samples' = <<>> /\ truth' = <<>>
        /\ UNCHANGED <<cfg, core, now, start, pinned, calib, disturbed>>
        /\ cell' \in 0 .. Len(Plan)
    BY <1>4, PlanTyped DEF PushRow, IInv, Typed, CellInv
  <2>2. CellInv'
    BY <2>1, SamePlan DEF CellInv
  <2>. QED
    BY <2>1, <2>2 DEF IInv, Typed, SamplesInv, WindowInv, CalibInv, CalibrationError
<1>5. CASE PrintReport
  BY <1>5 DEF PrintReport, Exit, IInv, Typed, CellInv, SamplesInv, WindowInv, CalibInv,
     CalibrationError
<1>. QED
  BY <1>1, <1>2, <1>3, <1>4, <1>5

\* What is not the program's doing.
LEMMA StallStep ==
    ASSUME IInv, NEW d \in Stalls, Stall(d)
    PROVE  IInv'
<1>. USE DEF results, clock
<1>1. /\ d \in Nat /\ Held \in Nat /\ Held' \in Nat /\ Held + d <= Held'
      /\ disturbed' \in 0 .. MaxDisturb
      /\ now' = (now + d) % TscMod /\ lapse' = lapse + d
      /\ UNCHANGED <<cfg, core, start, pinned, samples, truth, cell, pc, status>>
      /\ pc \in {"calib_start", "spin", "calib_stop", "call"}
      /\ calib' = [calib EXCEPT !.edge =
                      IF pc = "calib_start" THEN @ - d
                      ELSE IF pc = "calib_stop" THEN @ + d ELSE @]
  <2>1. disturbed \in 0 .. MaxDisturb /\ disturbed < MaxDisturb /\ disturbed' = disturbed + 1
    BY DEF Stall, IInv, Typed
  <2>2. /\ d \in Nat /\ Held \in Nat /\ Held' \in Nat /\ Held + d <= Held'
        /\ disturbed' \in 0 .. MaxDisturb
    BY <2>1, HeldGrows, BenchmarkAssumption
  <2>3. /\ now' = (now + d) % TscMod /\ lapse' = lapse + d
        /\ UNCHANGED <<cfg, core, start, pinned, samples, truth, cell, pc, status>>
        /\ pc \in {"calib_start", "spin", "calib_stop", "call"}
    BY DEF Stall, BetweenReadings
  <2>4. calib' = [calib EXCEPT !.edge =
                      IF pc = "calib_start" THEN @ - d
                      ELSE IF pc = "calib_stop" THEN @ + d ELSE @]
    BY DEF Stall
  <2>. QED
    BY <2>2, <2>3, <2>4
<1>2. now' \in Ticks
  BY <1>1, TicksPass DEF IInv, Typed
<1>3. calib \in [ns : Int, ticks : Int, edge : Int]
  BY DEF IInv, Typed
<1>4. /\ calib'.ns = calib.ns /\ calib'.ticks = calib.ticks
      /\ calib' \in [ns : Int, ticks : Int, edge : Int]
      /\ calib'.edge = IF pc = "calib_start" THEN calib.edge - d
                       ELSE IF pc = "calib_stop" THEN calib.edge + d ELSE calib.edge
  BY <1>1, <1>3
<1>5. Typed' /\ SamplesInv'
  BY <1>1, <1>2, <1>4 DEF IInv, Typed, SamplesInv
<1>6. CellInv'
  BY <1>1, SamePlan DEF IInv, CellInv
\* The window, however long it has been open, is d ticks older.
<1>7. ASSUME NEW u \in Nat, Opened(u), u + d <= CalibTicks + Held' \/ u + d <= Held'
      PROVE  Opened(u + d)'
  <2>1. u + d \in Ticks
    <3>. DEFINE l == MaxDisturb * MaxStall
                h == Held'
                m == TscMod
    <3>1. h \in 0 .. l /\ l \in Nat
      <4>1. (disturbed \in 0 .. MaxDisturb)' => (Held \in 0 .. (MaxDisturb * MaxStall))'
        BY HeldTyped, PTL
      <4>. QED
        BY <1>1, <4>1, BenchmarkAssumption
    <3>2. CalibTicks \in Nat /\ CalibTicks + l < m /\ m \in Nat \ {0}
      BY WindowAssumption, BenchmarkAssumption, WidthsTyped DEF Fits
    <3>3. u + d <= CalibTicks + h \/ u + d <= h
      BY <1>7
    <3>. HIDE DEF l, h, m
    <3>4. u + d \in 0 .. (m - 1)
      BY <1>1, <3>1, <3>2, <3>3
    <3>. QED
      BY <3>4 DEF m, Ticks
  <2>. QED
    BY <1>1, <1>7, <2>1, Pass
<1>8. CASE pc = "call"
  <2>1. lapse \in 0 .. Held /\ (pinned => Opened(lapse))
    BY <1>8 DEF IInv, WindowInv
  <2>2. PICK n \in Nat : n = lapse
    BY <2>1, <1>1
  <2>3. pinned => Opened(n + d)'
    BY <1>1, <1>7, <2>1, <2>2 DEF Opened
  <2>4. lapse' = n + d /\ lapse' \in 0 .. Held'
    BY <1>1, <2>1, <2>2
  <2>5. WindowInv'
    BY <1>1, <2>3, <2>4 DEF WindowInv, Opened
  <2>6. CalibInv'
    BY <1>1, <1>4, <1>8 DEF IInv, CalibInv, CalibrationError
  <2>. QED
    BY <1>5, <1>6, <2>5, <2>6 DEF IInv
<1>9. CASE pc = "calib_start"
  <2>1. lapse \in 0 .. Held /\ lapse + calib.edge = 0 /\ calib.ticks = 0
    BY <1>9 DEF IInv, CalibInv
  <2>2. lapse' \in 0 .. Held' /\ lapse' + calib'.edge = 0
    <3>. DEFINE h == Held
                g == Held'
                e == calib.edge
    <3>1. /\ h \in Nat /\ g \in Nat /\ d \in Nat /\ h + d <= g /\ e \in Int
          /\ lapse \in 0 .. h /\ lapse + e = 0
      BY <1>1, <1>3, <2>1
    <3>2. lapse' = lapse + d /\ calib'.edge = e - d
      BY <1>1, <1>4, <1>9
    <3>. HIDE DEF h, g, e
    <3>3. lapse + d \in 0 .. g /\ (lapse + d) + (e - d) = 0
      BY <3>1
    <3>. QED
      BY <3>2, <3>3 DEF g
  <2>3. CalibInv'
    BY <1>1, <1>4, <1>9, <2>1, <2>2 DEF CalibInv, CalibrationError
  <2>. QED
    BY <1>1, <1>5, <1>6, <1>9, <2>3 DEF IInv, WindowInv
<1>10. CASE pc = "spin"
  <2>1. /\ lapse \in 0 .. (CalibTicks + Held) /\ lapse < CalibTicks + Held
        /\ lapse + calib.edge \in 0 .. lapse /\ calib.ticks = 0
        /\ pinned => Opened(lapse + calib.edge)
    BY <1>10 DEF IInv, CalibInv
  <2>2. PICK n \in Nat : n = lapse + calib.edge
    BY <1>1, <2>1, BenchmarkAssumption
  <2>3. /\ lapse' \in 0 .. (CalibTicks + Held') /\ lapse' < CalibTicks + Held'
        /\ lapse' + calib'.edge \in 0 .. lapse' /\ lapse' + calib'.edge = n + d
        /\ n + d <= CalibTicks + Held'
    <3>. DEFINE h == Held
                g == Held'
                e == calib.edge
    <3>1. /\ h \in Nat /\ g \in Nat /\ d \in Nat /\ h + d <= g /\ e \in Int
          /\ lapse \in 0 .. (CalibTicks + h) /\ lapse < CalibTicks + h
          /\ lapse + e \in 0 .. lapse /\ n = lapse + e /\ CalibTicks \in Nat
      BY <1>1, <1>3, <2>1, <2>2, BenchmarkAssumption
    <3>2. lapse' = lapse + d /\ calib'.edge = e
      BY <1>1, <1>4, <1>10
    <3>. HIDE DEF h, g, e
    <3>3. /\ lapse + d \in 0 .. (CalibTicks + g) /\ lapse + d < CalibTicks + g
          /\ (lapse + d) + e \in 0 .. (lapse + d) /\ (lapse + d) + e = n + d
          /\ n + d <= CalibTicks + g
      BY <3>1
    <3>. QED
      BY <3>2, <3>3 DEF g
  <2>4. pinned => Opened(n + d)'
    BY <1>7, <2>1, <2>2, <2>3 DEF Opened
  <2>5. pinned' => Opened(lapse + calib.edge)'
    BY <1>1, <2>3, <2>4 DEF Opened
  <2>6. CalibInv'
    BY <1>1, <1>4, <1>10, <2>1, <2>3, <2>5 DEF CalibInv, CalibrationError
  <2>. QED
    BY <1>1, <1>5, <1>6, <1>10, <2>6 DEF IInv, WindowInv
<1>11. CASE pc = "calib_stop"
  <2>1. /\ lapse \in 0 .. (CalibTicks + Held)
        /\ calib.ns + calib.edge \in 0 .. lapse /\ calib.ticks = 0
        /\ pinned => Opened(calib.ns + calib.edge)
    BY <1>11 DEF IInv, CalibInv
  <2>2. PICK n \in Nat : n = calib.ns + calib.edge
    BY <1>1, <2>1, BenchmarkAssumption
  <2>3. /\ lapse' \in 0 .. (CalibTicks + Held')
        /\ calib'.ns + calib'.edge \in 0 .. lapse' /\ calib'.ns + calib'.edge = n + d
        /\ n + d <= CalibTicks + Held'
    <3>. DEFINE h == Held
                g == Held'
                e == calib.edge
                s == calib.ns
    <3>1. /\ h \in Nat /\ g \in Nat /\ d \in Nat /\ h + d <= g /\ e \in Int /\ s \in Int
          /\ lapse \in 0 .. (CalibTicks + h)
          /\ s + e \in 0 .. lapse /\ n = s + e /\ CalibTicks \in Nat
      BY <1>1, <1>3, <2>1, <2>2, BenchmarkAssumption
    <3>2. lapse' = lapse + d /\ calib'.edge = e + d /\ calib'.ns = s
      BY <1>1, <1>4, <1>11
    <3>. HIDE DEF h, g, e, s
    <3>3. /\ lapse + d \in 0 .. (CalibTicks + g)
          /\ s + (e + d) \in 0 .. (lapse + d) /\ s + (e + d) = n + d
          /\ n + d <= CalibTicks + g
      BY <3>1
    <3>. QED
      BY <3>2, <3>3 DEF g
  <2>4. pinned => Opened(n + d)'
    BY <1>7, <2>1, <2>2, <2>3 DEF Opened
  <2>5. pinned' => Opened(calib.ns + calib.edge)'
    BY <1>1, <2>3, <2>4 DEF Opened
  <2>6. CalibInv'
    BY <1>1, <1>4, <1>11, <2>1, <2>3, <2>5 DEF CalibInv, CalibrationError
  <2>. QED
    BY <1>1, <1>5, <1>6, <1>11, <2>6 DEF IInv, WindowInv
<1>. QED
  BY <1>1, <1>8, <1>9, <1>10, <1>11

LEMMA OtherStep ==
    ASSUME IInv, (\E c \in Cores : Migrate(c)) \/ Relaunch
    PROVE  IInv'
<1>. USE DEF results, clock
<1>1. CASE \E c \in Cores : Migrate(c)
  <2>1. /\ core' \in Cores /\ ~pinned /\ disturbed < MaxDisturb /\ disturbed' = disturbed + 1
        /\ UNCHANGED <<cfg, pc, status, pinned, now, start, lapse, calib, samples, truth, cell>>
    BY <1>1 DEF Migrate
  <2>2. disturbed' \in 0 .. MaxDisturb
    BY <2>1, BenchmarkAssumption DEF IInv, Typed
  <2>3. Held \in Nat /\ Held' \in Nat /\ Held <= Held'
    <3>. DEFINE a == disturbed
                l == MaxStall
    <3>1. a \in Nat /\ l \in Nat /\ Held = a * l /\ Held' = (a + 1) * l
      BY <2>1, BenchmarkAssumption DEF Held, IInv, Typed
    <3>. HIDE DEF a, l
    <3>2. (a + 1) * l = a * l + l /\ a * l \in Nat
      BY <3>1
    <3>. QED
      BY <3>1, <3>2
  <2>4. CellInv'
    BY <2>1, SamePlan DEF IInv, CellInv
  <2>5. WindowInv'
    BY <2>1, <2>3 DEF IInv, WindowInv
  <2>6. CalibInv'
    <3>. DEFINE h == Held
                g == Held'
    <3>1. h \in Nat /\ g \in Nat /\ h <= g /\ CalibTicks \in Nat
      BY <2>3, BenchmarkAssumption
    <3>. HIDE DEF h, g
    <3>2. /\ \A x : x \in 0 .. h => x \in 0 .. g
          /\ \A x : x \in 0 .. (CalibTicks + h) => x \in 0 .. (CalibTicks + g)
          /\ \A x \in 0 .. (CalibTicks + h) : x < CalibTicks + h => x < CalibTicks + g
      BY <3>1
    <3>. QED
      BY <2>1, <3>2 DEF IInv, CalibInv, CalibrationError, h, g
  <2>. QED
    BY <2>1, <2>2, <2>4, <2>5, <2>6 DEF IInv, Typed, SamplesInv
<1>2. CASE Relaunch
  <2>1. /\ pc = "exit" /\ status = 0 /\ pc' = "parse" /\ cfg' = DefaultConfig /\ pinned' = FALSE
        /\ calib' = [ns |-> 0, ticks |-> 0, edge |-> 0]
        /\ UNCHANGED <<status, core, now, start, lapse, samples, truth, disturbed>>
    BY <1>2 DEF Relaunch
  <2>2. "modes" \in DOMAIN cfg' /\ cfg'.modes \subseteq CacheModes
    BY <2>1 DEF DefaultConfig
  <2>. QED
    BY <2>1, <2>2 DEF IInv, Typed, CellInv, SamplesInv, WindowInv, CalibInv, CalibrationError
<1>. QED
  BY <1>1, <1>2

LEMMA NextIInv == IInv /\ [Next]_vars => IInv'
<1>. SUFFICES ASSUME IInv, [Next]_vars PROVE IInv'
  OBVIOUS
<1>1. CASE UNCHANGED vars
  <2>1. UNCHANGED <<cfg, pc, status, pinned, core, now, start, lapse, calib, samples, truth,
                    cell, disturbed>>
    BY <1>1 DEF vars
  <2>2. Held' = Held /\ Plan' = Plan
    BY <2>1, SamePlan DEF Held
  <2>3. \A u : Opened(u)' = Opened(u)
    BY <2>1 DEF Opened, Reading, CounterAt
  <2>4. Opened(lapse)' = Opened(lapse)
        /\ Opened(lapse + calib.edge)' = Opened(lapse + calib.edge)
        /\ Opened(calib.ns + calib.edge)' = Opened(calib.ns + calib.edge)
    BY <2>1 DEF Opened, Reading, CounterAt
  <2>. QED
    BY <2>1, <2>2, <2>4 DEF IInv, Typed, CellInv, SamplesInv, WindowInv, CalibInv, CalibrationError
<1>. QED
  BY <1>1, ParseStep, CalibrateStep, SampleStep, StallStep, OtherStep DEF Next, Program, Done

LEMMA Inductive == Spec => []IInv
BY InitIInv, NextIInv, PTL DEF Spec

\* A pinned thread's samples are the time their windows took, for counters of any
\* width and phase, whichever half carries or comes round in the window.
THEOREM SamplesAreExact == Spec => []SampleExact
BY Inductive, PTL DEF IInv, SamplesInv, SampleExact

\* A pinned calibration is off by what held the thread up between a clock reading
\* and the stamp next to it, and by nothing else.
THEOREM CalibrationIsOffByEdges == Spec => []CalibrationError
BY Inductive, PTL DEF IInv, CalibInv
-----------------------------------------------------------------------------
(* Types, and what the rows hold.                                           *)

Config ==
    [reps : 0 .. (SizeMod - 1), objects : 0 .. (SizeMod - 1),
     sweep_mb : 0 .. (SizeMod - 1), cpu : Int, csv : BOOLEAN, verify_only : BOOLEAN,
     modes : (SUBSET CacheModes) \ {{}}]

RowType ==
    [v : Range(Schedule), mode : CacheModes, st : StatsType, truth : Seq(Nat)]

PassType ==
    {[csv |-> Csv(table), rows |-> table, pinned |-> b] :
        table \in Seq(RowType), b \in BOOLEAN}

Early ==
    pc \in {"parse", "pin", "gate", "calibrate", "calib_start", "spin", "calib_stop"}

Sampling == pc \in {"start", "call", "row"}

TypeInv ==
    /\ args \in ArgLists
    /\ ai \in 1 .. (Len(args) + 1)
    /\ cfg \in Config
    /\ pc \notin {"parse", "exit"} => cfg.reps # 0
    /\ Early \/ Sampling \/ pc \in {"report", "exit"}
    /\ status \in {0, 1, 2, Aborted}
    /\ pinned \in BOOLEAN
    /\ start \in [hi : 0 .. (HalfMod - 1), lo : 0 .. (HalfMod - 1)]
    /\ lapse \in Nat
    /\ calib \in [ns : Nat, ticks : Ticks, edge : Int]
    /\ csvs \in Seq(PassType) /\ Len(csvs) <= MaxPasses
    /\ pc # "exit" => Len(csvs) < MaxPasses

\* The samples of the cell measured now, none of them shorter than its work.
FillInv ==
    /\ samples \in Seq(Ticks) /\ truth \in Seq(Nat) /\ Len(samples) = Len(truth)
    /\ Len(samples) <= Reps(cell)
    /\ pc \in {"start", "call"} => Len(samples) < Reps(cell)
    /\ pc = "row" => Len(samples) = Reps(cell)
    /\ Sampling => LeastOf(truth, WorkAt(cell))

\* A finished row is that of its place in the plan.
RowAt(row, c) ==
    /\ row.v = Plan[c].v /\ row.mode = Plan[c].mode
    /\ Len(row.truth) = cfg.reps /\ row.st.n = cfg.reps
    /\ LeastOf(row.truth, Work(row.v, row.mode))
    /\ pinned => row.st = Summary(row.truth)

TableInv ==
    /\ cell \in 0 .. Len(Plan)
    /\ rows \in Seq(RowType)
    /\ Early => rows = <<>> /\ cell = 0
    /\ Sampling => Len(rows) = IF cell = 0 THEN 0 ELSE cell - 1
    /\ pc = "report" => Len(rows) = Len(Plan) /\ cell = Len(Plan)
    /\ Len(rows) \in {cell - 1, cell} \/ (cell = 0 /\ rows = <<>>)
    /\ rows # <<>> => cfg.reps # 0
    /\ \A n \in 1 .. Len(rows) : RowAt(rows[n], n)

RInv == TypeInv /\ FillInv /\ TableInv

LEMMA SummaryTyped ==
    ASSUME NEW s \in Seq(Nat), s # <<>>
    PROVE  Summary(s) \in StatsType
<1>. DEFINE n == Len(s)
            a == Ascending(s)
            st == Summary(s)
<1>1. s \in Seq(Int) /\ n \in Nat \ {0} /\ DOMAIN s = 1 .. n /\ Range(s) \in SUBSET Nat
  BY DEF Range
<1>2. a \in Seq(Int) /\ Len(a) = n
  BY <1>1, AscendingTyped
<1>3. \A i \in 1 .. n : a[i] \in Nat
  BY <1>1, RankAt
<1>4. MedianAt(n) + 1 \in 1 .. n /\ P90At(n) + 1 \in 1 .. n /\ Keep(n) \in 0 .. n
  <2>. HIDE DEF n
  <2>1. MedianAt(n) \in 0 .. (n - 1) /\ P90At(n) \in 0 .. (n - 1) /\ Keep(n) \in 1 .. n
    BY <1>1, ReadsInside, KeepsSome
  <2>. QED
    BY <1>1, <2>1
<1>5. SumOfFirst(a)[Keep(n)] \in Nat
  <2>1. \A i \in 1 .. Len(a) : 0 <= a[i]
    BY <1>2, <1>3
  <2>2. PICK k \in 0 .. Len(a) : k = Keep(n)
    BY <1>2, <1>4
  <2>3. SumOfFirst(a)[k] \in Int /\ k * 0 <= SumOfFirst(a)[k]
    BY <1>2, <2>1, SumLeast
  <2>. QED
    BY <2>2, <2>3
<1>6. 1 \in 1 .. n
  BY <1>1
<1>. HIDE DEF a, n
<1>7. a[1] \in Nat /\ a[MedianAt(n) + 1] \in Nat /\ a[P90At(n) + 1] \in Nat
  BY <1>3, <1>4, <1>6
<1>8. st = [n |-> n, min |-> a[1], median |-> a[MedianAt(n) + 1], p90 |-> a[P90At(n) + 1],
            total |-> SumOfFirst(a)[Keep(n)]]
  BY DEF Summary, a, n
<1>. QED
  BY <1>1, <1>5, <1>7, <1>8 DEF StatsType

LEMMA ToSizeTyped ==
    ASSUME NEW num \in Int
    PROVE  ToSize(num) \in 0 .. (SizeMod - 1)
<1>1. \A x \in Int, m \in Nat \ {0} : x % m \in 0 .. (m - 1)
  OBVIOUS
<1>2. UllMod \in Nat \ {0} /\ SizeMod \in Nat \ {0}
  BY WidthsAssumption
<1>. DEFINE x == IF num \in (1 - UllMod) .. (UllMod - 1) THEN num % UllMod ELSE UllMod - 1
<1>3. x \in Int
  BY <1>1, <1>2
<1>. HIDE DEF x
<1>4. x % SizeMod \in 0 .. (SizeMod - 1)
  BY <1>1, <1>2, <1>3
<1>. QED
  BY <1>4 DEF ToSize, x

\* An option leaves the configuration well typed, and a mode that parse knows
\* leaves at least one to measure.
LEMMA WithValueTyped ==
    ASSUME NEW c \in Config, NEW opt \in TakesValue, NEW val \in [text : STRING, num : Int],
           opt = "--mode" => ModeKnown(val)
    PROVE  WithValue(c, opt, val) \in Config
<1>1. ToSize(val.num) \in 0 .. (SizeMod - 1) /\ val.num \in Int
  BY ToSizeTyped
<1>2. CASE opt = "--reps"
  BY <1>1, <1>2 DEF WithValue, Config
<1>3. CASE opt = "--objects"
  BY <1>1, <1>3 DEF WithValue, Config
<1>4. CASE opt = "--sweep-mb"
  BY <1>1, <1>4 DEF WithValue, Config
<1>5. CASE opt = "--cpu"
  BY <1>1, <1>5 DEF WithValue, Config
<1>6. CASE opt = "--seed"
  BY <1>6 DEF WithValue
<1>7. CASE opt = "--mode"
  <2>. DEFINE m == IF val.text = "all" THEN CacheModes ELSE CacheModes \cap {val.text}
  <2>1. m \in (SUBSET CacheModes) \ {{}}
    BY <1>7 DEF ModeKnown, CacheModes
  <2>2. WithValue(c, opt, val) = [c EXCEPT !.modes = m]
    BY <1>7 DEF WithValue
  <2>. HIDE DEF m
  <2>. QED
    BY <2>1, <2>2 DEF Config
<1>. QED
  BY <1>2, <1>3, <1>4, <1>5, <1>6, <1>7 DEF TakesValue

LEMMA DefaultTyped == DefaultConfig \in Config /\ DefaultConfig.reps # 0
<1>1. DefaultSweepMb \in 0 .. (SizeMod - 1)
  <2>1. \A x \in Nat, m \in Nat \ {0} : x \div m \in 0 .. x
    OBVIOUS
  <2>2. SizeMod - 1 \in Nat /\ MiB \in Nat \ {0}
    BY WidthsAssumption, CommandLineAssumption
  <2>3. (SizeMod - 1) \div MiB \in 0 .. (SizeMod - 1)
    BY <2>1, <2>2
  <2>. QED
    BY <2>2, <2>3, CommandLineAssumption
<1>2. CacheModes \in (SUBSET CacheModes) \ {{}}
  BY DEF CacheModes
<1>. QED
  BY <1>1, <1>2, CommandLineAssumption DEF DefaultConfig, Config

LEMMA ItemTyped ==
    ASSUME NEW A, NEW s \in Seq(A), NEW k \in 1 .. Len(s)
    PROVE  s[k] \in A
OBVIOUS

LEMMA RInvInit == Init => RInv
<1>. SUFFICES ASSUME Init PROVE RInv
  OBVIOUS
<1>1. 0 \in Ticks /\ TscMod \in Nat \ {0} /\ HalfMod \in Nat \ {0}
  BY WidthsTyped DEF Ticks
<1>2. start \in [hi : 0 .. (HalfMod - 1), lo : 0 .. (HalfMod - 1)]
  <2>1. 0 \div HalfMod = 0 /\ 0 % HalfMod = 0
    BY <1>1
  <2>. QED
    BY <1>1, <2>1 DEF Init, Reading
<1>3. args \in Seq([text : STRING, num : Int])
  BY ArgListsAssumption DEF Init
<1>7. ai \in 1 .. (Len(args) + 1)
  BY <1>3 DEF Init
<1>8. calib \in [ns : Nat, ticks : Ticks, edge : Int] /\ lapse \in Nat
  BY <1>1 DEF Init
<1>9. csvs \in Seq(PassType) /\ Len(csvs) < MaxPasses /\ Len(csvs) <= MaxPasses
  <2>1. csvs = <<>> /\ 0 < MaxPasses
    BY BenchmarkAssumption DEF Init
  <2>2. Len(csvs) = 0 /\ csvs \in Seq(PassType)
    BY <2>1
  <2>. QED
    BY <2>1, <2>2, BenchmarkAssumption
<1>10. args \in ArgLists /\ cfg = DefaultConfig /\ pc = "parse" /\ status = 0 /\ pinned = FALSE
  BY DEF Init
<1>4. TypeInv
  BY <1>2, <1>7, <1>8, <1>9, <1>10, DefaultTyped DEF TypeInv, Early
<1>5. cfg.modes \subseteq CacheModes
  BY <1>4 DEF TypeInv, Config
<1>6. Len(Plan) \in Nat
  BY <1>5, PlanTyped
<1>. QED
  BY <1>4, <1>6, BenchmarkAssumption DEF Init, RInv, FillInv, TableInv, Early, Sampling, Reps

LEMMA CfgFacts ==
    ASSUME cfg \in Config
    PROVE  cfg.modes \subseteq CacheModes /\ Len(Plan) \in Nat /\ cfg.reps \in Nat
<1>1. cfg.modes \subseteq CacheModes /\ cfg.reps \in Nat
  BY WidthsAssumption DEF Config
<1>. QED
  BY <1>1, PlanTyped

\* Nothing about the samples and the rows changes.
LEMMA SameTable ==
    ASSUME RInv, UNCHANGED <<cfg, samples, truth, cell, rows>>,
           pc' # pc => /\ ~Sampling' /\ pc' # "report"
                       /\ pc' # "exit" => Early /\ Early',
           pinned' = pinned \/ rows = <<>>
    PROVE  FillInv' /\ TableInv'
<1>1. Plan' = Plan /\ \A c : Reps(c)' = Reps(c) /\ WorkAt(c)' = WorkAt(c)
  BY SamePlan DEF Reps, WorkAt
<1>2. FillInv'
  BY <1>1 DEF RInv, FillInv, Sampling, Early
<1>3. \A n \in 1 .. Len(rows) : RowAt(rows[n], n)'
  BY <1>1 DEF RInv, TableInv, RowAt
<1>4. TableInv'
  BY <1>1, <1>3 DEF RInv, TableInv, Sampling, Early
<1>. QED
  BY <1>2, <1>4

LEMMA PlanLength == cfg.modes \subseteq CacheModes => Len(Plan) \in Nat
BY PlanTyped

\* An option, while nothing has been measured.
LEMMA ParseOptionRows ==
    ASSUME IInv, RInv, ParseOption
    PROVE  RInv'
<1>1. args \in Seq([text : STRING, num : Int]) /\ args' = args
  BY ArgListsAssumption DEF RInv, TypeInv, ParseOption
<1>2. /\ pc = "parse" /\ Early /\ ai \in 1 .. Len(args)
      /\ samples = <<>> /\ truth = <<>> /\ rows = <<>> /\ cell = 0
  <2>1. pc = "parse" /\ ai <= Len(args)
    BY DEF ParseOption
  <2>2. samples = <<>> /\ truth = <<>>
    BY <2>1 DEF IInv, SamplesInv
  <2>3. Early /\ ai \in 1 .. Len(args)
    BY <1>1, <2>1 DEF RInv, TypeInv, Early
  <2>. QED
    BY <2>1, <2>2, <2>3 DEF RInv, TableInv
<1>3. UNCHANGED <<args, pinned, start, lapse, calib, samples, truth, cell, rows, csvs>>
  BY DEF ParseOption, clock, results
<1>4. /\ cfg' \in Config /\ ai' \in 1 .. (Len(args) + 1)
      /\ pc' \in {"parse", "exit"} /\ status' \in {status, 2}
  <2>. DEFINE opt == args[ai].text
  <2>1. cfg \in Config
    BY DEF RInv, TypeInv
  <2>2. CASE /\ opt \in TakesValue /\ ai < Len(args)
             /\ opt = "--mode" => ModeKnown(args[ai + 1])
             /\ cfg' = WithValue(cfg, opt, args[ai + 1]) /\ ai' = ai + 2 /\ UNCHANGED <<pc, status>>
    <3>4. /\ opt \in TakesValue /\ ai < Len(args) /\ ai' = ai + 2
          /\ opt = "--mode" => ModeKnown(args[ai + 1])
          /\ cfg' = WithValue(cfg, opt, args[ai + 1])
      BY <2>2
    <3>5. Len(args) \in Nat /\ ai + 1 \in 1 .. Len(args)
      BY <1>1, <1>2, <3>4
    <3>6. args[ai + 1] \in [text : STRING, num : Int]
      BY <1>1, <3>5, ItemTyped
    <3>1. PICK val \in [text : STRING, num : Int] : val = args[ai + 1]
      BY <3>6
    <3>2. cfg' \in Config
      <4>. HIDE DEF opt
      <4>. QED
        BY <2>1, <3>1, <3>4, WithValueTyped
    <3>3. ai' \in 1 .. (Len(args) + 1)
      BY <1>2, <3>4, <3>5
    <3>. QED
      BY <1>2, <2>2, <3>2, <3>3
  <2>3. CASE /\ cfg' = IF opt = "--csv" THEN [cfg EXCEPT !.csv = TRUE]
                       ELSE [cfg EXCEPT !.verify_only = TRUE]
             /\ ai' = ai + 1 /\ UNCHANGED <<pc, status>>
    <3>1. cfg' \in Config
      BY <2>1, <2>3 DEF Config
    <3>. QED
      BY <1>1, <1>2, <2>3, <3>1
  <2>4. CASE Exit(2) /\ UNCHANGED <<ai, cfg>>
    BY <1>1, <1>2, <2>1, <2>4 DEF Exit
  <2>. QED
    BY <2>2, <2>3, <2>4 DEF ParseOption
<1>5. TypeInv'
  <2>1. pc # "exit" /\ Len(csvs) < MaxPasses
    BY <1>2 DEF RInv, TypeInv
  <2>2. UNCHANGED <<args, pinned, start, lapse, calib, csvs>>
    BY <1>3
  <2>. QED
    BY <1>4, <2>1, <2>2 DEF RInv, TypeInv, Early, Sampling
<1>6. Len(Plan)' \in Nat
  <2>1. cfg'.modes \subseteq CacheModes
    BY <1>4 DEF Config
  <2>2. (cfg.modes \subseteq CacheModes => Len(Plan) \in Nat)'
    BY PlanLength, PTL
  <2>. QED
    BY <2>1, <2>2
<1>7. /\ ~Sampling' /\ pc' # "report" /\ Reps(cell)' = Reps(cell) /\ Reps(cell) \in Nat
      /\ samples' = <<>> /\ truth' = <<>> /\ rows' = <<>> /\ cell' = 0
  BY <1>2, <1>3, <1>4, BenchmarkAssumption DEF Sampling, Reps
<1>8. FillInv'
  BY <1>4, <1>7 DEF FillInv
<1>9. TableInv'
  BY <1>6, <1>7 DEF TableInv
<1>. QED
  BY <1>5, <1>8, <1>9 DEF RInv

LEMMA ReadingInRange ==
    ASSUME NEW c \in Ticks
    PROVE  Reading(c) \in [hi : 0 .. (HalfMod - 1), lo : 0 .. (HalfMod - 1)]
<1>. DEFINE h == HalfMod
            q == c \div h
            r == c % h
<1>1. h \in Nat \ {0} /\ c \in Nat /\ c < h * h
  <2>1. h \in Nat \ {0} /\ h * h \in Nat
    BY WidthsTyped
  <2>2. c \in 0 .. (h * h - 1)
    BY DEF Ticks, TscMod
  <2>. QED
    BY <2>1, <2>2
<1>2. c = q * h + r /\ q \in Nat /\ r \in 0 .. (h - 1)
  <2>1. \A x \in Nat, m \in Nat \ {0} :
            x = (x \div m) * m + (x % m) /\ x \div m \in Nat /\ x % m \in 0 .. (m - 1)
    OBVIOUS
  <2>. HIDE DEF h
  <2>. QED
    BY <1>1, <2>1
<1>3. Reading(c) = [hi |-> q, lo |-> r]
  BY DEF Reading
<1>. HIDE DEF h, q, r
<1>4. q < h
  <2>. SUFFICES ASSUME ~(q < h) PROVE FALSE
    OBVIOUS
  <2>1. q - h \in Nat /\ (q - h) * h \in Nat /\ q * h = (q - h) * h + h * h
    BY <1>1, <1>2
  <2>. QED
    BY <1>1, <1>2, <2>1
<1>5. q \in 0 .. (h - 1)
  BY <1>1, <1>2, <1>4
<1>. QED
  BY <1>2, <1>3, <1>5 DEF h

LEMMA ElapsedTyped ==
    ASSUME core \in Cores, start \in [hi : 0 .. (HalfMod - 1), lo : 0 .. (HalfMod - 1)],
           NEW t \in Ticks
    PROVE  ElapsedTo(start, CounterAt(t)) \in Ticks
<1>1. HalfMod \in Nat \ {0} /\ TscMod \in Nat \ {0} /\ CounterAt(t) \in Ticks
  BY WidthsTyped, CounterTyped
<1>2. CounterAt(t) - Assemble(start) \in Int
  <2>1. start.hi \in Int /\ start.lo \in Int
    BY <1>1
  <2>2. Assemble(start) \in Int
    BY <1>1, <2>1 DEF Assemble
  <2>. QED
    BY <1>1, <2>2 DEF Ticks
<1>3. \A x \in Int, m \in Nat \ {0} : x % m \in 0 .. (m - 1)
  OBVIOUS
<1>. QED
  BY <1>1, <1>2, <1>3 DEF ElapsedTo, Ticks

\* The rest of the command line, the pin and the gate.
LEMMA EarlyRows ==
    ASSUME IInv, RInv, ParseEnd \/ Pin \/ Verify
    PROVE  RInv'
<1>. USE DEF clock, results
<1>1. /\ Early /\ pc # "exit" /\ Len(csvs) < MaxPasses /\ rows = <<>> /\ pc' # pc
      /\ UNCHANGED <<args, ai, cfg, start, lapse, calib, samples, truth, cell, rows, csvs>>
      /\ pc' \in {"pin", "gate", "calibrate", "exit"}
      /\ pinned' \in BOOLEAN /\ status' \in {status, 0, 1, 2, Aborted}
  BY DEF ParseEnd, Pin, Verify, Exit, RInv, TypeInv, TableInv, Early
<1>2. pc' # "exit" => cfg.reps # 0
  BY DEF ParseEnd, Pin, Verify, Exit, InRange, RInv, TypeInv
<1>3. /\ ~Sampling' /\ pc' # "report"
      /\ pc' # "exit" => Early'
      /\ Early' \/ Sampling' \/ pc' \in {"report", "exit"}
  BY <1>1 DEF Sampling, Early
<1>4. FillInv' /\ TableInv'
  BY <1>1, <1>3, SameTable
<1>5. TypeInv'
  BY <1>1, <1>2, <1>3 DEF RInv, TypeInv
<1>. QED
  BY <1>4, <1>5 DEF RInv

LEMMA CalibrateRows ==
    ASSUME IInv, RInv, CalibrateStart \/ CalibrateStamp \/ Spin \/ CalibrateEnd
    PROVE  RInv'
<1>. USE DEF clock, results
<1>1. /\ Early /\ pc \notin {"exit", "parse"} /\ Len(csvs) < MaxPasses /\ rows = <<>> /\ cell = 0
      /\ UNCHANGED <<args, ai, cfg, status, pinned, core, samples, truth, cell, rows, csvs>>
      /\ pc' \in {"calib_start", "spin", "calib_stop", "start"}
      /\ samples = <<>> /\ truth = <<>>
  BY DEF CalibrateStart, CalibrateStamp, Spin, CalibrateEnd, RInv, TypeInv, TableInv, Early,
     IInv, SamplesInv
<1>2. 0 \in Ticks /\ now \in Ticks /\ core \in Cores
  BY WidthsTyped DEF Ticks, IInv, Typed
<1>3. /\ lapse' \in Nat /\ calib' \in [ns : Nat, ticks : Ticks, edge : Int]
      /\ start' \in [hi : 0 .. (HalfMod - 1), lo : 0 .. (HalfMod - 1)]
  <2>1. /\ lapse \in Nat /\ calib \in [ns : Nat, ticks : Ticks, edge : Int]
        /\ start \in [hi : 0 .. (HalfMod - 1), lo : 0 .. (HalfMod - 1)]
    BY DEF RInv, TypeInv
  <2>2. CASE CalibrateStart
    BY <1>2, <2>1, <2>2 DEF CalibrateStart
  <2>3. CASE CalibrateStamp
    <3>1. CounterAt(now) \in Ticks
      BY <1>2, CounterTyped
    <3>2. start' = Reading(CounterAt(now))
      BY <2>3 DEF CalibrateStamp
    <3>. QED
      BY <2>1, <2>3, <3>1, <3>2, ReadingInRange DEF CalibrateStamp
  <2>4. CASE Spin
    BY <2>1, <2>4 DEF Spin
  <2>5. CASE CalibrateEnd
    <3>1. ElapsedTo(start, CounterAt(now)) \in Ticks
      BY <1>2, <2>1, ElapsedTyped
    <3>. QED
      BY <2>1, <2>5, <3>1 DEF CalibrateEnd
  <2>. QED
    BY <2>2, <2>3, <2>4, <2>5
<1>4. TypeInv'
  <2>1. Early' \/ Sampling'
    BY <1>1 DEF Early, Sampling
  <2>. QED
    BY <1>1, <1>3, <2>1 DEF RInv, TypeInv
<1>5. CASE pc' # "start"
  <2>1. Early' /\ ~Sampling' /\ pc' # "report"
    BY <1>1, <1>5 DEF Early, Sampling
  <2>2. FillInv' /\ TableInv'
    BY <1>1, <2>1, SameTable
  <2>. QED
    BY <1>4, <2>2 DEF RInv
<1>6. CASE pc' = "start"
  <2>1. /\ Sampling' /\ ~Early' /\ Plan' = Plan /\ Reps(0)' = Reps(0) /\ Reps(0) \in Nat \ {0}
        /\ Len(Plan) \in Nat
    BY <1>6, BenchmarkAssumption, SamePlan, CfgFacts
       DEF Sampling, Early, Reps, RInv, TypeInv, CalibrateStart, CalibrateStamp, Spin, CalibrateEnd
  <2>2. samples' = <<>> /\ truth' = <<>> /\ rows' = <<>> /\ cell' = 0 /\ cfg' = cfg
    BY <1>1
  <2>3. Reps(cell)' = Reps(0)
    BY <2>2 DEF Reps
  <2>4. FillInv'
    BY <1>6, <2>1, <2>2, <2>3 DEF FillInv, LeastOf
  <2>5. TableInv'
    BY <1>6, <2>1, <2>2 DEF TableInv
  <2>. QED
    BY <1>4, <2>4, <2>5 DEF RInv
<1>. QED
  BY <1>5, <1>6

LEMMA SameCell ==
    ASSUME cfg' = cfg
    PROVE  /\ Plan' = Plan
           /\ \A c : Reps(c)' = Reps(c) /\ WorkAt(c)' = WorkAt(c)
BY SamePlan DEF Reps, WorkAt

\* A window opens, or the samples cannot be had.
LEMMA StartRows ==
    ASSUME IInv, RInv, ReserveFails \/ Start
    PROVE  RInv'
<1>. USE DEF clock, results
<1>1. CASE ReserveFails
  <2>1. /\ pc = "start" /\ pc' = "exit" /\ status' = Aborted
        /\ UNCHANGED <<args, ai, cfg, pinned, start, lapse, calib, samples, truth, cell, rows, csvs>>
    BY <1>1 DEF ReserveFails, Exit
  <2>2. ~Sampling' /\ pc' # "report"
    BY <2>1 DEF Sampling
  <2>3. FillInv' /\ TableInv'
    BY <2>1, <2>2, SameTable
  <2>4. TypeInv'
    BY <2>1 DEF RInv, TypeInv
  <2>. QED
    BY <2>3, <2>4 DEF RInv
<1>2. CASE Start
  <2>1. /\ pc = "start" /\ pc' = "call" /\ lapse' = 0 /\ now' \in Phases
        /\ start' = Reading(CounterAt(now'))
        /\ UNCHANGED <<args, ai, cfg, status, pinned, core, calib, samples, truth, cell, rows, csvs>>
    BY <1>2 DEF Start
  <2>2. PICK t \in Ticks : t = now'
    BY <2>1, BenchmarkAssumption DEF Ticks
  <2>3. start' = Reading(CounterAt(t)) /\ CounterAt(t) \in Ticks
    BY <2>1, <2>2, CounterTyped DEF CounterAt, IInv, Typed
  <2>4. start' \in [hi : 0 .. (HalfMod - 1), lo : 0 .. (HalfMod - 1)]
    BY <2>3, ReadingInRange
  <2>5. TypeInv'
    BY <2>1, <2>4 DEF RInv, TypeInv, Early, Sampling
  <2>6. Plan' = Plan /\ \A c : Reps(c)' = Reps(c) /\ WorkAt(c)' = WorkAt(c)
    BY <2>1, SameCell
  <2>7. FillInv'
    BY <2>1, <2>6 DEF RInv, FillInv, Sampling
  <2>8. \A n \in 1 .. Len(rows) : RowAt(rows[n], n)'
    BY <2>1, <2>6 DEF RInv, TableInv, RowAt
  <2>9. TableInv'
    BY <2>1, <2>6, <2>8 DEF RInv, TableInv, Sampling, Early
  <2>. QED
    BY <2>5, <2>7, <2>9 DEF RInv
<1>. QED
  BY <1>1, <1>2

\* A window closes: its sample is of the cell's work, and of what held it up.
LEMMA CallRows ==
    ASSUME IInv, RInv, Call
    PROVE  RInv'
<1>1. /\ pc = "call" /\ pc' = IF Len(samples') < Reps(cell) THEN "start" ELSE "row"
      /\ now' = (now + WorkAt(cell)) % TscMod /\ lapse' = lapse + WorkAt(cell)
      /\ samples' = Append(samples, ElapsedTo(start, CounterAt(now')))
      /\ truth' = Append(truth, lapse')
      /\ UNCHANGED <<args, ai, cfg, status, pinned, core, start, calib, cell, rows, csvs>>
  BY DEF Call
<1>2. /\ cfg \in Config /\ lapse \in Nat /\ core \in Cores /\ now \in Ticks
      /\ start \in [hi : 0 .. (HalfMod - 1), lo : 0 .. (HalfMod - 1)]
      /\ samples \in Seq(Ticks) /\ truth \in Seq(Nat) /\ Len(samples) = Len(truth)
      /\ Len(samples) < Reps(cell) /\ LeastOf(truth, WorkAt(cell)) /\ Reps(cell) \in Nat
  BY <1>1, CfgFacts, BenchmarkAssumption
     DEF RInv, TypeInv, FillInv, Sampling, IInv, Typed, Reps
<1>3. WorkAt(cell) \in Nat
  BY <1>1, <1>2, CfgFacts, WorkFits DEF IInv, CellInv
<1>4. lapse' \in Nat /\ WorkAt(cell) <= lapse'
  BY <1>1, <1>2, <1>3
<1>5. ElapsedTo(start, CounterAt(now')) \in Ticks
  <2>1. PICK t \in Ticks : t = now'
    BY <1>1, <1>2, <1>3, TicksPass
  <2>2. ElapsedTo(start, CounterAt(t)) \in Ticks
    BY <1>2, ElapsedTyped
  <2>3. ElapsedTo(start, CounterAt(now')) = ElapsedTo(start, CounterAt(t))
    BY <2>1
  <2>. QED
    BY <2>2, <2>3
<1>6. Plan' = Plan /\ \A c : Reps(c)' = Reps(c) /\ WorkAt(c)' = WorkAt(c)
  BY <1>1, SameCell
<1>7. /\ samples' \in Seq(Ticks) /\ truth' \in Seq(Nat)
      /\ Len(samples') = Len(samples) + 1 /\ Len(truth') = Len(truth) + 1
      /\ LeastOf(truth', WorkAt(cell))
  BY <1>1, <1>2, <1>3, <1>4, <1>5 DEF LeastOf
<1>8. /\ pc' \in {"start", "row"} /\ Sampling /\ Sampling' /\ ~Early'
      /\ pc' = "start" => Len(samples') < Reps(cell)
      /\ pc' = "row" => Len(samples') = Reps(cell)
      /\ Len(samples') <= Reps(cell) /\ Len(samples') = Len(truth')
  BY <1>1, <1>2, <1>7 DEF Sampling, Early
<1>9. TypeInv'
  BY <1>1, <1>4, <1>8 DEF RInv, TypeInv
<1>10. FillInv'
  BY <1>1, <1>6, <1>7, <1>8 DEF FillInv
<1>11. \A n \in 1 .. Len(rows) : RowAt(rows[n], n)'
  BY <1>1, <1>6 DEF RInv, TableInv, RowAt
<1>12. TableInv'
  BY <1>1, <1>6, <1>8, <1>11 DEF RInv, TableInv
<1>. QED
  BY <1>9, <1>10, <1>12 DEF RInv

\* The row of a measured cell.
LEMMA MeasuredRowAt ==
    ASSUME IInv, RInv, pc = "row", cell # 0
    PROVE  MeasuredRow \in RowType /\ RowAt(MeasuredRow, cell)
<1>1. /\ cfg \in Config /\ cfg.reps # 0 /\ cell \in 1 .. Len(Plan) /\ Sampling
      /\ samples \in Seq(Ticks) /\ truth \in Seq(Nat) /\ Len(samples) = Len(truth)
      /\ Len(samples) = cfg.reps /\ LeastOf(truth, WorkAt(cell))
      /\ pinned => samples = truth
  <2>1. cfg \in Config /\ Len(Plan) \in Nat
    BY CfgFacts DEF RInv, TypeInv
  <2>. QED
    BY <2>1 DEF RInv, TypeInv, FillInv, TableInv, Sampling, Reps, IInv, SamplesInv
<1>2. cfg.modes \subseteq CacheModes /\ cfg.reps \in Nat
  BY <1>1, CfgFacts
<1>3. Plan[cell].v \in Range(Schedule) /\ Plan[cell].mode \in CacheModes
  <2>1. /\ \E r \in 1 .. Len(Schedule) : Plan[cell].v = Schedule[r]
        /\ Plan[cell].mode \in CacheModes
    BY <1>1, <1>2, PlanAt
  <2>2. Schedule \in Seq(Variant)
    BY BenchmarkAssumption
  <2>. QED
    BY <2>1, <2>2 DEF Range
<1>4. Summary(samples) \in StatsType
  <2>2. Ticks \subseteq Nat
    BY WidthsTyped DEF Ticks
  <2>3. \A k \in 1 .. Len(samples) : samples[k] \in Nat
    <3>1. \A k \in 1 .. Len(samples) : samples[k] \in Ticks
      BY <1>1, ItemTyped
    <3>. QED
      BY <2>2, <3>1
  <2>1. samples \in Seq(Nat) /\ samples # <<>>
    BY <1>1, <1>2, <2>3
  <2>. QED
    BY <2>1, SummaryTyped
<1>5. WorkAt(cell) = Work(Plan[cell].v, Plan[cell].mode)
  BY DEF WorkAt
<1>. DEFINE row == MeasuredRow
<1>6. /\ row = [v |-> Plan[cell].v, mode |-> Plan[cell].mode, st |-> Summary(samples),
                truth |-> truth]
  BY DEF MeasuredRow
<1>. HIDE DEF row
<1>7. row \in RowType
  BY <1>1, <1>3, <1>4, <1>6 DEF RowType
<1>8. RowAt(row, cell)
  <2>1. row.st.n = cfg.reps
    BY <1>1, <1>6 DEF Summary
  <2>. QED
    BY <1>1, <1>5, <1>6, <2>1 DEF RowAt
<1>. QED
  BY <1>7, <1>8 DEF row

LEMMA PushRows ==
    ASSUME IInv, RInv, PushRow
    PROVE  RInv'
<1>1. /\ pc = "row" /\ samples' = <<>> /\ truth' = <<>>
      /\ rows' = IF cell = 0 THEN rows ELSE Append(rows, MeasuredRow)
      /\ IF cell < Len(Plan) THEN cell' = cell + 1 /\ pc' = "start"
         ELSE pc' = "report" /\ cell' = cell
      /\ UNCHANGED <<args, ai, cfg, status, pinned, core, now, start, lapse, calib, csvs>>
  BY DEF PushRow, clock
<1>2. /\ cfg \in Config /\ cfg.reps \in Nat \ {0} /\ Len(Plan) \in Nat /\ cell \in 0 .. Len(Plan)
      /\ rows \in Seq(RowType) /\ Len(rows) = IF cell = 0 THEN 0 ELSE cell - 1
      /\ \A n \in 1 .. Len(rows) : RowAt(rows[n], n)
  BY <1>1, CfgFacts DEF RInv, TypeInv, TableInv, Sampling
<1>3. Plan' = Plan /\ \A c : Reps(c)' = Reps(c) /\ WorkAt(c)' = WorkAt(c)
  BY <1>1, SameCell
<1>4. /\ rows' \in Seq(RowType) /\ Len(rows') = cell
      /\ \A n \in 1 .. Len(rows') : RowAt(rows'[n], n)
  <2>1. CASE cell = 0
    BY <1>1, <1>2, <2>1
  <2>2. CASE cell # 0
    <3>1. MeasuredRow \in RowType /\ RowAt(MeasuredRow, cell)
      BY <1>1, <2>2, MeasuredRowAt
    <3>2. rows' = Append(rows, MeasuredRow) /\ Len(rows) = cell - 1
      BY <1>1, <1>2, <2>2
    <3>3. rows' \in Seq(RowType) /\ Len(rows') = cell
      BY <1>2, <3>1, <3>2
    <3>4. \A n \in 1 .. cell : rows'[n] = IF n = cell THEN MeasuredRow ELSE rows[n]
      BY <1>2, <3>2
    <3>5. ASSUME NEW n \in 1 .. cell PROVE RowAt(rows'[n], n)
      <4>1. CASE n = cell
        BY <3>1, <3>4, <4>1
      <4>2. CASE n # cell
        <5>1. n \in 1 .. Len(rows) /\ rows'[n] = rows[n]
          BY <1>2, <3>2, <3>4, <4>2
        <5>. QED
          BY <1>2, <5>1
      <4>. QED
        BY <4>1, <4>2
    <3>. QED
      BY <3>3, <3>5
  <2>. QED
    BY <2>1, <2>2
<1>5. \A n \in 1 .. Len(rows') : RowAt(rows[n], n)'
  BY <1>1, <1>3, <1>4 DEF RowAt
<1>6. /\ cell' \in 0 .. Len(Plan) /\ ~Early' /\ Len(rows') \in {cell' - 1, cell'}
      /\ Sampling' => Len(rows') = cell' - 1 /\ cell' # 0
      /\ pc' = "report" => Len(rows') = Len(Plan) /\ cell' = Len(Plan)
      /\ Sampling' \/ pc' = "report"
      /\ pc' \notin {"call", "row"}
  BY <1>1, <1>2, <1>4 DEF Early, Sampling
<1>7. TypeInv'
  BY <1>1, <1>6 DEF RInv, TypeInv
<1>8. Reps(cell)' \in Nat \ {0}
  <2>1. Reps(cell)' = Reps(cell') /\ FloorReps \in Nat \ {0}
    BY <1>1, BenchmarkAssumption DEF Reps
  <2>. QED
    BY <1>2, <2>1 DEF Reps
<1>9. FillInv'
  BY <1>1, <1>6, <1>8 DEF FillInv, LeastOf
<1>10. TableInv'
  BY <1>1, <1>2, <1>3, <1>4, <1>5, <1>6 DEF TableInv
<1>. QED
  BY <1>7, <1>9, <1>10 DEF RInv

LEMMA ReportRows ==
    ASSUME IInv, RInv, PrintReport
    PROVE  RInv'
<1>1. /\ pc = "report" /\ pc' = "exit" /\ status' = 0
      /\ csvs' = IF cfg.csv
                 THEN Append(csvs, [csv |-> Csv(rows), rows |-> rows, pinned |-> pinned])
                 ELSE csvs
      /\ UNCHANGED <<args, ai, cfg, pinned, start, lapse, calib, samples, truth, cell, rows>>
  BY DEF PrintReport, Exit, clock, results
<1>2. ~Sampling' /\ pc' # "report"
  BY <1>1 DEF Sampling
<1>3. FillInv' /\ TableInv'
  BY <1>1, <1>2, SameTable
<1>4. csvs' \in Seq(PassType) /\ Len(csvs') <= MaxPasses
  <2>1. csvs \in Seq(PassType) /\ Len(csvs) < MaxPasses /\ MaxPasses \in Nat
    BY <1>1, BenchmarkAssumption DEF RInv, TypeInv
  <2>2. PICK pass : pass = [csv |-> Csv(rows), rows |-> rows, pinned |-> pinned]
    OBVIOUS
  <2>3. pass \in PassType
    BY <2>2 DEF PassType, RInv, TypeInv, TableInv
  <2>4. csvs' = csvs \/ csvs' = Append(csvs, pass)
    BY <1>1, <2>2
  <2>. QED
    BY <2>1, <2>3, <2>4
<1>5. TypeInv'
  BY <1>1, <1>4 DEF RInv, TypeInv
<1>. QED
  BY <1>3, <1>5 DEF RInv

\* What is not the program's doing leaves the results alone.
LEMMA DisturbRows ==
    ASSUME IInv, RInv, (\E d \in Stalls : Stall(d)) \/ (\E c \in Cores : Migrate(c))
    PROVE  RInv'
<1>1. /\ UNCHANGED <<args, ai, cfg, pc, status, pinned, start, samples, truth, cell, rows, csvs>>
      /\ lapse' \in Nat /\ calib' \in [ns : Nat, ticks : Ticks, edge : Int]
  <2>1. lapse \in Nat /\ calib \in [ns : Nat, ticks : Ticks, edge : Int]
    BY DEF RInv, TypeInv
  <2>2. CASE \E d \in Stalls : Stall(d)
    <3>1. PICK d \in Stalls : Stall(d)
      BY <2>2
    <3>2. d \in Nat
      BY BenchmarkAssumption
    <3>3. lapse' = lapse + d /\ calib' \in [ns : Nat, ticks : Ticks, edge : Int]
      BY <2>1, <3>1, <3>2 DEF Stall
    <3>. QED
      BY <2>1, <3>1, <3>2, <3>3 DEF Stall, results
  <2>3. CASE \E c \in Cores : Migrate(c)
    BY <2>1, <2>3 DEF Migrate, results
  <2>. QED
    BY <2>2, <2>3
<1>2. FillInv' /\ TableInv'
  BY <1>1, SameTable
<1>3. TypeInv'
  BY <1>1 DEF RInv, TypeInv, Early, Sampling
<1>. QED
  BY <1>2, <1>3 DEF RInv

LEMMA RelaunchRows ==
    ASSUME IInv, RInv, Relaunch
    PROVE  RInv'
<1>1. /\ pc = "exit" /\ status = 0 /\ Len(csvs) < MaxPasses
      /\ pc' = "parse" /\ ai' = 1 /\ cfg' = DefaultConfig /\ pinned' = FALSE
      /\ calib' = [ns |-> 0, ticks |-> 0, edge |-> 0] /\ rows' = <<>> /\ cell' = 0
      /\ samples = <<>> /\ truth = <<>>
      /\ UNCHANGED <<args, status, start, lapse, samples, truth, csvs>>
  BY DEF Relaunch, IInv, SamplesInv
<1>2. cfg' \in Config /\ cfg'.reps # 0
  BY <1>1, DefaultTyped
<1>3. 0 \in Ticks /\ ai' \in 1 .. (Len(args) + 1)
  BY <1>1, WidthsTyped DEF Ticks, RInv, TypeInv
<1>4. TypeInv'
  <2>1. calib' \in [ns : Nat, ticks : Ticks, edge : Int]
    BY <1>1, <1>3
  <2>2. Early'
    BY <1>1 DEF Early
  <2>. QED
    BY <1>1, <1>2, <1>3, <2>1, <2>2 DEF RInv, TypeInv
<1>5. Len(Plan)' \in Nat
  <2>1. cfg'.modes \subseteq CacheModes
    BY <1>2 DEF Config
  <2>2. (cfg.modes \subseteq CacheModes => Len(Plan) \in Nat)'
    BY PlanLength, PTL
  <2>. QED
    BY <2>1, <2>2
<1>6. /\ ~Sampling' /\ pc' = "parse" /\ Reps(cell)' = FloorReps /\ FloorReps \in Nat
      /\ samples' = <<>> /\ truth' = <<>> /\ rows' = <<>> /\ cell' = 0
  BY <1>1, BenchmarkAssumption DEF Sampling, Reps
<1>7. FillInv'
  BY <1>6 DEF FillInv
<1>8. TableInv'
  BY <1>5, <1>6 DEF TableInv
<1>. QED
  BY <1>4, <1>7, <1>8 DEF RInv

LEMMA NextRInv == IInv /\ RInv /\ [Next]_vars => RInv'
<1>. SUFFICES ASSUME IInv, RInv, [Next]_vars PROVE RInv'
  OBVIOUS
<1>1. CASE UNCHANGED vars
  <2>1. UNCHANGED <<args, ai, cfg, pc, status, pinned, start, lapse, calib, samples, truth, cell,
                    rows, csvs>>
    BY <1>1 DEF vars
  <2>2. FillInv' /\ TableInv'
    BY <2>1, SameTable
  <2>3. TypeInv'
    BY <2>1 DEF RInv, TypeInv, Early, Sampling
  <2>. QED
    BY <2>2, <2>3 DEF RInv
<1>. QED
  BY <1>1, ParseOptionRows, EarlyRows, CalibrateRows, StartRows, CallRows, PushRows, ReportRows,
     DisturbRows, RelaunchRows DEF Next, Program, Done

LEMMA RowsInductive == Spec => [](IInv /\ RInv)
BY InitIInv, NextIInv, RInvInit, NextRInv, PTL DEF Spec

\* In every state of every run, the configuration, the readings, the samples and
\* the rows are of their types, a sample is there for every window closed, and
\* the rows are those of the cells behind the current one.
THEOREM BenchmarkTypeOK == Spec => []TypeOK
<1>1. ASSUME IInv, RInv PROVE TypeOK
  <2>1. /\ args \in ArgLists /\ ai \in 1 .. (Len(args) + 1)
        /\ cfg.reps \in 0 .. (SizeMod - 1) /\ cfg.objects \in 0 .. (SizeMod - 1)
        /\ cfg.sweep_mb \in 0 .. (SizeMod - 1) /\ cfg.cpu \in Int
        /\ cfg.modes \in (SUBSET CacheModes) \ {{}}
    BY <1>1 DEF RInv, TypeInv, Config
  <2>2. pc \in {"parse", "pin", "gate", "calibrate", "calib_start", "spin",
                "calib_stop", "start", "call", "row", "report", "exit"}
    BY <1>1 DEF RInv, TypeInv, Early, Sampling
  <2>3. /\ status \in {0, 1, 2, Aborted} /\ pinned \in BOOLEAN /\ core \in Cores
        /\ now \in 0 .. (TscMod - 1) /\ lapse \in Nat
        /\ start \in [hi : 0 .. (HalfMod - 1), lo : 0 .. (HalfMod - 1)]
        /\ calib \in [ns : Nat, ticks : 0 .. (TscMod - 1), edge : Int]
        /\ Len(csvs) <= MaxPasses /\ disturbed \in 0 .. MaxDisturb
    BY <1>1 DEF RInv, TypeInv, IInv, Typed, Ticks
  <2>4. /\ Len(samples) = Len(truth) /\ Len(samples) <= Reps(cell)
        /\ \A k \in 1 .. Len(samples) : samples[k] \in 0 .. (TscMod - 1)
    <3>1. samples \in Seq(Ticks)
      BY <1>1 DEF RInv, FillInv
    <3>2. \A k \in 1 .. Len(samples) : samples[k] \in Ticks
      BY <3>1
    <3>3. Len(samples) = Len(truth) /\ Len(samples) <= Reps(cell)
      BY <1>1 DEF RInv, FillInv
    <3>. QED
      BY <3>2, <3>3 DEF Ticks
  <2>5. /\ cell \in 0 .. Len(Plan)
        /\ Len(rows) \in {cell - 1, cell} \/ (cell = 0 /\ rows = <<>>)
        /\ \A n \in 1 .. Len(rows) : rows[n].st \in StatsType
    <3>1. rows \in Seq(RowType)
      BY <1>1 DEF RInv, TableInv
    <3>2. \A n \in 1 .. Len(rows) : rows[n] \in RowType
      BY <3>1
    <3>. QED
      BY <1>1, <3>2 DEF RInv, TableInv, RowType
  <2>. QED
    BY <2>1, <2>2, <2>3, <2>4, <2>5 DEF TypeOK
<1>2. IInv /\ RInv => TypeOK
  BY <1>1
<1>. QED
  BY <1>2, RowsInductive, PTL

\* Of every row of every launch that pinned itself, whatever held it up: the mean,
\* the p90, the median and the minimum are those of undisturbed calls if, and
\* only if, no more samples were disturbed than each of them withstands.
THEOREM SummariesWithstand == Spec => []StatsRobust
<1>1. ASSUME IInv, RInv PROVE StatsRobust
  <2>. SUFFICES ASSUME pinned, pc = "report", NEW r \in 1 .. Len(rows)
                PROVE  LET row == rows[r]
                           n   == cfg.reps
                           w   == Work(row.v, row.mode)
                       IN  /\ (row.st.total = Keep(n) * w) <=> (NDirty(row) <= n \div TrimPer)
                           /\ n * 90 < SizeMod =>
                                ((row.st.p90 = w) <=> (NDirty(row) < n - (n * 90) \div 100))
                           /\ (row.st.median = w) <=> (NDirty(row) < n - n \div 2)
                           /\ (row.st.min = w)    <=> (NDirty(row) < n)
    BY DEF StatsRobust
  <2>. DEFINE row == rows[r]
              s == row.truth
              w == Work(row.v, row.mode)
  <2>1. /\ row \in RowType /\ RowAt(row, r) /\ rows # <<>>
        /\ cfg \in Config /\ cfg.reps # 0 /\ cfg.reps \in Nat
    BY <1>1, CfgFacts DEF RInv, TypeInv, TableInv
  <2>2. s \in Seq(Int) /\ Len(s) = cfg.reps /\ LeastOf(s, w) /\ row.st = Summary(s)
    BY <2>1 DEF RowAt, RowType
  <2>3. w \in Int
    <3>1. row.v \in Range(Schedule) /\ row.mode \in CacheModes
      BY <2>1 DEF RowType
    <3>2. \E k \in 1 .. Len(Schedule) : row.v = Schedule[k]
      BY <3>1, BenchmarkAssumption DEF Range
    <3>. QED
      BY <3>1, <3>2, WindowAssumption
  <2>4. NDirty(row) = Slower(s, w)
    BY DEF NDirty, Dirty, Slower
  <2>5. s # <<>>
    BY <2>1, <2>2
  <2>. HIDE DEF s, w, row
  <2>6. LET n == Len(s)  d == Slower(s, w)  st == Summary(s) IN
           /\ (st.total = Keep(n) * w) <=> (d <= n \div TrimPer)
           /\ n * 90 < SizeMod => ((st.p90 = w) <=> (d < n - (n * 90) \div 100))
           /\ (st.median = w) <=> (d < n - n \div 2)
           /\ (st.min = w) <=> (d < n)
    BY <2>2, <2>3, <2>5, SummaryRobust
  <2>. QED
    BY <2>2, <2>4, <2>6 DEF w, row
<1>2. IInv /\ RInv => StatsRobust
  BY <1>1
<1>. QED
  BY <1>2, RowsInductive, PTL
-----------------------------------------------------------------------------
(* All launches read the same command line, and make the same of it.        *)

OptionOk(a, i) ==
    \/ /\ a[i].text \in TakesValue
       /\ i < Len(a)
       /\ a[i].text = "--mode" => ModeKnown(a[i + 1])
    \/ a[i].text \in {"--csv", "--verify"}

AfterOption(a, i, c) ==
    IF a[i].text \in TakesValue THEN <<i + 2, WithValue(c, a[i].text, a[i + 1])>>
    ELSE <<i + 1, IF a[i].text = "--csv" THEN [c EXCEPT !.csv = TRUE]
                  ELSE [c EXCEPT !.verify_only = TRUE]>>

\* The places and configurations parse goes through, from the start of a.
Path(a, f) ==
    /\ f # <<>>
    /\ f[1] = <<1, DefaultConfig>>
    /\ \A k \in 1 .. (Len(f) - 1) :
          /\ f[k][1] <= Len(a)
          /\ OptionOk(a, f[k][1])
          /\ f[k + 1] = AfterOption(a, f[k][1], f[k][2])

Parsed(a, i, c) ==
    \E f \in Seq(Nat \X Config) : Path(a, f) /\ f[Len(f)] = <<i, c>>

LEMMA PathsAgree ==
    ASSUME NEW a, NEW f \in Seq(Nat \X Config), NEW g \in Seq(Nat \X Config),
           Path(a, f), Path(a, g)
    PROVE  \A k \in Nat : k + 1 <= Len(f) /\ k + 1 <= Len(g) => f[k + 1] = g[k + 1]
<1>. DEFINE S == {k \in Nat : k + 1 <= Len(f) /\ k + 1 <= Len(g) => f[k + 1] = g[k + 1]}
<1>1. 0 \in S
  BY DEF Path
<1>2. ASSUME NEW k \in Nat, k \in S PROVE k + 1 \in S
  <2>. SUFFICES ASSUME k + 2 <= Len(f), k + 2 <= Len(g) PROVE f[k + 2] = g[k + 2]
    BY DEF S
  <2>1. f[k + 1] = g[k + 1]
    BY <1>2
  <2>2. k + 1 \in 1 .. (Len(f) - 1) /\ k + 1 \in 1 .. (Len(g) - 1) /\ (k + 1) + 1 = k + 2
    OBVIOUS
  <2>3. /\ f[k + 2] = AfterOption(a, f[k + 1][1], f[k + 1][2])
        /\ g[k + 2] = AfterOption(a, g[k + 1][1], g[k + 1][2])
    BY <2>2 DEF Path
  <2>. QED
    BY <2>1, <2>3
<1>3. Nat \subseteq S
  <2>. HIDE DEF S
  <2>. QED
    BY <1>1, <1>2, NatInduct
<1>. QED
  BY <1>3

\* If the end of a command line was reached once, every parse of it goes on,
\* option by option, to that end and to the same configuration.
LEMMA ParsedOnce ==
    ASSUME NEW a, Len(a) \in Nat, NEW i \in Nat, NEW c \in Config, Parsed(a, i, c),
           NEW j \in Nat, NEW d \in Config, Parsed(a, j, d), j > Len(a)
    PROVE  (i <= Len(a) /\ OptionOk(a, i)) \/ (i = j /\ c = d)
<1>1. PICK f \in Seq(Nat \X Config) : Path(a, f) /\ f[Len(f)] = <<i, c>>
  BY DEF Parsed
<1>2. PICK g \in Seq(Nat \X Config) : Path(a, g) /\ g[Len(g)] = <<j, d>>
  BY DEF Parsed
<1>3. Len(f) \in Nat \ {0} /\ Len(g) \in Nat \ {0}
  BY <1>1, <1>2 DEF Path
<1>4. \A k \in Nat : k + 1 <= Len(f) /\ k + 1 <= Len(g) => f[k + 1] = g[k + 1]
  BY <1>1, <1>2, PathsAgree
<1>5. \A k \in 1 .. Len(f) : k <= Len(g) => f[k] = g[k]
  <2>. SUFFICES ASSUME NEW k \in 1 .. Len(f), k <= Len(g) PROVE f[k] = g[k]
    OBVIOUS
  <2>1. PICK m \in Nat : k = m + 1
    <3>1. k - 1 \in Nat /\ k = (k - 1) + 1
      BY <1>3
    <3>. QED
      BY <3>1
  <2>2. m + 1 <= Len(f) /\ m + 1 <= Len(g)
    BY <1>3, <2>1
  <2>3. f[m + 1] = g[m + 1]
    BY <1>4, <2>2
  <2>. QED
    BY <2>1, <2>3
<1>6. CASE Len(f) < Len(g)
  <2>1. Len(f) \in 1 .. (Len(g) - 1) /\ g[Len(f)] = <<i, c>>
    BY <1>1, <1>3, <1>5, <1>6
  <2>2. g[Len(f)][1] = i
    BY <2>1
  <2>. QED
    BY <1>2, <2>1, <2>2 DEF Path
<1>7. CASE Len(f) = Len(g)
  <2>1. <<i, c>> = <<j, d>>
    BY <1>1, <1>2, <1>3, <1>5, <1>7
  <2>. QED
    BY <2>1
<1>8. CASE Len(f) > Len(g)
  <2>1. Len(g) \in 1 .. (Len(f) - 1) /\ f[Len(g)] = <<j, d>>
    <3>1. PICK m \in Nat \ {0} : m = Len(g)
      BY <1>3
    <3>2. m \in 1 .. (Len(f) - 1) /\ m \in 1 .. Len(f) /\ m <= Len(g)
      BY <1>3, <1>8, <3>1
    <3>3. f[m] = g[m]
      BY <1>5, <3>2
    <3>. QED
      BY <1>2, <3>1, <3>2, <3>3
  <2>2. f[Len(g)][1] = j
    BY <2>1
  <2>3. j <= Len(a)
    BY <1>1, <2>1, <2>2 DEF Path
  <2>. QED
    BY <2>3
<1>. QED
  BY <1>3, <1>6, <1>7, <1>8

LEMMA ParsedStart ==
    ASSUME NEW a
    PROVE  Parsed(a, 1, DefaultConfig)
<1>. DEFINE f == <<<<1, DefaultConfig>>>>
<1>1. f \in Seq(Nat \X Config) /\ Len(f) = 1 /\ f[1] = <<1, DefaultConfig>> /\ f # <<>>
  BY DefaultTyped
<1>. HIDE DEF f
<1>2. Path(a, f)
  BY <1>1 DEF Path
<1>. QED
  BY <1>1, <1>2 DEF Parsed

LEMMA ParsedNext ==
    ASSUME NEW a, NEW i \in Nat, NEW c \in Config, Parsed(a, i, c),
           i <= Len(a), OptionOk(a, i), NEW j \in Nat, NEW d \in Config,
           <<j, d>> = AfterOption(a, i, c)
    PROVE  Parsed(a, j, d)
<1>1. PICK f \in Seq(Nat \X Config) : Path(a, f) /\ f[Len(f)] = <<i, c>>
  BY DEF Parsed
<1>. DEFINE g == Append(f, <<j, d>>)
<1>2. /\ g \in Seq(Nat \X Config) /\ Len(g) = Len(f) + 1 /\ Len(f) \in Nat \ {0} /\ g # <<>>
      /\ g[Len(g)] = <<j, d>> /\ \A k \in 1 .. Len(f) : g[k] = f[k]
  BY <1>1 DEF Path
<1>. HIDE DEF g
<1>3. ASSUME NEW k \in 1 .. (Len(g) - 1)
      PROVE  /\ g[k][1] <= Len(a) /\ OptionOk(a, g[k][1])
             /\ g[k + 1] = AfterOption(a, g[k][1], g[k][2])
  <2>1. CASE k = Len(f)
    <3>1. g[k] = <<i, c>> /\ g[k + 1] = <<j, d>>
      BY <1>1, <1>2, <2>1
    <3>2. g[k][1] = i /\ g[k][2] = c
      BY <3>1
    <3>. QED
      BY <3>1, <3>2
  <2>2. CASE k # Len(f)
    <3>2. k \in 1 .. (Len(f) - 1) /\ k \in 1 .. Len(f) /\ k + 1 \in 1 .. Len(f)
      BY <1>2, <2>2
    <3>1. k \in 1 .. (Len(f) - 1) /\ g[k] = f[k] /\ g[k + 1] = f[k + 1]
      BY <1>2, <3>2
    <3>. QED
      BY <1>1, <3>1 DEF Path
  <2>. QED
    BY <2>1, <2>2
<1>4. Path(a, g)
  <2>1. f[1] = <<1, DefaultConfig>>
    BY <1>1 DEF Path
  <2>2. 1 \in 1 .. Len(f)
    BY <1>2
  <2>3. g[1] = f[1]
    BY <1>2, <2>2
  <2>. QED
    BY <1>2, <1>3, <2>1, <2>3 DEF Path
<1>. QED
  BY <1>2, <1>4 DEF Parsed
-----------------------------------------------------------------------------
(* What every csv holds.                                                    *)

ModesOf(c) ==
    LET Asked(mode) == IF mode \in c.modes THEN <<mode>> ELSE <<>>
    IN  Asked("warm") \o Asked("clflush") \o Asked("sweep")

PlanOf(c) ==
    [k \in 1 .. (Len(ModesOf(c)) * Len(Schedule)) |->
        [mode |-> ModesOf(c)[(k - 1) \div Len(Schedule) + 1],
         v    |-> Schedule[((k - 1) % Len(Schedule)) + 1]]]

\* A row of a launch with configuration c.
RowOf(row, c, n, bound) ==
    /\ row.v = PlanOf(c)[n].v /\ row.mode = PlanOf(c)[n].mode
    /\ Len(row.truth) = c.reps /\ row.st.n = c.reps
    /\ LeastOf(row.truth, Work(row.v, row.mode))
    /\ bound => row.st = Summary(row.truth)

PassOf(pass, c) ==
    /\ Len(pass.rows) = Len(PlanOf(c))
    /\ \A n \in 1 .. Len(pass.rows) : RowOf(pass.rows[n], c, n, pass.pinned)

ParseInv ==
    /\ pc # "exit" => Parsed(args, ai, cfg)
    /\ pc \notin {"parse", "exit"} => ai = Len(args) + 1 /\ InRange(cfg)

\* All csvs are of one configuration, and it is that of the launch that ended.
CsvsOf(c) ==
    /\ Parsed(args, Len(args) + 1, c) /\ InRange(c)
    /\ pc = "exit" => cfg = c
    /\ \A p \in 1 .. Len(csvs) : PassOf(csvs[p], c)

PInv == ParseInv /\ (csvs # <<>> => \E c \in Config : CsvsOf(c))

LEMMA PlanIs == Plan = PlanOf(cfg)
BY DEF Plan, Modes, IfAsked, PlanOf, ModesOf

LEMMA ArgsTyped == args \in ArgLists => Len(args) \in Nat
BY ArgListsAssumption

LEMMA InitPInv == Init => PInv
<1>. SUFFICES ASSUME Init PROVE PInv
  OBVIOUS
<1>1. Parsed(args, 1, DefaultConfig)
  BY ParsedStart
<1>. QED
  BY <1>1 DEF Init, PInv, ParseInv

\* A launch that has read its command line has the configuration of the csvs.
LEMMA SameConfig ==
    ASSUME RInv, PInv, NEW c \in Config, CsvsOf(c), pc # "exit"
    PROVE  /\ ai <= Len(args) => OptionOk(args, ai)
           /\ ai > Len(args) => cfg = c
<1>1. /\ Len(args) \in Nat /\ ai \in Nat /\ cfg \in Config /\ Parsed(args, ai, cfg)
      /\ Parsed(args, Len(args) + 1, c)
  BY ArgsTyped DEF RInv, TypeInv, PInv, ParseInv, CsvsOf
<1>2. PICK j \in Nat : j = Len(args) + 1
  BY <1>1
<1>3. Parsed(args, j, c) /\ j > Len(args)
  BY <1>1, <1>2
<1>4. (ai <= Len(args) /\ OptionOk(args, ai)) \/ (ai = j /\ cfg = c)
  BY <1>1, <1>3, ParsedOnce
<1>. QED
  BY <1>1, <1>2, <1>4

LEMMA ParseOptionPasses ==
    ASSUME RInv, PInv, RInv', ParseOption
    PROVE  PInv'
<1>1. /\ pc = "parse" /\ ai <= Len(args) /\ ai \in Nat /\ Len(args) \in Nat /\ cfg \in Config
      /\ args' = args /\ csvs' = csvs /\ Parsed(args, ai, cfg)
  BY ArgsTyped DEF ParseOption, RInv, TypeInv, PInv, ParseInv
<1>2. ai' \in Nat /\ cfg' \in Config
  BY <1>1, ArgsTyped DEF RInv, TypeInv
<1>3. CASE OptionOk(args, ai) /\ <<ai', cfg'>> = AfterOption(args, ai, cfg) /\ pc' = pc
  <2>1. Parsed(args, ai', cfg')
    BY <1>1, <1>2, <1>3, ParsedNext
  <2>2. ParseInv'
    BY <1>1, <1>3, <2>1 DEF ParseInv
  <2>3. \A c : CsvsOf(c) => CsvsOf(c)'
    BY <1>1, <1>3 DEF CsvsOf
  <2>. QED
    BY <1>1, <2>2, <2>3 DEF PInv
<1>4. CASE ~OptionOk(args, ai) /\ pc' = "exit"
  <2>1. csvs = <<>>
    <3>1. \A c \in Config : ~CsvsOf(c)
      BY <1>1, <1>4, SameConfig
    <3>. QED
      BY <3>1 DEF PInv
  <2>. QED
    BY <1>1, <1>4, <2>1 DEF PInv, ParseInv
<1>5. \/ OptionOk(args, ai) /\ <<ai', cfg'>> = AfterOption(args, ai, cfg) /\ pc' = pc
      \/ ~OptionOk(args, ai) /\ pc' = "exit"
  <2>. DEFINE opt == args[ai].text
  <2>1. CASE /\ opt \in TakesValue /\ ai < Len(args)
             /\ opt = "--mode" => ModeKnown(args[ai + 1])
             /\ cfg' = WithValue(cfg, opt, args[ai + 1]) /\ ai' = ai + 2 /\ pc' = pc
    BY <2>1 DEF OptionOk, AfterOption
  <2>2. CASE /\ opt \in {"--csv", "--verify"}
             /\ cfg' = IF opt = "--csv" THEN [cfg EXCEPT !.csv = TRUE]
                       ELSE [cfg EXCEPT !.verify_only = TRUE]
             /\ ai' = ai + 1 /\ pc' = pc
    BY <2>2 DEF OptionOk, AfterOption, TakesValue
  <2>3. CASE /\ \/ opt \in TakesValue /\ ai = Len(args)
                \/ opt = "--mode" /\ ai < Len(args) /\ ~ModeKnown(args[ai + 1])
                \/ opt \notin TakesValue \cup {"--csv", "--verify"}
             /\ pc' = "exit"
    BY <1>1, <2>3 DEF OptionOk, TakesValue
  <2>. QED
    BY <1>1, <2>1, <2>2, <2>3 DEF ParseOption, Exit
<1>. QED
  BY <1>3, <1>4, <1>5

LEMMA ParseEndPasses ==
    ASSUME RInv, PInv, ParseEnd
    PROVE  PInv'
<1>1. /\ pc = "parse" /\ ai > Len(args) /\ ai = Len(args) + 1 /\ Len(args) \in Nat /\ cfg \in Config
      /\ UNCHANGED <<args, ai, cfg, csvs>> /\ Parsed(args, ai, cfg)
      /\ pc' = IF InRange(cfg) THEN "pin" ELSE "exit"
  BY ArgsTyped DEF ParseEnd, Exit, RInv, TypeInv, PInv, ParseInv
<1>2. CASE InRange(cfg)
  <2>1. ParseInv'
    BY <1>1, <1>2 DEF ParseInv
  <2>2. \A c : CsvsOf(c) => CsvsOf(c)'
    BY <1>1, <1>2 DEF CsvsOf
  <2>. QED
    BY <1>1, <2>1, <2>2 DEF PInv
<1>3. CASE ~InRange(cfg)
  <2>1. \A c \in Config : CsvsOf(c) => cfg = c /\ InRange(c)
    BY <1>1, SameConfig DEF CsvsOf
  <2>2. csvs = <<>>
    BY <1>3, <2>1 DEF PInv
  <2>. QED
    BY <1>1, <1>3, <2>2 DEF PInv, ParseInv
<1>. QED
  BY <1>2, <1>3

\* Steps that keep the configuration and print no csv.
LEMMA SilentPasses ==
    ASSUME RInv, PInv, UNCHANGED <<args, ai, cfg, csvs>>,
           pc' = pc \/ (pc \notin {"parse", "exit"} /\ pc' # "parse")
    PROVE  PInv'
<1>1. CASE pc' = pc
  BY <1>1 DEF PInv, ParseInv, CsvsOf
<1>2. CASE pc \notin {"parse", "exit"} /\ pc' # "parse"
  <2>1. ParseInv'
    BY <1>2 DEF PInv, ParseInv
  <2>2. ai > Len(args)
    BY <1>2, ArgsTyped DEF PInv, ParseInv, RInv, TypeInv
  <2>3. \A c \in Config : CsvsOf(c) => CsvsOf(c)'
    <3>. SUFFICES ASSUME NEW c \in Config, CsvsOf(c) PROVE CsvsOf(c)'
      OBVIOUS
    <3>1. cfg = c
      BY <1>2, <2>2, SameConfig
    <3>. QED
      BY <3>1 DEF CsvsOf
  <2>. QED
    BY <2>1, <2>3 DEF PInv
<1>. QED
  BY <1>1, <1>2

LEMMA ReportPasses ==
    ASSUME RInv, PInv, PrintReport
    PROVE  PInv'
<1>1. /\ pc = "report" /\ pc' = "exit"
      /\ csvs' = IF cfg.csv
                 THEN Append(csvs, [csv |-> Csv(rows), rows |-> rows, pinned |-> pinned])
                 ELSE csvs
      /\ UNCHANGED <<args, ai, cfg>>
  BY DEF PrintReport, Exit
<1>2. CASE ~cfg.csv
  <2>1. csvs' = csvs
    BY <1>1, <1>2
  <2>. QED
    BY <1>1, <2>1, SilentPasses
<1>3. CASE cfg.csv
  <2>1. /\ ai > Len(args) /\ InRange(cfg) /\ Parsed(args, Len(args) + 1, cfg) /\ cfg \in Config
        /\ csvs \in Seq(PassType)
    BY <1>1, ArgsTyped DEF PInv, ParseInv, RInv, TypeInv
  <2>2. PICK pass : pass = [csv |-> Csv(rows), rows |-> rows, pinned |-> pinned]
    OBVIOUS
  <2>3. PassOf(pass, cfg)
    <3>1. pass.rows = rows /\ pass.pinned = pinned
      BY <2>2
    <3>2. /\ Len(rows) = Len(PlanOf(cfg))
          /\ \A n \in 1 .. Len(rows) : RowAt(rows[n], n)
      BY <1>1, PlanIs DEF RInv, TableInv
    <3>3. \A n \in 1 .. Len(rows) : RowOf(rows[n], cfg, n, pinned)
      BY <3>2, PlanIs DEF RowAt, RowOf
    <3>. QED
      BY <3>1, <3>2, <3>3 DEF PassOf
  <2>4. \A p \in 1 .. Len(csvs) : PassOf(csvs[p], cfg)
    <3>1. CASE csvs = <<>>
      BY <3>1
    <3>2. CASE csvs # <<>>
      <4>1. PICK c \in Config : CsvsOf(c)
        BY <3>2 DEF PInv
      <4>2. cfg = c
        BY <1>1, <2>1, <4>1, SameConfig
      <4>. QED
        BY <4>1, <4>2 DEF CsvsOf
    <3>. QED
      BY <3>1, <3>2
  <2>5. csvs' = Append(csvs, pass)
    BY <1>1, <1>3, <2>2
  <2>6. \A p \in 1 .. Len(csvs') : PassOf(csvs'[p], cfg)
    <3>1. Len(csvs') = Len(csvs) + 1 /\ Len(csvs) \in Nat
      BY <2>1, <2>5
    <3>2. \A p \in 1 .. Len(csvs') : csvs'[p] = IF p = Len(csvs) + 1 THEN pass ELSE csvs[p]
      BY <2>1, <2>5
    <3>. QED
      BY <2>3, <2>4, <3>1, <3>2
  <2>7. CsvsOf(cfg)'
    BY <1>1, <2>1, <2>6 DEF CsvsOf
  <2>8. \E c \in Config : CsvsOf(c)'
    <3>1. PICK c \in Config : c = cfg
      BY <2>1
    <3>2. CsvsOf(c)'
      BY <1>1, <2>1, <2>6, <3>1 DEF CsvsOf
    <3>. QED
      BY <3>2
  <2>9. ParseInv'
    BY <1>1 DEF ParseInv
  <2>. QED
    BY <2>8, <2>9 DEF PInv
<1>. QED
  BY <1>2, <1>3

LEMMA RelaunchPasses ==
    ASSUME RInv, PInv, Relaunch
    PROVE  PInv'
<1>1. /\ pc = "exit" /\ pc' = "parse" /\ ai' = 1 /\ cfg' = DefaultConfig
      /\ UNCHANGED <<args, csvs>>
  BY DEF Relaunch
<1>2. ParseInv'
  BY <1>1, ParsedStart DEF ParseInv
<1>3. \A c : CsvsOf(c) => CsvsOf(c)'
  BY <1>1 DEF CsvsOf
<1>. QED
  BY <1>1, <1>2, <1>3 DEF PInv

LEMMA NextPInv == RInv /\ PInv /\ RInv' /\ [Next]_vars => PInv'
<1>. SUFFICES ASSUME RInv, PInv, RInv', [Next]_vars PROVE PInv'
  OBVIOUS
<1>1. CASE UNCHANGED vars
  <2>1. UNCHANGED <<args, ai, cfg, csvs, pc>>
    BY <1>1 DEF vars
  <2>. QED
    BY <2>1, SilentPasses
<1>2. CASE \/ Pin \/ Verify \/ CalibrateStart \/ CalibrateStamp \/ Spin \/ CalibrateEnd
           \/ ReserveFails \/ Start \/ Call \/ PushRow
           \/ (\E d \in Stalls : Stall(d)) \/ (\E c \in Cores : Migrate(c))
  <2>1. UNCHANGED <<args, ai, cfg, csvs>>
    BY <1>2 DEF Pin, Verify, CalibrateStart, CalibrateStamp, Spin, CalibrateEnd, ReserveFails, Start,
       Call, PushRow, Stall, Migrate
  <2>2. pc' = pc \/ (pc \notin {"parse", "exit"} /\ pc' # "parse")
    BY <1>2 DEF Pin, Verify, CalibrateStart, CalibrateStamp, Spin, CalibrateEnd, ReserveFails, Start,
       Call, PushRow, Stall, Migrate, Exit
  <2>. QED
    BY <2>1, <2>2, SilentPasses
<1>. QED
  BY <1>1, <1>2, ParseOptionPasses, ParseEndPasses, ReportPasses, RelaunchPasses
     DEF Next, Program, Done

LEMMA PassesInductive == Spec => [](RInv /\ PInv)
BY RowsInductive, InitPInv, NextPInv, PTL DEF Spec
-----------------------------------------------------------------------------
(* The figures of a csv.                                                    *)

\* The quotient that / is.
LEMMA DivIs ==
    ASSUME NEW m \in Nat \ {0}, NEW y \in Nat, NEW q \in Nat, q * m <= y, y < q * m + m
    PROVE  y \div m = q
<1>. DEFINE d == y \div m
            r == y % m
<1>1. y = d * m + r /\ d \in Nat /\ r \in 0 .. (m - 1)
  <2>1. \A x \in Nat, k \in Nat \ {0} :
            x = (x \div k) * k + (x % k) /\ x \div k \in Nat /\ x % k \in 0 .. (k - 1)
    OBVIOUS
  <2>. QED
    BY <2>1
<1>. HIDE DEF d, r
<1>2. ~(d < q)
  <2>. SUFFICES ASSUME d < q PROVE FALSE
    OBVIOUS
  <2>1. q - d - 1 \in Nat /\ (q - d - 1) * m \in Nat /\ q * m = d * m + m + (q - d - 1) * m
    BY <1>1
  <2>. QED
    BY <1>1, <2>1
<1>3. ~(d > q)
  <2>. SUFFICES ASSUME d > q PROVE FALSE
    OBVIOUS
  <2>1. d - q - 1 \in Nat /\ (d - q - 1) * m \in Nat /\ d * m = q * m + m + (d - q - 1) * m
    BY <1>1
  <2>. QED
    BY <1>1, <2>1
<1>. QED
  BY <1>1, <1>2, <1>3 DEF d

LEMMA DivScale ==
    ASSUME NEW k \in Nat \ {0}, NEW y \in Nat, NEW m \in Nat \ {0}
    PROVE  (k * y) \div (k * m) = y \div m
<1>. DEFINE d == y \div m
<1>1. d * m <= y /\ y < d * m + m /\ d \in Nat
  <2>1. \A x \in Nat, n \in Nat \ {0} :
            x = (x \div n) * n + (x % n) /\ x \div n \in Nat /\ x % n \in 0 .. (n - 1)
    OBVIOUS
  <2>2. y = d * m + (y % m) /\ d \in Nat /\ y % m \in 0 .. (m - 1)
    BY <2>1
  <2>. QED
    BY <2>2
<1>. HIDE DEF d
<1>2. k * m \in Nat \ {0} /\ k * y \in Nat
  <2>1. k * m \in Nat /\ k * m # 0
    OBVIOUS
  <2>. QED
    BY <2>1
<1>3. d * (k * m) <= k * y
  <2>1. PICK a \in Nat : y = d * m + a
    <3>1. y - d * m \in Nat /\ y = d * m + (y - d * m)
      BY <1>1
    <3>. QED
      BY <3>1
  <2>2. k * a \in Nat /\ k * y = d * (k * m) + k * a
    BY <1>1, <2>1
  <2>. QED
    BY <1>1, <1>2, <2>2
<1>4. k * y < d * (k * m) + k * m
  <2>1. PICK a \in Nat : d * m + m = y + a + 1
    <3>1. d * m + m - y - 1 \in Nat /\ d * m + m = y + (d * m + m - y - 1) + 1
      BY <1>1
    <3>. QED
      BY <3>1
  <2>2. k * a \in Nat /\ d * (k * m) + k * m = k * y + k * a + k
    BY <1>1, <2>1
  <2>. QED
    BY <1>1, <1>2, <2>2
<1>. DEFINE mm == k * m
            yy == k * y
<1>5. mm \in Nat \ {0} /\ yy \in Nat /\ d * mm <= yy /\ yy < d * mm + mm
  BY <1>2, <1>3, <1>4
<1>. HIDE DEF mm, yy
<1>6. yy \div mm = d
  BY <1>1, <1>5, DivIs
<1>. QED
  BY <1>6 DEF mm, yy, d

LEMMA ThousandthsTyped ==
    ASSUME NEW val \in Int, NEW base \in Int
    PROVE  Quotient(val, base) \in Int
<1>. SUFFICES ASSUME base > 0 PROVE Thousandths(val, base) \in Int
  BY DEF Quotient
<1>1. \A y \in Int, m \in Nat \ {0} : y \div m \in Int
  OBVIOUS
<1>2. 2 * base \in Nat \ {0} /\ 2000 * val + base \in Int /\ 2000 * (-val) + base \in Int
  OBVIOUS
<1>3. /\ (2000 * val + base) \div (2 * base) \in Int
      /\ (2000 * (-val) + base) \div (2 * base) \in Int
  BY <1>1, <1>2
<1>. QED
  BY <1>3 DEF Thousandths

\* A ratio of totals is that of the times they are of equally many samples of.
LEMMA QuotientScale ==
    ASSUME NEW k \in Nat \ {0}, NEW val \in Int, NEW base \in Int
    PROVE  Quotient(k * val, k * base) = Quotient(val, base)
<1>1. k * base > 0 <=> base > 0
  <2>1. CASE base > 0
    BY <2>1
  <2>2. CASE base = 0
    BY <2>2
  <2>3. CASE base < 0
    <3>1. -base \in Nat \ {0} /\ k * (-base) > 0 /\ k * base = -(k * (-base))
      BY <2>3
    <3>. QED
      BY <2>3, <3>1
  <2>. QED
    BY <2>1, <2>2, <2>3
<1>2. ASSUME base > 0 PROVE Thousandths(k * val, k * base) = Thousandths(val, base)
  <2>1. k * val \in Int /\ k * base \in Int /\ 2 * base \in Nat \ {0}
    BY <1>2
  <2>2. CASE val >= 0
    <3>1. k * val >= 0
      BY <2>2
    <3>. DEFINE y == 2000 * val + base
                m == 2 * base
    <3>2. y \in Nat /\ m \in Nat \ {0}
      BY <1>2, <2>2
    <3>3. 2000 * (k * val) + k * base = k * y /\ 2 * (k * base) = k * m
      OBVIOUS
    <3>4. /\ Thousandths(k * val, k * base) = (k * y) \div (k * m)
          /\ Thousandths(val, base) = y \div m
      BY <2>2, <3>1, <3>3 DEF Thousandths
    <3>. HIDE DEF y, m
    <3>. QED
      BY <3>2, <3>4, DivScale
  <2>3. CASE val < 0
    <3>1. ~(k * val >= 0)
      <4>1. -val \in Nat \ {0} /\ k * (-val) > 0 /\ k * val = -(k * (-val))
        BY <2>3
      <4>. QED
        BY <2>1, <4>1
    <3>. DEFINE y == 2000 * (-val) + base
                m == 2 * base
    <3>2. y \in Nat /\ m \in Nat \ {0}
      BY <1>2, <2>3
    <3>3. 2000 * (-(k * val)) + k * base = k * y /\ 2 * (k * base) = k * m
      OBVIOUS
    <3>4. /\ Thousandths(k * val, k * base) = -((k * y) \div (k * m))
          /\ Thousandths(val, base) = -(y \div m)
      BY <2>3, <3>1, <3>3 DEF Thousandths
    <3>. HIDE DEF y, m
    <3>. QED
      BY <3>2, <3>4, DivScale
  <2>. QED
    BY <2>2, <2>3
<1>. QED
  BY <1>1, <1>2 DEF Quotient

\* Tables with the same cells in the same places.
Alike(t, u) ==
    /\ Len(t) = Len(u)
    /\ \A i \in 1 .. Len(t) : t[i].v = u[i].v /\ t[i].mode = u[i].mode

LEMMA SameNamed ==
    ASSUME NEW t, NEW u, Alike(t, u), NEW m, NEW name
    PROVE  NamedBaseline(t, m, name) = NamedBaseline(u, m, name)
<1>. DEFINE S == {i \in 1 .. Len(t) : t[i].v.group = "baseline" /\ t[i].mode = m
                                      /\ t[i].v.form = name}
            T == {i \in 1 .. Len(u) : u[i].v.group = "baseline" /\ u[i].mode = m
                                      /\ u[i].v.form = name}
<1>1. S = T
  BY DEF Alike
<1>2. NamedBaseline(t, m, name) = IF S # {} THEN Min(S) ELSE 0
  BY DEF NamedBaseline, SelectInSeq
<1>3. NamedBaseline(u, m, name) = IF T # {} THEN Min(T) ELSE 0
  BY DEF NamedBaseline, SelectInSeq
<1>. HIDE DEF S, T
<1>. QED
  BY <1>1, <1>2, <1>3

LEMMA SameObj ==
    ASSUME NEW t, NEW u, Alike(t, u), NEW r, NEW s, r.v = s.v, r.mode = s.mode
    PROVE  ObjBaseline(t, r) = ObjBaseline(u, s)
<1>. DEFINE S == {i \in 1 .. Len(t) :
                    /\ t[i].v.group = "baseline" /\ t[i].mode = r.mode
                    /\ t[i].v.arity = r.v.arity /\ t[i].v.hier = r.v.hier}
            T == {i \in 1 .. Len(u) :
                    /\ u[i].v.group = "baseline" /\ u[i].mode = s.mode
                    /\ u[i].v.arity = s.v.arity /\ u[i].v.hier = s.v.hier}
<1>1. S = T
  BY DEF Alike
<1>2. ObjBaseline(t, r) = IF S # {} THEN Min(S) ELSE 0
  BY DEF ObjBaseline, SelectInSeq
<1>3. ObjBaseline(u, s) = IF T # {} THEN Min(T) ELSE 0
  BY DEF ObjBaseline, SelectInSeq
<1>. HIDE DEF S, T
<1>. QED
  BY <1>1, <1>2, <1>3

LEMMA SameYardstick ==
    ASSUME NEW t, NEW u, Alike(t, u), NEW r, NEW s, r.v = s.v, r.mode = s.mode
    PROVE  YardstickOf(t, r) = YardstickOf(u, s)
<1>. DEFINE S == {i \in 1 .. Len(t) :
                    /\ t[i].v.group = "yardstick" /\ t[i].mode = r.mode
                    /\ t[i].v.arity = r.v.arity /\ t[i].v.hier = r.v.hier
                    /\ t[i].v.body = r.v.body}
            T == {i \in 1 .. Len(u) :
                    /\ u[i].v.group = "yardstick" /\ u[i].mode = s.mode
                    /\ u[i].v.arity = s.v.arity /\ u[i].v.hier = s.v.hier
                    /\ u[i].v.body = s.v.body}
<1>1. S = T
  BY DEF Alike
<1>2. YardstickOf(t, r) = IF r.v.arity = 0 \/ r.v.group = "baseline" THEN NoRow
                          ELSE IF S # {} THEN Min(S) ELSE 0
  BY DEF YardstickOf, SelectInSeq
<1>3. YardstickOf(u, s) = IF s.v.arity = 0 \/ s.v.group = "baseline" THEN NoRow
                          ELSE IF T # {} THEN Min(T) ELSE 0
  BY DEF YardstickOf, SelectInSeq
<1>. HIDE DEF S, T
<1>. QED
  BY <1>1, <1>2, <1>3

LEMMA SameFrom ==
    ASSUME NEW t, NEW u, Alike(t, u), NEW r, NEW s, r.v = s.v, r.mode = s.mode
    PROVE  DispFrom(t, r) = DispFrom(u, s)
<1>1. \A name : NamedBaseline(t, r.mode, name) = NamedBaseline(u, s.mode, name)
  BY SameNamed
<1>2. ObjBaseline(t, r) = ObjBaseline(u, s)
  BY SameObj
<1>. QED
  BY <1>1, <1>2 DEF DispFrom

\* A search finds a row, or none.
LEMMA FoundIn ==
    ASSUME NEW n \in Nat, NEW S \in SUBSET (1 .. n)
    PROVE  (IF S # {} THEN Min(S) ELSE 0) \in 0 .. n
<1>1. CASE S = {}
  BY <1>1
<1>2. CASE S # {}
  <2>1. S \in SUBSET Nat
    OBVIOUS
  <2>2. PICK m \in S : m = Min(S)
    BY <1>2, <2>1, NatMin
  <2>3. m \in 0 .. n
    OBVIOUS
  <2>. QED
    BY <1>2, <2>2, <2>3
<1>. QED
  BY <1>1, <1>2

LEMMA NamedFound ==
    ASSUME NEW t, Len(t) \in Nat, NEW m, NEW name
    PROVE  NamedBaseline(t, m, name) \in 0 .. Len(t)
<1>. DEFINE S == {i \in 1 .. Len(t) : t[i].v.group = "baseline" /\ t[i].mode = m
                                      /\ t[i].v.form = name}
<1>1. NamedBaseline(t, m, name) = IF S # {} THEN Min(S) ELSE 0
  BY DEF NamedBaseline, SelectInSeq
<1>2. S \in SUBSET (1 .. Len(t))
  OBVIOUS
<1>. HIDE DEF S
<1>. QED
  BY <1>1, <1>2, FoundIn

LEMMA RowsFound ==
    ASSUME NEW t, Len(t) \in Nat, NEW r
    PROVE  DispFrom(t, r) \in 0 .. Len(t) /\ YardstickOf(t, r) \in 0 .. Len(t)
<1>1. \A name : NamedBaseline(t, r.mode, name) \in 0 .. Len(t)
  BY NamedFound
<1>2. ObjBaseline(t, r) \in 0 .. Len(t)
  <2>. DEFINE S == {i \in 1 .. Len(t) :
                 /\ t[i].v.group = "baseline" /\ t[i].mode = r.mode
                 /\ t[i].v.arity = r.v.arity /\ t[i].v.hier = r.v.hier}
  <2>1. ObjBaseline(t, r) = IF S # {} THEN Min(S) ELSE 0
    BY DEF ObjBaseline, SelectInSeq
  <2>2. S \in SUBSET (1 .. Len(t))
    OBVIOUS
  <2>. HIDE DEF S
  <2>. QED
    BY <2>1, <2>2, FoundIn
<1>3. YardstickOf(t, r) \in 0 .. Len(t)
  <2>. DEFINE S == {i \in 1 .. Len(t) :
                 /\ t[i].v.group = "yardstick" /\ t[i].mode = r.mode
                 /\ t[i].v.arity = r.v.arity /\ t[i].v.hier = r.v.hier
                 /\ t[i].v.body = r.v.body}
  <2>1. YardstickOf(t, r) = IF r.v.arity = 0 \/ r.v.group = "baseline" THEN NoRow
                            ELSE IF S # {} THEN Min(S) ELSE 0
    BY DEF YardstickOf, SelectInSeq
  <2>2. S \in SUBSET (1 .. Len(t))
    OBVIOUS
  <2>. HIDE DEF S
  <2>3. (IF S # {} THEN Min(S) ELSE 0) \in 0 .. Len(t)
    BY <2>2, FoundIn
  <2>. QED
    BY <2>1, <2>3 DEF NoRow
<1>. QED
  BY <1>1, <1>2, <1>3 DEF DispFrom, NoRow

\* The total of a row whose disturbed samples are all trimmed.
LEMMA CleanTotal ==
    ASSUME NEW row \in RowType, NEW c \in Config, NEW n, c.reps # 0, RowOf(row, c, n, TRUE),
           NDirty(row) <= c.reps \div TrimPer
    PROVE  /\ Work(row.v, row.mode) \in Int
           /\ row.st.total = Keep(c.reps) * Work(row.v, row.mode)
<1>. DEFINE s == row.truth
            w == Work(row.v, row.mode)
<1>1. w \in Int
  <2>1. row.v \in Range(Schedule) /\ row.mode \in CacheModes
    BY DEF RowType
  <2>2. \E k \in 1 .. Len(Schedule) : row.v = Schedule[k]
    BY <2>1, BenchmarkAssumption DEF Range
  <2>. QED
    BY <2>1, <2>2, WindowAssumption
<1>2. s \in Seq(Int) /\ Len(s) = c.reps /\ LeastOf(s, w) /\ row.st = Summary(s) /\ c.reps \in Nat
  BY WidthsAssumption DEF RowOf, RowType, Config
<1>3. NDirty(row) = Slower(s, w) /\ s # <<>>
  BY <1>2 DEF NDirty, Dirty, Slower
<1>. HIDE DEF s, w
<1>4. LET k == Len(s)  d == Slower(s, w)  st == Summary(s) IN
         (st.total = Keep(k) * w) <=> (d <= k \div TrimPer)
  BY <1>1, <1>2, <1>3, SummaryRobust
<1>. QED
  BY <1>1, <1>2, <1>3, <1>4 DEF w

LEMMA PassFacts ==
    ASSUME RInv, NEW c \in Config, CsvsOf(c), NEW p \in 1 .. Len(csvs)
    PROVE  /\ csvs[p].rows \in Seq(RowType) /\ csvs[p].pinned \in BOOLEAN
           /\ csvs[p].csv = Csv(csvs[p].rows)
           /\ PassOf(csvs[p], c)
           /\ Alike(csvs[1].rows, csvs[p].rows)
<1>1. csvs \in Seq(PassType) /\ 1 \in 1 .. Len(csvs)
  BY DEF RInv, TypeInv
<1>2. csvs[p] \in PassType /\ csvs[1] \in PassType
  BY <1>1
<1>3. PassOf(csvs[p], c) /\ PassOf(csvs[1], c)
  BY <1>1 DEF CsvsOf
<1>4. Alike(csvs[1].rows, csvs[p].rows)
  BY <1>3 DEF PassOf, RowOf, Alike
<1>5. /\ csvs[p].rows \in Seq(RowType) /\ csvs[p].pinned \in BOOLEAN
      /\ csvs[p].csv = Csv(csvs[p].rows)
  BY <1>2 DEF PassType
<1>. QED
  BY <1>3, <1>4, <1>5

\* In a pass with the trim's measure of disturbances at a row, its total is that
\* of undisturbed calls.
LEMMA CleanWork ==
    ASSUME RInv, NEW c \in Config, CsvsOf(c), pc = "exit", NEW p \in 1 .. Len(csvs),
           NEW m \in 1 .. Len(csvs[1].rows), csvs[p].pinned,
           NDirty(csvs[p].rows[m]) <= cfg.reps \div TrimPer
    PROVE  /\ TrueWork(csvs[1].rows, m) \in Int
           /\ csvs[p].rows[m].st.total = Keep(cfg.reps) * TrueWork(csvs[1].rows, m)
<1>. DEFINE t == csvs[1].rows
            u == csvs[p].rows
<1>1. u \in Seq(RowType) /\ PassOf(csvs[p], c) /\ Alike(t, u)
  BY PassFacts
<1>2. cfg = c /\ c.reps # 0
  BY DEF CsvsOf, InRange
<1>3. m \in 1 .. Len(u) /\ u[m].v = t[m].v /\ u[m].mode = t[m].mode
  BY <1>1 DEF Alike
<1>4. u[m] \in RowType /\ RowOf(u[m], c, m, TRUE)
  BY <1>1, <1>3 DEF PassOf, RowOf
<1>5. /\ Work(u[m].v, u[m].mode) \in Int
      /\ u[m].st.total = Keep(c.reps) * Work(u[m].v, u[m].mode)
  <2>. HIDE DEF u, t
  <2>. QED
    BY <1>2, <1>4, CleanTotal DEF u
<1>. QED
  BY <1>2, <1>3, <1>5 DEF TrueWork

LEMMA Distributes ==
    ASSUME NEW k \in Int, NEW i \in Int, NEW j \in Int
    PROVE  k * i - k * j = k * (i - j) /\ i - j \in Int
OBVIOUS

LEMMA KeepTyped ==
    ASSUME NEW c \in Config, c.reps # 0
    PROVE  Keep(c.reps) \in Nat \ {0}
<1>1. PICK k \in Nat \ {0} : k = c.reps
  BY WidthsAssumption DEF Config
<1>2. Keep(k) \in 1 .. k
  BY KeepsSome
<1>. QED
  BY <1>1, <1>2

\* The difference of two clean rows.
LEMMA CleanDifference ==
    ASSUME RInv, NEW c \in Config, CsvsOf(c), pc = "exit", NEW p \in 1 .. Len(csvs),
           NEW n \in 1 .. Len(csvs[1].rows), NEW b \in 1 .. Len(csvs[1].rows),
           CleanFor(csvs[p], {n, b})
    PROVE  LET w == TrueWork(csvs[1].rows, n) - TrueWork(csvs[1].rows, b) IN
           /\ w \in Int
           /\ csvs[p].rows[n].st.total - csvs[p].rows[b].st.total = Keep(cfg.reps) * w
<1>1. /\ TrueWork(csvs[1].rows, n) \in Int /\ TrueWork(csvs[1].rows, b) \in Int
      /\ csvs[p].rows[n].st.total = Keep(cfg.reps) * TrueWork(csvs[1].rows, n)
      /\ csvs[p].rows[b].st.total = Keep(cfg.reps) * TrueWork(csvs[1].rows, b)
  BY CleanWork DEF CleanFor
<1>2. Keep(cfg.reps) \in Int
  BY KeepTyped DEF CsvsOf, InRange
<1>. QED
  BY <1>1, <1>2, Distributes

\* The net of a clean pass.
LEMMA CleanNet ==
    ASSUME RInv, NEW c \in Config, CsvsOf(c), pc = "exit", NEW p \in 1 .. Len(csvs),
           NEW n \in 1 .. Len(csvs[1].rows), NoRow \notin NetRows(csvs[1].rows, n),
           CleanFor(csvs[p], NetRows(csvs[1].rows, n))
    PROVE  /\ TrueNet(csvs[1].rows, n) \in Int
           /\ Net(csvs[p].rows, csvs[p].rows[n]) = Keep(cfg.reps) * TrueNet(csvs[1].rows, n)
<1>. DEFINE t == csvs[1].rows
            u == csvs[p].rows
            b == NamedBaseline(t, t[n].mode, "probe")
<1>1. Alike(t, u) /\ t \in Seq(RowType) /\ Len(t) \in Nat
  <2>1. 1 \in 1 .. Len(csvs)
    BY DEF RInv, TypeInv
  <2>. QED
    BY <2>1, PassFacts
<1>2. NetRows(t, n) = {n, b}
  BY DEF NetRows
<1>3. b \in 1 .. Len(t)
  BY <1>1, <1>2, NamedFound DEF NoRow
<1>4. NamedBaseline(u, u[n].mode, "probe") = b
  BY <1>1, SameNamed DEF Alike
<1>5. Net(u, u[n]) = u[n].st.total - u[b].st.total
  BY <1>2, <1>4 DEF Net
<1>6. TrueNet(t, n) = TrueWork(t, n) - TrueWork(t, b)
  BY DEF TrueNet
<1>7. CleanFor(csvs[p], {n, b})
  BY <1>2
<1>. HIDE DEF b
<1>8. LET w == TrueWork(t, n) - TrueWork(t, b) IN
         w \in Int /\ u[n].st.total - u[b].st.total = Keep(cfg.reps) * w
  BY <1>3, <1>7, CleanDifference
<1>. QED
  BY <1>5, <1>6, <1>8

\* The disp of a clean pass.
LEMMA CleanDisp ==
    ASSUME RInv, NEW c \in Config, CsvsOf(c), pc = "exit", NEW p \in 1 .. Len(csvs),
           NEW n \in 1 .. Len(csvs[1].rows), NoRow \notin DispRows(csvs[1].rows, n),
           CleanFor(csvs[p], DispRows(csvs[1].rows, n))
    PROVE  /\ TrueDisp(csvs[1].rows, n) \in Int
           /\ Disp(csvs[p].rows, csvs[p].rows[n]) = Keep(cfg.reps) * TrueDisp(csvs[1].rows, n)
<1>. DEFINE t == csvs[1].rows
            u == csvs[p].rows
            b == DispFrom(t, t[n])
<1>1. Alike(t, u) /\ t \in Seq(RowType) /\ Len(t) \in Nat
  <2>1. 1 \in 1 .. Len(csvs)
    BY DEF RInv, TypeInv
  <2>. QED
    BY <2>1, PassFacts
<1>2. DispRows(t, n) = {n, b}
  BY DEF DispRows
<1>3. b \in 1 .. Len(t)
  BY <1>1, <1>2, RowsFound DEF NoRow
<1>4. DispFrom(u, u[n]) = b
  <2>1. t[n].v = u[n].v /\ t[n].mode = u[n].mode
    BY <1>1 DEF Alike
  <2>. HIDE DEF t, u
  <2>. QED
    BY <1>1, <2>1, SameFrom
<1>5. Disp(u, u[n]) = u[n].st.total - u[b].st.total
  BY <1>2, <1>4 DEF Disp
<1>6. TrueDisp(t, n) = TrueWork(t, n) - TrueWork(t, b)
  BY DEF TrueDisp
<1>7. CleanFor(csvs[p], {n, b})
  BY <1>2
<1>. HIDE DEF b
<1>8. LET w == TrueWork(t, n) - TrueWork(t, b) IN
         w \in Int /\ u[n].st.total - u[b].st.total = Keep(cfg.reps) * w
  BY <1>3, <1>7, CleanDifference
<1>. QED
  BY <1>5, <1>6, <1>8

\* The ratio of a clean pass.
LEMMA CleanXNet ==
    ASSUME RInv, NEW c \in Config, CsvsOf(c), pc = "exit", NEW p \in 1 .. Len(csvs),
           NEW n \in 1 .. Len(csvs[1].rows), NoRow \notin XNetRows(csvs[1].rows, n),
           CleanFor(csvs[p], XNetRows(csvs[1].rows, n))
    PROVE  XNet(csvs[p].rows, csvs[p].rows[n]) =
              Quotient(TrueNet(csvs[1].rows, n),
                       TrueNet(csvs[1].rows, YardstickOf(csvs[1].rows, csvs[1].rows[n])))
<1>. DEFINE t == csvs[1].rows
            u == csvs[p].rows
            y == YardstickOf(t, t[n])
<1>1. Alike(t, u) /\ t \in Seq(RowType) /\ Len(t) \in Nat
  <2>1. 1 \in 1 .. Len(csvs)
    BY DEF RInv, TypeInv
  <2>. QED
    BY <2>1, PassFacts
<1>2. y \in XNetRows(t, n)
  BY DEF XNetRows
<1>3. y \in 1 .. Len(t) /\ y # NoRow
  BY <1>1, <1>2, RowsFound DEF NoRow
<1>4. NetRows(t, n) \subseteq XNetRows(t, n) /\ NetRows(t, y) \subseteq XNetRows(t, n)
  <2>1. n # NoRow
    BY DEF NoRow
  <2>. QED
    BY <1>3, <2>1 DEF XNetRows
<1>5. YardstickOf(u, u[n]) = y
  <2>1. t[n].v = u[n].v /\ t[n].mode = u[n].mode
    BY <1>1 DEF Alike
  <2>. HIDE DEF t, u
  <2>. QED
    BY <1>1, <2>1, SameYardstick
<1>6. XNet(u, u[n]) = Quotient(Net(u, u[n]), Net(u, u[y]))
  BY <1>3, <1>5 DEF XNet
<1>. HIDE DEF y
<1>7. /\ NoRow \notin NetRows(t, n) /\ CleanFor(csvs[p], NetRows(t, n))
      /\ NoRow \notin NetRows(t, y) /\ CleanFor(csvs[p], NetRows(t, y))
  BY <1>4 DEF CleanFor
<1>8. /\ TrueNet(t, n) \in Int /\ Net(u, u[n]) = Keep(cfg.reps) * TrueNet(t, n)
      /\ TrueNet(t, y) \in Int /\ Net(u, u[y]) = Keep(cfg.reps) * TrueNet(t, y)
  BY <1>3, <1>7, CleanNet
<1>9. Keep(cfg.reps) \in Nat \ {0}
  BY KeepTyped DEF CsvsOf, InRange
<1>10. XNet(u, u[n]) = Quotient(TrueNet(t, n), TrueNet(t, y))
  BY <1>6, <1>8, <1>9, QuotientScale
<1>. QED
  BY <1>10 DEF y

LEMMA FiguresTyped ==
    ASSUME NEW t \in Seq(RowType), NEW n \in 1 .. Len(t)
    PROVE  /\ Csv(t)[n].net = Net(t, t[n]) /\ Csv(t)[n].disp = Disp(t, t[n])
           /\ Csv(t)[n].xnet = XNet(t, t[n])
           /\ Net(t, t[n]) \in Int /\ Disp(t, t[n]) \in Int /\ XNet(t, t[n]) \in Int
<1>1. \A m \in 1 .. Len(t) : t[m].st.total \in Int
  <2>1. \A m \in 1 .. Len(t) : t[m] \in RowType
    OBVIOUS
  <2>2. \A row \in RowType : row.st.total \in Int
    BY DEF RowType, StatsType
  <2>. QED
    BY <2>1, <2>2
<1>2. ASSUME NEW m \in 1 .. Len(t) PROVE Net(t, t[m]) \in Int /\ Disp(t, t[m]) \in Int
  <2>1. DispFrom(t, t[m]) \in 0 .. Len(t)
    BY RowsFound
  <2>2. NamedBaseline(t, t[m].mode, "probe") \in 0 .. Len(t)
    BY NamedFound
  <2>. QED
    BY <1>1, <2>1, <2>2 DEF Net, Disp, NoRow
<1>3. XNet(t, t[n]) \in Int
  <2>1. CASE YardstickOf(t, t[n]) = NoRow
    BY <2>1 DEF XNet
  <2>2. CASE YardstickOf(t, t[n]) # NoRow
    <3>1. PICK y \in 1 .. Len(t) : y = YardstickOf(t, t[n])
      BY <2>2, RowsFound DEF NoRow
    <3>2. XNet(t, t[n]) = Quotient(Net(t, t[n]), Net(t, t[y]))
      BY <2>2, <3>1 DEF XNet
    <3>. QED
      BY <1>2, <3>1, <3>2, ThousandthsTyped
  <2>. QED
    BY <2>1, <2>2
<1>4. /\ Csv(t)[n].net = Net(t, t[n]) /\ Csv(t)[n].disp = Disp(t, t[n])
      /\ Csv(t)[n].xnet = XNet(t, t[n])
  BY DEF Csv
<1>. QED
  BY <1>2, <1>3, <1>4

\* A median of figures, most of them of clean passes.
LEMMA MedianIs ==
    ASSUME NEW s, NEW k \in Nat, s \in [1 .. k -> Int], NEW x,
           NEW Clean \in SUBSET (1 .. k), 2 * Cardinality(Clean) > k,
           \A p \in Clean : s[p] = x
    PROVE  MedianTwice(s) = 2 * x
<1>. DEFINE Right == {p \in DOMAIN s : s[p] = x}
<1>1. s \in Seq(Int) /\ Len(s) = k /\ DOMAIN s = 1 .. k
  OBVIOUS
<1>2. Right \in SUBSET (1 .. k) /\ Clean \subseteq Right
  BY <1>1
<1>. HIDE DEF Right
<1>3. IsFiniteSet(Right) /\ IsFiniteSet(Clean)
  <2>1. IsFiniteSet(1 .. k)
    BY FS_Interval
  <2>. QED
    BY <1>2, <2>1, FS_Subset
<1>4. Cardinality(Clean) <= Cardinality(Right)
  BY <1>2, <1>3, FS_Subset
<1>5. Cardinality(Right) \in Nat /\ Cardinality(Clean) \in Nat
  BY <1>3, FS_CardinalityType
<1>6. 2 * Cardinality(Right) > Len(s)
  BY <1>1, <1>4, <1>5
<1>7. x \in Int
  <2>1. Clean # {}
    <3>1. Clean = {} => Cardinality(Clean) = 0
      BY FS_EmptySet
    <3>. QED
      BY <3>1
  <2>2. PICK p \in Clean : TRUE
    BY <2>1
  <2>. QED
    BY <1>1, <2>2
<1>. QED
  BY <1>1, <1>6, <1>7, MedianOfMajority DEF Right

\* The net, disp and x net that report.py prints are those of the undisturbed
\* calls, whatever the other passes hold, if more than half of the passes were
\* clean for the rows they come from.
THEOREM MedianOfCleanPasses == Spec => []PublishedExact
<1>1. ASSUME RInv, PInv PROVE PublishedExact
  <2>. SUFFICES ASSUME pc = "exit", csvs # <<>>, NEW n \in 1 .. Len(csvs[1].rows)
                PROVE  LET table == csvs[1].rows
                           Passes == 1 .. Len(csvs)
                           Mean(ticks) == Keep(cfg.reps) * ticks
                       IN  /\ MostlyClean(NetRows(table, n)) =>
                                MedianTwice([p \in Passes |-> csvs[p].csv[n].net]) =
                                2 * Mean(TrueNet(table, n))
                           /\ MostlyClean(DispRows(table, n)) =>
                                MedianTwice([p \in Passes |-> csvs[p].csv[n].disp]) =
                                2 * Mean(TrueDisp(table, n))
                           /\ MostlyClean(XNetRows(table, n)) =>
                                MedianTwice([p \in Passes |-> csvs[p].csv[n].xnet]) =
                                2 * Quotient(TrueNet(table, n),
                                             TrueNet(table, YardstickOf(table, table[n])))
    BY DEF PublishedExact
  <2>. DEFINE t == csvs[1].rows
              k == Len(csvs)
              Clean(rs) == {p \in 1 .. k : CleanFor(csvs[p], rs)}
  <2>1. PICK c \in Config : CsvsOf(c)
    BY <1>1 DEF PInv
  <2>2. k \in Nat
    BY <1>1 DEF RInv, TypeInv
  <2>3. \A p \in 1 .. k :
           /\ csvs[p].csv[n].net = Net(csvs[p].rows, csvs[p].rows[n])
           /\ csvs[p].csv[n].disp = Disp(csvs[p].rows, csvs[p].rows[n])
           /\ csvs[p].csv[n].xnet = XNet(csvs[p].rows, csvs[p].rows[n])
           /\ csvs[p].csv[n].net \in Int /\ csvs[p].csv[n].disp \in Int
           /\ csvs[p].csv[n].xnet \in Int
    <3>. SUFFICES ASSUME NEW p \in 1 .. k
                  PROVE  /\ csvs[p].csv[n].net = Net(csvs[p].rows, csvs[p].rows[n])
                         /\ csvs[p].csv[n].disp = Disp(csvs[p].rows, csvs[p].rows[n])
                         /\ csvs[p].csv[n].xnet = XNet(csvs[p].rows, csvs[p].rows[n])
                         /\ csvs[p].csv[n].net \in Int /\ csvs[p].csv[n].disp \in Int
                         /\ csvs[p].csv[n].xnet \in Int
      OBVIOUS
    <3>1. /\ csvs[p].rows \in Seq(RowType) /\ csvs[p].csv = Csv(csvs[p].rows)
          /\ Alike(t, csvs[p].rows)
      BY <1>1, <2>1, PassFacts
    <3>2. PICK u \in Seq(RowType) : u = csvs[p].rows /\ n \in 1 .. Len(u)
      BY <3>1 DEF Alike
    <3>3. /\ Csv(u)[n].net = Net(u, u[n]) /\ Csv(u)[n].disp = Disp(u, u[n])
          /\ Csv(u)[n].xnet = XNet(u, u[n])
          /\ Net(u, u[n]) \in Int /\ Disp(u, u[n]) \in Int /\ XNet(u, u[n]) \in Int
      BY <3>2, FiguresTyped
    <3>. QED
      BY <3>1, <3>2, <3>3
  <2>4. ASSUME NEW rs, MostlyClean(rs)
        PROVE  /\ NoRow \notin rs /\ Clean(rs) \in SUBSET (1 .. k)
               /\ 2 * Cardinality(Clean(rs)) > k
               /\ \A p \in Clean(rs) : p \in 1 .. k /\ CleanFor(csvs[p], rs)
    BY <2>4 DEF MostlyClean
  <2>. HIDE DEF Clean, k
  <2>5. ASSUME MostlyClean(NetRows(t, n))
        PROVE  MedianTwice([p \in 1 .. k |-> csvs[p].csv[n].net]) =
               2 * (Keep(cfg.reps) * TrueNet(t, n))
    <3>1. \A p \in Clean(NetRows(t, n)) :
            csvs[p].csv[n].net = Keep(cfg.reps) * TrueNet(t, n)
      BY <1>1, <2>1, <2>3, <2>4, <2>5, CleanNet DEF k
    <3>2. PICK s : s = [p \in 1 .. k |-> csvs[p].csv[n].net]
      OBVIOUS
    <3>3. s \in [1 .. k -> Int]
      BY <2>3, <3>2
    <3>4. PICK G \in SUBSET (1 .. k) : G = Clean(NetRows(t, n)) /\ 2 * Cardinality(G) > k
      BY <2>4, <2>5
    <3>5. \A p \in G : s[p] = csvs[p].csv[n].net
      BY <3>2
    <3>6. \A p \in G : s[p] = Keep(cfg.reps) * TrueNet(t, n)
      BY <3>1, <3>4, <3>5
    <3>7. MedianTwice(s) = 2 * (Keep(cfg.reps) * TrueNet(t, n))
      BY <2>2, <3>3, <3>4, <3>6, MedianIs
    <3>. QED
      BY <3>2, <3>7
  <2>6. ASSUME MostlyClean(DispRows(t, n))
        PROVE  MedianTwice([p \in 1 .. k |-> csvs[p].csv[n].disp]) =
               2 * (Keep(cfg.reps) * TrueDisp(t, n))
    <3>1. \A p \in Clean(DispRows(t, n)) :
            csvs[p].csv[n].disp = Keep(cfg.reps) * TrueDisp(t, n)
      BY <1>1, <2>1, <2>3, <2>4, <2>6, CleanDisp DEF k
    <3>2. PICK s : s = [p \in 1 .. k |-> csvs[p].csv[n].disp]
      OBVIOUS
    <3>3. s \in [1 .. k -> Int]
      BY <2>3, <3>2
    <3>4. PICK G \in SUBSET (1 .. k) : G = Clean(DispRows(t, n)) /\ 2 * Cardinality(G) > k
      BY <2>4, <2>6
    <3>5. \A p \in G : s[p] = csvs[p].csv[n].disp
      BY <3>2
    <3>6. \A p \in G : s[p] = Keep(cfg.reps) * TrueDisp(t, n)
      BY <3>1, <3>4, <3>5
    <3>7. MedianTwice(s) = 2 * (Keep(cfg.reps) * TrueDisp(t, n))
      BY <2>2, <3>3, <3>4, <3>6, MedianIs
    <3>. QED
      BY <3>2, <3>7
  <2>7. ASSUME MostlyClean(XNetRows(t, n))
        PROVE  MedianTwice([p \in 1 .. k |-> csvs[p].csv[n].xnet]) =
               2 * Quotient(TrueNet(t, n), TrueNet(t, YardstickOf(t, t[n])))
    <3>1. \A p \in Clean(XNetRows(t, n)) :
            csvs[p].csv[n].xnet = Quotient(TrueNet(t, n), TrueNet(t, YardstickOf(t, t[n])))
      BY <1>1, <2>1, <2>3, <2>4, <2>7, CleanXNet DEF k
    <3>2. PICK s : s = [p \in 1 .. k |-> csvs[p].csv[n].xnet]
      OBVIOUS
    <3>3. s \in [1 .. k -> Int]
      BY <2>3, <3>2
    <3>4. PICK G \in SUBSET (1 .. k) : G = Clean(XNetRows(t, n)) /\ 2 * Cardinality(G) > k
      BY <2>4, <2>7
    <3>5. \A p \in G : s[p] = csvs[p].csv[n].xnet
      BY <3>2
    <3>6. \A p \in G : s[p] = Quotient(TrueNet(t, n), TrueNet(t, YardstickOf(t, t[n])))
      BY <3>1, <3>4, <3>5
    <3>7. MedianTwice(s) = 2 * (Quotient(TrueNet(t, n), TrueNet(t, YardstickOf(t, t[n]))))
      BY <2>2, <3>3, <3>4, <3>6, MedianIs
    <3>. QED
      BY <3>2, <3>7
  <2>. QED
    BY <2>5, <2>6, <2>7 DEF k
<1>2. RInv /\ PInv => PublishedExact
  BY <1>1
<1>. QED
  BY <1>2, PassesInductive, PTL

\* Every csv is whole, whatever the command line, the memory and the passes before:
\* report.py finds in each the rows it finds in the first.
THEOREM TablesAreWhole == Spec => []WholeTables
<1>1. ASSUME RInv, PInv PROVE WholeTables
  <2>. SUFFICES ASSUME pc = "exit", NEW p \in 1 .. Len(csvs)
                PROVE  LET table == csvs[p].rows IN
                       /\ Len(table) = Len(Plan)
                       /\ \A n \in 1 .. Len(table) :
                             /\ table[n].v = Plan[n].v /\ table[n].mode = Plan[n].mode
                             /\ table[n].st.n = cfg.reps
    BY DEF WholeTables
  <2>1. PICK c \in Config : CsvsOf(c)
    <3>1. csvs # <<>>
      BY <1>1 DEF RInv, TypeInv
    <3>. QED
      BY <1>1, <3>1 DEF PInv
  <2>2. cfg = c /\ PassOf(csvs[p], c)
    BY <2>1 DEF CsvsOf
  <2>. QED
    BY <2>2, PlanIs DEF PassOf, RowOf
<1>2. RInv /\ PInv => WholeTables
  BY <1>1
<1>. QED
  BY <1>2, PassesInductive, PTL
=============================================================================
