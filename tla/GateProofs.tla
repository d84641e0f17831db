----------------------------- MODULE GateProofs -----------------------------
(***************************************************************************)
(* The correctness gate, for any number of classes and objects, any        *)
(* strides, any shuffle and any single fault.                              *)
(***************************************************************************)
EXTENDS Gate, TLAPS

\* What verify finds at a pair of positions: every call of the population is
\* answered, and with the id wanted.
Good(h, p, q) ==
    /\ \A m \in Checked[h] : Answered(m, p, q)
    /\ AllMatch(h, p, q)

\* From env on, every registry is initialised and every virtual_ptr was made
\* from the object it points to.
EnvInv ==
    /\ pc = "initialize" => inits < Len(InitOrder)
    /\ pc \in {"initialize", "env"} => pop = 1 /\ i = 0 /\ j = 0 /\ ok
    /\ pc \in {"env", "verify", "passed", "failed"} => Initialized = Registries
    /\ pc \in {"verify", "passed", "failed"} =>
          \A r \in VpRegistries, k \in Position :
              vpAt[r][k] = SeenAs(r, leafAt["main"][k])

\* As long as no check failed, everything sampled so far was good.
SampledInv ==
    /\ pc = "verify" =>
          /\ i % StrideI = 0 /\ j % StrideJ = 0
          /\ ok =>
                /\ \A n \in 1 .. (pop - 1), p \in SampledI, q \in SampledJ :
                      Good(PopOrder[n], p, q)
                /\ \A p \in SampledI, q \in SampledJ :
                      p < i \/ (p = i /\ q < j) => Good(PopOrder[pop], p, q)
    /\ pc = "passed" =>
          \A n \in 1 .. Len(PopOrder), p \in SampledI, q \in SampledJ :
              Good(PopOrder[n], p, q)

\* A program with no fault, or one that initialize rejects, never fails a check.
AlarmInv ==
    /\ pc = "verify" /\ fault.kind \in {"none", "unregistered"} => ok
    /\ NoFalseAlarm

IInv == TypeOK /\ EnvInv /\ SampledInv /\ AlarmInv
-----------------------------------------------------------------------------
(* The strides.                                                             *)

LEMMA DivMod ==
    ASSUME NEW p \in Nat, NEW s \in Nat \ {0}
    PROVE  p = (p \div s) * s + (p % s) /\ p \div s \in Nat /\ p % s \in 0 .. (s - 1)
OBVIOUS

LEMMA DivModOf ==
    ASSUME NEW q \in Nat, NEW r \in Nat, NEW s \in Nat \ {0}, r < s
    PROVE  (q * s + r) % s = r
OBVIOUS

LEMMA NextMultiple ==
    ASSUME NEW p \in Nat, NEW r \in Nat, NEW s \in Nat \ {0}, p % s = 0, r % s = 0
    PROVE  /\ p < r + s => p <= r
           /\ (r + s) % s = 0
<1>. DEFINE a == p \div s
            b == r \div s
<1>1. p = a * s /\ a \in Nat
  BY DivMod
<1>2. r = b * s /\ b \in Nat
  BY DivMod
<1>. HIDE DEF a, b
<1>3. ASSUME p < r + s PROVE p <= r
  <2>1. a * s < (b + 1) * s
    BY <1>1, <1>2, <1>3
  <2>2. ~(a >= b + 1)
    <3>. SUFFICES ASSUME a >= b + 1 PROVE FALSE
      OBVIOUS
    <3>1. a - (b + 1) \in Nat /\ (a - (b + 1)) * s \in Nat
      BY <1>1, <1>2
    <3>2. a * s = (a - (b + 1)) * s + (b + 1) * s
      BY <1>1, <1>2
    <3>. QED
      BY <1>1, <1>2, <2>1, <3>1, <3>2
  <2>3. a <= b
    BY <1>1, <1>2, <2>2
  <2>. QED
    BY <1>1, <1>2, <2>3
<1>4. (r + s) % s = 0
  <2>1. r + s = (b + 1) * s + 0
    BY <1>2
  <2>2. ((b + 1) * s + 0) % s = 0
    BY <1>2, DivModOf
  <2>. QED
    BY <2>1, <2>2
<1>. QED
  BY <1>3, <1>4
-----------------------------------------------------------------------------
(* One call.                                                                *)

LEMMA MethodTyped ==
    ASSUME NEW m \in Method
    PROVE  /\ m.reg \in Registries /\ m.arity \in {1, 2}
           /\ m.world \in {"const", "use"}
           /\ HierOf(m.reg) \in Hierarchies
           /\ m.form = "vp" => m.reg \in VpRegistries /\ HierOf(m.reg) = "main"
BY DEF Method, HierOf, Hierarchies, Registries, VpRegistries, InplaceRegistries

LEMMA TagsTyped ==
    ASSUME TypeOK, NEW m \in Method, NEW p \in Position, NEW q \in Position
    PROVE  /\ Tags(m, p, q) \in [1 .. m.arity -> Classes]
           /\ Tags(m, p, q)[1] = leafAt[HierOf(m.reg)][p]
<1>1. leafAt[HierOf(m.reg)] \in [Position -> Classes]
  BY MethodTyped DEF TypeOK
<1>. QED
  BY <1>1, MethodTyped DEF Tags, ArgsOf

\* A call takes each argument for what its registry finds for its class.
LEMMA SeenIs ==
    ASSUME TypeOK, EnvInv, pc \in {"verify", "passed", "failed"},
           NEW m \in Method, NEW p \in Position, NEW q \in Position
    PROVE  /\ Seen(m, p, q) = [n \in 1 .. m.arity |-> SeenAs(m.reg, Tags(m, p, q)[n])]
           /\ \A leaf : SeenAs(m.reg, leaf) =
                 IF fault.kind = "lookup" /\ fault.reg = m.reg /\ fault.leaf = leaf
                 THEN fault.to ELSE leaf
<1>1. m.reg \in Initialized
  BY MethodTyped DEF EnvInv
<1>2. \A n \in 1 .. m.arity : ArgsOf(m, p, q)[n] \in Position
  BY MethodTyped DEF ArgsOf
<1>3. \A n \in 1 .. m.arity : m.form = "vp" =>
          vpAt[m.reg][ArgsOf(m, p, q)[n]] = SeenAs(m.reg, Tags(m, p, q)[n])
  BY <1>2, MethodTyped DEF EnvInv, Tags
<1>. QED
  BY <1>1, <1>3 DEF Seen, SeenAs

\* The kinds of fault are what they are called.
LEMMA FaultTyped ==
    ASSUME TypeOK
    PROVE  /\ fault.kind \in {"none", "unregistered", "missing", "lookup", "cell", "world"}
           /\ fault.kind = "lookup" =>
                 /\ fault.reg \in Registries /\ fault.leaf \in Classes
                 /\ fault.to \in Classes /\ fault.to # fault.leaf
           /\ fault.kind = "cell" => fault.to \in Overriders(fault.method)
BY DEF TypeOK, AllFaults, NoFault, Unregistered, Missing, CrossedLookup, CrossedCell,
   CrossedWorld

\* The overrider a call is for.
LEMMA IntendedIs ==
    ASSUME TypeOK, NEW m \in Method, NEW tags \in [1 .. m.arity -> Classes]
    PROVE  Select(Overriders(m), tags) =
              IF m.arity = 1 \/ tags[1] = tags[2] THEN {tags[1]} ELSE {CatchAll}
<1>1. m.arity \in {1, 2} /\ DOMAIN tags = 1 .. m.arity /\ \A n \in 1 .. m.arity : tags[n] \in Classes
  BY MethodTyped
<1>2. CatchAll \notin Classes
  BY ClassesAssumption DEF CatchAll, Classes
<1>. DEFINE exact == {c \in Overriders(m) : \A n \in DOMAIN tags : tags[n] = c}
<1>3. CASE m.arity = 1 \/ tags[1] = tags[2]
  <2>1. exact = {tags[1]}
    BY <1>1, <1>3 DEF Overriders
  <2>. QED
    BY <1>3, <2>1 DEF Select
<1>4. CASE m.arity = 2 /\ tags[1] # tags[2]
  <2>1. exact = {}
    BY <1>1, <1>4
  <2>2. Overriders(m) \cap {CatchAll} = {CatchAll}
    BY <1>4 DEF Overriders
  <2>. QED
    BY <1>4, <2>1, <2>2 DEF Select
<1>. QED
  BY <1>1, <1>3, <1>4

\* A call that is not the faulty one reaches the overrider it is for.
LEMMA Unaffected ==
    ASSUME TypeOK, EnvInv, pc \in {"verify", "passed", "failed"},
           NEW m \in Method, NEW p \in Position, NEW q \in Position,
           fault.kind \in {"none", "unregistered", "world"}
    PROVE  Reached(m, Seen(m, p, q)) = Select(Overriders(m), Tags(m, p, q))
<1>. DEFINE tags == Tags(m, p, q)
<1>2. tags = [n \in 1 .. m.arity |-> tags[n]]
  BY TagsTyped
<1>3. \A leaf : SeenAs(m.reg, leaf) = leaf
  BY SeenIs
<1>4. Seen(m, p, q) = [n \in 1 .. m.arity |-> SeenAs(m.reg, tags[n])]
  BY SeenIs
<1>1. Seen(m, p, q) = tags
  BY <1>2, <1>3, <1>4
<1>. QED
  BY <1>1 DEF Reached, Registered

\* A call is answered, unless its overrider is missing.
LEMMA UnlessMissing ==
    ASSUME TypeOK, EnvInv, pc \in {"verify", "passed", "failed"},
           NEW m \in Method, NEW p \in Position, NEW q \in Position,
           fault.kind # "missing"
    PROVE  Answered(m, p, q)
<1>. DEFINE seen == Seen(m, p, q)
<1>1. seen \in [1 .. m.arity -> Classes]
  <2>. DEFINE tags == Tags(m, p, q)
  <2>1. tags \in [1 .. m.arity -> Classes]
    BY TagsTyped
  <2>2. \A leaf \in Classes : SeenAs(m.reg, leaf) \in Classes
    BY SeenIs, FaultTyped
  <2>3. seen = [n \in 1 .. m.arity |-> SeenAs(m.reg, tags[n])]
    BY SeenIs
  <2>. HIDE DEF tags, seen
  <2>. QED
    BY <2>1, <2>2, <2>3
<1>. HIDE DEF seen
<1>2. Select(Overriders(m), seen) # {}
  BY <1>1, IntendedIs
<1>3. Registered(m) = Overriders(m)
  BY DEF Registered
<1>. QED
  BY <1>2, <1>3 DEF Answered, Reached, seen

\* A program that is sound, as far as verify can see, is found good.
LEMMA SoundIsGood ==
    ASSUME TypeOK, EnvInv, pc \in {"verify", "passed", "failed"},
           fault.kind \in {"none", "unregistered"},
           NEW h \in Hierarchies, NEW p \in Position, NEW q \in Position
    PROVE  Good(h, p, q)
<1>1. YardsticksRight(leafAt[h][p], leafAt[h][q])
  <2>1. leafAt[h][p] \in Int /\ leafAt[h][q] \in Int
    BY ClassesAssumption DEF TypeOK, Classes
  <2>. QED
    BY <2>1 DEF YardsticksRight, VfId, VfuId, TouchId, DdId, DduId, DdWithId, DdWithuId
<1>2. ASSUME NEW m \in Checked[h]
      PROVE  Answered(m, p, q) /\ Matches(m, p, q)
  <2>1. m \in Method
    BY DEF Checked
  <2>. DEFINE tags == Tags(m, p, q)
  <2>2. tags \in [1 .. m.arity -> Classes]
    BY <2>1, TagsTyped
  <2>3. Reached(m, Seen(m, p, q)) =
          IF m.arity = 1 \/ tags[1] = tags[2] THEN {tags[1]} ELSE {CatchAll}
    BY <2>1, <2>2, IntendedIs, Unaffected
  <2>4. BodyWorld(m) = m.world
    BY DEF BodyWorld
  <2>. HIDE DEF tags
  <2>5. /\ m.arity \in {1, 2} /\ m.world \in {"const", "use"} /\ Len(tags) = m.arity
        /\ tags[1] \in Classes /\ (m.arity = 2 => tags[2] \in Classes)
    BY <2>1, <2>2, MethodTyped
  <2>6. tags[1] # CatchAll
    BY <2>5, ClassesAssumption DEF Classes, CatchAll
  <2>7. \A leaf \in Reached(m, Seen(m, p, q)) : BodyId(m.world, leaf, tags) = Want(m, tags)
    BY <2>3, <2>5, <2>6 DEF BodyId, Want, CatchAll
  <2>8. Answered(m, p, q)
    BY <2>1, UnlessMissing
  <2>. QED
    BY <2>4, <2>7, <2>8 DEF Matches, tags
<1>. QED
  BY <1>1, <1>2 DEF Good, AllMatch
-----------------------------------------------------------------------------
LEMMA SameGood ==
    ASSUME UNCHANGED <<fault, inits, leafAt, vpAt>>
    PROVE  /\ \A h, p, q : Good(h, p, q)' = Good(h, p, q)
           /\ \A r, leaf : SeenAs(r, leaf)' = SeenAs(r, leaf)
           /\ Initialized' = Initialized
<1>1. \A r, leaf : SeenAs(r, leaf)' = SeenAs(r, leaf)
  BY DEF SeenAs, Initialized
<1>2. /\ \A m, p, q : Tags(m, p, q)' = Tags(m, p, q)
      /\ \A m, p, q : Seen(m, p, q)' = Seen(m, p, q)
  BY <1>1 DEF Tags, Seen
<1>3. /\ \A m, seen : Reached(m, seen)' = Reached(m, seen)
      /\ \A m : BodyWorld(m)' = BodyWorld(m)
  BY DEF Reached, Registered, BodyWorld
<1>4. \A m, p, q : Matches(m, p, q)' = Matches(m, p, q)
  BY <1>2, <1>3 DEF Matches
<1>5. \A m, p, q : Answered(m, p, q)' = Answered(m, p, q)
  BY <1>2, <1>3 DEF Answered
<1>6. \A h, p, q : AllMatch(h, p, q)' = AllMatch(h, p, q)
  BY <1>4 DEF AllMatch
<1>. QED
  BY <1>1, <1>5, <1>6 DEF Good, Initialized

\* The initialisations cover the registries.
LEMMA InitOrderIs ==
    /\ Len(InitOrder) = 6
    /\ {InitOrder[n] : n \in 1 .. 6} = Registries
BY DEF InitOrder, Registries, VpRegistries, InplaceRegistries

LEMMA PopOrderIs ==
    /\ Len(PopOrder) = 3
    /\ \A n \in 1 .. 3 : PopOrder[n] \in Hierarchies
    /\ \A h \in Hierarchies : \E n \in 1 .. 3 : PopOrder[n] = h
BY DEF PopOrder, Hierarchies, InplaceRegistries

LEMMA InitIInv == Init => IInv
<1>. SUFFICES ASSUME Init PROVE IInv
  OBVIOUS
<1>1. 0 \in Position /\ 0 \in Classes
  BY GateAssumption, ClassesAssumption DEF Position, Classes
<1>2. TypeOK
  BY <1>1, InitOrderIs, PopOrderIs, FaultsAssumption DEF Init, TypeOK
<1>3. EnvInv
  BY InitOrderIs DEF Init, EnvInv
<1>4. SampledInv /\ AlarmInv
  BY DEF Init, SampledInv, AlarmInv, NoFalseAlarm
<1>. QED
  BY <1>2, <1>3, <1>4 DEF IInv

LEMMA NextIInv == IInv /\ [Next]_vars => IInv'
<1>. SUFFICES ASSUME IInv, [Next]_vars PROVE IInv'
  OBVIOUS
<1>1. CASE Initialize
  <2>1. inits \in Nat /\ inits < 6 /\ inits' = inits + 1
    BY <1>1, InitOrderIs DEF Initialize, IInv, TypeOK, EnvInv
  <2>2. TypeOK'
    BY <1>1, <2>1, InitOrderIs DEF Initialize, IInv, TypeOK
  <2>3. pc' \in {"initialize", "env", "aborted"} /\ (pc' = "env" => inits' = 6)
        /\ (pc' = "initialize" => inits' < 6)
    BY <1>1, <2>1, InitOrderIs DEF Initialize
  <2>4. pc' = "env" => Initialized' = Registries
    BY <2>3, InitOrderIs DEF Initialized
  <2>5. EnvInv'
    BY <1>1, <2>3, <2>4, InitOrderIs DEF Initialize, IInv, EnvInv
  <2>6. AlarmInv'
    BY <1>1, <2>3 DEF Initialize, IInv, AlarmInv, NoFalseAlarm
  <2>. QED
    BY <2>2, <2>3, <2>5, <2>6 DEF IInv, SampledInv
<1>2. CASE BuildEnv
  <2>1. PICK order \in Arrangements :
           leafAt' = [h \in Hierarchies |-> [n \in Position |-> order[h][n] % NumClasses]]
    BY <1>2 DEF BuildEnv
  <2>2. leafAt' \in [Hierarchies -> [Position -> Classes]]
    <3>1. ASSUME NEW h \in Hierarchies, NEW n \in Position
          PROVE  order[h][n] % NumClasses \in Classes
      <4>1. order[h][n] \in Nat
        BY GateAssumption DEF Position
      <4>. QED
        BY <4>1, ClassesAssumption DEF Classes
    <3>. QED
      BY <2>1, <3>1
  <2>3. /\ "main" \in Hierarchies
        /\ vpAt' = [r \in VpRegistries |-> [n \in Position |-> SeenAs(r, leafAt'["main"][n])]]
    BY <1>2 DEF BuildEnv, Hierarchies
  <2>4. \A r, leaf : SeenAs(r, leaf)' = SeenAs(r, leaf)
    BY <1>2 DEF BuildEnv, SeenAs, Initialized
  <2>5. \A r \in VpRegistries, leaf \in Classes : SeenAs(r, leaf) \in Classes \cup {NoClass}
    BY FaultTyped DEF IInv, SeenAs
  <2>6. TypeOK'
    BY <1>2, <2>2, <2>3, <2>5 DEF BuildEnv, IInv, TypeOK
  <2>7. EnvInv'
    BY <1>2, <2>3, <2>4 DEF BuildEnv, IInv, EnvInv, Initialized
  <2>9. pc' = "verify" /\ pop' = 1 /\ i' = 0 /\ j' = 0 /\ ok'
    BY <1>2 DEF BuildEnv, IInv, EnvInv
  <2>8. SampledInv' /\ AlarmInv'
    <3>1. 0 % StrideI = 0 /\ 0 % StrideJ = 0
      BY GateAssumption
    <3>2. \A p \in Position : ~(p < 0)
      BY DEF Position
    <3>. QED
      BY <2>9, <3>1, <3>2 DEF SampledInv, SampledI, SampledJ, AlarmInv, NoFalseAlarm
  <2>. QED
    BY <2>6, <2>7, <2>8 DEF IInv
<1>3. CASE CallUnanswered
  <2>1. UNCHANGED <<fault, inits, leafAt, vpAt, pop, i, j, ok>> /\ pc' = "aborted"
    BY <1>3 DEF CallUnanswered
  <2>2. fault.kind = "missing"
    <3>1. PICK m \in Checked[PopOrder[pop]] : ~Answered(m, i, j)
      BY <1>3 DEF CallUnanswered
    <3>2. m \in Method /\ pc = "verify"
      BY <1>3, PopOrderIs DEF CallUnanswered, Checked, IInv, TypeOK
    <3>. QED
      BY <3>1, <3>2, UnlessMissing DEF IInv, TypeOK
  <2>3. TypeOK'
    BY <2>1 DEF IInv, TypeOK
  <2>. QED
    BY <2>1, <2>2, <2>3 DEF IInv, EnvInv, SampledInv, AlarmInv, NoFalseAlarm
<1>4. CASE CheckPair
  <2>. DEFINE h == PopOrder[pop]
  <2>1. /\ pc = "verify" /\ UNCHANGED <<fault, inits, leafAt, vpAt>>
        /\ pc' \in {"verify", "passed", "failed"}
    BY <1>4 DEF CheckPair
  <2>2. /\ pop \in 1 .. 3 /\ h \in Hierarchies
        /\ i \in Position /\ j \in Position /\ ok \in BOOLEAN
        /\ i % StrideI = 0 /\ j % StrideJ = 0
    BY <2>1, PopOrderIs DEF IInv, TypeOK, SampledInv
  <2>3. ok' <=> ok /\ AllMatch(h, i, j)
    BY <1>4 DEF CheckPair
  <2>4. ok' => Good(h, i, j)
    BY <1>4, <2>3 DEF CheckPair, Good
  <2>5. fault.kind \in {"none", "unregistered"} => ok'
    BY <2>1, <2>2, <2>3, SoundIsGood DEF IInv, AlarmInv, Good
  <2>. DEFINE NextColumn ==
                /\ j + StrideJ < NumObjects
                /\ pc' = pc /\ pop' = pop /\ i' = i /\ j' = j + StrideJ
              NextRow ==
                /\ j + StrideJ >= NumObjects /\ i + StrideI < NumObjects
                /\ pc' = pc /\ pop' = pop /\ i' = i + StrideI /\ j' = 0
              NextPopulation ==
                /\ j + StrideJ >= NumObjects /\ i + StrideI >= NumObjects
                /\ pop < 3
                /\ pc' = pc /\ pop' = pop + 1 /\ i' = 0 /\ j' = 0
              LastPair ==
                /\ j + StrideJ >= NumObjects /\ i + StrideI >= NumObjects
                /\ pop = 3
                /\ pc' = (IF ok' THEN "passed" ELSE "failed")
                /\ pop' = pop /\ i' = i /\ j' = j
  <2>10. NextColumn \/ NextRow \/ NextPopulation \/ LastPair
    BY <1>4, PopOrderIs DEF CheckPair
  <2>. HIDE DEF h
  <2>6. TypeOK'
    <3>1. ok' \in BOOLEAN
      BY <1>4 DEF CheckPair, AllMatch, YardsticksRight, IInv, TypeOK
    <3>2. i' \in Position /\ j' \in Position /\ pop' \in 1 .. Len(PopOrder)
      <4>1. CASE NextColumn
        BY <4>1, <2>2, PopOrderIs, GateAssumption DEF Position
      <4>2. CASE NextRow
        BY <4>2, <2>2, PopOrderIs, GateAssumption DEF Position
      <4>3. CASE NextPopulation
        BY <4>3, <2>2, PopOrderIs, GateAssumption DEF Position
      <4>4. CASE LastPair
        BY <4>4, <2>2, PopOrderIs
      <4>. QED
        BY <2>10, <4>1, <4>2, <4>3, <4>4
    <3>. QED
      BY <2>1, <3>1, <3>2 DEF IInv, TypeOK
  <2>7. EnvInv'
    BY <2>1, SameGood DEF IInv, EnvInv
  <2>8. AlarmInv'
    BY <1>4, <2>1, <2>5, FaultTyped DEF CheckPair, IInv, AlarmInv, NoFalseAlarm
  <2>9. SampledInv'
    <3>1. /\ NumObjects \in Nat \ {0} /\ StrideI \in Nat \ {0} /\ StrideJ \in Nat \ {0}
          /\ i \in 0 .. (NumObjects - 1) /\ j \in 0 .. (NumObjects - 1)
      BY <2>2, GateAssumption DEF Position
    <3>2. /\ (i + StrideI) % StrideI = 0
          /\ \A p \in SampledI : /\ p \in 0 .. (NumObjects - 1)
                                 /\ p < i + StrideI => p <= i
      <4>1. i \in Nat /\ StrideI \in Nat \ {0} /\ i % StrideI = 0
        BY <2>2, <3>1
      <4>2. \A p \in Nat : p % StrideI = 0 =>
                /\ p < i + StrideI => p <= i
                /\ (i + StrideI) % StrideI = 0
        BY <4>1, NextMultiple
      <4>3. \A p \in SampledI : p \in 0 .. (NumObjects - 1) /\ p \in Nat /\ p % StrideI = 0
        BY <3>1 DEF SampledI, Position
      <4>. QED
        BY <4>1, <4>2, <4>3
    <3>3. /\ (j + StrideJ) % StrideJ = 0
          /\ \A q \in SampledJ : /\ q \in 0 .. (NumObjects - 1)
                                 /\ q < j + StrideJ => q <= j
      <4>1. j \in Nat /\ StrideJ \in Nat \ {0} /\ j % StrideJ = 0
        BY <2>2, <3>1
      <4>2. \A q \in Nat : q % StrideJ = 0 =>
                /\ q < j + StrideJ => q <= j
                /\ (j + StrideJ) % StrideJ = 0
        BY <4>1, NextMultiple
      <4>3. \A q \in SampledJ : q \in 0 .. (NumObjects - 1) /\ q \in Nat /\ q % StrideJ = 0
        BY <3>1 DEF SampledJ, Position
      <4>. QED
        BY <4>1, <4>2, <4>3
    <3>4. (i + StrideI) % StrideI = 0 /\ (j + StrideJ) % StrideJ = 0
      BY <3>2, <3>3
    <3>5. 0 % StrideI = 0 /\ 0 % StrideJ = 0
      BY <3>1
    <3>6. \A x, p, q : Good(x, p, q)' = Good(x, p, q)
      BY <2>1, SameGood
    <3>7. SampledI' = SampledI /\ SampledJ' = SampledJ
      BY DEF SampledI, SampledJ, Position
    \* Everything up to (i, j) is good.
    <3>8. ASSUME ok'
          PROVE  /\ \A n \in 1 .. (pop - 1), p \in SampledI, q \in SampledJ :
                       Good(PopOrder[n], p, q)
                 /\ \A p \in SampledI, q \in SampledJ :
                       p < i \/ (p = i /\ q <= j) => Good(PopOrder[pop], p, q)
      <4>1. ok /\ Good(PopOrder[pop], i, j)
        BY <2>3, <2>4, <3>8 DEF h
      <4>2. \A p \in SampledI, q \in SampledJ :
                p < i \/ (p = i /\ q < j) => Good(PopOrder[pop], p, q)
        BY <2>1, <4>1 DEF IInv, SampledInv
      <4>3. \A q \in SampledJ : q <= j => q < j \/ q = j
        BY <3>1, <3>3
      <4>. QED
        BY <2>1, <4>1, <4>2, <4>3 DEF IInv, SampledInv
    \* At the end of the last row, that is the whole population.
    <3>9. ASSUME ok', j + StrideJ >= NumObjects, i + StrideI >= NumObjects
          PROVE  \A n \in 1 .. pop, p \in SampledI, q \in SampledJ :
                     Good(PopOrder[n], p, q)
      <4>1. \A p \in SampledI, q \in SampledJ : p <= i /\ q <= j
        BY <3>1, <3>2, <3>3, <3>9
      <4>2. \A p \in SampledI, q \in SampledJ : p < i \/ (p = i /\ q <= j)
        BY <3>1, <3>2, <4>1
      <4>3. \A n \in 1 .. pop : n \in 1 .. (pop - 1) \/ n = pop
        BY <2>2
      <4>. QED
        BY <3>8, <3>9, <4>2, <4>3
    <3>10. CASE NextColumn
      <4>1. ASSUME ok', NEW p \in SampledI, NEW q \in SampledJ,
                   p < i \/ (p = i /\ q < j + StrideJ)
            PROVE  Good(PopOrder[pop], p, q)
        BY <3>3, <3>8, <4>1
      <4>2. pc' = "verify" /\ pop' = pop /\ i' = i /\ j' = j + StrideJ
        BY <2>1, <3>10
      <4>. QED
        BY <2>2, <3>4, <3>6, <3>7, <3>8, <4>1, <4>2 DEF SampledInv
    <3>11. CASE NextRow
      <4>1. ASSUME ok', NEW p \in SampledI, NEW q \in SampledJ,
                   p < i + StrideI \/ (p = i + StrideI /\ q < 0)
            PROVE  Good(PopOrder[pop], p, q)
        <5>1. p <= i /\ q <= j
          BY <3>1, <3>2, <3>3, <3>11, <4>1
        <5>2. p < i \/ (p = i /\ q <= j)
          BY <3>1, <3>2, <5>1
        <5>. QED
          BY <3>8, <4>1, <5>2
      <4>2. pc' = "verify" /\ pop' = pop /\ i' = i + StrideI /\ j' = 0
        BY <2>1, <3>11
      <4>. QED
        BY <3>4, <3>5, <3>6, <3>7, <3>8, <4>1, <4>2 DEF SampledInv
    <3>12. CASE NextPopulation
      <4>1. pc' = "verify" /\ pop' = pop + 1 /\ i' = 0 /\ j' = 0
        BY <2>1, <3>12
      <4>2. pop' - 1 = pop
        BY <2>2, <4>1
      <4>3. \A p \in SampledI, q \in SampledJ : ~(p < 0 \/ (p = 0 /\ q < 0))
        BY <3>2, <3>3
      <4>. QED
        BY <3>5, <3>6, <3>7, <3>9, <3>12, <4>1, <4>2, <4>3 DEF SampledInv
    <3>13. CASE LastPair
      <4>1. pc' \in {"passed", "failed"} /\ (pc' = "passed" => ok') /\ Len(PopOrder) = pop
        BY <3>13, PopOrderIs
      <4>2. ok' => \A n \in 1 .. Len(PopOrder), p \in SampledI, q \in SampledJ :
                       Good(PopOrder[n], p, q)
        BY <3>9, <3>13, <4>1
      <4>. QED
        BY <3>6, <3>7, <4>1, <4>2 DEF SampledInv
    <3>. QED
      BY <2>10, <3>10, <3>11, <3>12, <3>13
  <2>. QED
    BY <2>6, <2>7, <2>8, <2>9 DEF IInv
<1>5. CASE UNCHANGED vars
  <2>1. UNCHANGED <<fault, inits, leafAt, vpAt, pc, pop, i, j, ok>>
    BY <1>5 DEF vars
  <2>. QED
    BY <2>1, SameGood DEF IInv, TypeOK, EnvInv, SampledInv, AlarmInv, NoFalseAlarm
<1>. QED
  BY <1>1, <1>2, <1>3, <1>4, <1>5 DEF Next, Program, Decided

LEMMA Inductive == Spec => []IInv
BY InitIInv, NextIInv, PTL DEF Spec

\* The gate's state is well typed.
THEOREM GateTypeOK == Spec => []TypeOK
BY Inductive, PTL DEF IInv

\* The gate raises no false alarm: whatever the sizes, strides and shuffles, a
\* sound program passes, and a program that does not pass has the kind of fault
\* it shows.
THEOREM GateIsFair == Spec => []NoFalseAlarm
BY Inductive, PTL DEF IInv, AlarmInv

-----------------------------------------------------------------------------
(* What a pass tells.                                                       *)

\* When the gate passes, every sampled call of every method was answered with
\* the id wanted.
LEMMA PassedMatches ==
    ASSUME IInv, pc = "passed",
           NEW m \in Method, NEW p \in SampledI, NEW q \in SampledJ
    PROVE  /\ p \in Position /\ q \in Position
           /\ Reached(m, Seen(m, p, q)) # {}
           /\ \A leaf \in Reached(m, Seen(m, p, q)) :
                 BodyId(BodyWorld(m), leaf, Tags(m, p, q)) = Want(m, Tags(m, p, q))
<1>1. p \in Position /\ q \in Position
  BY DEF SampledI, SampledJ
<1>2. PICK n \in 1 .. 3 : PopOrder[n] = HierOf(m.reg)
  BY MethodTyped, PopOrderIs
<1>3. Good(HierOf(m.reg), p, q)
  BY <1>2, PopOrderIs DEF IInv, SampledInv
<1>4. m \in Checked[HierOf(m.reg)]
  BY MethodTyped DEF Checked
<1>. QED
  BY <1>1, <1>3, <1>4 DEF Good, AllMatch, Answered, Matches

\* No sampled const-world call reached another overrider than the one for the
\* leaves of its arguments, in any registry and call form.
THEOREM ConstWorldIsTold == Spec => []ConstWorldTold
<1>1. ASSUME IInv, pc = "passed", NEW m \in Method, m.world = "const",
             NEW p \in SampledI, NEW q \in SampledJ
      PROVE  Reached(m, Seen(m, p, q)) = Intended(m, p, q)
  <2>. DEFINE tags == Tags(m, p, q)
              reached == Reached(m, Seen(m, p, q))
  <2>1. /\ p \in Position /\ q \in Position /\ reached # {}
        /\ \A leaf \in reached : BodyId(BodyWorld(m), leaf, tags) = Want(m, tags)
    BY <1>1, PassedMatches
  <2>2. tags \in [1 .. m.arity -> Classes]
    BY <1>1, <2>1, TagsTyped DEF IInv
  <2>3. Intended(m, p, q) =
            IF m.arity = 1 \/ tags[1] = tags[2] THEN {tags[1]} ELSE {CatchAll}
    BY <1>1, <2>2, IntendedIs DEF IInv, Intended
  <2>4. CASE fault.kind = "world"
    BY <1>1, <2>1, <2>4, Unaffected DEF IInv, Intended
  <2>5. CASE fault.kind # "world"
    <3>1. BodyWorld(m) = "const"
      BY <1>1, <2>5 DEF BodyWorld
    <3>. HIDE DEF reached, tags
    <3>2. \A leaf \in reached : leaf = Want(m, tags)
      BY <2>1, <3>1 DEF BodyId
    <3>3. Len(tags) = m.arity /\ m.arity \in {1, 2}
      BY <2>2, MethodTyped
    <3>4. Intended(m, p, q) = {Want(m, tags)}
      BY <1>1, <2>3, <3>3 DEF Want, CatchAll
    <3>. QED
      BY <2>1, <3>2, <3>4 DEF reached
  <2>. QED
    BY <2>4, <2>5
<1>2. IInv => ConstWorldTold
  BY <1>1 DEF ConstWorldTold
<1>. QED
  BY <1>2, Inductive, PTL

\* A sampled use-world pair of one leaf reached a diagonal overrider, and one of
\* two leaves the catch-all.
THEOREM UseWorldKindIsTold == Spec => []UseWorldKindTold
<1>1. ASSUME IInv, pc = "passed", NEW m \in Method, m.world = "use", m.arity = 2,
             NEW p \in SampledI, NEW q \in SampledJ
      PROVE  CatchAll \in Reached(m, Seen(m, p, q)) <=> CatchAll \in Intended(m, p, q)
  <2>. DEFINE tags == Tags(m, p, q)
              reached == Reached(m, Seen(m, p, q))
  <2>1. /\ p \in Position /\ q \in Position /\ reached # {}
        /\ \A leaf \in reached : BodyId(BodyWorld(m), leaf, tags) = Want(m, tags)
    BY <1>1, PassedMatches
  <2>2. tags \in [1 .. m.arity -> Classes]
    BY <1>1, <2>1, TagsTyped DEF IInv
  <2>3. Intended(m, p, q) = IF tags[1] = tags[2] THEN {tags[1]} ELSE {CatchAll}
    BY <1>1, <2>2, IntendedIs DEF IInv, Intended
  <2>4. CASE fault.kind = "world"
    BY <1>1, <2>1, <2>4, Unaffected DEF IInv, Intended
  <2>5. CASE fault.kind # "world"
    <3>1. BodyWorld(m) = "use"
      BY <1>1, <2>5 DEF BodyWorld
    <3>. HIDE DEF reached, tags
    <3>2. Len(tags) = 2 /\ tags[1] \in Nat /\ tags[2] \in Nat
      BY <1>1, <2>2, ClassesAssumption DEF Classes
    \* The ids of catch-alls are negative, those of diagonals are not.
    <3>3. \A leaf \in reached : leaf = CatchAll <=> tags[1] # tags[2]
      BY <1>1, <2>1, <3>1, <3>2 DEF BodyId, Want
    <3>4. CatchAll \in Intended(m, p, q) <=> tags[1] # tags[2]
      BY <2>3, <3>2 DEF CatchAll
    <3>. QED
      BY <2>1, <3>3, <3>4 DEF reached
  <2>. QED
    BY <2>4, <2>5
<1>2. IInv => UseWorldKindTold
  BY <1>1 DEF UseWorldKindTold
<1>. QED
  BY <1>2, Inductive, PTL

\* A crossed v-table pointer never goes through: its registry's const-world
\* arity 1 method would have returned the id of the other leaf.
THEOREM LookupsAreTold == Spec => []LookupsTold
<1>1. ASSUME IInv, pc = "passed", fault.kind = "lookup", NEW p \in SampledI
      PROVE  leafAt[HierOf(fault.reg)][p] # fault.leaf
  <2>. SUFFICES ASSUME leafAt[HierOf(fault.reg)][p] = fault.leaf PROVE FALSE
    OBVIOUS
  <2>. DEFINE m == [reg |-> fault.reg, form |-> "ref", arity |-> 1, world |-> "const"]
  <2>1. /\ fault.reg \in Registries /\ fault.leaf \in Classes
        /\ fault.to \in Classes /\ fault.to # fault.leaf
    BY <1>1, FaultTyped DEF IInv
  <2>2. m \in Method /\ m.reg = fault.reg /\ m.form = "ref" /\ m.arity = 1 /\ m.world = "const"
    BY <2>1 DEF Method
  <2>3. 0 \in SampledJ
    BY GateAssumption DEF SampledJ, Position
  <2>. HIDE DEF m
  <2>4. /\ p \in Position /\ 0 \in Position
        /\ Reached(m, Seen(m, p, 0)) # {}
        /\ \A leaf \in Reached(m, Seen(m, p, 0)) :
              BodyId(BodyWorld(m), leaf, Tags(m, p, 0)) = Want(m, Tags(m, p, 0))
    BY <1>1, <2>2, <2>3, PassedMatches DEF SampledJ
  <2>5. Tags(m, p, 0) \in [1 .. 1 -> Classes] /\ Tags(m, p, 0)[1] = fault.leaf
    BY <1>1, <2>2, <2>4, TagsTyped DEF IInv
  <2>6. Seen(m, p, 0) = [n \in 1 .. 1 |-> fault.to]
    <3>1. Seen(m, p, 0) = [n \in 1 .. 1 |-> SeenAs(m.reg, Tags(m, p, 0)[n])]
      BY <1>1, <2>2, <2>4, SeenIs DEF IInv
    <3>2. SeenAs(m.reg, fault.leaf) = fault.to
      BY <1>1, <2>2, <2>4, SeenIs DEF IInv
    <3>. QED
      BY <2>5, <3>1, <3>2
  <2>7. Reached(m, Seen(m, p, 0)) = {fault.to}
    <3>1. Reached(m, Seen(m, p, 0)) = Select(Overriders(m), Seen(m, p, 0))
      BY <1>1 DEF Reached, Registered
    <3>. DEFINE seen == [n \in 1 .. 1 |-> fault.to]
    <3>2. seen \in [1 .. m.arity -> Classes] /\ seen[1] = fault.to
      BY <2>1, <2>2
    <3>3. Seen(m, p, 0) = seen
      BY <2>6
    <3>. HIDE DEF seen
    <3>4. Select(Overriders(m), seen) = {fault.to}
      BY <1>1, <2>2, <3>2, IntendedIs DEF IInv
    <3>. QED
      BY <3>1, <3>3, <3>4
  <2>8. BodyWorld(m) = "const"
    BY <1>1, <2>2 DEF BodyWorld
  <2>9. fault.to = Want(m, Tags(m, p, 0))
    BY <2>4, <2>7, <2>8 DEF BodyId
  <2>. QED
    BY <2>1, <2>2, <2>5, <2>9 DEF Want
<1>2. IInv => LookupsTold
  BY <1>1 DEF LookupsTold
<1>. QED
  BY <1>2, Inductive, PTL
=============================================================================
