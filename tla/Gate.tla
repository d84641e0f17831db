-------------------------------- MODULE Gate --------------------------------
(***************************************************************************)
(* The correctness gate: main_impl from the initialize calls to the end of *)
(* verify (main.cpp), on a program in which at most ONE thing is wrong.    *)
(*                                                                         *)
(* What may be wrong is a fault: a class that is not registered, an        *)
(* overrider that failed to register, a v-table pointer lookup that gives  *)
(* the pointer of another class, a cell of one method's dispatch table     *)
(* that leads to another overrider, or a method wired to the bodies of its *)
(* namesake in the other world.  verify samples the pairs of positions     *)
(* (i, j) at two strides, in the main population and then in each inplace  *)
(* one, and compares every call with an oracle.                            *)
(***************************************************************************)
EXTENDS Methods, FiniteSets

CONSTANTS
    NumObjects,     \* cfg.objects
    StrideI,        \* 97
    StrideJ,        \* 89
    Arrangements,   \* the orders the shuffles may leave the populations in
    Faults          \* what may be wrong

Position == 0 .. (NumObjects - 1)

ASSUME GateAssumption ==
    /\ NumObjects \in Nat \ {0}
    /\ StrideI \in Nat \ {0} /\ StrideJ \in Nat \ {0}
    /\ Arrangements \subseteq [Hierarchies -> [Position -> Position]]

\* The faults there are.
NoFault == [kind |-> "none"]

Unregistered == [kind : {"unregistered"}, reg : Registries, leaf : Classes]

Missing ==
    UNION {[kind : {"missing"}, method : {m}, leaf : Overriders(m)] : m \in Method}

CrossedLookup ==
    {f \in [kind : {"lookup"}, reg : Registries, leaf : Classes, to : Classes] :
        f.leaf # f.to}

CrossedCell ==
    UNION {[kind : {"cell"}, method : {m}, at : [1 .. m.arity -> Classes],
            to : Overriders(m)] : m \in Method}

CrossedWorld == [kind : {"world"}, method : Method]

AllFaults ==
    {NoFault} \cup Unregistered \cup Missing \cup CrossedLookup \cup CrossedCell
    \cup CrossedWorld

ASSUME FaultsAssumption == Faults \subseteq AllFaults

VARIABLES
    fault,      \* what is wrong with the program
    pc,         \* where main_impl is
    inits,      \* initialize calls made
    leafAt,     \* the leaf of the object at each position, per hierarchy
    vpAt,       \* the class each virtual_ptr array holds there, per registry
    pop,        \* the population verify is in
    i, j,       \* its loop variables
    ok          \* its result so far

vars == <<fault, pc, inits, leafAt, vpAt, pop, i, j, ok>>

\* main_impl's order of initialize calls, and verify's order of populations.
InitOrder ==
    <<"vptr_vector", "vptr_map", "flat_map", "indirect", "inplace", "inplace_ind">>

\* Mutant: the last population is left out.
PopOrderWithoutLast == <<"main", "inplace">>

PopOrder == <<"main", "inplace", "inplace_ind">>

Initialized == {InitOrder[k] : k \in 1 .. inits}

-----------------------------------------------------------------------------
(* What the program does under the fault.                                   *)

OtherWorld(world) == IF world = "const" THEN "use" ELSE "const"

\* The class whose v-table pointer registry reg finds for a leaf.  No class is
\* found before initialize.
NoClass == -2

SeenAs(reg, leaf) ==
    IF reg \notin Initialized THEN NoClass
    ELSE IF fault.kind = "lookup" /\ fault.reg = reg /\ fault.leaf = leaf
    THEN fault.to ELSE leaf

Registered(m) ==
    IF fault.kind = "missing" /\ fault.method = m
    THEN Overriders(m) \ {fault.leaf} ELSE Overriders(m)

\* The overrider a call of m reaches on arguments seen as `seen`: a set of one,
\* or empty when the call is not implemented.
Reached(m, seen) ==
    IF fault.kind = "cell" /\ fault.method = m /\ fault.at = seen
    THEN {fault.to} ELSE Select(Registered(m), seen)

BodyWorld(m) ==
    IF fault.kind = "world" /\ fault.method = m
    THEN OtherWorld(m.world) ELSE m.world

-----------------------------------------------------------------------------
(* One iteration of verify's inner loop.                                    *)

\* Positions of the arguments of m at (p, q), the tags of the objects there,
\* and the classes the dispatch takes them to be of.
ArgsOf(m, p, q) == IF m.arity = 1 THEN <<p>> ELSE <<p, q>>

Tags(m, p, q) ==
    [k \in 1 .. m.arity |-> leafAt[HierOf(m.reg)][ArgsOf(m, p, q)[k]]]

Seen(m, p, q) ==
    [k \in 1 .. m.arity |->
        IF m.form = "vp" THEN vpAt[m.reg][ArgsOf(m, p, q)[k]]
        ELSE SeenAs(m.reg, Tags(m, p, q)[k])]

\* Mutant: the use-world virtual_ptr methods are left out.
CheckedWithoutUseVp ==
    [h \in Hierarchies |->
        {m \in Method : HierOf(m.reg) = h /\ ~(m.form = "vp" /\ m.world = "use")}]

\* The methods verify calls in a population: all of its hierarchy's.
Checked == [h \in Hierarchies |-> {m \in Method : HierOf(m.reg) = h}]

Answered(m, p, q) == Reached(m, Seen(m, p, q)) # {}

Matches(m, p, q) ==
    \A leaf \in Reached(m, Seen(m, p, q)) :
        BodyId(BodyWorld(m), leaf, Tags(m, p, q)) = Want(m, Tags(m, p, q))

AllMatch(h, p, q) ==
    /\ YardsticksRight(leafAt[h][p], leafAt[h][q])
    /\ \A m \in Checked[h] : Matches(m, p, q)

-----------------------------------------------------------------------------
Init ==
    /\ fault \in Faults
    /\ pc = "initialize"
    /\ inits = 0
    /\ leafAt = [h \in Hierarchies |-> [k \in Position |-> 0]]
    /\ vpAt = [r \in VpRegistries |-> [k \in Position |-> NoClass]]
    /\ pop = 1
    /\ i = 0
    /\ j = 0
    /\ ok = TRUE

\* initialize<R>: rejects the overriders that name an unregistered class.
Initialize ==
    /\ pc = "initialize"
    /\ inits' = inits + 1
    /\ pc' = IF fault.kind = "unregistered" /\ fault.reg = InitOrder[inits + 1]
             THEN "aborted"
             ELSE IF inits + 1 = Len(InitOrder) THEN "env" ELSE "initialize"
    /\ UNCHANGED <<fault, leafAt, vpAt, pop, i, j, ok>>

\* Mutant: the virtual_ptr arrays are built before the population is shuffled.
BuildEnvShufflingLast ==
    /\ pc = "env"
    /\ \E order \in Arrangements :
          leafAt' = [h \in Hierarchies |->
                       [k \in Position |-> order[h][k] % NumClasses]]
    /\ vpAt' = [r \in VpRegistries |->
                  [k \in Position |-> SeenAs(r, k % NumClasses)]]
    /\ pc' = "verify"
    /\ UNCHANGED <<fault, inits, pop, i, j, ok>>

\* env: round-robin over the leaves, shuffled; a virtual_ptr looks its v-table
\* pointer up when it is made.
BuildEnv ==
    /\ pc = "env"
    /\ \E order \in Arrangements :
          leafAt' = [h \in Hierarchies |->
                       [k \in Position |-> order[h][k] % NumClasses]]
    /\ vpAt' = [r \in VpRegistries |->
                  [k \in Position |-> SeenAs(r, leafAt'["main"][k])]]
    /\ pc' = "verify"
    /\ UNCHANGED <<fault, inits, pop, i, j, ok>>

\* A call no overrider answers aborts the program.
CallUnanswered ==
    /\ pc = "verify"
    /\ \E m \in Checked[PopOrder[pop]] : ~Answered(m, i, j)
    /\ pc' = "aborted"
    /\ UNCHANGED <<fault, inits, leafAt, vpAt, pop, i, j, ok>>

\* Mutants: the last pair decides alone; the inner loop never moves; the outer
\* loop takes one row too many.
CheckPairForgetting ==
    /\ pc = "verify"
    /\ \A m \in Checked[PopOrder[pop]] : Answered(m, i, j)
    /\ ok' = AllMatch(PopOrder[pop], i, j)
    /\ \/ /\ j + StrideJ < NumObjects
          /\ j' = j + StrideJ
          /\ UNCHANGED <<pc, pop, i>>
       \/ /\ j + StrideJ >= NumObjects /\ i + StrideI < NumObjects
          /\ i' = i + StrideI /\ j' = 0
          /\ UNCHANGED <<pc, pop>>
       \/ /\ j + StrideJ >= NumObjects /\ i + StrideI >= NumObjects
          /\ pop < Len(PopOrder)
          /\ pop' = pop + 1 /\ i' = 0 /\ j' = 0
          /\ UNCHANGED pc
       \/ /\ j + StrideJ >= NumObjects /\ i + StrideI >= NumObjects
          /\ pop = Len(PopOrder)
          /\ pc' = IF ok' THEN "passed" ELSE "failed"
          /\ UNCHANGED <<pop, i, j>>
    /\ UNCHANGED <<fault, inits, leafAt, vpAt>>

CheckPairInPlace ==
    /\ pc = "verify"
    /\ \A m \in Checked[PopOrder[pop]] : Answered(m, i, j)
    /\ ok' = (ok /\ AllMatch(PopOrder[pop], i, j))
    /\ UNCHANGED <<fault, pc, inits, leafAt, vpAt, pop, i, j>>

CheckPairPastEnd ==
    /\ pc = "verify"
    /\ \A m \in Checked[PopOrder[pop]] : Answered(m, i, j)
    /\ ok' = (ok /\ AllMatch(PopOrder[pop], i, j))
    /\ \/ /\ j + StrideJ < NumObjects
          /\ j' = j + StrideJ
          /\ UNCHANGED <<pc, pop, i>>
       \/ /\ j + StrideJ >= NumObjects /\ i + StrideI <= NumObjects
          /\ i' = i + StrideI /\ j' = 0
          /\ UNCHANGED <<pc, pop>>
       \/ /\ j + StrideJ >= NumObjects /\ i + StrideI > NumObjects
          /\ pc' = IF ok' THEN "passed" ELSE "failed"
          /\ UNCHANGED <<pop, i, j>>
    /\ UNCHANGED <<fault, inits, leafAt, vpAt>>

\* All checks at (i, j), then the next column, row or population; after the
\* last one verify returns, and main_impl reports the failure or goes on.
CheckPair ==
    /\ pc = "verify"
    /\ \A m \in Checked[PopOrder[pop]] : Answered(m, i, j)
    /\ ok' = (ok /\ AllMatch(PopOrder[pop], i, j))
    /\ \/ /\ j + StrideJ < NumObjects
          /\ j' = j + StrideJ
          /\ UNCHANGED <<pc, pop, i>>
       \/ /\ j + StrideJ >= NumObjects /\ i + StrideI < NumObjects
          /\ i' = i + StrideI /\ j' = 0
          /\ UNCHANGED <<pc, pop>>
       \/ /\ j + StrideJ >= NumObjects /\ i + StrideI >= NumObjects
          /\ pop < Len(PopOrder)
          /\ pop' = pop + 1 /\ i' = 0 /\ j' = 0
          /\ UNCHANGED pc
       \/ /\ j + StrideJ >= NumObjects /\ i + StrideI >= NumObjects
          /\ pop = Len(PopOrder)
          /\ pc' = IF ok' THEN "passed" ELSE "failed"
          /\ UNCHANGED <<pop, i, j>>
    /\ UNCHANGED <<fault, inits, leafAt, vpAt>>

Verdict == pc \in {"passed", "failed", "aborted"}

Decided == Verdict /\ UNCHANGED vars

Program == Initialize \/ BuildEnv \/ CallUnanswered \/ CheckPair

Next == Program \/ Decided

\* One thread that waits on nothing.
Spec == Init /\ [][Next]_vars /\ WF_vars(Program)

-----------------------------------------------------------------------------
TypeOK ==
    /\ fault \in AllFaults
    /\ pc \in {"initialize", "env", "verify", "passed", "failed", "aborted"}
    /\ inits \in 0 .. Len(InitOrder)
    /\ leafAt \in [Hierarchies -> [Position -> Classes]]
    /\ vpAt \in [VpRegistries -> [Position -> Classes \cup {NoClass}]]
    /\ pop \in 1 .. Len(PopOrder)
    /\ i \in Position
    /\ j \in Position
    /\ ok \in BOOLEAN

\* What verify samples of a population.
SampledI == {p \in Position : p % StrideI = 0}
SampledJ == {q \in Position : q % StrideJ = 0}

\* The overrider a call at (p, q) is for, from the classes of the objects.
Intended(m, p, q) == Select(Overriders(m), Tags(m, p, q))

\* The gate raises no false alarm: a sound program passes, whatever the
\* shuffles, and what does not pass has the kind of fault it shows.
NoFalseAlarm ==
    /\ pc = "failed" => fault.kind \in {"missing", "lookup", "cell", "world"}
    /\ pc = "aborted" => fault.kind \in {"unregistered", "missing"}

\* When the gate passes, every sampled const-world call reached the overrider
\* for the leaves of its arguments, in every registry and call form: neither a
\* crossed lookup nor a crossed cell nor the (Base, Base) fallback hides there.
ConstWorldTold ==
    pc = "passed" =>
        \A m \in Method, p \in SampledI, q \in SampledJ :
            m.world = "const" => Reached(m, Seen(m, p, q)) = Intended(m, p, q)

\* When the gate passes, a sampled use-world pair of one leaf reached a
\* diagonal overrider and a pair of two leaves the catch-all: that much the
\* use-world ids do tell, although they do not say whose overrider ran.
UseWorldKindTold ==
    pc = "passed" =>
        \A m \in Method, p \in SampledI, q \in SampledJ :
            m.world = "use" /\ m.arity = 2 =>
                (CatchAll \in Reached(m, Seen(m, p, q))
                   <=> CatchAll \in Intended(m, p, q))

\* A crossed v-table pointer never goes through: no lookup of a registry can be
\* wrong for a leaf that verify drew as a first argument.
LookupsTold ==
    pc = "passed" /\ fault.kind = "lookup" =>
        \A p \in SampledI : leafAt[HierOf(fault.reg)][p] # fault.leaf

\* Every program gets a verdict.
Decides == <>Verdict

-----------------------------------------------------------------------------
(* What the documentation says of the gate.                                 *)

\* "distinct values, so the gate can tell which overrider ran" (README.md,
\* use_methods.hpp): when the gate passes, every sampled call reached the
\* overrider it is for.
GateTellsOverrider ==
    pc = "passed" =>
        \A m \in Method, p \in SampledI, q \in SampledJ :
            Reached(m, Seen(m, p, q)) = Intended(m, p, q)

\* "an overrider that failed to register, would otherwise produce a plausible
\* but meaningless table" (main.cpp): the gate passes no such program.
NoOverriderMissing == pc = "passed" => fault.kind # "missing"
=============================================================================
