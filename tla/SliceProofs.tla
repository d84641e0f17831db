----------------------------- MODULE SliceProofs -----------------------------
(***************************************************************************)
(* asmtab.py's passes do what their definitions say for windows of every   *)
(* length, made of instructions of the forms FormsAssumption names.         *)
(***************************************************************************)
EXTENDS Slice, InductionLemmas, FiniteSetTheorems, SequenceTheorems

\* A window that has reached its call.
Window(w) ==
    /\ w \in Seq(Instructions \cup Calls)
    /\ Len(w) >= 1
    /\ \A i \in 1 .. (Len(w) - 1) : w[i] \in Instructions
    /\ w[Len(w)] \in Calls

\* Only the end of a window is a call.
WindowInv ==
    /\ win \in Seq(Instructions \cup Calls) /\ closed \in BOOLEAN
    /\ ~closed => \A i \in 1 .. Len(win) : win[i] \in Instructions
    /\ closed => Window(win)

LEMMA WindowInductive == Spec => []WindowInv
<1>1. ASSUME Init PROVE WindowInv
  <2>1. win = <<>> /\ closed = FALSE /\ Len(win) = 0
    BY <1>1 DEF Init
  <2>2. win \in Seq(Instructions \cup Calls) /\ 1 .. Len(win) = {}
    BY <2>1, EmptySeq
  <2>. QED
    BY <2>1, <2>2 DEF WindowInv
<1>2. WindowInv /\ [Next]_vars => WindowInv'
  <2>. SUFFICES ASSUME WindowInv, [Next]_vars PROVE WindowInv'
    OBVIOUS
  <2>1. ASSUME NEW x \in Instructions, Walk(x) PROVE WindowInv'
    BY <2>1 DEF Walk, WindowInv
  <2>2. ASSUME NEW x \in Calls, Reach(x) PROVE WindowInv'
    BY <2>2 DEF Reach, WindowInv, Window
  <2>3. ASSUME UNCHANGED vars PROVE WindowInv'
    BY <2>3 DEF vars, WindowInv
  <2>. QED
    BY <2>1, <2>2, <2>3 DEF Next, Done
<1>. QED
  BY <1>1, <1>2, PTL DEF Spec

-----------------------------------------------------------------------------
(* Which instruction made a value.                                          *)

\* DefAt is the last instruction before w[i] that wrote r, or 0.
LEMMA DefAtIs ==
    ASSUME NEW w, NEW r, NEW i \in Nat \ {0}
    PROVE  /\ DefAt(w, r, i) \in 0 .. (i - 1)
           /\ DefAt(w, r, i) # 0 => w[DefAt(w, r, i)].dst = r
           /\ \A k \in 1 .. (i - 1) : w[k].dst = r => k <= DefAt(w, r, i)
<1>. DEFINE S == {j \in 1 .. (i - 1) : w[j].dst = r} \cup {0}
<1>1. Max(S) \in S /\ \A x \in S : x <= Max(S)
  <2>1. S \subseteq 0 .. (i - 1) /\ S # {} /\ i - 1 \in Nat
    OBVIOUS
  <2>. QED
    BY <2>1, MaxBounded
<1>. QED
  BY <1>1 DEF DefAt

\* StoreAt is the last one that wrote the stack where w[i] accesses it, or 0.
LEMMA StoreAtIs ==
    ASSUME NEW w, NEW i \in Nat \ {0}
    PROVE  /\ StoreAt(w, i) \in 0 .. (i - 1)
           /\ StoreAt(w, i) # 0 => /\ WritesSlot(w[StoreAt(w, i)])
                                   /\ Address(w, StoreAt(w, i)) = SlotOf(w, i)
           /\ \A k \in 1 .. (i - 1) :
                WritesSlot(w[k]) /\ Address(w, k) = SlotOf(w, i) => k <= StoreAt(w, i)
<1>. DEFINE S == {j \in 1 .. (i - 1) : WritesSlot(w[j]) /\ Address(w, j) = SlotOf(w, i)}
                 \cup {0}
<1>1. Max(S) \in S /\ \A x \in S : x <= Max(S)
  <2>1. S \subseteq 0 .. (i - 1) /\ S # {} /\ i - 1 \in Nat
    OBVIOUS
  <2>. QED
    BY <2>1, MaxBounded
<1>. QED
  BY <1>1 DEF StoreAt

LEMMA SourcesBefore ==
    ASSUME NEW w, NEW i \in Nat \ {0}, NEW j \in Sources(w, i)
    PROVE  j \in 1 .. (i - 1)
BY DefAtIs, StoreAtIs DEF Sources
-----------------------------------------------------------------------------
(* The slice.                                                               *)

\* The backward pass is well defined.
LEMMA NeededIs ==
    ASSUME NEW w, NEW n \in Nat, n = Len(w)
    PROVE  Needed(w) =
             [i \in 1 .. n |->
                IF i = n THEN Seen(w[n]) \cup w[n].mem.base
                ELSE IF Wanted(w[i], Needed(w)[i + 1])
                     THEN NeededBefore(w[i], Needed(w)[i + 1]) ELSE Needed(w)[i + 1]]
<1>. DEFINE E(f) == [i \in 1 .. n |->
                       IF i = n THEN Seen(w[n]) \cup w[n].mem.base
                       ELSE IF Wanted(w[i], f[i + 1])
                            THEN NeededBefore(w[i], f[i + 1]) ELSE f[i + 1]]
            Good(f, k) == /\ f = [i \in 1 .. n |-> f[i]]
                          /\ \A i \in 1 .. n : n - i < k => f[i] = E(f)[i]
            Approx == {k \in Nat : \E f : Good(f, k)}
<1>. HIDE DEF E, Good
<1>1. 0 \in Approx
  <2>1. PICK f : f = [i \in 1 .. n |-> 0]
    OBVIOUS
  <2>2. f = [i \in 1 .. n |-> f[i]] /\ \A i \in 1 .. n : ~(n - i < 0)
    BY <2>1
  <2>3. Good(f, 0)
    BY <2>2 DEF Good
  <2>. QED
    BY <2>3
<1>2. ASSUME NEW k \in Nat, k \in Approx PROVE k + 1 \in Approx
  <2>1. PICK f : Good(f, k)
    BY <1>2
  <2>2. PICK g : g = [i \in 1 .. n |-> E(f)[i]]
    OBVIOUS
  <2>3. ASSUME NEW i \in 1 .. n, n - i < k + 1 PROVE g[i] = E(g)[i]
    <3>1. i # n => i + 1 \in 1 .. n /\ n - (i + 1) < k
      BY <2>3
    <3>2. i # n => g[i + 1] = f[i + 1]
      BY <2>1, <2>2, <3>1 DEF Good
    <3>. QED
      BY <2>2, <3>2 DEF E
  <2>4. g = [i \in 1 .. n |-> g[i]]
    BY <2>2
  <2>5. Good(g, k + 1)
    BY <2>3, <2>4 DEF Good
  <2>. QED
    BY <2>5
<1>3. n + 1 \in Approx /\ \A i \in 1 .. n : n - i < n + 1
  <2>. HIDE DEF Approx
  <2>. QED
    BY <1>1, <1>2, NatInduct
<1>4. PICK f : Good(f, n + 1)
  BY <1>3
<1>5. f = E(f)
  BY <1>3, <1>4 DEF E, Good
<1>6. Needed(w) = CHOOSE g : g = E(g)
  BY DEF Needed, E
<1>7. Needed(w) = E(Needed(w))
  BY <1>5, <1>6
<1>. QED
  BY <1>7 DEF E

\* So is the set of instructions that reach the call.
LEMMA ReachesIs ==
    ASSUME NEW w, NEW regs, NEW n \in Nat, n = Len(w)
    PROVE  Reaches(w, regs) =
             [i \in 1 .. n |->
                \/ i = n \/ w[i].op \in MemoryWrite
                \/ \E r \in regs : i = DefAt(w, r, n)
                \/ \E j \in (i + 1) .. n : Reaches(w, regs)[j] /\ i \in Sources(w, j)]
<1>. DEFINE E(f) == [i \in 1 .. n |->
                       \/ i = n \/ w[i].op \in MemoryWrite
                       \/ \E r \in regs : i = DefAt(w, r, n)
                       \/ \E j \in (i + 1) .. n : f[j] /\ i \in Sources(w, j)]
            Good(f, k) == /\ f = [i \in 1 .. n |-> f[i]]
                          /\ \A i \in 1 .. n : n - i < k => f[i] = E(f)[i]
            Approx == {k \in Nat : \E f : Good(f, k)}
<1>. HIDE DEF E, Good
<1>1. 0 \in Approx
  <2>1. PICK f : f = [i \in 1 .. n |-> 0]
    OBVIOUS
  <2>2. f = [i \in 1 .. n |-> f[i]] /\ \A i \in 1 .. n : ~(n - i < 0)
    BY <2>1
  <2>3. Good(f, 0)
    BY <2>2 DEF Good
  <2>. QED
    BY <2>3
<1>2. ASSUME NEW k \in Nat, k \in Approx PROVE k + 1 \in Approx
  <2>1. PICK f : Good(f, k)
    BY <1>2
  <2>2. PICK g : g = [i \in 1 .. n |-> E(f)[i]]
    OBVIOUS
  <2>3. ASSUME NEW i \in 1 .. n, n - i < k + 1 PROVE g[i] = E(g)[i]
    <3>1. ASSUME NEW j \in (i + 1) .. n PROVE g[j] = f[j]
      <4>1. j \in 1 .. n /\ n - j < k
        BY <2>3
      <4>. QED
        BY <2>1, <2>2, <4>1 DEF Good
    <3>. QED
      BY <2>2, <3>1 DEF E
  <2>4. g = [i \in 1 .. n |-> g[i]]
    BY <2>2
  <2>5. Good(g, k + 1)
    BY <2>3, <2>4 DEF Good
  <2>. QED
    BY <2>5
<1>3. n + 1 \in Approx /\ \A i \in 1 .. n : n - i < n + 1
  <2>. HIDE DEF Approx
  <2>. QED
    BY <1>1, <1>2, NatInduct
<1>4. PICK f : Good(f, n + 1)
  BY <1>3
<1>5. f = E(f)
  BY <1>3, <1>4 DEF E, Good
<1>6. Reaches(w, regs) = CHOOSE g : g = E(g)
  BY DEF Reaches, E
<1>7. Reaches(w, regs) = E(Reaches(w, regs))
  BY <1>5, <1>6
<1>. QED
  BY <1>7 DEF E

\* A register a kept instruction reads under a name bookkeeping knows is needed
\* all the way back to the instruction that wrote it.
LEMMA NeededBackTo ==
    ASSUME NEW w, Window(w), NEW j \in Kept(w), w[j].narrow = {}, NEW r \in Uses(w[j])
    PROVE  \A i \in (DefAt(w, r, j) + 1) .. j : i \in 1 .. j => r \in Needed(w)[i]
<1>. DEFINE n == Len(w)
            need == Needed(w)
            d == DefAt(w, r, j)
<1>1. n \in Nat /\ j \in 1 .. n /\ d \in 0 .. (j - 1)
  BY DefAtIs DEF Window, Kept
<1>2. /\ need[n] = Seen(w[n]) \cup w[n].mem.base
      /\ \A i \in 1 .. (n - 1) :
            need[i] = IF Wanted(w[i], need[i + 1])
                      THEN NeededBefore(w[i], need[i + 1]) ELSE need[i + 1]
  BY <1>1, NeededIs DEF Window
<1>3. r \in need[j]
  <2>0. Seen(w[j]) = w[j].reads
    BY DEF Seen
  <2>1. CASE j = n
    <3>1. w[n].op = "call"
      BY SliceAssumption DEF Window
    <3>. QED
      BY <1>2, <2>0, <2>1, <3>1 DEF Uses
  <2>2. CASE j # n
    <3>1. j \in 1 .. (n - 1) /\ Wanted(w[j], need[j + 1])
      BY <1>1, <2>2 DEF Kept
    <3>2. need[j] = NeededBefore(w[j], need[j + 1])
      BY <1>2, <3>1
    <3>3. CASE w[j].op = "rmw"
      BY <2>0, <3>1, <3>2, <3>3 DEF Uses, NeededBefore, Defines, Wanted, MemoryWrite, Stores
    <3>4. CASE w[j].op # "rmw"
      BY <2>0, <3>2, <3>4 DEF Uses, NeededBefore
    <3>. QED
      BY <3>3, <3>4
  <2>. QED
    BY <2>1, <2>2
<1>4. (d + 1) .. j \subseteq {i \in (d + 1) .. j : r \in need[i]}
  <2>. DEFINE S == {i \in (d + 1) .. j : r \in need[i]}
  <2>1. ASSUME NEW i \in (d + 1) .. j, \A k \in (i + 1) .. j : k \in S PROVE i \in S
    <3>1. CASE i = j
      BY <1>3, <3>1
    <3>2. CASE i # j
      <4>1. i \in 1 .. (j - 1) /\ i \in 1 .. (n - 1) /\ i + 1 \in (i + 1) .. j
        BY <1>1, <3>2
      <4>2. r \in need[i + 1]
        BY <2>1, <4>1
      <4>3. w[i].dst # r
        <5>1. w[i].dst = r => i <= d
          BY <1>1, <4>1, DefAtIs
        <5>. QED
          BY <1>1, <2>1, <5>1
      <4>4. r \in need[i]
        BY <1>2, <4>1, <4>2, <4>3 DEF NeededBefore
      <4>. QED
        BY <4>4
    <3>. QED
      BY <3>1, <3>2
  <2>2. d + 1 \in Nat /\ j \in Int
    BY <1>1
  <2>. HIDE DEF S, need, d
  <2>3. (d + 1) .. j \subseteq S
    BY <2>1, <2>2, Downward
  <2>. QED
    BY <2>3 DEF S
<1>. QED
  BY <1>4

\* What a kept instruction reads was made by kept instructions.
LEMMA SourcesKept ==
    ASSUME NEW w, Window(w), NEW j \in Kept(w), w[j].narrow = {}, NEW i \in Sources(w, j)
    PROVE  i \in Kept(w)
<1>1. Len(w) \in Nat /\ j \in 1 .. Len(w) /\ i \in 1 .. (j - 1)
  BY SourcesBefore DEF Window, Kept
<1>2. i \in 1 .. (Len(w) - 1)
  BY <1>1
<1>3. CASE \E r \in Uses(w[j]) : i = DefAt(w, r, j)
  <2>1. PICK r \in Uses(w[j]) : i = DefAt(w, r, j)
    BY <1>3
  <2>2. i + 1 \in (i + 1) .. j /\ i + 1 \in 1 .. j
    BY <1>1
  <2>3. r \in Needed(w)[i + 1]
    BY <2>1, <2>2, NeededBackTo
  <2>4. w[i].dst = r
    BY <1>1, <2>1, DefAtIs
  <2>. QED
    BY <1>2, <2>3, <2>4 DEF Kept, Wanted
<1>4. CASE i = StoreAt(w, j)
  <2>1. w[i].op \in MemoryWrite
    BY <1>1, <1>4, StoreAtIs DEF WritesSlot, MemoryWrite
  <2>. QED
    BY <1>2, <2>1 DEF Kept, Wanted
<1>. QED
  BY <1>3, <1>4 DEF Sources

\* Everything that reaches the call's target or memory is kept, for windows of
\* any length, unless some of it reads a register under a narrow name.
LEMMA WindowSliceSound ==
    ASSUME NEW w, Window(w), \A i \in Dispatch(w, {}) : w[i].narrow = {}
    PROVE  Dispatch(w, {}) \subseteq Kept(w)
<1>. DEFINE n == Len(w)
            live == Reaches(w, {})
            S == {i \in 1 .. n : live[i] => i \in Kept(w)}
<1>1. n \in Nat /\ n >= 1
  BY DEF Window
<1>2. ASSUME NEW i \in 1 .. n, \A j \in (i + 1) .. n : j \in S PROVE i \in S
  <2>. SUFFICES ASSUME live[i] PROVE i \in Kept(w)
    OBVIOUS
  <2>1. \/ i = n \/ w[i].op \in MemoryWrite
        \/ \E j \in (i + 1) .. n : live[j] /\ i \in Sources(w, j)
    BY <1>1, ReachesIs
  <2>2. CASE i = n
    BY <2>2 DEF Kept
  <2>3. CASE i # n /\ w[i].op \in MemoryWrite
    BY <1>1, <2>3 DEF Kept, Wanted
  <2>4. CASE \E j \in (i + 1) .. n : live[j] /\ i \in Sources(w, j)
    <3>1. PICK j \in (i + 1) .. n : live[j] /\ i \in Sources(w, j)
      BY <2>4
    <3>2. j \in 1 .. n /\ j \in Dispatch(w, {})
      BY <1>1, <3>1 DEF Dispatch
    <3>3. j \in Kept(w) /\ w[j].narrow = {}
      BY <1>2, <3>1, <3>2
    <3>. QED
      BY <3>1, <3>3, SourcesKept
  <2>. QED
    BY <2>1, <2>2, <2>3, <2>4
<1>3. 1 .. n \subseteq S
  <2>1. 1 \in Nat /\ n \in Int
    BY <1>1
  <2>. HIDE DEF S, n
  <2>. QED
    BY <1>2, <2>1, Downward
<1>. QED
  BY <1>3 DEF Dispatch

\* bookkeeping keeps whatever the call's target, or a value in memory, is computed
\* from, in windows of every length, as long as none of it reads a register as
\* cl, al and the like, which its pattern does not know.
THEOREM NothingDropped == Spec => []SliceSound
<1>1. WindowInv => SliceSound
  BY WindowSliceSound DEF WindowInv, SliceSound
<1>. QED
  BY <1>1, WindowInductive, PTL
-----------------------------------------------------------------------------
(* The stack.                                                               *)

\* The last instruction before w[i] that wrote the stack at address a, or 0.
LastAt(w, a, i) ==
    Max({j \in 1 .. (i - 1) : WritesSlot(w[j]) /\ Address(w, j) = a} \cup {0})

LEMMA LastAtIs ==
    ASSUME NEW w, NEW a, NEW i \in Nat \ {0}
    PROVE  /\ LastAt(w, a, i) \in 0 .. (i - 1)
           /\ LastAt(w, a, i) # 0 => /\ WritesSlot(w[LastAt(w, a, i)])
                                     /\ Address(w, LastAt(w, a, i)) = a
           /\ \A k \in 1 .. (i - 1) :
                WritesSlot(w[k]) /\ Address(w, k) = a => k <= LastAt(w, a, i)
<1>. DEFINE S == {j \in 1 .. (i - 1) : WritesSlot(w[j]) /\ Address(w, j) = a} \cup {0}
<1>1. Max(S) \in S /\ \A x \in S : x <= Max(S)
  <2>1. S \subseteq 0 .. (i - 1) /\ S # {} /\ i - 1 \in Nat
    OBVIOUS
  <2>. QED
    BY <2>1, MaxBounded
<1>. QED
  BY <1>1 DEF LastAt

\* One instruction later the last write is that instruction, or what it was.
LEMMA LastAtNext ==
    ASSUME NEW w, NEW a, NEW i \in Nat \ {0}
    PROVE  /\ WritesSlot(w[i]) /\ Address(w, i) = a => LastAt(w, a, i + 1) = i
           /\ ~(WritesSlot(w[i]) /\ Address(w, i) = a) =>
                LastAt(w, a, i + 1) = LastAt(w, a, i)
<1>. DEFINE before == LastAt(w, a, i)
            after  == LastAt(w, a, i + 1)
<1>1. /\ before \in 0 .. (i - 1)
      /\ before # 0 => WritesSlot(w[before]) /\ Address(w, before) = a
      /\ \A k \in 1 .. (i - 1) :
            WritesSlot(w[k]) /\ Address(w, k) = a => k <= before
  BY LastAtIs
<1>2. /\ after \in 0 .. i
      /\ after # 0 => WritesSlot(w[after]) /\ Address(w, after) = a
      /\ \A k \in 1 .. i :
            WritesSlot(w[k]) /\ Address(w, k) = a => k <= after
  <2>1. i + 1 \in Nat \ {0} /\ i + 1 - 1 = i
    OBVIOUS
  <2>. QED
    BY <2>1, LastAtIs
<1>. HIDE DEF before, after
<1>. QED
  BY <1>1, <1>2 DEF before, after

LEMMA DefAtNext ==
    ASSUME NEW w, NEW r, NEW i \in Nat \ {0}
    PROVE  /\ w[i].dst = r => DefAt(w, r, i + 1) = i
           /\ w[i].dst # r => DefAt(w, r, i + 1) = DefAt(w, r, i)
<1>. DEFINE before == DefAt(w, r, i)
            after  == DefAt(w, r, i + 1)
<1>1. /\ before \in 0 .. (i - 1)
      /\ before # 0 => w[before].dst = r
      /\ \A k \in 1 .. (i - 1) : w[k].dst = r => k <= before
  BY DefAtIs
<1>2. /\ after \in 0 .. i
      /\ after # 0 => w[after].dst = r
      /\ \A k \in 1 .. i : w[k].dst = r => k <= after
  <2>1. i + 1 \in Nat \ {0} /\ i + 1 - 1 = i
    OBVIOUS
  <2>. QED
    BY <2>1, DefAtIs
<1>. HIDE DEF before, after
<1>. QED
  BY <1>1, <1>2 DEF before, after

\* Nothing in a window pops: the stack pointer only goes down.
LEMMA DeltaGrows ==
    ASSUME NEW w, NEW i \in Nat, NEW j \in Nat, j <= i
    PROVE  Delta(w, j) \in Nat /\ Delta(w, i) \in Nat /\ Delta(w, j) <= Delta(w, i)
<1>. DEFINE P(k) == {m \in 1 .. (k - 1) : w[m].op = "push"}
<1>1. /\ IsFiniteSet(P(i)) /\ P(j) \subseteq P(i) /\ IsFiniteSet(P(j))
  <2>1. IsFiniteSet(1 .. (i - 1)) /\ P(i) \subseteq 1 .. (i - 1) /\ P(j) \subseteq P(i)
    BY FS_Interval
  <2>. QED
    BY <2>1, FS_Subset
<1>2. /\ Cardinality(P(j)) \in Nat /\ Cardinality(P(i)) \in Nat
      /\ Cardinality(P(j)) <= Cardinality(P(i))
  BY <1>1, FS_Subset, FS_CardinalityType
<1>3. \A c, d \in Nat : c <= d => Word * c \in Nat /\ Word * d \in Nat /\ Word * c <= Word * d
  BY SliceAssumption
<1>. QED
  BY <1>2, <1>3 DEF Delta

\* A slot with an offset that a window spilled to is above everything it pushes
\* later, and above the slot the stack pointer reaches: neither overwrites it.
LEMMA SlotsApart ==
    ASSUME NEW w, NEW i \in Nat, NEW j \in Nat, j < i,
           IsSlot(w[j]), w[j].op # "push", w[j].mem.slot \in Nat,
           w[i].op = "push" \/ w[i].mem.slot = 0
    PROVE  Address(w, i) # Address(w, j)
<1>1. Delta(w, j) \in Nat /\ Delta(w, i) \in Nat /\ Delta(w, j) <= Delta(w, i)
  BY DeltaGrows
<1>2. w[j].mem.slot \in Nat /\ w[j].mem.slot # 0
  BY DEF IsSlot
<1>. QED
  BY <1>1, <1>2, SliceAssumption DEF Address, SlotOf
-----------------------------------------------------------------------------
(* The names of the loads.                                                  *)

\* The forward pass of roles is well defined.
LEMMA RolesStatesIs ==
    ASSUME NEW w, NEW n \in Nat, n = Len(w)
    PROVE  RolesStates(w) =
             [i \in 0 .. (n - 1) |->
                IF i = 0 THEN [live |-> [r \in Regs |-> NoLoad], stack |-> <<>>]
                ELSE RolesStep(w, i, RolesStates(w)[i - 1])]
<1>. DEFINE E(f) == [i \in 0 .. (n - 1) |->
                IF i = 0 THEN [live |-> [r \in Regs |-> NoLoad], stack |-> <<>>]
                ELSE RolesStep(w, i, f[i - 1])]
            Good(f, k) == /\ f = [i \in 0 .. (n - 1) |-> f[i]]
                          /\ \A i \in 0 .. (n - 1) : i < k => f[i] = E(f)[i]
            Approx == {k \in Nat : \E f : Good(f, k)}
<1>. HIDE DEF E, Good
<1>1. 0 \in Approx
  <2>1. PICK f : f = [i \in 0 .. (n - 1) |-> 0]
    OBVIOUS
  <2>2. f = [i \in 0 .. (n - 1) |-> f[i]] /\ \A i \in 0 .. (n - 1) : ~(i < 0)
    BY <2>1
  <2>3. Good(f, 0)
    BY <2>2 DEF Good
  <2>. QED
    BY <2>3
<1>2. ASSUME NEW k \in Nat, k \in Approx PROVE k + 1 \in Approx
  <2>1. PICK f : Good(f, k)
    BY <1>2
  <2>2. PICK g : g = [i \in 0 .. (n - 1) |-> E(f)[i]]
    OBVIOUS
  <2>3. ASSUME NEW i \in 0 .. (n - 1), i < k + 1 PROVE g[i] = E(g)[i]
    <3>1. i # 0 => i - 1 \in 0 .. (n - 1) /\ i - 1 < k
      BY <2>3
    <3>2. i # 0 => g[i - 1] = f[i - 1]
      BY <2>1, <2>2, <3>1 DEF Good
    <3>. QED
      BY <2>2, <3>2 DEF E
  <2>4. g = [i \in 0 .. (n - 1) |-> g[i]]
    BY <2>2
  <2>5. Good(g, k + 1)
    BY <2>3, <2>4 DEF Good
  <2>. QED
    BY <2>5
<1>3. n + 1 \in Approx /\ \A i \in 0 .. (n - 1) : i < n + 1
  <2>. HIDE DEF Approx
  <2>. QED
    BY <1>1, <1>2, NatInduct
<1>4. PICK f : Good(f, n + 1)
  BY <1>3
<1>5. f = E(f)
  BY <1>3, <1>4 DEF E, Good
<1>6. RolesStates(w) = CHOOSE g : g = E(g)
  BY DEF RolesStates, E
<1>7. RolesStates(w) = E(RolesStates(w))
  BY <1>5, <1>6
<1>. QED
  BY <1>7 DEF E

\* So is the origin of every value.
LEMMA OriginsIs ==
    ASSUME NEW w, NEW n \in Nat, n = Len(w)
    PROVE  Origins(w) =
             [i \in 0 .. n |->
                IF i = 0 THEN NoLoad
                ELSE IF LoadsGlobal(w[i]) THEN i
                ELSE IF Copies(w[i]) /\ w[i].reads # {}
                THEN Origins(w)[DefAt(w, CHOOSE s \in w[i].reads : TRUE, i)]
                ELSE IF w[i].op \in {"mov", "movzx"} /\ ReadsSlot(w[i]) THEN Origins(w)[StoreAt(w, i)]
                ELSE NoLoad]
<1>. DEFINE E(f) == [i \in 0 .. n |->
                IF i = 0 THEN NoLoad
                ELSE IF LoadsGlobal(w[i]) THEN i
                ELSE IF Copies(w[i]) /\ w[i].reads # {}
                THEN f[DefAt(w, CHOOSE s \in w[i].reads : TRUE, i)]
                ELSE IF w[i].op \in {"mov", "movzx"} /\ ReadsSlot(w[i]) THEN f[StoreAt(w, i)]
                ELSE NoLoad]
            Good(f, k) == /\ f = [i \in 0 .. n |-> f[i]]
                          /\ \A i \in 0 .. n : i < k => f[i] = E(f)[i]
            Approx == {k \in Nat : \E f : Good(f, k)}
<1>. HIDE DEF E, Good
<1>1. 0 \in Approx
  <2>1. PICK f : f = [i \in 0 .. n |-> 0]
    OBVIOUS
  <2>2. f = [i \in 0 .. n |-> f[i]] /\ \A i \in 0 .. n : ~(i < 0)
    BY <2>1
  <2>3. Good(f, 0)
    BY <2>2 DEF Good
  <2>. QED
    BY <2>3
<1>2. ASSUME NEW k \in Nat, k \in Approx PROVE k + 1 \in Approx
  <2>1. PICK f : Good(f, k)
    BY <1>2
  <2>2. PICK g : g = [i \in 0 .. n |-> E(f)[i]]
    OBVIOUS
  <2>3. ASSUME NEW i \in 0 .. n, i < k + 1 PROVE g[i] = E(g)[i]
    <3>. DEFINE d == DefAt(w, CHOOSE s \in w[i].reads : TRUE, i)
                t == StoreAt(w, i)
    <3>1. i # 0 => /\ d \in 0 .. n /\ d < k
                   /\ t \in 0 .. n /\ t < k
      BY <2>3, DefAtIs, StoreAtIs
    <3>. HIDE DEF d, t
    <3>2. i # 0 => g[d] = f[d] /\ g[t] = f[t]
      BY <2>1, <2>2, <3>1 DEF Good
    <3>. QED
      BY <2>2, <3>2 DEF E, d, t
  <2>4. g = [i \in 0 .. n |-> g[i]]
    BY <2>2
  <2>5. Good(g, k + 1)
    BY <2>3, <2>4 DEF Good
  <2>. QED
    BY <2>5
<1>3. n + 1 \in Approx /\ \A i \in 0 .. n : i < n + 1
  <2>. HIDE DEF Approx
  <2>. QED
    BY <1>1, <1>2, NatInduct
<1>4. PICK f : Good(f, n + 1)
  BY <1>3
<1>5. f = E(f)
  BY <1>3, <1>4 DEF E, Good
<1>6. Origins(w) = CHOOSE g : g = E(g)
  BY DEF Origins, E
<1>7. Origins(w) = E(Origins(w))
  BY <1>5, <1>6
<1>. QED
  BY <1>7 DEF E

\* What FormsAssumption says of an instruction of a window.
LEMMA WindowForms ==
    ASSUME NEW w, Window(w), NEW i \in 1 .. Len(w)
    PROVE  /\ i = Len(w) => w[i].op = "call"
           /\ i # Len(w) => w[i].op \in Writes \cup Stores \cup {"push"}
           /\ IF w[i].op \in Writes THEN w[i].dst \in Regs ELSE w[i].dst = NoReg
           /\ w[i].reads \subseteq Regs /\ w[i].mem.base \subseteq Regs
           /\ w[i].mem.kind \in {"none", "mem", "slot"} /\ w[i].mem.slot \in Nat
           /\ w[i].mem.kind # "mem" => w[i].mem.base = {}
           /\ w[i].op \in Stores => w[i].mem.kind # "none"
           /\ w[i].op \in (Writes \ {"shrx"}) \cup {"call"} /\ w[i].mem.kind # "none" =>
                w[i].reads = {}
<1>1. w[i] \in Instructions \cup Calls
  BY DEF Window
<1>2. i = Len(w) => w[i] \in Calls
  BY DEF Window
<1>3. i # Len(w) => w[i] \in Instructions
  BY DEF Window
<1>4. (i = Len(w) => w[i].op = "call") /\ (i # Len(w) => w[i].op # "call")
  BY <1>2, <1>3, SliceAssumption
<1>. QED
  BY <1>1, <1>4, FormsAssumption

\* Every slot the passes know was spilled to, by a store with an offset.
Spilled(w, i, stack) ==
    \A a \in DOMAIN stack :
        \E j \in 1 .. i : w[j].op = "store" /\ IsSlot(w[j]) /\ Address(w, j) = a

\* An instruction that is not itself such a store leaves the last write of every
\* slot the passes know as it was.
LEMMA KnownSlotsKept ==
    ASSUME NEW w, Window(w), NEW i \in 1 .. (Len(w) - 1), NEW stack,
           Spilled(w, i - 1, stack), NEW a \in DOMAIN stack, w[i].op # "rmwstore",
           ~(w[i].op = "store" /\ IsSlot(w[i]))
    PROVE  LastAt(w, a, i + 1) = LastAt(w, a, i)
<1>1. PICK j \in 1 .. (i - 1) : w[j].op = "store" /\ IsSlot(w[j]) /\ Address(w, j) = a
  BY DEF Spilled
<1>2. Len(w) \in Nat /\ i \in 1 .. Len(w) /\ j \in 1 .. Len(w) /\ j < i
  BY <1>1 DEF Window
<1>3. w[j].mem.slot \in Nat /\ w[i].mem.slot \in Nat
  BY <1>2, WindowForms
<1>4. ~(WritesSlot(w[i]) /\ Address(w, i) = a)
  <2>. SUFFICES ASSUME WritesSlot(w[i]) PROVE Address(w, i) # a
    OBVIOUS
  <2>1. w[i].op = "push" \/ w[i].mem.slot = 0
    BY DEF WritesSlot, Stores, IsSlot
  <2>. QED
    BY <1>1, <1>2, <1>3, <2>1, SlotsApart
<1>. QED
  BY <1>2, <1>4, LastAtNext

\* live names the loads that registers hold, or nothing, and so does stack.
RolesInv(w, i, st) ==
    /\ st = [live |-> st.live, stack |-> st.stack]
    /\ st.live = [r \in Regs |-> st.live[r]]
    /\ \A r \in Regs : st.live[r] \in {NoLoad, Origins(w)[DefAt(w, r, i + 1)]}
    /\ Spilled(w, i, st.stack)
    /\ \A a \in DOMAIN st.stack :
          st.stack[a] \in {NoLoad, Origins(w)[LastAt(w, a, i + 1)]}

LEMMA RolesStepSound ==
    ASSUME NEW w, Window(w), NEW i \in 1 .. (Len(w) - 1), w[i].op # "rmwstore",
           NEW st, RolesInv(w, i - 1, st)
    PROVE  RolesInv(w, i, RolesStep(w, i, st))
<1>. DEFINE x   == w[i]
            key == Key(w, i)
            o   == Origins(w)
            new == RolesStep(w, i, st)
<1>1. /\ Len(w) \in Nat /\ i \in Nat \ {0} /\ i \in 1 .. Len(w) /\ i # Len(w)
      /\ i - 1 + 1 = i /\ i \in 0 .. Len(w)
  BY DEF Window
<1>2. /\ x.op \in Writes \cup {"store", "push"}
      /\ IF x.op \in Writes THEN x.dst \in Regs ELSE x.dst = NoReg
      /\ x.reads \subseteq Regs
  BY <1>1, WindowForms DEF Stores
<1>3. /\ st = [live |-> st.live, stack |-> st.stack]
      /\ st.live = [r \in Regs |-> st.live[r]]
      /\ \A r \in Regs : st.live[r] \in {NoLoad, o[DefAt(w, r, i)]}
      /\ Spilled(w, i - 1, st.stack)
      /\ \A a \in DOMAIN st.stack : st.stack[a] \in {NoLoad, o[LastAt(w, a, i)]}
  BY <1>1 DEF RolesInv
<1>4. o[i] = IF LoadsGlobal(x) THEN i
             ELSE IF Copies(x) /\ x.reads # {}
             THEN o[DefAt(w, CHOOSE s \in x.reads : TRUE, i)]
             ELSE IF x.op \in {"mov", "movzx"} /\ ReadsSlot(x) THEN o[StoreAt(w, i)]
             ELSE NoLoad
  BY <1>1, OriginsIs
<1>5. Spilled(w, i, st.stack)
  BY <1>1, <1>3 DEF Spilled
<1>6. x.dst = NoReg => \A r \in Regs : DefAt(w, r, i + 1) = DefAt(w, r, i)
  <2>1. \A r \in Regs : r # NoReg
    BY SliceAssumption
  <2>. QED
    BY <1>1, <2>1, DefAtNext
<1>7. \A r \in Regs : DefAt(w, r, i + 1) = IF x.dst = r THEN i ELSE DefAt(w, r, i)
  BY <1>1, DefAtNext
<1>. HIDE DEF o
<1>8. CASE x.op = "store" /\ IsSlot(x)
  <2>1. /\ new.live = st.live
        /\ new.stack = [a \in DOMAIN st.stack \cup {key} |->
                          IF a = key THEN LiveSource(st.live, x) ELSE st.stack[a]]
        /\ new = [live |-> new.live, stack |-> new.stack]
    BY <1>3, <1>8 DEF RolesStep, Put
  <2>2. x.dst = NoReg /\ Address(w, i) = key
    BY <1>2, <1>8 DEF Writes, Address, SlotOf, Key
  <2>3. Spilled(w, i, new.stack)
    BY <1>1, <1>5, <1>8, <2>1, <2>2 DEF Spilled
  <2>4. LiveSource(st.live, x) \in {NoLoad, o[i]}
    <3>1. ~LoadsGlobal(x) /\ Copies(x)
      BY <1>8 DEF LoadsGlobal, Copies
    <3>2. CASE x.reads = {}
      BY <3>2 DEF LiveSource
    <3>3. CASE x.reads # {}
      <4>1. (CHOOSE s \in x.reads : TRUE) \in Regs
        BY <1>2, <3>3
      <4>. QED
        BY <1>3, <1>4, <3>1, <3>3, <4>1 DEF LiveSource
    <3>. QED
      BY <3>2, <3>3
  <2>5. ASSUME NEW a \in DOMAIN new.stack
        PROVE  new.stack[a] \in {NoLoad, o[LastAt(w, a, i + 1)]}
    <3>1. CASE a = key
      <4>1. LastAt(w, a, i + 1) = i
        BY <1>1, <1>8, <2>2, <3>1, LastAtNext DEF WritesSlot, Stores, IsSlot
      <4>. QED
        BY <2>1, <2>4, <3>1, <4>1
    <3>2. CASE a # key
      <4>1. LastAt(w, a, i + 1) = LastAt(w, a, i)
        BY <1>1, <2>2, <3>2, LastAtNext
      <4>. QED
        BY <1>3, <2>1, <3>2, <4>1
    <3>. QED
      BY <3>1, <3>2
  <2>. QED
    BY <1>3, <1>6, <2>1, <2>2, <2>3, <2>5 DEF RolesInv, o
<1>9. CASE ~(x.op = "store" /\ IsSlot(x)) /\ x.dst = NoReg
  <2>1. new = st
    BY <1>9 DEF RolesStep
  <2>2. \A a \in DOMAIN st.stack : LastAt(w, a, i + 1) = LastAt(w, a, i)
    BY <1>3, <1>9, KnownSlotsKept
  <2>. HIDE DEF new
  <2>3. /\ \A r \in Regs : new.live[r] \in {NoLoad, o[DefAt(w, r, i + 1)]}
        /\ \A a \in DOMAIN new.stack : new.stack[a] \in {NoLoad, o[LastAt(w, a, i + 1)]}
    BY <1>3, <1>6, <1>9, <2>1, <2>2
  <2>. QED
    BY <1>3, <1>5, <2>1, <2>3 DEF RolesInv, o, new
<1>10. CASE ~(x.op = "store" /\ IsSlot(x)) /\ x.dst # NoReg
  <2>. DEFINE v == IF LoadsGlobal(x) THEN i
                   ELSE IF x.op = "mov" /\ IsSlot(x) THEN Lookup(st.stack, key)
                   ELSE NoLoad
  <2>1. /\ new.stack = st.stack
        /\ new.live = [r \in Regs |-> IF r = x.dst THEN v ELSE st.live[r]]
        /\ new = [live |-> new.live, stack |-> new.stack]
    BY <1>3, <1>10 DEF RolesStep
  <2>2. \A a \in DOMAIN st.stack : LastAt(w, a, i + 1) = LastAt(w, a, i)
    BY <1>3, <1>10, KnownSlotsKept
  <2>3. v \in {NoLoad, o[i]}
    <3>1. CASE LoadsGlobal(x)
      BY <1>4, <3>1
    <3>2. CASE x.op = "mov" /\ IsSlot(x)
      <4>1. ~LoadsGlobal(x) /\ ~Copies(x) /\ ReadsSlot(x)
        BY <3>2 DEF IsSlot, LoadsGlobal, Copies, ReadsSlot
      <4>2. o[i] = o[StoreAt(w, i)]
        BY <1>4, <3>2, <4>1
      <4>3. StoreAt(w, i) = LastAt(w, key, i)
        BY DEF StoreAt, LastAt, SlotOf, Key
      <4>. QED
        BY <1>3, <3>2, <4>1, <4>2, <4>3 DEF Lookup
    <3>3. CASE ~LoadsGlobal(x) /\ ~(x.op = "mov" /\ IsSlot(x))
      BY <3>3
    <3>. QED
      BY <3>1, <3>2, <3>3
  <2>. HIDE DEF v, new
  <2>4. /\ \A r \in Regs : new.live[r] \in {NoLoad, o[DefAt(w, r, i + 1)]}
        /\ \A a \in DOMAIN new.stack : new.stack[a] \in {NoLoad, o[LastAt(w, a, i + 1)]}
        /\ new.live = [r \in Regs |-> new.live[r]]
    BY <1>3, <1>7, <2>1, <2>2, <2>3
  <2>. QED
    BY <1>5, <2>1, <2>4 DEF RolesInv, o, new
<1>. QED
  BY <1>8, <1>9, <1>10

\* Whatever is spilled, shifted and reloaded, and however long the window, a
\* register is named for the load whose value it holds, or not at all.
LEMMA WindowRolesSound ==
    ASSUME NEW w, Window(w), \A i \in 1 .. Len(w) : w[i].op # "rmwstore"
    PROVE  \A r \in Regs : Named(w)[r] \in {NoLoad, Origin(w, r, Len(w))}
<1>. DEFINE n == Len(w)
            S == {i \in 0 .. (n - 1) : RolesInv(w, i, RolesStates(w)[i])}
<1>1. n \in Nat /\ n >= 1 /\ n - 1 \in 0 .. (n - 1) /\ n - 1 + 1 = n
  BY DEF Window
<1>2. ASSUME NEW i \in 0 .. (n - 1), \A j \in 0 .. (i - 1) : j \in S PROVE i \in S
  <2>1. CASE i = 0
    <3>1. RolesStates(w)[0] = [live |-> [r \in Regs |-> NoLoad], stack |-> <<>>]
      BY <1>1, <2>1, RolesStatesIs
    <3>2. DOMAIN <<>> = {}
      OBVIOUS
    <3>3. RolesInv(w, 0, RolesStates(w)[0])
      BY <3>1, <3>2 DEF RolesInv, Spilled
    <3>. QED
      BY <2>1, <3>3
  <2>2. CASE i # 0
    <3>1. i \in 1 .. (n - 1) /\ i \in 1 .. n /\ i - 1 \in 0 .. (i - 1)
      BY <1>1, <2>2
    <3>2. RolesStates(w)[i] = RolesStep(w, i, RolesStates(w)[i - 1])
      BY <1>1, <2>2, RolesStatesIs
    <3>3. RolesInv(w, i - 1, RolesStates(w)[i - 1])
      BY <1>2, <3>1
    <3>4. RolesInv(w, i, RolesStates(w)[i])
      BY <3>1, <3>2, <3>3, RolesStepSound
    <3>. QED
      BY <3>4
  <2>. QED
    BY <2>1, <2>2
<1>3. 0 .. (n - 1) \subseteq S
  <2>1. 0 \in Nat /\ n - 1 \in Int
    BY <1>1
  <2>. HIDE DEF S, n
  <2>. QED
    BY <1>2, <2>1, Upward
<1>4. RolesInv(w, n - 1, RolesStates(w)[n - 1])
  BY <1>1, <1>3
<1>. QED
  BY <1>1, <1>4 DEF RolesInv, Named, Origin

\* The listings' [rip+mult], [rip+slot] are what they say: roles names no register
\* for a load whose value it does not hold, in windows of every length.
THEOREM NamesAreRight == Spec => []RolesSound
<1>1. WindowInv => RolesSound
  BY WindowRolesSound DEF WindowInv, RolesSound
<1>. QED
  BY <1>1, WindowInductive, PTL
-----------------------------------------------------------------------------
(* The number of dependent loads.                                           *)

\* The depth of w[i], from those of its sources and of its address registers.
DepthFrom(w, i, from, addr) ==
    LET x    == w[i]
        load == CASE LoadsMem(x) -> Max(addr \cup {0}) + 1
                  [] LoadsIncoming(w, i) -> 1
                  [] OTHER -> 0
    IN  Max(from \cup {load})


\* The forward pass of chain is well defined.
LEMMA ChainStatesIs ==
    ASSUME NEW w, NEW n \in Nat, n = Len(w)
    PROVE  ChainStates(w) =
             [i \in 0 .. (n - 1) |->
                IF i = 0 THEN [dep |-> [r \in Regs |-> 0], stack |-> <<>>]
                ELSE ChainStep(w, i, ChainStates(w)[i - 1])]
<1>. DEFINE E(f) == [i \in 0 .. (n - 1) |->
                IF i = 0 THEN [dep |-> [r \in Regs |-> 0], stack |-> <<>>]
                ELSE ChainStep(w, i, f[i - 1])]
            Good(f, k) == /\ f = [i \in 0 .. (n - 1) |-> f[i]]
                          /\ \A i \in 0 .. (n - 1) : i < k => f[i] = E(f)[i]
            Approx == {k \in Nat : \E f : Good(f, k)}
<1>. HIDE DEF E, Good
<1>1. 0 \in Approx
  <2>1. PICK f : f = [i \in 0 .. (n - 1) |-> 0]
    OBVIOUS
  <2>2. f = [i \in 0 .. (n - 1) |-> f[i]] /\ \A i \in 0 .. (n - 1) : ~(i < 0)
    BY <2>1
  <2>3. Good(f, 0)
    BY <2>2 DEF Good
  <2>. QED
    BY <2>3
<1>2. ASSUME NEW k \in Nat, k \in Approx PROVE k + 1 \in Approx
  <2>1. PICK f : Good(f, k)
    BY <1>2
  <2>2. PICK g : g = [i \in 0 .. (n - 1) |-> E(f)[i]]
    OBVIOUS
  <2>3. ASSUME NEW i \in 0 .. (n - 1), i < k + 1 PROVE g[i] = E(g)[i]
    <3>1. i # 0 => i - 1 \in 0 .. (n - 1) /\ i - 1 < k
      BY <2>3
    <3>2. i # 0 => g[i - 1] = f[i - 1]
      BY <2>1, <2>2, <3>1 DEF Good
    <3>. QED
      BY <2>2, <3>2 DEF E
  <2>4. g = [i \in 0 .. (n - 1) |-> g[i]]
    BY <2>2
  <2>5. Good(g, k + 1)
    BY <2>3, <2>4 DEF Good
  <2>. QED
    BY <2>5
<1>3. n + 1 \in Approx /\ \A i \in 0 .. (n - 1) : i < n + 1
  <2>. HIDE DEF Approx
  <2>. QED
    BY <1>1, <1>2, NatInduct
<1>4. PICK f : Good(f, n + 1)
  BY <1>3
<1>5. f = E(f)
  BY <1>3, <1>4 DEF E, Good
<1>6. ChainStates(w) = CHOOSE g : g = E(g)
  BY DEF ChainStates, E
<1>7. ChainStates(w) = E(ChainStates(w))
  BY <1>5, <1>6
<1>. QED
  BY <1>7 DEF E

\* So is the depth of every value.
LEMMA DepthsIs ==
    ASSUME NEW w, NEW n \in Nat, n = Len(w)
    PROVE  Depths(w) =
             [i \in 1 .. n |->
                DepthFrom(w, i, {Depths(w)[j] : j \in Sources(w, i)},
                          {Depths(w)[DefAt(w, r, i)] : r \in {s \in w[i].mem.base : DefAt(w, s, i) # 0}})]
<1>. DEFINE E(f) == [i \in 1 .. n |->
                DepthFrom(w, i, {f[j] : j \in Sources(w, i)},
                          {f[DefAt(w, r, i)] : r \in {s \in w[i].mem.base : DefAt(w, s, i) # 0}})]
            Good(f, k) == /\ f = [i \in 1 .. n |-> f[i]]
                          /\ \A i \in 1 .. n : i < k => f[i] = E(f)[i]
            Approx == {k \in Nat : \E f : Good(f, k)}
<1>. HIDE DEF E, Good
<1>1. 0 \in Approx
  <2>1. PICK f : f = [i \in 1 .. n |-> 0]
    OBVIOUS
  <2>2. f = [i \in 1 .. n |-> f[i]] /\ \A i \in 1 .. n : ~(i < 0)
    BY <2>1
  <2>3. Good(f, 0)
    BY <2>2 DEF Good
  <2>. QED
    BY <2>3
<1>2. ASSUME NEW k \in Nat, k \in Approx PROVE k + 1 \in Approx
  <2>1. PICK f : Good(f, k)
    BY <1>2
  <2>2. PICK g : g = [i \in 1 .. n |-> E(f)[i]]
    OBVIOUS
  <2>3. ASSUME NEW i \in 1 .. n, i < k + 1 PROVE g[i] = E(g)[i]
    <3>1. \A j \in 1 .. (i - 1) : g[j] = f[j]
      BY <2>1, <2>2, <2>3 DEF Good
    <3>2. \A j \in Sources(w, i) : g[j] = f[j]
      BY <3>1, SourcesBefore
    <3>3. \A r \in {s \in w[i].mem.base : DefAt(w, s, i) # 0} :
            g[DefAt(w, r, i)] = f[DefAt(w, r, i)]
      <4>1. \A r : DefAt(w, r, i) \in 0 .. (i - 1)
        BY DefAtIs
      <4>. QED
        BY <3>1, <4>1
    <3>4. {g[j] : j \in Sources(w, i)} = {f[j] : j \in Sources(w, i)}
      BY <3>2
    <3>5. {g[DefAt(w, r, i)] : r \in {s \in w[i].mem.base : DefAt(w, s, i) # 0}}
          = {f[DefAt(w, r, i)] : r \in {s \in w[i].mem.base : DefAt(w, s, i) # 0}}
      BY <3>3
    <3>. QED
      BY <2>2, <3>4, <3>5 DEF E
  <2>4. g = [i \in 1 .. n |-> g[i]]
    BY <2>2
  <2>5. Good(g, k + 1)
    BY <2>3, <2>4 DEF Good
  <2>. QED
    BY <2>5
<1>3. n + 1 \in Approx /\ \A i \in 1 .. n : i < n + 1
  <2>. HIDE DEF Approx
  <2>. QED
    BY <1>1, <1>2, NatInduct
<1>4. PICK f : Good(f, n + 1)
  BY <1>3
<1>5. f = E(f)
  BY <1>3, <1>4 DEF E, Good
<1>6. Depths(w) = CHOOSE g : g = E(g)
  BY DEF Depths, E, DepthFrom
<1>7. Depths(w) = E(Depths(w))
  BY <1>5, <1>6
<1>. QED
  BY <1>7 DEF E

\* A maximum of naturals is at most m when they all are.
LEMMA MaxAtMost ==
    ASSUME NEW b \in Nat, NEW S, S \subseteq 0 .. b, S # {}, NEW m \in Nat
    PROVE  Max(S) \in 0 .. b /\ (Max(S) <= m <=> \A x \in S : x <= m)
<1>1. Max(S) \in S /\ Max(S) \in 0 .. b /\ \A x \in S : x <= Max(S) /\ x \in 0 .. b
  BY MaxBounded
<1>2. ASSUME Max(S) <= m, NEW x \in S PROVE x <= m
  BY <1>1, <1>2
<1>. QED
  BY <1>1, <1>2

\* The depth of the result of w[j]; what the window did not make has none.
DepthOf(w, j) == IF j = 0 THEN 0 ELSE Depths(w)[j]

\* The depth of w[i] is the least number that no source exceeds and no address
\* register reaches.
LEMMA DepthIs ==
    ASSUME NEW w, NEW n \in Nat, n = Len(w), NEW i \in 1 .. n
    PROVE  /\ Depths(w)[i] \in 0 .. i
           /\ \A m \in Nat :
                Depths(w)[i] <= m <=>
                    /\ \A r \in Uses(w[i]) : DepthOf(w, DefAt(w, r, i)) <= m
                    /\ ReadsSlot(w[i]) => DepthOf(w, StoreAt(w, i)) <= m
                    /\ LoadsMem(w[i]) =>
                         1 <= m /\ \A r \in w[i].mem.base : DepthOf(w, DefAt(w, r, i)) + 1 <= m
                    /\ LoadsIncoming(w, i) => 1 <= m
<1>. DEFINE d == Depths(w)
            from(k) == {d[j] : j \in Sources(w, k)}
            addr(k) == {d[DefAt(w, r, k)] : r \in {s \in w[k].mem.base : DefAt(w, s, k) # 0}}
            load(k) == CASE LoadsMem(w[k]) -> Max(addr(k) \cup {0}) + 1
                         [] LoadsIncoming(w, k) -> 1
                         [] OTHER -> 0
            S == {k \in 1 .. n : d[k] \in 0 .. k}
<1>1. ASSUME NEW k \in 1 .. n PROVE d[k] = Max(from(k) \cup {load(k)})
  <2>1. d[k] = DepthFrom(w, k, from(k), addr(k))
    BY DepthsIs
  <2>. HIDE DEF d, from, addr
  <2>. QED
    BY <2>1 DEF DepthFrom
<1>2. ASSUME NEW k \in 1 .. n, \A j \in 1 .. (k - 1) : d[j] \in 0 .. j
      PROVE  /\ from(k) \subseteq 0 .. (k - 1) /\ addr(k) \subseteq 0 .. (k - 1)
             /\ addr(k) \cup {0} \subseteq 0 .. (k - 1)
             /\ load(k) \in 0 .. k /\ from(k) \cup {load(k)} \subseteq 0 .. k
  <2>1. \A j \in Sources(w, k) : j \in 1 .. (k - 1)
    BY SourcesBefore
  <2>2. \A r : DefAt(w, r, k) \in 0 .. (k - 1)
    BY DefAtIs
  <2>3. \A j \in 1 .. (k - 1) : d[j] \in 0 .. (k - 1)
    BY <1>2
  <2>4. from(k) \subseteq 0 .. (k - 1)
    BY <2>1, <2>3
  <2>5. addr(k) \subseteq 0 .. (k - 1) /\ addr(k) \cup {0} \subseteq 0 .. (k - 1)
    BY <2>2, <2>3
  <2>. HIDE DEF from, addr
  <2>6. Max(addr(k) \cup {0}) \in 0 .. (k - 1)
    <3>1. k - 1 \in Nat /\ addr(k) \cup {0} # {}
      OBVIOUS
    <3>. QED
      BY <2>5, <3>1, MaxBounded
  <2>7. load(k) \in 0 .. k
    BY <2>6
  <2>. HIDE DEF load
  <2>. QED
    BY <2>4, <2>5, <2>7
<1>3. ASSUME NEW k \in 1 .. n, \A j \in 1 .. (k - 1) : j \in S PROVE k \in S
  <2>1. \A j \in 1 .. (k - 1) : d[j] \in 0 .. j
    BY <1>3
  <2>. HIDE DEF d, load, from
  <2>2. from(k) \cup {load(k)} \subseteq 0 .. k /\ k \in Nat /\ from(k) \cup {load(k)} # {}
    BY <1>2, <2>1
  <2>. QED
    BY <1>1, <2>2, MaxBounded
<1>4. 1 .. n \subseteq S
  <2>1. 1 \in Nat /\ n \in Int
    OBVIOUS
  <2>. HIDE DEF S
  <2>. QED
    BY <1>3, <2>1, Upward
<1>5. d[i] \in 0 .. i
  BY <1>4
<1>6. /\ from(i) \subseteq 0 .. (i - 1) /\ addr(i) \cup {0} \subseteq 0 .. (i - 1)
      /\ load(i) \in 0 .. i /\ from(i) \cup {load(i)} \subseteq 0 .. i
  <2>1. \A j \in 1 .. (i - 1) : d[j] \in 0 .. j
    BY <1>4
  <2>. HIDE DEF d, load, from, addr
  <2>. QED
    BY <1>2, <2>1
<1>7. ASSUME NEW m \in Nat
      PROVE  d[i] <= m <=>
                /\ \A r \in Uses(w[i]) : DepthOf(w, DefAt(w, r, i)) <= m
                /\ ReadsSlot(w[i]) => DepthOf(w, StoreAt(w, i)) <= m
                /\ LoadsMem(w[i]) =>
                     1 <= m /\ \A r \in w[i].mem.base : DepthOf(w, DefAt(w, r, i)) + 1 <= m
                /\ LoadsIncoming(w, i) => 1 <= m
  <2>1. d[i] <= m <=> (\A x \in from(i) : x <= m) /\ load(i) <= m
    <3>. HIDE DEF d, load, from
    <3>1. d[i] <= m <=> \A x \in from(i) \cup {load(i)} : x <= m
      <4>1. i \in Nat /\ from(i) \cup {load(i)} # {} /\ d[i] = Max(from(i) \cup {load(i)})
        BY <1>1
      <4>2. PICK T : T = from(i) \cup {load(i)}
        OBVIOUS
      <4>3. T \subseteq 0 .. i /\ T # {}
        BY <1>6, <4>2
      <4>4. Max(T) <= m <=> \A x \in T : x <= m
        BY <4>1, <4>3, MaxAtMost
      <4>. QED
        BY <4>1, <4>2, <4>4
    <3>. QED
      BY <3>1
  <2>2. (\A x \in from(i) : x <= m) <=>
            /\ \A r \in Uses(w[i]) : DepthOf(w, DefAt(w, r, i)) <= m
            /\ ReadsSlot(w[i]) => DepthOf(w, StoreAt(w, i)) <= m
    <3>1. (\A x \in from(i) : x <= m) <=> \A j \in Sources(w, i) : DepthOf(w, j) <= m
      BY DEF DepthOf, Sources
    <3>2. DepthOf(w, 0) = 0
      BY DEF DepthOf
    <3>. QED
      BY <3>1, <3>2 DEF Sources
  <2>3. load(i) <= m <=>
            /\ LoadsMem(w[i]) =>
                 1 <= m /\ \A r \in w[i].mem.base : DepthOf(w, DefAt(w, r, i)) + 1 <= m
            /\ LoadsIncoming(w, i) => 1 <= m
    <3>1. CASE LoadsMem(w[i])
      <4>1. load(i) = Max(addr(i) \cup {0}) + 1 /\ ~LoadsIncoming(w, i)
        BY <3>1 DEF LoadsMem, LoadsIncoming, ReadsSlot
      <4>2. \A r \in w[i].mem.base : DefAt(w, r, i) # 0 => DepthOf(w, DefAt(w, r, i)) \in addr(i)
        BY DEF DepthOf
      <4>3. \A x \in addr(i) : \E r \in w[i].mem.base : DefAt(w, r, i) # 0 /\ x = DepthOf(w, DefAt(w, r, i))
        BY DEF DepthOf
      <4>4. \A r \in w[i].mem.base : DefAt(w, r, i) = 0 => DepthOf(w, DefAt(w, r, i)) = 0
        BY DEF DepthOf
      <4>. HIDE DEF addr, load
      <4>5. CASE m = 0
        <5>1. Max(addr(i) \cup {0}) \in 0 .. (i - 1)
          <6>1. i - 1 \in Nat /\ addr(i) \cup {0} # {}
            OBVIOUS
          <6>. QED
            BY <1>6, <6>1, MaxBounded
        <5>. QED
          BY <3>1, <4>1, <4>5, <5>1
      <4>6. CASE m # 0
        <5>1. m - 1 \in Nat /\ i - 1 \in Nat /\ addr(i) \cup {0} # {}
          BY <4>6
        <5>2. /\ Max(addr(i) \cup {0}) \in 0 .. (i - 1)
              /\ Max(addr(i) \cup {0}) <= m - 1 <=> \A x \in addr(i) \cup {0} : x <= m - 1
          BY <1>6, <5>1, MaxAtMost
        <5>3. \A x \in addr(i) \cup {0} : x \in 0 .. (i - 1)
          BY <1>6
        <5>4. (\A x \in addr(i) \cup {0} : x <= m - 1) <=>
                \A r \in w[i].mem.base : DepthOf(w, DefAt(w, r, i)) + 1 <= m
          <6>1. ASSUME \A x \in addr(i) \cup {0} : x <= m - 1, NEW r \in w[i].mem.base
                PROVE  DepthOf(w, DefAt(w, r, i)) + 1 <= m
            BY <4>2, <4>4, <5>1, <5>3, <6>1
          <6>2. ASSUME \A r \in w[i].mem.base : DepthOf(w, DefAt(w, r, i)) + 1 <= m,
                       NEW x \in addr(i) \cup {0}
                PROVE  x <= m - 1
            BY <4>3, <5>1, <5>3, <6>2
          <6>. QED
            BY <6>1, <6>2
        <5>. QED
          BY <3>1, <4>1, <5>1, <5>2, <5>4
      <4>. QED
        BY <4>5, <4>6
    <3>2. CASE LoadsIncoming(w, i)
      <4>1. load(i) = 1 /\ ~LoadsMem(w[i])
        BY <3>2 DEF LoadsMem, LoadsIncoming, ReadsSlot
      <4>. QED
        BY <3>2, <4>1
    <3>3. CASE ~LoadsMem(w[i]) /\ ~LoadsIncoming(w, i)
      <4>1. load(i) = 0
        BY <3>3
      <4>. QED
        BY <3>3, <4>1
    <3>. QED
      BY <3>1, <3>2, <3>3
  <2>. HIDE DEF d, from, load
  <2>. QED
    BY <2>1, <2>2, <2>3
<1>. QED
  BY <1>5, <1>7

LEMMA DeepestIs ==
    ASSUME NEW b \in Nat, NEW dep, NEW regs, \A r \in regs : dep[r] \in 0 .. b
    PROVE  /\ Deepest(dep, regs) \in 0 .. b
           /\ \A m \in Nat : Deepest(dep, regs) <= m <=> \A r \in regs : dep[r] <= m
<1>. DEFINE S == {dep[r] : r \in regs} \cup {0}
<1>1. S \subseteq 0 .. b /\ S # {} /\ Deepest(dep, regs) = Max(S)
  BY DEF Deepest
<1>2. ASSUME NEW m \in Nat PROVE (\A x \in S : x <= m) <=> \A r \in regs : dep[r] <= m
  OBVIOUS
<1>. HIDE DEF S
<1>3. Max(S) \in 0 .. b
  BY <1>1, MaxBounded
<1>4. ASSUME NEW m \in Nat PROVE Max(S) <= m <=> \A x \in S : x <= m
  BY <1>1, MaxAtMost
<1>. QED
  BY <1>1, <1>2, <1>3, <1>4

\* Windows the two counts of loads are compared on.
Exactable(w) ==
    /\ Window(w) /\ ~Unseen(w)
    /\ \A i \in 1 .. Len(w) : w[i].op = "shrx" => w[i].mem.kind = "none"

NoLea(w) == \A i \in 1 .. Len(w) : w[i].op # "lea"

\* A published depth v is the depth d, or more when lea was counted as a load.
Agrees(w, v, d) == v >= d /\ (NoLea(w) => v = d)

LEMMA AgreesByBounds ==
    ASSUME NEW w, NEW v \in Nat, NEW d \in Nat,
           \A m \in Nat : v <= m => d <= m,
           NoLea(w) => \A m \in Nat : d <= m => v <= m
    PROVE  Agrees(w, v, d)
BY DEF Agrees

\* dep holds the depth of every register, stack that of every slot spilled to.
ChainInv(w, i, st) ==
    /\ st = [dep |-> st.dep, stack |-> st.stack]
    /\ st.dep = [r \in Regs |-> st.dep[r]]
    /\ \A r \in Regs :
          st.dep[r] \in 0 .. i /\ Agrees(w, st.dep[r], DepthOf(w, DefAt(w, r, i + 1)))
    /\ Spilled(w, i, st.stack)
    /\ \A j \in 1 .. i :
          w[j].op = "store" /\ IsSlot(w[j]) => Address(w, j) \in DOMAIN st.stack
    /\ \A a \in DOMAIN st.stack :
          st.stack[a] \in 0 .. i /\ Agrees(w, st.stack[a], DepthOf(w, LastAt(w, a, i + 1)))

\* Whatever w[i] reads through its memory operand is at most m.
MemAtMost(w, i, m) ==
    /\ \A r \in w[i].mem.base : DepthOf(w, DefAt(w, r, i)) <= m
    /\ ReadsSlot(w[i]) => DepthOf(w, StoreAt(w, i)) <= m
    /\ LoadsMem(w[i]) =>
         1 <= m /\ \A r \in w[i].mem.base : DepthOf(w, DefAt(w, r, i)) + 1 <= m
    /\ LoadsIncoming(w, i) => 1 <= m

\* A slot that is read is known exactly when the window wrote it.
LEMMA KnownSlot ==
    ASSUME NEW w, Exactable(w), NEW i \in 1 .. Len(w),
           NEW st, ChainInv(w, i - 1, st), ReadsSlot(w[i]), w[i].op \notin MemoryWrite
    PROVE  /\ IsSlot(w[i]) /\ StoreAt(w, i) = LastAt(w, Key(w, i), i)
           /\ Key(w, i) \in DOMAIN st.stack <=> StoreAt(w, i) # 0
<1>1. Len(w) \in Nat /\ i \in Nat \ {0} /\ Window(w)
  BY DEF Exactable, Window
<1>2. IsSlot(w[i]) /\ SlotOf(w, i) = Key(w, i) /\ StoreAt(w, i) = LastAt(w, Key(w, i), i)
  <2>1. IsSlot(w[i])
    BY DEF Exactable, Unseen, ReadsSlot, IsSlot
  <2>2. SlotOf(w, i) = Key(w, i)
    BY DEF SlotOf, Key
  <2>. QED
    BY <2>1, <2>2 DEF StoreAt, LastAt
<1>3. ASSUME Key(w, i) \in DOMAIN st.stack PROVE StoreAt(w, i) # 0
  <2>1. PICK j \in 1 .. (i - 1) :
          w[j].op = "store" /\ IsSlot(w[j]) /\ Address(w, j) = Key(w, i)
    BY <1>3 DEF ChainInv, Spilled
  <2>2. j <= StoreAt(w, i)
    BY <1>1, <1>2, <2>1, StoreAtIs DEF WritesSlot, Stores, IsSlot
  <2>. QED
    BY <2>1, <2>2, <1>1, StoreAtIs
<1>4. ASSUME StoreAt(w, i) # 0 PROVE Key(w, i) \in DOMAIN st.stack
  <2>. DEFINE j == StoreAt(w, i)
  <2>1. j \in 1 .. (i - 1) /\ WritesSlot(w[j]) /\ Address(w, j) = Key(w, i)
    BY <1>1, <1>2, <1>4, StoreAtIs
  <2>2. w[j].op = "store" /\ IsSlot(w[j])
    BY <1>1, <1>4, <2>1 DEF Exactable, Unseen, WritesSlot, Stores, IsSlot
  <2>. QED
    BY <2>1, <2>2 DEF ChainInv
<1>. QED
  BY <1>2, <1>3, <1>4

\* What chain counts for the memory operand of w[i] bounds what w[i] reads
\* through it, and without lea is no more.
LEMMA LoadedIs ==
    ASSUME NEW w, Exactable(w), NEW i \in 1 .. Len(w),
           NEW st, ChainInv(w, i - 1, st), w[i].op \notin MemoryWrite
    PROVE  /\ LoadedDepth(w, i, st) \in 0 .. i
           /\ \A m \in Nat :
                /\ LoadedDepth(w, i, st) <= m => MemAtMost(w, i, m)
                /\ NoLea(w) /\ MemAtMost(w, i, m) => LoadedDepth(w, i, st) <= m
<1>. DEFINE x == w[i]
            L == LoadedDepth(w, i, st)
            b == Deepest(st.dep, x.mem.base)
<1>1. /\ Len(w) \in Nat /\ i \in Nat \ {0} /\ i - 1 + 1 = i /\ i - 1 \in Nat
      /\ Window(w)
  BY DEF Exactable, Window
<1>2. /\ x.mem.base \subseteq Regs /\ x.mem.kind \in {"none", "mem", "slot"}
      /\ x.mem.kind # "mem" => x.mem.base = {}
      /\ x.op # "store"
  BY <1>1, WindowForms DEF MemoryWrite, Stores
<1>3. /\ \A r \in Regs : /\ st.dep[r] \in 0 .. (i - 1)
                         /\ Agrees(w, st.dep[r], DepthOf(w, DefAt(w, r, i)))
      /\ \A a \in DOMAIN st.stack : /\ st.stack[a] \in 0 .. (i - 1)
                                   /\ Agrees(w, st.stack[a], DepthOf(w, LastAt(w, a, i)))
  BY <1>1 DEF ChainInv
<1>4. CASE x.mem.kind = "none"
  <2>1. L = 0 /\ ~ReadsSlot(x) /\ ~LoadsMem(x) /\ ~LoadsIncoming(w, i) /\ x.mem.base = {}
    BY <1>2, <1>4 DEF LoadedDepth, ReadsSlot, LoadsMem, LoadsIncoming
  <2>. QED
    BY <1>1, <2>1 DEF MemAtMost
<1>5. CASE x.mem.kind = "mem"
  <2>1. L = b + 1 /\ ~ReadsSlot(x) /\ ~LoadsIncoming(w, i) /\ (LoadsMem(x) <=> x.op # "lea")
    BY <1>2, <1>5 DEF LoadedDepth, IsSlot, ReadsSlot, LoadsMem, LoadsIncoming
  <2>2. /\ b \in 0 .. (i - 1)
        /\ \A m \in Nat : b <= m <=> \A r \in x.mem.base : st.dep[r] <= m
    <3>1. \A r \in x.mem.base : st.dep[r] \in 0 .. (i - 1)
      BY <1>2, <1>3
    <3>. QED
      BY <1>1, <3>1, DeepestIs
  <2>3. \A r \in x.mem.base : DepthOf(w, DefAt(w, r, i)) \in 0 .. (i - 1)
    <3>1. ASSUME NEW r \in x.mem.base, DefAt(w, r, i) # 0
          PROVE  Depths(w)[DefAt(w, r, i)] \in 0 .. DefAt(w, r, i) /\ DefAt(w, r, i) \in 1 .. (i - 1)
      <4>1. DefAt(w, r, i) \in 1 .. (i - 1) /\ DefAt(w, r, i) \in 1 .. Len(w)
        BY <1>1, <3>1, DefAtIs
      <4>. QED
        BY <1>1, <4>1, DepthIs
    <3>. QED
      BY <1>1, <3>1 DEF DepthOf
  <2>. HIDE DEF b
  <2>4. ASSUME NEW m \in Nat, L <= m PROVE MemAtMost(w, i, m)
    <3>1. m - 1 \in Nat /\ b <= m - 1 /\ 1 <= m
      BY <2>1, <2>2, <2>4
    <3>2. \A r \in x.mem.base : st.dep[r] <= m - 1
      BY <2>2, <3>1
    <3>3. ASSUME NEW r \in x.mem.base
          PROVE  DepthOf(w, DefAt(w, r, i)) <= m /\ DepthOf(w, DefAt(w, r, i)) + 1 <= m
      <4>1. /\ r \in Regs /\ st.dep[r] \in Nat /\ st.dep[r] >= DepthOf(w, DefAt(w, r, i))
            /\ DepthOf(w, DefAt(w, r, i)) \in Nat
        BY <1>2, <1>3, <2>3 DEF Agrees
      <4>. QED
        BY <3>1, <3>2, <4>1
    <3>. QED
      BY <2>1, <3>1, <3>3 DEF MemAtMost
  <2>5. ASSUME NEW m \in Nat, NoLea(w), MemAtMost(w, i, m) PROVE L <= m
    <3>1. LoadsMem(x) /\ m - 1 \in Nat
      BY <1>1, <2>1, <2>5 DEF NoLea, MemAtMost
    <3>2. ASSUME NEW r \in x.mem.base PROVE st.dep[r] <= m - 1
      <4>1. st.dep[r] = DepthOf(w, DefAt(w, r, i)) /\ st.dep[r] \in Nat
        BY <1>2, <1>3, <2>5 DEF Agrees
      <4>2. DepthOf(w, DefAt(w, r, i)) + 1 <= m
        BY <2>5, <3>1 DEF MemAtMost
      <4>. QED
        BY <4>1, <4>2
    <3>3. b <= m - 1
      BY <2>2, <3>1, <3>2
    <3>. QED
      BY <2>1, <2>2, <3>3
  <2>6. L \in 0 .. i
    BY <1>1, <2>1, <2>2
  <2>. QED
    BY <2>4, <2>5, <2>6
<1>6. CASE x.mem.kind = "slot"
  <2>1. ReadsSlot(x) /\ ~LoadsMem(x) /\ x.mem.base = {}
    BY <1>2, <1>6 DEF ReadsSlot, LoadsMem
  <2>2. /\ IsSlot(x) /\ StoreAt(w, i) = LastAt(w, Key(w, i), i)
        /\ Key(w, i) \in DOMAIN st.stack <=> StoreAt(w, i) # 0
    BY <2>1, KnownSlot
  <2>3. CASE StoreAt(w, i) # 0
    <3>1. /\ L = st.stack[Key(w, i)] /\ ~LoadsIncoming(w, i)
          /\ L \in 0 .. (i - 1) /\ Agrees(w, L, DepthOf(w, StoreAt(w, i)))
      BY <1>3, <1>6, <2>2, <2>3 DEF LoadedDepth, LoadsIncoming
    <3>2. DepthOf(w, StoreAt(w, i)) \in Nat
      <4>1. StoreAt(w, i) \in 1 .. Len(w)
        BY <1>1, <2>3, StoreAtIs
      <4>2. Depths(w)[StoreAt(w, i)] \in 0 .. StoreAt(w, i)
        BY <1>1, <4>1, DepthIs
      <4>. QED
        BY <2>3, <4>2 DEF DepthOf
    <3>. HIDE DEF L
    <3>3. L \in 0 .. i
      BY <1>1, <3>1
    <3>4. ASSUME NEW m \in Nat
          PROVE  /\ L <= m => DepthOf(w, StoreAt(w, i)) <= m
                 /\ NoLea(w) /\ DepthOf(w, StoreAt(w, i)) <= m => L <= m
      BY <3>1, <3>2, <1>1 DEF Agrees
    <3>. QED
      BY <2>1, <3>1, <3>3, <3>4 DEF MemAtMost, L
  <2>4. CASE StoreAt(w, i) = 0
    <3>1. L = Deepest(st.dep, {}) + 1
      BY <1>6, <2>1, <2>2, <2>4 DEF LoadedDepth
    <3>2. Deepest(st.dep, {}) = 0
      <4>1. Deepest(st.dep, {}) \in 0 .. 0
        BY DeepestIs
      <4>. QED
        BY <4>1
    <3>3. LoadsIncoming(w, i) <=> x.op # "lea"
      BY <2>1, <2>4 DEF LoadsIncoming
    <3>4. DepthOf(w, StoreAt(w, i)) = 0
      BY <2>4 DEF DepthOf
    <3>5. NoLea(w) => x.op # "lea"
      BY DEF NoLea
    <3>. HIDE DEF L
    <3>6. L = 1
      BY <3>1, <3>2
    <3>. QED
      BY <1>1, <2>1, <3>3, <3>4, <3>5, <3>6 DEF MemAtMost, L
  <2>. QED
    BY <2>3, <2>4
<1>. QED
  BY <1>2, <1>4, <1>5, <1>6

\* Every step of the pass keeps ChainInv.
LEMMA ChainStepExact ==
    ASSUME NEW w, Exactable(w), NEW i \in 1 .. (Len(w) - 1),
           NEW st, ChainInv(w, i - 1, st)
    PROVE  ChainInv(w, i, ChainStep(w, i, st))
<1>. DEFINE x   == w[i]
            key == Key(w, i)
            new == ChainStep(w, i, st)
            regs == Deepest(st.dep, x.reads)
            D(r) == DepthOf(w, DefAt(w, r, i))
<1>1. /\ Len(w) \in Nat /\ i \in Nat \ {0} /\ i \in 1 .. Len(w) /\ i # Len(w)
      /\ i - 1 + 1 = i /\ i - 1 \in Nat /\ Window(w) /\ i + 1 \in Nat \ {0}
  BY DEF Exactable, Window
<1>2. /\ x.op \in Writes \cup {"store", "push"}
      /\ IF x.op \in Writes THEN x.dst \in Regs ELSE x.dst = NoReg
      /\ x.reads \subseteq Regs /\ Seen(x) = x.reads
      /\ x.mem.kind # "mem" => x.mem.base = {}
      /\ x.op \in Writes /\ x.mem.kind # "none" => x.reads = {}
  <2>1. x.op # "rmwstore" /\ Seen(x) = x.reads
    BY <1>1 DEF Exactable, Unseen, Seen
  <2>2. x.op = "shrx" => x.mem.kind = "none"
    BY <1>1 DEF Exactable
  <2>. QED
    BY <1>1, <2>1, <2>2, WindowForms DEF Writes, Stores
<1>3. /\ st = [dep |-> st.dep, stack |-> st.stack]
      /\ st.dep = [r \in Regs |-> st.dep[r]]
      /\ \A r \in Regs : st.dep[r] \in 0 .. (i - 1) /\ Agrees(w, st.dep[r], D(r))
      /\ Spilled(w, i - 1, st.stack)
      /\ \A j \in 1 .. (i - 1) :
            w[j].op = "store" /\ IsSlot(w[j]) => Address(w, j) \in DOMAIN st.stack
      /\ \A a \in DOMAIN st.stack :
            st.stack[a] \in 0 .. (i - 1) /\ Agrees(w, st.stack[a], DepthOf(w, LastAt(w, a, i)))
  BY <1>1 DEF ChainInv
<1>4. \A r \in Regs : DefAt(w, r, i + 1) = IF x.dst = r THEN i ELSE DefAt(w, r, i)
  BY <1>1, DefAtNext
<1>5. /\ regs \in 0 .. (i - 1)
      /\ \A m \in Nat : regs <= m <=> \A r \in x.reads : st.dep[r] <= m
  <2>1. \A r \in x.reads : st.dep[r] \in 0 .. (i - 1)
    BY <1>2, <1>3
  <2>. QED
    BY <1>1, <2>1, DeepestIs
<1>6. /\ Depths(w)[i] \in 0 .. i /\ DepthOf(w, i) = Depths(w)[i]
      /\ \A m \in Nat : Depths(w)[i] <= m <=>
            (\A r \in Uses(x) : D(r) <= m) /\ MemAtMost(w, i, m)
  <2>1. DepthOf(w, i) = Depths(w)[i] /\ x.mem.base \subseteq Uses(x)
    BY <1>1 DEF DepthOf, Uses
  <2>. QED
    BY <1>1, <2>1, DepthIs DEF MemAtMost
<1>7. \A r \in Regs : D(r) \in 0 .. (i - 1)
  <2>1. ASSUME NEW r \in Regs, DefAt(w, r, i) # 0
        PROVE  Depths(w)[DefAt(w, r, i)] \in 0 .. DefAt(w, r, i) /\ DefAt(w, r, i) \in 1 .. (i - 1)
    <3>1. DefAt(w, r, i) \in 1 .. (i - 1) /\ DefAt(w, r, i) \in 1 .. Len(w)
      BY <1>1, <2>1, DefAtIs
    <3>. QED
      BY <1>1, <3>1, DepthIs
  <2>. QED
    BY <1>1, <2>1 DEF DepthOf
<1>8. ASSUME NEW m \in Nat
      PROVE  /\ regs <= m => \A r \in x.reads : D(r) <= m
             /\ NoLea(w) /\ (\A r \in x.reads : D(r) <= m) => regs <= m
  <2>1. \A r \in x.reads : /\ st.dep[r] \in Nat /\ D(r) \in Nat /\ st.dep[r] >= D(r)
                           /\ NoLea(w) => st.dep[r] = D(r)
    BY <1>2, <1>3, <1>7 DEF Agrees
  <2>. HIDE DEF D, regs
  <2>2. regs <= m <=> \A r \in x.reads : st.dep[r] <= m
    BY <1>5
  <2>3. ASSUME regs <= m, NEW r \in x.reads PROVE D(r) <= m
    <3>1. st.dep[r] \in Nat /\ D(r) \in Nat /\ st.dep[r] >= D(r)
      BY <2>1
    <3>2. st.dep[r] <= m
      BY <2>2, <2>3
    <3>. QED
      BY <3>1, <3>2
  <2>4. ASSUME NoLea(w), \A r \in x.reads : D(r) <= m PROVE regs <= m
    <3>1. \A r \in x.reads : st.dep[r] = D(r)
      BY <2>1, <2>4
    <3>2. \A r \in x.reads : st.dep[r] <= m
      BY <2>4, <3>1
    <3>. QED
      BY <2>2, <3>2
  <2>. QED
    BY <2>3, <2>4
<1>9. Spilled(w, i, st.stack)
  BY <1>1, <1>3 DEF Spilled
<1>10. \A a \in DOMAIN st.stack : st.stack[a] \in 0 .. i
  BY <1>1, <1>3
<1>11. \A r \in Regs : st.dep[r] \in 0 .. i
  BY <1>1, <1>3
<1>. HIDE DEF D, regs
<1>12. CASE x.op = "store" /\ IsSlot(x)
  <2>1. /\ new.dep = st.dep
        /\ new.stack = [a \in DOMAIN st.stack \cup {key} |-> IF a = key THEN regs ELSE st.stack[a]]
        /\ new = [dep |-> new.dep, stack |-> new.stack]
    BY <1>2, <1>3, <1>12 DEF ChainStep, Put, regs, Writes, Stores
  <2>2. /\ \A r \in Regs : DefAt(w, r, i + 1) = DefAt(w, r, i)
        /\ Address(w, i) = key
    BY <1>2, <1>4, <1>12, SliceAssumption DEF Writes, Address, SlotOf, Key
  <2>3. Agrees(w, regs, DepthOf(w, i))
    <3>1. Uses(x) = x.reads \cup x.mem.base /\ x.mem.base = {}
      BY <1>2, <1>12 DEF Uses, IsSlot
    <3>2. \A m \in Nat : MemAtMost(w, i, m)
      BY <1>2, <1>12, <3>1 DEF MemAtMost, ReadsSlot, LoadsMem, LoadsIncoming
    <3>3. \A m \in Nat : DepthOf(w, i) <= m <=> \A r \in x.reads : D(r) <= m
      BY <1>6, <3>1, <3>2
    <3>4. regs \in Nat /\ DepthOf(w, i) \in Nat
      BY <1>5, <1>6
    <3>. QED
      BY <1>8, <3>3, <3>4, AgreesByBounds
  <2>. HIDE DEF new
  <2>4. Spilled(w, i, new.stack)
    BY <1>1, <1>9, <1>12, <2>1, <2>2 DEF Spilled
  <2>5. ASSUME NEW a \in DOMAIN new.stack
        PROVE  new.stack[a] \in 0 .. i /\ Agrees(w, new.stack[a], DepthOf(w, LastAt(w, a, i + 1)))
    <3>1. CASE a = key
      <4>1. LastAt(w, a, i + 1) = i
        BY <1>1, <1>12, <2>2, <3>1, LastAtNext DEF WritesSlot, Stores, IsSlot
      <4>2. regs \in 0 .. i
        BY <1>1, <1>5
      <4>. QED
        BY <2>1, <2>3, <3>1, <4>1, <4>2
    <3>2. CASE a # key
      <4>1. LastAt(w, a, i + 1) = LastAt(w, a, i)
        BY <1>1, <2>2, <3>2, LastAtNext
      <4>. QED
        BY <1>3, <1>10, <2>1, <3>2, <4>1
    <3>. QED
      BY <3>1, <3>2
  <2>6. \A j \in 1 .. i :
          w[j].op = "store" /\ IsSlot(w[j]) => Address(w, j) \in DOMAIN new.stack
    BY <1>1, <1>3, <2>1, <2>2
  <2>7. \A r \in Regs : new.dep[r] \in 0 .. i /\ Agrees(w, new.dep[r], DepthOf(w, DefAt(w, r, i + 1)))
    BY <1>3, <1>11, <2>1, <2>2 DEF D
  <2>. QED
    BY <1>3, <2>1, <2>4, <2>5, <2>6, <2>7 DEF ChainInv, new
<1>13. ASSUME ~(x.op = "store" /\ IsSlot(x))
       PROVE  /\ \A a \in DOMAIN st.stack : LastAt(w, a, i + 1) = LastAt(w, a, i)
              /\ \A j \in 1 .. i :
                    w[j].op = "store" /\ IsSlot(w[j]) => Address(w, j) \in DOMAIN st.stack
  <2>1. x.op # "rmwstore"
    BY <1>2 DEF Writes
  <2>. QED
    BY <1>1, <1>3, <1>13, <2>1, KnownSlotsKept
<1>14. CASE x.op = "push" \/ (x.op = "store" /\ ~IsSlot(x))
  <2>1. new = st
    BY <1>14 DEF ChainStep, Writes, Stores
  <2>2. \A r \in Regs : DefAt(w, r, i + 1) = DefAt(w, r, i)
    BY <1>2, <1>4, <1>14, SliceAssumption DEF Writes
  <2>3. ChainInv(w, i, st)
    BY <1>3, <1>9, <1>10, <1>11, <1>13, <1>14, <2>2 DEF ChainInv, D
  <2>. QED
    BY <2>1, <2>3
<1>15. CASE x.op \in Writes
  <2>. DEFINE L    == LoadedDepth(w, i, st)
              srcs == IF x.mem.kind = "none" THEN regs ELSE 0
              old  == IF x.op = "rmw" THEN st.dep[x.dst] ELSE 0
              v    == Max({srcs, L, old})
  <2>1. /\ new.stack = st.stack
        /\ new.dep = [r \in Regs |-> IF r = x.dst THEN v ELSE st.dep[r]]
        /\ new = [dep |-> new.dep, stack |-> new.stack]
    BY <1>2, <1>3, <1>15 DEF ChainStep, Writes, Stores, regs
  <2>2. x.dst \in Regs /\ x.op \notin MemoryWrite /\ x.op # "store"
    BY <1>2, <1>15 DEF Writes, MemoryWrite, Stores
  <2>3. /\ L \in 0 .. i
        /\ \A m \in Nat : /\ L <= m => MemAtMost(w, i, m)
                          /\ NoLea(w) /\ MemAtMost(w, i, m) => L <= m
    BY <1>1, <2>2, LoadedIs
  <2>4. srcs \in 0 .. i /\ old \in 0 .. i
    BY <1>1, <1>5, <1>11, <2>2
  <2>. HIDE DEF L
  <2>5. v \in 0 .. i /\ \A m \in Nat : v <= m <=> srcs <= m /\ L <= m /\ old <= m
    <3>1. PICK S : S = {srcs, L, old}
      OBVIOUS
    <3>2. S \subseteq 0 .. i /\ S # {} /\ i \in Nat
      BY <1>1, <2>3, <2>4, <3>1
    <3>3. Max(S) \in 0 .. i /\ \A m \in Nat : Max(S) <= m <=> \A y \in S : y <= m
      BY <3>2, MaxAtMost
    <3>4. \A m \in Nat : (\A y \in S : y <= m) <=> srcs <= m /\ L <= m /\ old <= m
      BY <3>1
    <3>. QED
      BY <3>1, <3>3, <3>4
  <2>6. ASSUME NEW m \in Nat
        PROVE  /\ srcs <= m => \A r \in x.reads : D(r) <= m
               /\ NoLea(w) /\ (\A r \in x.reads : D(r) <= m) => srcs <= m
    <3>1. CASE x.mem.kind = "none"
      BY <1>8, <3>1
    <3>2. CASE x.mem.kind # "none"
      <4>1. x.reads = {} /\ srcs = 0
        BY <1>2, <1>15, <3>2
      <4>. QED
        BY <4>1
    <3>. QED
      BY <3>1, <3>2
  <2>7. ASSUME NEW m \in Nat
        PROVE  /\ old <= m => (x.op = "rmw" => D(x.dst) <= m)
               /\ NoLea(w) /\ (x.op = "rmw" => D(x.dst) <= m) => old <= m
    <3>1. /\ st.dep[x.dst] \in Nat /\ D(x.dst) \in Nat /\ st.dep[x.dst] >= D(x.dst)
          /\ NoLea(w) => st.dep[x.dst] = D(x.dst)
      BY <1>3, <1>7, <2>2 DEF Agrees
    <3>. QED
      BY <3>1
  <2>8. \A m \in Nat : DepthOf(w, i) <= m <=>
            /\ \A r \in x.reads : D(r) <= m
            /\ x.op = "rmw" => D(x.dst) <= m
            /\ MemAtMost(w, i, m)
    <3>1. ASSUME NEW m \in Nat
          PROVE  (\A r \in Uses(x) : D(r) <= m) /\ MemAtMost(w, i, m) <=>
                    /\ \A r \in x.reads : D(r) <= m
                    /\ x.op = "rmw" => D(x.dst) <= m
                    /\ MemAtMost(w, i, m)
      BY DEF Uses, MemAtMost, D
    <3>. QED
      BY <1>6, <3>1
  <2>9. Agrees(w, v, DepthOf(w, i))
    <3>1. v \in Nat /\ DepthOf(w, i) \in Nat
      BY <1>6, <2>5
    <3>. HIDE DEF v, srcs, old
    <3>2. \A m \in Nat : v <= m => DepthOf(w, i) <= m
      BY <2>3, <2>5, <2>6, <2>7, <2>8
    <3>3. NoLea(w) => \A m \in Nat : DepthOf(w, i) <= m => v <= m
      BY <2>3, <2>5, <2>6, <2>7, <2>8
    <3>. QED
      BY <3>1, <3>2, <3>3, AgreesByBounds
  <2>. HIDE DEF v, new
  <2>10. \A r \in Regs : new.dep[r] \in 0 .. i /\ Agrees(w, new.dep[r], DepthOf(w, DefAt(w, r, i + 1)))
    BY <1>3, <1>4, <1>11, <2>1, <2>5, <2>9 DEF D
  <2>11. new.dep = [r \in Regs |-> new.dep[r]]
    BY <2>1
  <2>. QED
    BY <1>3, <1>9, <1>10, <1>13, <2>1, <2>2, <2>10, <2>11 DEF ChainInv, new
<1>. QED
  BY <1>2, <1>12, <1>14, <1>15

\* For windows of any length: the number of dependent loads published is that
\* of the longest chain of loads to the call, or more with lea.
LEMMA WindowChainExact ==
    ASSUME NEW w, Exactable(w)
    PROVE  Chain(w) >= Depth(w) /\ (NoLea(w) => Chain(w) = Depth(w))
<1>. DEFINE n == Len(w)
            S == {i \in 0 .. (n - 1) : ChainInv(w, i, ChainStates(w)[i])}
<1>1. /\ n \in Nat /\ n >= 1 /\ n - 1 \in 0 .. (n - 1) /\ n - 1 + 1 = n /\ n \in 1 .. n
      /\ Window(w) /\ n - 1 \in Nat
  BY DEF Exactable, Window
<1>2. ASSUME NEW i \in 0 .. (n - 1), \A j \in 0 .. (i - 1) : j \in S PROVE i \in S
  <2>1. CASE i = 0
    <3>1. ChainStates(w)[0] = [dep |-> [r \in Regs |-> 0], stack |-> <<>>]
      BY <1>1, <2>1, ChainStatesIs
    <3>2. DOMAIN <<>> = {}
      OBVIOUS
    <3>3. \A r \in Regs : DefAt(w, r, 1) = 0
      <4>1. \A r \in Regs : DefAt(w, r, 1) \in 0 .. 0
        BY DefAtIs
      <4>. QED
        BY <4>1
    <3>4. Agrees(w, 0, DepthOf(w, 0))
      BY DEF Agrees, DepthOf
    <3>5. ChainInv(w, 0, ChainStates(w)[0])
      BY <3>1, <3>2, <3>3, <3>4 DEF ChainInv, Spilled
    <3>. QED
      BY <2>1, <3>5
  <2>2. CASE i # 0
    <3>1. i \in 1 .. (n - 1) /\ i - 1 \in 0 .. (i - 1)
      BY <1>1, <2>2
    <3>2. ChainStates(w)[i] = ChainStep(w, i, ChainStates(w)[i - 1])
      BY <1>1, <2>2, ChainStatesIs
    <3>3. ChainInv(w, i - 1, ChainStates(w)[i - 1])
      BY <1>2, <3>1
    <3>4. ChainInv(w, i, ChainStates(w)[i])
      BY <3>1, <3>2, <3>3, ChainStepExact
    <3>. QED
      BY <3>4
  <2>. QED
    BY <2>1, <2>2
<1>3. 0 .. (n - 1) \subseteq S
  <2>1. 0 \in Nat /\ n - 1 \in Int
    BY <1>1
  <2>. HIDE DEF S, n
  <2>. QED
    BY <1>2, <2>1, Upward
<1>. DEFINE last == ChainStates(w)[n - 1]
<1>4. ChainInv(w, n - 1, last)
  BY <1>1, <1>3
<1>5. /\ w[n].op = "call" /\ w[n].reads \subseteq Regs
      /\ w[n].mem.kind # "mem" => w[n].mem.base = {}
      /\ w[n].mem.kind # "none" => w[n].reads = {}
      /\ w[n].op \notin MemoryWrite /\ Seen(w[n]) = w[n].reads /\ Uses(w[n]) = w[n].reads \cup w[n].mem.base
  BY <1>1, WindowForms DEF MemoryWrite, Stores, Uses, Seen, Exactable, Unseen
<1>6. /\ Depth(w) \in Nat
      /\ \A m \in Nat : Depth(w) <= m <=>
            (\A r \in w[n].reads : DepthOf(w, DefAt(w, r, n)) <= m) /\ MemAtMost(w, n, m)
  <2>1. Depth(w) = Depths(w)[n] /\ Depths(w)[n] \in 0 .. n
    BY <1>1, DepthIs DEF Depth
  <2>2. \A m \in Nat : Depths(w)[n] <= m <=>
            (\A r \in Uses(w[n]) : DepthOf(w, DefAt(w, r, n)) <= m) /\ MemAtMost(w, n, m)
    <3>1. w[n].mem.base \subseteq Uses(w[n])
      BY DEF Uses
    <3>. QED
      BY <1>1, <3>1, DepthIs DEF MemAtMost
  <2>. QED
    BY <1>1, <1>5, <2>1, <2>2 DEF MemAtMost
<1>. HIDE DEF last
<1>7. CASE w[n].mem.kind = "none"
  <2>1. Chain(w) = Deepest(last.dep, w[n].reads)
    BY <1>5, <1>7 DEF Chain, last
  <2>2. \A r \in w[n].reads : /\ last.dep[r] \in 0 .. (n - 1)
                             /\ Agrees(w, last.dep[r], DepthOf(w, DefAt(w, r, n)))
    BY <1>1, <1>4, <1>5 DEF ChainInv
  <2>3. /\ Chain(w) \in 0 .. (n - 1)
        /\ \A m \in Nat : Chain(w) <= m <=> \A r \in w[n].reads : last.dep[r] <= m
    BY <1>1, <2>1, <2>2, DeepestIs
  <2>4. \A m \in Nat : MemAtMost(w, n, m)
    BY <1>5, <1>7 DEF MemAtMost, ReadsSlot, LoadsMem, LoadsIncoming
  <2>5. \A r \in w[n].reads : DepthOf(w, DefAt(w, r, n)) \in Nat
    <3>1. ASSUME NEW r, DefAt(w, r, n) # 0 PROVE Depths(w)[DefAt(w, r, n)] \in Nat
      <4>1. DefAt(w, r, n) \in 1 .. n
        BY <1>1, <3>1, DefAtIs
      <4>2. Depths(w)[DefAt(w, r, n)] \in 0 .. DefAt(w, r, n)
        BY <1>1, <4>1, DepthIs
      <4>. QED
        BY <4>2
    <3>. QED
      BY <3>1 DEF DepthOf
  <2>6. ASSUME NEW m \in Nat, Chain(w) <= m PROVE Depth(w) <= m
    BY <1>1, <1>6, <2>2, <2>3, <2>4, <2>5, <2>6 DEF Agrees
  <2>7. ASSUME NoLea(w), NEW m \in Nat, Depth(w) <= m PROVE Chain(w) <= m
    BY <1>6, <2>2, <2>3, <2>7 DEF Agrees
  <2>. QED
    BY <1>6, <2>3, <2>6, <2>7
<1>8. CASE w[n].mem.kind # "none"
  <2>1. Chain(w) = LoadedDepth(w, n, last)
    BY <1>8 DEF Chain, last
  <2>2. /\ Chain(w) \in 0 .. n
        /\ \A m \in Nat : /\ Chain(w) <= m => MemAtMost(w, n, m)
                          /\ NoLea(w) /\ MemAtMost(w, n, m) => Chain(w) <= m
    BY <1>1, <1>4, <1>5, <2>1, LoadedIs
  <2>3. \A m \in Nat : Depth(w) <= m <=> MemAtMost(w, n, m)
    BY <1>5, <1>6, <1>8
  <2>. QED
    BY <1>6, <2>2, <2>3
<1>. QED
  BY <1>7, <1>8

\* The number of dependent loads that asmtab.py publishes is the length of the
\* longest chain of loads to the call's target, however values are spilled,
\* reloaded and shifted by pushes, in windows of every length.
THEOREM ChainCountsLoads == Spec => []ChainExact
<1>1. WindowInv => ChainExact
  BY WindowChainExact DEF WindowInv, ChainExact, Exactable, NoLea
<1>. QED
  BY <1>1, WindowInductive, PTL
=============================================================================
