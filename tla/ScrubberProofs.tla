--------------------------- MODULE ScrubberProofs ---------------------------
(***************************************************************************)
(* What holds of the scrubber for every receiver, every region list and    *)
(* every order in which the hardware completes the flushes.                *)
(***************************************************************************)
EXTENDS Scrubber, FiniteSetTheorems, WellFoundedInduction, TLAPS

\* The lines flush_range visits hold every byte of the region, wherever in a
\* line it starts and ends: rounding the start down is enough.
LEMMA FlushCovers ==
    ASSUME NEW r \in Region, NEW b \in Bytes(r)
    PROVE  LineOf(b) \in FlushLines(r)
<1>1. r.addr # NullAddr /\ b \in Nat /\ r.addr <= b /\ b <= r.addr + r.size - 1
  BY DEF Bytes, Region, NullAddr
<1>2. LineOf(b) \in Int /\ LineOf(b) % 64 = 0 /\ LineOf(b) <= b
  BY <1>1 DEF LineOf
<1>3. LineOf(r.addr) \in Int /\ LineOf(r.addr) <= LineOf(b)
  BY <1>1 DEF LineOf, Region
<1>. QED
  BY <1>1, <1>2, <1>3 DEF FlushLines, FlushBegin, FlushEnd, Region

\* A line flush_range visits is aligned and lies between the loop's two ends.
LEMMA FlushBounds ==
    ASSUME NEW r \in Region, NEW l \in FlushLines(r)
    PROVE  /\ l \in Int /\ l % 64 = 0 /\ l < FlushEnd(r)
           /\ FlushEnd(r) \in Nat /\ FlushBegin(r) <= l
<1>1. r.addr \in Nat /\ r.size \in Nat
  BY DEF Region
<1>2. FlushEnd(r) \in Nat /\ FlushBegin(r) \in Int
  BY <1>1 DEF FlushEnd, FlushBegin, LineOf
<1>3. l \in FlushBegin(r) .. (FlushEnd(r) - 1) /\ l % 64 = 0
  BY DEF FlushLines
<1>. QED
  BY <1>2, <1>3

\* What a dispatch reads through a receiver lies in the regions that
\* object_regions names for it: the whole object, and the v-table from its
\* head, at vptr - 16, to the last virtual function.
LEMMA ReadsAreRegions ==
    ASSUME NEW r \in Receivers
    PROVE  /\ ObjectReads(r.p, r.sizeofB) \subseteq Bytes(ObjectRegion(r.p, r.sizeofB))
           /\ VtblReads(r.vptr) \subseteq Bytes(VtblRegion(r.vptr))
<1>1. r.p \in Nat /\ r.p # NullAddr /\ r.vptr \in Nat /\ r.vptr > 16 /\ r.sizeofB \in Nat
  BY RegionsAssumption
<1>2. ObjectReads(r.p, r.sizeofB) \subseteq Bytes(ObjectRegion(r.p, r.sizeofB))
  BY <1>1 DEF ObjectReads, Bytes, ObjectRegion, NullAddr
<1>3. VtblReads(r.vptr) \subseteq Bytes(VtblRegion(r.vptr))
  BY <1>1, VtblAssumption DEF VtblReads, Bytes, VtblRegion, NullAddr
<1>. QED
  BY <1>2, <1>3
-----------------------------------------------------------------------------
(* The inductive invariant.  Behind the loop nothing is resident that is    *)
(* not on its way out: every line of a region already visited, and every    *)
(* line the cursor has passed in the region being visited, is either gone   *)
(* or pending.  The fence turns "gone or pending" into "gone".              *)

\* The lines of S are out of the cache, or a flush of them is outstanding.
Leaving(S) == S \cap Resident \subseteq pending

CursorInv ==
    pc = "flush" =>
        /\ ri <= Len(regions)
        /\ regions[ri].addr # NullAddr
        /\ line % 64 = 0
        /\ Leaving({l \in FlushLines(regions[ri]) : l < line})

VisitedInv ==
    pc \in {"region", "flush", "done"} /\ mode = "clflush" =>
        \A k \in 1 .. (ri - 1) : Leaving(FlushLines(regions[k]))

DoneInv ==
    pc = "done" /\ mode = "clflush" => ri = Len(regions) + 1 /\ pending = {}

ControlInv ==
    /\ pc = "apply" => ri = 1
    /\ pc \in {"region", "flush"} => mode = "clflush"
    /\ pc = "sweep" => mode = "sweep"

\* The regions of the receiver come first in the list.
RegionsInv ==
    /\ Len(regions) >= 2
    /\ regions[1] = ObjectRegion(receiver.p, receiver.sizeofB)
    /\ regions[2] = VtblRegion(receiver.vptr)

IInv == TypeOK /\ ControlInv /\ CursorInv /\ VisitedInv /\ DoneInv /\ RegionsInv

LEMMA RegionsTyped ==
    ASSUME NEW r \in Receivers
    PROVE  ObjectRegions(r) \in Seq(Region)
<1>1. r.p \in Nat /\ r.vptr \in Nat /\ r.vptr > 16 /\ r.sizeofB \in Nat
  BY RegionsAssumption
<1>2. ObjectRegion(r.p, r.sizeofB) \in Region /\ VtblRegion(r.vptr) \in Region
  BY <1>1, VtblAssumption DEF ObjectRegion, VtblRegion, Region
<1>. QED
  BY <1>2 DEF ObjectRegions

LEMMA InitIInv == Init => IInv
<1>. SUFFICES ASSUME Init PROVE IInv
  OBVIOUS
<1>1. PICK shared \in SharedRegions : regions = ObjectRegions(receiver) \o shared
  BY DEF Init
<1>2. regions \in Seq(Region)
  BY <1>1, RegionsTyped, RegionsAssumption DEF Init
<1>3. DOMAIN cache \subseteq Nat /\ clock \in Nat
  BY CacheAssumption DEF Init
<1>4. RegionsInv
  BY <1>1, RegionsTyped, RegionsAssumption DEF Init, RegionsInv, ObjectRegions
<1>. QED
  BY <1>2, <1>3, <1>4 DEF Init, IInv, TypeOK, ControlInv, CursorInv, VisitedInv, DoneInv

LEMMA NextIInv == IInv /\ [Next]_vars => IInv'
<1>. SUFFICES ASSUME IInv, [Next]_vars PROVE IInv'
  OBVIOUS
<1>. USE DEF IInv
<1>0. RegionsInv'
  <2>1. UNCHANGED <<receiver, regions>>
    BY DEF Next, Program, Hardware, Returned, ApplyWarm, ApplyCold, EnterRange,
       IssueFlush, LeaveRange, Fence, SweepStore, SweepEnd, CompleteFlush, vars
  <2>. QED
    BY <2>1 DEF RegionsInv
<1>1. CASE ApplyWarm
  BY <1>0, <1>1 DEF ApplyWarm, TypeOK, ControlInv, CursorInv, VisitedInv, DoneInv
<1>2. CASE ApplyCold
  BY <1>0, <1>2 DEF ApplyCold, TypeOK, Modes, ControlInv, CursorInv, VisitedInv, DoneInv
<1>3. CASE EnterRange
  <2>1. CASE regions[ri].addr = NullAddr
    <3>1. FlushLines(regions[ri]) = {}
      BY <2>1 DEF FlushLines
    <3>. QED
      BY <1>0, <1>3, <2>1, <3>1 DEF EnterRange, TypeOK, ControlInv, CursorInv,
         VisitedInv, DoneInv, Leaving, Resident
  <2>2. CASE regions[ri].addr # NullAddr
    <3>1. regions[ri] \in Region
      BY <1>3 DEF EnterRange, TypeOK
    <3>2. line' \in Nat /\ line' % 64 = 0 /\ line' = FlushBegin(regions[ri])
      BY <1>3, <2>2, <3>1 DEF EnterRange, FlushBegin, LineOf, Region
    <3>3. {l \in FlushLines(regions[ri]) : l < line'} = {}
      BY <3>1, <3>2 DEF FlushLines, FlushBegin, LineOf, Region
    <3>. QED
      BY <1>0, <1>3, <2>2, <3>2, <3>3 DEF EnterRange, TypeOK, ControlInv, CursorInv,
         VisitedInv, DoneInv, Leaving, Resident
  <2>. QED
    BY <2>1, <2>2
<1>4. CASE IssueFlush
  <2>1. line \in Nat /\ line % 64 = 0 /\ (line + 64) % 64 = 0
    BY <1>4 DEF IssueFlush, CursorInv, TypeOK
  <2>2. \A l \in FlushLines(regions[ri]) : l < line + 64 => l < line \/ l = line
    <3>. SUFFICES ASSUME NEW l \in FlushLines(regions[ri]), l < line + 64
                  PROVE  l < line \/ l = line
      OBVIOUS
    <3>1. regions[ri] \in Region
      BY <1>4 DEF IssueFlush, CursorInv, TypeOK
    <3>. QED
      BY <2>1, <3>1, FlushBounds
  <2>3. CursorInv'
    BY <1>4, <2>1, <2>2 DEF IssueFlush, CursorInv, Leaving, Resident
  <2>. QED
    BY <1>0, <1>4, <2>1, <2>3 DEF IssueFlush, TypeOK, ControlInv, VisitedInv, DoneInv,
       Leaving, Resident
<1>5. CASE LeaveRange
  <2>1. \A l \in FlushLines(regions[ri]) : l < line
    <3>1. regions[ri] \in Region /\ line \in Nat
      BY <1>5 DEF LeaveRange, CursorInv, TypeOK
    <3>. QED
      BY <1>5, <3>1, FlushBounds DEF LeaveRange
  <2>2. Leaving(FlushLines(regions[ri]))
    BY <1>5, <2>1 DEF LeaveRange, CursorInv, Leaving
  <2>. QED
    BY <1>0, <1>5, <2>2 DEF LeaveRange, TypeOK, ControlInv, CursorInv, VisitedInv,
       DoneInv, Leaving, Resident
<1>6. CASE Fence
  BY <1>0, <1>6 DEF Fence, TypeOK, ControlInv, CursorInv, VisitedInv, DoneInv,
     Leaving, Resident
<1>7. CASE SweepStore
  <2>1. DOMAIN cache' \subseteq Nat
    <3>1. LineOf(BufferBase + line) \in Nat
      BY <1>7, CacheAssumption DEF LineOf, TypeOK
    <3>2. DOMAIN cache' \subseteq DOMAIN cache \cup {LineOf(BufferBase + line)}
      BY <1>7 DEF SweepStore, Touched, Evicted
    <3>. QED
      BY <3>1, <3>2 DEF TypeOK
  <2>. QED
    BY <1>0, <1>7, <2>1 DEF SweepStore, TypeOK, ControlInv, CursorInv, VisitedInv, DoneInv
<1>8. CASE SweepEnd
  BY <1>0, <1>8 DEF SweepEnd, TypeOK, ControlInv, CursorInv, VisitedInv, DoneInv
<1>9. CASE Hardware
  <2>1. PICK l \in pending : CompleteFlush(l)
    BY <1>9 DEF Hardware
  <2>2. Resident' = Resident \ {l} /\ pending' = pending \ {l}
    BY <2>1 DEF CompleteFlush, Resident, Evicted
  <2>3. VisitedInv' /\ CursorInv' /\ DoneInv'
    BY <2>1, <2>2 DEF CompleteFlush, VisitedInv, CursorInv, DoneInv, Leaving
  <2>. QED
    BY <1>0, <2>1, <2>2, <2>3 DEF CompleteFlush, TypeOK, ControlInv, Resident
<1>10. CASE UNCHANGED vars
  BY <1>0, <1>10 DEF vars, TypeOK, ControlInv, CursorInv, VisitedInv, DoneInv,
     Leaving, Resident
<1>. QED
  BY <1>1, <1>2, <1>3, <1>4, <1>5, <1>6, <1>7, <1>8, <1>9, <1>10
  DEF Next, Program, Returned

LEMMA Inductive == Spec => []IInv
BY InitIInv, NextIInv, PTL DEF Spec
-----------------------------------------------------------------------------
\* The scrubber's state stays well typed: among others, the region index never
\* passes the end of the list by more than one.
THEOREM ScrubberTypeOK == Spec => []TypeOK
<1>1. IInv => TypeOK
  BY DEF IInv
<1>. QED
  BY Inductive, <1>1, PTL

LEMMA InvFlushed == IInv => FlushedOnReturn
<1>. SUFFICES ASSUME IInv, pc = "done", mode = "clflush",
                     NEW k \in 1 .. Len(regions), NEW b \in Bytes(regions[k])
              PROVE  LineOf(b) \notin Resident
  BY DEF FlushedOnReturn
<1>1. regions[k] \in Region
  BY DEF IInv, TypeOK
<1>2. LineOf(b) \in FlushLines(regions[k])
  BY <1>1, FlushCovers
<1>3. k \in 1 .. (ri - 1) /\ pending = {}
  BY DEF IInv, DoneInv, TypeOK
<1>4. Leaving(FlushLines(regions[k]))
  BY <1>3 DEF IInv, VisitedInv
<1>. QED
  BY <1>2, <1>3, <1>4 DEF Leaving

\* scrubber::apply keeps its promise in clflush mode: when it returns, no byte
\* of any region it was given is cached, although no flush is ordered with
\* respect to another and only one fence is issued, at the end.
THEOREM ScrubberFlushes == Spec => []FlushedOnReturn
BY Inductive, InvFlushed, PTL

\* The receiver itself is cold then, wherever the object and its v-table fall
\* in their lines: the v-table from its head at vptr - 16, which holds the
\* type_info pointer, on, and the object's members.
THEOREM ReceiverFlushed == Spec => []ReceiverColdOnReturn
<1>1. IInv => ReceiverColdOnReturn
  <2>. SUFFICES ASSUME IInv, pc = "done", mode = "clflush",
                       NEW b \in ObjectReads(receiver.p, receiver.sizeofB)
                                 \cup VtblReads(receiver.vptr)
                PROVE  LineOf(b) \notin Resident
    BY DEF ReceiverColdOnReturn
  <2>1. PICK k \in {1, 2} : b \in Bytes(regions[k])
    BY ReadsAreRegions DEF IInv, RegionsInv, TypeOK
  <2>2. k \in 1 .. Len(regions)
    BY DEF IInv, RegionsInv, TypeOK
  <2>. QED
    BY <2>1, <2>2, InvFlushed DEF FlushedOnReturn
<1>. QED
  BY Inductive, <1>1, PTL
-----------------------------------------------------------------------------
(* Nothing else is evicted.                                                 *)

\* A line that holds a byte of a region.
OfRegion(l) ==
    \E k \in 1 .. Len(regions) : \E b \in Bytes(regions[k]) : LineOf(b) = l

\* Every line the loop visits holds a byte of its region, if that has any:
\* rounding the start down reaches no neighbouring line.
LEMMA FlushTight ==
    ASSUME NEW r \in Region, r.addr # NullAddr, r.size > 0,
           NEW l \in FlushLines(r)
    PROVE  \E b \in Bytes(r) : LineOf(b) = l
<1>1. r.addr \in Nat /\ r.size \in Nat
  BY DEF Region
<1>2. /\ l \in Int /\ l % 64 = 0 /\ l < r.addr + r.size
      /\ LineOf(r.addr) <= l /\ LineOf(r.addr) \in Int
  BY <1>1, FlushBounds DEF FlushBegin, FlushEnd, LineOf
<1>3. CASE l < r.addr
  <2>1. LineOf(r.addr) = l
    BY <1>1, <1>2, <1>3 DEF LineOf
  <2>2. r.addr \in Bytes(r)
    BY <1>1 DEF Bytes
  <2>. QED
    BY <2>1, <2>2
<1>4. CASE r.addr <= l
  <2>1. LineOf(l) = l
    BY <1>2 DEF LineOf
  <2>2. l \in r.addr .. (r.addr + r.size - 1)
    BY <1>1, <1>2, <1>4
  <2>. QED
    BY <2>1, <2>2 DEF Bytes
<1>. QED
  BY <1>1, <1>2, <1>3, <1>4

\* No region but a null one is empty; only lines of regions are on their way
\* out, and in the loop the cursor is behind the start of its region.
TightInv ==
    /\ \A k \in 1 .. Len(regions) : regions[k].addr # NullAddr => regions[k].size > 0
    /\ \A l \in pending : OfRegion(l)
    /\ pc = "flush" => FlushBegin(regions[ri]) <= line

LEMMA ConcatAt ==
    ASSUME NEW S, NEW s \in Seq(S), NEW t \in Seq(S), NEW k \in 1 .. Len(s \o t)
    PROVE  /\ k <= Len(s) => (s \o t)[k] = s[k]
           /\ k > Len(s) => k - Len(s) \in 1 .. Len(t)
                           /\ (s \o t)[k] = t[k - Len(s)]
OBVIOUS

LEMMA TightInductive == Spec => []TightInv
<1>1. Init => TightInv
  <2>. SUFFICES ASSUME Init PROVE TightInv
    OBVIOUS
  <2>1. PICK shared \in SharedRegions : regions = ObjectRegions(receiver) \o shared
    BY DEF Init
  <2>2. ASSUME NEW k \in 1 .. Len(regions), regions[k].addr # NullAddr
        PROVE  regions[k].size > 0
    <3>1. shared \in Seq(Region) /\ ObjectRegions(receiver) \in Seq(Region)
      BY RegionsAssumption, RegionsTyped DEF Init
    <3>2. /\ Len(ObjectRegions(receiver)) = 2
          /\ ObjectRegions(receiver)[1].size > 0 /\ ObjectRegions(receiver)[2].size > 0
      BY RegionsAssumption, VtblAssumption
      DEF Init, ObjectRegions, ObjectRegion, VtblRegion
    <3>. DEFINE own == ObjectRegions(receiver)
    <3>. HIDE DEF own
    <3>5. /\ k <= Len(own) => regions[k] = own[k]
          /\ k > Len(own) => k - Len(own) \in 1 .. Len(shared)
                             /\ regions[k] = shared[k - Len(own)]
      BY <2>1, <3>1, ConcatAt DEF own
    <3>6. k \in Nat /\ k >= 1 /\ Len(own) = 2
      BY <2>1, <3>1, <3>2 DEF own
    <3>3. CASE k <= 2
      BY <3>2, <3>3, <3>5, <3>6 DEF own
    <3>4. CASE k > 2
      <4>1. k - 2 \in 1 .. Len(shared) /\ regions[k] = shared[k - 2]
        BY <3>4, <3>5, <3>6
      <4>. QED
        BY <2>2, <4>1, RegionsAssumption
    <3>. QED
      BY <3>3, <3>4
  <2>. QED
    BY <2>2 DEF Init, TightInv
<1>2. IInv /\ TightInv /\ [Next]_vars => TightInv'
  <2>. SUFFICES ASSUME IInv, TightInv, [Next]_vars PROVE TightInv'
    OBVIOUS
  <2>1. CASE IssueFlush
    <3>1. regions[ri] \in Region /\ line \in Nat /\ line % 64 = 0
      BY <2>1 DEF IssueFlush, IInv, TypeOK, CursorInv
    <3>2. line \in FlushLines(regions[ri])
      <4>. DEFINE reg == regions[ri]
      <4>1. /\ reg.addr # NullAddr /\ FlushBegin(reg) <= line /\ line < FlushEnd(reg)
        BY <2>1 DEF IssueFlush, IInv, CursorInv, TightInv
      <4>2. FlushBegin(reg) \in Int /\ FlushEnd(reg) \in Nat
        BY <3>1 DEF FlushBegin, FlushEnd, LineOf, Region
      <4>. QED
        BY <3>1, <4>1, <4>2 DEF FlushLines
    <3>3. OfRegion(line)
      <4>1. ri \in 1 .. Len(regions) /\ regions[ri].addr # NullAddr
        BY <2>1 DEF IssueFlush, IInv, TypeOK, CursorInv
      <4>. QED
        BY <3>1, <3>2, <4>1, FlushTight DEF TightInv, OfRegion
    <3>4. FlushBegin(regions[ri]) <= line + 64
      BY <2>1, <3>1 DEF IssueFlush, TightInv, FlushBegin, LineOf, Region
    <3>. QED
      BY <2>1, <3>3, <3>4 DEF IssueFlush, TightInv, OfRegion
  <2>2. CASE EnterRange
    <3>1. pc' = "flush" => FlushBegin(regions'[ri']) <= line'
      <4>1. pc' = "flush" => regions[ri] \in Region
        BY <2>2 DEF EnterRange, IInv, TypeOK
      <4>. QED
        BY <2>2, <4>1 DEF EnterRange, FlushBegin, LineOf, Region
    <3>. QED
      BY <2>2, <3>1 DEF EnterRange, TightInv, OfRegion
  <2>3. CASE ApplyWarm \/ ApplyCold \/ LeaveRange \/ Fence \/ SweepStore \/ SweepEnd
             \/ Hardware \/ UNCHANGED vars
    BY <2>3 DEF ApplyWarm, ApplyCold, LeaveRange, Fence, SweepStore, SweepEnd,
       Hardware, CompleteFlush, vars, TightInv, OfRegion
  <2>. QED
    BY <2>1, <2>2, <2>3 DEF Next, Program, Returned
<1>. QED
  BY Inductive, <1>1, <1>2, PTL DEF Spec

\* clflush mode takes from the cache nothing but lines of the regions it was
\* given, whatever the alignment and size of each.
THEOREM NothingElseEvicted == Spec => EvictsOnlyRegions
<1>1. IInv /\ TightInv /\ [Next]_vars =>
        [mode = "clflush" =>
           \A l \in Resident \ Resident' :
              \E k \in 1 .. Len(regions) :
                  \E b \in Bytes(regions[k]) : LineOf(b) = l]_vars
  <2>. SUFFICES ASSUME IInv, TightInv, [Next]_vars, mode = "clflush",
                       NEW l \in Resident \ Resident'
                PROVE  OfRegion(l)
    BY DEF OfRegion
  <2>1. CASE Hardware
    BY <2>1 DEF Hardware, CompleteFlush, Resident, Evicted, TightInv
  <2>2. ~SweepStore
    BY DEF SweepStore, IInv, ControlInv
  <2>3. CASE UNCHANGED cache
    BY <2>3 DEF Resident
  <2>. QED
    BY <2>1, <2>2, <2>3 DEF Next, Program, Returned, ApplyWarm, ApplyCold, EnterRange,
       IssueFlush, LeaveRange, Fence, SweepEnd, vars
<1>. QED
  BY Inductive, TightInductive, <1>1, PTL DEF Spec, EvictsOnlyRegions
-----------------------------------------------------------------------------
(* The sweep.  As long as anything a dispatch reads is resident, it was     *)
(* touched longer ago than every line of the buffer, so no line of the      *)
(* buffer has been dropped; and the cache has no room for the whole buffer  *)
(* and one more line.                                                       *)

\* The lines of the buffer stored to when the index is i.
Stored(i) == {l \in BufferBase .. (BufferBase + i - 1) : l % 64 = 0}

\* A cache within its capacity, each line with a time before t.
CacheOK(c, t) ==
    /\ IsFiniteSet(DOMAIN c) /\ Cardinality(DOMAIN c) <= Capacity
    /\ \A l \in DOMAIN c : c[l] \in Nat /\ c[l] < t

SweepInv ==
    mode = "sweep" =>
        /\ pending = {} /\ clock >= BufferBase
        /\ CacheOK(cache, clock)
        /\ \A l \in Resident \cap MemoryLines : cache[l] < BufferBase
        /\ \A l \in Resident \ MemoryLines : cache[l] >= BufferBase
        /\ pc = "apply" => line = 0
        /\ pc \in {"apply", "sweep"} =>
              /\ line % 64 = 0
              /\ IsFiniteSet(Stored(line)) /\ 64 * Cardinality(Stored(line)) = line
              /\ Resident \cap MemoryLines # {} => Stored(line) \subseteq Resident
        /\ pc = "done" => Resident \cap MemoryLines = {}

\* One more line of the buffer.
LEMMA StoredNext ==
    ASSUME NEW i \in Nat, i % 64 = 0
    PROVE  /\ Stored(i + 64) = Stored(i) \cup {BufferBase + i}
           /\ BufferBase + i \notin Stored(i)
           /\ LineOf(BufferBase + i) = BufferBase + i
           /\ BufferBase + i \notin MemoryLines
<1>1. BufferBase \in Nat /\ BufferBase % 64 = 0 /\ (BufferBase + i) % 64 = 0
  BY CacheAssumption
<1>2. ASSUME NEW l \in Int PROVE l \in Stored(i + 64) <=> l \in Stored(i) \cup {BufferBase + i}
  BY <1>1 DEF Stored
<1>3. Stored(i) \subseteq Int /\ Stored(i + 64) \subseteq Int
  BY <1>1 DEF Stored
<1>4. BufferBase + i \notin MemoryLines
  BY <1>1, SweepAssumption
<1>. QED
  BY <1>1, <1>2, <1>3, <1>4 DEF Stored, LineOf

LEMMA NatMin ==
    ASSUME NEW S \in SUBSET Nat, S # {}
    PROVE  \E x \in S : \A y \in S : x <= y
<1>. DEFINE R == {p \in Nat \X Nat : p[1] < p[2]}
<1>1. IsWellFoundedOn(R, Nat)
  BY NatLessThanWellFounded DEF OpToRel
<1>2. PICK x \in S : \A y \in S : ~(<<y, x>> \in R)
  BY <1>1, WFMin
<1>3. ASSUME NEW y \in S PROVE x <= y
  <2>1. <<y, x>> \in Nat \X Nat /\ <<y, x>> \notin R
    BY <1>2
  <2>2. ~(y < x)
    BY <2>1
  <2>. QED
    BY <2>2
<1>. QED
  BY <1>3

\* A touch keeps the cache within its capacity, and drops a line only if every
\* other line was touched no longer ago.
LEMMA TouchedFacts ==
    ASSUME NEW c, NEW l, NEW t \in Nat, CacheOK(c, t)
    PROVE  /\ CacheOK(Touched(c, l, t), t + 1)
           /\ l \in DOMAIN Touched(c, l, t) /\ Touched(c, l, t)[l] = t
           /\ DOMAIN Touched(c, l, t) \subseteq DOMAIN c \cup {l}
           /\ \A k \in DOMAIN Touched(c, l, t) \ {l} : Touched(c, l, t)[k] = c[k]
           /\ \A k \in DOMAIN c \ DOMAIN Touched(c, l, t) : k \in Oldest(c)
<1>. DEFINE fits == l \in DOMAIN c \/ Cardinality(DOMAIN c) < Capacity
            room == IF fits THEN c ELSE Evicted(c, Oldest(c))
            new  == [k \in DOMAIN room \cup {l} |-> IF k = l THEN t ELSE room[k]]
<1>1. Touched(c, l, t) = new
  BY DEF Touched
<1>2. /\ DOMAIN room \in SUBSET DOMAIN c
      /\ \A k \in DOMAIN room : room[k] = c[k]
      /\ \A k \in DOMAIN c \ DOMAIN room : k \in Oldest(c)
  BY DEF Evicted
<1>3. /\ IsFiniteSet(DOMAIN c) /\ Cardinality(DOMAIN c) \in Nat
      /\ IsFiniteSet(DOMAIN room) /\ Cardinality(DOMAIN room) \in Nat
      /\ Cardinality(DOMAIN room) <= Cardinality(DOMAIN c)
      /\ Cardinality(DOMAIN room) = Cardinality(DOMAIN c) => DOMAIN room = DOMAIN c
  BY <1>2, FS_Subset, FS_CardinalityType DEF CacheOK
<1>4. l \in DOMAIN room \/ Cardinality(DOMAIN room) < Capacity
  <2>1. CASE fits
    BY <2>1
  <2>2. CASE ~fits
    <3>1. Cardinality(DOMAIN c) = Capacity /\ DOMAIN c # {}
      BY <1>3, <2>2, CacheAssumption, FS_EmptySet DEF CacheOK
    <3>2. PICK x \in {c[k] : k \in DOMAIN c} : \A y \in {c[k] : k \in DOMAIN c} : x <= y
      <4>1. {c[k] : k \in DOMAIN c} \in SUBSET Nat /\ {c[k] : k \in DOMAIN c} # {}
        BY <3>1 DEF CacheOK
      <4>. QED
        BY <4>1, NatMin
    <3>3. PICK k \in DOMAIN c : k \in Oldest(c)
      BY <3>2 DEF Oldest
    <3>4. k \notin DOMAIN room
      BY <2>2, <3>3 DEF Evicted
    <3>. QED
      BY <1>3, <3>1, <3>3, <3>4, CacheAssumption
  <2>. QED
    BY <2>1, <2>2
<1>. HIDE DEF room
<1>5. /\ IsFiniteSet(DOMAIN room \cup {l})
      /\ Cardinality(DOMAIN room \cup {l}) <= Capacity
  <2>1. Cardinality(DOMAIN room) <= Capacity /\ Capacity \in Nat
    BY <1>3, CacheAssumption DEF CacheOK
  <2>2. /\ IsFiniteSet(DOMAIN room \cup {l})
        /\ Cardinality(DOMAIN room \cup {l}) =
              IF l \in DOMAIN room THEN Cardinality(DOMAIN room)
              ELSE Cardinality(DOMAIN room) + 1
    BY <1>3, FS_AddElement
  <2>. QED
    BY <1>3, <1>4, <2>1, <2>2
<1>6. CacheOK(new, t + 1)
  <2>1. DOMAIN new = DOMAIN room \cup {l}
    OBVIOUS
  <2>2. \A k \in DOMAIN new : new[k] \in Nat /\ new[k] < t + 1
    BY <1>2 DEF CacheOK
  <2>. QED
    BY <1>5, <2>1, <2>2 DEF CacheOK
<1>. QED
  BY <1>1, <1>2, <1>6

LEMMA SweepInductive == Spec => []SweepInv
<1>1. Init => SweepInv
  <2>. SUFFICES ASSUME Init PROVE SweepInv
    OBVIOUS
  <2>1. Resident = MemoryLines /\ \A l \in MemoryLines : cache[l] = l /\ l \in Nat
    BY CacheAssumption DEF Init, Resident
  <2>2. CacheOK(cache, clock)
    BY <2>1, SweepAssumption, CacheAssumption DEF Init, CacheOK, Resident
  <2>3. Stored(0) = {}
    BY CacheAssumption DEF Stored
  <2>4. IsFiniteSet(Stored(0)) /\ 64 * Cardinality(Stored(0)) = 0
    BY <2>3, FS_EmptySet
  <2>5. /\ \A l \in Resident \cap MemoryLines : cache[l] < BufferBase
        /\ Resident \ MemoryLines = {}
    BY <2>1, SweepAssumption
  <2>. QED
    BY <2>2, <2>3, <2>4, <2>5, CacheAssumption DEF Init, SweepInv
<1>2. IInv /\ SweepInv /\ [Next]_vars => SweepInv'
  <2>. SUFFICES ASSUME IInv, SweepInv, [Next]_vars, mode' = "sweep" PROVE SweepInv'
    BY DEF SweepInv
  <2>0. mode = "sweep"
    BY DEF Next, Program, Hardware, Returned, ApplyWarm, ApplyCold, EnterRange,
       IssueFlush, LeaveRange, Fence, SweepStore, SweepEnd, CompleteFlush, vars
  <2>1. CASE ApplyCold
    BY <2>0, <2>1 DEF ApplyCold, SweepInv, Resident
  <2>2. CASE SweepStore
    <3>. DEFINE l == BufferBase + line
    <3>1. /\ line \in Nat /\ line % 64 = 0 /\ clock \in Nat /\ clock >= BufferBase
          /\ BufferBase \in Nat /\ CacheOK(cache, clock)
      BY <2>0, <2>2, CacheAssumption DEF SweepStore, SweepInv, IInv, TypeOK
    <3>2. /\ LineOf(l) = l /\ l \notin MemoryLines /\ l \notin Stored(line)
          /\ Stored(line + 64) = Stored(line) \cup {l}
      BY <3>1, StoredNext
    <3>3. cache' = Touched(cache, l, clock)
      BY <2>2, <3>2 DEF SweepStore
    <3>. HIDE DEF l
    <3>4. /\ CacheOK(cache', clock + 1)
          /\ l \in DOMAIN cache' /\ cache'[l] = clock
          /\ DOMAIN cache' \subseteq DOMAIN cache \cup {l}
          /\ \A k \in DOMAIN cache' \ {l} : cache'[k] = cache[k]
          /\ \A k \in DOMAIN cache \ DOMAIN cache' : k \in Oldest(cache)
      BY <3>1, <3>3, TouchedFacts
    <3>5. /\ IsFiniteSet(Stored(line')) /\ 64 * Cardinality(Stored(line')) = line'
          /\ line' % 64 = 0
      <4>1. Cardinality(Stored(line')) = Cardinality(Stored(line)) + 1
        BY <2>0, <2>2, <3>2, FS_AddElement DEF SweepStore, SweepInv
      <4>2. IsFiniteSet(Stored(line)) /\ Cardinality(Stored(line)) \in Nat
        BY <2>0, <2>2, FS_CardinalityType DEF SweepStore, SweepInv
      <4>3. IsFiniteSet(Stored(line'))
        BY <2>2, <3>2, <4>2, FS_AddElement DEF SweepStore
      <4>4. 64 * Cardinality(Stored(line)) = line /\ line' = line + 64
        BY <2>0, <2>2 DEF SweepStore, SweepInv
      <4>. QED
        BY <3>1, <4>1, <4>2, <4>3, <4>4
    <3>6. ASSUME NEW m \in Resident' \cap MemoryLines
          PROVE  Stored(line') \subseteq Resident'
      <4>1. /\ m \in Resident \cap MemoryLines /\ cache[m] < BufferBase
            /\ Stored(line) \subseteq Resident
        BY <2>0, <2>2, <3>2, <3>4 DEF SweepStore, SweepInv, Resident
      <4>2. ASSUME NEW k \in Stored(line) PROVE k \in Resident'
        <5>1. k \in Resident /\ k \notin MemoryLines
          BY <3>1, <4>1, SweepAssumption DEF Stored
        <5>2. cache[k] >= BufferBase /\ cache[k] \in Nat /\ cache[m] \in Nat
          BY <2>0, <3>1, <4>1, <5>1 DEF SweepInv, CacheOK, Resident
        <5>3. k \notin Oldest(cache)
          BY <3>1, <4>1, <5>2 DEF Oldest, Resident
        <5>. QED
          BY <3>4, <5>1, <5>3 DEF Resident
      <4>. QED
        BY <2>2, <3>2, <3>4, <4>2 DEF SweepStore, Resident
    <3>7. /\ \A m \in Resident' \cap MemoryLines : cache'[m] < BufferBase
          /\ \A m \in Resident' \ MemoryLines : cache'[m] >= BufferBase
      BY <2>0, <3>1, <3>2, <3>4 DEF SweepInv, Resident
    <3>8. pc' = "sweep" /\ pending' = {} /\ clock' = clock + 1
      BY <2>0, <2>2 DEF SweepStore, SweepInv
    <3>. QED
      BY <3>1, <3>4, <3>5, <3>6, <3>7, <3>8 DEF SweepInv
  <2>3. CASE SweepEnd
    <3>1. Resident \cap MemoryLines = {}
      <4>. SUFFICES ASSUME NEW m \in Resident \cap MemoryLines PROVE FALSE
        OBVIOUS
      <4>1. /\ IsFiniteSet(Stored(line)) /\ 64 * Cardinality(Stored(line)) = line
            /\ Stored(line) \subseteq Resident
            /\ IsFiniteSet(Resident) /\ Cardinality(Resident) <= Capacity
        BY <2>0, <2>3 DEF SweepEnd, SweepInv, CacheOK, Resident
      <4>2. m \notin Stored(line)
        BY SweepAssumption, CacheAssumption DEF Stored
      <4>3. /\ Cardinality(Stored(line)) \in Nat /\ Cardinality(Resident) \in Nat
            /\ Cardinality(Stored(line) \cup {m}) = Cardinality(Stored(line)) + 1
        BY <4>1, <4>2, FS_AddElement, FS_CardinalityType
      <4>4. Cardinality(Stored(line) \cup {m}) <= Cardinality(Resident)
        <5>1. Stored(line) \cup {m} \in SUBSET Resident
          BY <4>1
        <5>. QED
          BY <4>1, <5>1, FS_Subset
      <4>5. line >= 64 * Capacity
        BY <2>3, SweepAssumption, CacheAssumption DEF SweepEnd, IInv, TypeOK
      <4>. QED
        BY <4>1, <4>3, <4>4, <4>5, CacheAssumption DEF IInv, TypeOK
    <3>. QED
      BY <2>0, <2>3, <3>1 DEF SweepEnd, SweepInv, Resident
  <2>4. CASE UNCHANGED vars
    BY <2>0, <2>4 DEF vars, SweepInv, Resident
  <2>5. CASE Hardware
    BY <2>0, <2>5 DEF Hardware, SweepInv
  <2>. QED
    BY <2>0, <2>1, <2>2, <2>3, <2>4, <2>5
    DEF Next, Program, Returned, ApplyWarm, EnterRange, IssueFlush, LeaveRange, Fence,
        IInv, ControlInv
<1>. QED
  BY Inductive, <1>1, <1>2, PTL DEF Spec

\* After a sweep of a buffer that fills the cache, nothing a dispatch reads is
\* cached, whatever was and in whatever order it was touched.
THEOREM SweepSweeps == Spec => []SweptOnReturn
<1>1. SweepInv => SweptOnReturn
  BY DEF SweepInv, SweptOnReturn
<1>. QED
  BY SweepInductive, <1>1, PTL
=============================================================================
