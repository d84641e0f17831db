------------------------------ MODULE Scrubber ------------------------------
(***************************************************************************)
(* `scrubber::apply` and `flush_range` (timing.hpp), one step per loop     *)
(* iteration, over a cache that the hardware empties at its own pace.      *)
(*                                                                         *)
(* A `clflushopt` only ISSUES the eviction of its line: evictions are      *)
(* weakly ordered and complete in any order, possibly after later flushes  *)
(* were issued.  The one `mfence` after the last region waits for them     *)
(* all.  A store of the sweep puts its line in the cache, and a full cache *)
(* makes room by dropping the line touched longest ago.                    *)
(***************************************************************************)
EXTENDS FlushRange, Sequences, FiniteSets

CONSTANTS
    Receivers,      \* objects a call may dispatch on: [p, vptr, sizeofB]
    SharedRegions,  \* region lists of what a dispatch reads besides them
    MemoryLines,    \* the lines all of it lies on
    BufferBase,     \* address of buffer_.data(), above MemoryLines
    BufferBytes,    \* buffer_.size()
    Capacity        \* lines the cache holds

ASSUME RegionsAssumption ==
    /\ Receivers \subseteq [p : Nat \ {NullAddr}, vptr : Nat, sizeofB : Nat]
    /\ \A r \in Receivers : r.vptr > 16
    /\ SharedRegions \subseteq Seq(Region)
    /\ \A s \in SharedRegions :
          \A n \in 1 .. Len(s) : s[n].addr # NullAddr => s[n].size > 0

ASSUME CacheAssumption ==
    /\ Capacity \in Nat \ {0}
    /\ BufferBytes \in Nat
    /\ BufferBase \in Nat
    /\ BufferBase % 64 = 0
    /\ MemoryLines \subseteq {l \in Nat : l % 64 = 0}
    /\ IsFiniteSet(MemoryLines)

\* What a dispatch reads fits in the cache and is no part of the buffer, and the
\* buffer fills the cache: what --sweep-mb is for.
ASSUME SweepAssumption ==
    /\ Cardinality(MemoryLines) <= Capacity
    /\ \A l \in MemoryLines : l < BufferBase
    /\ 64 * Capacity <= BufferBytes

Modes == {"warm", "clflush", "sweep"}

VARIABLES
    receiver,   \* the object the next timed call dispatches on
    mode,       \* the cache_mode argument
    regions,    \* the regions/count argument
    pc,         \* where apply is
    ri,         \* index of the region being flushed
    line,       \* flush_range's cursor, or the sweep's index i
    pending,    \* lines whose clflushopt was issued and has not completed
    cache,      \* resident lines, each with the time of its last touch
    clock       \* time of the next touch

vars == <<receiver, mode, regions, pc, ri, line, pending, cache, clock>>

Resident == DOMAIN cache

\* object_regions: what it pushes for one receiver.
ObjectRegions(r) == <<ObjectRegion(r.p, r.sizeofB), VtblRegion(r.vptr)>>

\* Drop a set of lines from the cache.
Evicted(c, S) == [l \in DOMAIN c \ S |-> c[l]]

\* The line a full cache drops: the one touched longest ago.
Oldest(c) == {l \in DOMAIN c : \A k \in DOMAIN c : c[l] <= c[k]}

\* Touch line l at time t, making room first if the cache is full.
Touched(c, l, t) ==
    LET room == IF l \in DOMAIN c \/ Cardinality(DOMAIN c) < Capacity
                THEN c ELSE Evicted(c, Oldest(c))
    IN  [k \in DOMAIN room \cup {l} |-> IF k = l THEN t ELSE room[k]]

-----------------------------------------------------------------------------
(* apply is entered after the warm-up call: everything it may have to       *)
(* flush is in the cache, touched in some order.                            *)
Init ==
    /\ mode \in Modes
    /\ receiver \in Receivers
    /\ \E shared \in SharedRegions : regions = ObjectRegions(receiver) \o shared
    /\ pc = "apply"
    /\ ri = 1
    /\ line = 0
    /\ pending = {}
    /\ cache = [l \in MemoryLines |-> l]
    /\ clock = BufferBase

\* case warm: return.
ApplyWarm ==
    /\ pc = "apply"
    /\ mode = "warm"
    /\ pc' = "done"
    /\ UNCHANGED <<receiver, mode, regions, ri, line, pending, cache, clock>>

\* case clflush / case sweep: enter the loop.
ApplyCold ==
    /\ pc = "apply"
    /\ mode # "warm"
    /\ pc' = IF mode = "clflush" THEN "region" ELSE "sweep"
    /\ UNCHANGED <<receiver, mode, regions, ri, line, pending, cache, clock>>

\* flush_range on the next region: nullptr returns at once, anything else
\* starts the loop at the region's first line.
EnterRange ==
    /\ pc = "region"
    /\ ri <= Len(regions)
    /\ IF regions[ri].addr = NullAddr
       THEN ri' = ri + 1 /\ UNCHANGED <<pc, line>>
       ELSE pc' = "flush" /\ line' = FlushBegin(regions[ri]) /\ UNCHANGED ri
    /\ UNCHANGED <<receiver, mode, regions, pending, cache, clock>>

\* Mutant: the cursor stays where it is.
IssueFlushInPlace ==
    /\ pc = "flush"
    /\ line < FlushEnd(regions[ri])
    /\ pending' = pending \cup {line}
    /\ UNCHANGED <<receiver, mode, regions, pc, ri, line, cache, clock>>

\* One iteration of flush_range's loop: issue the flush, advance the cursor.
IssueFlush ==
    /\ pc = "flush"
    /\ line < FlushEnd(regions[ri])
    /\ pending' = pending \cup {line}
    /\ line' = line + 64
    /\ UNCHANGED <<receiver, mode, regions, pc, ri, cache, clock>>

\* Mutant: the region after this one is skipped.
LeaveRangeBySkipping ==
    /\ pc = "flush"
    /\ ~(line < FlushEnd(regions[ri]))
    /\ pc' = "region"
    /\ ri' = ri + 2
    /\ UNCHANGED <<receiver, mode, regions, line, pending, cache, clock>>

LeaveRange ==
    /\ pc = "flush"
    /\ ~(line < FlushEnd(regions[ri]))
    /\ pc' = "region"
    /\ ri' = ri + 1
    /\ UNCHANGED <<receiver, mode, regions, line, pending, cache, clock>>

\* Mutant: no mfence.
FenceWithoutWaiting ==
    /\ pc = "region"
    /\ ri > Len(regions)
    /\ pc' = "done"
    /\ UNCHANGED <<receiver, mode, regions, ri, line, pending, cache, clock>>

\* The mfence after the last region returns once every flush completed.
Fence ==
    /\ pc = "region"
    /\ ri > Len(regions)
    /\ pending = {}
    /\ pc' = "done"
    /\ UNCHANGED <<receiver, mode, regions, ri, line, pending, cache, clock>>

\* The hardware completes one outstanding flush, in no particular order.
CompleteFlush(l) ==
    /\ l \in pending
    /\ pending' = pending \ {l}
    /\ cache' = Evicted(cache, {l})
    /\ UNCHANGED <<receiver, mode, regions, pc, ri, line, clock>>

\* Mutant: the stride is a page, so most sets keep their lines.
SweepStoreByPage ==
    /\ pc = "sweep"
    /\ line < BufferBytes
    /\ cache' = Touched(cache, LineOf(BufferBase + line), clock)
    /\ clock' = clock + 1
    /\ line' = line + 4096
    /\ UNCHANGED <<receiver, mode, regions, pc, ri, pending>>

\* One iteration of the sweep: p[i] = i, then i += 64.
SweepStore ==
    /\ pc = "sweep"
    /\ line < BufferBytes
    /\ cache' = Touched(cache, LineOf(BufferBase + line), clock)
    /\ clock' = clock + 1
    /\ line' = line + 64
    /\ UNCHANGED <<receiver, mode, regions, pc, ri, pending>>

SweepEnd ==
    /\ pc = "sweep"
    /\ ~(line < BufferBytes)
    /\ pc' = "done"
    /\ UNCHANGED <<receiver, mode, regions, ri, line, pending, cache, clock>>

\* apply returned; nothing more happens until the next repetition.
Returned == pc = "done" /\ UNCHANGED vars

Program ==
    \/ ApplyWarm \/ ApplyCold
    \/ EnterRange \/ IssueFlush \/ LeaveRange \/ Fence
    \/ SweepStore \/ SweepEnd

Hardware == \E l \in pending : CompleteFlush(l)

Next == Program \/ Hardware \/ Returned

\* The thread runs, and the hardware eventually completes what was issued.
Fairness == WF_vars(Program) /\ WF_vars(Hardware)

Spec == Init /\ [][Next]_vars /\ Fairness

-----------------------------------------------------------------------------
TypeOK ==
    /\ receiver \in Receivers
    /\ mode \in Modes
    /\ regions \in Seq(Region)
    /\ pc \in {"apply", "region", "flush", "sweep", "done"}
    /\ ri \in 1 .. (Len(regions) + 1)
    /\ line \in Nat
    /\ pending \subseteq Nat
    /\ DOMAIN cache \subseteq Nat
    /\ clock \in Nat

\* When apply returns in clflush mode, no byte of any region is resident,
\* whatever order the hardware completed the weakly ordered flushes in.
FlushedOnReturn ==
    pc = "done" /\ mode = "clflush" =>
        \A k \in 1 .. Len(regions) :
            \A b \in Bytes(regions[k]) : LineOf(b) \notin Resident

\* What the next call reads through the receiver is cold then: its members,
\* and its v-table from the offset-to-top slot to the last virtual function,
\* for every alignment of either (the hole object_regions' comment is about).
ReceiverColdOnReturn ==
    pc = "done" /\ mode = "clflush" =>
        \A b \in ObjectReads(receiver.p, receiver.sizeofB)
                  \cup VtblReads(receiver.vptr) : LineOf(b) \notin Resident

\* When apply returns in sweep mode, nothing a dispatch reads is resident: the
\* buffer, larger than the cache, has displaced all of it.
SweptOnReturn ==
    pc = "done" /\ mode = "sweep" => Resident \cap MemoryLines = {}

\* clflush mode evicts no line that holds no byte of a region: what the
\* scrubber takes away is what the variant named, no neighbouring object.
EvictsOnlyRegions ==
    [][mode = "clflush" =>
         \A l \in Resident \ Resident' :
            \E k \in 1 .. Len(regions) :
                \E b \in Bytes(regions[k]) : LineOf(b) = l]_vars

\* apply returns, in every mode and for every region list.
Returns == <>(pc = "done")
=============================================================================
