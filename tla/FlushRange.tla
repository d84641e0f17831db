----------------------------- MODULE FlushRange -----------------------------
(***************************************************************************)
(* The address arithmetic of `flush_range` (timing.hpp) and of the regions *)
(* that `object_regions` (main.cpp) hands to it.  Addresses are naturals;  *)
(* the code's `addr & ~63` is the address rounded down to its line.        *)
(* Addresses near the top of the 64-bit space, where `addr + size` could   *)
(* wrap, are not addresses of objects and are left out.                    *)
(***************************************************************************)
EXTENDS Integers

CONSTANT VtblBytes  \* bytes of v-table flushed past the address point: 512

\* A class of the hierarchies has eight virtual functions, destructors
\* included: the flushed part of the v-table must hold them all.
ASSUME VtblAssumption == VtblBytes \in Nat /\ VtblBytes >= 8 * 8

\* The cache line of a byte, named by the address of its first byte.
LineOf(a) == a - (a % 64)

\* A region is the pointer/size pair of timing.hpp; NullAddr is nullptr.
NullAddr == 0

Region == [addr : Nat, size : Nat]

\* The bytes a region designates: none for nullptr, whatever its size.
Bytes(r) == IF r.addr = NullAddr THEN {} ELSE r.addr .. (r.addr + r.size - 1)

\* Mutant: one line too many at the end of the loop.
FlushEndOneLineOn(r) == r.addr + r.size + 64

\* The two ends of flush_range's loop.
FlushBegin(r) == LineOf(r.addr)
FlushEnd(r)   == r.addr + r.size

\* What the whole loop flushes: one line per iteration from begin to end.
FlushLines(r) ==
    IF r.addr = NullAddr THEN {}
    ELSE {l \in FlushBegin(r) .. (FlushEnd(r) - 1) : l % 64 = 0}

\* object_regions: the object itself, at least a line long, and its C++
\* v-table from 16 bytes before the address point, where offset-to-top and the
\* type_info pointer are.
ObjectRegion(p, sizeofB) ==
    [addr |-> p, size |-> IF sizeofB < 64 THEN 64 ELSE sizeofB]

\* Mutant: the v-table from its address point on, without its head.
VtblRegionWithoutHead(vptr) == [addr |-> vptr, size |-> VtblBytes]

VtblRegion(vptr) == [addr |-> vptr - 16, size |-> VtblBytes + 16]

\* What a dispatch reads through the two: the object's members, and the words
\* of the v-table from the offset-to-top slot to its last virtual function.
ObjectReads(p, sizeofB) == p .. (p + sizeofB - 1)
VtblReads(vptr)         == (vptr - 16) .. (vptr + 8 * 8 - 1)
=============================================================================
