----------------------------- MODULE MCScrubber -----------------------------
(* Receivers at three alignments of the object and of the v-table: on a line *)
(* boundary, 8 and 16 bytes past one.  Sizes are those of Base (16 bytes)    *)
(* and IBase (24).  Shared regions: none, a null one before a table that     *)
(* straddles a line, and a table on a boundary.                              *)
EXTENDS Scrubber

MCReceivers ==
    {[p |-> 128, vptr |-> 320, sizeofB |-> 16],
     [p |-> 128, vptr |-> 328, sizeofB |-> 24],
     [p |-> 136, vptr |-> 320, sizeofB |-> 24],
     [p |-> 176, vptr |-> 336, sizeofB |-> 16]}

MCSharedRegions ==
    { <<>>,
      <<[addr |-> NullAddr, size |-> 8], [addr |-> 680, size |-> 40]>>,
      <<[addr |-> 704, size |-> 64]>> }

\* 0 .. 895, and a line on either side that no region touches.
MCMemoryLines == {64 * k : k \in 0 .. 13}
=============================================================================
