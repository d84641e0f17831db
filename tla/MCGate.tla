------------------------------- MODULE MCGate -------------------------------
(* MCGate.cfg: three leaves, four objects and strides 2 and 3, so that some  *)
(* positions are sampled and others are not, as 97 and 89 do of 4096; two    *)
(* orders, the same or not for all populations; every single fault there is. *)
(*                                                                           *)
(* MCGateFull.cfg: the numbers of the default build, 25 leaves, 4096 objects *)
(* and strides 97 and 89, in the order the default seed gives, on one        *)
(* program: in one registry the diagonal overrider of leaf 3 is missing, so  *)
(* its calls fall to the catch-all.                                          *)
EXTENDS Gate

Sorted   == [k \in 0 .. 3 |-> k]
Shuffled == [k \in 0 .. 3 |-> <<2, 1, 3, 0>>[k + 1]]

MCArrangements ==
    { [h \in Hierarchies |-> Sorted],
      [h \in Hierarchies |-> Shuffled],
      [h \in Hierarchies |-> IF h = "inplace" THEN Sorted ELSE Shuffled] }

\* The leaves that std::shuffle of libstdc++, with the default seed 12345,
\* leaves at the positions 0, 97, 194, ... and 0, 89, 178, ... of the main
\* population and of the two inplace ones.
MainAtI ==
    <<21, 13, 8, 19, 16, 5, 2, 23, 18, 6, 14, 8, 12, 12, 1, 9, 4, 12, 9, 7,
      2, 21, 4, 9, 22, 6, 0, 9, 20, 14, 8, 24, 15, 23, 2, 24, 16, 12, 18,
      1, 10, 0, 1>>

MainAtJ ==
    <<21, 22, 19, 6, 23, 15, 3, 14, 20, 19, 20, 17, 17, 9, 2, 2, 0, 20, 4,
      4, 15, 17, 12, 16, 12, 24, 16, 0, 22, 9, 11, 18, 19, 9, 6, 17, 16, 0,
      5, 8, 17, 13, 8, 15, 5, 6, 15>>

InplaceAtI ==
    <<8, 9, 11, 10, 15, 16, 17, 9, 18, 6, 14, 20, 7, 15, 12, 20, 19, 4, 22,
      23, 23, 10, 21, 5, 7, 11, 8, 21, 16, 3, 14, 1, 10, 24, 21, 10, 19, 2,
      2, 5, 19, 15, 21>>

InplaceAtJ ==
    <<8, 6, 8, 20, 14, 0, 21, 19, 9, 8, 24, 18, 19, 19, 20, 23, 7, 24, 12,
      9, 8, 18, 8, 3, 2, 14, 2, 5, 18, 24, 3, 16, 15, 20, 10, 24, 19, 2,
      16, 6, 18, 14, 0, 14, 5, 17, 14>>

InplaceIndAtI ==
    <<8, 12, 12, 17, 8, 12, 21, 14, 15, 20, 24, 5, 24, 12, 0, 18, 13, 18,
      16, 22, 21, 19, 3, 7, 10, 0, 18, 21, 14, 23, 17, 4, 0, 14, 7, 23, 0,
      3, 10, 15, 0, 21, 8>>

InplaceIndAtJ ==
    <<8, 3, 14, 13, 19, 23, 21, 19, 7, 2, 6, 24, 23, 8, 17, 9, 21, 8, 18,
      17, 18, 7, 4, 12, 21, 15, 16, 18, 6, 16, 2, 14, 17, 1, 11, 22, 5, 20,
      7, 1, 13, 20, 0, 6, 10, 12, 18>>

\* What is at the other positions no check ever reads.
DefaultOrder(atI, atJ) ==
    [k \in 0 .. 4095 |->
        IF k % 97 = 0 THEN atI[k \div 97 + 1]
        ELSE IF k % 89 = 0 THEN atJ[k \div 89 + 1] ELSE k]

FullArrangements ==
    { [h \in Hierarchies |->
        CASE h = "main"        -> DefaultOrder(MainAtI, MainAtJ)
          [] h = "inplace"     -> DefaultOrder(InplaceAtI, InplaceAtJ)
          [] h = "inplace_ind" -> DefaultOrder(InplaceIndAtI, InplaceIndAtJ)] }

FullFaults ==
    { [kind |-> "missing",
       method |-> [reg |-> "vptr_vector", form |-> "ref", arity |-> 2,
                   world |-> "const"],
       leaf |-> 3] }
=============================================================================
