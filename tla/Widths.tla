------------------------------- MODULE Widths -------------------------------
(***************************************************************************)
(* The widths of the build: 64 bits, or 32 with -m32.                      *)
(***************************************************************************)
EXTENDS Integers

CONSTANTS
    UllMod,     \* 2^64, the values of unsigned long long
    SizeMod     \* 2^64 or 2^32, the values of size_t

ASSUME WidthsAssumption ==
    /\ SizeMod \in Nat \ {0}
    /\ UllMod \in Nat \ {0}
    /\ SizeMod <= UllMod
=============================================================================
