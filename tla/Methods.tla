------------------------------- MODULE Methods -------------------------------
(***************************************************************************)
(* The open methods of registries.hpp and use_methods.hpp: which there     *)
(* are, which overriders the registrars give each, what `id` each body     *)
(* returns, and which id verify (main.cpp) wants from a call.              *)
(*                                                                         *)
(* A leaf class is named by its index, which is also the `tag` of its      *)
(* objects.  Overriders are named by the leaf they are for, and the        *)
(* (Base, Base) one by CatchAll.                                           *)
(***************************************************************************)
EXTENDS Registries, Integers, Sequences

CONSTANT NumClasses     \* num_classes

ASSUME ClassesAssumption == NumClasses \in Nat \ {0}

Classes  == 0 .. (NumClasses - 1)
CatchAll == -1

\* {reference, virtual_ptr} x {arity 1, arity 2} x {const, use} per registry;
\* the inplace hierarchies have the reference form only.
Method ==
    {m \in [reg : Registries, form : {"ref", "vp"}, arity : 1 .. 2,
            world : {"const", "use"}] :
        m.form = "vp" => m.reg \in VpRegistries}

\* One overrider per leaf, in both dimensions at arity 2, where a catch-all
\* takes every other pair.
Overriders(m) == IF m.arity = 1 THEN Classes ELSE Classes \cup {CatchAll}

\* The overrider the library selects among those registered, for arguments it
\* takes to be of classes `seen`: the one for that leaf, else the catch-all,
\* else none.
Select(registered, seen) ==
    LET exact == {c \in registered : \A k \in DOMAIN seen : seen[k] = c}
    IN  IF exact # {} THEN exact ELSE registered \cap {CatchAll}

\* The id a body returns.  A const body returns what it was generated for; a
\* use body returns what it read in its arguments, whichever leaf it is for.
BodyId(world, leaf, tags) ==
    IF world = "const" THEN leaf
    ELSE IF Len(tags) = 1 THEN tags[1]
    ELSE IF leaf = CatchAll THEN -tags[1] - tags[2] - 1
    ELSE tags[1] + tags[2]

\* verify's oracles: want1, want2 and wantu2.
Want(m, tags) ==
    IF m.arity = 1 THEN tags[1]
    ELSE IF m.world = "const"
         THEN IF tags[1] = tags[2] THEN tags[1] ELSE -1
         ELSE IF tags[1] = tags[2] THEN tags[1] + tags[2]
              ELSE -tags[1] - tags[2] - 1

\* The yardsticks and the touch baseline, called on objects of leaves x and y:
\* dd and ddu dispatch a second time, on the other object.
VfId(x)        == x
VfuId(x)       == x
TouchId(x)     == x
DdWithId(x, y) == x
DdId(x, y)     == DdWithId(y, x)
DdWithuId(x, y) == x + y
DduId(x, y)    == DdWithuId(y, x)

YardsticksRight(x, y) ==
    /\ VfId(x) = x /\ VfuId(x) = x /\ TouchId(x) = x
    /\ DdId(x, y) = y
    /\ DduId(x, y) = x + y
=============================================================================
