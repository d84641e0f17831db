------------------------------ MODULE Variants ------------------------------
(***************************************************************************)
(* The variants main.cpp measures: what each one is, in which order        *)
(* main_impl runs them, which memory its timed call reads, and which       *)
(* memory its `regions` names for the `clflush` scrub.                     *)
(*                                                                         *)
(* Memory is a set of named lines, one per thing that is read or flushed   *)
(* as a unit; how a byte range falls on lines is FlushRange's subject.     *)
(***************************************************************************)
EXTENDS Registries, Integers, Sequences

\* A registry's state is one object, with the vptr container and the hash
\* factors in it; whether they share a cache line is up to the layout the
\* library, the compiler and the linker give it.
CONSTANT HeaderOnHashLine

ASSUME LayoutAssumption == HeaderOnHashLine \in BOOLEAN

Row ==
    [form : {"probe", "direct", "touch", "vf", "ref", "vp"},
     group : {"baseline", "yardstick"} \cup Registries,
     hier : Hierarchies, arity : 0 .. 2, body : {"-", "const", "use"},
     touches : BOOLEAN]

\* An open-method variant belongs to a registry and uses its hierarchy; only
\* the main hierarchy has virtual_ptr forms.
Variant ==
    {v \in Row :
        /\ v.form \in {"ref", "vp"} =>
              v.group \in Registries /\ v.hier = HierOf(v.group)
        /\ v.form = "vp" => v.group \in VpRegistries}

-----------------------------------------------------------------------------
(* The variant structs.                                                     *)

Baseline(form, hier, arity, touches) ==
    [form |-> form, group |-> "baseline", hier |-> hier, arity |-> arity,
     body |-> "-", touches |-> touches]

VProbe  == Baseline("probe", "main", 0, FALSE)
VDirect == Baseline("direct", "main", 0, FALSE)

VTouch1 == Baseline("touch", "main", 1, TRUE)
VTouch2 == Baseline("touch", "main", 2, TRUE)
VIpTouch1(reg) == Baseline("touch", reg, 1, TRUE)
VIpTouch2(reg) == Baseline("touch", reg, 2, TRUE)

Yardstick(hier, arity, body) ==
    [form |-> "vf", group |-> "yardstick", hier |-> hier, arity |-> arity,
     body |-> body, touches |-> TRUE]

VVf1 == Yardstick("main", 1, "const")
VVf2 == Yardstick("main", 2, "const")
VIpVf1(reg) == Yardstick(reg, 1, "const")
VIpVf2(reg) == Yardstick(reg, 2, "const")
VVfu1 == Yardstick("main", 1, "use")
VVfu2 == Yardstick("main", 2, "use")
VIpVfu1(reg) == Yardstick(reg, 1, "use")
VIpVfu2(reg) == Yardstick(reg, 2, "use")

Dispatch(form, reg, arity, body, touches) ==
    [form |-> form, group |-> reg, hier |-> HierOf(reg), arity |-> arity,
     body |-> body, touches |-> touches]

\* In the const world a virtual_ptr call never reads its receiver.
VOmVp1(reg)   == Dispatch("vp", reg, 1, "const", FALSE)
VOmRef1(reg)  == Dispatch("ref", reg, 1, "const", TRUE)
VOmVp2(reg)   == Dispatch("vp", reg, 2, "const", FALSE)
VOmRef2(reg)  == Dispatch("ref", reg, 2, "const", TRUE)
VIpRef1(reg)  == Dispatch("ref", reg, 1, "const", TRUE)
VIpRef2(reg)  == Dispatch("ref", reg, 2, "const", TRUE)
VOmVpu1(reg)  == Dispatch("vp", reg, 1, "use", TRUE)
VOmRefu1(reg) == Dispatch("ref", reg, 1, "use", TRUE)
VOmVpu2(reg)  == Dispatch("vp", reg, 2, "use", TRUE)
VOmRefu2(reg) == Dispatch("ref", reg, 2, "use", TRUE)
VIpRefu1(reg) == Dispatch("ref", reg, 1, "use", TRUE)
VIpRefu2(reg) == Dispatch("ref", reg, 2, "use", TRUE)

\* All of them: what run<V> is ever instantiated with.
PlainStructs == {VProbe, VDirect, VTouch1, VTouch2, VVf1, VVf2, VVfu1, VVfu2}

OmStructs(reg) ==
    {VOmVp1(reg), VOmRef1(reg), VOmVp2(reg), VOmRef2(reg),
     VOmVpu1(reg), VOmRefu1(reg), VOmVpu2(reg), VOmRefu2(reg)}

IpStructs(reg) ==
    {VIpTouch1(reg), VIpTouch2(reg), VIpVf1(reg), VIpVf2(reg), VIpVfu1(reg),
     VIpVfu2(reg), VIpRef1(reg), VIpRef2(reg), VIpRefu1(reg), VIpRefu2(reg)}

Structs ==
    PlainStructs
    \cup (UNION {OmStructs(reg) : reg \in VpRegistries})
    \cup (UNION {IpStructs(reg) : reg \in InplaceRegistries})

-----------------------------------------------------------------------------
(* main_impl's order, the same for every cache mode.                        *)

OmbRun(reg)    == <<VOmVp1(reg), VOmRef1(reg), VOmVp2(reg), VOmRef2(reg)>>
OmbRunUse(reg) == <<VOmVpu1(reg), VOmRefu1(reg), VOmVpu2(reg), VOmRefu2(reg)>>

OmbRunInplace(reg) ==
    <<VIpTouch1(reg), VIpTouch2(reg), VIpVf1(reg), VIpVf2(reg),
      VIpRef1(reg), VIpRef2(reg)>>

ModeSchedule ==
    <<VProbe, VDirect, VTouch1, VTouch2, VVf1, VVf2>>
    \o OmbRun("vptr_vector") \o OmbRun("vptr_map")
    \o OmbRun("flat_map") \o OmbRun("indirect")
    \o OmbRunInplace("inplace") \o OmbRunInplace("inplace_ind")
    \o <<VVfu1, VVfu2>>
    \o OmbRunUse("vptr_vector") \o OmbRunUse("vptr_map")
    \o OmbRunUse("flat_map") \o OmbRunUse("indirect")
    \o <<VIpVfu1("inplace"), VIpVfu2("inplace"),
         VIpVfu1("inplace_ind"), VIpVfu2("inplace_ind"),
         VIpRefu1("inplace"), VIpRefu2("inplace"),
         VIpRefu1("inplace_ind"), VIpRefu2("inplace_ind")>>

-----------------------------------------------------------------------------
(* Memory.                                                                  *)

ObjLine(hier, o)     == <<"object", hier, o>>
VtblLine(hier, leaf) == <<"vtable", hier, leaf>>    \* with its head at vptr-16
FnLine(v)            == <<"fn", v.form, v.group, v.arity, v.body>>
ArenaLine(reg)       == <<"dispatch_data", reg>>
VptrsLine(reg)       == <<"vptrs.data", reg>>   \* vptr_vector's storage
HashLine(reg)        == <<"hash", reg>>
BucketsLine(reg)     == <<"vptrs.buckets", reg>>    \* a hash map's interior
HeaderLine(reg) ==                              \* the container object
    IF HeaderOnHashLine /\ reg \notin MapRegistries THEN HashLine(reg)
    ELSE <<"vptrs", reg>>
StaticVptrLine(reg, leaf) == <<"static_vptr", reg, leaf>>

\* What looking up an object's v-table pointer reads, per vptr policy: the hash
\* factors, the vector's data pointer and the slot it points to; the map and
\* its buckets; nothing when the pointer is in the object.
LookupReads(reg) ==
    IF reg \in InplaceRegistries THEN {}
    ELSE IF reg \in MapRegistries THEN {HeaderLine(reg), BucketsLine(reg)}
    ELSE {HashLine(reg), HeaderLine(reg), VptrsLine(reg)}

\* What an open-method dispatch on receivers of classes `leaves` reads besides
\* the receivers: the method's slots, the dispatch table, and with
\* indirect_vptr the cells holding the v-table pointers.
TableReads(v, leaves) ==
    {FnLine(v), ArenaLine(v.group)}
    \cup (IF v.group \in IndirectVptr
          THEN {StaticVptrLine(v.group, leaf) : leaf \in leaves} ELSE {})

\* Everything the timed call of v reads, on receivers `objs` of classes given
\* by leafOf.  A `ref` dispatch goes through the object's C++ v-table to its
\* type_info, except in an inplace hierarchy; a `use` body reads its receivers.
Reads(v, objs, leafOf) ==
    LET leaves  == {leafOf[o] : o \in objs}
        objects == {ObjLine(v.hier, o) : o \in objs}
        vtables == {VtblLine(v.hier, leaf) : leaf \in leaves}
    IN CASE v.form \in {"probe", "direct"} -> {}
         [] v.form = "touch" -> objects
         [] v.form = "vf" -> objects \cup vtables
         [] v.form = "ref" ->
              objects \cup TableReads(v, leaves) \cup LookupReads(v.group)
              \cup (IF v.group \in InplaceRegistries THEN {} ELSE vtables)
         [] v.form = "vp" ->
              TableReads(v, leaves)
              \cup (IF v.body = "use" THEN objects ELSE {})

\* object_regions, for each receiver.
ObjectRegions(v, objs, leafOf) ==
    {ObjLine(v.hier, o) : o \in objs}
    \cup {VtblLine(v.hier, leafOf[o]) : o \in objs}

\* static_vptr_regions / istatic_vptr_regions: every class of the hierarchy.
StaticVptrRegions(reg, classes) ==
    IF reg \in IndirectVptr
    THEN {StaticVptrLine(reg, leaf) : leaf \in classes} ELSE {}

InplaceRegistryRegions(reg, classes) ==
    {ArenaLine(reg)} \cup StaticVptrRegions(reg, classes)

\* Mutant: the hash factors and the vector's storage are forgotten.
RegistryRegionsWithoutPolicies(reg, classes) ==
    {ArenaLine(reg)} \cup StaticVptrRegions(reg, classes)

\* registry_regions names a map's container object but not its buckets, and a
\* vector's storage but not the container object that points to it.
RegistryRegions(reg, classes) ==
    {ArenaLine(reg)}
    \cup (IF reg \in MapRegistries THEN {HeaderLine(reg)}
          ELSE {VptrsLine(reg), HashLine(reg)})
    \cup StaticVptrRegions(reg, classes)

\* `regions` of each variant.
Regions(v, objs, leafOf, classes) ==
    CASE v.form = "probe" -> {}
      [] v.form \in {"direct", "touch", "vf"} -> ObjectRegions(v, objs, leafOf)
      [] v.form \in {"ref", "vp"} ->
           ObjectRegions(v, objs, leafOf) \cup {FnLine(v)}
           \cup (IF v.group \in InplaceRegistries
                 THEN InplaceRegistryRegions(v.group, classes)
                 ELSE RegistryRegions(v.group, classes))
=============================================================================
