----------------------------- MODULE Registries -----------------------------
(***************************************************************************)
(* The six registries of registries.hpp, by the names main.cpp prints, and *)
(* the hierarchy each one dispatches on.                                   *)
(***************************************************************************)

VpRegistries      == {"vptr_vector", "vptr_map", "flat_map", "indirect"}
MapRegistries     == {"vptr_map", "flat_map"}
InplaceRegistries == {"inplace", "inplace_ind"}
IndirectVptr      == {"indirect", "inplace_ind"}    \* has_indirect_vptr
Registries        == VpRegistries \cup InplaceRegistries

\* One hierarchy for the four main registries, one per inplace registry: an
\* inplace class binds to a single registry.
Hierarchies == {"main"} \cup InplaceRegistries
HierOf(reg) == IF reg \in InplaceRegistries THEN reg ELSE "main"
=============================================================================
