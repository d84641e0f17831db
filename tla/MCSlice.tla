------------------------------ MODULE MCSlice ------------------------------
(* Two registers, the second of them an argument's, and instructions of every *)
(* form and way of naming them: every window of up to four of them before the *)
(* call.  Four are enough for a value to be loaded, spilled, shifted by a     *)
(* push and reloaded into the call, for the window of the published listing   *)
(* in which the stamp's `mov eax, eax` is kept, and for a shift by cl whose   *)
(* count is loaded.                                                           *)
EXTENDS Slice

MCRegs == {"a", "b"}

MCArgRegs == {"b"}

MCInstructions ==
    {Ins("mov", "a", {"a"}, NoMem), Ins("mov", "a", {"b"}, NoMem),
     Ins("mov", "b", {"a"}, NoMem),
     Ins("mov", "a", {}, Mem({})), Ins("mov", "b", {}, Mem({})),
     Ins("mov", "a", {}, Mem({"b"})), Ins("mov", "b", {}, Mem({"a", "b"})),
     Ins("lea", "a", {}, Mem({"b"})),
     Ins("rmw", "a", {"b"}, NoMem), Ins("rmw", "a", {}, NoMem),
     Ins("rmw", "b", {}, Mem({"a"})), Narrow("rmw", "a", {"b"}, NoMem, {"b"}),
     Ins("shrx", "a", {"a", "b"}, NoMem), Ins("shrx", "a", {"b"}, NoMem),
     Ins("shrx", "b", {"a"}, Mem({})),
     Ins("store", NoReg, {"a"}, Slot(0)), Ins("store", NoReg, {"a"}, Slot(1)),
     Ins("store", NoReg, {"b"}, Slot(2)), Ins("rmwstore", NoReg, {"b"}, Slot(1)),
     Ins("store", NoReg, {"a"}, Mem({"b"})),
     Ins("mov", "a", {}, Slot(1)), Ins("mov", "b", {}, Slot(2)),
     Ins("mov", "b", {}, Slot(0)), Ins("movzx", "b", {}, Slot(1)),
     Ins("movzx", "b", {"a"}, NoMem),
     Ins("mov", "b", {}, NoMem), Ins("store", NoReg, {}, Slot(2)),
     Ins("push", NoReg, {"a"}, NoMem), Ins("push", NoReg, {"b"}, NoMem)}

MCCalls == {Ins("call", NoReg, {"a"}, NoMem), Ins("call", NoReg, {}, Mem({"a", "b"}))}
=============================================================================
