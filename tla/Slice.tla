-------------------------------- MODULE Slice --------------------------------
(***************************************************************************)
(* asmtab.py's passes over a timed window: `bookkeeping`, the slice that   *)
(* separates the dispatch from the timing rig, `chain`, the number of      *)
(* dependent loads, and `roles`, which names the loads of globals.         *)
(*                                                                         *)
(* A window is a sequence of instructions that ends in the indirect call.  *)
(* An instruction has a destination, the registers it reads outside its    *)
(* memory operand, the registers of its memory operand, and, when that     *)
(* operand is a stack slot, its offset.  Registers are as `canon` gives    *)
(* them; those read under a name the passes do not look for are marked.    *)
(* Left out: flags and other implicit operands, vector registers, pop and  *)
(* the other i386 idioms, instructions that write a register under a       *)
(* narrow name or move the stack pointer otherwise than by a push.         *)
(*                                                                         *)
(* The passes are compared with definitions that follow each value from    *)
(* the instruction that made it.                                           *)
(***************************************************************************)
EXTENDS Integers, SequencesExt

CONSTANTS
    Regs,           \* registers
    ArgRegs,        \* those the callee takes its arguments in
    Instructions,   \* bound: the instructions windows are made of
    Calls,          \* bound: the indirect calls that end them
    MaxWindow,      \* bound: instructions before the call
    Word            \* bytes a push moves the stack pointer by

NoReg == "none"

\* The operand of a memory access: none, [base...], with no registers for a
\* global, or [rsp+slot].
NoMem      == [kind |-> "none", base |-> {}, slot |-> 0]
Mem(base)  == [kind |-> "mem", base |-> base, slot |-> 0]
Slot(off)  == [kind |-> "slot", base |-> {}, slot |-> off]

\* op: mov, movzx (movsx too), lea, rmw (dst is read and written: add, imul, or,
\* neg...), shrx (any with three operands), store and rmwstore (to memory or a
\* slot), push, call.  An immediate is no register: a mov, store or push of one
\* reads none.  narrow: the registers it reads as cl, al, cx..., which are no
\* registers to the patterns of chain and bookkeeping (r8b and the like are).
Narrow(op, dst, reads, mem, narrow) ==
    [op |-> op, dst |-> dst, reads |-> reads, mem |-> mem, narrow |-> narrow]

Ins(op, dst, reads, mem) == Narrow(op, dst, reads, mem, {})

ASSUME SliceAssumption ==
    /\ NoReg \notin Regs /\ ArgRegs \subseteq Regs
    /\ MaxWindow \in Nat /\ Word \in Nat \ {0}
    /\ \A x \in Instructions : x.op # "call"
    /\ \A x \in Calls : x.op = "call"

Writes == {"mov", "movzx", "lea", "rmw", "shrx"}

Stores == {"store", "rmwstore"}

\* The forms the model covers: an instruction that writes a register names one,
\* a store has a memory operand, the offset of a slot is not negative, one with
\* two operands, one of them in memory, has no other source, and a call has no
\* narrow operand.
ASSUME FormsAssumption ==
    \A x \in Instructions \cup Calls :
        /\ x.op \in Writes \cup Stores \cup {"push", "call"}
        /\ IF x.op \in Writes THEN x.dst \in Regs ELSE x.dst = NoReg
        /\ x.reads \subseteq Regs /\ x.mem.base \subseteq Regs
        /\ x.narrow \subseteq x.reads /\ (x.op = "call" => x.narrow = {})
        /\ x.mem.kind \in {"none", "mem", "slot"} /\ x.mem.slot \in Nat
        /\ x.mem.kind # "mem" => x.mem.base = {}
        /\ x.op \in Stores => x.mem.kind # "none"
        /\ x.op \in (Writes \ {"shrx"}) \cup {"call"} /\ x.mem.kind # "none" =>
             x.reads = {}

VARIABLES
    win,    \* the window so far
    closed  \* its call has been reached

vars == <<win, closed>>

Init == win = <<>> /\ closed = FALSE

\* `window` walks from the instruction after the start bracket...
Walk(x) ==
    /\ ~closed /\ Len(win) < MaxWindow
    /\ win' = Append(win, x)
    /\ UNCHANGED closed

\* ... to the indirect call.
Reach(x) ==
    /\ ~closed
    /\ win' = Append(win, x)
    /\ closed' = TRUE

Done == closed /\ UNCHANGED vars

Next ==
    \/ \E x \in Instructions : Walk(x)
    \/ \E x \in Calls : Reach(x)
    \/ Done

Spec == Init /\ [][Next]_vars

-----------------------------------------------------------------------------
(* bookkeeping.                                                             *)

MemoryWrite == Stores \cup {"push"}

\* Stores and pushes are kept always, others when their result is needed.
Wanted(x, needed) == x.op \in MemoryWrite \/ x.dst \in needed

\* Mutant: whatever writes a register redefines it.
DefinesAny(x) == x.dst # NoReg

\* A plain move redefines its destination.
Defines(x) == x.op \in {"mov", "movzx", "lea"}

\* The registers the passes see x read outside its memory operand.
Seen(x) == x.reads \ x.narrow

\* The registers needed before x, when `needed` are after it.
NeededBefore(x, needed) ==
    (IF Defines(x) THEN needed \ {x.dst} ELSE needed) \cup Seen(x) \cup x.mem.base

\* The registers needed before each instruction: backwards, from what the call
\* reads.
Needed(w) ==
    LET n == Len(w)
        needed[i \in 1 .. n] ==
            IF i = n THEN Seen(w[n]) \cup w[n].mem.base
            ELSE IF Wanted(w[i], needed[i + 1])
                 THEN NeededBefore(w[i], needed[i + 1]) ELSE needed[i + 1]
    IN  needed

\* The instructions that are kept.
Kept(w) ==
    LET needed == Needed(w) IN
    {Len(w)} \cup {i \in 1 .. (Len(w) - 1) : Wanted(w[i], needed[i + 1])}

-----------------------------------------------------------------------------
(* chain.                                                                   *)

\* How far pushes have moved the stack pointer when w[i] executes.
Delta(w, i) == Word * Cardinality({j \in 1 .. (i - 1) : w[j].op = "push"})

\* Mutant: a slot's offset is not corrected.
KeyUncorrected(w, i) == w[i].mem.slot

\* A slot's name, the same before and after a push.
Key(w, i) == w[i].mem.slot - Delta(w, i)

\* The passes look for [rsp+0x..]: the slot the stack pointer points to is
\* printed without an offset, and passes for other memory.
IsSlot(x) == x.mem.kind = "slot" /\ x.mem.slot # 0

Put(f, a, b) == [c \in DOMAIN f \cup {a} |-> IF c = a THEN b ELSE f[c]]

Deepest(dep, regs) == Max({dep[r] : r \in regs} \cup {0})

\* The depth of what w[i] loads: one more than its address; a slot the window
\* spilled to forwards the depth of what was put there.
LoadedDepth(w, i, st) ==
    LET key == Key(w, i) IN
    IF w[i].mem.kind = "none" THEN 0
    ELSE IF IsSlot(w[i]) /\ key \in DOMAIN st.stack THEN st.stack[key]
    ELSE Deepest(st.dep, w[i].mem.base) + 1

\* dep and stack after w[i].  lea counts as the load it looks like, and a
\* memory operand hides the other sources of shrx.
ChainStep(w, i, st) ==
    LET x    == w[i]
        srcs == IF x.mem.kind = "none" THEN Deepest(st.dep, Seen(x)) ELSE 0
    IN  CASE x.op \in Stores ->
               IF IsSlot(x)
               THEN [st EXCEPT !.stack = Put(@, Key(w, i), Deepest(st.dep, Seen(x)))]
               ELSE st
          [] x.op = "push" -> st
          [] x.op \in Writes ->
               [st EXCEPT !.dep[x.dst] =
                   Max({srcs, LoadedDepth(w, i, st),
                        IF x.op = "rmw" THEN @ ELSE 0})]

\* dep and stack after each instruction before the call.
ChainStates(w) ==
    LET st[i \in 0 .. (Len(w) - 1)] ==
            IF i = 0 THEN [dep |-> [r \in Regs |-> 0], stack |-> <<>>]
            ELSE ChainStep(w, i, st[i - 1])
    IN  st

\* Dependent loads between the opening of the window and the call's target.
Chain(w) ==
    LET n    == Len(w)
        last == ChainStates(w)[n - 1]
    IN  IF w[n].mem.kind = "none" THEN Deepest(last.dep, Seen(w[n]))
        ELSE LoadedDepth(w, n, last)

-----------------------------------------------------------------------------
(* roles.                                                                   *)

NoLoad == 0

LoadsGlobal(x) == x.op \in {"mov", "movzx", "lea"} /\ x.mem.kind = "mem" /\ x.mem.base = {}

Lookup(f, a) == IF a \in DOMAIN f THEN f[a] ELSE NoLoad

\* What live says of the source of a spill; of an immediate, nothing.
LiveSource(live, x) ==
    IF x.reads = {} THEN NoLoad ELSE live[CHOOSE r \in x.reads : TRUE]

\* Mutant: a reload of an unknown slot leaves the register its name.
RolesStepKeeping(w, i, st) ==
    LET x == w[i] IN
    IF x.op = "store" /\ IsSlot(x)
    THEN [st EXCEPT !.stack = Put(@, Key(w, i), LiveSource(st.live, x))]
    ELSE IF x.dst = NoReg THEN st
    ELSE [st EXCEPT !.live[x.dst] =
             IF LoadsGlobal(x) THEN i
             ELSE IF x.op = "mov" /\ IsSlot(x)
             THEN IF Key(w, i) \in DOMAIN st.stack THEN st.stack[Key(w, i)] ELSE @
             ELSE NoLoad]

\* live and stack after w[i]: the load of a global a register or slot holds the
\* value of, as far as the pass can tell.
RolesStep(w, i, st) ==
    LET x == w[i] IN
    IF x.op = "store" /\ IsSlot(x)
    THEN [st EXCEPT !.stack = Put(@, Key(w, i), LiveSource(st.live, x))]
    ELSE IF x.dst = NoReg THEN st
    ELSE [st EXCEPT !.live[x.dst] =
             IF LoadsGlobal(x) THEN i
             ELSE IF x.op = "mov" /\ IsSlot(x) THEN Lookup(st.stack, Key(w, i))
             ELSE NoLoad]

\* live and stack after each instruction before the call.
RolesStates(w) ==
    LET st[i \in 0 .. (Len(w) - 1)] ==
            IF i = 0 THEN [live |-> [r \in Regs |-> NoLoad], stack |-> <<>>]
            ELSE RolesStep(w, i, st[i - 1])
    IN  st

\* The register names when the call is reached.
Named(w) == RolesStates(w)[Len(w) - 1].live

-----------------------------------------------------------------------------
(* What the instructions do.                                                *)

\* Where the value of r came from when w[i] executes: 0 when the window did not
\* write it.
DefAt(w, r, i) == Max({j \in 1 .. (i - 1) : w[j].dst = r} \cup {0})

\* The address of the slot w[i] names, and of the one it writes.
SlotOf(w, i)  == w[i].mem.slot - Delta(w, i)
Address(w, i) == IF w[i].op = "push" THEN -(Delta(w, i) + Word) ELSE SlotOf(w, i)

WritesSlot(x) == x.op = "push" \/ (x.op \in Stores /\ x.mem.kind = "slot")
ReadsSlot(x)  == x.mem.kind = "slot" /\ x.op # "store"

\* The instruction that last wrote the slot w[i] reads.
StoreAt(w, i) ==
    Max({j \in 1 .. (i - 1) : WritesSlot(w[j]) /\ Address(w, j) = SlotOf(w, i)} \cup {0})

\* All the registers x reads.
Uses(x) == x.reads \cup x.mem.base \cup (IF x.op = "rmw" THEN {x.dst} ELSE {})

\* The instructions whose results w[i] reads.
Sources(w, i) ==
    ({DefAt(w, r, i) : r \in Uses(w[i])}
     \cup (IF ReadsSlot(w[i]) THEN {StoreAt(w, i)} ELSE {})) \ {0}

\* What reaches the call's target, memory (arguments passed on the stack are
\* there), or what one of `regs` holds when the call is made.
Reaches(w, regs) ==
    LET n == Len(w)
        live[i \in 1 .. n] ==
            \/ i = n \/ w[i].op \in MemoryWrite
            \/ \E r \in regs : i = DefAt(w, r, n)
            \/ \E j \in (i + 1) .. n : live[j] /\ i \in Sources(w, j)
    IN  live

Dispatch(w, regs) == LET live == Reaches(w, regs) IN {i \in 1 .. Len(w) : live[i]}

\* What loads from memory, and from a slot that the window did not write.  (Other
\* memory that the window writes is not told from memory that it does not.)
LoadsMem(x) == x.op \notin {"lea", "store"} /\ x.mem.kind = "mem"
LoadsIncoming(w, i) == w[i].op # "lea" /\ ReadsSlot(w[i]) /\ StoreAt(w, i) = 0

\* The loads that must complete one after another before w[i] has its result.
\* What was stored is forwarded.
Depths(w) ==
    LET d[i \in 1 .. Len(w)] ==
            LET x    == w[i]
                from == {d[j] : j \in Sources(w, i)}
                addr == {d[DefAt(w, r, i)] : r \in {s \in x.mem.base : DefAt(w, s, i) # 0}}
                load == CASE LoadsMem(x) -> Max(addr \cup {0}) + 1
                          [] LoadsIncoming(w, i) -> 1
                          [] OTHER -> 0
            IN  Max(from \cup {load})
    IN  d

Depth(w) == Depths(w)[Len(w)]

\* Instructions that copy a register or a part of one, if they do not copy an
\* immediate.
Copies(x) ==
    x.op \in {"store", "push"} \/ (x.op \in {"mov", "movzx"} /\ x.mem.kind = "none")

\* The load of a global whose value each instruction's result is.
Origins(w) ==
    LET o[j \in 0 .. Len(w)] ==
            IF j = 0 THEN NoLoad
            ELSE IF LoadsGlobal(w[j]) THEN j
            ELSE IF Copies(w[j]) /\ w[j].reads # {}
            THEN o[DefAt(w, CHOOSE s \in w[j].reads : TRUE, j)]
            ELSE IF w[j].op \in {"mov", "movzx"} /\ ReadsSlot(w[j]) THEN o[StoreAt(w, j)]
            ELSE NoLoad
    IN  o

\* The load of a global whose value register r holds when w[i] executes.
Origin(w, r, i) == Origins(w)[DefAt(w, r, i)]

-----------------------------------------------------------------------------
\* What the call's target, and every value written to memory, is computed from
\* is kept, whatever is spilled, reloaded, overwritten or shifted by a push, as
\* long as nothing in it reads a register under a narrow name.
SliceSound ==
    closed =>
        LET needed == Dispatch(win, {}) IN
        (\A i \in needed : win[i].narrow = {}) => needed \subseteq Kept(win)

\* The README says "nothing that reaches the call or its arguments can be
\* dropped", and bookkeeping's docstring that an instruction is kept when it
\* "reaches the call's target or one of its arguments".  The same, with the
\* arguments that are passed in registers.
ArgumentsKept == closed => Dispatch(win, ArgRegs) \subseteq Kept(win)

\* The forms the two forward passes do not know: a slot without an offset, a
\* slot that was pushed, memory modified in place, a register read under a
\* narrow name.
Unseen(w) ==
    \E i \in 1 .. Len(w) :
        \/ w[i].op = "rmwstore" \/ w[i].narrow # {}
        \/ w[i].mem.kind = "slot" /\ w[i].mem.slot = 0
        \/ ReadsSlot(w[i]) /\ StoreAt(w, i) # 0 /\ w[StoreAt(w, i)].op = "push"

\* The published number of dependent loads is the length of the longest chain of
\* loads to the call's target, through registers, spills and pushes, for windows
\* without those forms, without lea, and without shrx on memory; with lea
\* it is never less.
ChainExact ==
    closed /\ ~Unseen(win)
    /\ (\A i \in 1 .. Len(win) : win[i].op = "shrx" => win[i].mem.kind = "none") =>
        /\ Chain(win) >= Depth(win)
        /\ (\A i \in 1 .. Len(win) : win[i].op # "lea") => Chain(win) = Depth(win)

\* A register is never named for a load whose value it does not hold, however
\* slots are reused and shifted: the listings' [rip+mult], [rip+slot] are
\* what they say.
RolesSound ==
    closed /\ (\A i \in 1 .. Len(win) : win[i].op # "rmwstore") =>
        LET named == Named(win) IN
        \A r \in Regs : named[r] \in {NoLoad, Origin(win, r, Len(win))}

\* asmtab.py's docstring of bookkeeping: the slice "catches everything the timing
\* rig leaves in the window and nothing else".  Whatever is kept reaches the
\* call, memory or an argument.
SliceExact == closed => Kept(win) \subseteq Dispatch(win, ArgRegs)
=============================================================================
