----------------------------- MODULE CommandLine -----------------------------
(***************************************************************************)
(* parse (main.cpp): one option per step, then the checks.                 *)
(*                                                                         *)
(* An argument is a record: its text, and the number strtoull and atoi     *)
(* read at its start (0 when there is none).                               *)
(***************************************************************************)
EXTENDS Widths, Sequences

CONSTANTS
    MiB,            \* 1024 * 1024
    DefaultReps, DefaultObjects, DefaultSweepMb, DefaultCpu

ASSUME CommandLineAssumption ==
    /\ MiB \in Nat \ {0}
    /\ DefaultReps \in 1 .. (SizeMod - 1) /\ DefaultObjects \in 1 .. (SizeMod - 1)
    /\ DefaultSweepMb \in 1 .. ((SizeMod - 1) \div MiB)
    /\ DefaultCpu \in Nat

Opt(text)      == [text |-> text, num |-> 0]
Num(text, num) == [text |-> text, num |-> num]

CacheModes == {"warm", "clflush", "sweep"}

DefaultConfig ==
    [reps |-> DefaultReps, objects |-> DefaultObjects,
     sweep_mb |-> DefaultSweepMb, cpu |-> DefaultCpu,
     csv |-> FALSE, verify_only |-> FALSE,
     modes |-> CacheModes]

\* strtoull, stored in a size_t: a negative number wraps, one too large is the
\* largest, and a narrower size_t drops the high bits.
ToSize(num) ==
    (IF num \in (1 - UllMod) .. (UllMod - 1) THEN num % UllMod ELSE UllMod - 1) % SizeMod

TakesValue == {"--reps", "--objects", "--sweep-mb", "--cpu", "--seed", "--mode"}

\* The configuration after option `opt` with value `val`.  (The seed is
\* Measure's subject.)
WithValue(cfg, opt, val) ==
    CASE opt = "--reps"     -> [cfg EXCEPT !.reps = ToSize(val.num)]
      [] opt = "--objects"  -> [cfg EXCEPT !.objects = ToSize(val.num)]
      [] opt = "--sweep-mb" -> [cfg EXCEPT !.sweep_mb = ToSize(val.num)]
      [] opt = "--cpu"      -> [cfg EXCEPT !.cpu = val.num]
      [] opt = "--seed"     -> cfg
      [] opt = "--mode"     ->
           [cfg EXCEPT !.modes =
               IF val.text = "all" THEN CacheModes ELSE CacheModes \cap {val.text}]

ModeKnown(val) == val.text \in CacheModes \cup {"all"}

\* The checks after the last option.
InRange(cfg) ==
    /\ cfg.objects # 0 /\ cfg.reps # 0
    /\ cfg.sweep_mb # 0 /\ cfg.sweep_mb <= (SizeMod - 1) \div MiB
    /\ cfg.cpu >= 0
=============================================================================
