------------------------------- MODULE Matrix -------------------------------
(***************************************************************************)
(* `matrix.sh` and what `report.py` makes of the files it leaves.          *)
(*                                                                         *)
(* The script checks the compilers, removes the passes of earlier          *)
(* invocations, builds and gates one binary per compiler, and then         *)
(* measures every compiler once per pass, into results/run<k>/<cc>.csv.    *)
(* It may be interrupted, or a command may fail, at any point; it may be   *)
(* started again, with another RUNS, on another version of the source.     *)
(* report.py may be run at any moment: what it would print is a function   *)
(* of the files.                                                           *)
(***************************************************************************)
EXTENDS Integers, Sequences, FiniteSets, FiniteSetsExt

CONSTANTS
    CcList,     \* CC_LIST, the compilers of compilers.conf in order
    MaxRuns,    \* bound: values of RUNS
    MaxStarts,  \* bound: invocations of the script
    MaxEdits,   \* bound: changes of the source
    MaxCuts     \* bound: measurements that lose output to a full disk

ASSUME MatrixAssumption ==
    /\ Len(CcList) \in Nat \ {0}
    /\ \A a, b \in 1 .. Len(CcList) : CcList[a] = CcList[b] => a = b
    /\ MaxRuns \in Nat \ {0}
    /\ MaxStarts \in Nat \ {0}
    /\ MaxEdits \in Nat
    /\ MaxCuts \in Nat

Compilers == {CcList[n] : n \in 1 .. Len(CcList)}
Versions  == 1 .. (MaxEdits + 1)
NoBinary  == 0

VARIABLES
    source,     \* the version of the source tree, the library's included
    unsound,    \* the builds that fail --verify: compiler and version
    bin,        \* per compiler, the version bin/benchmark-$cc was built from
    read,       \* the version the running build read
    behind,     \* the binaries older than src/: asmtab.py's `stale`
    missed,     \* history: the binaries that lack a change made while they
                \* were built, or one to the library
    files,      \* the csv files that exist, by pass and compiler
    pc,         \* what the script does next; "idle" when it does not run
    runs,       \* RUNS of this invocation
    k,          \* the pass
    ci,         \* the place of cc in CC_LIST
    starts,     \* invocations so far
    complete,   \* RUNS of the last invocation, if it ended and nothing was
                \* removed since; else 0
    cuts,       \* the files that lost their end to a full disk
    cutsEver    \* how many there have been

vars == <<source, unsound, bin, read, behind, missed, files, pc, runs, k, ci,
          starts, complete, cuts, cutsEver>>

built == <<bin, read, behind, missed>>
lost  == <<cuts, cutsEver>>

cc == CcList[ci]

\* A binary prints its csv when it has measured everything, through a buffer
\* smaller than the text: a file is empty, holds the first rows, or all.  (The
\* cut is taken to fall between two rows.)
Rows == {"head", "tail"}
File == [rows : {{}, {"head"}, Rows}, version : Versions, start : 1 .. MaxStarts]

\* files with another content of the one being written.
WithRows(rows) ==
    [f \in DOMAIN files \cup {<<k, cc>>} |->
        IF f = <<k, cc>>
        THEN [rows |-> rows, version |-> bin[cc], start |-> starts]
        ELSE files[f]]

-----------------------------------------------------------------------------
Init ==
    /\ source = 1
    /\ unsound \in SUBSET (Compilers \X Versions)
    /\ bin = [c \in Compilers |-> NoBinary]
    /\ read = 1
    /\ behind = {}
    /\ missed = {}
    /\ files = <<>>
    /\ pc = "idle"
    /\ runs = 1
    /\ k = 1
    /\ ci = 1
    /\ starts = 0
    /\ complete = 0
    /\ cuts = {}
    /\ cutsEver = 0

\* RUNS=r ./matrix.sh
Start(r) ==
    /\ pc = "idle"
    /\ starts < MaxStarts
    /\ starts' = starts + 1
    /\ runs' = r
    /\ pc' = "installed"
    /\ UNCHANGED <<source, unsound, built, files, k, ci, complete, lost>>

\* Every compiler is installed (when one is not, the script stops).
CheckInstalled ==
    /\ pc = "installed"
    /\ pc' = "wipe"
    /\ UNCHANGED <<source, unsound, built, files, runs, k, ci, starts, complete, lost>>

\* rm -rf "$OUTDIR"/run*, of any earlier invocation: file by file, one pass
\* after the other.
Wipe ==
    /\ pc = "wipe"
    /\ \E f \in DOMAIN files :
          /\ \A g \in DOMAIN files : f[1] <= g[1]
          /\ files' = [g \in DOMAIN files \ {f} |-> files[g]]
          /\ cuts' = cuts \ {f}
    /\ complete' = 0
    /\ UNCHANGED <<source, unsound, built, pc, runs, k, ci, starts, cutsEver>>

\* Mutant: only the directories this invocation will write are removed.
WipeEndOwnPasses ==
    /\ pc = "wipe"
    /\ \A f \in DOMAIN files : f[1] > runs
    /\ ci' = 1
    /\ pc' = "build"
    /\ UNCHANGED <<source, unsound, built, files, runs, k, starts, complete, lost>>

\* rm removed everything, and the script goes on to the builds.
WipeEnd ==
    /\ pc = "wipe"
    /\ DOMAIN files = {}
    /\ ci' = 1
    /\ pc' = "build"
    /\ UNCHANGED <<source, unsound, built, files, runs, k, starts, complete, lost>>

\* build.sh: the compiler reads the source as it is now.
BuildReads ==
    /\ pc = "build"
    /\ read' = source
    /\ pc' = "link"
    /\ UNCHANGED <<source, unsound, bin, behind, missed, files, runs, k, ci,
                   starts, complete, lost>>

\* It writes the binary, which from now on is the newest file.
BuildWrites ==
    /\ pc = "link"
    /\ bin' = [bin EXCEPT ![cc] = read]
    /\ behind' = behind \ {cc}
    /\ missed' = IF read = source THEN missed \ {cc} ELSE missed \cup {cc}
    /\ pc' = "gate"
    /\ UNCHANGED <<source, unsound, read, files, runs, k, ci, starts, complete,
                   lost>>

\* Mutant: the exit status of the gate is ignored.
GateIgnored ==
    /\ pc = "gate"
    /\ IF ci < Len(CcList) THEN ci' = ci + 1 /\ pc' = "build" /\ UNCHANGED k
       ELSE ci' = 1 /\ k' = 1 /\ pc' = "open"
    /\ UNCHANGED <<source, unsound, built, files, runs, starts, complete, lost>>

\* benchmark --verify: a failure ends the script; after the last compiler the
\* passes begin.
Gate ==
    /\ pc = "gate"
    /\ IF <<cc, bin[cc]>> \in unsound THEN pc' = "idle" /\ UNCHANGED <<k, ci>>
       ELSE IF ci < Len(CcList) THEN ci' = ci + 1 /\ pc' = "build" /\ UNCHANGED k
       ELSE ci' = 1 /\ k' = 1 /\ pc' = "open"
    /\ UNCHANGED <<source, unsound, built, files, runs, starts, complete, lost>>

\* The shell creates the csv, empty, before the binary starts.
OpenCsv ==
    /\ pc = "open"
    /\ files' = WithRows({})
    /\ pc' = "measure"
    /\ UNCHANGED <<source, unsound, built, runs, k, ci, starts, complete, lost>>

\* The binary has measured everything and flushes its first buffer.
WriteHead ==
    /\ pc = "measure"
    /\ files' = WithRows({"head"})
    /\ pc' = "exit"
    /\ UNCHANGED <<source, unsound, built, runs, k, ci, starts, complete, lost>>

\* What follows a measurement: the next compiler, the next pass, or the end.
Advance ==
    \/ /\ ci < Len(CcList)
       /\ ci' = ci + 1 /\ pc' = "open"
       /\ UNCHANGED <<k, complete>>
    \/ /\ ci = Len(CcList) /\ k < runs
       /\ ci' = 1 /\ k' = k + 1 /\ pc' = "open"
       /\ UNCHANGED complete
    \/ /\ ci = Len(CcList) /\ k = runs
       /\ pc' = "idle" /\ complete' = runs
       /\ UNCHANGED <<ci, k>>

\* Mutants: a pass past RUNS; a pass short of RUNS; each build repeated in
\* place; a pass that is never counted.
WriteTailRunsOver ==
    /\ pc = "exit"
    /\ files' = WithRows(Rows)
    /\ \/ /\ ci < Len(CcList)
          /\ ci' = ci + 1 /\ pc' = "open"
          /\ UNCHANGED <<k, complete>>
       \/ /\ ci = Len(CcList) /\ k <= runs
          /\ ci' = 1 /\ k' = k + 1 /\ pc' = "open"
          /\ UNCHANGED complete
       \/ /\ ci = Len(CcList) /\ k > runs
          /\ pc' = "idle" /\ complete' = runs
          /\ UNCHANGED <<ci, k>>
    /\ UNCHANGED <<source, unsound, built, runs, starts, lost>>

WriteTailOnePassShort ==
    /\ pc = "exit"
    /\ files' = WithRows(Rows)
    /\ \/ /\ ci < Len(CcList)
          /\ ci' = ci + 1 /\ pc' = "open"
          /\ UNCHANGED <<k, complete>>
       \/ /\ ci = Len(CcList) /\ k + 1 < runs
          /\ ci' = 1 /\ k' = k + 1 /\ pc' = "open"
          /\ UNCHANGED complete
       \/ /\ ci = Len(CcList) /\ k + 1 >= runs
          /\ pc' = "idle" /\ complete' = runs
          /\ UNCHANGED <<ci, k>>
    /\ UNCHANGED <<source, unsound, built, runs, starts, lost>>

WriteTailInPlace ==
    /\ pc = "exit"
    /\ files' = WithRows(Rows)
    /\ \/ /\ k < runs
          /\ k' = k + 1 /\ pc' = "open"
          /\ UNCHANGED <<ci, complete>>
       \/ /\ ci < Len(CcList) /\ k = runs
          /\ ci' = ci + 1 /\ k' = 1 /\ pc' = "open"
          /\ UNCHANGED complete
       \/ /\ ci = Len(CcList) /\ k = runs
          /\ pc' = "idle" /\ complete' = runs
          /\ UNCHANGED <<ci, k>>
    /\ UNCHANGED <<source, unsound, built, runs, starts, lost>>

WriteTailUncounted ==
    /\ pc = "exit"
    /\ files' = WithRows(Rows)
    /\ ci' = (ci % Len(CcList)) + 1
    /\ pc' = "open"
    /\ UNCHANGED <<source, unsound, built, runs, k, starts, complete, lost>>

\* The binary flushes the rest and exits.
WriteTail ==
    /\ pc = "exit"
    /\ files' = WithRows(Rows)
    /\ Advance
    /\ UNCHANGED <<source, unsound, built, runs, starts, lost>>

\* Mutant: without set -e, the loop goes on after a measurement that failed.
MeasureFailsOn ==
    /\ pc = "measure"
    /\ Advance
    /\ UNCHANGED <<source, unsound, built, files, runs, starts, lost>>

\* A measurement fails (taskset has no such cpu, ...): set -e ends the script.
MeasureFails ==
    /\ pc = "measure"
    /\ pc' = "idle"
    /\ UNCHANGED <<source, unsound, built, files, runs, k, ci, starts, complete, lost>>

\* A full disk: report does not check what it prints, so the binary exits 0 with
\* the end of its csv, or all of it, lost.
OutputLost ==
    /\ pc \in {"measure", "exit"}
    /\ cutsEver < MaxCuts
    /\ cuts' = cuts \cup {<<k, cc>>}
    /\ cutsEver' = cutsEver + 1
    /\ Advance
    /\ UNCHANGED <<source, unsound, built, files, runs, starts>>

\* Anywhere else a command fails (a compiler is missing, a build breaks), or
\* the script is interrupted, wherever it is.
Stop ==
    /\ pc # "idle"
    /\ pc' = "idle"
    /\ UNCHANGED <<source, unsound, built, files, runs, k, ci, starts, complete, lost>>

\* Mutant: newest_source looks at the directory only, not at its files.
EditUnseen ==
    /\ source <= MaxEdits
    /\ source' = source + 1
    /\ UNCHANGED <<unsound, built, files, pc, runs, k, ci, starts, complete, lost>>

\* Somebody changes src/, whatever the script is doing.
Edit ==
    /\ source <= MaxEdits
    /\ source' = source + 1
    /\ behind' = {c \in Compilers : bin[c] # NoBinary}
    /\ UNCHANGED <<unsound, bin, read, missed, files, pc, runs, k, ci, starts,
                   complete, lost>>

\* Somebody changes the library, which the binaries are built from as well:
\* newest_source does not look at include/.
EditLibrary ==
    /\ source <= MaxEdits
    /\ source' = source + 1
    /\ missed' = missed \cup {c \in Compilers : bin[c] # NoBinary}
    /\ UNCHANGED <<unsound, bin, read, behind, files, pc, runs, k, ci, starts,
                   complete, lost>>

Script ==
    CheckInstalled \/ Wipe \/ WipeEnd \/ BuildReads \/ BuildWrites \/ Gate
    \/ OpenCsv \/ WriteHead \/ WriteTail

\* Nobody starts the script again.
Rest == pc = "idle" /\ starts = MaxStarts /\ UNCHANGED vars

Next ==
    \/ \E r \in 1 .. MaxRuns : Start(r)
    \/ Script \/ MeasureFails \/ OutputLost \/ Stop
    \/ Edit \/ EditLibrary \/ Rest

\* A script that was started goes on; nothing makes anybody start it, stop it,
\* or change the source.
Spec == Init /\ [][Next]_vars /\ WF_vars(Script)

-----------------------------------------------------------------------------
(* report.py: what it makes of the files.                                   *)

\* The files of a column, and the passes that have a given row of it.
Paths(c) == {f \in DOMAIN files : f[2] = c}

Loaded(c, row) == {f \in Paths(c) : row \in files[f].rows}

\* It stops with a message when a column has no file, or a row of the tables
\* has no value in any.
Refuses ==
    \E c \in Compilers : Paths(c) = {} \/ \E row \in Rows : Loaded(c, row) = {}

\* passes = min(counts), the number every caption states.
Passes == Min({Cardinality(Paths(c)) : c \in Compilers})

-----------------------------------------------------------------------------
TypeOK ==
    /\ source \in Versions
    /\ unsound \subseteq Compilers \X Versions
    /\ bin \in [Compilers -> Versions \cup {NoBinary}]
    /\ read \in Versions
    /\ behind \subseteq Compilers /\ missed \subseteq Compilers
    /\ DOMAIN files \subseteq (1 .. MaxRuns) \X Compilers
    /\ \A f \in DOMAIN files : files[f] \in File
    /\ pc \in {"idle", "installed", "wipe", "build", "link", "gate", "open",
              "measure", "exit"}
    /\ runs \in 1 .. MaxRuns
    /\ k \in 1 .. runs \/ pc \in {"idle", "installed", "wipe", "build", "link", "gate"}
    /\ ci \in 1 .. Len(CcList)
    /\ starts \in 0 .. MaxStarts
    /\ complete \in 0 .. MaxRuns
    /\ cuts \subseteq DOMAIN files
    /\ cutsEver \in 0 .. MaxCuts

\* report.py never blends invocations or versions of the code into a median:
\* at any moment, all files are of one invocation, and those of a column come
\* from one build, however often the script was stopped and started again with
\* fewer passes on changed source.
NoStaleBlend ==
    \A f, g \in DOMAIN files :
        /\ files[f].start = files[g].start
        /\ f[2] = g[2] => files[f].version = files[g].version

\* Nothing is measured before EVERY build of the invocation passed the gate,
\* and no file comes from a build that fails it.
MeasuredBuildsSound ==
    /\ pc \in {"open", "measure", "exit"} =>
          \A c \in Compilers : <<c, bin[c]>> \notin unsound
    /\ \A f \in DOMAIN files : <<f[2], files[f].version>> \notin unsound

\* The passes a column was measured in, complete or cut.
Measured(c) == Loaded(c, "tail") \cup (cuts \cap Paths(c))

\* The passes interleave the builds: at no moment of the measurements is one
\* column more than one pass ahead of another, so drift lands on all alike.
Interleaved ==
    pc \in {"open", "measure", "exit"} =>
        \A c, d \in Compilers :
            Cardinality(Measured(c)) <= Cardinality(Measured(d)) + 1

\* Once the script has run to its end, and until the next one removes its
\* files, every column has a file of each of the RUNS passes, which is what the
\* captions say, and the only files short of a row are those a full disk cut:
\* nothing else that a measurement does, or fails to do, leaves a short column
\* behind.
CompleteIsExact ==
    complete > 0 =>
        /\ \A c \in Compilers : Cardinality(Paths(c)) = complete
        /\ Passes = complete
        /\ \A c \in Compilers : Paths(c) \ Loaded(c, "tail") = cuts \cap Paths(c)

\* Whatever was interrupted, a caption never states more than one pass beyond
\* the values its medians are taken from, those a full disk cut aside.
CaptionWithinOne ==
    ~Refuses => \A c \in Compilers, row \in Rows :
                    Cardinality(Loaded(c, row) \cup (cuts \cap Paths(c))) >= Passes - 1

\* asmtab.py warns of a binary whose code is not that of the source, unless the
\* change was made while it was built, or to the library; and it warns of no
\* other.
StaleWarned ==
    \A c \in Compilers :
        /\ bin[c] \notin {NoBinary, source} => c \in behind \cup missed
        /\ c \in behind \cup missed => bin[c] \notin {NoBinary, source}

\* A script that was started ends.
Settles == []<>(pc = "idle")

\* report.py's comment on min(counts): "after an interrupted matrix.sh, counting
\* run dirs on disk overstated the data actually loaded".  When the script does
\* not run, the number it states now is no more than the values loaded.
CaptionNotOverstated ==
    pc = "idle" /\ ~Refuses =>
        \A c \in Compilers, row \in Rows : Cardinality(Loaded(c, row)) >= Passes
=============================================================================
