---------------------------- MODULE MatrixProofs ----------------------------
(***************************************************************************)
(* The pass driver, for every list of compilers, any number of passes,     *)
(* invocations, changes of the source and cut files, stopped anywhere.     *)
(***************************************************************************)
EXTENDS Matrix, FiniteSetTheorems, WellFoundedInduction, TLAPS

\* The phases in which passes are measured.
Measuring == pc \in {"open", "measure", "exit"}

\* The builds of this invocation that exist, and those that were gated.
Places  == 1 .. Len(CcList)
Built   == {n \in Places : Measuring \/ n < ci \/ (n = ci /\ pc = "gate")}
Gated   == {n \in Places : Measuring \/ n < ci}

\* A script that runs was started.  A gated build exists and is sound; no file
\* exists before the measurements.
ScriptInv ==
    /\ pc # "idle" => starts >= 1
    /\ pc \in {"build", "link", "gate"} \/ Measuring =>
          /\ \A n \in Built : bin[CcList[n]] # NoBinary
          /\ \A n \in Gated : <<CcList[n], bin[CcList[n]]>> \notin unsound
    /\ pc \in {"build", "link", "gate"} => DOMAIN files = {}

\* While passes are measured, every file is of this invocation and its builds.
FreshInv ==
    /\ Measuring => \A f \in DOMAIN files :
          files[f].start = starts /\ files[f].version = bin[f[2]]
    /\ NoStaleBlend
    /\ \A f \in DOMAIN files : <<f[2], files[f].version>> \notin unsound

\* No build is newer than the source it was made from.
AgeInv ==
    /\ read <= source
    /\ \A c \in Compilers : bin[c] <= source
    /\ StaleWarned

\* The passes completed for the n-th compiler.
DonePasses(n) == IF n < ci THEN k ELSE k - 1

\* A file holds all rows, or was cut.
Full(f) == files[f].rows = Rows \/ f \in cuts

\* The files are those of the measurements made, in order, each full or cut;
\* and the one being measured.
OrderInv ==
    Measuring =>
        /\ complete = 0
        /\ DOMAIN files =
              {f \in Nat \X Compilers : \E n \in Places :
                  f[2] = CcList[n] /\ f[1] \in 1 .. DonePasses(n)}
              \cup (IF pc = "open" THEN {} ELSE {<<k, cc>>})
        /\ \A f \in DOMAIN files : f # <<k, cc>> => Full(f)
        /\ pc # "open" => ~Full(<<k, cc>>)

\* At any time, at most one file is neither full nor cut.
ShortInv ==
    \E f \in Nat \X Compilers : \A g \in DOMAIN files : g # f => Full(g)

\* After a complete run, and until its files are removed.
CompleteInv ==
    complete > 0 =>
        /\ pc \in {"idle", "installed", "wipe"}
        /\ DOMAIN files = (1 .. complete) \X Compilers
        /\ \A f \in DOMAIN files : Full(f)

IInv ==
    /\ TypeOK /\ ScriptInv /\ FreshInv /\ AgeInv
    /\ OrderInv /\ ShortInv /\ CompleteInv
-----------------------------------------------------------------------------
LEMMA CcTyped ==
    ASSUME TypeOK
    PROVE  cc \in Compilers /\ ci \in Places
BY DEF TypeOK, cc, Compilers, Places

\* The pass of a compiler whose turn has come was not measured before.
LEMMA NotYetMeasured ==
    ASSUME TypeOK, OrderInv, Measuring
    PROVE  /\ <<k, cc>> \in Nat \X Compilers
           /\ pc = "open" => <<k, cc>> \notin DOMAIN files
<1>1. cc \in Compilers /\ ci \in Places /\ k \in 1 .. runs /\ runs \in Nat
  BY CcTyped DEF TypeOK, Measuring
<1>2. \A n \in Places : CcList[n] = cc => DonePasses(n) = k - 1
  BY <1>1, MatrixAssumption DEF Places, cc, DonePasses
<1>. QED
  BY <1>1, <1>2 DEF OrderInv

\* Writing to the csv of the current measurement.
LEMMA Written ==
    ASSUME IInv, Measuring, NEW R \in {{}, {"head"}, Rows}, files' = WithRows(R),
           UNCHANGED <<source, unsound, built, starts>>
    PROVE  /\ DOMAIN files' = DOMAIN files \cup {<<k, cc>>}
           /\ \A f \in DOMAIN files : f # <<k, cc>> => files'[f] = files[f]
           /\ files'[<<k, cc>>].rows = R
           /\ DOMAIN files' \subseteq (1 .. MaxRuns) \X Compilers
           /\ \A f \in DOMAIN files' : files'[f] \in File
           /\ FreshInv' /\ AgeInv'
<1>1. /\ cc \in Compilers /\ ci \in Places /\ k \in 1 .. runs /\ runs \in 1 .. MaxRuns
      /\ starts \in 1 .. MaxStarts
  BY CcTyped, MatrixAssumption DEF IInv, TypeOK, Measuring, ScriptInv
<1>2. bin[cc] \in Versions /\ <<cc, bin[cc]>> \notin unsound
  BY <1>1 DEF IInv, TypeOK, ScriptInv, Measuring, Built, Gated, cc
<1>. DEFINE new == [rows |-> R, version |-> bin[cc], start |-> starts]
<1>3. new \in File
  BY <1>1, <1>2 DEF File
<1>4. /\ DOMAIN files' = DOMAIN files \cup {<<k, cc>>}
      /\ files'[<<k, cc>>] = new
      /\ \A f \in DOMAIN files : f # <<k, cc>> => files'[f] = files[f]
  BY DEF WithRows
<1>5. /\ \A f \in DOMAIN files' : files'[f] \in File
      /\ DOMAIN files' \subseteq (1 .. MaxRuns) \X Compilers
  <2>1. <<k, cc>> \in (1 .. MaxRuns) \X Compilers
    BY <1>1, MatrixAssumption
  <2>. QED
    BY <1>3, <1>4, <2>1 DEF IInv, TypeOK
<1>6. \A f \in DOMAIN files' :
          /\ files'[f].start = starts /\ files'[f].version = bin[f[2]]
          /\ <<f[2], files'[f].version>> \notin unsound
  <2>. SUFFICES ASSUME NEW f \in DOMAIN files'
                PROVE  /\ files'[f].start = starts /\ files'[f].version = bin[f[2]]
                       /\ <<f[2], files'[f].version>> \notin unsound
    OBVIOUS
  <2>1. CASE f = <<k, cc>>
    BY <1>2, <1>4, <2>1
  <2>2. CASE f # <<k, cc>>
    BY <1>4, <2>2 DEF IInv, FreshInv
  <2>. QED
    BY <2>1, <2>2
<1>7. FreshInv'
  <2>1. UNCHANGED <<unsound, bin, starts>>
    BY DEF built
  <2>2. NoStaleBlend'
    <3>. SUFFICES ASSUME NEW f \in DOMAIN files', NEW g \in DOMAIN files'
                  PROVE  /\ files'[f].start = files'[g].start
                         /\ f[2] = g[2] => files'[f].version = files'[g].version
      BY DEF NoStaleBlend
    <3>. QED
      BY <1>6
  <2>. QED
    BY <1>6, <2>1, <2>2 DEF FreshInv
<1>8. AgeInv'
  BY DEF IInv, AgeInv, StaleWarned, built
<1>. QED
  BY <1>4, <1>5, <1>7, <1>8

\* After a measurement: its place in the order is taken.
LEMMA Advanced ==
    ASSUME IInv, pc \in {"measure", "exit"}, Advance, UNCHANGED runs,
           DOMAIN files' = DOMAIN files, \A f \in DOMAIN files : Full(f)'
    PROVE  /\ OrderInv' /\ ShortInv' /\ CompleteInv'
           /\ ci' \in Places /\ complete' \in 0 .. MaxRuns
           /\ k' \in 1 .. runs /\ pc' \in {"open", "idle"}
<1>. DEFINE after(n) == IF n <= ci THEN k ELSE k - 1
            files1 == {f \in Nat \X Compilers : \E n \in Places :
                          f[2] = CcList[n] /\ f[1] \in 1 .. after(n)}
<1>1. /\ cc \in Compilers /\ ci \in Places /\ k \in 1 .. runs /\ runs \in 1 .. MaxRuns
      /\ \A n \in Places : CcList[n] = cc => n = ci
  BY CcTyped, MatrixAssumption DEF IInv, TypeOK, Places, cc
<1>2. /\ complete = 0
      /\ DOMAIN files = {f \in Nat \X Compilers : \E n \in Places :
                            f[2] = CcList[n] /\ f[1] \in 1 .. DonePasses(n)}
                        \cup {<<k, cc>>}
  BY DEF IInv, OrderInv, Measuring
<1>3. DOMAIN files = files1
  <2>1. ASSUME NEW f \in DOMAIN files PROVE f \in files1
    <3>1. CASE f = <<k, cc>>
      <4>1. f \in Nat \X Compilers /\ f[2] = CcList[ci] /\ f[1] \in 1 .. after(ci)
        BY <1>1, <3>1 DEF cc, Places
      <4>. QED
        BY <1>1, <4>1
    <3>2. CASE f # <<k, cc>>
      BY <1>1, <1>2, <3>2 DEF DonePasses, Places
    <3>. QED
      BY <3>1, <3>2
  <2>2. ASSUME NEW f \in files1 PROVE f \in DOMAIN files
    <3>1. PICK n \in Places : f[2] = CcList[n] /\ f[1] \in 1 .. after(n)
      OBVIOUS
    <3>2. f[1] \in 1 .. DonePasses(n) \/ (n = ci /\ f[1] = k)
      BY <1>1, <3>1 DEF DonePasses, Places
    <3>3. f = <<f[1], f[2]>>
      OBVIOUS
    <3>. QED
      BY <1>2, <3>1, <3>2, <3>3 DEF cc
  <2>. QED
    BY <2>1, <2>2
<1>4. /\ ci' \in Places /\ complete' \in 0 .. MaxRuns
      /\ k' \in 1 .. runs /\ pc' \in {"open", "idle"}
  BY <1>1, <1>2, MatrixAssumption DEF Advance, Places
<1>5. ShortInv'
  <2>1. <<k, cc>> \in Nat \X Compilers /\ \A f \in DOMAIN files' : Full(f)'
    BY <1>1
  <2>. QED
    BY <2>1 DEF ShortInv
<1>6. OrderInv'
  <2>. SUFFICES ASSUME Measuring' PROVE OrderInv'
    BY DEF OrderInv
  <2>1. pc' = "open" /\ complete' = 0 /\ \A n \in Places : DonePasses(n)' = after(n)
    BY <1>1, <1>2 DEF Advance, Measuring, DonePasses, Places
  <2>. QED
    BY <1>3, <2>1 DEF OrderInv
<1>7. CompleteInv'
  <2>. SUFFICES ASSUME complete' > 0 PROVE CompleteInv'
    BY DEF CompleteInv
  <2>1. pc' = "idle" /\ complete' = runs /\ \A n \in Places : after(n) = runs
    BY <1>1, <1>2 DEF Advance, Places
  <2>2. files1 = (1 .. runs) \X Compilers
    BY <1>1, <2>1 DEF Places, Compilers
  <2>. QED
    BY <1>3, <2>1, <2>2 DEF CompleteInv
<1>. QED
  BY <1>4, <1>5, <1>6, <1>7

LEMMA InitIInv == Init => IInv
<1>. SUFFICES ASSUME Init PROVE IInv
  OBVIOUS
<1>1. Len(CcList) \in Nat /\ 1 \in 1 .. Len(CcList) /\ CcList[1] \in Compilers
  BY MatrixAssumption DEF Compilers
<1>2. DOMAIN files = {}
  BY DEF Init
<1>3. TypeOK
  BY <1>1, <1>2, MatrixAssumption DEF Init, TypeOK, Versions, NoBinary
<1>4. ShortInv
  <2>1. <<1, CcList[1]>> \in Nat \X Compilers
    BY <1>1
  <2>. QED
    BY <1>2, <2>1 DEF ShortInv
<1>. QED
  BY <1>2, <1>3, <1>4, MatrixAssumption
  DEF Init, IInv, ScriptInv, FreshInv, AgeInv, OrderInv, CompleteInv, Measuring,
      NoStaleBlend, StaleWarned, NoBinary, Versions

LEMMA NextIInv == IInv /\ [Next]_vars => IInv'
<1>. SUFFICES ASSUME IInv, [Next]_vars PROVE IInv'
  OBVIOUS
<1>. USE DEF IInv
<1>0. Compilers' = Compilers /\ cc \in Compilers /\ ci \in Places
  BY CcTyped DEF Compilers
<1>1. CASE \E r \in 1 .. MaxRuns : Start(r)
  <2>1. TypeOK'
    BY <1>1, MatrixAssumption DEF Start, TypeOK, built, lost
  <2>2. ScriptInv' /\ FreshInv' /\ AgeInv'
    BY <1>1, MatrixAssumption DEF Start, TypeOK, built, lost, ScriptInv, FreshInv,
       AgeInv, Measuring, NoStaleBlend, StaleWarned
  <2>3. OrderInv' /\ ShortInv' /\ CompleteInv'
    BY <1>1, MatrixAssumption DEF Start, built, lost, OrderInv, ShortInv,
       CompleteInv, Measuring, Full
  <2>. QED
    BY <2>1, <2>2, <2>3
<1>2. CASE CheckInstalled
  <2>1. TypeOK'
    BY <1>2 DEF CheckInstalled, TypeOK, built, lost
  <2>2. ScriptInv' /\ FreshInv' /\ AgeInv'
    BY <1>2 DEF CheckInstalled, built, lost, ScriptInv, FreshInv, AgeInv, Measuring,
       NoStaleBlend, StaleWarned
  <2>3. OrderInv' /\ ShortInv' /\ CompleteInv'
    BY <1>2 DEF CheckInstalled, built, lost, OrderInv, ShortInv, CompleteInv,
       Measuring, Full
  <2>. QED
    BY <2>1, <2>2, <2>3
<1>3. CASE Wipe
  <2>1. PICK f \in DOMAIN files :
            /\ files' = [g \in DOMAIN files \ {f} |-> files[g]]
            /\ cuts' = cuts \ {f}
    BY <1>3 DEF Wipe
  <2>2. DOMAIN files' = DOMAIN files \ {f} /\ \A g \in DOMAIN files' : files'[g] = files[g]
    BY <2>1
  <2>3. TypeOK'
    <3>1. /\ DOMAIN files' \subseteq (1 .. MaxRuns) \X Compilers
          /\ \A g \in DOMAIN files' : files'[g] \in File
          /\ cuts' \subseteq DOMAIN files'
      BY <2>1, <2>2 DEF TypeOK
    <3>. QED
      BY <1>3, <3>1, MatrixAssumption DEF Wipe, TypeOK, built
  <2>4. ScriptInv' /\ FreshInv' /\ AgeInv'
    BY <1>3, <2>2 DEF Wipe, built, ScriptInv, FreshInv, AgeInv, Measuring,
       NoStaleBlend, StaleWarned
  <2>5. ShortInv'
    BY <2>1, <2>2 DEF ShortInv, Full
  <2>. QED
    BY <1>3, <2>3, <2>4, <2>5 DEF Wipe, OrderInv, CompleteInv, Measuring
<1>4. CASE WipeEnd
  <2>0. 1 \in Places
    BY MatrixAssumption DEF Places
  <2>1. TypeOK'
    BY <1>4, <2>0 DEF WipeEnd, TypeOK, built, lost, Places
  <2>2. ScriptInv'
    BY <1>4, <2>0 DEF WipeEnd, built, ScriptInv, Measuring, Built, Gated, Places
  <2>3. FreshInv' /\ AgeInv' /\ OrderInv' /\ ShortInv'
    BY <1>4 DEF WipeEnd, built, lost, FreshInv, AgeInv, Measuring, NoStaleBlend,
       StaleWarned, OrderInv, ShortInv, Full
  <2>4. complete = 0
    <3>1. CcList[1] \in Compilers
      BY <2>0 DEF Places, Compilers
    <3>2. complete > 0 => <<1, CcList[1]>> \in (1 .. complete) \X Compilers
      BY <3>1 DEF TypeOK
    <3>. QED
      BY <1>4, <3>2 DEF WipeEnd, CompleteInv, TypeOK
  <2>. QED
    BY <1>4, <2>1, <2>2, <2>3, <2>4 DEF WipeEnd, CompleteInv
<1>5. CASE BuildReads
  <2>1. TypeOK'
    BY <1>5 DEF BuildReads, TypeOK, lost
  <2>2. ScriptInv' /\ FreshInv' /\ AgeInv'
    BY <1>5 DEF BuildReads, TypeOK, Versions, lost, ScriptInv, FreshInv, AgeInv, Measuring,
       NoStaleBlend, StaleWarned, Built, Gated
  <2>3. OrderInv' /\ ShortInv' /\ CompleteInv'
    BY <1>5 DEF BuildReads, lost, OrderInv, ShortInv, CompleteInv, Measuring, Full
  <2>. QED
    BY <2>1, <2>2, <2>3
<1>6. CASE BuildWrites
  <2>1. /\ \A c \in Compilers : bin'[c] = IF c = cc THEN read ELSE bin[c]
        /\ bin' \in [Compilers -> Versions \cup {NoBinary}]
    BY <1>0, <1>6 DEF BuildWrites, TypeOK
  <2>2. TypeOK'
    BY <1>0, <1>6, <2>1 DEF BuildWrites, TypeOK, lost
  <2>3. \A n \in Places : /\ CcList[n] \in Compilers
                          /\ CcList[n] = cc => n = ci
    BY <1>0, MatrixAssumption DEF Places, Compilers, cc
  <2>4. ScriptInv'
    <3>1. \A n \in Places : n < ci =>
              /\ bin'[CcList[n]] = bin[CcList[n]]
              /\ bin[CcList[n]] # NoBinary
              /\ <<CcList[n], bin[CcList[n]]>> \notin unsound
      BY <1>6, <2>1, <2>3 DEF BuildWrites, ScriptInv, Built, Gated, Places
    <3>2. bin'[CcList[ci]] # NoBinary
      BY <1>0, <2>1 DEF TypeOK, Versions, NoBinary, cc
    <3>3. /\ ~Measuring' /\ pc' = "gate" /\ UNCHANGED <<ci, unsound, files, starts>>
          /\ starts >= 1 /\ DOMAIN files = {}
      BY <1>6 DEF BuildWrites, ScriptInv, Measuring
    <3>4. /\ Built' = {n \in Places : n < ci \/ n = ci}
          /\ Gated' = {n \in Places : n < ci}
      BY <3>3 DEF Built, Gated
    <3>. QED
      BY <3>1, <3>2, <3>3, <3>4 DEF ScriptInv
  <2>5. AgeInv'
    BY <1>0, <1>6, <2>1 DEF BuildWrites, AgeInv, StaleWarned, TypeOK, Versions, NoBinary
  <2>6. FreshInv' /\ OrderInv' /\ ShortInv' /\ CompleteInv'
    BY <1>6 DEF BuildWrites, lost, ScriptInv, FreshInv, OrderInv, ShortInv, CompleteInv,
       Measuring, NoStaleBlend, Full
  <2>. QED
    BY <2>2, <2>4, <2>5, <2>6
<1>7. CASE Gate
  <2>1. TypeOK'
    <3>1. ci' \in Places
      BY <1>0, <1>7, MatrixAssumption DEF Gate, Places
    <3>2. k' \in 1 .. runs \/ pc' \in {"idle", "build"}
      BY <1>7 DEF Gate, TypeOK
    <3>. QED
      BY <1>7, <3>1, <3>2 DEF Gate, TypeOK, built, lost, Places
  <2>2. ScriptInv'
    BY <1>0, <1>7, MatrixAssumption
    DEF Gate, ScriptInv, Built, Gated, Measuring, Places, cc, built
  <2>3. AgeInv' /\ FreshInv' /\ ShortInv' /\ CompleteInv'
    BY <1>7 DEF Gate, built, lost, AgeInv, StaleWarned, ScriptInv, FreshInv, ShortInv,
       CompleteInv, NoStaleBlend, Measuring, Full
  <2>4. OrderInv'
    <3>. SUFFICES ASSUME Measuring' PROVE OrderInv'
      BY DEF OrderInv
    <3>1. /\ ci = Len(CcList) /\ ci' = 1 /\ k' = 1 /\ pc' = "open"
          /\ DOMAIN files' = {}
      BY <1>0, <1>7 DEF Gate, Measuring, ScriptInv, Places
    <3>2. \A n \in Places : DonePasses(n)' = 0
      BY <3>1 DEF DonePasses, Places
    <3>3. complete' = 0
      BY <1>7 DEF Gate, CompleteInv, TypeOK
    <3>. QED
      BY <3>1, <3>2, <3>3 DEF OrderInv
  <2>. QED
    BY <2>1, <2>2, <2>3, <2>4
<1>8. CASE OpenCsv
  <2>1. /\ DOMAIN files' = DOMAIN files \cup {<<k, cc>>}
        /\ \A f \in DOMAIN files : f # <<k, cc>> => files'[f] = files[f]
        /\ files'[<<k, cc>>].rows = {}
        /\ DOMAIN files' \subseteq (1 .. MaxRuns) \X Compilers
        /\ \A f \in DOMAIN files' : files'[f] \in File
        /\ FreshInv' /\ AgeInv'
    BY <1>8, Written DEF OpenCsv, Measuring, built
  <2>2. <<k, cc>> \notin DOMAIN files /\ <<k, cc>> \in Nat \X Compilers
    BY <1>0, <1>8, NotYetMeasured DEF OpenCsv, Measuring
  <2>3. TypeOK'
    BY <1>8, <2>1 DEF OpenCsv, TypeOK, built, lost
  <2>4. ScriptInv'
    BY <1>8 DEF OpenCsv, ScriptInv, Built, Gated, Measuring, built
  <2>5. /\ \A f \in DOMAIN files : Full(f)'
        /\ ~Full(<<k, cc>>)'
    <3>1. \A f \in DOMAIN files : f # <<k, cc>> /\ Full(f)
      BY <1>8, <2>2 DEF OpenCsv, OrderInv, Measuring
    <3>2. <<k, cc>> \notin cuts
      BY <2>2 DEF TypeOK
    <3>3. cuts' = cuts
      BY <1>8 DEF OpenCsv, lost
    <3>4. {} # Rows
      BY DEF Rows
    <3>. QED
      BY <1>8, <2>1, <3>1, <3>2, <3>3, <3>4 DEF OpenCsv, Full, cc
  <2>6. OrderInv' /\ ShortInv'
    BY <1>8, <2>1, <2>2, <2>5 DEF OpenCsv, OrderInv, ShortInv, Measuring, DonePasses, cc
  <2>7. CompleteInv'
    BY <1>8 DEF OpenCsv, OrderInv, Measuring, CompleteInv
  <2>. QED
    BY <2>1, <2>3, <2>4, <2>6, <2>7
<1>9. CASE WriteHead
  <2>1. /\ <<k, cc>> \in DOMAIN files
        /\ \A f \in DOMAIN files : f # <<k, cc>> => Full(f)
        /\ ~Full(<<k, cc>>)
    BY <1>9 DEF WriteHead, OrderInv, Measuring
  <2>2. /\ DOMAIN files' = DOMAIN files
        /\ \A f \in DOMAIN files : f # <<k, cc>> => files'[f] = files[f]
        /\ files'[<<k, cc>>].rows = {"head"}
        /\ DOMAIN files' \subseteq (1 .. MaxRuns) \X Compilers
        /\ \A f \in DOMAIN files' : files'[f] \in File
        /\ FreshInv' /\ AgeInv'
    BY <1>9, <2>1, Written DEF WriteHead, Measuring, built
  <2>3. TypeOK'
    BY <1>9, <2>2 DEF WriteHead, TypeOK, built, lost
  <2>4. ScriptInv'
    BY <1>9 DEF WriteHead, ScriptInv, Built, Gated, Measuring, built
  <2>5. /\ \A f \in DOMAIN files : f # <<k, cc>> => Full(f)'
        /\ ~Full(<<k, cc>>)'
    <3>1. cuts' = cuts
      BY <1>9 DEF WriteHead, lost
    <3>2. {"head"} # Rows
      <4>1. "tail" \in Rows /\ "tail" \notin {"head"}
        BY DEF Rows
      <4>. QED
        BY <4>1
    <3>. QED
      BY <1>9, <2>1, <2>2, <3>1, <3>2 DEF WriteHead, Full, cc
  <2>6. OrderInv'
    BY <1>9, <2>2, <2>5 DEF WriteHead, OrderInv, Measuring, DonePasses, cc
  <2>7. ShortInv'
    BY <1>0, <1>9, <2>2, <2>5, NotYetMeasured DEF WriteHead, Measuring, ShortInv
  <2>8. CompleteInv'
    BY <1>9 DEF WriteHead, OrderInv, Measuring, CompleteInv
  <2>. QED
    BY <2>2, <2>3, <2>4, <2>6, <2>7, <2>8
<1>10. CASE WriteTail
  <2>1. /\ <<k, cc>> \in DOMAIN files
        /\ \A f \in DOMAIN files : f # <<k, cc>> => Full(f)
    BY <1>10 DEF WriteTail, OrderInv, Measuring
  <2>2. /\ DOMAIN files' = DOMAIN files
        /\ \A f \in DOMAIN files : f # <<k, cc>> => files'[f] = files[f]
        /\ files'[<<k, cc>>].rows = Rows
        /\ DOMAIN files' \subseteq (1 .. MaxRuns) \X Compilers
        /\ \A f \in DOMAIN files' : files'[f] \in File
        /\ FreshInv' /\ AgeInv'
    BY <1>10, <2>1, Written DEF WriteTail, Measuring, built
  <2>3. \A f \in DOMAIN files : Full(f)'
    BY <1>10, <2>1, <2>2 DEF WriteTail, lost, Full
  <2>4. /\ OrderInv' /\ ShortInv' /\ CompleteInv'
        /\ ci' \in Places /\ complete' \in 0 .. MaxRuns
        /\ k' \in 1 .. runs /\ pc' \in {"open", "idle"}
    BY <1>10, <2>2, <2>3, Advanced DEF WriteTail
  <2>5. TypeOK'
    BY <1>10, <2>2, <2>4 DEF WriteTail, TypeOK, built, lost, Places
  <2>6. ScriptInv'
    BY <1>10, <2>4 DEF WriteTail, ScriptInv, Built, Gated, Measuring, built
  <2>. QED
    BY <2>2, <2>4, <2>5, <2>6
<1>11. CASE OutputLost
  <2>1. /\ <<k, cc>> \in DOMAIN files
        /\ \A f \in DOMAIN files : f # <<k, cc>> => Full(f)
    BY <1>11 DEF OutputLost, OrderInv, Measuring
  <2>2. \A f \in DOMAIN files : Full(f)'
    BY <1>11, <2>1 DEF OutputLost, Full
  <2>3. /\ OrderInv' /\ ShortInv' /\ CompleteInv'
        /\ ci' \in Places /\ complete' \in 0 .. MaxRuns
        /\ k' \in 1 .. runs /\ pc' \in {"open", "idle"}
    BY <1>11, <2>2, Advanced DEF OutputLost
  <2>4. TypeOK'
    <3>1. cuts' \subseteq DOMAIN files' /\ cutsEver' \in 0 .. MaxCuts
      BY <1>11, <2>1, MatrixAssumption DEF OutputLost, TypeOK
    <3>2. UNCHANGED <<source, unsound, bin, read, behind, missed, files, runs, starts>>
      BY <1>11 DEF OutputLost, built
    <3>. QED
      BY <2>3, <3>1, <3>2 DEF TypeOK, Places
  <2>5. ScriptInv' /\ FreshInv' /\ AgeInv'
    BY <1>11, <2>3 DEF OutputLost, ScriptInv, Built, Gated, Measuring, built,
       FreshInv, NoStaleBlend, AgeInv, StaleWarned
  <2>. QED
    BY <2>3, <2>4, <2>5
<1>12. CASE MeasureFails \/ Stop
  <2>1. TypeOK'
    BY <1>12 DEF MeasureFails, Stop, TypeOK, built, lost
  <2>2. ScriptInv' /\ FreshInv' /\ AgeInv'
    BY <1>12 DEF MeasureFails, Stop, built, lost, ScriptInv, FreshInv, AgeInv,
       Measuring, NoStaleBlend, StaleWarned
  <2>3. OrderInv' /\ ShortInv' /\ CompleteInv'
    BY <1>12 DEF MeasureFails, Stop, built, lost, OrderInv, ShortInv, CompleteInv,
       Measuring, Full
  <2>. QED
    BY <2>1, <2>2, <2>3
<1>13. CASE Edit \/ EditLibrary
  <2>1. TypeOK'
    <3>1. source' \in Versions
      BY <1>13, MatrixAssumption DEF Edit, EditLibrary, TypeOK, Versions
    <3>2. behind' \subseteq Compilers /\ missed' \subseteq Compilers
      BY <1>13 DEF Edit, EditLibrary, TypeOK
    <3>3. UNCHANGED <<unsound, bin, read, files, pc, runs, k, ci, starts, complete,
                      cuts, cutsEver>>
      BY <1>13 DEF Edit, EditLibrary, lost
    <3>. QED
      BY <3>1, <3>2, <3>3 DEF TypeOK
  <2>2. AgeInv'
    BY <1>13 DEF Edit, EditLibrary, TypeOK, Versions, NoBinary, AgeInv, StaleWarned
  <2>3. ScriptInv' /\ FreshInv'
    BY <1>13 DEF Edit, EditLibrary, built, lost, ScriptInv, FreshInv,
       Measuring, Built, Gated, NoStaleBlend
  <2>4. UNCHANGED <<files, pc, k, ci, complete, cuts>>
    BY <1>13 DEF Edit, EditLibrary, lost
  <2>5. OrderInv'
    BY <2>4 DEF OrderInv, Measuring, Full, DonePasses, cc
  <2>6. ShortInv' /\ CompleteInv'
    BY <2>4 DEF ShortInv, CompleteInv, Full
  <2>. QED
    BY <2>1, <2>2, <2>3, <2>5, <2>6
<1>14. CASE UNCHANGED vars
  <2>1. TypeOK' /\ ScriptInv' /\ FreshInv' /\ AgeInv'
    BY <1>14 DEF vars, built, lost, TypeOK, ScriptInv, FreshInv, AgeInv, Measuring,
       Built, Gated, NoStaleBlend, StaleWarned
  <2>2. OrderInv' /\ ShortInv' /\ CompleteInv'
    BY <1>14 DEF vars, built, lost, OrderInv, ShortInv, CompleteInv, Measuring, Full,
       DonePasses, cc
  <2>. QED
    BY <2>1, <2>2
<1>. QED
  BY <1>1, <1>2, <1>3, <1>4, <1>5, <1>6, <1>7, <1>8, <1>9, <1>10, <1>11, <1>12,
     <1>13, <1>14 DEF Next, Script, Rest

LEMMA Inductive == Spec => []IInv
BY InitIInv, NextIInv, PTL DEF Spec
-----------------------------------------------------------------------------
\* The driver's state stays well typed; no pass past RUNS is ever begun.
THEOREM MatrixTypeOK == Spec => []TypeOK
BY Inductive, PTL DEF IInv

\* No median is taken over files of two invocations or two builds of a column.
THEOREM NoBlend == Spec => []NoStaleBlend
BY Inductive, PTL DEF IInv, FreshInv

\* Nothing is measured before every build of the invocation passed its gate.
THEOREM OnlySoundMeasured == Spec => []MeasuredBuildsSound
<1>1. IInv => MeasuredBuildsSound
  BY DEF IInv, ScriptInv, FreshInv, MeasuredBuildsSound, Measuring, Gated, Places,
     Compilers
<1>. QED
  BY Inductive, <1>1, PTL

\* asmtab.py's warning is exact, but for an edit made during the build and for
\* one to the library.
THEOREM WarningExact == Spec => []StaleWarned
BY Inductive, PTL DEF IInv, AgeInv

\* A column of m passes.
Column(c, m) == {f \in Nat \X Compilers : f[2] = c /\ f[1] \in 1 .. m}

LEMMA ColumnSize ==
    ASSUME NEW c \in Compilers, NEW m \in Nat
    PROVE  IsFiniteSet(Column(c, m)) /\ Cardinality(Column(c, m)) = m
<1>. DEFINE g == [p \in 1 .. m |-> <<p, c>>]
<1>1. g \in Bijection(1 .. m, Column(c, m))
  <2>1. ASSUME NEW p \in 1 .. m PROVE g[p] \in Column(c, m)
    BY DEF Column
  <2>2. g \in Injection(1 .. m, Column(c, m))
    BY <2>1 DEF Injection, IsInjective
  <2>3. ASSUME NEW f \in Column(c, m) PROVE \E p \in 1 .. m : g[p] = f
    <3>1. f[1] \in 1 .. m /\ f = <<f[1], c>>
      BY DEF Column
    <3>. QED
      BY <3>1
  <2>4. g \in Surjection(1 .. m, Column(c, m))
    BY <2>1, <2>3 DEF Surjection
  <2>. QED
    BY <2>2, <2>4 DEF Bijection
<1>2. IsFiniteSet(1 .. m) /\ Cardinality(1 .. m) = m
  BY FS_Interval
<1>. QED
  BY <1>1, <1>2, FS_Bijection DEF ExistsBijection

\* At most one pass separates the columns while they are measured.
THEOREM AlwaysInterleaved == Spec => []Interleaved
<1>1. IInv => Interleaved
  <2>. SUFFICES ASSUME IInv, Measuring, NEW c \in Compilers, NEW d \in Compilers
                PROVE  Cardinality(Measured(c)) <= Cardinality(Measured(d)) + 1
    BY DEF Interleaved, Measuring
  <2>1. ASSUME NEW n \in Places
        PROVE  Measured(CcList[n]) = Column(CcList[n], DonePasses(n))
    <3>1. \A f \in DOMAIN files : f \in Nat \X Compilers /\ files[f].rows \in {{}, {"head"}, Rows}
      BY DEF IInv, TypeOK, File
    <3>2. \A f \in DOMAIN files : Full(f) <=> "tail" \in files[f].rows \/ f \in cuts
      BY <3>1 DEF Full, Rows
    <3>3. ci \in Places /\ k \in 1 .. runs
      BY CcTyped DEF IInv, TypeOK, Measuring
    <3>4. \A f \in DOMAIN files : f # <<k, cc>> \/ pc = "open" => Full(f)
      BY NotYetMeasured DEF IInv, OrderInv
    <3>5. Measured(CcList[n]) = {f \in DOMAIN files : f[2] = CcList[n] /\ Full(f)}
      BY <3>2 DEF Measured, Loaded, Paths
    <3>6. {f \in DOMAIN files : f[2] = CcList[n] /\ Full(f)} = Column(CcList[n], DonePasses(n))
      <4>. DEFINE order == {f \in Nat \X Compilers : \E p \in Places :
                               f[2] = CcList[p] /\ f[1] \in 1 .. DonePasses(p)}
      <4>1. DOMAIN files = order \cup (IF pc = "open" THEN {} ELSE {<<k, cc>>})
        BY DEF IInv, OrderInv
      <4>2. \A p \in Places : CcList[p] = CcList[n] => p = n
        BY MatrixAssumption DEF Places
      <4>3. {f \in order : f[2] = CcList[n]} = Column(CcList[n], DonePasses(n))
        BY <4>2 DEF Column
      <4>4. <<k, cc>> \notin order
        <5>1. \A p \in Places : CcList[p] = cc => DonePasses(p) = k - 1
          BY <3>3, MatrixAssumption DEF Places, cc, DonePasses
        <5>. QED
          BY <3>3, <5>1 DEF IInv, TypeOK
      <4>5. \A f \in order : Full(f)
        BY <3>4, <4>1, <4>4
      <4>6. pc # "open" => ~Full(<<k, cc>>)
        BY DEF IInv, OrderInv
      <4>. QED
        BY <4>1, <4>3, <4>5, <4>6
    <3>. QED
      BY <3>5, <3>6
  <2>2. PICK m \in Places, n \in Places : c = CcList[m] /\ d = CcList[n]
    BY DEF Compilers, Places
  <2>3. \A p \in Places : DonePasses(p) \in {k - 1, k} /\ DonePasses(p) \in Nat
    BY DEF IInv, TypeOK, Measuring, DonePasses
  <2>. QED
    BY <2>1, <2>2, <2>3, ColumnSize DEF IInv, TypeOK, Measuring
<1>. QED
  BY Inductive, <1>1, PTL DEF Interleaved

LEMMA NatMin ==
    ASSUME NEW S \in SUBSET Nat, S # {}
    PROVE  Min(S) \in S /\ \A x \in S : Min(S) <= x
<1>. DEFINE R == {p \in Nat \X Nat : p[1] < p[2]}
<1>1. IsWellFoundedOn(R, Nat)
  BY NatLessThanWellFounded DEF OpToRel
<1>2. PICK x \in S : \A y \in S : ~(<<y, x>> \in R)
  BY <1>1, WFMin
<1>3. ASSUME NEW y \in S PROVE x <= y
  <2>1. <<y, x>> \in Nat \X Nat /\ <<y, x>> \notin R
    BY <1>2
  <2>2. ~(y < x)
    BY <2>1
  <2>. QED
    BY <2>2
<1>. QED
  BY <1>3 DEF Min

\* The passes of a column are finitely many.
LEMMA PathsFinite ==
    ASSUME TypeOK, NEW c \in Compilers
    PROVE  IsFiniteSet(Paths(c)) /\ Cardinality(Paths(c)) \in Nat
<1>1. Paths(c) \in SUBSET Column(c, MaxRuns)
  BY MatrixAssumption DEF TypeOK, Paths, Column
<1>. QED
  BY <1>1, ColumnSize, MatrixAssumption, FS_Subset, FS_CardinalityType

\* The number the captions state is that of the shortest column.
LEMMA PassesBounded ==
    ASSUME TypeOK
    PROVE  /\ Passes \in {Cardinality(Paths(c)) : c \in Compilers}
           /\ \A c \in Compilers : Passes <= Cardinality(Paths(c))
<1>. DEFINE sizes == {Cardinality(Paths(c)) : c \in Compilers}
<1>1. sizes \in SUBSET Nat
  BY PathsFinite
<1>2. sizes # {}
  BY CcTyped
<1>3. Min(sizes) \in sizes /\ \A x \in sizes : Min(sizes) <= x
  BY <1>1, <1>2, NatMin
<1>. QED
  BY <1>3 DEF Passes

\* Whatever was interrupted, a caption overstates the medians by one pass at
\* most, beyond what a full disk took: the script leaves one short file.
THEOREM CaptionOffByOne == Spec => []CaptionWithinOne
<1>1. IInv => CaptionWithinOne
  <2>. SUFFICES ASSUME IInv, NEW c \in Compilers, NEW row \in Rows
                PROVE  Cardinality(Loaded(c, row) \cup (cuts \cap Paths(c))) >= Passes - 1
    BY DEF CaptionWithinOne
  <2>. DEFINE has == Loaded(c, row) \cup (cuts \cap Paths(c))
  <2>1. PICK f : \A g \in DOMAIN files : g # f => Full(g)
    BY DEF IInv, ShortInv
  <2>2. Paths(c) \ {f} \in SUBSET has /\ has \in SUBSET Paths(c)
    BY <2>1 DEF Full, Loaded, Paths
  <2>3. IsFiniteSet(Paths(c)) /\ Cardinality(Paths(c)) \in Nat
    BY PathsFinite DEF IInv
  <2>4. /\ IsFiniteSet(has)
        /\ Cardinality(Paths(c) \ {f}) >= Cardinality(Paths(c)) - 1
    BY <2>2, <2>3, FS_Subset, FS_RemoveElement
  <2>5. /\ Cardinality(has) \in Nat /\ Cardinality(Paths(c) \ {f}) \in Nat
        /\ Cardinality(Paths(c) \ {f}) <= Cardinality(has)
    BY <2>2, <2>3, <2>4, FS_Subset, FS_RemoveElement, FS_CardinalityType
  <2>6. Passes <= Cardinality(Paths(c)) /\ Passes \in Nat
    BY PassesBounded, PathsFinite DEF IInv
  <2>. QED
    BY <2>3, <2>4, <2>5, <2>6
<1>. QED
  BY Inductive, <1>1, PTL
-----------------------------------------------------------------------------
\* A file that was cut is short of a row.
CutInv == \A f \in cuts : files[f].rows # Rows

LEMMA CutInductive == Spec => []CutInv
<1>1. Init => CutInv
  BY DEF Init, CutInv
<1>2. IInv /\ CutInv /\ [Next]_vars => CutInv'
  <2>. SUFFICES ASSUME IInv, CutInv, [Next]_vars PROVE CutInv'
    OBVIOUS
  <2>1. CASE Wipe
    BY <2>1 DEF Wipe, CutInv, IInv, TypeOK
  <2>2. CASE OpenCsv \/ WriteHead \/ WriteTail
    <3>1. PICK R : files' = WithRows(R)
      BY <2>2 DEF OpenCsv, WriteHead, WriteTail
    <3>2. cuts' = cuts
      BY <2>2 DEF OpenCsv, WriteHead, WriteTail, lost
    <3>3. <<k, cc>> \notin cuts
      <4>1. CASE OpenCsv
        BY <4>1, NotYetMeasured DEF OpenCsv, Measuring, IInv, TypeOK
      <4>2. CASE WriteHead \/ WriteTail
        BY <4>2 DEF WriteHead, WriteTail, Measuring, IInv, OrderInv, Full
      <4>. QED
        BY <2>2, <4>1, <4>2
    <3>. QED
      BY <3>1, <3>2, <3>3 DEF WithRows, CutInv, IInv, TypeOK
  <2>3. CASE OutputLost
    <3>1. files[<<k, cc>>].rows # Rows
      BY <2>3 DEF OutputLost, Measuring, IInv, OrderInv, Full
    <3>. QED
      BY <2>3, <3>1 DEF OutputLost, CutInv
  <2>4. CASE UNCHANGED <<files, cuts>>
    BY <2>4 DEF CutInv
  <2>. QED
    BY <2>1, <2>2, <2>3, <2>4
    DEF Next, Script, Rest, Start, CheckInstalled, WipeEnd, BuildReads, BuildWrites,
        Gate, MeasureFails, Stop, Edit, EditLibrary, vars, lost
<1>. QED
  BY Inductive, <1>1, <1>2, PTL DEF Spec

\* A run that ended leaves, until the next one removes it, exactly RUNS files
\* of each column, which is what the captions state, all complete but for those
\* a full disk cut.
THEOREM CompleteExact == Spec => []CompleteIsExact
<1>1. IInv /\ CutInv => CompleteIsExact
  <2>. SUFFICES ASSUME IInv, CutInv, complete > 0 PROVE CompleteIsExact
    BY DEF CompleteIsExact
  <2>1. complete \in Nat
    BY MatrixAssumption DEF IInv, TypeOK
  <2>2. ASSUME NEW c \in Compilers
        PROVE  /\ Cardinality(Paths(c)) = complete
               /\ Paths(c) \ Loaded(c, "tail") = cuts \cap Paths(c)
    <3>1. Paths(c) = Column(c, complete)
      BY <2>1 DEF IInv, CompleteInv, Paths, Column
    <3>2. \A f \in Paths(c) : files[f].rows \in {{}, {"head"}, Rows} /\ Full(f)
      BY DEF IInv, TypeOK, File, CompleteInv, Paths
    <3>3. \A f \in Paths(c) : f \in cuts <=> ~("tail" \in files[f].rows)
      BY <3>2 DEF Full, Rows, CutInv
    <3>. QED
      BY <2>1, <3>1, <3>3, ColumnSize DEF Loaded, Paths
  <2>3. Passes = complete
    BY <2>2, PassesBounded DEF IInv
  <2>. QED
    BY <2>2, <2>3 DEF CompleteIsExact
<1>. QED
  BY Inductive, CutInductive, <1>1, PTL
=============================================================================
