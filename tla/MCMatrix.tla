------------------------------ MODULE MCMatrix ------------------------------
(* The two compilers of compilers.conf, up to three passes, a second         *)
(* invocation with any number of them, two changes of the source or of the   *)
(* library, and one measurement that loses output: enough for an invocation  *)
(* to be followed by a shorter one on other code, to be stopped in a pass    *)
(* that is neither the first nor the last, and for a change to fall into a   *)
(* build.                                                                    *)
EXTENDS Matrix

MCCcList == <<"clang++-22", "g++-15">>
=============================================================================
