---------------------------- MODULE MCTickManager -----------------------------
(* Instances of TickManager for TLC.                                           *)
EXTENDS TickManager

\* Every i128 delta of the small width, its two extremes included.
MCDeltas == I128
\* A .cfg cannot write a negative number.
MCMinus5 == -5
MCMinus1 == -1

MCNoGrowth == {}
===============================================================================
