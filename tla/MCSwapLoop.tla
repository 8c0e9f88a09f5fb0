------------------------------ MODULE MCSwapLoop ------------------------------
(* The instance of MCPoolCore with the swap in small steps.                    *)
EXTENDS SwapLoop, MCPoolCore
===============================================================================
