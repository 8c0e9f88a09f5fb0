------------------------------ MODULE MCSwapMath ------------------------------
(* Instances of SwapWalk for TLC: prices on both sides of 1, which is 64.      *)
EXTENDS SwapWalk

MCPrices      == {7, 20, 63, 64, 65, 90, 127, 150}
MCLiquidities == {1, 2, 7, 20, 47}
===============================================================================
