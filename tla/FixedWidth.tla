------------------------------ MODULE FixedWidth ------------------------------
(* The fixed-width integer operations of Rust that the three NarrowSwap       *)
(* programs use.  The programs are built with overflow checks on (Cargo.toml), *)
(* so a plain + or - that leaves its type aborts the transaction: callers      *)
(* state that as a guard.  What is defined here are the operations that do     *)
(* not abort: the saturating and wrapping ones, and / and % of signed values.  *)
(*                                                                             *)
(* Every width derives from one constant, Q64, which stands for 2^64: prices   *)
(* are fixed-point numbers with Q64 as the unit, u64 holds 0..Q64-1 and u128   *)
(* holds 0..Q64^2-1.  A model checker run takes a small Q64.                   *)
EXTENDS Integers

CONSTANT Q64

ASSUME Q64Assumption == Q64 \in Nat /\ Q64 >= 2 /\ Q64 % 2 = 0

U64Max  == Q64 - 1
U128Max == Q64 * Q64 - 1
I128Max == (Q64 * Q64) \div 2 - 1
I128Min == -((Q64 * Q64) \div 2)

U64  == 0 .. U64Max
U128 == 0 .. U128Max
I128 == I128Min .. I128Max

-------------------------------------------------------------------------------
\* Signed division truncates toward zero, for a positive divisor; the
\* remainder has the sign of the dividend.
TruncDiv(a, b) == IF a >= 0 THEN a \div b ELSE -((-a) \div b)
TruncRem(a, b) == a - b * TruncDiv(a, b)

\* saturating_add, saturating_sub and saturating_mul of u128.  The product is
\* compared by division: it need not be representable to be rejected.
SatAdd(a, b) == IF a + b > U128Max THEN U128Max ELSE a + b
SatSub(a, b) == IF a < b THEN 0 ELSE a - b
SatMul(a, b) == IF b # 0 /\ a > U128Max \div b THEN U128Max ELSE a * b

\* saturating_add of u64.
SatAdd64(a, b) == IF a + b > U64Max THEN U64Max ELSE a + b

\* wrapping_sub of u128.
WrapSub(a, b) == (a - b) % (Q64 * Q64)
===============================================================================
