--------------------------- MODULE PositionMgrProofs --------------------------
(* The life of a position and of the NFT that stands for it, for any users,    *)
(* mints, ranges, prices and amounts, and for any transactions: those of       *)
(* position_mgr, those that go past it, and those of the token program.        *)
EXTENDS PositionMgr, PoolCoreProofs

\* A position account that exists is a record with an owner among the users.
OwnedRecord(pos) ==
    /\ pos = [f \in DOMAIN pos |-> pos[f]]
    /\ "owner" \in DOMAIN pos
    /\ pos.owner \in Users

\* OneReceipt strengthened with the shape of the tables it speaks of.
ReceiptInv ==
    /\ positions = [n \in Nfts |-> positions[n]]
    /\ \A n \in Nfts : IsOpen(n) => OwnedRecord(positions[n])
    /\ nft_holder \in [Nfts -> Users \cup {Nobody}]
    /\ nft_minted \subseteq Nfts
    /\ OneReceipt

\* What is not a user's is not an open position.
LEMMA OwnedIsOpen ==
    ASSUME NEW pos, OwnedRecord(pos)
    PROVE  pos # NoPosition
BY NobodyAssumption DEF OwnedRecord, NoPosition

\* The instructions that leave the tables of positions and NFTs alone.
LEMMA OthersKeepReceipts ==
    ASSUME ReceiptInv, UNCHANGED positionVars
    PROVE  ReceiptInv'
BY DEF ReceiptInv, positionVars, OneReceipt, IsOpen, OwnedRecord

LEMMA OpenKeepsReceipts ==
    ASSUME ReceiptInv, Open
    PROVE  ReceiptInv'
<1>1. PICK owner \in Users, nft \in Nfts, d \in Deposits, m \in Minimums, r \in Ranges,
            paid \in SUBSET Tokens : OpenPosition(owner, nft, d, m, r[1], r[2], paid)
  BY DEF Open
<1>2. PICK liquidity, amounts : OpenWith(owner, nft, liquidity, amounts, m, r[1], r[2], paid)
  BY <1>1 DEF OpenPosition
<1> DEFINE pos == NewPosition(owner, r[1], r[2], liquidity)
<1>3. /\ positions' = [positions EXCEPT ![nft] = pos]
      /\ nft_holder' = [nft_holder EXCEPT ![nft] = owner]
      /\ nft_minted' = nft_minted \cup {nft}
  BY <1>2 DEF OpenWith, MintNft
<1>4. OwnedRecord(pos)
  BY DEF OwnedRecord, NewPosition
<1>5. pos # NoPosition
  BY <1>4, OwnedIsOpen
<1> HIDE DEF pos
<1>6. positions' = [n \in Nfts |-> positions'[n]]
  BY <1>3 DEF ReceiptInv
<1>7. \A n \in Nfts : positions'[n] = IF n = nft THEN pos ELSE positions[n]
  BY <1>3 DEF ReceiptInv
<1>8. \A n \in Nfts : nft_holder'[n] = IF n = nft THEN owner ELSE nft_holder[n]
  BY <1>3 DEF ReceiptInv
<1>9. \A n \in Nfts : IsOpen(n)' => OwnedRecord(positions[n])'
  BY <1>4, <1>7 DEF ReceiptInv, IsOpen, OwnedRecord
<1>10. nft_holder' \in [Nfts -> Users \cup {Nobody}]
  BY <1>3 DEF ReceiptInv
<1>11. OneReceipt'
  BY <1>3, <1>5, <1>7, <1>8, NobodyAssumption DEF ReceiptInv, OneReceipt, IsOpen
<1>12. nft_minted' \subseteq Nfts
  BY <1>3 DEF ReceiptInv
<1> QED BY <1>6, <1>9, <1>10, <1>11, <1>12 DEF ReceiptInv

LEMMA CloseKeepsReceipts ==
    ASSUME ReceiptInv, Close
    PROVE  ReceiptInv'
<1>1. PICK owner \in Users, nft \in Nfts, m \in Minimums : ClosePosition(owner, nft, m)
  BY DEF Close
<1>2. /\ positions' = [positions EXCEPT ![nft] = NoPosition]
      /\ nft_holder' = [nft_holder EXCEPT ![nft] = Nobody]
      /\ nft_minted' = nft_minted
  BY <1>1 DEF ClosePosition, BurnNft
<1>3. \A n \in Nfts : positions'[n] = IF n = nft THEN NoPosition ELSE positions[n]
  BY <1>2 DEF ReceiptInv
<1>4. \A n \in Nfts : nft_holder'[n] = IF n = nft THEN Nobody ELSE nft_holder[n]
  BY <1>2 DEF ReceiptInv
<1>5. positions' = [n \in Nfts |-> positions'[n]]
  BY <1>2 DEF ReceiptInv
<1>6. \A n \in Nfts : IsOpen(n)' => OwnedRecord(positions[n])'
  BY <1>3 DEF ReceiptInv, IsOpen, OwnedRecord
<1>7. nft_holder' \in [Nfts -> Users \cup {Nobody}]
  BY <1>2 DEF ReceiptInv
<1>8. OneReceipt'
  BY <1>2, <1>3, <1>4 DEF ReceiptInv, OneReceipt, IsOpen
<1> QED BY <1>2, <1>5, <1>6, <1>7, <1>8 DEF ReceiptInv

\* Collecting rewrites two fields of a position; who owns it is not one of them.
LEMMA CollectKeepsReceipts ==
    ASSUME ReceiptInv, Collect
    PROVE  ReceiptInv'
<1>1. PICK owner \in Users, nft \in Nfts : CollectFees(owner, nft)
  BY DEF Collect
<1> DEFINE pos == Checkpointed(positions[nft])
<1>2. /\ positions' = [positions EXCEPT ![nft] = pos]
      /\ UNCHANGED <<nft_holder, nft_minted>>
      /\ IsOpen(nft)
  BY <1>1 DEF CollectFees, ReceiptInv
<1>3. OwnedRecord(pos)
  BY <1>2 DEF ReceiptInv, OwnedRecord, Checkpointed
<1>4. pos # NoPosition
  BY <1>3, OwnedIsOpen
<1> HIDE DEF pos
<1>5. \A n \in Nfts : positions'[n] = IF n = nft THEN pos ELSE positions[n]
  BY <1>2 DEF ReceiptInv
<1>6. positions' = [n \in Nfts |-> positions'[n]]
  BY <1>2 DEF ReceiptInv
<1>7. \A n \in Nfts : IsOpen(n)' => OwnedRecord(positions[n])'
  BY <1>3, <1>5 DEF ReceiptInv, IsOpen, OwnedRecord
<1>8. OneReceipt'
  BY <1>2, <1>4, <1>5 DEF ReceiptInv, OneReceipt, IsOpen
<1> QED BY <1>2, <1>6, <1>7, <1>8 DEF ReceiptInv

\* An NFT that is handed over had a holder and gets one.
LEMMA HandOverKeepsReceipts ==
    ASSUME ReceiptInv, HandOver
    PROVE  ReceiptInv'
<1>1. PICK from \in Users, to \in Users, nft \in Nfts : TransferNft(from, to, nft)
  BY DEF HandOver
<1>2. /\ nft_holder[nft] = from
      /\ nft_holder' = [nft_holder EXCEPT ![nft] = to]
      /\ UNCHANGED <<positions, nft_minted>>
  BY <1>1 DEF TransferNft
<1>3. \A n \in Nfts : nft_holder'[n] = IF n = nft THEN to ELSE nft_holder[n]
  BY <1>2 DEF ReceiptInv
<1>4. OneReceipt'
  BY <1>2, <1>3, NobodyAssumption DEF ReceiptInv, OneReceipt, IsOpen
<1> QED BY <1>2, <1>4 DEF ReceiptInv, IsOpen, OwnedRecord

\* Burning an NFT takes away a holder and nothing else.
LEMMA BurnKeepsReceipts ==
    ASSUME ReceiptInv, Burn
    PROVE  ReceiptInv'
<1>1. PICK from \in Users, nft \in Nfts : BurnByHolder(from, nft)
  BY DEF Burn
<1>2. /\ nft_holder' = [nft_holder EXCEPT ![nft] = Nobody]
      /\ UNCHANGED <<positions, nft_minted>>
  BY <1>1 DEF BurnByHolder, BurnNft
<1>3. \A n \in Nfts : nft_holder'[n] = IF n = nft THEN Nobody ELSE nft_holder[n]
  BY <1>2 DEF ReceiptInv
<1>4. OneReceipt'
  BY <1>2, <1>3 DEF ReceiptInv, OneReceipt, IsOpen
<1> QED BY <1>2, <1>4 DEF ReceiptInv, IsOpen, OwnedRecord

\* What a client can send without position_mgr leaves the receipts alone.
LEMMA CallsKeepReceipts ==
    ASSUME Next
    PROVE  Open \/ Close \/ Collect \/ HandOver \/ Burn \/ UNCHANGED positionVars
BY DEF Next

\* Every step of the system keeps the receipts in order.
LEMMA ReceiptInvStep == ReceiptInv /\ [Next]_vars => ReceiptInv'
<1> SUFFICES ASSUME ReceiptInv, [Next]_vars PROVE ReceiptInv'
  OBVIOUS
<1>1. CASE UNCHANGED positionVars
  BY <1>1, OthersKeepReceipts
<1>2. CASE Open
  BY <1>2, OpenKeepsReceipts
<1>3. CASE Close
  BY <1>3, CloseKeepsReceipts
<1>4. CASE Collect
  BY <1>4, CollectKeepsReceipts
<1>5. CASE HandOver
  BY <1>5, HandOverKeepsReceipts
<1>6. CASE Burn
  BY <1>6, BurnKeepsReceipts
<1> QED BY <1>1, <1>2, <1>3, <1>4, <1>5, <1>6, CallsKeepReceipts DEF vars

LEMMA ReceiptInvAlways == Spec => []ReceiptInv
<1>1. Init => ReceiptInv
  BY DEF Init, ReceiptInv, OneReceipt, IsOpen
<1> QED BY <1>1, ReceiptInvStep, PTL DEF Spec

\* No NFT outlives its position, and no open position's mint is unused, through
\* every order of openings, closings, collections, transfers, burns and swaps.
THEOREM OneReceiptCorrect == Spec => []OneReceipt
<1>1. ReceiptInv => OneReceipt
  BY DEF ReceiptInv
<1> QED BY <1>1, ReceiptInvAlways, PTL

\* A mint whose position is closed never gets another: open_position creates its
\* mint, and nothing else opens.
THEOREM MintsAreFinalCorrect == Spec => MintsAreFinal
<1> DEFINE Final == \A n \in nft_minted : ~IsOpen(n) => ~IsOpen(n)'
<1>1. ReceiptInv /\ [Next]_vars => [Final]_vars
  <2> SUFFICES ASSUME ReceiptInv, Next PROVE Final
    OBVIOUS
  <2>1. CASE UNCHANGED positions
    BY <2>1 DEF IsOpen
  <2>2. CASE Open
    <3>1. PICK owner \in Users, nft \in Nfts, d \in Deposits, m \in Minimums, r \in Ranges,
                paid \in SUBSET Tokens : OpenPosition(owner, nft, d, m, r[1], r[2], paid)
      BY <2>2 DEF Open
    <3>2. nft \notin nft_minted
      BY <3>1 DEF OpenPosition
    <3>3. PICK pos : positions' = [positions EXCEPT ![nft] = pos]
      BY <3>1 DEF OpenPosition, OpenWith
    <3> QED BY <3>2, <3>3 DEF IsOpen, ReceiptInv
  <2>3. CASE Close
    <3>1. PICK nft \in Nfts : positions' = [positions EXCEPT ![nft] = NoPosition]
      BY <2>3 DEF Close, ClosePosition
    <3> QED BY <3>1 DEF IsOpen, ReceiptInv
  <2>4. CASE Collect
    <3>1. PICK nft \in Nfts : /\ IsOpen(nft)
                              /\ \A n \in Nfts \ {nft} : positions'[n] = positions[n]
      BY <2>4 DEF Collect, CollectFees, ReceiptInv
    <3> QED BY <3>1 DEF IsOpen, ReceiptInv
  <2>5. CASE HandOver \/ Burn
    BY <2>1, <2>5 DEF HandOver, TransferNft, Burn, BurnByHolder
  <2> QED BY <2>1, <2>2, <2>3, <2>4, <2>5, CallsKeepReceipts DEF positionVars
<1> QED BY <1>1, ReceiptInvAlways, PTL DEF Spec, MintsAreFinal

-------------------------------------------------------------------------------
(* Types of amounts.                                                           *)

LEMMA Q32Type == Q32 \in Nat \ {0} /\ Q32 * Q32 = Q64
BY Q32Assumption

LEMMA Shr32Type ==
    ASSUME NEW a \in Nat
    PROVE  Shr32(a) \in Nat
BY Q32Type, DivNat DEF Shr32

LEMMA DivOr0Type ==
    ASSUME NEW a \in U128, NEW b \in Nat
    PROVE  DivOr0(a, b) \in U128
<1>1. CASE b = 0
  BY <1>1, WidthsPositive DEF DivOr0
<1>2. CASE b # 0
  BY <1>2, QuotientType DEF DivOr0
<1> QED
  BY <1>1, <1>2

\* Liquidity from either token, and the lesser of the two, is a u128.
LEMMA LiquidityType ==
    ASSUME NEW current \in Nat, NEW lower \in Nat, NEW upper \in Nat, lower <= upper,
           NEW amount_0 \in U64, NEW amount_1 \in U64
    PROVE  LiquidityForAmounts(current, lower, upper, amount_0, amount_1) \in U128
<1>1. ASSUME NEW a \in Nat, NEW b \in Nat, a <= b
      PROVE  LiquidityForAmount0(a, b, amount_0) \in U128
  <2> DEFINE product == SatMul(amount_0, Shr32(a))
             quotient == DivOr0(product, Shr32(b - a))
             liquidity == SatMul(quotient, Shr32(b))
  <2>1. amount_0 \in Nat /\ b - a \in Nat
    BY <1>1, WidthsPositive
  <2>2. product \in U128
    BY <2>1, Shr32Type, SatMulType
  <2> HIDE DEF product
  <2>3. quotient \in U128
    BY <2>1, <2>2, Shr32Type, DivOr0Type
  <2> HIDE DEF quotient
  <2>4. liquidity \in U128
    BY <2>3, U128IsNat, Shr32Type, SatMulType
  <2> HIDE DEF liquidity
  <2>5. liquidity \div Q32 \in U128
    BY <2>4, Q32Type, QuotientType
  <2> QED
    BY <2>5 DEF LiquidityForAmount0, liquidity, quotient, product
<1>2. ASSUME NEW a \in Nat, NEW b \in Nat, a <= b
      PROVE  LiquidityForAmount1(a, b, amount_1) \in U128
  <2> DEFINE shifted == (amount_1 % Q64) * Q64
  <2>1. shifted \in U128
    <3> DEFINE m == amount_1 % Q64
    <3>1. m \in 0 .. Q64 - 1
      BY WidthsPositive
    <3> HIDE DEF m
    <3>2. m * Q64 \in Nat /\ m * Q64 <= Q64 * Q64 - 1
      <4> DEFINE Q == Q64
      <4>1. Q \in Nat \ {0} /\ m \in 0 .. Q - 1
        BY <3>1, WidthsPositive
      <4> HIDE DEF Q
      <4>2. m * Q <= (Q - 1) * Q /\ (Q - 1) * Q = Q * Q - Q /\ m * Q \in Nat
        BY <4>1
      <4> QED
        BY <4>1, <4>2 DEF Q
    <3> QED
      BY <3>2, WidthsPositive DEF m
  <2> HIDE DEF shifted
  <2>2. DivOr0(shifted, b - a) \in U128
    <3>1. b - a \in Nat
      BY <1>2
    <3> QED
      BY <2>1, <3>1, DivOr0Type
  <2> QED
    BY <2>2 DEF LiquidityForAmount1, shifted
<1>3. CASE current <= lower
  <2>1. LiquidityForAmounts(current, lower, upper, amount_0, amount_1)
          \in {LiquidityForAmount0(lower, upper, amount_0),
               LiquidityForAmount1(lower, upper, amount_1)}
    BY <1>3, Zenon DEF LiquidityForAmounts
  <2> QED
    BY <1>1, <1>2, <2>1
<1>4. CASE ~(current <= lower) /\ current >= upper
  BY <1>2, <1>4 DEF LiquidityForAmounts
<1>5. CASE ~(current <= lower) /\ ~(current >= upper)
  <2>1. /\ LiquidityForAmount0(current, upper, amount_0) \in U128
        /\ LiquidityForAmount1(lower, current, amount_1) \in U128
    BY <1>1, <1>2, <1>5
  <2>2. LiquidityForAmounts(current, lower, upper, amount_0, amount_1)
          \in {LiquidityForAmount0(current, upper, amount_0),
               LiquidityForAmount1(lower, current, amount_1)}
    BY <1>5 DEF LiquidityForAmounts, Lesser
  <2> QED
    BY <2>1, <2>2
<1> QED
  BY <1>3, <1>4, <1>5

\* No amounts make more liquidity than the range allows.
LEMMA LiquidityWithinLimit ==
    ASSUME NEW current \in Nat, NEW lower \in Nat, NEW upper \in Nat, lower < upper,
           NEW amount_0 \in U64, NEW amount_1 \in U64
    PROVE  LiquidityForAmounts(current, lower, upper, amount_0, amount_1)
             <= LiquidityLimit(lower, upper)
<1> DEFINE most_0 == U128Max \div Q32
           most_1 == (U64Max * Q64) \div (upper - lower)
<1>1. ASSUME NEW a \in Nat, NEW b \in Nat, a <= b
      PROVE  /\ LiquidityForAmount0(a, b, amount_0) \in Int
             /\ LiquidityForAmount0(a, b, amount_0) <= most_0
  <2> DEFINE product == SatMul(amount_0, Shr32(a))
             quotient == DivOr0(product, Shr32(b - a))
             liquidity == SatMul(quotient, Shr32(b))
  <2>1. amount_0 \in Nat /\ b - a \in Nat
    BY <1>1, WidthsPositive
  <2>2. product \in U128
    BY <2>1, Shr32Type, SatMulType
  <2> HIDE DEF product
  <2>3. quotient \in U128
    BY <2>1, <2>2, Shr32Type, DivOr0Type
  <2> HIDE DEF quotient
  <2>4. liquidity \in U128
    BY <2>3, U128IsNat, Shr32Type, SatMulType
  <2> HIDE DEF liquidity
  <2>5. liquidity \in Int /\ U128Max \in Int /\ liquidity <= U128Max
    BY <2>4, U128IsNat, WidthsPositive
  <2>6. liquidity \div Q32 <= most_0 /\ liquidity \div Q32 \in Int
    BY <2>5, Q32Type, DivMonotone
  <2> HIDE DEF most_0
  <2> QED
    BY <2>6 DEF LiquidityForAmount0, liquidity, quotient, product
<1>2. /\ LiquidityForAmount1(lower, upper, amount_1) \in Int
      /\ LiquidityForAmount1(lower, upper, amount_1) <= most_1
  <2> DEFINE shifted == (amount_1 % Q64) * Q64
             whole   == U64Max * Q64
             width   == upper - lower
  <2>1. shifted \in Int /\ whole \in Int /\ shifted <= whole
    <3> DEFINE m == amount_1 % Q64
               Q == Q64
    <3>1. m \in 0 .. Q - 1 /\ Q \in Nat /\ U64Max = Q - 1
      BY WidthsPositive DEF U64Max
    <3> HIDE DEF m, Q
    <3>2. m * Q <= (Q - 1) * Q /\ m * Q \in Int /\ (Q - 1) * Q \in Int
      BY <3>1
    <3> QED
      BY <3>1, <3>2 DEF m, Q
  <2>2. width \in Nat \ {0}
    OBVIOUS
  <2> HIDE DEF shifted, whole, width
  <2>3. shifted \div width <= whole \div width /\ shifted \div width \in Int
    BY <2>1, <2>2, DivMonotone
  <2>4. LiquidityForAmount1(lower, upper, amount_1) = shifted \div width
    BY <2>2 DEF LiquidityForAmount1, DivOr0, shifted, width
  <2> QED
    BY <2>3, <2>4 DEF whole, width
<1>3. most_0 \in Int /\ most_1 \in Int
  <2>1. U64Max * Q64 \in Int
    BY WidthsPositive DEF U64Max
  <2>2. U128Max \in Int /\ upper - lower \in Nat \ {0}
    BY WidthsPositive
  <2> QED
    BY <2>1, <2>2, Q32Type, DivBounds
<1>4. LiquidityLimit(lower, upper) = Greater(most_0, most_1)
  BY DEF LiquidityLimit
<1> HIDE DEF most_0, most_1
<1>5. most_0 <= LiquidityLimit(lower, upper) /\ most_1 <= LiquidityLimit(lower, upper)
      /\ LiquidityLimit(lower, upper) \in Int
  BY <1>3, <1>4 DEF Greater
<1>6. CASE current <= lower
  <2>1. LiquidityForAmounts(current, lower, upper, amount_0, amount_1)
          \in {LiquidityForAmount0(lower, upper, amount_0),
               LiquidityForAmount1(lower, upper, amount_1)}
    BY <1>6, Zenon DEF LiquidityForAmounts
  <2> QED
    BY <1>1, <1>2, <1>3, <1>5, <2>1
<1>7. CASE ~(current <= lower) /\ current >= upper
  <2>1. LiquidityForAmounts(current, lower, upper, amount_0, amount_1)
          = LiquidityForAmount1(lower, upper, amount_1)
    BY <1>7 DEF LiquidityForAmounts
  <2> QED
    BY <1>2, <1>3, <1>5, <2>1
<1>8. CASE ~(current <= lower) /\ ~(current >= upper)
  <2> DEFINE a0 == LiquidityForAmount0(current, upper, amount_0)
             a1 == LiquidityForAmount1(lower, current, amount_1)
  <2>1. LiquidityForAmounts(current, lower, upper, amount_0, amount_1) = Lesser(a0, a1)
    BY <1>8 DEF LiquidityForAmounts
  <2>2. a0 \in Int /\ a0 <= most_0
    BY <1>1, <1>8
  <2>3. a1 \in Int
    <3>1. current - lower \in Nat \ {0}
      BY <1>8
    <3>2. (amount_1 % Q64) * Q64 \in Int
      BY WidthsPositive
    <3> QED
      BY <3>1, <3>2, DivBounds DEF LiquidityForAmount1, DivOr0
  <2> HIDE DEF a0, a1
  <2> QED
    BY <1>3, <1>5, <2>1, <2>2, <2>3 DEF Lesser
<1> QED
  BY <1>6, <1>7, <1>8

LEMMA UsableAreTicks ==
    ASSUME NEW t \in UsableTicks
    PROVE  t \in Ticks /\ t \in Int
BY TickAssumption DEF UsableTicks, Ticks

\* The width of a position, in price.
LEMMA PricesApart ==
    ASSUME NEW t \in UsableTicks, NEW u \in UsableTicks, t < u
    PROVE  /\ SqrtPriceAt[t] \in U128 /\ SqrtPriceAt[u] \in U128
           /\ SqrtPriceAt[t] \in Nat /\ SqrtPriceAt[u] \in Nat
           /\ SqrtPriceAt[u] - SqrtPriceAt[t] \in Nat
           /\ SqrtPriceAt[u] - SqrtPriceAt[t] >= 2
<1>1. t \in Ticks /\ u \in Ticks /\ t \in Int /\ u \in Int
  BY UsableAreTicks
<1>2. t + 1 # u
  <2> DEFINE P == TICK_SPACING
  <2>1. P \in Nat /\ P > 1
    BY SpacingAssumption, TickAssumption
  <2>2. PICK i \in Int, j \in Int : t = P * i /\ u = P * j
    <3>1. TruncDiv(t, P) \in Int /\ TruncDiv(u, P) \in Int
      BY <1>1, <2>1 DEF TruncDiv
    <3>2. t - P * TruncDiv(t, P) = 0 /\ u - P * TruncDiv(u, P) = 0
      BY DEF UsableTicks, ValidTickSpacing, TruncRem
    <3> DEFINE d == TruncDiv(t, P)
               e == TruncDiv(u, P)
    <3> HIDE DEF d, e, P
    <3>3. t = P * d /\ u = P * e
      BY <1>1, <2>1, <3>1, <3>2 DEF d, e
    <3> QED
      BY <3>1, <3>3 DEF d, e
  <2> HIDE DEF P
  <2>3. P * (j - i) = P * j - P * i /\ j - i \in Int
    BY <2>1, <2>2
  <2>4. CASE j - i <= 0
    <3>1. P * (j - i) <= 0
      BY <2>1, <2>3, <2>4
    <3> QED
      BY <1>1, <2>2, <2>3, <3>1
  <2>5. CASE j - i >= 1
    <3>1. P * (j - i) >= P
      BY <2>1, <2>3, <2>5
    <3> QED
      BY <1>1, <2>1, <2>2, <2>3, <3>1
  <2> QED
    BY <2>3, <2>4, <2>5
<1>3. t + 1 \in Ticks /\ t < t + 1 /\ t + 1 < u
  BY <1>1, <1>2, TickAssumption DEF Ticks
<1>4. SqrtPriceAt[t] < SqrtPriceAt[t + 1] /\ SqrtPriceAt[t + 1] < SqrtPriceAt[u]
  BY <1>1, <1>3, PriceAssumption
<1>5. SqrtPriceAt[t] \in U128 /\ SqrtPriceAt[u] \in U128 /\ SqrtPriceAt[t + 1] \in U128
  BY <1>1, <1>3, PriceAssumption
<1>6. SqrtPriceAt[t] \in Nat /\ SqrtPriceAt[u] \in Nat /\ SqrtPriceAt[t + 1] \in Nat
  BY <1>5, U128IsNat
<1> QED
  BY <1>4, <1>5, <1>6

\* Halving.
LEMMA DivAtMostHalf ==
    ASSUME NEW a \in Nat, NEW d \in Nat, d >= 2, NEW h \in Nat, a < 2 * h
    PROVE  a \div d \in Nat /\ a \div d < h
<1>1. d * h >= 2 * h
  OBVIOUS
<1>2. a \div d < h
  BY <1>1, DivUpper
<1> QED
  BY <1>2, DivNat

\* So the liquidity of any one position is an i128.
LEMMA LimitFits ==
    ASSUME NEW t \in UsableTicks, NEW u \in UsableTicks, t < u
    PROVE  /\ LiquidityLimit(SqrtPriceAt[t], SqrtPriceAt[u]) \in Nat
           /\ LiquidityLimit(SqrtPriceAt[t], SqrtPriceAt[u]) <= I128Max
<1> DEFINE gap == SqrtPriceAt[u] - SqrtPriceAt[t]
           h == (Q64 * Q64) \div 2
           most_0 == U128Max \div Q32
           most_1 == (U64Max * Q64) \div gap
<1>1. gap \in Nat /\ gap >= 2
  BY PricesApart
<1>2. Q32 \in Nat /\ Q32 >= 2
  <2>1. Q32 # 1
    BY Q32Type, WidthsPositive
  <2> QED
    BY <2>1, Q32Type
<1>3. h \in Nat /\ 2 * h = Q64 * Q64 /\ I128Max = h - 1
  <2>1. PICK n \in Nat : Q64 = 2 * n
    <3> DEFINE n == Q64 \div 2
    <3>1. Q64 \in Nat /\ Q64 % 2 = 0 /\ n \in Nat
      BY Q64Assumption, DivNat
    <3>2. Q64 = 2 * n + (Q64 % 2)
      BY <3>1
    <3> HIDE DEF n
    <3>3. Q64 = 2 * n
      BY <3>1, <3>2
    <3> QED
      BY <3>1, <3>3
  <2>2. (2 * n) * (2 * n) = 2 * (2 * (n * n)) + 0 /\ 2 * (n * n) \in Nat
    BY <2>1
  <2>3. h = 2 * (n * n)
    BY <2>1, <2>2, DivUnique
  <2> QED
    BY <2>1, <2>2, <2>3 DEF I128Max
<1> HIDE DEF h, gap
<1>4. U128Max \in Nat /\ U128Max < 2 * h
  BY <1>3, WidthsPositive
<1>5. U64Max * Q64 \in Nat /\ U64Max * Q64 < 2 * h
  <2> DEFINE Q == Q64
  <2>1. Q \in Nat \ {0} /\ U64Max = Q - 1 /\ Q64 = Q
    BY WidthsPositive DEF U64Max
  <2> HIDE DEF Q
  <2>2. (Q - 1) * Q = Q * Q - Q /\ (Q - 1) * Q \in Nat /\ Q * Q \in Nat
    BY <2>1
  <2> QED
    BY <1>3, <2>1, <2>2
<1>6. most_0 \in Nat /\ most_0 < h
  BY <1>2, <1>3, <1>4, DivAtMostHalf
<1>7. most_1 \in Nat /\ most_1 < h
  BY <1>1, <1>3, <1>5, DivAtMostHalf
<1>8. LiquidityLimit(SqrtPriceAt[t], SqrtPriceAt[u]) = Greater(most_0, most_1)
  BY DEF LiquidityLimit, gap
<1> HIDE DEF most_0, most_1
<1> QED
  BY <1>3, <1>6, <1>7, <1>8 DEF Greater

\* A pair of amounts of u64, one per token.
Amounts(a) == \A k \in Tokens : a[k] \in U64

\* What liquidity is worth is a pair of u64.
LEMMA AmountsType ==
    ASSUME NEW current \in Nat, NEW lower \in Nat, NEW upper \in Nat, lower <= upper,
           NEW liquidity \in U128
    PROVE  Amounts(AmountsForLiquidity(current, lower, upper, liquidity))
<1> DEFINE at == Greater(lower, Lesser(current, upper))
           a0 == Amount0ForLiquidity(at, upper, liquidity)
           a1 == Amount1ForLiquidity(lower, at, liquidity)
<1>1. at \in Nat /\ lower <= at /\ at <= upper
  BY DEF Greater, Lesser
<1> HIDE DEF at
<1>2. liquidity \in Nat
  BY U128IsNat
<1>3. a0 \in U128
  <2>1. upper - at \in Nat
    BY <1>1
  <2>2. SatMul(liquidity, upper - at) \in U128
    BY <2>1, <1>2, SatMulType
  <2>3. SatMul(Shr32(at), Shr32(upper)) \in Nat
    BY <1>1, Shr32Type, SatMulType, U128IsNat
  <2> QED
    BY <2>2, <2>3, DivOr0Type DEF Amount0ForLiquidity
<1>4. a1 \in U128
  <2>1. at - lower \in Nat
    BY <1>1
  <2>2. SatMul(liquidity, at - lower) \in U128
    BY <2>1, <1>2, SatMulType
  <2> QED
    BY <2>2, QuotientType, WidthsPositive DEF Amount1ForLiquidity
<1> HIDE DEF a0, a1
<1>5. ASSUME NEW a \in U128
      PROVE  Lesser(a, U64Max) \in U64
  BY WidthsPositive DEF Lesser, U64, U64Max
<1>6. /\ AmountsForLiquidity(current, lower, upper, liquidity)[0] = Lesser(a0, U64Max)
      /\ AmountsForLiquidity(current, lower, upper, liquidity)[1] = Lesser(a1, U64Max)
  BY DEF AmountsForLiquidity, at, a0, a1
<1> QED
  BY <1>3, <1>4, <1>5, <1>6 DEF Amounts, Tokens

LEMMA FeesOwedType ==
    ASSUME NEW pos \in Position, NEW p \in Pool
    PROVE  Amounts(FeesOwed(pos, p))
<1> SUFFICES ASSUME NEW k \in Tokens PROVE FeesOwed(pos, p)[k] \in U64
  BY DEF Amounts
<1> DEFINE growth == WrapSub(p.fee_growth_global[k], pos.fee_growth_checkpoint[k])
           product == SatMul(growth, pos.liquidity)
<1>1. growth \in U128
  <2>1. /\ p.fee_growth_global[k] \in U128 /\ pos.fee_growth_checkpoint[k] \in U128
    BY DEF Pool, Position
  <2>2. /\ p.fee_growth_global[k] \in Int /\ pos.fee_growth_checkpoint[k] \in Int
    BY <2>1, WidthsPositive
  <2> QED
    BY <2>2, WrapSubType
<1>2. pos.liquidity \in U128
  BY DEF Position
<1> HIDE DEF growth
<1>3. product \in U128
  BY <1>1, <1>2, U128IsNat, SatMulType
<1> HIDE DEF product
<1>4. product \div Q64 \in U128
  BY <1>3, QuotientType, WidthsPositive
<1>5. (product \div Q64) % Q64 \in U64
  BY <1>4, WidthsPositive
<1> QED
  BY <1>5 DEF FeesOwed, growth, product

LEMMA SatAdd64Type ==
    ASSUME NEW a \in U64, NEW b \in U64
    PROVE  SatAdd64(a, b) \in U64
BY WidthsPositive DEF SatAdd64, U64Max

\* What a position's liquidity is worth is one too.
LEMMA WorthType ==
    ASSUME NEW pos \in Position, pos.tick_lower < pos.tick_upper, NEW p \in Pool
    PROVE  Amounts(PositionAmounts(p, pos.tick_lower, pos.tick_upper, pos.liquidity))
<1>1. /\ SqrtPriceAt[pos.tick_lower] \in U128 /\ SqrtPriceAt[pos.tick_upper] \in U128
      /\ SqrtPriceAt[pos.tick_lower] < SqrtPriceAt[pos.tick_upper]
  BY PriceAssumption DEF Position, UsableTicks
<1>2. p.sqrt_price \in U128 /\ pos.liquidity \in U128
  BY DEF Pool, Position
<1>3. /\ SqrtPriceAt[pos.tick_lower] \in Nat /\ SqrtPriceAt[pos.tick_upper] \in Nat
      /\ SqrtPriceAt[pos.tick_lower] <= SqrtPriceAt[pos.tick_upper]
      /\ p.sqrt_price \in Nat
  BY <1>1, <1>2, U128IsNat
<1> QED
  BY <1>2, <1>3, AmountsType DEF PositionAmounts

\* What a position is paid, by collect_fees and by close_position.
LEMMA ClaimType ==
    ASSUME NEW pos \in Position, pos.tick_lower < pos.tick_upper, NEW p \in Pool
    PROVE  Amounts(ClaimedFees(pos, p)) /\ Amounts(Claim(pos, p))
<1> DEFINE worth == PositionAmounts(p, pos.tick_lower, pos.tick_upper, pos.liquidity)
           fees  == FeesOwed(pos, p)
<1>1. Amounts(fees)
  BY FeesOwedType
<1>2. \A k \in Tokens : pos.tokens_owed[k] \in U64
  BY DEF Position
<1>3. Amounts(worth)
  BY WorthType
<1> HIDE DEF worth, fees
<1>4. \A k \in Tokens : ClaimedFees(pos, p)[k] = SatAdd64(fees[k], pos.tokens_owed[k])
  BY DEF ClaimedFees, fees
<1>5. \A k \in Tokens : Claim(pos, p)[k]
                          = SatAdd64(SatAdd64(worth[k], fees[k]), pos.tokens_owed[k])
  BY DEF Claim, worth, fees
<1> QED
  BY <1>1, <1>2, <1>3, <1>4, <1>5, SatAdd64Type DEF Amounts

\* Of what is due, what reaches the vaults.
LEMMA DueType ==
    ASSUME NEW amounts, Amounts(amounts), NEW paid, NEW k \in Tokens
    PROVE  /\ amounts[k] \in Nat
           /\ Due(amounts, paid)[k] \in Nat
           /\ Due(amounts, paid)[k] <= amounts[k]
BY WidthsPositive DEF Amounts, Due

\* Payments keep the token accounts typed.
LEMMA PayType ==
    ASSUME AccountsOK, NEW user \in Users, NEW amounts, Amounts(amounts), NEW paid,
           PayIn(user, amounts, paid) \/ PayOut(user, amounts)
    PROVE  AccountsOK'
<1>1. \A k \in Tokens : /\ amounts[k] \in Nat
                        /\ vault[k] \in Nat /\ wallet[user][k] \in Nat
  BY WidthsPositive DEF Amounts, AccountsOK
<1>2. CASE PayIn(user, amounts, paid)
  <2> DEFINE due == Due(amounts, paid)
  <2>1. \A k \in Tokens : due[k] \in Nat /\ due[k] <= amounts[k]
    BY DueType
  <2>2. /\ \A k \in Tokens : amounts[k] <= wallet[user][k]
        /\ wallet' = [wallet EXCEPT ![user] = [k \in Tokens |-> @[k] - due[k]]]
        /\ vault' = [k \in Tokens |-> vault[k] + due[k]]
    BY <1>2 DEF PayIn
  <2> HIDE DEF due
  <2>3. \A k \in Tokens : wallet[user][k] - due[k] \in Nat /\ vault[k] + due[k] \in Nat
    BY <1>1, <2>1, <2>2
  <2> QED
    BY <2>2, <2>3 DEF AccountsOK
<1>3. CASE PayOut(user, amounts)
  <2>1. \A k \in Tokens : wallet[user][k] + amounts[k] \in Nat /\ vault[k] - amounts[k] \in Nat
    BY <1>1, <1>3 DEF PayOut
  <2> QED
    BY <1>3, <2>1 DEF PayOut, AccountsOK
<1> QED
  BY <1>2, <1>3

\* ... and move tokens between one wallet and the vaults.
LEMMA PayConserves ==
    ASSUME AccountsOK, NEW user \in Users, NEW amounts, Amounts(amounts), NEW paid,
           PayIn(user, amounts, paid) \/ PayOut(user, amounts)
    PROVE  TokensKept
<1>1. AccountsOK'
  BY PayType
<1>2. \A u \in Users \ {user} : wallet'[u] = wallet[u]
  BY DEF PayIn, PayOut, AccountsOK
<1>3. ASSUME NEW k \in Tokens
      PROVE  wallet'[user][k] + vault'[k] = wallet[user][k] + vault[k]
  <2>1. /\ wallet[user][k] \in Nat /\ vault[k] \in Nat /\ amounts[k] \in Nat
        /\ Due(amounts, paid)[k] \in Nat
    BY DueType DEF AccountsOK
  <2>2. CASE PayIn(user, amounts, paid)
    BY <2>1, <2>2 DEF PayIn, AccountsOK
  <2>3. CASE PayOut(user, amounts)
    BY <2>1, <2>3 DEF PayOut, AccountsOK
  <2> QED
    BY <2>2, <2>3
<1> QED
  BY <1>1, <1>2, <1>3, TradeConserves DEF OnlyTrades

-------------------------------------------------------------------------------
(* The tick tables under the transactions of the system.                       *)

\* Only usable ticks are written: past the last of them, slots stay empty.
UnusedEmpty(book) ==
    \A s \in DOMAIN book.arrays : \A i \in Slots :
        s + i * TICK_SPACING \notin UsableTicks =>
            /\ book.arrays[s][i].liquidity_net = 0
            /\ book.arrays[s][i].liquidity_gross = 0

\* An account that was claimed is that of its word.
WordsOwn(book) ==
    \A w \in Words : book.bitmaps[w].claimed => book.bitmaps[w].word_index = w

TicksOK(book) ==
    BookOK(book) /\ UnusedEmpty(book) /\ WordsOwn(book)

\* pool_core looks for its flag in a snapshot.  Where there is no usable tick there
\* is no liquidity, so nothing is live, and no snapshot is kept.
LEMMA TicksSeen ==
    ASSUME TicksOK(Book)
    PROVE  TablesOK
<1>1. 256 \in Nat \ {0} /\ Q64 \in Nat \ {0}
  BY WidthsPositive
<1>2. 0 \div Q64 = 0 /\ 0 % 256 = 0
  BY <1>1
<1>3. ASSUME NEW s \in DOMAIN Book.arrays, NEW i \in Slots,
             s + i * TICK_SPACING \notin UsableTicks
      PROVE  ~ReadInitialized(Book.arrays[s][i])
  <2>1. Book.arrays[s][i].liquidity_gross = 0 /\ LiveTickHasGross(Book.arrays[s][i])
    BY <1>3 DEF TicksOK, UnusedEmpty, BookOK, BookLiveIffGross
  <2>2. Book.arrays[s][i].fee_growth_outside_1 = 0
    BY <2>1 DEF LiveTickHasGross
  <2> QED
    BY <1>2, <2>2 DEF ReadInitialized
<1>4. SeesTicks(Book)
  BY <1>3, UsableAreTicks DEF SeesTicks
<1> QED
  BY <1>4 DEF TablesOK, TicksOK, BookOK

SameArrays(book, after) == DOMAIN after.arrays = DOMAIN book.arrays

LEMMA UpdateKeepsTicks ==
    ASSUME NEW book, TicksOK(book), NEW tick \in Ticks, NEW word, NEW delta, NEW is_upper,
           UpdateTickOk(book, tick, word, delta, is_upper)
    PROVE  /\ TicksOK(AfterUpdateTick(book, tick, delta, is_upper))
           /\ SameArrays(book, AfterUpdateTick(book, tick, delta, is_upper))
<1> DEFINE start == TickToArrayStart(tick)
           slot  == SlotOf(start, tick)
           after == AfterUpdateTick(book, tick, delta, is_upper)
<1>1. BookOK(after)
  BY UpdateKeepsBook DEF TicksOK
<1>2. /\ start \in DOMAIN book.arrays
      /\ slot \in Slots
      /\ DOMAIN after.arrays = DOMAIN book.arrays
      /\ \A s \in DOMAIN book.arrays, i \in Slots :
            after.arrays[s][i] = IF s = start /\ i = slot
                                   THEN UpdatedTick(book.arrays[start][slot], delta, is_upper)
                                   ELSE book.arrays[s][i]
  BY UpdateWrites DEF TicksOK, BookOK
<1>5. tick \in UsableTicks /\ tick = start + slot * TICK_SPACING
  BY SlotRecoversTick DEF UpdateTickOk, UsableTicks
<1>6. WordsOwn(after)
  <2>1. after.bitmaps = UpdatedBitmaps(book, tick, delta)
    BY DEF AfterUpdateTick
  <2>2. book.bitmaps \in [Words -> TickBitmap]
    BY DEF TicksOK, BookOK, BookTypeOK
  <2>4. \A w \in Words : book.bitmaps[w].claimed => book.bitmaps[w].word_index = w
    BY DEF TicksOK, WordsOwn
  <2> HIDE DEF after
  <2>3. after.bitmaps = book.bitmaps
        \/ \E bits : after.bitmaps = [book.bitmaps EXCEPT ![TickWord(tick)] =
                         [claimed |-> TRUE, word_index |-> TickWord(tick),
                          initialized_arrays |-> bits]]
    BY <2>1 DEF UpdatedBitmaps
  <2>5. ASSUME NEW w \in Words, after.bitmaps[w].claimed
        PROVE  after.bitmaps[w].word_index = w
    <3>1. CASE after.bitmaps = book.bitmaps
      BY <2>4, <2>5, <3>1
    <3>2. ASSUME NEW bits,
                 after.bitmaps = [book.bitmaps EXCEPT ![TickWord(tick)] =
                    [claimed |-> TRUE, word_index |-> TickWord(tick),
                     initialized_arrays |-> bits]]
          PROVE  after.bitmaps[w].word_index = w
      BY <2>2, <2>4, <2>5, <3>2
    <3> QED
      BY <2>3, <3>1, <3>2
  <2> QED
    BY <2>5 DEF WordsOwn
<1> HIDE DEF start, slot, after
<1>7. UnusedEmpty(after)
  <2> SUFFICES ASSUME NEW s \in DOMAIN after.arrays, NEW i \in Slots,
                      s + i * TICK_SPACING \notin UsableTicks
               PROVE  /\ after.arrays[s][i].liquidity_net = 0
                      /\ after.arrays[s][i].liquidity_gross = 0
    BY DEF UnusedEmpty
  <2>1. ~(s = start /\ i = slot)
    BY <1>5
  <2>2. s \in DOMAIN book.arrays /\ after.arrays[s][i] = book.arrays[s][i]
    BY <2>1, <1>2, Zenon
  <2> QED
    BY <2>2 DEF TicksOK, UnusedEmpty
<1> QED
  BY <1>1, <1>2, <1>6, <1>7 DEF TicksOK, SameArrays, after

\* What a book holds for a tick; nothing where there is no array.
InBook(book, t) ==
    IF TickToArrayStart(t) \in DOMAIN book.arrays THEN Tick(book.arrays, t) ELSE ZeroTick

LEMMA TickAtIsInBook == \A t : TickAt(t) = InBook(Book, t)
BY DEF TickAt, InBook, Book

\* One book is another with the liquidity of one tick changed.
OneChanged(book, after, tick, delta, is_upper) ==
    \A t \in UsableTicks :
        LET old == InBook(book, t)
            new == InBook(after, t)
        IN  /\ t = tick => /\ new.liquidity_gross = GrossAfter(old.liquidity_gross, delta)
                           /\ new.liquidity_net = NetAfter(old.liquidity_net, delta, is_upper)
            /\ t # tick => new = old

\* An update changes what is held for its tick, and for no other.
LEMMA UpdateChangesOne ==
    ASSUME NEW book, TicksOK(book), NEW tick \in UsableTicks, NEW word, NEW delta, NEW is_upper,
           UpdateTickOk(book, tick, word, delta, is_upper)
    PROVE  OneChanged(book, AfterUpdateTick(book, tick, delta, is_upper), tick, delta, is_upper)
<1> SUFFICES ASSUME NEW t \in UsableTicks
             PROVE  LET old == InBook(book, t)
                        new == InBook(AfterUpdateTick(book, tick, delta, is_upper), t)
                    IN  /\ t = tick =>
                             /\ new.liquidity_gross = GrossAfter(old.liquidity_gross, delta)
                             /\ new.liquidity_net = NetAfter(old.liquidity_net, delta, is_upper)
                        /\ t # tick => new = old
  BY DEF OneChanged
<1> DEFINE start == TickToArrayStart(tick)
           slot  == SlotOf(start, tick)
           mine  == TickToArrayStart(t)
           place == SlotOf(mine, t)
           after == AfterUpdateTick(book, tick, delta, is_upper)
<1>1. tick \in Ticks /\ t \in Ticks
  BY UsableAreTicks
<1>2. place \in Slots
  BY <1>1, TickSlot
<1>3. /\ start \in DOMAIN book.arrays
      /\ DOMAIN after.arrays = DOMAIN book.arrays
      /\ \A s \in DOMAIN book.arrays, i \in Slots :
            after.arrays[s][i] = IF s = start /\ i = slot
                                   THEN UpdatedTick(book.arrays[start][slot], delta, is_upper)
                                   ELSE book.arrays[s][i]
  BY <1>1, UpdateWrites DEF TicksOK, BookOK
<1>4. t # tick => ~(mine = start /\ place = slot)
  BY SlotRecoversTick
<1>5. /\ InBook(book, t)  = IF mine \in DOMAIN book.arrays
                              THEN book.arrays[mine][place] ELSE ZeroTick
      /\ InBook(after, t) = IF mine \in DOMAIN after.arrays
                              THEN after.arrays[mine][place] ELSE ZeroTick
  BY DEF InBook, Tick
<1>6. t = tick => mine = start /\ place = slot
  OBVIOUS
<1> HIDE DEF start, slot, mine, place, after
<1>7. t # tick => InBook(after, t) = InBook(book, t)
  BY <1>2, <1>3, <1>4, <1>5
<1>8. t = tick => InBook(after, t) = UpdatedTick(InBook(book, t), delta, is_upper)
  BY <1>2, <1>3, <1>5, <1>6
<1> QED
  BY <1>7, <1>8 DEF UpdatedTick, after

\* The two calls of an instruction, one after the other: good tables stay good,
\* and two ticks hold more or less by what the position stands for.
Moved(lower, upper, delta) ==
    /\ DOMAIN tick_arrays' = DOMAIN tick_arrays
    /\ \A t \in UsableTicks :
         /\ NetOf(t)'   = NetOf(t) + (IF t = lower THEN delta ELSE 0)
                                   - (IF t = upper THEN delta ELSE 0)
         /\ GrossOf(t)' = GrossOf(t) + (IF t = lower THEN delta ELSE 0)
                                     + (IF t = upper THEN delta ELSE 0)

LEMMA HeldIsInt ==
    ASSUME TicksOK(Book), NEW t \in UsableTicks
    PROVE  NetOf(t) \in Int /\ GrossOf(t) \in Int
<1> DEFINE mine  == TickToArrayStart(t)
           place == SlotOf(mine, t)
<1>1. place \in Slots
  BY UsableAreTicks, TickSlot
<1>2. TickAt(t) = IF mine \in DOMAIN tick_arrays THEN tick_arrays[mine][place] ELSE ZeroTick
  BY DEF TickAt, Tick
<1> HIDE DEF mine, place
<1>3. \A s \in DOMAIN tick_arrays : tick_arrays[s][place] \in TickData
  BY <1>1 DEF TicksOK, BookOK, BookTypeOK, Book
<1>4. \A d \in TickData : d.liquidity_net \in Int /\ d.liquidity_gross \in Int
  BY WidthsPositive DEF TickData, I128, I128Min, I128Max
<1>5. ZeroTick.liquidity_net \in Int /\ ZeroTick.liquidity_gross \in Int
  BY DEF ZeroTick
<1> QED
  BY <1>2, <1>3, <1>4, <1>5 DEF NetOf, GrossOf

LEMMA TwoUpdates ==
    ASSUME TicksOK(Book), NEW lower \in UsableTicks, NEW upper \in UsableTicks, lower # upper,
           NEW delta \in Int, UpdateTicksOk(lower, upper, delta),
           UpdateTicks(lower, upper, delta)
    PROVE  TicksOK(Book)' /\ Moved(lower, upper, delta)
<1> DEFINE first  == AfterUpdateTick(Book, lower, delta, FALSE)
           second == AfterUpdateTick(first, upper, delta, TRUE)
<1>1. lower \in Ticks /\ upper \in Ticks
  BY UsableAreTicks
<1>2. /\ UpdateTickOk(Book, lower, TickWord(lower), delta, FALSE)
      /\ UpdateTickOk(first, upper, TickWord(upper), delta, TRUE)
  BY DEF UpdateTicksOk, BookAfterLower
<1>3. TicksOK(first) /\ SameArrays(Book, first)
  BY <1>1, <1>2, UpdateKeepsTicks
<1>4. TicksOK(second) /\ SameArrays(first, second)
  BY <1>1, <1>2, <1>3, UpdateKeepsTicks
<1>5. Book' = second
  BY DEF UpdateTicks, BookAfterLower, Book, AfterUpdateTick
<1>7. OneChanged(Book, first, lower, delta, FALSE)
  BY <1>2, UpdateChangesOne
<1>8. OneChanged(first, second, upper, delta, TRUE)
  BY <1>2, <1>3, UpdateChangesOne
<1> HIDE DEF first, second
<1>6. ASSUME NEW t \in UsableTicks
      PROVE  /\ NetOf(t)'   = NetOf(t) + (IF t = lower THEN delta ELSE 0)
                                       - (IF t = upper THEN delta ELSE 0)
             /\ GrossOf(t)' = GrossOf(t) + (IF t = lower THEN delta ELSE 0)
                                         + (IF t = upper THEN delta ELSE 0)
  <2>1. NetOf(t) \in Int /\ GrossOf(t) \in Int
    BY HeldIsInt
  <2>2. /\ NetOf(t) = InBook(Book, t).liquidity_net
        /\ GrossOf(t) = InBook(Book, t).liquidity_gross
    BY TickAtIsInBook DEF NetOf, GrossOf
  <2>3. TickAt(t)' = InBook(second, t)
    BY <1>5 DEF TickAt, InBook, Book
  <2>4. /\ NetOf(t)' = InBook(second, t).liquidity_net
        /\ GrossOf(t)' = InBook(second, t).liquidity_gross
    BY <2>3 DEF NetOf, GrossOf
  <2>5. CASE t = lower
    BY <2>1, <2>2, <2>4, <2>5, <1>7, <1>8 DEF OneChanged, GrossAfter, NetAfter
  <2>6. CASE t = upper
    BY <2>1, <2>2, <2>4, <2>6, <1>7, <1>8 DEF OneChanged, GrossAfter, NetAfter
  <2>7. CASE t # lower /\ t # upper
    <3>1. InBook(second, t) = InBook(Book, t)
      BY <2>7, <1>7, <1>8 DEF OneChanged
    <3>2. NetOf(t)' = NetOf(t) /\ GrossOf(t)' = GrossOf(t)
      BY <3>1, <2>2, <2>4
    <3> QED
      BY <3>2, <2>1, <2>7
  <2> QED
    BY <2>5, <2>6, <2>7
<1>9. DOMAIN tick_arrays' = DOMAIN tick_arrays
  <2>1. Book.arrays = tick_arrays /\ (Book.arrays)' = tick_arrays'
    BY DEF Book
  <2> QED
    BY <2>1, <1>3, <1>4, <1>5 DEF SameArrays
<1>10. TicksOK(Book)'
  BY <1>4, <1>5 DEF TicksOK, BookOK, BookTypeOK, BookLiveIffGross, BookBitmapSound,
                    UnusedEmpty, WordsOwn, ArrayLive
<1> QED
  BY <1>6, <1>9, <1>10 DEF Moved

-------------------------------------------------------------------------------
(* The system.                                                                 *)

\* A pool that does not exist yet has collected nothing.
FreshPool == ~pool.initialized => pool = NoPool

LedgerInv ==
    /\ TicksOK(Book)
    /\ PoolTypeOK
    /\ FreshPool
    /\ PositionTypeOK
    /\ CheckpointBehind

SystemInv == ReceiptInv /\ LedgerInv

LEMMA AsI128Int ==
    ASSUME NEW a \in U128
    PROVE  AsI128(a) \in Int
BY WidthsPositive DEF AsI128, I128Max

\* The pool when a position enters or leaves it.
PoolServed == /\ pool.initialized
              /\ pool' \in Pool
              /\ pool'.initialized
              /\ pool'.fee_growth_global = pool.fee_growth_global
              /\ pool'.protocol_fee = pool.protocol_fee

LEMMA ServeType ==
    ASSUME pool \in Pool, NEW delta \in Int, NEW lower, NEW upper,
           ModifyLiquidityOk(pool, delta, lower, upper),
           pool' = PoolAfterModify(pool, delta, lower, upper)
    PROVE  PoolServed
<1>1. pool.initialized
  BY DEF ModifyLiquidityOk
<1>2. pool' = pool \/ \E liquidity : pool' = [pool EXCEPT !.liquidity = liquidity]
  BY DEF PoolAfterModify
<1>3. pool'.initialized
  BY <1>1, <1>2 DEF Pool
<1> QED
  BY <1>1, <1>3, PoolAfterModifyType DEF PoolServed

\* A position is no larger than its range lets it be.
WithinLimit(pos) ==
    pos.liquidity <= LiquidityLimit(SqrtPriceAt[pos.tick_lower], SqrtPriceAt[pos.tick_upper])

\* What a transaction does that opens a position ...
Opened(owner, nft, pos, paid) ==
    /\ pos \in Position /\ pos.tick_lower < pos.tick_upper /\ pos.liquidity > 0
    /\ WithinLimit(pos)
    /\ pos.owner = owner
    /\ pos.fee_growth_checkpoint = pool.fee_growth_global
    /\ pos.tokens_owed = [k \in Tokens |-> 0]
    /\ nft \notin nft_minted
    /\ positions' = [positions EXCEPT ![nft] = pos]
    /\ nft_holder' = [nft_holder EXCEPT ![nft] = owner]
    /\ nft_minted' = nft_minted \cup {nft}
    /\ TicksOK(Book)' /\ Moved(pos.tick_lower, pos.tick_upper, AsI128(pos.liquidity))
    /\ PoolServed /\ AccountsOK' /\ TokensKept
    /\ pool' = PoolAfterModify(pool, AsI128(pos.liquidity), pos.tick_lower, pos.tick_upper)
    /\ PayIn(owner, PositionAmounts(pool, pos.tick_lower, pos.tick_upper, pos.liquidity), paid)

\* ... and one that closes it.
Closed(owner, nft) ==
    /\ IsOpen(nft) /\ nft_holder[nft] = owner /\ positions[nft].owner = owner
    /\ positions' = [positions EXCEPT ![nft] = NoPosition]
    /\ nft_holder' = [nft_holder EXCEPT ![nft] = Nobody]
    /\ nft_minted' = nft_minted
    /\ TicksOK(Book)'
    /\ Moved(positions[nft].tick_lower, positions[nft].tick_upper,
             -AsI128(positions[nft].liquidity))
    /\ PoolServed /\ AccountsOK' /\ TokensKept
    /\ pool' = PoolAfterModify(pool, -AsI128(positions[nft].liquidity),
                               positions[nft].tick_lower, positions[nft].tick_upper)
    /\ PayOut(owner, Claim(positions[nft], pool))

LEMMA OpenDoes ==
    ASSUME LedgerInv, Open
    PROVE  \E owner \in Users, nft \in Nfts, paid \in SUBSET Tokens :
              \E pos : Opened(owner, nft, pos, paid)
<1>1. PICK owner \in Users, nft \in Nfts, d \in Deposits, m \in Minimums, r \in Ranges,
            paid \in SUBSET Tokens : OpenPosition(owner, nft, d, m, r[1], r[2], paid)
  BY DEF Open
<1> DEFINE lower == r[1]
           upper == r[2]
           liquidity == OpenLiquidity(lower, upper, d)
           amounts == PositionAmounts(pool, lower, upper, liquidity)
           pos == NewPosition(owner, lower, upper, liquidity)
<1>2. /\ lower < upper /\ lower \in UsableTicks /\ upper \in UsableTicks
      /\ nft \notin nft_minted
      /\ OpenWith(owner, nft, liquidity, amounts, m, lower, upper, paid)
  BY <1>1 DEF OpenPosition
<1>3. /\ SqrtPriceAt[lower] \in Nat /\ SqrtPriceAt[upper] \in Nat
      /\ SqrtPriceAt[lower] <= SqrtPriceAt[upper]
      /\ SqrtPriceAt[lower] < SqrtPriceAt[upper]
  <2>1. lower \in Ticks /\ upper \in Ticks
    BY <1>2, UsableAreTicks
  <2>2. SqrtPriceAt[lower] \in U128 /\ SqrtPriceAt[upper] \in U128
    BY <2>1, PriceAssumption
  <2>3. SqrtPriceAt[lower] < SqrtPriceAt[upper]
    BY <2>1, <1>2, PriceAssumption
  <2>4. \A a, b \in Nat : a < b => a <= b
    OBVIOUS
  <2> QED
    BY <2>2, <2>3, <2>4, U128IsNat
<1>4. pool \in Pool /\ pool.sqrt_price \in Nat
  BY U128IsNat DEF LedgerInv, PoolTypeOK, Pool
<1>5. d[0] \in U64 /\ d[1] \in U64
  BY DepositsAssumption
<1>6. liquidity \in U128
  BY <1>3, <1>4, <1>5, LiquidityType DEF OpenLiquidity
<1>16. liquidity <= LiquidityLimit(SqrtPriceAt[lower], SqrtPriceAt[upper])
  BY <1>3, <1>4, <1>5, LiquidityWithinLimit DEF OpenLiquidity
<1> HIDE DEF lower, upper, liquidity
<1>7. Amounts(amounts)
  BY <1>3, <1>4, <1>6, AmountsType DEF PositionAmounts
<1>17. amounts = PositionAmounts(pool, lower, upper, liquidity)
  OBVIOUS
<1> HIDE DEF amounts
<1>8. AsI128(liquidity) \in Int
  BY <1>6, AsI128Int
<1>9. TicksOK(Book)' /\ Moved(lower, upper, AsI128(liquidity))
  BY <1>2, <1>8, TwoUpdates, UsableAreTicks DEF OpenWith, LedgerInv
<1>10. PoolServed
  BY <1>2, <1>4, <1>8, ServeType DEF OpenWith
<1>11. AccountsOK' /\ TokensKept
  BY <1>2, <1>7, PayType, PayConserves DEF OpenWith, LedgerInv, PoolTypeOK, AccountsOK
<1>12. /\ pos \in Position /\ pos.tick_lower < pos.tick_upper /\ pos.liquidity > 0
       /\ pos.fee_growth_checkpoint = pool.fee_growth_global
  <2>1. pool.fee_growth_global \in [Tokens -> U128]
    BY <1>4 DEF Pool
  <2>2. 0 \in U64
    BY WidthsPositive
  <2>3. liquidity > 0
    BY <1>2 DEF OpenWith
  <2> QED
    BY <1>2, <1>6, <2>1, <2>2, <2>3 DEF NewPosition, Position
<1>13. /\ positions' = [positions EXCEPT ![nft] = pos]
       /\ nft_holder' = [nft_holder EXCEPT ![nft] = owner]
       /\ nft_minted' = nft_minted \cup {nft}
  BY <1>2 DEF OpenWith, MintNft
<1>14. /\ pos.tick_lower = lower /\ pos.tick_upper = upper /\ pos.liquidity = liquidity
       /\ pos.owner = owner /\ pos.tokens_owed = [k \in Tokens |-> 0]
  BY DEF NewPosition
<1>18. /\ pool' = PoolAfterModify(pool, AsI128(liquidity), lower, upper)
       /\ PayIn(owner, amounts, paid)
  BY <1>2 DEF OpenWith
<1> HIDE DEF pos
<1>15. Opened(owner, nft, pos, paid)
  BY <1>2, <1>9, <1>10, <1>11, <1>12, <1>13, <1>14, <1>16, <1>17, <1>18
     DEF Opened, WithinLimit
<1> QED
  BY <1>15

\* An open position is one of the table's records.
LEMMA OpenIsPosition ==
    ASSUME PositionTypeOK, NEW n \in Nfts, IsOpen(n)
    PROVE  /\ positions[n] \in Position
           /\ positions[n].tick_lower < positions[n].tick_upper
           /\ positions[n].liquidity > 0
BY DEF PositionTypeOK, OpenNfts, IsOpen

LEMMA CloseDoes ==
    ASSUME LedgerInv, Close
    PROVE  \E owner \in Users, nft \in Nfts : Closed(owner, nft)
<1>1. PICK owner \in Users, nft \in Nfts, m \in Minimums : ClosePosition(owner, nft, m)
  BY DEF Close
<1> DEFINE pos == positions[nft]
           claim == Claim(pos, pool)
           delta == -AsI128(pos.liquidity)
<1>2. pos \in Position /\ pos.tick_lower < pos.tick_upper
  BY <1>1, OpenIsPosition DEF ClosePosition, LedgerInv
<1>3. pool \in Pool
  BY DEF LedgerInv, PoolTypeOK
<1>4. Amounts(claim)
  BY <1>2, <1>3, ClaimType
<1>5. delta \in Int
  <2>1. AsI128(pos.liquidity) \in Int
    BY <1>2, AsI128Int DEF Position
  <2> QED
    BY <2>1
<1>6. PayOut(owner, claim) /\ RemoveLiquidity(pos, delta)
  BY <1>1 DEF ClosePosition
<1>12. claim = Claim(pos, pool)
  OBVIOUS
<1> HIDE DEF claim, delta
<1>7. AccountsOK' /\ TokensKept
  BY <1>4, <1>6, PayType, PayConserves DEF LedgerInv, PoolTypeOK, AccountsOK
<1>8. TicksOK(Book)' /\ Moved(pos.tick_lower, pos.tick_upper, delta)
  <2>1. /\ pos.tick_lower \in UsableTicks /\ pos.tick_upper \in UsableTicks
        /\ pos.tick_lower # pos.tick_upper
    BY <1>2, UsableAreTicks DEF Position
  <2> QED
    BY <1>5, <1>6, <2>1, TwoUpdates DEF RemoveLiquidity, LedgerInv
<1>9. PoolServed
  BY <1>3, <1>5, <1>6, ServeType DEF RemoveLiquidity
<1>10. /\ IsOpen(nft) /\ nft_holder[nft] = owner /\ pos.owner = owner
       /\ positions' = [positions EXCEPT ![nft] = NoPosition]
       /\ nft_holder' = [nft_holder EXCEPT ![nft] = Nobody]
       /\ nft_minted' = nft_minted
  BY <1>1 DEF ClosePosition, BurnNft
<1>11. Closed(owner, nft)
  BY <1>6, <1>7, <1>8, <1>9, <1>10, <1>12 DEF Closed, RemoveLiquidity, delta
<1> QED
  BY <1>11

LEMMA OpenKeepsLedger ==
    ASSUME ReceiptInv, LedgerInv, NEW owner \in Users, NEW nft \in Nfts, NEW pos, NEW paid,
           Opened(owner, nft, pos, paid), unbacked' \in [Kinds -> Nat]
    PROVE  LedgerInv' /\ GrowthKept
<1>1. /\ pool' \in Pool /\ pool'.initialized
      /\ pool'.fee_growth_global = pool.fee_growth_global
      /\ pool'.protocol_fee = pool.protocol_fee
  BY DEF Opened, PoolServed
<1>2. \A k \in Tokens : pool.fee_growth_global[k] \in Int /\ pool.protocol_fee[k] \in Int
  BY WidthsPositive DEF LedgerInv, PoolTypeOK, Pool
<1>3. \A n \in Nfts : positions'[n] = IF n = nft THEN pos ELSE positions[n]
  BY DEF Opened, ReceiptInv
<1>4. PositionTypeOK'
  <2>1. positions' \in [Nfts -> Position \cup {NoPosition}]
    BY DEF Opened, LedgerInv, PositionTypeOK
  <2>2. \A n \in OpenNfts' : /\ positions'[n].tick_lower < positions'[n].tick_upper
                             /\ positions'[n].liquidity > 0
    BY <1>3 DEF Opened, LedgerInv, PositionTypeOK, OpenNfts, IsOpen
  <2>3. nft_minted' \subseteq Nfts
    BY DEF Opened, LedgerInv, PositionTypeOK
  <2>4. nft_holder' \in [Nfts -> Users \cup {Nobody}]
    BY DEF Opened, LedgerInv, PositionTypeOK
  <2> QED
    BY <2>1, <2>2, <2>3, <2>4 DEF PositionTypeOK
<1>5. CheckpointBehind'
  <2> SUFFICES ASSUME NEW n \in OpenNfts', NEW k \in Tokens
               PROVE  positions'[n].fee_growth_checkpoint[k] <= pool'.fee_growth_global[k]
    BY DEF CheckpointBehind
  <2>1. CASE n = nft
    BY <2>1, <1>1, <1>2, <1>3 DEF Opened
  <2>2. CASE n # nft
    <3>1. n \in OpenNfts /\ positions'[n] = positions[n]
      BY <2>2, <1>3 DEF OpenNfts, IsOpen
    <3> QED
      BY <3>1, <1>1 DEF LedgerInv, CheckpointBehind
  <2> QED
    BY <2>1, <2>2
<1>6. PoolTypeOK' /\ FreshPool'
  BY <1>1 DEF Opened, PoolTypeOK, AccountsOK, FreshPool
<1>7. GrowthKept
  BY <1>1, <1>2 DEF GrowthKept
<1> QED
  BY <1>4, <1>5, <1>6, <1>7 DEF Opened, LedgerInv

LEMMA CloseKeepsLedger ==
    ASSUME ReceiptInv, LedgerInv, NEW owner \in Users, NEW nft \in Nfts, Closed(owner, nft),
           unbacked' \in [Kinds -> Nat]
    PROVE  LedgerInv' /\ GrowthKept
<1>1. /\ pool' \in Pool /\ pool'.initialized
      /\ pool'.fee_growth_global = pool.fee_growth_global
      /\ pool'.protocol_fee = pool.protocol_fee
  BY DEF Closed, PoolServed
<1>2. \A k \in Tokens : pool.fee_growth_global[k] \in Int /\ pool.protocol_fee[k] \in Int
  BY WidthsPositive DEF LedgerInv, PoolTypeOK, Pool
<1>3. \A n \in Nfts : positions'[n] = IF n = nft THEN NoPosition ELSE positions[n]
  BY DEF Closed, ReceiptInv
<1>4. \A n \in OpenNfts' : n \in OpenNfts /\ positions'[n] = positions[n]
  BY <1>3 DEF OpenNfts, IsOpen
<1>5. PositionTypeOK'
  <2>1. positions' \in [Nfts -> Position \cup {NoPosition}]
    BY DEF Closed, LedgerInv, PositionTypeOK
  <2>2. nft_minted' \subseteq Nfts /\ nft_holder' \in [Nfts -> Users \cup {Nobody}]
    BY DEF Closed, LedgerInv, PositionTypeOK
  <2> QED
    BY <2>1, <2>2, <1>4 DEF LedgerInv, PositionTypeOK
<1>6. CheckpointBehind'
  BY <1>1, <1>4 DEF LedgerInv, CheckpointBehind
<1>7. PoolTypeOK' /\ FreshPool'
  BY <1>1 DEF Closed, PoolTypeOK, AccountsOK, FreshPool
<1>8. GrowthKept
  BY <1>1, <1>2 DEF GrowthKept
<1> QED
  BY <1>5, <1>6, <1>7, <1>8 DEF Closed, LedgerInv

LEMMA CollectKeepsLedger ==
    ASSUME ReceiptInv, LedgerInv, Collect, unbacked' \in [Kinds -> Nat]
    PROVE  LedgerInv' /\ GrowthKept
<1>1. PICK owner \in Users, nft \in Nfts : CollectFees(owner, nft)
  BY DEF Collect
<1> DEFINE pos == positions[nft]
           new == Checkpointed(pos)
           fees == ClaimedFees(pos, pool)
<1>2. IsOpen(nft) /\ PayOut(owner, fees) /\ positions' = [positions EXCEPT ![nft] = new]
      /\ UNCHANGED <<tickVars, pool, nft_minted, nft_holder>>
  BY <1>1 DEF CollectFees
<1>3. pool \in Pool /\ pos \in Position /\ pos.tick_lower < pos.tick_upper
  BY <1>2, OpenIsPosition DEF LedgerInv, PoolTypeOK
<1>4. Amounts(fees)
  BY <1>3, ClaimType
<1>5. /\ new \in Position
      /\ new.tick_lower = pos.tick_lower /\ new.tick_upper = pos.tick_upper
      /\ new.liquidity = pos.liquidity
      /\ new.fee_growth_checkpoint = pool.fee_growth_global
  <2>1. pool.fee_growth_global \in [Tokens -> U128] /\ 0 \in U64
    BY <1>3, WidthsPositive DEF Pool
  <2> QED
    BY <1>3, <2>1 DEF Checkpointed, Position
<1> HIDE DEF new, fees
<1>6. AccountsOK'
  BY <1>2, <1>4, PayType DEF LedgerInv, PoolTypeOK, AccountsOK
<1>7. \A k \in Tokens : pool.fee_growth_global[k] \in Int
  BY <1>3, WidthsPositive DEF Pool
<1>8. \A n \in Nfts : positions'[n] = IF n = nft THEN new ELSE positions[n]
  BY <1>2 DEF ReceiptInv
<1>9. \A n \in OpenNfts' : n \in OpenNfts /\ n \in Nfts
  BY <1>2, <1>8 DEF OpenNfts, IsOpen
<1>10. PositionTypeOK'
  <2>1. positions' \in [Nfts -> Position \cup {NoPosition}]
    BY <1>2, <1>5 DEF LedgerInv, PositionTypeOK
  <2>2. \A n \in OpenNfts' : /\ positions'[n].tick_lower < positions'[n].tick_upper
                             /\ positions'[n].liquidity > 0
    <3> SUFFICES ASSUME NEW n \in OpenNfts'
                 PROVE  /\ positions'[n].tick_lower < positions'[n].tick_upper
                        /\ positions'[n].liquidity > 0
      OBVIOUS
    <3>1. /\ positions[n].tick_lower < positions[n].tick_upper
          /\ positions[n].liquidity > 0
      BY <1>9 DEF LedgerInv, PositionTypeOK
    <3>2. positions'[n].tick_lower = positions[n].tick_lower
          /\ positions'[n].tick_upper = positions[n].tick_upper
          /\ positions'[n].liquidity = positions[n].liquidity
      BY <1>5, <1>8, <1>9
    <3> QED
      BY <3>1, <3>2
  <2> QED
    BY <2>1, <2>2, <1>2 DEF LedgerInv, PositionTypeOK
<1>11. CheckpointBehind'
  <2> SUFFICES ASSUME NEW n \in OpenNfts', NEW k \in Tokens
               PROVE  positions'[n].fee_growth_checkpoint[k] <= pool'.fee_growth_global[k]
    BY DEF CheckpointBehind
  <2>1. n \in OpenNfts /\ n \in Nfts
    BY <1>9 DEF OpenNfts
  <2>2. CASE n = nft
    BY <2>1, <2>2, <1>2, <1>5, <1>7, <1>8
  <2>3. CASE n # nft
    BY <2>1, <2>3, <1>2, <1>8 DEF LedgerInv, CheckpointBehind
  <2> QED
    BY <2>2, <2>3
<1>12. TicksOK(Book)'
  <2>1. Book' = Book
    BY <1>2 DEF Book, tickVars
  <2> QED
    BY <2>1 DEF LedgerInv, TicksOK, BookOK, BookTypeOK, BookLiveIffGross, BookBitmapSound,
                UnusedEmpty, WordsOwn, ArrayLive
<1>13. GrowthKept
  BY <1>2, <1>3, PoolKept
<1> QED
  BY <1>2, <1>6, <1>10, <1>11, <1>12, <1>13
     DEF LedgerInv, PoolTypeOK, AccountsOK, FreshPool

\* The steps that leave the tables of positions alone, and take no accumulator
\* back.
LEMMA OthersKeepLedger ==
    ASSUME LedgerInv, GrowthKept, PoolTypeOK', FreshPool', TicksOK(Book)',
           UNCHANGED positionVars, unbacked' \in [Kinds -> Nat]
    PROVE  LedgerInv'
<1>1. PositionTypeOK'
  BY DEF LedgerInv, PositionTypeOK, positionVars, OpenNfts, IsOpen
<1>2. CheckpointBehind'
  <2> SUFFICES ASSUME NEW n \in OpenNfts', NEW k \in Tokens
               PROVE  positions'[n].fee_growth_checkpoint[k] <= pool'.fee_growth_global[k]
    BY DEF CheckpointBehind
  <2>1. n \in OpenNfts /\ positions'[n] = positions[n]
    BY DEF positionVars, OpenNfts, IsOpen
  <2>2. positions[n] \in Position
    BY <2>1, OpenIsPosition DEF OpenNfts, LedgerInv
  <2>3. /\ positions[n].fee_growth_checkpoint[k] \in Int
        /\ pool.fee_growth_global[k] \in Int /\ pool'.fee_growth_global[k] \in Int
    BY <2>2, WidthsPositive DEF Position, LedgerInv, PoolTypeOK, Pool
  <2>4. /\ positions[n].fee_growth_checkpoint[k] <= pool.fee_growth_global[k]
        /\ pool.fee_growth_global[k] <= pool'.fee_growth_global[k]
    BY <2>1 DEF LedgerInv, CheckpointBehind, GrowthKept
  <2> QED
    BY <2>1, <2>3, <2>4
<1> QED
  BY <1>1, <1>2 DEF LedgerInv

LEMMA SameBook ==
    ASSUME TicksOK(Book), UNCHANGED tickVars
    PROVE  TicksOK(Book)'
<1>1. Book' = Book
  BY DEF Book, tickVars
<1> QED
  BY <1>1 DEF TicksOK, BookOK, BookTypeOK, BookLiveIffGross, BookBitmapSound,
              UnusedEmpty, WordsOwn, ArrayLive

LEMMA CreateArrayKeepsTicks ==
    ASSUME TicksOK(Book), CreateArray
    PROVE  TicksOK(Book)'
<1>1. PICK start \in ArrayStarts : InitializeTickArray(start)
  BY DEF CreateArray
<1>2. BookOK(Book)'
  BY <1>1, NewArrayKeepsBook DEF TicksOK, ArrayStarts
<1>4. UnusedEmpty(Book)'
  BY <1>1 DEF InitializeTickArray, TicksOK, UnusedEmpty, Book, ZeroTick
<1>5. WordsOwn(Book)'
  BY <1>1 DEF InitializeTickArray, TicksOK, WordsOwn, Book
<1> QED
  BY <1>2, <1>4, <1>5 DEF TicksOK

\* A client's own update_tick is as careful as one of position_mgr's ...
LEMMA DirectUpdateKeepsTicks ==
    ASSUME TicksOK(Book), CallUpdateTick
    PROVE  TicksOK(Book)'
<1>1. PICK tick \in UsableTicks, delta \in Deltas, is_upper \in BOOLEAN :
         UpdateTick(tick, TickWord(tick), delta, is_upper)
  BY DEF CallUpdateTick
<1>2. /\ UpdateTickOk(Book, tick, TickWord(tick), delta, is_upper)
      /\ Book' = AfterUpdateTick(Book, tick, delta, is_upper)
  BY <1>1, UpdateTickIsAfterUpdate
<1>3. TicksOK(AfterUpdateTick(Book, tick, delta, is_upper))
  BY <1>2, UsableAreTicks, UpdateKeepsTicks
<1> QED
  BY <1>2, <1>3 DEF TicksOK, BookOK, BookTypeOK, BookLiveIffGross, BookBitmapSound,
                    UnusedEmpty, WordsOwn, ArrayLive

\* ... and a cross_tick leaves the liquidity of every tick as it was.
LEMMA CrossingHolds ==
    ASSUME TicksOK(Book), CallCrossTick
    PROVE  /\ DOMAIN tick_arrays' = DOMAIN tick_arrays
           /\ tick_bitmaps' = tick_bitmaps
           /\ BookOK(Book)'
           /\ \A s \in DOMAIN tick_arrays, i \in Slots :
                 /\ tick_arrays'[s][i].liquidity_net = tick_arrays[s][i].liquidity_net
                 /\ tick_arrays'[s][i].liquidity_gross = tick_arrays[s][i].liquidity_gross
<1>1. PICK start \in DOMAIN tick_arrays, tick \in Ticks, g0 \in FeeGrowths, g1 \in FeeGrowths :
         CrossTick(start, tick, g0, g1)
  BY DEF CallCrossTick
<1> DEFINE slot == SlotOf(start, tick)
           old  == tick_arrays[start][slot]
           new  == CrossedTick(old, g0, g1)
<1>2. /\ DOMAIN tick_arrays' = DOMAIN tick_arrays /\ old \in TickData
      /\ \A s \in DOMAIN tick_arrays, i \in Slots :
            tick_arrays'[s][i] = IF s = start /\ i = slot THEN new ELSE tick_arrays[s][i]
  BY <1>1, CrossTickWrites DEF TicksOK, BookOK
<1>3. new.liquidity_net = old.liquidity_net /\ new.liquidity_gross = old.liquidity_gross
  BY <1>2 DEF CrossedTick, TickData
<1>4. tick_bitmaps' = tick_bitmaps
  BY <1>1 DEF CrossTick
<1>5. BookOK(Book)'
  BY <1>1, CrossTickKeepsBook DEF TicksOK
<1>6. old = tick_arrays[start][slot]
  OBVIOUS
<1> HIDE DEF slot, old, new
<1> QED
  BY <1>2, <1>3, <1>4, <1>5, <1>6

LEMMA CrossingKeepsTicks ==
    ASSUME TicksOK(Book), CallCrossTick
    PROVE  TicksOK(Book)'
<1>1. UnusedEmpty(Book)'
  BY CrossingHolds DEF TicksOK, UnusedEmpty, Book
<1>2. WordsOwn(Book)'
  BY CrossingHolds DEF TicksOK, WordsOwn, Book
<1> QED
  BY <1>1, <1>2, CrossingHolds DEF TicksOK

\* The history counts; it is never taken back.
LEMMA UnbackedCounts ==
    ASSUME unbacked \in [Kinds -> Nat], NEW kind \in Kinds, Unbacked(kind)
    PROVE  /\ unbacked' \in [Kinds -> Nat]
           /\ unbacked'[kind] = unbacked[kind] + 1
           /\ \A other \in Kinds \ {kind} : unbacked'[other] = unbacked[other]
BY DEF Unbacked

LEMMA KindsAre == "ticks" \in Kinds /\ "liquidity" \in Kinds /\ "tokens" \in Kinds
BY DEF Kinds

\* A change that is counted shows.
LEMMA Counted ==
    ASSUME unbacked \in [Kinds -> Nat], NEW kind \in Kinds, Unbacked(kind)
    PROVE  unbacked'[kind] # unbacked[kind]
<1>1. unbacked[kind] \in Nat /\ unbacked'[kind] = unbacked[kind] + 1
  BY UnbackedCounts
<1> QED
  BY <1>1

\* What a step of the system adds to it.
LEMMA UnbackedCases ==
    ASSUME [Next]_vars
    PROVE  \/ UNCHANGED unbacked
           \/ Unbacked("tokens")
           \/ Unbacked("liquidity")
           \/ CallUpdateTick /\ Unbacked("ticks")
<1>1. CASE Open
  BY <1>1 DEF Open, OpenPosition, OpenWith, PayIn
<1>2. CASE Close \/ Collect \/ HandOver \/ Burn \/ CallCrossTick
  BY <1>2 DEF Close, ClosePosition, Collect, CollectFees, HandOver, TransferNft,
              Burn, BurnByHolder, CallCrossTick
<1>3. CASE CallUpdateTick \/ CallModifyLiquidity \/ MoveTokens
  BY <1>3 DEF CallUpdateTick, CallModifyLiquidity, MoveTokens
<1> QED
  BY <1>1, <1>2, <1>3 DEF Next, vars

\* Only a direct update_tick is counted as one.
LEMMA UnbackedStep ==
    ASSUME unbacked \in [Kinds -> Nat], [Next]_vars
    PROVE  /\ unbacked' \in [Kinds -> Nat]
           /\ \/ unbacked'["ticks"] = unbacked["ticks"]
              \/ CallUpdateTick /\ unbacked'["ticks"] = unbacked["ticks"] + 1
<1> DEFINE old == unbacked
           new == unbacked'
<1>1. CASE new = old
  <2>1. new \in [Kinds -> Nat]
    BY <1>1
  <2>2. new["ticks"] = old["ticks"]
    BY <1>1
  <2> QED
    BY <2>1, <2>2, Zenon
<1>2. ASSUME NEW kind \in Kinds \ {"ticks"}, Unbacked(kind)
      PROVE  new \in [Kinds -> Nat] /\ new["ticks"] = old["ticks"]
  BY <1>2, KindsAre, UnbackedCounts
<1>4. "tokens" \in Kinds \ {"ticks"} /\ "liquidity" \in Kinds \ {"ticks"}
  BY DEF Kinds
<1>5. \/ new = old \/ Unbacked("tokens") \/ Unbacked("liquidity")
      \/ CallUpdateTick /\ Unbacked("ticks")
  BY UnbackedCases
<1>6. CASE Unbacked("tokens") \/ Unbacked("liquidity")
  BY <1>2, <1>4, <1>6
<1>7. CASE CallUpdateTick /\ Unbacked("ticks")
  BY <1>7, KindsAre, UnbackedCounts
<1> QED
  BY <1>1, <1>5, <1>6, <1>7

\* So the ticks stay sealed in every other transaction.
LEMMA SealKept ==
    ASSUME unbacked \in [Kinds -> Nat],
           \/ UNCHANGED unbacked
           \/ Open \/ Close \/ Collect \/ HandOver \/ Burn
           \/ CallCrossTick \/ CallModifyLiquidity \/ MoveTokens
    PROVE  unbacked'["ticks"] = unbacked["ticks"]
<1>1. UNCHANGED unbacked \/ Unbacked("tokens") \/ Unbacked("liquidity")
  <2>1. CASE Open
    BY <2>1 DEF Open, OpenPosition, OpenWith, PayIn
  <2>2. CASE Close \/ Collect \/ HandOver \/ Burn \/ CallCrossTick
    BY <2>2 DEF Close, ClosePosition, Collect, CollectFees, HandOver, TransferNft,
                Burn, BurnByHolder, CallCrossTick
  <2>3. CASE CallModifyLiquidity \/ MoveTokens
    BY <2>3 DEF CallModifyLiquidity, MoveTokens
  <2> QED
    BY <2>1, <2>2, <2>3
<1>2. "ticks" \in Kinds \ {"tokens"} /\ "ticks" \in Kinds \ {"liquidity"}
  BY DEF Kinds
<1> QED
  BY <1>1, <1>2, KindsAre, UnbackedCounts

\* What may be sent to pool_core directly is what position_mgr asks of it.
LEMMA DirectCallsServe == CallModifyLiquidity \/ MoveTokens => ServePosition
BY DEF CallModifyLiquidity, MoveTokens, ServePosition

LEMMA LedgerStep ==
    ASSUME ReceiptInv, LedgerInv, [Next]_vars
    PROVE  LedgerInv' /\ GrowthKept
<1>0. TicksOK(Book) /\ PoolTypeOK /\ FreshPool /\ pool \in Pool
  BY DEF LedgerInv, PoolTypeOK
<1>9. unbacked' \in [Kinds -> Nat]
  BY UnbackedStep DEF LedgerInv, PositionTypeOK
<1>1. CASE CreatePool /\ UNCHANGED <<tickVars, positionVars>>
  <2>1. PoolTypeOK' /\ ~pool.initialized
    BY <1>0, <1>1, CreatePoolKeeps
  <2>2. pool = NoPool
    BY <2>1, <1>0 DEF FreshPool
  <2>3. PICK p \in InitialPools : InitializePool(p[1], p[2], p[3])
    BY <1>1 DEF CreatePool
  <2>4. /\ pool'.initialized
        /\ pool'.fee_growth_global = pool.fee_growth_global
        /\ pool'.protocol_fee = pool.protocol_fee
    BY <2>2, <2>3 DEF InitializePool, NoPool
  <2>5. GrowthKept
    <3>1. \A k \in Tokens : pool.fee_growth_global[k] \in Int /\ pool.protocol_fee[k] \in Int
      BY <1>0, WidthsPositive DEF Pool
    <3> QED
      BY <3>1, <2>4 DEF GrowthKept
  <2> QED
    BY <1>0, <1>1, <1>9, <2>1, <2>4, <2>5, SameBook, OthersKeepLedger DEF FreshPool
<1>2. CASE CreateArray /\ UNCHANGED <<poolVars, positionVars>>
  <2>1. PoolTypeOK' /\ FreshPool' /\ GrowthKept
    BY <1>0, <1>2, PoolKept DEF poolVars, PoolTypeOK, FreshPool
  <2> QED
    BY <1>0, <1>2, <1>9, <2>1, CreateArrayKeepsTicks, OthersKeepLedger
<1>3. CASE Open
  BY <1>3, <1>9, OpenDoes, OpenKeepsLedger
<1>4. CASE Close
  BY <1>4, <1>9, CloseDoes, CloseKeepsLedger
<1>5. CASE Collect
  BY <1>5, <1>9, CollectKeepsLedger
<1>6. CASE HandOver \/ Burn
  <2>1. PICK to \in Users \cup {Nobody}, nft \in Nfts :
           /\ nft_holder' = [nft_holder EXCEPT ![nft] = to]
           /\ UNCHANGED <<tickVars, poolVars, positions, nft_minted>>
    BY <1>6 DEF HandOver, TransferNft, Burn, BurnByHolder, BurnNft
  <2>2. /\ nft_holder' = [nft_holder EXCEPT ![nft] = to]
        /\ UNCHANGED <<tickVars, poolVars, positions, nft_minted>>
    BY <2>1
  <2>3. PositionTypeOK' /\ CheckpointBehind'
    BY <1>9, <2>2 DEF LedgerInv, PositionTypeOK, CheckpointBehind, OpenNfts, IsOpen, poolVars
  <2>4. PoolTypeOK' /\ FreshPool' /\ GrowthKept
    BY <1>0, <2>2, PoolKept DEF poolVars, PoolTypeOK, FreshPool
  <2> QED
    BY <1>0, <2>2, <2>3, <2>4, SameBook DEF LedgerInv
<1>7. CASE SwapAny /\ UNCHANGED <<tickVars, positionVars>>
  <2>1. PoolTypeOK' /\ GrowthKept
    BY <1>0, <1>7, SwapAnyKeeps, TicksSeen
  <2>2. PICK zero_for_one \in BOOLEAN :
          \E r : pool' = PoolAfterSwap(pool, r, zero_for_one) /\ pool.initialized
    BY <1>7 DEF SwapAny, Swap, SwapInputOk
  <2>3. pool'.initialized
    BY <2>2, <1>0 DEF PoolAfterSwap, Pool
  <2> QED
    BY <1>0, <1>7, <1>9, <2>1, <2>3, SameBook, OthersKeepLedger DEF FreshPool
<1>10. CASE (CallUpdateTick \/ CallCrossTick) /\ UNCHANGED <<poolVars, positionVars>>
  <2>1. PoolTypeOK' /\ FreshPool' /\ GrowthKept
    BY <1>0, <1>10, PoolKept DEF poolVars, PoolTypeOK, FreshPool
  <2> QED
    BY <1>0, <1>9, <1>10, <2>1, DirectUpdateKeepsTicks, CrossingKeepsTicks, OthersKeepLedger
<1>11. CASE (CallModifyLiquidity \/ MoveTokens) /\ UNCHANGED <<tickVars, positionVars>>
  <2>1. ServePosition
    BY <1>11, DirectCallsServe
  <2>2. PoolTypeOK' /\ GrowthKept
    BY <1>0, <2>1, ServeKeeps
  <2>3. FreshPool'
    <3>1. CASE pool' = pool
      BY <1>0, <3>1 DEF FreshPool
    <3>2. CASE \E delta \in Deltas, r \in Ranges : ModifyLiquidity(delta, r[1], r[2])
      <4>1. PICK delta \in Deltas, r \in Ranges : ModifyLiquidity(delta, r[1], r[2])
        BY <3>2
      <4>2. pool.initialized /\ pool' = PoolAfterModify(pool, delta, r[1], r[2])
        BY <4>1 DEF ModifyLiquidity, ModifyLiquidityOk
      <4>3. pool'.initialized
        BY <4>2, <1>0 DEF PoolAfterModify, Pool
      <4> QED
        BY <4>3 DEF FreshPool
    <3>3. pool' = pool \/ \E delta \in Deltas, r \in Ranges : ModifyLiquidity(delta, r[1], r[2])
      BY <1>11 DEF CallModifyLiquidity, MoveTokens, DepositToVault, TransferFromVault
    <3> QED
      BY <3>1, <3>2, <3>3
  <2> QED
    BY <1>0, <1>9, <1>11, <2>2, <2>3, SameBook, OthersKeepLedger
<1>8. CASE UNCHANGED vars
  <2>1. PoolTypeOK' /\ FreshPool' /\ GrowthKept
    BY <1>0, <1>8, PoolKept DEF vars, poolVars, PoolTypeOK, FreshPool
  <2> QED
    BY <1>0, <1>8, <1>9, <2>1, SameBook, OthersKeepLedger DEF vars
<1> QED
  BY <1>1, <1>2, <1>3, <1>4, <1>5, <1>6, <1>7, <1>8, <1>10, <1>11 DEF Next

LEMMA SystemStarts == Init => SystemInv
<1> SUFFICES ASSUME Init PROVE SystemInv
  OBVIOUS
<1>1. ReceiptInv
  BY DEF Init, ReceiptInv, OneReceipt, IsOpen
<1>2. BookOK(Book)
  BY EmptyBookOK DEF Init
<1>6. UnusedEmpty(Book) /\ WordsOwn(Book)
  BY DEF Init, TickInit, UnusedEmpty, WordsOwn, Book, ZeroBitmap
<1>4. PoolTypeOK /\ FreshPool
  BY PoolStartsOK DEF Init, PoolInit, FreshPool
<1>5. PositionTypeOK /\ CheckpointBehind
  BY DEF Init, PositionTypeOK, CheckpointBehind, OpenNfts, IsOpen
<1> QED
  BY <1>1, <1>2, <1>4, <1>5, <1>6 DEF SystemInv, LedgerInv, TicksOK

LEMMA SystemInvAlways == Spec => []SystemInv
<1>1. SystemInv /\ [Next]_vars => SystemInv'
  BY ReceiptInvStep, LedgerStep DEF SystemInv
<1> QED
  BY <1>1, SystemStarts, PTL DEF Spec

\* Positions and NFTs keep their types through every transaction, "tick_lower <
\* tick_upper always" with them, and no open position is without liquidity.
THEOREM PositionTypeCorrect == Spec => []PositionTypeOK
<1>1. SystemInv => PositionTypeOK
  BY DEF SystemInv, LedgerInv
<1> QED
  BY <1>1, SystemInvAlways, PTL

\* The wrapping subtraction of compute_fees_owed never wraps: no checkpoint is
\* ahead of its accumulator.
THEOREM CheckpointBehindCorrect == Spec => []CheckpointBehind
<1>1. SystemInv => CheckpointBehind
  BY DEF SystemInv, LedgerInv
<1> QED
  BY <1>1, SystemInvAlways, PTL

\* Under position_mgr's pairs of updates and anybody's own, flags follow liquidity
\* and no bit of the bitmap points at an empty array.
THEOREM SystemTicksCorrect == Spec => [](TickTypeOK /\ LiveIffGross /\ BitmapSound)
<1>1. SystemInv => TickTypeOK /\ LiveIffGross /\ BitmapSound
  BY DEF SystemInv, LedgerInv, TicksOK, BookOK, TickTypeOK, LiveIffGross, BitmapSound
<1> QED
  BY <1>1, SystemInvAlways, PTL

\* No transaction takes an accumulator of the pool back.
THEOREM SystemGrowthCorrect == Spec => GrowthNeverFalls
<1> DEFINE Kept == pool.initialized =>
                     \A k \in Tokens :
                        /\ pool'.fee_growth_global[k] >= pool.fee_growth_global[k]
                        /\ pool'.protocol_fee[k] >= pool.protocol_fee[k]
<1>1. SystemInv /\ [Next]_vars => [Kept]_pool
  BY LedgerStep DEF SystemInv, GrowthKept
<1> QED
  BY <1>1, SystemInvAlways, PTL DEF Spec, GrowthNeverFalls

LEMMA CollectConserves ==
    ASSUME LedgerInv, Collect
    PROVE  TokensKept
<1>1. PICK owner \in Users, nft \in Nfts : CollectFees(owner, nft)
  BY DEF Collect
<1> DEFINE fees == ClaimedFees(positions[nft], pool)
<1>2. IsOpen(nft) /\ PayOut(owner, fees)
  BY <1>1 DEF CollectFees
<1>3. Amounts(fees)
  BY <1>2, OpenIsPosition, ClaimType DEF LedgerInv, PoolTypeOK
<1> HIDE DEF fees
<1> QED
  BY <1>2, <1>3, PayConserves DEF LedgerInv, PoolTypeOK, AccountsOK

\* No transaction of the system makes or loses a token.
THEOREM SystemConservationCorrect == Spec => []Conservation
<1>1. Init => Conservation
  BY PoolInitConserves DEF Init
<1>2. SystemInv /\ Conservation /\ [Next]_vars => Conservation'
  <2> SUFFICES ASSUME SystemInv, Conservation, [Next]_vars
               PROVE  TokensKept
    BY KeptIsConserved
  <2>0. LedgerInv /\ TablesOK /\ PoolTypeOK
    BY TicksSeen DEF SystemInv, LedgerInv
  <2>1. CASE CreatePool
    BY <2>1, NothingTraded DEF CreatePool, InitializePool
  <2>7. CASE UNCHANGED poolVars
    BY <2>7, NothingTraded DEF poolVars
  <2>8. HandOver \/ Burn => UNCHANGED poolVars
    BY DEF HandOver, TransferNft, Burn, BurnByHolder
  <2>9. UNCHANGED vars => UNCHANGED poolVars
    BY DEF vars
  <2>2. CASE Open
    BY <2>0, <2>2, OpenDoes DEF Opened
  <2>3. CASE Close
    BY <2>0, <2>3, CloseDoes DEF Closed
  <2>4. CASE Collect
    BY <2>0, <2>4, CollectConserves
  <2>5. CASE SwapAny
    BY <2>0, <2>5, SwapAnyConserves
  <2>6. CASE CallModifyLiquidity \/ MoveTokens
    BY <2>0, <2>6, DirectCallsServe, ServeConserves
  <2> QED
    BY <2>1, <2>2, <2>3, <2>4, <2>5, <2>6, <2>7, <2>8, <2>9 DEF Next
<1> QED
  BY <1>1, <1>2, SystemInvAlways, PTL DEF Spec

-------------------------------------------------------------------------------
(* The refinement of LiquidityBook.                                            *)

\* The tables of the abstract book, as the programs' accounts give them.
ShareTable == [n \in Nfts |-> ShareOf(n)]
NetTable   == [t \in UsableTicks |-> NetOf(t)]
GrossTable == [t \in UsableTicks |-> GrossOf(t)]

LEMMA ShareOfOpen ==
    ASSUME PositionTypeOK, NEW n \in Nfts, IsOpen(n)
    PROVE  /\ ShareOf(n) \in Promised!Shares
           /\ ShareOf(n).lower < ShareOf(n).upper
           /\ ShareOf(n) # Promised!NoShare
<1>1. /\ positions[n] \in Position
      /\ positions[n].tick_lower < positions[n].tick_upper
  BY OpenIsPosition
<1>2. AsI128(positions[n].liquidity) \in Int
  BY <1>1, AsI128Int DEF Position
<1>3. ShareOf(n) = [lower  |-> positions[n].tick_lower,
                    upper  |-> positions[n].tick_upper,
                    amount |-> AsI128(positions[n].liquidity)]
  BY DEF ShareOf
<1>4. ShareOf(n) \in Promised!Shares /\ ShareOf(n).lower < ShareOf(n).upper
  BY <1>1, <1>2, <1>3 DEF Promised!Shares, Position
<1>5. ShareOf(n) # Promised!NoShare
  BY <1>3 DEF Promised!NoShare
<1> QED
  BY <1>4, <1>5

\* Transactions that leave the three tables as they are.
HeldStays == \A t \in UsableTicks : NetOf(t)' = NetOf(t) /\ GrossOf(t)' = GrossOf(t)

LEMMA SameTables ==
    ASSUME \A n \in Nfts : ShareOf(n)' = ShareOf(n), HeldStays
    PROVE  ShareTable' = ShareTable /\ NetTable' = NetTable /\ GrossTable' = GrossTable
BY DEF ShareTable, NetTable, GrossTable, HeldStays

LEMMA TicksStay ==
    ASSUME UNCHANGED tickVars
    PROVE  HeldStays
BY DEF tickVars, TickAt, Tick, NetOf, GrossOf, HeldStays

\* A crossing moves snapshots only.
LEMMA CrossingStays ==
    ASSUME TicksOK(Book), CallCrossTick
    PROVE  HeldStays
<1> SUFFICES ASSUME NEW t \in UsableTicks
             PROVE  NetOf(t)' = NetOf(t) /\ GrossOf(t)' = GrossOf(t)
  BY DEF HeldStays
<1> DEFINE mine  == TickToArrayStart(t)
           place == SlotOf(mine, t)
<1>1. place \in Slots
  BY UsableAreTicks, TickSlot
<1>2. /\ TickAt(t)  = IF mine \in DOMAIN tick_arrays
                        THEN tick_arrays[mine][place] ELSE ZeroTick
      /\ TickAt(t)' = IF mine \in DOMAIN tick_arrays'
                        THEN tick_arrays'[mine][place] ELSE ZeroTick
  BY DEF TickAt, Tick
<1> HIDE DEF mine, place
<1>3. /\ TickAt(t)'.liquidity_net = TickAt(t).liquidity_net
      /\ TickAt(t)'.liquidity_gross = TickAt(t).liquidity_gross
  BY <1>1, <1>2, CrossingHolds
<1> QED
  BY <1>3 DEF NetOf, GrossOf

\* An update moves one tick, and only it.
LEMMA DirectUpdateMoves ==
    ASSUME TicksOK(Book), CallUpdateTick
    PROVE  \E tick \in UsableTicks : \A t \in UsableTicks \ {tick} :
              NetOf(t)' = NetOf(t) /\ GrossOf(t)' = GrossOf(t)
<1>1. PICK tick \in UsableTicks, delta \in Deltas, is_upper \in BOOLEAN :
         UpdateTick(tick, TickWord(tick), delta, is_upper)
  BY DEF CallUpdateTick
<1> DEFINE after == AfterUpdateTick(Book, tick, delta, is_upper)
<1>2. UpdateTickOk(Book, tick, TickWord(tick), delta, is_upper) /\ Book' = after
  BY <1>1, UpdateTickIsAfterUpdate
<1>3. OneChanged(Book, after, tick, delta, is_upper)
  BY <1>2, UpdateChangesOne
<1> HIDE DEF after
<1>4. ASSUME NEW t \in UsableTicks \ {tick}
      PROVE  NetOf(t)' = NetOf(t) /\ GrossOf(t)' = GrossOf(t)
  <2>1. TickAt(t) = InBook(Book, t)
    BY TickAtIsInBook
  <2>2. TickAt(t)' = InBook(after, t)
    BY <1>2 DEF TickAt, InBook, Book
  <2>3. InBook(after, t) = InBook(Book, t)
    BY <1>3 DEF OneChanged
  <2> QED
    BY <2>1, <2>2, <2>3 DEF NetOf, GrossOf
<1> QED
  BY <1>4

LEMMA SharesStay ==
    ASSUME UNCHANGED positions
    PROVE  \A n \in Nfts : ShareOf(n)' = ShareOf(n)
BY DEF ShareOf, IsOpen

\* A new array holds nothing yet.
LEMMA NewArrayHoldsNothing ==
    ASSUME CreateArray
    PROVE  HeldStays
<1> SUFFICES ASSUME NEW t \in UsableTicks PROVE TickAt(t)' = TickAt(t)
  BY DEF HeldStays, NetOf, GrossOf
<1>1. PICK start \in ArrayStarts : InitializeTickArray(start)
  BY DEF CreateArray
<1> DEFINE mine  == TickToArrayStart(t)
           place == SlotOf(mine, t)
<1>2. place \in Slots
  BY UsableAreTicks, TickSlot
<1>3. /\ TickAt(t)  = IF mine \in DOMAIN tick_arrays
                        THEN tick_arrays[mine][place] ELSE ZeroTick
      /\ TickAt(t)' = IF mine \in DOMAIN tick_arrays'
                        THEN tick_arrays'[mine][place] ELSE ZeroTick
  BY DEF TickAt, Tick
<1> HIDE DEF mine, place
<1>4. /\ DOMAIN tick_arrays' = DOMAIN tick_arrays \cup {start}
      /\ start \notin DOMAIN tick_arrays
      /\ \A s \in DOMAIN tick_arrays : tick_arrays'[s] = tick_arrays[s]
      /\ tick_arrays'[start] = [i \in Slots |-> ZeroTick]
  BY <1>1 DEF InitializeTickArray
<1> QED
  BY <1>2, <1>3, <1>4

\* Opening a position issues its receipt.
LEMMA OpenIssues ==
    ASSUME ReceiptInv, LedgerInv, NEW owner \in Users, NEW nft \in Nfts, NEW pos, NEW paid,
           Opened(owner, nft, pos, paid), unbacked'["ticks"] = unbacked["ticks"]
    PROVE  Promised!Issue(nft, owner)
<1> DEFINE amount == AsI128(pos.liquidity)
<1>1. \A n \in Nfts : positions'[n] = IF n = nft THEN pos ELSE positions[n]
  BY DEF Opened, ReceiptInv
<1>2. pos # NoPosition
  <2>1. OwnedRecord(pos)
    BY DEF Opened, Position, OwnedRecord
  <2> QED
    BY <2>1, OwnedIsOpen
<1>3. IsOpen(nft)'
  BY <1>1, <1>2 DEF IsOpen
<1>4. ShareOf(nft)' = [lower |-> pos.tick_lower, upper |-> pos.tick_upper, amount |-> amount]
  BY <1>1, <1>3 DEF ShareOf
<1>5. \A n \in Nfts : n # nft => ShareOf(n)' = ShareOf(n)
  BY <1>1 DEF ShareOf, IsOpen
<1>6. /\ ShareOf(nft)' \in Promised!Shares
      /\ ShareOf(nft)'.lower < ShareOf(nft)'.upper
  <2>1. pos \in Position /\ pos.tick_lower < pos.tick_upper
    BY DEF Opened
  <2>2. amount \in Int
    BY <2>1, AsI128Int DEF Position
  <2> QED
    BY <2>1, <2>2, <1>4 DEF Promised!Shares, Position
<1>7. ShareTable'[nft] = ShareOf(nft)'
  BY DEF ShareTable
<1>8. ShareTable' = [ShareTable EXCEPT ![nft] = ShareTable'[nft]]
  BY <1>5 DEF ShareTable
<1> DEFINE s == ShareTable'[nft]
<1>9. s.lower = pos.tick_lower /\ s.upper = pos.tick_upper /\ s.amount = amount
  BY <1>4, <1>7
<1>10. amount \in Int
  BY AsI128Int DEF Opened, Position
<1> HIDE DEF s, amount
<1>11. \A t \in UsableTicks : /\ NetOf(t)'   = NetOf(t) + Promised!NetAt(s, t)
                              /\ GrossOf(t)' = GrossOf(t) + Promised!GrossAt(s, t)
  <2> SUFFICES ASSUME NEW t \in UsableTicks
               PROVE  /\ NetOf(t)'   = NetOf(t) + Promised!NetAt(s, t)
                      /\ GrossOf(t)' = GrossOf(t) + Promised!GrossAt(s, t)
    OBVIOUS
  <2>1. NetOf(t) \in Int /\ GrossOf(t) \in Int
    BY HeldIsInt DEF LedgerInv
  <2>2. /\ NetOf(t)'   = NetOf(t) + (IF t = pos.tick_lower THEN amount ELSE 0)
                                  - (IF t = pos.tick_upper THEN amount ELSE 0)
        /\ GrossOf(t)' = GrossOf(t) + (IF t = pos.tick_lower THEN amount ELSE 0)
                                    + (IF t = pos.tick_upper THEN amount ELSE 0)
    BY DEF Opened, Moved, amount
  <2> QED
    BY <2>1, <2>2, <1>9, <1>10 DEF Promised!NetAt, Promised!GrossAt, Promised!At
<1>12. /\ NetTable'   = [t \in UsableTicks |-> NetTable[t] + Promised!NetAt(s, t)]
       /\ GrossTable' = [t \in UsableTicks |-> GrossTable[t] + Promised!GrossAt(s, t)]
  BY <1>11 DEF NetTable, GrossTable
<1>13. /\ nft \notin nft_minted /\ nft_minted' = nft_minted \cup {nft}
       /\ nft_holder' = [nft_holder EXCEPT ![nft] = owner]
  BY DEF Opened
<1> QED
  BY <1>6, <1>7, <1>8, <1>12, <1>13 DEF Promised!Issue, s, ShareTable, NetTable, GrossTable

\* Closing one redeems it.
LEMMA CloseRedeems ==
    ASSUME ReceiptInv, LedgerInv, NEW owner \in Users, NEW nft \in Nfts, Closed(owner, nft),
           unbacked'["ticks"] = unbacked["ticks"]
    PROVE  Promised!Redeem(nft, owner)
<1> DEFINE amount == AsI128(positions[nft].liquidity)
           s == ShareTable[nft]
<1>1. \A n \in Nfts : positions'[n] = IF n = nft THEN NoPosition ELSE positions[n]
  BY DEF Closed, ReceiptInv
<1>2. IsOpen(nft) /\ positions[nft] \in Position
  BY OpenIsPosition DEF Closed, LedgerInv
<1>3. s = ShareOf(nft) /\ s # Promised!NoShare
  BY <1>2, ShareOfOpen DEF LedgerInv, ShareTable
<1>4. /\ s.lower = positions[nft].tick_lower /\ s.upper = positions[nft].tick_upper
      /\ s.amount = amount
  BY <1>2, <1>3 DEF ShareOf
<1>5. ShareOf(nft)' = Promised!NoShare
  BY <1>1 DEF ShareOf, IsOpen, Promised!NoShare
<1>6. \A n \in Nfts : n # nft => ShareOf(n)' = ShareOf(n)
  BY <1>1 DEF ShareOf, IsOpen
<1>7. ShareTable' = [ShareTable EXCEPT ![nft] = Promised!NoShare]
  BY <1>5, <1>6 DEF ShareTable
<1>8. amount \in Int
  BY <1>2, AsI128Int DEF Position
<1> HIDE DEF s, amount
<1>9. \A t \in UsableTicks : /\ NetOf(t)'   = NetOf(t) - Promised!NetAt(s, t)
                             /\ GrossOf(t)' = GrossOf(t) - Promised!GrossAt(s, t)
  <2> SUFFICES ASSUME NEW t \in UsableTicks
               PROVE  /\ NetOf(t)'   = NetOf(t) - Promised!NetAt(s, t)
                      /\ GrossOf(t)' = GrossOf(t) - Promised!GrossAt(s, t)
    OBVIOUS
  <2>1. NetOf(t) \in Int /\ GrossOf(t) \in Int
    BY HeldIsInt DEF LedgerInv
  <2>2. /\ NetOf(t)'   = NetOf(t) + (IF t = positions[nft].tick_lower THEN -amount ELSE 0)
                                  - (IF t = positions[nft].tick_upper THEN -amount ELSE 0)
        /\ GrossOf(t)' = GrossOf(t) + (IF t = positions[nft].tick_lower THEN -amount ELSE 0)
                                    + (IF t = positions[nft].tick_upper THEN -amount ELSE 0)
    BY DEF Closed, Moved, amount
  <2> QED
    BY <2>1, <2>2, <1>4, <1>8 DEF Promised!NetAt, Promised!GrossAt, Promised!At
<1>10. /\ NetTable'   = [t \in UsableTicks |-> NetTable[t] - Promised!NetAt(s, t)]
       /\ GrossTable' = [t \in UsableTicks |-> GrossTable[t] - Promised!GrossAt(s, t)]
  BY <1>9 DEF NetTable, GrossTable
<1>11. /\ nft_holder[nft] = owner /\ nft_minted' = nft_minted
       /\ nft_holder' = [nft_holder EXCEPT ![nft] = Nobody]
  BY DEF Closed
<1> QED
  BY <1>3, <1>7, <1>10, <1>11 DEF Promised!Redeem, s, ShareTable, NetTable, GrossTable

LEMMA BookStutters ==
    ASSUME ShareTable' = ShareTable, NetTable' = NetTable, GrossTable' = GrossTable,
           UNCHANGED <<nft_minted, nft_holder>>, unbacked'["ticks"] = unbacked["ticks"]
    PROVE  UNCHANGED Promised!bookVars
BY DEF Promised!bookVars, ShareTable, NetTable, GrossTable

LEMMA BookStep ==
    ASSUME ReceiptInv, LedgerInv, [Next]_vars
    PROVE  [Promised!Next]_(Promised!bookVars)
<1>0. unbacked \in [Kinds -> Nat] /\ TicksOK(Book)
  BY DEF LedgerInv, PositionTypeOK
<1>1. ASSUME UNCHANGED positionVars, HeldStays, unbacked'["ticks"] = unbacked["ticks"]
      PROVE  UNCHANGED Promised!bookVars
  <2>1. UNCHANGED <<positions, nft_minted, nft_holder>>
    BY <1>1 DEF positionVars
  <2> QED
    BY <1>1, <2>1, SharesStay, SameTables, BookStutters
<1>2. CASE \/ (CreatePool \/ SwapAny) /\ UNCHANGED <<tickVars, positionVars, unbacked>>
           \/ (CallModifyLiquidity \/ MoveTokens) /\ UNCHANGED <<tickVars, positionVars>>
           \/ UNCHANGED vars
  <2>1. UNCHANGED <<tickVars, positionVars>>
    BY <1>2 DEF vars
  <2>2. unbacked'["ticks"] = unbacked["ticks"]
    BY <1>0, <1>2, SealKept DEF vars
  <2> QED
    BY <1>1, <2>1, <2>2, TicksStay
<1>7. CASE CreateArray /\ UNCHANGED <<poolVars, positionVars, unbacked>>
  BY <1>1, <1>7, NewArrayHoldsNothing
<1>8. CASE CallCrossTick /\ UNCHANGED <<poolVars, positionVars>>
  BY <1>0, <1>1, <1>8, SealKept, CrossingStays
<1>9. CASE CallUpdateTick /\ UNCHANGED <<poolVars, positionVars>>
  <2>1. PICK tick \in UsableTicks :
           \A t \in UsableTicks \ {tick} : NetOf(t)' = NetOf(t) /\ GrossOf(t)' = GrossOf(t)
    BY <1>0, <1>9, DirectUpdateMoves
  <2>2. UNCHANGED <<positions, nft_minted, nft_holder>>
    BY <1>9 DEF positionVars
  <2>3. ShareTable' = ShareTable
    BY <2>2, SharesStay DEF ShareTable
  <2>4. /\ NetTable' = [NetTable EXCEPT ![tick] = NetTable'[tick]]
        /\ GrossTable' = [GrossTable EXCEPT ![tick] = GrossTable'[tick]]
    BY <2>1 DEF NetTable, GrossTable
  <2>5. unbacked'["ticks"] # 0
    <3>1. Unbacked("ticks")
      BY <1>9 DEF CallUpdateTick
    <3>2. unbacked'["ticks"] = unbacked["ticks"] + 1 /\ unbacked["ticks"] \in Nat
      BY <1>0, <3>1, KindsAre, UnbackedCounts
    <3> QED
      BY <3>2
  <2>6. Promised!Outside(tick)
    BY <2>2, <2>3, <2>4, <2>5 DEF Promised!Outside, ShareTable, NetTable, GrossTable
  <2> QED
    BY <2>6 DEF Promised!Next
<1>3. CASE Open
  <2>1. PICK owner \in Users, nft \in Nfts, paid \in SUBSET Tokens :
           \E pos : Opened(owner, nft, pos, paid)
    BY <1>3, OpenDoes
  <2>2. PICK pos : Opened(owner, nft, pos, paid)
    BY <2>1
  <2>3. Promised!Issue(nft, owner)
    BY <1>0, <1>3, <2>2, SealKept, OpenIssues
  <2> QED
    BY <2>3 DEF Promised!Next
<1>4. CASE Close
  <2>1. PICK owner \in Users, nft \in Nfts : Closed(owner, nft)
    BY <1>4, CloseDoes
  <2>2. Promised!Redeem(nft, owner)
    BY <1>0, <1>4, <2>1, SealKept, CloseRedeems
  <2> QED
    BY <2>2 DEF Promised!Next
<1>5. CASE Collect
  <2>1. PICK owner \in Users, nft \in Nfts : CollectFees(owner, nft)
    BY <1>5 DEF Collect
  <2>2. /\ IsOpen(nft) /\ positions' = [positions EXCEPT ![nft] = Checkpointed(@)]
        /\ UNCHANGED <<tickVars, nft_minted, nft_holder>>
    BY <2>1 DEF CollectFees
  <2>3. positions[nft] \in Position
    BY <2>2, OpenIsPosition DEF LedgerInv
  <2> DEFINE new == Checkpointed(positions[nft])
  <2>4. /\ new.tick_lower = positions[nft].tick_lower
        /\ new.tick_upper = positions[nft].tick_upper
        /\ new.liquidity = positions[nft].liquidity
        /\ OwnedRecord(new)
    BY <2>3 DEF Checkpointed, Position, OwnedRecord
  <2>5. new # NoPosition
    BY <2>4, OwnedIsOpen
  <2> HIDE DEF new
  <2>6. \A n \in Nfts : positions'[n] = IF n = nft THEN new ELSE positions[n]
    BY <2>2 DEF ReceiptInv, new
  <2>7. \A n \in Nfts : ShareOf(n)' = ShareOf(n)
    BY <2>2, <2>4, <2>5, <2>6 DEF ShareOf, IsOpen
  <2> QED
    BY <1>0, <1>5, <2>2, <2>7, SealKept, TicksStay, SameTables, BookStutters
<1>6. CASE HandOver
  <2>1. PICK from \in Users, to \in Users, nft \in Nfts : TransferNft(from, to, nft)
    BY <1>6 DEF HandOver
  <2>2. /\ nft_holder[nft] = from
        /\ nft_holder' = [nft_holder EXCEPT ![nft] = to]
        /\ UNCHANGED <<tickVars, positions, nft_minted>>
    BY <2>1 DEF TransferNft
  <2>3. ShareTable' = ShareTable /\ NetTable' = NetTable /\ GrossTable' = GrossTable
    BY <2>2, SharesStay, TicksStay, SameTables
  <2>4. unbacked'["ticks"] = unbacked["ticks"]
    BY <1>0, <1>6, SealKept
  <2>5. Promised!HandOver(nft, from, to)
    BY <2>2, <2>3, <2>4 DEF Promised!HandOver, ShareTable, NetTable, GrossTable
  <2> QED
    BY <2>5 DEF Promised!Next
<1>10. CASE Burn
  <2>1. PICK from \in Users, nft \in Nfts : BurnByHolder(from, nft)
    BY <1>10 DEF Burn
  <2>2. /\ nft_holder[nft] = from
        /\ nft_holder' = [nft_holder EXCEPT ![nft] = Nobody]
        /\ UNCHANGED <<tickVars, positions, nft_minted>>
    BY <2>1 DEF BurnByHolder, BurnNft
  <2>3. ShareTable' = ShareTable /\ NetTable' = NetTable /\ GrossTable' = GrossTable
    BY <2>2, SharesStay, TicksStay, SameTables
  <2>4. unbacked'["ticks"] = unbacked["ticks"]
    BY <1>0, <1>10, SealKept
  <2>5. Promised!Destroy(nft, from)
    BY <2>2, <2>3, <2>4 DEF Promised!Destroy, ShareTable, NetTable, GrossTable
  <2> QED
    BY <2>5 DEF Promised!Next
<1> QED
  BY <1>2, <1>3, <1>4, <1>5, <1>6, <1>7, <1>8, <1>9, <1>10 DEF Next

LEMMA BookStarts == Init => Promised!Init
<1> SUFFICES ASSUME Init PROVE Promised!Init
  OBVIOUS
<1>1. \A n \in Nfts : ShareOf(n) = Promised!NoShare
  BY DEF Init, ShareOf, IsOpen, Promised!NoShare
<1>2. \A t \in UsableTicks : NetOf(t) = 0 /\ GrossOf(t) = 0
  BY DEF Init, TickInit, NetOf, GrossOf, TickAt, ZeroTick
<1>3. unbacked["ticks"] = 0
  BY KindsAre DEF Init
<1> QED
  BY <1>1, <1>2, <1>3 DEF Init, Promised!Init

\* The programs implement LiquidityBook, with the instructions that go past
\* position_mgr among them: every position is entered at its two ticks and taken out
\* of them exactly, through arrays, bitmaps and pairs of updates, a receipt is issued
\* once and redeemed at most once, and only a direct update_tick breaks the seal.
THEOREM BookRefined == Spec => RefinesBook
<1>1. SystemInv /\ [Next]_vars => [Promised!Next]_(Promised!bookVars)
  BY BookStep DEF SystemInv
<1> QED
  BY <1>1, BookStarts, SystemInvAlways, PTL DEF Spec, RefinesBook, Promised!Spec
-------------------------------------------------------------------------------
(* The ledger: what a tick holds is the sum of what the positions entered.     *)

\* What each mint's position has at a tick, as the lower and as the upper end of
\* its range.
LowerShare(n, t) == IF ShareOf(n) # Promised!NoShare /\ ShareOf(n).lower = t
                      THEN ShareOf(n).amount ELSE 0
UpperShare(n, t) == IF ShareOf(n) # Promised!NoShare /\ ShareOf(n).upper = t
                      THEN ShareOf(n).amount ELSE 0

LowerHeld(t) == [n \in Nfts |-> LowerShare(n, t)]
UpperHeld(t) == [n \in Nfts |-> UpperShare(n, t)]

AgreesAt(t) ==
    LET lower == SumFunctionOnSet(LowerHeld(t), Nfts)
        upper == SumFunctionOnSet(UpperHeld(t), Nfts)
    IN  NetOf(t) = lower - upper /\ GrossOf(t) = lower + upper

LedgerAgrees == unbacked["ticks"] = 0 => \A t \in UsableTicks : AgreesAt(t)

\* Every share is one of the book's, or none.
SharesTyped == \A n \in Nfts : ShareOf(n) \in Promised!Shares \cup {Promised!NoShare}

LEMMA SharesAreTyped ==
    ASSUME PositionTypeOK
    PROVE  SharesTyped
<1> SUFFICES ASSUME NEW n \in Nfts
             PROVE  ShareOf(n) \in Promised!Shares \cup {Promised!NoShare}
  BY DEF SharesTyped
<1>1. CASE IsOpen(n)
  BY <1>1, ShareOfOpen
<1>2. CASE ~IsOpen(n)
  BY <1>2 DEF ShareOf, Promised!NoShare
<1> QED
  BY <1>1, <1>2

LEMMA HeldType ==
    ASSUME SharesTyped, NEW n \in Nfts, NEW t \in UsableTicks
    PROVE  /\ LowerShare(n, t) \in Int /\ LowerHeld(t)[n] = LowerShare(n, t)
           /\ UpperShare(n, t) \in Int /\ UpperHeld(t)[n] = UpperShare(n, t)
<1>1. ShareOf(n) \in Promised!Shares \/ ShareOf(n) = Promised!NoShare
  BY DEF SharesTyped
<1> QED
  BY <1>1 DEF LowerShare, UpperShare, LowerHeld, UpperHeld, Promised!Shares

\* One share is entered or taken out, and both sums follow.
LEMMA OneShareChanges ==
    ASSUME SharesTyped, SharesTyped', NEW nft \in Nfts, NEW t \in UsableTicks,
           \A n \in Nfts \ {nft} : ShareOf(n)' = ShareOf(n)
    PROVE  /\ SumFunctionOnSet(LowerHeld(t)', Nfts)
                = SumFunctionOnSet(LowerHeld(t), Nfts)
                    - LowerShare(nft, t) + LowerShare(nft, t)'
           /\ SumFunctionOnSet(UpperHeld(t)', Nfts)
                = SumFunctionOnSet(UpperHeld(t), Nfts)
                    - UpperShare(nft, t) + UpperShare(nft, t)'
           /\ SumFunctionOnSet(LowerHeld(t), Nfts) \in Int
           /\ SumFunctionOnSet(UpperHeld(t), Nfts) \in Int
<1>1. \A n \in Nfts : /\ LowerHeld(t)[n] \in Int /\ LowerHeld(t)[n] = LowerShare(n, t)
                      /\ UpperHeld(t)[n] \in Int /\ UpperHeld(t)[n] = UpperShare(n, t)
  BY HeldType
<1>2. \A n \in Nfts : /\ LowerHeld(t)'[n] = LowerShare(n, t)'
                      /\ UpperHeld(t)'[n] = UpperShare(n, t)'
  BY DEF LowerHeld, UpperHeld
<1>3. \A n \in Nfts : LowerShare(n, t)' \in Int /\ UpperShare(n, t)' \in Int
  <2> SUFFICES ASSUME NEW n \in Nfts
               PROVE  LowerShare(n, t)' \in Int /\ UpperShare(n, t)' \in Int
    OBVIOUS
  <2>1. ShareOf(n)' \in Promised!Shares \/ ShareOf(n)' = Promised!NoShare
    BY DEF SharesTyped
  <2> QED
    BY <2>1 DEF LowerShare, UpperShare, Promised!Shares
<1>4. \A n \in Nfts \ {nft} : /\ LowerShare(n, t)' = LowerShare(n, t)
                              /\ UpperShare(n, t)' = UpperShare(n, t)
  BY DEF LowerShare, UpperShare
<1> DEFINE lower == LowerHeld(t)
           upper == UpperHeld(t)
           lower2 == LowerHeld(t)'
           upper2 == UpperHeld(t)'
<1>5. /\ \A n \in Nfts : lower[n] \in Int /\ lower2[n] \in Int
      /\ \A n \in Nfts : upper[n] \in Int /\ upper2[n] \in Int
      /\ \A n \in Nfts \ {nft} : lower2[n] = lower[n] /\ upper2[n] = upper[n]
  BY <1>1, <1>2, <1>3, <1>4
<1>6. /\ lower[nft] = LowerShare(nft, t) /\ lower2[nft] = LowerShare(nft, t)'
      /\ upper[nft] = UpperShare(nft, t) /\ upper2[nft] = UpperShare(nft, t)'
  BY <1>1, <1>2
<1> HIDE DEF lower, upper, lower2, upper2
<1>7. /\ SumFunctionOnSet(lower2, Nfts) = SumFunctionOnSet(lower, Nfts) - lower[nft] + lower2[nft]
      /\ SumFunctionOnSet(lower, Nfts) \in Int
  BY <1>5, NftsAssumption, SumUpdate, SumType
<1>8. /\ SumFunctionOnSet(upper2, Nfts) = SumFunctionOnSet(upper, Nfts) - upper[nft] + upper2[nft]
      /\ SumFunctionOnSet(upper, Nfts) \in Int
  BY <1>5, NftsAssumption, SumUpdate, SumType
<1> QED
  BY <1>6, <1>7, <1>8 DEF lower, upper, lower2, upper2

\* What is held while no share changes.
LEMMA SameShares ==
    ASSUME ShareTable' = ShareTable, NetTable' = NetTable, GrossTable' = GrossTable,
           unbacked'["ticks"] = 0 => unbacked["ticks"] = 0, LedgerAgrees
    PROVE  LedgerAgrees'
<1>1. \A n \in Nfts : ShareOf(n)' = ShareOf(n)
  <2>1. \A n \in Nfts : ShareTable'[n] = ShareOf(n)' /\ ShareTable[n] = ShareOf(n)
    BY DEF ShareTable
  <2> QED
    BY <2>1
<1>2. \A t \in UsableTicks : NetOf(t)' = NetOf(t) /\ GrossOf(t)' = GrossOf(t)
  <2>1. \A t \in UsableTicks : /\ NetTable'[t] = NetOf(t)' /\ NetTable[t] = NetOf(t)
                               /\ GrossTable'[t] = GrossOf(t)' /\ GrossTable[t] = GrossOf(t)
    BY DEF NetTable, GrossTable
  <2> QED
    BY <2>1
<1>3. \A t \in UsableTicks : LowerHeld(t)' = LowerHeld(t) /\ UpperHeld(t)' = UpperHeld(t)
  BY <1>1 DEF LowerHeld, UpperHeld, LowerShare, UpperShare
<1> QED
  BY <1>2, <1>3 DEF LedgerAgrees, AgreesAt

\* The ledger agrees after every step of the book that the programs keep: it
\* follows from the refinement alone.
LEMMA BookStepAgrees ==
    ASSUME ReceiptInv, PositionTypeOK, PositionTypeOK', LedgerAgrees,
           [Promised!Next]_(Promised!bookVars)
    PROVE  LedgerAgrees'
<1>0. SharesTyped /\ SharesTyped'
  <2>1. SharesTyped
    BY SharesAreTyped
  <2>2. SharesTyped'
    BY SharesAreTyped, PTL
  <2> QED
    BY <2>1, <2>2
<1>1. \A n \in Nfts : ShareTable'[n] = ShareOf(n)' /\ ShareTable[n] = ShareOf(n)
  BY DEF ShareTable
<1>2. \A t \in UsableTicks : /\ NetTable'[t] = NetOf(t)' /\ NetTable[t] = NetOf(t)
                             /\ GrossTable'[t] = GrossOf(t)' /\ GrossTable[t] = GrossOf(t)
  BY DEF NetTable, GrossTable
<1>3. ASSUME NEW r \in Nfts, NEW h \in Users, Promised!Issue(r, h)
      PROVE  LedgerAgrees'
  <2>1. /\ r \notin nft_minted
        /\ ShareTable'[r] \in Promised!Shares
        /\ ShareTable' = [ShareTable EXCEPT ![r] = ShareTable'[r]]
        /\ NetTable' = [t \in UsableTicks |-> NetTable[t] + Promised!NetAt(ShareTable'[r], t)]
        /\ GrossTable' = [t \in UsableTicks |-> GrossTable[t] + Promised!GrossAt(ShareTable'[r], t)]
    BY <1>3 DEF Promised!Issue, ShareTable, NetTable, GrossTable
  <2>10. unbacked'["ticks"] = 0 => unbacked["ticks"] = 0
    BY <1>3 DEF Promised!Issue
  <2>2. ShareOf(r) = Promised!NoShare
    BY <2>1 DEF ReceiptInv, OneReceipt, ShareOf, Promised!NoShare
  <2> DEFINE s == ShareTable'[r]
  <2>3. s \in Promised!Shares /\ s = ShareOf(r)' /\ s # Promised!NoShare
    BY <1>1, <2>1 DEF Promised!Shares, Promised!NoShare
  <2>4. \A n \in Nfts \ {r} : ShareOf(n)' = ShareOf(n)
    BY <1>1, <2>1 DEF ShareTable
  <2> HIDE DEF s
  <2> SUFFICES ASSUME unbacked["ticks"] = 0, NEW t \in UsableTicks
               PROVE  LET lower == SumFunctionOnSet(LowerHeld(t)', Nfts)
                          upper == SumFunctionOnSet(UpperHeld(t)', Nfts)
                      IN  NetOf(t)' = lower - upper /\ GrossOf(t)' = lower + upper
    BY <2>10 DEF LedgerAgrees, AgreesAt
  <2>5. LowerShare(r, t) = 0 /\ UpperShare(r, t) = 0
    BY <2>2 DEF LowerShare, UpperShare
  <2>6. /\ LowerShare(r, t)' = Promised!At(s.lower, t, s.amount)
        /\ UpperShare(r, t)' = Promised!At(s.upper, t, s.amount)
    BY <2>3 DEF LowerShare, UpperShare, Promised!At
  <2>7. /\ Promised!At(s.lower, t, s.amount) \in Int
        /\ Promised!At(s.upper, t, s.amount) \in Int
    BY <2>3 DEF Promised!At, Promised!Shares
  <2>8. /\ NetOf(t)' = NetOf(t) + Promised!NetAt(s, t)
        /\ GrossOf(t)' = GrossOf(t) + Promised!GrossAt(s, t)
    BY <1>2, <2>1 DEF s
  <2>9. /\ NetOf(t) = SumFunctionOnSet(LowerHeld(t), Nfts) - SumFunctionOnSet(UpperHeld(t), Nfts)
        /\ GrossOf(t) = SumFunctionOnSet(LowerHeld(t), Nfts) + SumFunctionOnSet(UpperHeld(t), Nfts)
    BY DEF LedgerAgrees, AgreesAt
  <2> QED
    BY <1>0, <2>4, <2>5, <2>6, <2>7, <2>8, <2>9, OneShareChanges
       DEF Promised!NetAt, Promised!GrossAt
<1>4. ASSUME NEW r \in Nfts, NEW h \in Users, Promised!Redeem(r, h)
      PROVE  LedgerAgrees'
  <2> DEFINE s == ShareTable[r]
  <2>1. /\ s # Promised!NoShare
        /\ ShareTable' = [ShareTable EXCEPT ![r] = Promised!NoShare]
        /\ NetTable' = [t \in UsableTicks |-> NetTable[t] - Promised!NetAt(s, t)]
        /\ GrossTable' = [t \in UsableTicks |-> GrossTable[t] - Promised!GrossAt(s, t)]
    BY <1>4 DEF Promised!Redeem, ShareTable, NetTable, GrossTable
  <2>10. unbacked'["ticks"] = 0 => unbacked["ticks"] = 0
    BY <1>4 DEF Promised!Redeem
  <2>2. s = ShareOf(r) /\ s \in Promised!Shares
    BY <1>0, <1>1, <2>1 DEF SharesTyped
  <2>3. ShareOf(r)' = Promised!NoShare
    BY <1>1, <2>1 DEF ShareTable
  <2>4. \A n \in Nfts \ {r} : ShareOf(n)' = ShareOf(n)
    BY <1>1, <2>1 DEF ShareTable
  <2> HIDE DEF s
  <2> SUFFICES ASSUME unbacked["ticks"] = 0, NEW t \in UsableTicks
               PROVE  LET lower == SumFunctionOnSet(LowerHeld(t)', Nfts)
                          upper == SumFunctionOnSet(UpperHeld(t)', Nfts)
                      IN  NetOf(t)' = lower - upper /\ GrossOf(t)' = lower + upper
    BY <2>10 DEF LedgerAgrees, AgreesAt
  <2>5. LowerShare(r, t)' = 0 /\ UpperShare(r, t)' = 0
    BY <2>3 DEF LowerShare, UpperShare
  <2>6. /\ LowerShare(r, t) = Promised!At(s.lower, t, s.amount)
        /\ UpperShare(r, t) = Promised!At(s.upper, t, s.amount)
    BY <2>1, <2>2 DEF LowerShare, UpperShare, Promised!At
  <2>7. /\ Promised!At(s.lower, t, s.amount) \in Int
        /\ Promised!At(s.upper, t, s.amount) \in Int
    BY <2>2 DEF Promised!At, Promised!Shares
  <2>8. /\ NetOf(t)' = NetOf(t) - Promised!NetAt(s, t)
        /\ GrossOf(t)' = GrossOf(t) - Promised!GrossAt(s, t)
    BY <1>2, <2>1
  <2>9. /\ NetOf(t) = SumFunctionOnSet(LowerHeld(t), Nfts) - SumFunctionOnSet(UpperHeld(t), Nfts)
        /\ GrossOf(t) = SumFunctionOnSet(LowerHeld(t), Nfts) + SumFunctionOnSet(UpperHeld(t), Nfts)
    BY DEF LedgerAgrees, AgreesAt
  <2> QED
    BY <1>0, <2>4, <2>5, <2>6, <2>7, <2>8, <2>9, OneShareChanges
       DEF Promised!NetAt, Promised!GrossAt
<1>5. ASSUME NEW r \in Nfts, NEW h \in Users, NEW to \in Users, Promised!HandOver(r, h, to)
      PROVE  LedgerAgrees'
  BY <1>5, SameShares DEF Promised!HandOver, ShareTable, NetTable, GrossTable
<1>6. ASSUME NEW r \in Nfts, NEW h \in Users, Promised!Destroy(r, h)
      PROVE  LedgerAgrees'
  BY <1>6, SameShares DEF Promised!Destroy, ShareTable, NetTable, GrossTable
<1>7. ASSUME NEW t \in UsableTicks, Promised!Outside(t)
      PROVE  LedgerAgrees'
  BY <1>7 DEF Promised!Outside, LedgerAgrees
<1>8. CASE UNCHANGED Promised!bookVars
  BY <1>8, SameShares DEF Promised!bookVars, ShareTable, NetTable, GrossTable
<1> QED
  BY <1>3, <1>4, <1>5, <1>6, <1>7, <1>8 DEF Promised!Next

\* No position is larger than its range lets it be, and where one is open there
\* is a pool.
SharesFit  == \A n \in OpenNfts : WithinLimit(positions[n])
PoolExists == OpenNfts # {} => pool.initialized

BalanceInv == SharesFit /\ PoolExists /\ LedgerAgrees

\* An amount of liquidity that some range allows.
Fits(a) == /\ a \in Nat
           /\ \E t \in UsableTicks, u \in UsableTicks :
                 t < u /\ a <= LiquidityLimit(SqrtPriceAt[t], SqrtPriceAt[u])

\* So the liquidity of a position is itself as an i128.
LEMMA ShareIsExact ==
    ASSUME PositionTypeOK, SharesFit, NEW n \in OpenNfts
    PROVE  /\ n \in Nfts /\ IsOpen(n) /\ positions[n] \in Position
           /\ positions[n].tick_lower \in UsableTicks
           /\ positions[n].tick_upper \in UsableTicks
           /\ positions[n].tick_lower < positions[n].tick_upper
           /\ positions[n].liquidity \in Nat /\ positions[n].liquidity > 0
           /\ positions[n].liquidity <= I128Max
           /\ Fits(positions[n].liquidity)
           /\ AsI128(positions[n].liquidity) = positions[n].liquidity
<1>1. n \in Nfts /\ IsOpen(n)
  BY DEF OpenNfts
<1>2. /\ positions[n] \in Position
      /\ positions[n].tick_lower < positions[n].tick_upper
      /\ positions[n].liquidity > 0
  BY <1>1, OpenIsPosition
<1> DEFINE L == positions[n].liquidity
           t == positions[n].tick_lower
           u == positions[n].tick_upper
           limit == LiquidityLimit(SqrtPriceAt[t], SqrtPriceAt[u])
<1>3. t \in UsableTicks /\ u \in UsableTicks /\ L \in Nat
  BY <1>2, U128IsNat DEF Position
<1>4. L <= limit
  BY DEF SharesFit, WithinLimit
<1>5. limit \in Nat /\ limit <= I128Max
  BY <1>2, <1>3, LimitFits
<1>8. Fits(L)
  BY <1>2, <1>3, <1>4 DEF Fits
<1> HIDE DEF L, t, u, limit
<1>6. L <= I128Max
  BY <1>3, <1>4, <1>5, WidthsPositive DEF I128Max
<1>7. AsI128(L) = L
  BY <1>3, <1>6, WidthsPositive DEF AsI128, I128Max
<1> QED
  BY <1>1, <1>2, <1>3, <1>6, <1>7, <1>8 DEF L, t, u

LEMMA SharesFitStep ==
    ASSUME ReceiptInv, LedgerInv, SharesFit, PoolExists, [Next]_vars
    PROVE  SharesFit' /\ PoolExists'
<1>1. CASE UNCHANGED positions /\ (pool.initialized => pool'.initialized)
  BY <1>1 DEF SharesFit, PoolExists, OpenNfts, IsOpen, WithinLimit
<1>2. CASE Open
  <2>1. PICK owner \in Users, nft \in Nfts, paid \in SUBSET Tokens :
           \E pos : Opened(owner, nft, pos, paid)
    BY <1>2, OpenDoes
  <2>2. PICK pos : Opened(owner, nft, pos, paid)
    BY <2>1
  <2>3. \A n \in Nfts : positions'[n] = IF n = nft THEN pos ELSE positions[n]
    BY <2>2 DEF Opened, ReceiptInv
  <2>4. WithinLimit(pos) /\ pool'.initialized
    BY <2>2 DEF Opened, PoolServed
  <2> QED
    BY <2>3, <2>4 DEF SharesFit, PoolExists, OpenNfts, IsOpen, WithinLimit
<1>3. CASE Close
  <2>1. PICK owner \in Users, nft \in Nfts : Closed(owner, nft)
    BY <1>3, CloseDoes
  <2>2. \A n \in Nfts : positions'[n] = IF n = nft THEN NoPosition ELSE positions[n]
    BY <2>1 DEF Closed, ReceiptInv
  <2>3. pool'.initialized
    BY <2>1 DEF Closed, PoolServed
  <2> QED
    BY <2>2, <2>3 DEF SharesFit, PoolExists, OpenNfts, IsOpen, WithinLimit
<1>4. CASE Collect
  <2>1. PICK owner \in Users, nft \in Nfts : CollectFees(owner, nft)
    BY <1>4 DEF Collect
  <2> DEFINE new == Checkpointed(positions[nft])
  <2>2. /\ IsOpen(nft) /\ positions' = [positions EXCEPT ![nft] = new]
        /\ pool' = pool
    BY <2>1 DEF CollectFees
  <2>3. positions[nft] \in Position
    BY <2>2, OpenIsPosition DEF LedgerInv
  <2>4. /\ new.tick_lower = positions[nft].tick_lower
        /\ new.tick_upper = positions[nft].tick_upper
        /\ new.liquidity = positions[nft].liquidity
    BY <2>3 DEF Checkpointed, Position
  <2> HIDE DEF new
  <2>5. \A n \in Nfts : positions'[n] = IF n = nft THEN new ELSE positions[n]
    BY <2>2 DEF ReceiptInv
  <2>6. WithinLimit(positions[nft]) => WithinLimit(new)
    BY <2>4 DEF WithinLimit
  <2>7. \A n \in OpenNfts' : n \in OpenNfts /\ n \in Nfts
    BY <2>2, <2>5 DEF OpenNfts, IsOpen
  <2>8. ASSUME NEW n \in OpenNfts'
        PROVE  WithinLimit(positions'[n])
    BY <2>5, <2>6, <2>7 DEF SharesFit
  <2> QED
    BY <2>2, <2>7, <2>8 DEF SharesFit, PoolExists, WithinLimit
<1>5. CASE HandOver \/ Burn
  BY <1>1, <1>5 DEF HandOver, TransferNft, Burn, BurnByHolder, poolVars
<1>6. CASE CreatePool /\ UNCHANGED <<tickVars, positionVars>>
  BY <1>1, <1>6 DEF CreatePool, InitializePool, positionVars
<1>7. CASE SwapAny /\ UNCHANGED <<tickVars, positionVars>>
  <2>1. PICK zero_for_one \in BOOLEAN :
          \E r : pool' = PoolAfterSwap(pool, r, zero_for_one)
    BY <1>7 DEF SwapAny, Swap
  <2>2. pool \in Pool
    BY DEF LedgerInv, PoolTypeOK
  <2>3. pool.initialized => pool'.initialized
    BY <2>1, <2>2 DEF PoolAfterSwap, Pool
  <2> QED
    BY <1>1, <1>7, <2>3 DEF positionVars
<1>8. CASE (CallModifyLiquidity \/ MoveTokens) /\ UNCHANGED <<tickVars, positionVars>>
  <2>1. pool' = pool \/ \E delta \in Deltas, r \in Ranges : pool' = PoolAfterModify(pool, delta, r[1], r[2])
    BY <1>8 DEF CallModifyLiquidity, ModifyLiquidity, MoveTokens, DepositToVault,
                TransferFromVault
  <2>2. pool \in Pool
    BY DEF LedgerInv, PoolTypeOK
  <2>3. pool.initialized => pool'.initialized
    BY <2>1, <2>2 DEF PoolAfterModify, Pool
  <2> QED
    BY <1>1, <1>8, <2>3 DEF positionVars
<1>9. CASE UNCHANGED <<poolVars, positionVars>>
  BY <1>1, <1>9 DEF positionVars, poolVars
<1>10. UNCHANGED vars => UNCHANGED <<poolVars, positionVars>>
  BY DEF vars
<1> QED
  BY <1>2, <1>3, <1>4, <1>5, <1>6, <1>7, <1>8, <1>9, <1>10 DEF Next

LEMMA BalanceStarts == Init => BalanceInv
<1> SUFFICES ASSUME Init PROVE BalanceInv
  OBVIOUS
<1>1. OpenNfts = {}
  BY DEF Init, OpenNfts, IsOpen
<1>2. SharesFit /\ PoolExists
  BY <1>1 DEF SharesFit, PoolExists
<1>3. LedgerAgrees
  <2> SUFFICES ASSUME NEW t \in UsableTicks
               PROVE  LET lower == SumFunctionOnSet(LowerHeld(t), Nfts)
                          upper == SumFunctionOnSet(UpperHeld(t), Nfts)
                      IN  NetOf(t) = lower - upper /\ GrossOf(t) = lower + upper
    BY DEF LedgerAgrees, AgreesAt
  <2>1. \A n \in Nfts : ShareOf(n) = Promised!NoShare
    BY <1>1 DEF OpenNfts, ShareOf, Promised!NoShare
  <2>2. \A n \in Nfts : LowerHeld(t)[n] = 0 /\ UpperHeld(t)[n] = 0
    BY <2>1 DEF LowerHeld, UpperHeld, LowerShare, UpperShare
  <2>3. Cardinality(Nfts) \in Nat
    BY NftsAssumption, FS_CardinalityType
  <2>4. /\ SumFunctionOnSet(LowerHeld(t), Nfts) = Cardinality(Nfts) * 0
        /\ SumFunctionOnSet(UpperHeld(t), Nfts) = Cardinality(Nfts) * 0
    BY <2>2, NftsAssumption, SumConstant
  <2>5. NetOf(t) = 0 /\ GrossOf(t) = 0
    BY DEF Init, TickInit, NetOf, GrossOf, TickAt, ZeroTick
  <2> QED
    BY <2>3, <2>4, <2>5
<1> QED
  BY <1>2, <1>3 DEF BalanceInv

\* Everything that holds of the system together.
LEMMA BalanceInvAlways == Spec => [](SystemInv /\ BalanceInv)
<1>1. SystemInv /\ BalanceInv /\ [Next]_vars => SystemInv' /\ BalanceInv'
  <2> SUFFICES ASSUME SystemInv, BalanceInv, [Next]_vars
               PROVE  SystemInv' /\ BalanceInv'
    OBVIOUS
  <2>1. ReceiptInv /\ LedgerInv /\ SharesFit /\ PoolExists /\ LedgerAgrees
    BY DEF SystemInv, BalanceInv
  <2>2. ReceiptInv' /\ LedgerInv'
    BY <2>1, ReceiptInvStep, LedgerStep
  <2>3. PositionTypeOK /\ PositionTypeOK'
    BY <2>1, <2>2 DEF LedgerInv
  <2>4. LedgerAgrees'
    BY <2>1, <2>3, BookStep, BookStepAgrees
  <2>5. SharesFit' /\ PoolExists'
    BY <2>1, SharesFitStep
  <2> QED
    BY <2>2, <2>4, <2>5 DEF SystemInv, BalanceInv
<1> QED
  BY <1>1, SystemStarts, BalanceStarts, PTL DEF Spec

\* What the positions entered at a tick, by their ends.
LEMMA HeldIsLiquidity ==
    ASSUME PositionTypeOK, SharesFit, NEW t \in UsableTicks
    PROVE  /\ SumFunctionOnSet(LowerHeld(t), Nfts)
                = LiquidityOf({n \in OpenNfts : positions[n].tick_lower = t})
           /\ SumFunctionOnSet(UpperHeld(t), Nfts)
                = LiquidityOf({n \in OpenNfts : positions[n].tick_upper = t})
<1> DEFINE lowers == {n \in OpenNfts : positions[n].tick_lower = t}
           uppers == {n \in OpenNfts : positions[n].tick_upper = t}
           low  == [n \in lowers |-> positions[n].liquidity]
           high == [n \in uppers |-> positions[n].liquidity]
<1>1. lowers \in SUBSET Nfts /\ uppers \in SUBSET Nfts
  BY DEF OpenNfts
<1>2. \A n \in OpenNfts :
        /\ positions[n].liquidity \in Int
        /\ ShareOf(n) # Promised!NoShare
        /\ ShareOf(n).lower = positions[n].tick_lower
        /\ ShareOf(n).upper = positions[n].tick_upper
        /\ ShareOf(n).amount = positions[n].liquidity
  <2> SUFFICES ASSUME NEW n \in OpenNfts
               PROVE  /\ positions[n].liquidity \in Int
                      /\ ShareOf(n) # Promised!NoShare
                      /\ ShareOf(n).lower = positions[n].tick_lower
                      /\ ShareOf(n).upper = positions[n].tick_upper
                      /\ ShareOf(n).amount = positions[n].liquidity
    OBVIOUS
  <2>1. /\ n \in Nfts /\ IsOpen(n) /\ positions[n].liquidity \in Nat
        /\ AsI128(positions[n].liquidity) = positions[n].liquidity
    BY ShareIsExact
  <2> QED
    BY <2>1, ShareOfOpen DEF ShareOf
<1>3. \A n \in Nfts : n \notin OpenNfts => ShareOf(n) = Promised!NoShare
  BY DEF OpenNfts, ShareOf, Promised!NoShare
<1>4. /\ \A n \in lowers : low[n] \in Int
      /\ \A n \in uppers : high[n] \in Int
  BY <1>2
<1>5. /\ \A n \in Nfts : LowerHeld(t)[n] = IF n \in lowers THEN low[n] ELSE 0
      /\ \A n \in Nfts : UpperHeld(t)[n] = IF n \in uppers THEN high[n] ELSE 0
  BY <1>2, <1>3 DEF LowerHeld, UpperHeld, LowerShare, UpperShare
<1>6. DOMAIN low = lowers /\ DOMAIN high = uppers
  OBVIOUS
<1>7. LiquidityOf(lowers) = SumFunctionOnSet(low, lowers)
  BY <1>6 DEF LiquidityOf, SumFunction
<1>8. LiquidityOf(uppers) = SumFunctionOnSet(high, uppers)
  BY <1>6 DEF LiquidityOf, SumFunction
<1> HIDE DEF low, high, lowers, uppers
<1>9. /\ SumFunctionOnSet(LowerHeld(t), Nfts) = SumFunctionOnSet(low, lowers)
      /\ SumFunctionOnSet(UpperHeld(t), Nfts) = SumFunctionOnSet(high, uppers)
  BY <1>1, <1>4, <1>5, NftsAssumption, SumFilter
<1> QED
  BY <1>7, <1>8, <1>9 DEF lowers, uppers

\* Until somebody sends update_tick past position_mgr, each slot of every array holds
\* the sum of the open positions that begin or end at its tick, through every order
\* and overlap of openings and closings, of crossings and of calls of pool_core.
THEOREM TickLedgerCorrect == Spec => []TickLedger
<1>1. SystemInv /\ BalanceInv => TickLedger
  <2> SUFFICES ASSUME SystemInv, BalanceInv, unbacked["ticks"] = 0,
                      NEW s \in DOMAIN tick_arrays, NEW i \in Slots
               PROVE  LET tick   == s + i * TICK_SPACING
                          lowers == {n \in OpenNfts : positions[n].tick_lower = tick}
                          uppers == {n \in OpenNfts : positions[n].tick_upper = tick}
                          t      == tick_arrays[s][i]
                      IN  /\ t.liquidity_gross = LiquidityOf(lowers) + LiquidityOf(uppers)
                          /\ t.liquidity_net = LiquidityOf(lowers) - LiquidityOf(uppers)
    BY DEF TickLedger, TicksSumPositions
  <2> DEFINE tick   == s + i * TICK_SPACING
             lowers == {n \in OpenNfts : positions[n].tick_lower = tick}
             uppers == {n \in OpenNfts : positions[n].tick_upper = tick}
  <2>1. TicksOK(Book) /\ PositionTypeOK /\ SharesFit /\ LedgerAgrees
    BY DEF SystemInv, LedgerInv, BalanceInv
  <2>2. s \in ArrayStarts
    BY <2>1 DEF TicksOK, BookOK, BookTypeOK, Book
  <2>3. TickToArrayStart(tick) = s /\ SlotOf(s, tick) = i
    BY <2>2, SlotTick
  <2> HIDE DEF tick
  <2>4. CASE tick \in UsableTicks
    <3>1. TickAt(tick) = tick_arrays[s][i]
      BY <2>3 DEF TickAt, Tick
    <3>2. /\ NetOf(tick) = LiquidityOf(lowers) - LiquidityOf(uppers)
          /\ GrossOf(tick) = LiquidityOf(lowers) + LiquidityOf(uppers)
      BY <2>1, <2>4, HeldIsLiquidity DEF LedgerAgrees, AgreesAt
    <3> QED
      BY <3>1, <3>2 DEF NetOf, GrossOf, tick
  <2>5. CASE tick \notin UsableTicks
    <3>1. lowers = {} /\ uppers = {}
      BY <2>1, <2>5, ShareIsExact
    <3>2. LiquidityOf({}) = 0
      <4>1. DOMAIN [n \in {} |-> positions[n].liquidity] = {}
        OBVIOUS
      <4> QED
        BY <4>1, SumEmpty DEF LiquidityOf, SumFunction
    <3>3. tick_arrays[s][i].liquidity_net = 0 /\ tick_arrays[s][i].liquidity_gross = 0
      BY <2>1, <2>5 DEF TicksOK, UnusedEmpty, Book, tick
    <3>4. LiquidityOf(lowers) = 0 /\ LiquidityOf(uppers) = 0
      BY <3>1, <3>2
    <3>5. /\ tick_arrays[s][i].liquidity_gross = LiquidityOf(lowers) + LiquidityOf(uppers)
          /\ tick_arrays[s][i].liquidity_net = LiquidityOf(lowers) - LiquidityOf(uppers)
      BY <3>3, <3>4
    <3> QED
      BY <3>5 DEF tick
  <2> QED
    BY <2>4, <2>5
<1> QED
  BY <1>1, BalanceInvAlways, PTL

-------------------------------------------------------------------------------
(* A position can always be taken out of the tables.                           *)

LEMMA I128IsInt ==
    /\ I128Max \in Nat
    /\ \A a \in 0 .. I128Max, b \in 0 .. I128Max : a - b \in I128
    /\ \A a \in 0 .. I128Max : a \in U128
<1> DEFINE h == (Q64 * Q64) \div 2
<1>1. Q64 * Q64 \in Nat /\ Q64 * Q64 >= 2
  <2> DEFINE Q == Q64
  <2>1. Q \in Nat /\ Q >= 2
    BY Q64Assumption
  <2> HIDE DEF Q
  <2>2. Q * Q >= 2 * Q /\ Q * Q \in Nat
    BY <2>1
  <2> QED
    BY <2>1, <2>2 DEF Q
<1>2. h \in Nat /\ h <= Q64 * Q64 /\ h >= 1
  <2> DEFINE M == Q64 * Q64
  <2> HIDE DEF M
  <2>1. M \in Nat /\ M >= 2
    BY <1>1 DEF M
  <2>2. M \div 2 \in Nat /\ M \div 2 <= M /\ M \div 2 >= 1
    BY <2>1
  <2> QED
    BY <2>2 DEF M
<1>3. I128Max = h - 1 /\ I128Min = -h
  BY DEF I128Max, I128Min
<1>4. U128Max \in Int /\ U128Max = Q64 * Q64 - 1
  BY <1>1 DEF U128Max
<1> HIDE DEF h
<1> QED
  BY <1>1, <1>2, <1>3, <1>4 DEF I128, U128

\* What positions entered together stays in an i128.
LEMMA RoomBound ==
    ASSUME NEW f, \A n \in Nfts : f[n] = 0 \/ Fits(f[n]), NEW one \in Nfts
    PROVE  SumFunctionOnSet(f, Nfts) \in 0 .. I128Max
<1> DEFINE size == Cardinality(Nfts)
           b    == I128Max \div size
<1>1. size \in Nat \ {0}
  BY NftsAssumption, FS_CardinalityType, FS_EmptySet
<1>2. I128Max \in Nat
  BY I128IsInt
<1> HIDE DEF size
<1>3. b \in Nat /\ size * b <= I128Max /\ size * b \in Nat
  BY <1>1, <1>2, DivNat, DivBounds
<1>4. ASSUME NEW n \in Nfts
      PROVE  f[n] \in 0 .. b
  <2>1. CASE f[n] = 0
    BY <2>1, <1>3
  <2>2. CASE Fits(f[n])
    <3>1. PICK t \in UsableTicks, u \in UsableTicks :
             /\ t < u
             /\ f[n] \in Nat /\ f[n] <= LiquidityLimit(SqrtPriceAt[t], SqrtPriceAt[u])
      BY <2>2 DEF Fits
    <3> DEFINE limit == LiquidityLimit(SqrtPriceAt[t], SqrtPriceAt[u])
    <3>2. f[n] <= limit /\ f[n] \in Nat
      BY <3>1
    <3>3. limit \in Nat
      BY <3>1, LimitFits
    <3>4. size * limit <= I128Max
      BY <3>1, RoomAssumption DEF size
    <3> HIDE DEF limit
    <3>5. limit <= b
      BY <1>1, <1>2, <3>3, <3>4, DivLower
    <3> QED
      BY <1>3, <3>2, <3>3, <3>5
  <2> QED
    BY <1>4, <2>1, <2>2
<1> HIDE DEF b
<1>5. SumFunctionOnSet(f, Nfts) \in 0 .. size * b
  BY <1>3, <1>4, NftsAssumption, SumBound DEF size
<1> QED
  BY <1>2, <1>3, <1>5

\* What an open position finds at its two ticks.
LEMMA FoundAtTicks ==
    ASSUME TicksOK(Book), PositionTypeOK, BalanceInv, unbacked["ticks"] = 0,
           NEW n \in OpenNfts
    PROVE  LET L == positions[n].liquidity
               t == positions[n].tick_lower
               u == positions[n].tick_upper
           IN  /\ GrossOf(t) >= L /\ NetOf(t) - L \in I128
               /\ GrossOf(u) >= L /\ NetOf(u) + L \in I128
<1> DEFINE L == positions[n].liquidity
           t == positions[n].tick_lower
           u == positions[n].tick_upper
<1>1. SharesFit /\ LedgerAgrees /\ SharesTyped
  BY SharesAreTyped DEF BalanceInv
<1>2. /\ n \in Nfts /\ t \in UsableTicks /\ u \in UsableTicks /\ t < u
      /\ L \in Nat /\ L > 0 /\ IsOpen(n)
  BY <1>1, ShareIsExact
<1>3. ASSUME NEW a \in UsableTicks
      PROVE  /\ SumFunctionOnSet(LowerHeld(a), Nfts) \in 0 .. I128Max
             /\ SumFunctionOnSet(UpperHeld(a), Nfts) \in 0 .. I128Max
             /\ \A m \in Nfts : LowerHeld(a)[m] \in Nat /\ UpperHeld(a)[m] \in Nat
  <2>1. ASSUME NEW m \in Nfts, LowerHeld(a)[m] # 0 \/ UpperHeld(a)[m] # 0
        PROVE  /\ m \in OpenNfts
               /\ ShareOf(m).amount = positions[m].liquidity
               /\ positions[m].liquidity \in Nat
    <3>1. ShareOf(m) # Promised!NoShare
      BY <2>1 DEF LowerHeld, UpperHeld, LowerShare, UpperShare
    <3>2. IsOpen(m) /\ m \in OpenNfts
      BY <3>1 DEF ShareOf, Promised!NoShare, OpenNfts
    <3>3. AsI128(positions[m].liquidity) = positions[m].liquidity
          /\ positions[m].liquidity \in Nat
      BY <3>2, <1>1, ShareIsExact
    <3> QED
      BY <3>2, <3>3 DEF ShareOf
  <2>2. \A m \in Nfts : /\ LowerHeld(a)[m] \in {0, ShareOf(m).amount}
                        /\ UpperHeld(a)[m] \in {0, ShareOf(m).amount}
    BY DEF LowerHeld, UpperHeld, LowerShare, UpperShare
  <2>3. \A m \in Nfts : /\ LowerHeld(a)[m] = 0 \/ Fits(LowerHeld(a)[m])
                        /\ UpperHeld(a)[m] = 0 \/ Fits(UpperHeld(a)[m])
    BY <2>1, <2>2, <1>1, ShareIsExact
  <2>4. \A m \in Nfts : LowerHeld(a)[m] \in Nat /\ UpperHeld(a)[m] \in Nat
    BY <2>1, <2>2
  <2> QED
    BY <2>3, <2>4, <1>1, <1>2, RoomBound
<1>4. LowerHeld(t)[n] = L /\ UpperHeld(u)[n] = L
  <2>1. /\ ShareOf(n).lower = t /\ ShareOf(n).upper = u /\ ShareOf(n).amount = L
        /\ ShareOf(n) # Promised!NoShare
    BY <1>1, <1>2, ShareIsExact, ShareOfOpen DEF ShareOf
  <2> QED
    BY <2>1, <1>2 DEF LowerHeld, UpperHeld, LowerShare, UpperShare
<1>5. /\ LowerHeld(t)[n] <= SumFunctionOnSet(LowerHeld(t), Nfts)
      /\ UpperHeld(u)[n] <= SumFunctionOnSet(UpperHeld(u), Nfts)
  BY <1>2, <1>3, NftsAssumption, SumAtLeast
<1>6. \A a \in {t, u} :
         /\ NetOf(a)   = SumFunctionOnSet(LowerHeld(a), Nfts) - SumFunctionOnSet(UpperHeld(a), Nfts)
         /\ GrossOf(a) = SumFunctionOnSet(LowerHeld(a), Nfts) + SumFunctionOnSet(UpperHeld(a), Nfts)
  BY <1>1, <1>2 DEF LedgerAgrees, AgreesAt
<1> DEFINE lt == SumFunctionOnSet(LowerHeld(t), Nfts)
           ut == SumFunctionOnSet(UpperHeld(t), Nfts)
           lu == SumFunctionOnSet(LowerHeld(u), Nfts)
           uu == SumFunctionOnSet(UpperHeld(u), Nfts)
<1>7. /\ lt \in 0 .. I128Max /\ ut \in 0 .. I128Max /\ lu \in 0 .. I128Max /\ uu \in 0 .. I128Max
      /\ L <= lt /\ L <= uu
  BY <1>2, <1>3, <1>4, <1>5
<1>8. /\ NetOf(t) = lt - ut /\ GrossOf(t) = lt + ut
      /\ NetOf(u) = lu - uu /\ GrossOf(u) = lu + uu
  BY <1>6
<1> HIDE DEF L, t, u, lt, ut, lu, uu
<1>9. GrossOf(t) >= L /\ GrossOf(u) >= L
  BY <1>2, <1>7, <1>8, I128IsInt
<1>10. /\ lt - L \in 0 .. I128Max /\ uu - L \in 0 .. I128Max
       /\ NetOf(t) - L = (lt - L) - ut /\ NetOf(u) + L = lu - (uu - L)
  BY <1>2, <1>7, <1>8, I128IsInt
<1>11. NetOf(t) - L \in I128 /\ NetOf(u) + L \in I128
  BY <1>7, <1>10, I128IsInt
<1> QED
  BY <1>9, <1>11 DEF L, t, u

\* An update that takes out no more than is there passes.
LEMMA TakingOutPasses ==
    ASSUME NEW book, TicksOK(book), NEW tick \in UsableTicks, NEW amount \in Nat,
           amount > 0, amount <= I128Max, NEW is_upper \in BOOLEAN,
           InBook(book, tick).liquidity_gross >= amount,
           NetAfter(InBook(book, tick).liquidity_net, -amount, is_upper) \in I128
    PROVE  UpdateTickOk(book, tick, TickWord(tick), -amount, is_upper)
<1> DEFINE start == TickToArrayStart(tick)
           slot  == SlotOf(start, tick)
           old   == Tick(book.arrays, tick)
<1>1. tick \in Ticks /\ tick \in Int
  BY UsableAreTicks
<1>2. ValidTick(tick) /\ ValidTickSpacing(tick)
  BY <1>1 DEF Ticks, ValidTick, UsableTicks
<1>3. start \in DOMAIN book.arrays
  BY DEF InBook, ZeroTick
<1>4. InBook(book, tick) = old
  BY <1>3 DEF InBook
<1>5. old \in TickData
  <2>1. slot \in Slots
    BY <1>1, TickSlot
  <2> QED
    BY <1>3, <2>1 DEF TicksOK, BookOK, BookTypeOK, Tick
<1>6. old.liquidity_gross \in Nat /\ old.liquidity_gross \in U128
  BY <1>5, U128IsNat DEF TickData
<1>7. -(-amount) = amount /\ ~(-amount > 0)
  OBVIOUS
<1>8. GrossAfter(old.liquidity_gross, -amount) = old.liquidity_gross - amount
  BY <1>7 DEF GrossAfter
<1> HIDE DEF start, slot, old
<1>9. old.liquidity_gross - amount \in U128
  BY <1>4, <1>6, WidthsPositive
<1>10. TickWord(tick) \in Words
  BY <1>1 DEF Words
<1>11. book.bitmaps[TickWord(tick)].claimed =>
          book.bitmaps[TickWord(tick)].word_index = TickWord(tick)
  BY <1>10 DEF TicksOK, WordsOwn
<1>12. NetAfter(old.liquidity_net, -amount, is_upper) \in I128
  BY <1>4
<1> QED
  BY <1>2, <1>3, <1>7, <1>8, <1>9, <1>11, <1>12 DEF UpdateTickOk, start, old

LEMMA BothUpdatesPass ==
    ASSUME TicksOK(Book), PositionTypeOK, BalanceInv, unbacked["ticks"] = 0,
           NEW n \in OpenNfts
    PROVE  UpdateTicksOk(positions[n].tick_lower, positions[n].tick_upper,
                         -AsI128(positions[n].liquidity))
<1> DEFINE L == positions[n].liquidity
           t == positions[n].tick_lower
           u == positions[n].tick_upper
           first == AfterUpdateTick(Book, t, -L, FALSE)
<1>1. /\ t \in UsableTicks /\ u \in UsableTicks /\ t # u
      /\ L \in Nat /\ L > 0 /\ L <= I128Max /\ AsI128(L) = L
  <2>1. SharesFit
    BY DEF BalanceInv
  <2>2. /\ t \in UsableTicks /\ u \in UsableTicks /\ t < u
        /\ L \in Nat /\ L > 0 /\ L <= I128Max /\ AsI128(L) = L
    BY <2>1, ShareIsExact
  <2> QED
    BY <2>2, UsableAreTicks
<1>2. /\ GrossOf(t) >= L /\ NetOf(t) - L \in I128
      /\ GrossOf(u) >= L /\ NetOf(u) + L \in I128
  BY FoundAtTicks
<1>3. NetOf(t) \in Int /\ NetOf(u) \in Int
  BY <1>1, HeldIsInt
<1>4. /\ InBook(Book, t).liquidity_gross = GrossOf(t)
      /\ InBook(Book, t).liquidity_net = NetOf(t)
      /\ InBook(Book, u).liquidity_gross = GrossOf(u)
      /\ InBook(Book, u).liquidity_net = NetOf(u)
  BY TickAtIsInBook DEF NetOf, GrossOf
<1> HIDE DEF L, t, u
<1>5. /\ NetAfter(NetOf(t), -L, FALSE) = NetOf(t) - L
      /\ NetAfter(NetOf(u), -L, TRUE) = NetOf(u) + L
  BY <1>1, <1>3 DEF NetAfter
<1>6. UpdateTickOk(Book, t, TickWord(t), -L, FALSE)
  BY <1>1, <1>2, <1>4, <1>5, TakingOutPasses
<1>7. TicksOK(first)
  BY <1>1, <1>6, UpdateKeepsTicks, UsableAreTicks
<1>8. OneChanged(Book, first, t, -L, FALSE)
  BY <1>1, <1>6, UpdateChangesOne
<1> HIDE DEF first
<1>9. InBook(first, u) = InBook(Book, u)
  BY <1>1, <1>8 DEF OneChanged
<1>10. UpdateTickOk(first, u, TickWord(u), -L, TRUE)
  BY <1>1, <1>2, <1>4, <1>5, <1>7, <1>9, TakingOutPasses
<1> QED
  BY <1>1, <1>6, <1>10 DEF UpdateTicksOk, BookAfterLower, first, L, t, u

\* Until somebody sends update_tick past position_mgr, no order of openings,
\* closings, swaps, crossings, burnt NFTs and direct calls of pool_core makes
\* update_tick or modify_liquidity refuse to take a position's liquidity back: the
\* array is there, the bitmap is the tick's, gross covers it and net stays in an
\* i128.
THEOREM ExitNeverBlocked == Spec => []TicksNeverBlockExit
<1>1. SystemInv /\ BalanceInv => TicksNeverBlockExit
  <2> SUFFICES ASSUME SystemInv, BalanceInv, unbacked["ticks"] = 0, NEW n \in OpenNfts
               PROVE  LET pos   == positions[n]
                          delta == -AsI128(pos.liquidity)
                      IN  /\ UpdateTicksOk(pos.tick_lower, pos.tick_upper, delta)
                          /\ ModifyLiquidityOk(pool, delta, pos.tick_lower, pos.tick_upper)
    BY DEF TicksNeverBlockExit
  <2>1. TicksOK(Book) /\ PositionTypeOK /\ SharesFit /\ PoolExists
    BY DEF SystemInv, LedgerInv, BalanceInv
  <2>2. UpdateTicksOk(positions[n].tick_lower, positions[n].tick_upper,
                      -AsI128(positions[n].liquidity))
    BY <2>1, BothUpdatesPass
  <2>3. /\ AsI128(positions[n].liquidity) \in Nat
        /\ AsI128(positions[n].liquidity) <= I128Max
    BY <2>1, ShareIsExact
  <2>4. -(-AsI128(positions[n].liquidity)) <= I128Max
    BY <2>3
  <2>5. pool.initialized
    BY <2>1 DEF PoolExists
  <2> QED
    BY <2>2, <2>4, <2>5 DEF ModifyLiquidityOk
<1> QED
  BY <1>1, BalanceInvAlways, PTL

-------------------------------------------------------------------------------
(* The active liquidity of the pool.                                           *)

\* What an open position adds to the active liquidity at a tick.
ActiveShare(n, tick) ==
    IF n \in OpenNfts /\ positions[n].tick_lower <= tick /\ tick < positions[n].tick_upper
      THEN positions[n].liquidity ELSE 0

ActiveHeld(tick) == [n \in Nfts |-> ActiveShare(n, tick)]

LEMMA ActiveIsLiquidity ==
    ASSUME NEW tick, \A n \in OpenNfts : positions[n].liquidity \in Nat
    PROVE  /\ LiquidityOf({n \in OpenNfts : /\ positions[n].tick_lower <= tick
                                            /\ tick < positions[n].tick_upper})
                = SumFunctionOnSet(ActiveHeld(tick), Nfts)
           /\ \A n \in Nfts : ActiveHeld(tick)[n] \in Nat
<1> DEFINE U == {n \in OpenNfts : /\ positions[n].tick_lower <= tick
                                  /\ tick < positions[n].tick_upper}
           f == [n \in U |-> positions[n].liquidity]
<1>1. U \in SUBSET Nfts
  BY DEF OpenNfts
<1>2. \A n \in U : f[n] \in Int
  OBVIOUS
<1>3. \A n \in Nfts : ActiveHeld(tick)[n] = IF n \in U THEN f[n] ELSE 0
  BY DEF ActiveHeld, ActiveShare
<1>4. LiquidityOf(U) = SumFunctionOnSet(f, U)
  <2>1. DOMAIN f = U
    OBVIOUS
  <2> QED
    BY <2>1 DEF LiquidityOf, SumFunction
<1>5. \A n \in Nfts : ActiveHeld(tick)[n] \in Nat
  BY DEF ActiveHeld, ActiveShare
<1> HIDE DEF U, f
<1>6. SumFunctionOnSet(ActiveHeld(tick), Nfts) = SumFunctionOnSet(f, U)
  BY <1>1, <1>2, <1>3, NftsAssumption, SumFilter
<1> QED
  BY <1>4, <1>5, <1>6 DEF U

\* The pool's liquidity is the sum of the positions around its tick.
ActiveAgrees == pool.liquidity = SumFunctionOnSet(ActiveHeld(pool.tick_current), Nfts)

LEMMA ActiveRightIsAgrees == PositionTypeOK => (ActiveLiquidityRight <=> ActiveAgrees)
<1> SUFFICES ASSUME PositionTypeOK PROVE ActiveLiquidityRight <=> ActiveAgrees
  OBVIOUS
<1>1. \A n \in OpenNfts : positions[n].liquidity \in Nat
  BY OpenIsPosition, U128IsNat DEF OpenNfts, Position
<1> QED
  BY <1>1, ActiveIsLiquidity DEF ActiveLiquidityRight, ActiveAgrees

\* One position comes or goes, and the sum with it.
LEMMA OneActiveChanges ==
    ASSUME NEW nft \in Nfts,
           \A n \in Nfts : /\ ActiveShare(n, pool.tick_current) \in Nat
                           /\ ActiveShare(n, pool.tick_current)' \in Nat,
           \A n \in Nfts \ {nft} :
               ActiveShare(n, pool.tick_current)' = ActiveShare(n, pool.tick_current)
    PROVE  /\ SumFunctionOnSet(ActiveHeld(pool.tick_current)', Nfts)
                = SumFunctionOnSet(ActiveHeld(pool.tick_current), Nfts)
                    - ActiveShare(nft, pool.tick_current)
                    + ActiveShare(nft, pool.tick_current)'
           /\ SumFunctionOnSet(ActiveHeld(pool.tick_current), Nfts) \in Nat
           /\ ActiveShare(nft, pool.tick_current)
                <= SumFunctionOnSet(ActiveHeld(pool.tick_current), Nfts)
<1> DEFINE tick == pool.tick_current
           f == ActiveHeld(tick)
           g == ActiveHeld(tick)'
<1>1. /\ \A n \in Nfts : f[n] = ActiveShare(n, tick) /\ g[n] = ActiveShare(n, tick)'
      /\ \A n \in Nfts : f[n] \in Int /\ g[n] \in Int /\ f[n] \in Nat
      /\ \A n \in Nfts \ {nft} : g[n] = f[n]
  BY DEF ActiveHeld
<1> HIDE DEF f, g
<1>2. SumFunctionOnSet(g, Nfts) = SumFunctionOnSet(f, Nfts) - f[nft] + g[nft]
  BY <1>1, NftsAssumption, SumUpdate
<1>3. SumFunctionOnSet(f, Nfts) \in Nat /\ f[nft] <= SumFunctionOnSet(f, Nfts)
  BY <1>1, NftsAssumption, SumNat, SumAtLeast
<1> QED
  BY <1>1, <1>2, <1>3 DEF f, g

LEMMA ModifyKeepsTick ==
    ASSUME pool \in Pool, NEW delta, NEW lower, NEW upper,
           pool' = PoolAfterModify(pool, delta, lower, upper)
    PROVE  /\ pool'.tick_current = pool.tick_current
           /\ pool'.liquidity = IF ~InRange(pool, lower, upper) THEN pool.liquidity
                                ELSE IF delta >= 0 THEN SatAdd(pool.liquidity, delta)
                                                   ELSE SatSub(pool.liquidity, -delta)
BY DEF PoolAfterModify, Pool

LEMMA OpenKeepsActive ==
    ASSUME ReceiptInv, LedgerInv, SharesFit, ActiveAgrees, NEW owner \in Users,
           NEW nft \in Nfts, NEW pos, NEW paid, Opened(owner, nft, pos, paid)
    PROVE  ActiveAgrees'
<1> DEFINE tick == pool.tick_current
           L == pos.liquidity
           in == pos.tick_lower <= tick /\ tick < pos.tick_upper
           sum == SumFunctionOnSet(ActiveHeld(tick), Nfts)
           sum2 == SumFunctionOnSet(ActiveHeld(tick)', Nfts)
<1>1. \A n \in Nfts : positions'[n] = IF n = nft THEN pos ELSE positions[n]
  BY DEF Opened, ReceiptInv
<1>2. nft \notin OpenNfts
  BY DEF Opened, ReceiptInv, OneReceipt, OpenNfts
<1>3. pos # NoPosition
  <2>1. OwnedRecord(pos)
    BY DEF Opened, Position, OwnedRecord
  <2> QED
    BY <2>1, OwnedIsOpen
<1>4. L \in Nat /\ L > 0 /\ Fits(L) /\ AsI128(L) = L
  <2> DEFINE t == pos.tick_lower
             u == pos.tick_upper
             limit == LiquidityLimit(SqrtPriceAt[t], SqrtPriceAt[u])
  <2>1. /\ t \in UsableTicks /\ u \in UsableTicks /\ t < u /\ L \in Nat /\ L > 0
        /\ L <= limit
    BY U128IsNat DEF Opened, Position, WithinLimit
  <2>2. limit \in Nat /\ limit <= I128Max
    BY <2>1, LimitFits
  <2>3. Fits(L)
    BY <2>1 DEF Fits
  <2> HIDE DEF L, limit
  <2>4. L <= I128Max
    BY <2>1, <2>2, I128IsInt
  <2>5. AsI128(L) = L
    BY <2>1, <2>4, I128IsInt DEF AsI128
  <2> QED
    BY <2>1, <2>3, <2>5
<1>5. \A n \in Nfts \ {nft} : n \in OpenNfts' <=> n \in OpenNfts
  BY <1>1 DEF OpenNfts, IsOpen
<1>6. nft \in OpenNfts'
  BY <1>1, <1>3 DEF OpenNfts, IsOpen
<1>7. /\ \A n \in Nfts \ {nft} : ActiveShare(n, tick)' = ActiveShare(n, tick)
      /\ ActiveShare(nft, tick) = 0
      /\ ActiveShare(nft, tick)' = IF in THEN L ELSE 0
  <2>1. pool'.tick_current = pool.tick_current
    BY ModifyKeepsTick DEF Opened, LedgerInv, PoolTypeOK
  <2> QED
    BY <1>1, <1>2, <1>5, <1>6, <2>1 DEF ActiveShare
<1>8. \A n \in Nfts : /\ ActiveShare(n, tick) = 0 \/ Fits(ActiveShare(n, tick))
                      /\ ActiveShare(n, tick)' = 0 \/ Fits(ActiveShare(n, tick)')
                      /\ ActiveShare(n, tick) \in Nat /\ ActiveShare(n, tick)' \in Nat
  <2>1. \A n \in Nfts : ActiveShare(n, tick) = 0
                          \/ (Fits(ActiveShare(n, tick)) /\ ActiveShare(n, tick) \in Nat)
    BY ShareIsExact DEF ActiveShare, LedgerInv
  <2> HIDE DEF tick, in, L
  <2> QED
    BY <1>4, <1>7, <2>1
<1>9. /\ sum2 = sum - ActiveShare(nft, tick) + ActiveShare(nft, tick)' /\ sum \in Nat
  BY <1>7, <1>8, OneActiveChanges
<1>10. sum2 \in 0 .. I128Max
  <2> DEFINE g == ActiveHeld(tick)'
  <2>1. \A n \in Nfts : g[n] = ActiveShare(n, tick)'
    BY DEF ActiveHeld
  <2> HIDE DEF g
  <2>2. SumFunctionOnSet(g, Nfts) \in 0 .. I128Max
    BY <1>8, <2>1, RoomBound
  <2> QED
    BY <2>2 DEF g
<1>11. /\ pool'.tick_current = tick
       /\ pool'.liquidity = IF in THEN SatAdd(pool.liquidity, L) ELSE pool.liquidity
  BY <1>4, ModifyKeepsTick DEF Opened, LedgerInv, PoolTypeOK, InRange
<1>12. pool.liquidity = sum
  BY DEF ActiveAgrees
<1>13. ActiveHeld(pool.tick_current)' = ActiveHeld(tick)'
  BY <1>11 DEF ActiveHeld, ActiveShare
<1> HIDE DEF tick, L, in, sum, sum2
<1>14. pool'.liquidity = sum2
  <2>1. CASE in
    <3>1. sum2 = sum + L /\ pool'.liquidity = SatAdd(sum, L)
      BY <2>1, <1>4, <1>7, <1>9, <1>11, <1>12
    <3>2. sum2 <= U128Max /\ U128Max \in Int /\ sum2 \in Int
      BY <1>10, I128IsInt, WidthsPositive DEF U128
    <3> QED
      BY <3>1, <3>2, <1>4, <1>9 DEF SatAdd
  <2>2. CASE ~in
    BY <2>2, <1>7, <1>9, <1>11, <1>12
  <2> QED
    BY <2>1, <2>2
<1> QED
  BY <1>13, <1>14 DEF ActiveAgrees, sum2

LEMMA CloseKeepsActive ==
    ASSUME ReceiptInv, LedgerInv, SharesFit, ActiveAgrees,
           NEW owner \in Users, NEW nft \in Nfts, Closed(owner, nft)
    PROVE  ActiveAgrees'
<1> DEFINE tick == pool.tick_current
           pos == positions[nft]
           L == pos.liquidity
           in == pos.tick_lower <= tick /\ tick < pos.tick_upper
           sum == SumFunctionOnSet(ActiveHeld(tick), Nfts)
           sum2 == SumFunctionOnSet(ActiveHeld(tick)', Nfts)
<1>1. \A n \in Nfts : positions'[n] = IF n = nft THEN NoPosition ELSE positions[n]
  BY DEF Closed, ReceiptInv
<1>2. nft \in OpenNfts
  BY DEF Closed, OpenNfts
<1>3. L \in Nat /\ L > 0 /\ AsI128(L) = L
  BY <1>2, ShareIsExact DEF LedgerInv
<1>4. /\ \A n \in Nfts \ {nft} : n \in OpenNfts' <=> n \in OpenNfts
      /\ nft \notin OpenNfts'
  BY <1>1 DEF OpenNfts, IsOpen
<1>5. /\ pool'.tick_current = tick
      /\ pool'.liquidity = IF in THEN SatSub(pool.liquidity, L) ELSE pool.liquidity
  <2>1. ~(-AsI128(L) >= 0) /\ -(-AsI128(L)) = L
    BY <1>3
  <2>2. pool \in Pool /\ pool' = PoolAfterModify(pool, -AsI128(L), pos.tick_lower, pos.tick_upper)
    BY DEF Closed, LedgerInv, PoolTypeOK
  <2> HIDE DEF L, pos
  <2> QED
    BY <2>1, <2>2, ModifyKeepsTick DEF InRange
<1>6. /\ \A n \in Nfts \ {nft} : ActiveShare(n, tick)' = ActiveShare(n, tick)
      /\ ActiveShare(nft, tick) = IF in THEN L ELSE 0
      /\ ActiveShare(nft, tick)' = 0
  BY <1>1, <1>2, <1>4, <1>5 DEF ActiveShare
<1>7. \A n \in Nfts : ActiveShare(n, tick) \in Nat /\ ActiveShare(n, tick)' \in Nat
  <2>1. \A n \in Nfts : ActiveShare(n, tick) \in Nat
    BY ShareIsExact DEF ActiveShare, LedgerInv
  <2> HIDE DEF tick, in, L
  <2> QED
    BY <1>6, <2>1
<1>8. /\ sum2 = sum - ActiveShare(nft, tick) + ActiveShare(nft, tick)' /\ sum \in Nat
      /\ ActiveShare(nft, tick) <= sum
  BY <1>6, <1>7, OneActiveChanges
<1>9. pool.liquidity = sum
  BY DEF ActiveAgrees
<1>10. ActiveHeld(pool.tick_current)' = ActiveHeld(tick)'
  BY <1>5 DEF ActiveHeld, ActiveShare
<1> HIDE DEF tick, L, in, sum, sum2
<1>11. pool'.liquidity = sum2
  BY <1>3, <1>5, <1>6, <1>8, <1>9 DEF SatSub
<1> QED
  BY <1>10, <1>11 DEF ActiveAgrees, sum2

\* Collecting rewrites nothing that the sum is made of.
LEMMA CollectKeepsActive ==
    ASSUME ReceiptInv, LedgerInv, ActiveAgrees, Collect
    PROVE  ActiveAgrees'
<1>1. PICK owner \in Users, nft \in Nfts : CollectFees(owner, nft)
  BY DEF Collect
<1> DEFINE new == Checkpointed(positions[nft])
<1>2. /\ IsOpen(nft) /\ positions' = [positions EXCEPT ![nft] = new] /\ pool' = pool
  BY <1>1 DEF CollectFees
<1>3. positions[nft] \in Position
  BY <1>2, OpenIsPosition DEF LedgerInv
<1>4. /\ new.tick_lower = positions[nft].tick_lower
      /\ new.tick_upper = positions[nft].tick_upper
      /\ new.liquidity = positions[nft].liquidity
      /\ OwnedRecord(new)
  BY <1>3 DEF Checkpointed, Position, OwnedRecord
<1>5. new # NoPosition
  BY <1>4, OwnedIsOpen
<1> HIDE DEF new
<1>6. \A n \in Nfts : positions'[n] = IF n = nft THEN new ELSE positions[n]
  BY <1>2 DEF ReceiptInv
<1>7. \A n \in Nfts : ActiveShare(n, pool.tick_current)' = ActiveShare(n, pool.tick_current)
  BY <1>2, <1>4, <1>5, <1>6 DEF ActiveShare, OpenNfts, IsOpen
<1>8. ActiveHeld(pool.tick_current)' = ActiveHeld(pool.tick_current)
  BY <1>7 DEF ActiveHeld
<1> QED
  BY <1>2, <1>8 DEF ActiveAgrees

\* A swap that pays out anything has moved the price.
LEMMA SwapMovesPrice ==
    ASSUME TablesOK, PoolTypeOK, SwapAny
    PROVE  pool'.sqrt_price # pool.sqrt_price
<1>1. PICK user \in Users, amount \in SwapAmounts, zero_for_one \in BOOLEAN,
           limit \in PriceLimits, minimum \in OutMinimums,
           accounts \in SUBSET DOMAIN tick_arrays :
             Swap(user, amount, zero_for_one, limit, minimum, accounts)
  BY DEF SwapAny
<1> DEFINE start == SwapStart(pool, amount)
           r == SwapResult(pool, amount, accounts, zero_for_one, limit)
           turn == SwapTurn(start, accounts, zero_for_one, limit, pool.fee_rate)
<1>2. pool \in Pool /\ r = turn
  BY ResultType DEF PoolTypeOK
<1>3. r.total_amount_out > 0 /\ r.total_amount_out <= U64Max
  BY <1>1 DEF Swap, SwapOutputOk
<1>4. pool'.sqrt_price = r.sqrt_price
  <2>1. pool' = PoolAfterSwap(pool, r, zero_for_one)
    BY <1>1 DEF Swap
  <2> HIDE DEF r
  <2> QED
    BY <1>2, <2>1 DEF PoolAfterSwap, Pool
<1>5. start.total_amount_out = 0 /\ start.sqrt_price = pool.sqrt_price
      /\ start.liquidity = pool.liquidity
  BY DEF SwapStart
<1>6. pool.sqrt_price \in Nat /\ pool.liquidity \in Nat
  BY <1>2, U128IsNat DEF Pool
<1>7. CASE ~LoopGoesOn(start)
  BY <1>2, <1>3, <1>5, <1>7 DEF SwapTurn
<1>8. CASE LoopGoesOn(start)
  <2> DEFINE target == TurnTarget(start, accounts, zero_for_one, limit)
             next == TurnPrice(start, target, pool.fee_rate)
             out == AmountOut(pool.sqrt_price, next, pool.liquidity, pool.sqrt_price >= target)
  <2>1. turn = TurnTowards(start, target, accounts, zero_for_one, limit, pool.fee_rate)
    BY <1>8 DEF SwapTurn
  <2>2. turn.sqrt_price = next /\ turn.total_amount_out = SatAdd(0, out)
    BY <1>5, <2>1 DEF TurnTowards, AfterStep, TurnStep, StepTo, StepResult
  <2> HIDE DEF target, next, out, turn, r, start
  <2>3. ASSUME next = pool.sqrt_price
        PROVE  out = 0 \/ out = U128Max
    <3> DEFINE c == pool.sqrt_price
               L == pool.liquidity
               product == MulQ64(c, c)
    <3>1. c \in Nat /\ L \in Nat /\ c - c = 0 /\ Greater(c, c) = c /\ Lesser(c, c) = c
      BY <1>6 DEF Greater, Lesser
    <3>2. SatMul(L, 0) = 0
      BY <3>1 DEF SatMul
    <3>3. product \in U128
      BY <1>2, MulQ64Type DEF Pool
    <3>4. product \in Nat
      BY <3>3, U128IsNat
    <3> HIDE DEF product
    <3>5. \A d \in Nat \ {0} : 0 \div d = 0
      OBVIOUS
    <3>6. GetAmount1Delta(c, c, L, FALSE) = 0
      BY <3>1, <3>2, <3>5, WidthsPositive DEF GetAmount1Delta
    <3>7. GetAmount0Delta(c, c, L, FALSE) \in {0, U128Max}
      <4>1. CASE c = 0 \/ product = 0
        BY <3>1, <4>1 DEF GetAmount0Delta, product
      <4>2. CASE ~(c = 0 \/ product = 0)
        <5>1. GetAmount0Delta(c, c, L, FALSE) = 0 \div product
          BY <3>1, <3>2, <4>2 DEF GetAmount0Delta, product
        <5> QED
          BY <3>4, <3>5, <4>2, <5>1
      <4> QED
        BY <4>1, <4>2
    <3> QED
      BY <2>3, <3>6, <3>7 DEF AmountOut, out
  <2>4. SatAdd(0, 0) = 0 /\ SatAdd(0, U128Max) = U128Max /\ ~(U128Max <= U64Max)
    <3>1. U128Max \in Nat /\ U64Max \in Nat /\ U128Max > U64Max
      <4> DEFINE Q == Q64
      <4>1. Q \in Nat /\ Q >= 2 /\ U128Max = Q * Q - 1 /\ U64Max = Q - 1
        BY Q64Assumption DEF U128Max, U64Max
      <4> HIDE DEF Q
      <4>2. Q * Q >= 2 * Q /\ Q * Q \in Nat
        BY <4>1
      <4> QED
        BY <4>1, <4>2
    <3> QED
      BY <3>1 DEF SatAdd
  <2> QED
    BY <1>2, <1>3, <1>4, <2>2, <2>3, <2>4
<1> QED
  BY <1>7, <1>8

\* Without a swap and without modify_liquidity sent past position_mgr, no opening,
\* closing or collecting, in any overlap of ranges, and no other transaction makes
\* the active liquidity wrong.
THEOREM OnlySwapsMiscountCorrect == Spec => OnlySwapsMiscount
<1> DEFINE Kept == /\ ActiveLiquidityRight
                   /\ pool'.sqrt_price = pool.sqrt_price
                   /\ unbacked'["liquidity"] = unbacked["liquidity"]
                   => ActiveLiquidityRight'
<1>1. SystemInv /\ BalanceInv /\ SystemInv' /\ [Next]_vars => [Kept]_vars
  <2> SUFFICES ASSUME SystemInv, BalanceInv, SystemInv', [Next]_vars,
                      ActiveLiquidityRight, pool'.sqrt_price = pool.sqrt_price,
                      unbacked'["liquidity"] = unbacked["liquidity"]
               PROVE  ActiveLiquidityRight'
    OBVIOUS
  <2>0. /\ ReceiptInv /\ LedgerInv /\ SharesFit /\ PoolTypeOK /\ FreshPool
        /\ PositionTypeOK /\ PositionTypeOK' /\ TicksOK(Book)
    BY DEF SystemInv, LedgerInv, BalanceInv
  <2>1. ActiveAgrees
    BY <2>0, ActiveRightIsAgrees
  <2>2. PositionTypeOK' => (ActiveLiquidityRight' <=> ActiveAgrees')
    BY ActiveRightIsAgrees, PTL
  <2> SUFFICES ActiveAgrees'
    BY <2>0, <2>2
  <2>3. CASE UNCHANGED <<pool, positions>>
    BY <2>1, <2>3 DEF ActiveAgrees, ActiveHeld, ActiveShare, OpenNfts, IsOpen
  <2>4. CASE CreatePool
    <3>1. PICK p \in InitialPools : InitializePool(p[1], p[2], p[3])
      BY <2>4 DEF CreatePool
    <3>2. pool.sqrt_price = 0
      BY <2>0, <3>1 DEF InitializePool, FreshPool, NoPool
    <3>3. pool'.sqrt_price = p[1] /\ p[1] > 0
      BY <3>1 DEF InitializePool, NoPool
    <3> QED
      BY <3>2, <3>3
  <2>5. CASE Open
    <3>1. PICK owner \in Users, nft \in Nfts, paid \in SUBSET Tokens :
             \E pos : Opened(owner, nft, pos, paid)
      BY <2>0, <2>5, OpenDoes
    <3> QED
      BY <2>0, <2>1, <3>1, OpenKeepsActive
  <2>6. CASE Close
    BY <2>0, <2>1, <2>6, CloseDoes, CloseKeepsActive
  <2>7. CASE Collect
    BY <2>0, <2>1, <2>7, CollectKeepsActive
  <2>8. CASE SwapAny
    BY <2>0, <2>8, TicksSeen, SwapMovesPrice
  <2>9. CASE CallModifyLiquidity
    BY <2>0, <2>9, KindsAre, Counted DEF CallModifyLiquidity, PositionTypeOK
  <2>10. CASE Burn \/ HandOver
    BY <2>3, <2>10 DEF HandOver, TransferNft, Burn, BurnByHolder, poolVars
  <2>11. CASE MoveTokens /\ UNCHANGED positionVars
    BY <2>3, <2>11 DEF MoveTokens, DepositToVault, TransferFromVault, positionVars
  <2> QED
    BY <2>3, <2>4, <2>5, <2>6, <2>7, <2>8, <2>9, <2>10, <2>11
       DEF Next, poolVars, positionVars, vars
<1> QED
  BY <1>1, BalanceInvAlways, PTL DEF Spec, OnlySwapsMiscount

-------------------------------------------------------------------------------
(* What a user has.                                                            *)

\* What closing one receipt's position would pay a user.
ClaimShare(n, user, k) ==
    IF n \in OpenNfts /\ positions[n].owner = user THEN Claim(positions[n], pool)[k] ELSE 0

ClaimHeld(user, k) == [n \in Nfts |-> ClaimShare(n, user, k)]

ClaimsTyped == \A user \in Users, k \in Tokens, n \in Nfts : ClaimShare(n, user, k) \in Nat

WealthIsSum ==
    \A user \in Users, k \in Tokens :
        /\ Wealth(user, k) = wallet[user][k] + SumFunctionOnSet(ClaimHeld(user, k), Nfts)
        /\ wallet[user][k] \in Nat

LEMMA ClaimsAreTyped == PositionTypeOK /\ PoolTypeOK => ClaimsTyped
<1> SUFFICES ASSUME PositionTypeOK, PoolTypeOK,
                    NEW user \in Users, NEW k \in Tokens, NEW n \in OpenNfts
             PROVE  Claim(positions[n], pool)[k] \in Nat
  BY DEF ClaimsTyped, ClaimShare
<1>1. /\ n \in Nfts /\ positions[n] \in Position
      /\ positions[n].tick_lower < positions[n].tick_upper
  BY OpenIsPosition DEF OpenNfts, PositionTypeOK
<1>2. Amounts(Claim(positions[n], pool))
  BY <1>1, ClaimType DEF PoolTypeOK
<1> QED
  BY <1>2, WidthsPositive DEF Amounts

\* Wealth is the wallet and a sum over all receipts.
LEMMA WealthSums == PositionTypeOK /\ PoolTypeOK => WealthIsSum
<1> SUFFICES ASSUME PositionTypeOK, PoolTypeOK, NEW user \in Users, NEW k \in Tokens
             PROVE  /\ Wealth(user, k)
                         = wallet[user][k] + SumFunctionOnSet(ClaimHeld(user, k), Nfts)
                    /\ wallet[user][k] \in Nat
  BY DEF WealthIsSum
<1> DEFINE U == {n \in OpenNfts : positions[n].owner = user}
           f == [n \in U |-> Claim(positions[n], pool)[k]]
<1>1. U \in SUBSET Nfts
  BY DEF OpenNfts
<1>2. \A n \in U : f[n] \in Int
  BY ClaimsAreTyped DEF ClaimsTyped, ClaimShare, OpenNfts
<1>3. \A n \in Nfts : ClaimHeld(user, k)[n] = IF n \in U THEN f[n] ELSE 0
  BY DEF ClaimHeld, ClaimShare
<1>4. ClaimsOf(U, k) = SumFunctionOnSet(f, U)
  <2>1. DOMAIN f = U
    OBVIOUS
  <2> QED
    BY <2>1 DEF ClaimsOf, SumFunction
<1>5. Wealth(user, k) = wallet[user][k] + ClaimsOf(U, k)
  BY DEF Wealth
<1> HIDE DEF U, f
<1>6. SumFunctionOnSet(ClaimHeld(user, k), Nfts) = SumFunctionOnSet(f, U)
  BY <1>1, <1>2, <1>3, NftsAssumption, SumFilter
<1> QED
  BY <1>4, <1>5, <1>6 DEF PoolTypeOK

\* A step that touches one receipt, and pays its user what the position loses.
SettledAt(nft) ==
    \A user \in Users, k \in Tokens :
        /\ \A n \in Nfts \ {nft} : ClaimShare(n, user, k)' = ClaimShare(n, user, k)
        /\ wallet'[user][k] + ClaimShare(nft, user, k)'
             = wallet[user][k] + ClaimShare(nft, user, k)

WealthKept == \A user \in Users, k \in Tokens : Wealth(user, k)' = Wealth(user, k)

LEMMA SettlingKeepsWealth ==
    ASSUME WealthIsSum, WealthIsSum', ClaimsTyped, ClaimsTyped',
           NEW nft \in Nfts, SettledAt(nft)
    PROVE  WealthKept
<1> SUFFICES ASSUME NEW user \in Users, NEW k \in Tokens
             PROVE  Wealth(user, k)' = Wealth(user, k)
  BY DEF WealthKept
<1> DEFINE f == ClaimHeld(user, k)
           g == ClaimHeld(user, k)'
           F == SumFunctionOnSet(f, Nfts)
           G == SumFunctionOnSet(g, Nfts)
<1>1. /\ Wealth(user, k) = wallet[user][k] + F /\ wallet[user][k] \in Nat
      /\ Wealth(user, k)' = wallet'[user][k] + G /\ wallet'[user][k] \in Nat
  BY DEF WealthIsSum
<1>2. /\ \A n \in Nfts : f[n] = ClaimShare(n, user, k) /\ g[n] = ClaimShare(n, user, k)'
      /\ \A n \in Nfts : f[n] \in Int /\ g[n] \in Int
  BY DEF ClaimHeld, ClaimsTyped
<1>3. /\ \A n \in Nfts \ {nft} : g[n] = f[n]
      /\ wallet'[user][k] + g[nft] = wallet[user][k] + f[nft]
  BY <1>2 DEF SettledAt
<1> HIDE DEF f, g
<1>4. G = F - f[nft] + g[nft]
  BY <1>2, <1>3, NftsAssumption, SumUpdate
<1>5. F \in Int /\ f[nft] \in Int /\ g[nft] \in Int
  BY <1>2, NftsAssumption, SumType
<1> DEFINE before == wallet[user][k]
           after == wallet'[user][k]
<1> HIDE DEF F, G, before, after
<1>6. after + G = before + F
  <2>1. before \in Nat /\ after \in Nat /\ after + g[nft] = before + f[nft]
    BY <1>1, <1>3 DEF before, after
  <2> QED
    BY <1>4, <1>5, <2>1
<1> QED
  BY <1>1, <1>6 DEF before, after

\* A claim depends on the price and the growth of the pool alone.
LEMMA SameClaim ==
    ASSUME NEW pos, NEW p, NEW q,
           q.sqrt_price = p.sqrt_price, q.fee_growth_global = p.fee_growth_global
    PROVE  Claim(pos, q) = Claim(pos, p)
BY DEF Claim, FeesOwed, PositionAmounts

LEMMA ModifyKeepsPricing ==
    ASSUME pool \in Pool, NEW delta, NEW lower, NEW upper,
           pool' = PoolAfterModify(pool, delta, lower, upper)
    PROVE  /\ pool'.sqrt_price = pool.sqrt_price
           /\ pool'.fee_growth_global = pool.fee_growth_global
BY DEF PoolAfterModify, Pool

\* Just after a checkpoint, a position is owed its principal and no more.
LEMMA ClaimAtCheckpoint ==
    ASSUME NEW pos \in Position, pos.tick_lower < pos.tick_upper, NEW p \in Pool,
           pos.fee_growth_checkpoint = p.fee_growth_global, NEW k \in Tokens,
           pos.tokens_owed[k] = 0
    PROVE  Claim(pos, p)[k]
             = PositionAmounts(p, pos.tick_lower, pos.tick_upper, pos.liquidity)[k]
<1> DEFINE worth == PositionAmounts(p, pos.tick_lower, pos.tick_upper, pos.liquidity)
           growth == p.fee_growth_global[k]
<1>1. growth \in U128 /\ pos.liquidity \in U128
  BY DEF Pool, Position
<1>2. growth \in Nat /\ pos.liquidity \in Nat
  BY <1>1, U128IsNat
<1>3. Amounts(worth)
  BY WorthType
<1>4. FeesOwed(pos, p)[k] = 0
  <2>1. growth - growth = 0
    BY <1>2
  <2>2. FeesOwed(pos, p)[k] = (SatMul(0 % (Q64 * Q64), pos.liquidity) \div Q64) % Q64
    BY <2>1 DEF FeesOwed, WrapSub
  <2>3. \A Q \in Nat \ {0} : 0 % Q = 0 /\ 0 \div Q = 0
    OBVIOUS
  <2>4. 0 % (Q64 * Q64) = 0 /\ 0 % Q64 = 0 /\ 0 \div Q64 = 0
    BY <2>3, WidthsPositive
  <2>5. SatMul(0, pos.liquidity) = 0
    <3>1. pos.liquidity # 0 => ~(0 > U128Max \div pos.liquidity)
      <4>1. U128Max \in Nat
        BY WidthsPositive
      <4>2. pos.liquidity # 0 => U128Max \div pos.liquidity \in Nat
        BY <1>2, <4>1, DivNat
      <4> QED
        BY <4>2
    <3> QED
      BY <1>2, <3>1 DEF SatMul
  <2> QED
    BY <2>2, <2>4, <2>5
<1>5. worth[k] \in Nat /\ worth[k] <= U64Max /\ U64Max \in Nat
  BY <1>3, WidthsPositive DEF Amounts, U64, U64Max
<1>6. SatAdd64(worth[k], 0) = worth[k]
  <2> HIDE DEF worth
  <2> QED
    BY <1>5 DEF SatAdd64
<1> HIDE DEF worth
<1>7. Claim(pos, p)[k] = SatAdd64(SatAdd64(worth[k], FeesOwed(pos, p)[k]), 0)
  BY DEF Claim, worth
<1> QED
  BY <1>4, <1>6, <1>7 DEF worth

LEMMA OpenSettles ==
    ASSUME ReceiptInv, LedgerInv, NEW owner \in Users, NEW nft \in Nfts, NEW pos, NEW paid,
           Opened(owner, nft, pos, paid), unbacked'["tokens"] = unbacked["tokens"]
    PROVE  SettledAt(nft)
<1>1. \A n \in Nfts : positions'[n] = IF n = nft THEN pos ELSE positions[n]
  BY DEF Opened, ReceiptInv
<1>2. nft \notin OpenNfts
  BY DEF Opened, ReceiptInv, OneReceipt, OpenNfts
<1>3. pos # NoPosition
  <2>1. OwnedRecord(pos)
    BY DEF Opened, Position, OwnedRecord
  <2> QED
    BY <2>1, OwnedIsOpen
<1>4. \A n \in Nfts : n \in OpenNfts' <=> n = nft \/ n \in OpenNfts
  BY <1>1, <1>3 DEF OpenNfts, IsOpen
<1>5. \A x : Claim(x, pool') = Claim(x, pool)
  BY ModifyKeepsPricing, SameClaim DEF Opened, LedgerInv, PoolTypeOK
<1> DEFINE worth == PositionAmounts(pool, pos.tick_lower, pos.tick_upper, pos.liquidity)
<1>6. \A k \in Tokens : Claim(pos, pool)[k] = worth[k]
  BY ClaimAtCheckpoint DEF Opened, LedgerInv, PoolTypeOK
<1>7. Amounts(worth)
  BY WorthType DEF Opened, LedgerInv, PoolTypeOK
<1> HIDE DEF worth
<1>8. PayIn(owner, worth, paid) /\ pos.owner = owner
  BY DEF Opened, worth
<1>13. paid = Tokens
  BY <1>8, KindsAre, Counted DEF PayIn, LedgerInv, PositionTypeOK
<1>14. \A k \in Tokens : Due(worth, paid)[k] = worth[k]
  BY <1>13 DEF Due
<1> SUFFICES ASSUME NEW user \in Users, NEW k \in Tokens
             PROVE  /\ \A n \in Nfts \ {nft} : ClaimShare(n, user, k)' = ClaimShare(n, user, k)
                    /\ wallet'[user][k] + ClaimShare(nft, user, k)'
                         = wallet[user][k] + ClaimShare(nft, user, k)
  BY DEF SettledAt
<1>9. \A n \in Nfts \ {nft} : ClaimShare(n, user, k)' = ClaimShare(n, user, k)
  BY <1>1, <1>4, <1>5 DEF ClaimShare
<1>10. /\ ClaimShare(nft, user, k) = 0
       /\ ClaimShare(nft, user, k)' = IF user = owner THEN worth[k] ELSE 0
  BY <1>1, <1>2, <1>4, <1>5, <1>6, <1>8 DEF ClaimShare
<1>11. wallet'[user][k] = IF user = owner THEN wallet[user][k] - worth[k] ELSE wallet[user][k]
  BY <1>8, <1>14 DEF PayIn, LedgerInv, PoolTypeOK
<1>12. wallet[user][k] \in Nat /\ worth[k] \in Nat
  BY <1>7, WidthsPositive DEF Amounts, LedgerInv, PoolTypeOK
<1> QED
  BY <1>9, <1>10, <1>11, <1>12

LEMMA CloseSettles ==
    ASSUME ReceiptInv, LedgerInv, NEW owner \in Users, NEW nft \in Nfts, Closed(owner, nft)
    PROVE  SettledAt(nft)
<1>1. \A n \in Nfts : positions'[n] = IF n = nft THEN NoPosition ELSE positions[n]
  BY DEF Closed, ReceiptInv
<1>2. nft \in OpenNfts /\ positions[nft].owner = owner
  BY DEF Closed, OpenNfts
<1>3. \A n \in Nfts : n \in OpenNfts' <=> n # nft /\ n \in OpenNfts
  BY <1>1 DEF OpenNfts, IsOpen
<1>4. \A x : Claim(x, pool') = Claim(x, pool)
  BY ModifyKeepsPricing, SameClaim DEF Closed, LedgerInv, PoolTypeOK
<1> DEFINE claim == Claim(positions[nft], pool)
<1>5. \A k \in Tokens : claim[k] \in Nat
  BY <1>2, ClaimsAreTyped DEF ClaimsTyped, ClaimShare, LedgerInv
<1> HIDE DEF claim
<1>6. PayOut(owner, claim)
  BY DEF Closed, claim
<1> SUFFICES ASSUME NEW user \in Users, NEW k \in Tokens
             PROVE  /\ \A n \in Nfts \ {nft} : ClaimShare(n, user, k)' = ClaimShare(n, user, k)
                    /\ wallet'[user][k] + ClaimShare(nft, user, k)'
                         = wallet[user][k] + ClaimShare(nft, user, k)
  BY DEF SettledAt
<1>7. \A n \in Nfts \ {nft} : ClaimShare(n, user, k)' = ClaimShare(n, user, k)
  BY <1>1, <1>3, <1>4 DEF ClaimShare
<1>8. /\ ClaimShare(nft, user, k) = IF user = owner THEN claim[k] ELSE 0
      /\ ClaimShare(nft, user, k)' = 0
  BY <1>2, <1>3 DEF ClaimShare, claim
<1>9. wallet'[user][k] = IF user = owner THEN wallet[user][k] + claim[k] ELSE wallet[user][k]
  BY <1>6 DEF PayOut, LedgerInv, PoolTypeOK
<1>10. wallet[user][k] \in Nat
  BY DEF LedgerInv, PoolTypeOK
<1> QED
  BY <1>5, <1>7, <1>8, <1>9, <1>10

\* An uncut claim is the principal and what collect_fees pays.
LEMMA UncutClaim ==
    ASSUME NoClaimCut, NEW n \in OpenNfts, NEW k \in Tokens, positions[n] \in Position,
           positions[n].tick_lower < positions[n].tick_upper, pool \in Pool
    PROVE  Claim(positions[n], pool)[k]
             = PositionAmounts(pool, positions[n].tick_lower, positions[n].tick_upper,
                               positions[n].liquidity)[k]
                 + ClaimedFees(positions[n], pool)[k]
<1> DEFINE pos == positions[n]
           worth == PositionAmounts(pool, pos.tick_lower, pos.tick_upper, pos.liquidity)[k]
           fees == FeesOwed(pos, pool)[k]
           owed == pos.tokens_owed[k]
<1>1. worth \in Nat /\ fees \in Nat /\ owed \in Nat
  <2>1. /\ Amounts(PositionAmounts(pool, pos.tick_lower, pos.tick_upper, pos.liquidity))
        /\ Amounts(FeesOwed(pos, pool))
    BY WorthType, FeesOwedType
  <2>2. worth \in U64 /\ fees \in U64
    BY <2>1 DEF Amounts
  <2>3. owed \in U64
    BY DEF Position
  <2> QED
    BY <2>2, <2>3, WidthsPositive
<1>2. worth + fees + owed <= U64Max
  BY DEF NoClaimCut
<1>3. Claim(pos, pool)[k] = SatAdd64(SatAdd64(worth, fees), owed)
  BY DEF Claim
<1>4. ClaimedFees(pos, pool)[k] = SatAdd64(fees, owed)
  BY DEF ClaimedFees
<1> HIDE DEF pos, worth, fees, owed
<1>5. U64Max \in Int
  BY WidthsPositive DEF U64Max
<1>6. /\ SatAdd64(worth, fees) = worth + fees
      /\ SatAdd64(worth + fees, owed) = worth + fees + owed
      /\ SatAdd64(fees, owed) = fees + owed
  BY <1>1, <1>2, <1>5 DEF SatAdd64
<1> QED
  BY <1>1, <1>3, <1>4, <1>6 DEF pos, worth, fees, owed

LEMMA CollectSettles ==
    ASSUME ReceiptInv, LedgerInv, NoClaimCut, Collect
    PROVE  \E nft \in Nfts : SettledAt(nft)
<1>1. PICK owner \in Users, nft \in Nfts : CollectFees(owner, nft)
  BY DEF Collect
<1> DEFINE pos == positions[nft]
           new == Checkpointed(pos)
           worth == PositionAmounts(pool, pos.tick_lower, pos.tick_upper, pos.liquidity)
           paid == ClaimedFees(pos, pool)
<1>2. /\ nft \in OpenNfts /\ positions' = [positions EXCEPT ![nft] = new] /\ pool' = pool
      /\ pos.owner = owner /\ PayOut(owner, paid)
  BY <1>1 DEF CollectFees, OpenNfts
<1>3. pos \in Position /\ pos.tick_lower < pos.tick_upper /\ pool \in Pool
  BY <1>2, OpenIsPosition DEF LedgerInv, PositionTypeOK, OpenNfts, PoolTypeOK
<1>4. /\ new.tick_lower = pos.tick_lower /\ new.tick_upper = pos.tick_upper
      /\ new.liquidity = pos.liquidity /\ new.owner = pos.owner
      /\ new.fee_growth_checkpoint = pool.fee_growth_global
      /\ new.tokens_owed = [k \in Tokens |-> 0]
      /\ OwnedRecord(new)
  BY <1>3 DEF Checkpointed, Position, OwnedRecord
<1>5. new \in Position
  <2>1. pool.fee_growth_global \in [Tokens -> U128]
    BY <1>3 DEF Pool
  <2>2. 0 \in U64
    BY WidthsPositive
  <2> QED
    BY <1>3, <2>1, <2>2 DEF Checkpointed, Position
<1>6. new # NoPosition
  BY <1>4, OwnedIsOpen
<1>7. \A k \in Tokens : Claim(new, pool)[k] = worth[k]
  <2>1. \A k \in Tokens : new.tokens_owed[k] = 0
    BY <1>4
  <2> HIDE DEF new, pos
  <2> QED
    BY <1>3, <1>4, <1>5, <2>1, ClaimAtCheckpoint
<1>8. \A k \in Tokens : Claim(pos, pool)[k] = worth[k] + paid[k]
  BY <1>2, <1>3, UncutClaim
<1>9. \A k \in Tokens : worth[k] \in Nat /\ paid[k] \in Nat
  BY <1>3, WorthType, ClaimType, WidthsPositive DEF Amounts
<1> HIDE DEF new, pos, worth, paid
<1>10. \A n \in Nfts : positions'[n] = IF n = nft THEN new ELSE positions[n]
  BY <1>2 DEF ReceiptInv
<1>11. \A n \in Nfts : n \in OpenNfts' <=> n \in OpenNfts
  BY <1>2, <1>6, <1>10 DEF OpenNfts, IsOpen
<1>12. ASSUME NEW user \in Users, NEW k \in Tokens
       PROVE  /\ \A n \in Nfts \ {nft} : ClaimShare(n, user, k)' = ClaimShare(n, user, k)
              /\ wallet'[user][k] + ClaimShare(nft, user, k)'
                   = wallet[user][k] + ClaimShare(nft, user, k)
  <2>1. \A n \in Nfts \ {nft} : ClaimShare(n, user, k)' = ClaimShare(n, user, k)
    BY <1>2, <1>10, <1>11 DEF ClaimShare
  <2>2. /\ ClaimShare(nft, user, k) = IF user = owner THEN worth[k] + paid[k] ELSE 0
        /\ ClaimShare(nft, user, k)' = IF user = owner THEN worth[k] ELSE 0
    BY <1>2, <1>4, <1>7, <1>8, <1>10, <1>11 DEF ClaimShare, pos
  <2>3. wallet'[user][k] = IF user = owner THEN wallet[user][k] + paid[k] ELSE wallet[user][k]
    BY <1>2 DEF PayOut, LedgerInv, PoolTypeOK
  <2>4. wallet[user][k] \in Nat
    BY DEF LedgerInv, PoolTypeOK
  <2> QED
    BY <1>9, <2>1, <2>2, <2>3, <2>4
<1> QED
  BY <1>12 DEF SettledAt

\* A claim is worth the same after modify_liquidity.
LEMMA ModifyKeepsWealth ==
    ASSUME pool \in Pool, CallModifyLiquidity, UNCHANGED positionVars
    PROVE  WealthKept
<1>1. PICK delta \in Deltas, r \in Ranges : ModifyLiquidity(delta, r[1], r[2])
  BY DEF CallModifyLiquidity
<1>2. wallet' = wallet /\ pool' = PoolAfterModify(pool, delta, r[1], r[2])
  BY <1>1 DEF ModifyLiquidity
<1>3. \A pos : Claim(pos, pool') = Claim(pos, pool)
  BY <1>2, ModifyKeepsPricing, SameClaim
<1>4. ASSUME NEW user \in Users, NEW k \in Tokens
      PROVE  Wealth(user, k)' = Wealth(user, k)
  <2> DEFINE U == {n \in OpenNfts : positions[n].owner = user}
             f == [n \in U |-> Claim(positions[n], pool)[k]]
  <2>1. positions' = positions
    BY DEF positionVars
  <2>2. U' = U
    BY <2>1 DEF OpenNfts, IsOpen
  <2>3. \A n \in U : Claim(positions'[n], pool') = Claim(positions[n], pool)
    BY <1>3, <2>1
  <2>4. f' = f
    BY <2>2, <2>3
  <2>5. Wealth(user, k) = wallet[user][k] + SumFunction(f)
    BY DEF Wealth, ClaimsOf
  <2>6. Wealth(user, k)' = wallet'[user][k] + SumFunction(f')
    BY DEF Wealth, ClaimsOf
  <2> HIDE DEF f
  <2> QED
    BY <1>2, <2>4, <2>5, <2>6
<1> QED
  BY <1>4 DEF WealthKept

\* Nothing but a swap, or tokens moved past position_mgr, makes anybody richer or
\* poorer, for any number of users and positions and any number of tokens moved
\* before, as long as no claim is cut to a u64.
THEOREM WealthSettledCorrect == Spec => WealthSettled
<1> DEFINE Kept == /\ NoClaimCut
                   /\ pool.initialized
                   /\ pool'.sqrt_price = pool.sqrt_price
                   /\ unbacked'["tokens"] = unbacked["tokens"]
                   => WealthKept
<1>1. SystemInv /\ SystemInv' /\ [Next]_vars => [Kept]_vars
  <2> SUFFICES ASSUME SystemInv, SystemInv', [Next]_vars, NoClaimCut,
                      pool'.sqrt_price = pool.sqrt_price, pool.initialized,
                      unbacked'["tokens"] = unbacked["tokens"]
               PROVE  WealthKept
    OBVIOUS
  <2>0. /\ ReceiptInv /\ LedgerInv /\ PoolTypeOK /\ PositionTypeOK /\ TicksOK(Book)
        /\ PositionTypeOK' /\ PoolTypeOK'
    BY DEF SystemInv, LedgerInv
  <2>1. WealthIsSum /\ ClaimsTyped
    BY <2>0, WealthSums, ClaimsAreTyped
  <2>2. PositionTypeOK' /\ PoolTypeOK' => WealthIsSum' /\ ClaimsTyped'
    BY WealthSums, ClaimsAreTyped, PTL
  <2>3. WealthIsSum' /\ ClaimsTyped'
    BY <2>0, <2>2
  <2>4. CASE UNCHANGED <<pool, wallet, positions>>
    BY <2>4 DEF WealthKept, Wealth, ClaimsOf, OpenNfts, IsOpen
  <2>5. ~CreatePool
    BY DEF CreatePool, InitializePool
  <2>6. CASE Open
    <3>1. PICK owner \in Users, nft \in Nfts, paid \in SUBSET Tokens :
             \E pos : Opened(owner, nft, pos, paid)
      BY <2>0, <2>6, OpenDoes
    <3> QED
      BY <2>0, <2>1, <2>3, <3>1, OpenSettles, SettlingKeepsWealth
  <2>7. CASE Close
    <3>1. PICK owner \in Users, nft \in Nfts : Closed(owner, nft)
      BY <2>0, <2>7, CloseDoes
    <3> QED
      BY <2>0, <2>1, <2>3, <3>1, CloseSettles, SettlingKeepsWealth
  <2>8. CASE Collect
    BY <2>0, <2>1, <2>3, <2>8, CollectSettles, SettlingKeepsWealth
  <2>9. CASE SwapAny
    BY <2>0, <2>9, TicksSeen, SwapMovesPrice
  <2>10. CASE CallModifyLiquidity /\ UNCHANGED positionVars
    BY <2>0, <2>10, ModifyKeepsWealth DEF PoolTypeOK
  <2>11. CASE MoveTokens
    BY <2>0, <2>11, KindsAre, Counted DEF MoveTokens, PositionTypeOK
  <2>12. CASE Burn \/ HandOver
    BY <2>4, <2>12 DEF HandOver, TransferNft, Burn, BurnByHolder, poolVars
  <2> QED
    BY <2>4, <2>5, <2>6, <2>7, <2>8, <2>9, <2>10, <2>11, <2>12
       DEF Next, poolVars, positionVars, vars
<1> QED
  BY <1>1, SystemInvAlways, PTL DEF Spec, WealthSettled, WealthKept

===============================================================================
