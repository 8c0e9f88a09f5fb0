----------------------------- MODULE LiquidityBook ----------------------------
(* What NarrowSwap promises about positions and ticks, without arrays,         *)
(* bitmaps, prices or tokens: a book of shares, each entered at two ticks.     *)
(*                                                                             *)
(* A receipt is issued once with a share, may change hands, and is redeemed    *)
(* once, by whoever holds it; one that is destroyed leaves its share behind.   *)
(* Entering a share adds it to what its two ticks hold, taking it out          *)
(* subtracts the same.  Nothing else touches a tick, unless somebody writes to *)
(* the book from outside; that breaks its seal and neither a receipt nor a     *)
(* share, and the next entry is as exact as the last.                          *)
EXTENDS Integers

CONSTANTS Receipts, Holders, Nobody, TickSet

VARIABLES holder,   \* [Receipts -> who holds it, or Nobody]
          spent,    \* the receipts that were ever issued
          share,    \* [Receipts -> Shares, or NoShare]
          sealed,   \* whether nobody has written to the ticks from outside
          net,      \* [TickSet -> Int], what crossing the tick upwards adds
          gross     \* [TickSet -> Int], what is entered at the tick

bookVars == <<holder, spent, share, sealed, net, gross>>

Shares  == [lower : TickSet, upper : TickSet, amount : Int]
NoShare == [amount |-> 0]

At(tick, t, amount) == IF t = tick THEN amount ELSE 0

NetAt(s, t)   == At(s.lower, t, s.amount) - At(s.upper, t, s.amount)
GrossAt(s, t) == At(s.lower, t, s.amount) + At(s.upper, t, s.amount)

Init == /\ holder = [r \in Receipts |-> Nobody]
        /\ spent = {}
        /\ share = [r \in Receipts |-> NoShare]
        /\ sealed = TRUE
        /\ net = [t \in TickSet |-> 0]
        /\ gross = [t \in TickSet |-> 0]

\* The new share is whatever the table of shares has at the receipt afterwards.
Issue(r, to) ==
    /\ r \notin spent
    /\ spent' = spent \cup {r}
    /\ holder' = [holder EXCEPT ![r] = to]
    /\ share'[r] \in Shares
    /\ share'[r].lower < share'[r].upper
    /\ share' = [share EXCEPT ![r] = share'[r]]
    /\ net'   = [t \in TickSet |-> net[t] + NetAt(share'[r], t)]
    /\ gross' = [t \in TickSet |-> gross[t] + GrossAt(share'[r], t)]
    /\ UNCHANGED sealed

Redeem(r, from) ==
    /\ share[r] # NoShare
    /\ holder[r] = from
    /\ holder' = [holder EXCEPT ![r] = Nobody]
    /\ share' = [share EXCEPT ![r] = NoShare]
    /\ net'   = [t \in TickSet |-> net[t] - NetAt(share[r], t)]
    /\ gross' = [t \in TickSet |-> gross[t] - GrossAt(share[r], t)]
    /\ UNCHANGED <<spent, sealed>>

HandOver(r, from, to) ==
    /\ holder[r] = from
    /\ holder' = [holder EXCEPT ![r] = to]
    /\ UNCHANGED <<spent, share, sealed, net, gross>>

Destroy(r, from) ==
    /\ holder[r] = from
    /\ holder' = [holder EXCEPT ![r] = Nobody]
    /\ UNCHANGED <<spent, share, sealed, net, gross>>

\* Somebody writes to a tick from outside.
Outside(t) ==
    /\ sealed' = FALSE
    /\ net'   = [net EXCEPT ![t] = net'[t]]
    /\ gross' = [gross EXCEPT ![t] = gross'[t]]
    /\ UNCHANGED <<holder, spent, share>>

Next ==
    \/ \E r \in Receipts, h \in Holders :
          \/ Issue(r, h)
          \/ Redeem(r, h)
          \/ Destroy(r, h)
          \/ \E to \in Holders : HandOver(r, h, to)
    \/ \E t \in TickSet : Outside(t)

Spec == Init /\ [][Next]_bookVars
===============================================================================
