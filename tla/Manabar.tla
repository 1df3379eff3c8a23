-------------------------------- MODULE Manabar --------------------------------
(***************************************************************************)
(* hivecomb/src/chain/manabar.rs with the resource credits of              *)
(* chain/account.rs and NodeClient::has_rc_for: a bar that refills         *)
(* linearly, stored as its value at the last update, and extrapolated by a *)
(* client that may hold an old copy of it and whose clock may be behind.   *)
(* An f64 is the fraction nearest to what it stands for.                   *)
(* The chain is modelled after what it meters: it counts in fractions.     *)
(***************************************************************************)
EXTENDS Integers

CONSTANTS
    REGENERATION_SECONDS,
    MaxRcs,             \* RcAccount.max_rc
    I64Max,             \* the largest value of an i64
    MANTISSA,           \* the bits of an f64's digits
    Costs,              \* what a transaction costs
    Horizon             \* bound: how far time runs

ASSUME ManaAssumption ==
    /\ REGENERATION_SECONDS \in Nat \ {0} /\ I64Max \in Nat /\ MANTISSA \in Nat
    /\ MaxRcs \subseteq 0 .. I64Max /\ Costs \subseteq Nat

VARIABLES
    time,       \* of the chain
    max_rc,     \* the maximum of the account
    exact,      \* what it has, in fractions of REGENERATION_SECONDS
    bar,        \* what the chain stores: current_mana, last_update_time
    copy,       \* the RcAccount the client holds
    spent       \* whether mana was spent since the copy was made

mana_vars == <<time, max_rc, exact, bar, copy, spent>>

Bar(mana, at) == [current_mana |-> mana, last_update_time |-> at]

-----------------------------------------------------------------------------
(* Manabar *)

min(x, y) == IF x <= y THEN x ELSE y
saturating_sub(x, y) == IF x <= y THEN 0 ELSE x - y
saturating_add(x, y) == min(x + y, I64Max)
clamp(x, high) == IF x < 0 THEN 0 ELSE min(x, high)

(* Seeded bug: the product is computed in the width of its factors. *)
regenerated_narrow(max, elapsed) ==
    ((min(elapsed, REGENERATION_SECONDS) * max) % (I64Max + 1)) \div REGENERATION_SECONDS

regenerated(max, elapsed) ==
    (min(elapsed, REGENERATION_SECONDS) * max) \div REGENERATION_SECONDS

current(b, max, now) ==
    IF max <= 0 THEN 0
    ELSE clamp(saturating_add(b.current_mana,
                   regenerated(max, saturating_sub(now, b.last_update_time))), max)

(* num / den rounded to a whole number, halfway to the even one. *)
nearest(num, den) ==
    LET q == num \div den
        twice == 2 * (num % den)
    IN  IF twice > den \/ (twice = den /\ q % 2 = 1) THEN q + 1 ELSE q

(* The f64 nearest to num / den, as a fraction itself. *)
f64(num, den) ==
    LET up(e) == IF e < 0 THEN 2^(-e) ELSE 1
        down(e) == IF e > 0 THEN 2^e ELSE 1
        exp == CHOOSE e \in -2 * MANTISSA .. 63 :
                 (num * up(e)) \div (den * down(e)) \in 2^(MANTISSA - 1) .. 2^MANTISSA - 1
    IN  IF num = 0 THEN <<0, 1>>
        ELSE <<nearest(num * up(exp), den * down(exp)) * down(exp), up(exp)>>

percentage(b, max, now) ==
    IF max <= 0 THEN <<0, 1>>
    ELSE LET share == f64(current(b, max, now) * 100, 1)
             whole == f64(max, 1)
         IN  f64(share[1] * whole[2], share[2] * whole[1])

(* A set, empty for None. *)
seconds_until_full(b, max, now) ==
    IF max <= 0 \/ current(b, max, now) >= max THEN {}
    ELSE {((max - current(b, max, now)) * REGENERATION_SECONDS) \div max}

-----------------------------------------------------------------------------
(* RcAccount: numbers come as numbers or as text, anything else is zero.   *)
as_integer(v) == IF v[1] \in {"number", "string"} THEN v[2] ELSE 0

current_rc(account, now) ==
    current(Bar(as_integer(account.current_mana), account.last_update_time),
            as_integer(account.max_rc), now)

has_rc_for(account, rc, now) == current_rc(account, now) >= rc

-----------------------------------------------------------------------------
(* The chain: a transaction is paid for from what is there. *)
Spend(cost) ==
    /\ cost <= current(bar, max_rc, time)
    /\ bar' = Bar(current(bar, max_rc, time) - cost, time)
    /\ exact' = REGENERATION_SECONDS * bar'.current_mana
    /\ spent' = TRUE /\ UNCHANGED <<time, max_rc, copy>>

Passes ==
    /\ time < Horizon /\ time' = time + 1
    /\ exact' = min(exact + max_rc, max_rc * REGENERATION_SECONDS)
    /\ UNCHANGED <<max_rc, bar, copy, spent>>

(* rc_accounts *)
FetchRc ==
    /\ \E form \in {"number", "string"} :
         copy' = [current_mana |-> <<form, bar.current_mana>>, max_rc |-> <<form, max_rc>>,
                  last_update_time |-> bar.last_update_time]
    /\ spent' = FALSE /\ UNCHANGED <<time, max_rc, exact, bar>>

ManaInit ==
    /\ time = 0 /\ max_rc \in MaxRcs
    /\ \E mana \in 0 .. max_rc : bar = Bar(mana, 0) /\ exact = REGENERATION_SECONDS * mana
    /\ copy = [current_mana |-> <<"null", 0>>, max_rc |-> <<"null", 0>>, last_update_time |-> 0]
    /\ spent = TRUE

ManaNext == Passes \/ (\E cost \in Costs : Spend(cost)) \/ FetchRc

ManaSpec == ManaInit /\ [][ManaNext]_mana_vars

-----------------------------------------------------------------------------
(* The extrapolation is the chain's own count, rounded down, at any later  *)
(* moment and from a copy of any age until mana is spent (an account's     *)
(* last update may be long past, and its values near the top of an i64); a *)
(* clock that is behind promises no more.  And one second after the bar    *)
(* was said to be full, it is.  (current, seconds_until_full: integers.)   *)
ExtrapolatesTheChain ==
    ~spent =>
        /\ current_rc(copy, time) = exact \div REGENERATION_SECONDS
        /\ \A behind \in 0 .. time : current_rc(copy, behind) <= current_rc(copy, time)
        /\ \A s \in seconds_until_full(bar, max_rc, time) :
              current(bar, max_rc, time + s + 1) = max_rc

(* "Percentage of the maximum available at `now`, in `0.0..=100.0`"        *)
(* (manabar.rs:48).  Violated by full bars whose hundredfold an f64 cannot *)
(* hold: it may be rounded up, and with it the quotient.                   *)
PercentageInRange ==
    LET p == percentage(bar, max_rc, time) IN p[1] <= 100 * p[2]
=============================================================================
