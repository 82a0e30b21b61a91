---------------------------- MODULE PointAccount ----------------------------
(***************************************************************************)
(* What the point system promises, with no transaction and no table: an    *)
(* account per user on which a user action is charged at most once, a      *)
(* charge is given back at most once and exactly, a code pays each user at *)
(* most once and no more often than its quota, and nothing goes below 0.   *)
(* Points.tla, the translation of points.service.ts, implements it.        *)
(***************************************************************************)
EXTENDS Integers, FiniteSets

CONSTANTS
  Users,
  Keys,             \* idempotency keys of user actions
  Codes,
  Grant,            \* Grant[c]: the points one redemption of code c pays
  Quota,            \* Quota[c]: how many users may redeem code c
  Prices,           \* the prices an action may have
  Bonuses,          \* the sign-up bonuses
  Adjustments       \* the corrections an operator may make

VARIABLES
  balance,          \* [Users -> Nat]
  spent,            \* [Users -> partial function from keys to the price paid]
  refunded,         \* [Users -> the keys given back]
  claimed,          \* [Codes -> the users who redeemed it]
  welcomed          \* the users who received the sign-up bonus

vars == <<balance, spent, refunded, claimed, welcomed>>

Init ==
  /\ balance = [u \in Users |-> 0]
  /\ spent = [u \in Users |-> [k \in {} |-> 0]]
  /\ refunded = [u \in Users |-> {}]
  /\ claimed = [c \in Codes |-> {}]
  /\ welcomed = {}

Credit(u, n) ==
  /\ balance[u] + n >= 0
  /\ balance' = [balance EXCEPT ![u] = @ + n]

Charge(u, k, price) ==
  /\ k \notin DOMAIN spent[u]
  /\ Credit(u, -price)
  /\ spent' = [spent EXCEPT ![u] =
                 [x \in DOMAIN spent[u] \union {k} |->
                    IF x = k THEN price ELSE spent[u][x]]]
  /\ UNCHANGED <<refunded, claimed, welcomed>>

Refund(u, k) ==
  /\ k \in DOMAIN spent[u] \ refunded[u]
  /\ Credit(u, spent[u][k])
  /\ refunded' = [refunded EXCEPT ![u] = @ \union {k}]
  /\ UNCHANGED <<spent, claimed, welcomed>>

Redeem(u, c) ==
  /\ u \notin claimed[c]
  /\ Cardinality(claimed[c]) < Quota[c]
  /\ Credit(u, Grant[c])
  /\ claimed' = [claimed EXCEPT ![c] = @ \union {u}]
  /\ UNCHANGED <<spent, refunded, welcomed>>

Welcome(u, bonus) ==
  /\ u \notin welcomed
  /\ Credit(u, bonus)
  /\ welcomed' = welcomed \union {u}
  /\ UNCHANGED <<spent, refunded, claimed>>

Adjust(u, n) ==
  /\ Credit(u, n)
  /\ UNCHANGED <<spent, refunded, claimed, welcomed>>

Next ==
  \E u \in Users :
    \/ \E k \in Keys : Refund(u, k) \/ \E price \in Prices : Charge(u, k, price)
    \/ \E c \in Codes : Redeem(u, c)
    \/ \E bonus \in Bonuses : Welcome(u, bonus)
    \/ \E n \in Adjustments : Adjust(u, n)

Spec == Init /\ [][Next]_vars
=============================================================================
