------------------------------- MODULE Points -------------------------------
(***************************************************************************)
(* points.service.ts: the point ledger of the server. Every operation is   *)
(* a PostgreSQL transaction at READ COMMITTED: its first reads see only    *)
(* what was committed before, then its UPDATE of the users row takes the   *)
(* row lock and everything up to COMMIT happens in one piece, because each *)
(* writer of the same balance waits for that lock. So an operation is two  *)
(* steps here, Begin... (the reads, with the early returns as guards) and  *)
(* Commit... (the writes, or the rollback). A read that ends in an early   *)
(* return changes nothing and is the Begin... step that is not enabled.    *)
(*                                                                         *)
(* POINTS_ENABLED, POINTS_PER_CHAT and SIGNUP_BONUS_POINTS are read when   *)
(* the process starts: they change only with Restart, which also drops     *)
(* every transaction in flight.                                            *)
(***************************************************************************)
EXTENDS Integers, Sequences, FiniteSets

CONSTANTS
  Users,
  Keys,             \* idempotency keys: the refId of SPEND and REFUND rows
  Codes,
  Grant,            \* redeem_codes.points
  Quota,            \* redeem_codes.max_redemptions
  Configs,          \* environments: [enabled, cost, bonus]
  Adjustments,      \* amounts an operator enters, positive and negative
  Procs,            \* transactions that may be open at the same time
  MaxAdjustments    \* bound on the number of ADMIN rows

ASSUME GrantAssumption == Grant \in [Codes -> Nat]
ASSUME QuotaAssumption == Quota \in [Codes -> Nat]
ASSUME ConfigAssumption ==
  Configs \subseteq [enabled : BOOLEAN, cost : Nat, bonus : Nat]
ASSUME AdjustmentAssumption == Adjustments \subseteq Int \ {0}

VARIABLES
  points,           \* users.points, the cached balance
  ledger,           \* point_transactions, in commit order
  codes,            \* redeem_codes: absent, active or expired
  usedCount,        \* redeem_codes.used_count
  redeemed,         \* code_redemptions: [Codes -> SUBSET Users]
  registered,       \* the users rows
  tx,               \* [Procs -> the open transaction]
  config            \* the environment the process started with

vars == <<points, ledger, codes, usedCount, redeemed, registered, tx, config>>

Row == [user : Users, delta : Int, reason : {"SPEND", "REFUND", "REDEEM", "BONUS", "ADMIN"},
        ref : Keys \union Codes \union Users \union Nat, balanceAfter : Int]

Idle == [op |-> "idle"]
Tx == {Idle}
  \union [op : {"charge"}, user : Users, key : Keys]
  \union [op : {"refund"}, user : Users, key : Keys, amount : Nat]
  \union [op : {"redeem"}, user : Users, code : Codes]
  \union [op : {"bonus"}, user : Users]

Init ==
  /\ points = [u \in Users |-> 0]
  /\ ledger = <<>>
  /\ codes = [c \in Codes |-> "absent"]
  /\ usedCount = [c \in Codes |-> 0]
  /\ redeemed = [c \in Codes |-> {}]
  /\ registered = {}
  /\ tx = [p \in Procs |-> Idle]
  /\ config \in Configs

-----------------------------------------------------------------------------

\* The row of (user, reason, ref) at position i; refType follows from the reason.
IsRow(i, u, reason, ref) ==
  ledger[i].user = u /\ ledger[i].reason = reason /\ ledger[i].ref = ref

HasRow(u, reason, ref) ==
  \E i \in 1..Len(ledger) : IsRow(i, u, reason, ref)

Open(p, t) ==
  /\ tx[p] = Idle
  /\ tx' = [tx EXCEPT ![p] = t]

Close(p) == tx' = [tx EXCEPT ![p] = Idle]

Rollback(p) ==
  /\ Close(p)
  /\ UNCHANGED <<points, ledger, codes, usedCount, redeemed, registered, config>>

\* Mutation of Post: point_tx_ref_uq is missing.
PostAgain(u, delta, reason, ref) ==
  /\ points' = [points EXCEPT ![u] = @ + delta]
  /\ ledger' = Append(ledger, [user |-> u, delta |-> delta, reason |-> reason,
                               ref |-> ref, balanceAfter |-> points[u] + delta])

\* Mutation of Post: the row records the balance from before the UPDATE.
PostOldBalance(u, delta, reason, ref) ==
  /\ ~HasRow(u, reason, ref)
  /\ points' = [points EXCEPT ![u] = @ + delta]
  /\ ledger' = Append(ledger, [user |-> u, delta |-> delta, reason |-> reason,
                               ref |-> ref, balanceAfter |-> points[u]])

\* UPDATE users SET points = points + delta; INSERT the row with the new
\* balance. point_tx_ref_uq refuses a second row of the same reference.
Post(u, delta, reason, ref) ==
  /\ ~HasRow(u, reason, ref)
  /\ points' = [points EXCEPT ![u] = @ + delta]
  /\ ledger' = Append(ledger, [user |-> u, delta |-> delta, reason |-> reason,
                               ref |-> ref, balanceAfter |-> points[u] + delta])

-----------------------------------------------------------------------------

\* chargeTurn
BeginCharge(p, u, k) ==
  /\ u \in registered
  /\ config.enabled /\ config.cost > 0
  /\ ~HasRow(u, "SPEND", k)
  /\ Open(p, [op |-> "charge", user |-> u, key |-> k])
  /\ UNCHANGED <<points, ledger, codes, usedCount, redeemed, registered, config>>

\* Mutation of CommitCharge: the UPDATE lost its condition points >= cost.
CommitChargeOverdrawn(p) ==
  /\ tx[p].op = "charge"
  /\ Post(tx[p].user, -config.cost, "SPEND", tx[p].key)
  /\ Close(p)
  /\ UNCHANGED <<codes, usedCount, redeemed, registered, config>>

CommitCharge(p) ==
  /\ tx[p].op = "charge"
  /\ points[tx[p].user] >= config.cost
  /\ Post(tx[p].user, -config.cost, "SPEND", tx[p].key)
  /\ Close(p)
  /\ UNCHANGED <<codes, usedCount, redeemed, registered, config>>

\* Mutation of FailCharge: the 23505 is caught where the debit is not rolled back.
FailChargeKept(p) ==
  /\ tx[p].op = "charge"
  /\ points[tx[p].user] >= config.cost /\ HasRow(tx[p].user, "SPEND", tx[p].key)
  /\ points' = [points EXCEPT ![tx[p].user] = @ - config.cost]
  /\ Close(p)
  /\ UNCHANGED <<ledger, codes, usedCount, redeemed, registered, config>>

\* InsufficientPointsError, or the 23505 of a concurrent duplicate.
FailCharge(p) ==
  /\ tx[p].op = "charge"
  /\ points[tx[p].user] < config.cost \/ HasRow(tx[p].user, "SPEND", tx[p].key)
  /\ Rollback(p)

\* Mutation of BeginRefund: the present price is given back, not the one paid.
BeginRefundAtPrice(p, u, k) ==
  /\ config.enabled
  /\ ~HasRow(u, "REFUND", k)
  /\ HasRow(u, "SPEND", k)
  /\ Open(p, [op |-> "refund", user |-> u, key |-> k, amount |-> config.cost])
  /\ UNCHANGED <<points, ledger, codes, usedCount, redeemed, registered, config>>

\* Mutation of BeginRefund: nobody looks for the SPEND row.
BeginRefundBlind(p, u, k) ==
  /\ config.enabled
  /\ ~HasRow(u, "REFUND", k)
  /\ Open(p, [op |-> "refund", user |-> u, key |-> k, amount |-> config.cost])
  /\ UNCHANGED <<points, ledger, codes, usedCount, redeemed, registered, config>>

\* refundTurn
BeginRefund(p, u, k) ==
  /\ config.enabled
  /\ ~HasRow(u, "REFUND", k)
  /\ \E i \in 1..Len(ledger) :
       /\ IsRow(i, u, "SPEND", k)
       /\ Open(p, [op |-> "refund", user |-> u, key |-> k, amount |-> -ledger[i].delta])
  /\ UNCHANGED <<points, ledger, codes, usedCount, redeemed, registered, config>>

CommitRefund(p) ==
  /\ tx[p].op = "refund"
  /\ Post(tx[p].user, tx[p].amount, "REFUND", tx[p].key)
  /\ Close(p)
  /\ UNCHANGED <<codes, usedCount, redeemed, registered, config>>

FailRefund(p) ==
  /\ tx[p].op = "refund"
  /\ HasRow(tx[p].user, "REFUND", tx[p].key)
  /\ Rollback(p)

\* redeem: the expiry is read before the redemption row and the quota are written.
BeginRedeem(p, u, c) ==
  /\ u \in registered
  /\ codes[c] = "active"
  /\ Open(p, [op |-> "redeem", user |-> u, code |-> c])
  /\ UNCHANGED <<points, ledger, codes, usedCount, redeemed, registered, config>>

\* Mutation of CommitRedeem: used_count is raised without the quota condition.
CommitRedeemUnbounded(p) ==
  LET u == tx[p].user
      c == tx[p].code
  IN  /\ tx[p].op = "redeem"
      /\ u \notin redeemed[c]
      /\ redeemed' = [redeemed EXCEPT ![c] = @ \union {u}]
      /\ usedCount' = [usedCount EXCEPT ![c] = @ + 1]
      /\ Post(u, Grant[c], "REDEEM", c)
      /\ Close(p)
      /\ UNCHANGED <<codes, registered, config>>

CommitRedeem(p) ==
  LET u == tx[p].user
      c == tx[p].code
  IN  /\ tx[p].op = "redeem"
      /\ u \notin redeemed[c]
      /\ usedCount[c] < Quota[c]
      /\ redeemed' = [redeemed EXCEPT ![c] = @ \union {u}]
      /\ usedCount' = [usedCount EXCEPT ![c] = @ + 1]
      /\ Post(u, Grant[c], "REDEEM", c)
      /\ Close(p)
      /\ UNCHANGED <<codes, registered, config>>

\* ALREADY_REDEEMED or CODE_EXHAUSTED: the redemption row is rolled back too.
FailRedeem(p) ==
  /\ tx[p].op = "redeem"
  /\ \/ tx[p].user \in redeemed[tx[p].code]
     \/ usedCount[tx[p].code] >= Quota[tx[p].code]
  /\ Rollback(p)

\* AuthService.register inserts the user, then awaits grantSignupBonus.
Register(p, u) ==
  /\ u \notin registered
  /\ registered' = registered \union {u}
  /\ IF config.enabled /\ config.bonus > 0
       THEN Open(p, [op |-> "bonus", user |-> u])
       ELSE UNCHANGED tx
  /\ UNCHANGED <<points, ledger, codes, usedCount, redeemed, config>>

CommitBonus(p) ==
  /\ tx[p].op = "bonus"
  /\ Post(tx[p].user, config.bonus, "BONUS", tx[p].user)
  /\ Close(p)
  /\ UNCHANGED <<codes, usedCount, redeemed, registered, config>>

\* adjustPoints: one conditional UPDATE; the refId is a fresh uuid.
Adjust(u, n) ==
  /\ u \in registered
  /\ Cardinality({i \in 1..Len(ledger) : ledger[i].reason = "ADMIN"}) < MaxAdjustments
  /\ points[u] + n >= 0
  /\ Post(u, n, "ADMIN", Len(ledger) + 1)
  /\ UNCHANGED <<codes, usedCount, redeemed, registered, tx, config>>

CreateCode(c) ==
  /\ codes[c] = "absent"
  /\ codes' = [codes EXCEPT ![c] = "active"]
  /\ UNCHANGED <<points, ledger, usedCount, redeemed, registered, tx, config>>

\* expiresAt passes.
Expire(c) ==
  /\ codes[c] = "active"
  /\ codes' = [codes EXCEPT ![c] = "expired"]
  /\ UNCHANGED <<points, ledger, usedCount, redeemed, registered, tx, config>>

\* The process dies and comes back, maybe with another environment.
Restart ==
  /\ tx' = [p \in Procs |-> Idle]
  /\ config' \in Configs
  /\ UNCHANGED <<points, ledger, codes, usedCount, redeemed, registered>>

Next ==
  \/ \E p \in Procs :
       \/ \E u \in Users :
            \/ \E k \in Keys : BeginCharge(p, u, k) \/ BeginRefund(p, u, k)
            \/ \E c \in Codes : BeginRedeem(p, u, c)
            \/ Register(p, u)
       \/ CommitCharge(p) \/ FailCharge(p)
       \/ CommitRefund(p) \/ FailRefund(p)
       \/ CommitRedeem(p) \/ FailRedeem(p)
       \/ CommitBonus(p)
  \/ \E u \in Users, n \in Adjustments : Adjust(u, n)
  \/ \E c \in Codes : CreateCode(c) \/ Expire(c)
  \/ Restart

Spec == Init /\ [][Next]_vars

-----------------------------------------------------------------------------

(* Types. A balance is a natural number: no order of charges, corrections  *)
(* and refunds takes users.points below 0 (the conditional UPDATEs of      *)
(* chargeTurn and adjustPoints).                                           *)
TypeOK ==
  /\ points \in [Users -> Nat]
  /\ ledger \in Seq(Row)
  /\ codes \in [Codes -> {"absent", "active", "expired"}]
  /\ usedCount \in [Codes -> Nat]
  /\ redeemed \in [Codes -> SUBSET Users]
  /\ registered \in SUBSET Users
  /\ tx \in [Procs -> Tx]
  /\ config \in [enabled : BOOLEAN, cost : Nat, bonus : Nat]

\* After the first n rows, the ledger says that user u has b points.
Settles(u, n, b) ==
  \/ b = 0 /\ \A i \in 1..n : ledger[i].user # u
  \/ \E j \in 1..n :
       /\ ledger[j].user = u
       /\ b = ledger[j].balanceAfter
       /\ \A i \in (j + 1)..n : ledger[i].user # u

(* users.points is a cache of the ledger (users.ts, point-transactions.ts  *)
(* "users.points 는 이 원장의 캐시"): it is the balanceAfter of the user's  *)
(* last row, whatever was rolled back or interrupted.                      *)
CacheMatchesLedger == \A u \in Users : Settles(u, Len(ledger), points[u])

(* The rows of a user chain: each balanceAfter is the previous one plus    *)
(* the row's delta, so the history an operator audits has no gap.          *)
LedgerChains ==
  \A i \in 1..Len(ledger) :
    Settles(ledger[i].user, i - 1, ledger[i].balanceAfter - ledger[i].delta)

(* Balances and ledger tell the same story: no charge, grant or correction *)
(* leaves one without the other, and none is missing in between.           *)
BooksAgree == CacheMatchesLedger /\ LedgerChains

(* point_tx_ref_uq: an action is charged once, given back once, a code     *)
(* pays a user once (chargeTurn "이중 차감 없음").                          *)
OneRowPerReference ==
  \A i, j \in 1..Len(ledger) :
    IsRow(i, ledger[j].user, ledger[j].reason, ledger[j].ref) => i = j

(* A refund gives back exactly what an earlier charge of the same action   *)
(* took, also when the price changed in between (refundTurn reads delta).  *)
RefundMatchesSpend ==
  \A i \in 1..Len(ledger) :
    ledger[i].reason = "REFUND" =>
      \E j \in 1..(i - 1) :
        /\ IsRow(j, ledger[i].user, "SPEND", ledger[i].ref)
        /\ ledger[i].delta = -ledger[j].delta

(* A code is used as often as it has redemptions, never beyond             *)
(* max_redemptions, and every redemption is paid exactly once: concurrent  *)
(* redemptions do not oversubscribe it (redeem, "공용 상한 초과 레이스 방어"). *)
CodeWithinQuota ==
  \A c \in Codes :
    /\ usedCount[c] = Cardinality(redeemed[c])
    /\ usedCount[c] <= Quota[c]
    /\ \A u \in Users : u \in redeemed[c] <=> HasRow(u, "REDEEM", c)

-----------------------------------------------------------------------------

\* The account the ledger stands for.
Keyed(u, reason) == {k \in Keys : HasRow(u, reason, k)}

Price(u, k) == -ledger[CHOOSE i \in 1..Len(ledger) : IsRow(i, u, "SPEND", k)].delta

Account == INSTANCE PointAccount WITH
  Prices <- {cfg.cost : cfg \in Configs},
  Bonuses <- {cfg.bonus : cfg \in Configs},
  balance <- points,
  spent <- [u \in Users |-> [k \in Keyed(u, "SPEND") |-> Price(u, k)]],
  refunded <- [u \in Users |-> Keyed(u, "REFUND")],
  claimed <- redeemed,
  welcomed <- {u \in Users : HasRow(u, "BONUS", u)}

(* The transactions implement the account: every commit is one step of it, *)
(* everything else (reads, rollbacks, restarts, expiry) is invisible.      *)
ImplementsAccount == Account!Spec
=============================================================================
