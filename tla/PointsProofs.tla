---------------------------- MODULE PointsProofs ----------------------------
(***************************************************************************)
(* Theorems about Points, for any sets of users, keys, codes and           *)
(* transactions and any prices. Every step of the module either posts one  *)
(* row (Post) or leaves balances and ledger alone: the lemma LedgerStep    *)
(* says so once, and the invariants of the ledger follow from it.          *)
(***************************************************************************)
EXTENDS Points, FiniteSetTheorems, TLAPS

(* What a row of the ledger is for, and what it refers to.                 *)
Reasons == {"SPEND", "REFUND", "REDEEM", "BONUS", "ADMIN"}
Refs == Keys \union Codes \union Users \union Nat

(* A posting that the code may make: it leaves the balance at 0 or above,  *)
(* a charge never pays, a refund is that of an open transaction, and a     *)
(* code's grant comes with its redemption.                                 *)
Posting(u, d, r, f) ==
  /\ Post(u, d, r, f)
  /\ points[u] + d >= 0
  /\ r = "SPEND" => d <= 0
  /\ r = "REFUND" =>
       \E p \in Procs : tx[p] = [op |-> "refund", user |-> u, key |-> f, amount |-> d]
  /\ r = "REDEEM" => \E p \in Procs : CommitRedeem(p)

(* What a posting does to the ledger, row by row.                          *)
LEMMA PostRows ==
  ASSUME TypeOK, NEW u \in Users, NEW d \in Int, NEW r \in Reasons, NEW f \in Refs,
         Post(u, d, r, f)
  PROVE  /\ Len(ledger) \in Nat
         /\ Len(ledger') = Len(ledger) + 1
         /\ \A i \in 1..Len(ledger) : ledger'[i] = ledger[i]
         /\ ledger'[Len(ledger) + 1] =
              [user |-> u, delta |-> d, reason |-> r, ref |-> f,
               balanceAfter |-> points[u] + d]
         /\ \A i \in 1..Len(ledger) : ledger[i] \in Row
         /\ points' = [points EXCEPT ![u] = @ + d]
  BY DEF TypeOK, Post

(* Charges never pay: the delta of a SPEND row is at most 0, so a refund   *)
(* read from it is a natural number.                                       *)
SpendsAreDebits ==
  \A i \in 1..Len(ledger) : ledger[i].reason = "SPEND" => ledger[i].delta <= 0

IInv == TypeOK /\ SpendsAreDebits

(* Every step posts one legal row or touches neither balances nor ledger.  *)
LEMMA LedgerStep ==
  ASSUME IInv, [Next]_vars
  PROVE  \/ UNCHANGED <<points, ledger>>
         \/ \E u \in Users, d \in Int, r \in Reasons, f \in Refs :
              Posting(u, d, r, f)
<1> USE GrantAssumption, AdjustmentAssumption
<1>1. ASSUME NEW p \in Procs, CommitCharge(p)
      PROVE  \E u \in Users, d \in Int, r \in Reasons, f \in Refs :
               Posting(u, d, r, f)
  <2>1. tx[p] \in [op : {"charge"}, user : Users, key : Keys]
    BY <1>1 DEF CommitCharge, IInv, TypeOK, Tx, Idle
  <2>2. /\ config.cost \in Nat
        /\ points[tx[p].user] \in Nat
    BY <2>1 DEF IInv, TypeOK
  <2>3. Posting(tx[p].user, -config.cost, "SPEND", tx[p].key)
    BY <1>1, <2>1, <2>2 DEF CommitCharge, Posting
  <2> QED BY <2>1, <2>2, <2>3 DEF Reasons, Refs
<1>2. ASSUME NEW p \in Procs, CommitRefund(p)
      PROVE  \E u \in Users, d \in Int, r \in Reasons, f \in Refs :
               Posting(u, d, r, f)
  <2>1. tx[p] \in [op : {"refund"}, user : Users, key : Keys, amount : Nat]
    BY <1>2 DEF CommitRefund, IInv, TypeOK, Tx, Idle
  <2>2. points[tx[p].user] \in Nat
    BY <2>1 DEF IInv, TypeOK
  <2>3. Posting(tx[p].user, tx[p].amount, "REFUND", tx[p].key)
    BY <1>2, <2>1, <2>2 DEF CommitRefund, Posting
  <2> QED BY <2>1, <2>3 DEF Reasons, Refs
<1>3. ASSUME NEW p \in Procs, CommitRedeem(p)
      PROVE  \E u \in Users, d \in Int, r \in Reasons, f \in Refs :
               Posting(u, d, r, f)
  <2>1. tx[p] \in [op : {"redeem"}, user : Users, code : Codes]
    BY <1>3 DEF CommitRedeem, IInv, TypeOK, Tx, Idle
  <2>2. points[tx[p].user] \in Nat /\ Grant[tx[p].code] \in Nat
    BY <2>1 DEF IInv, TypeOK
  <2>3. Post(tx[p].user, Grant[tx[p].code], "REDEEM", tx[p].code)
    BY <1>3 DEF CommitRedeem
  <2>4. Posting(tx[p].user, Grant[tx[p].code], "REDEEM", tx[p].code)
    BY <1>3, <2>2, <2>3 DEF Posting
  <2> QED BY <2>1, <2>2, <2>4 DEF Reasons, Refs
<1>4. ASSUME NEW p \in Procs, CommitBonus(p)
      PROVE  \E u \in Users, d \in Int, r \in Reasons, f \in Refs :
               Posting(u, d, r, f)
  <2>1. tx[p] \in [op : {"bonus"}, user : Users]
    BY <1>4 DEF CommitBonus, IInv, TypeOK, Tx, Idle
  <2>2. points[tx[p].user] \in Nat /\ config.bonus \in Nat
    BY <2>1 DEF IInv, TypeOK
  <2>3. Posting(tx[p].user, config.bonus, "BONUS", tx[p].user)
    BY <1>4, <2>1, <2>2 DEF CommitBonus, Posting
  <2> QED BY <2>1, <2>2, <2>3 DEF Reasons, Refs
<1>5. ASSUME NEW u \in Users, NEW n \in Adjustments, Adjust(u, n)
      PROVE  \E v \in Users, d \in Int, r \in Reasons, f \in Refs :
               Posting(v, d, r, f)
  <2>1. Posting(u, n, "ADMIN", Len(ledger) + 1)
    BY <1>5 DEF Adjust, Posting
  <2>2. Len(ledger) + 1 \in Nat
    BY DEF IInv, TypeOK
  <2> QED BY <2>1, <2>2 DEF Reasons, Refs
<1>6. CASE UNCHANGED vars
  BY <1>6 DEF vars
<1>7. CASE \/ \E p \in Procs :
                \/ \E u \in Users :
                     \/ \E k \in Keys : BeginCharge(p, u, k) \/ BeginRefund(p, u, k)
                     \/ \E c \in Codes : BeginRedeem(p, u, c)
                     \/ Register(p, u)
                \/ FailCharge(p) \/ FailRefund(p) \/ FailRedeem(p)
           \/ \E c \in Codes : CreateCode(c) \/ Expire(c)
           \/ Restart
  BY <1>7 DEF BeginCharge, BeginRefund, BeginRedeem, Register, FailCharge, FailRefund,
              FailRedeem, Rollback, CreateCode, Expire, Restart
<1> QED BY <1>1, <1>2, <1>3, <1>4, <1>5, <1>6, <1>7 DEF Next

(* Type correctness: in particular no interleaving of the transactions     *)
(* makes a balance negative.                                               *)
LEMMA TypeInit == Init => IInv
  BY ConfigAssumption DEF Init, IInv, TypeOK, SpendsAreDebits, Tx, Idle

(* A step keeps the types of balances and ledger.                          *)
LEMMA LedgerTypeStep ==
  ASSUME IInv, [Next]_vars
  PROVE  /\ points' \in [Users -> Nat]
         /\ ledger' \in Seq(Row)
         /\ SpendsAreDebits'
<1>1. CASE UNCHANGED <<points, ledger>>
  BY <1>1 DEF IInv, TypeOK, SpendsAreDebits
<1>2. CASE \E u \in Users, d \in Int, r \in Reasons, f \in Refs :
             Posting(u, d, r, f)
  <2>1. PICK u \in Users, d \in Int, r \in Reasons, f \in Refs :
          Posting(u, d, r, f)
    BY <1>2
  <2> DEFINE row == [user |-> u, delta |-> d, reason |-> r, ref |-> f,
                     balanceAfter |-> points[u] + d]
  <2>2. /\ points[u] \in Nat /\ points[u] + d \in Nat
        /\ r = "SPEND" => d <= 0
    BY <2>1 DEF IInv, TypeOK, Posting
  <2>3. row \in Row
    BY <2>2 DEF Row, Reasons, Refs
  <2>4. points' \in [Users -> Nat]
    BY <2>1, <2>2 DEF IInv, TypeOK, Posting, Post
  <2>5. ledger' = Append(ledger, row)
    BY <2>1 DEF Posting, Post
  <2>6. ledger' \in Seq(Row)
    BY <2>3, <2>5 DEF IInv, TypeOK
  <2>7. /\ Len(ledger) \in Nat
        /\ Len(ledger') = Len(ledger) + 1
        /\ \A i \in 1..Len(ledger) : ledger'[i] = ledger[i]
        /\ ledger'[Len(ledger) + 1] = row
    BY <2>1, PostRows DEF IInv, Posting
  <2>8. SpendsAreDebits'
    <3> SUFFICES ASSUME NEW i \in 1..Len(ledger'), ledger'[i].reason = "SPEND"
                 PROVE  ledger'[i].delta <= 0
      BY DEF SpendsAreDebits
    <3>1. CASE i \in 1..Len(ledger)
      BY <3>1, <2>7 DEF IInv, SpendsAreDebits
    <3>2. CASE i = Len(ledger) + 1
      BY <3>2, <2>2, <2>7
    <3> QED BY <3>1, <3>2, <2>7
  <2> QED BY <2>4, <2>6, <2>8
<1> QED BY <1>1, <1>2, LedgerStep

(* A step keeps IInv: the transactions and codes by action.                *)
LEMMA TypeStep ==
  ASSUME IInv, [Next]_vars
  PROVE  IInv'
<1> USE DEF IInv
<1>1. TypeOK
  OBVIOUS
<1>2. UNCHANGED tx \/ tx' \in [Procs -> Tx]
  <2>1. \A p \in Procs : Close(p) => tx' \in [Procs -> Tx]
    BY <1>1 DEF TypeOK, Close, Tx
  <2>2. ASSUME NEW p \in Procs, NEW u \in Users, NEW k \in Keys, BeginCharge(p, u, k)
        PROVE  tx' \in [Procs -> Tx]
    BY <2>2 DEF BeginCharge, Open, TypeOK, Tx
  <2>3. ASSUME NEW p \in Procs, NEW u \in Users, NEW k \in Keys, BeginRefund(p, u, k)
        PROVE  tx' \in [Procs -> Tx]
    <3>1. PICK i \in 1..Len(ledger) :
            /\ IsRow(i, u, "SPEND", k)
            /\ Open(p, [op |-> "refund", user |-> u, key |-> k, amount |-> -ledger[i].delta])
      BY <2>3 DEF BeginRefund
    <3>2. ledger[i] \in Row /\ ledger[i].delta <= 0
      BY <3>1 DEF TypeOK, SpendsAreDebits, IsRow
    <3>3. -ledger[i].delta \in Nat
      BY <3>2 DEF Row
    <3>4. [op |-> "refund", user |-> u, key |-> k, amount |-> -ledger[i].delta] \in Tx
      BY <3>3 DEF Tx
    <3> QED BY <3>1, <3>4 DEF Open, TypeOK
  <2>4. ASSUME NEW p \in Procs, NEW u \in Users, NEW c \in Codes, BeginRedeem(p, u, c)
        PROVE  tx' \in [Procs -> Tx]
    BY <2>4 DEF BeginRedeem, Open, TypeOK, Tx
  <2>5. ASSUME NEW p \in Procs, NEW u \in Users, Register(p, u)
        PROVE  UNCHANGED tx \/ tx' \in [Procs -> Tx]
    BY <2>5 DEF Register, Open, TypeOK, Tx
  <2>6. ASSUME Restart
        PROVE  tx' \in [Procs -> Tx]
    BY <2>6 DEF Restart, Tx
  <2> QED BY <2>1, <2>2, <2>3, <2>4, <2>5, <2>6
          DEF Next, vars, CommitCharge, FailCharge, CommitRefund, FailRefund, CommitRedeem,
              FailRedeem, CommitBonus, Rollback, Adjust, CreateCode, Expire
<1>3. /\ codes' \in [Codes -> {"absent", "active", "expired"}]
      /\ registered' \in SUBSET Users
      /\ config' \in [enabled : BOOLEAN, cost : Nat, bonus : Nat]
  BY <1>1, ConfigAssumption
     DEF TypeOK, Next, vars, BeginCharge, BeginRefund, BeginRedeem, Register, CommitCharge,
         FailCharge, CommitRefund, FailRefund, CommitRedeem, FailRedeem, CommitBonus, Rollback,
         Adjust, CreateCode, Expire, Restart
<1>4. UNCHANGED <<usedCount, redeemed>> \/ \E p \in Procs : CommitRedeem(p)
  BY DEF Next, vars, BeginCharge, BeginRefund, BeginRedeem, Register, CommitCharge,
         FailCharge, CommitRefund, FailRefund, FailRedeem, CommitBonus, Rollback,
         Adjust, CreateCode, Expire, Restart
<1>5. ASSUME NEW p \in Procs, CommitRedeem(p)
      PROVE  usedCount' \in [Codes -> Nat] /\ redeemed' \in [Codes -> SUBSET Users]
  <2>1. tx[p] \in [op : {"redeem"}, user : Users, code : Codes]
    BY <1>5 DEF CommitRedeem, TypeOK, Tx, Idle
  <2> QED BY <1>5, <2>1 DEF CommitRedeem, TypeOK
<1> QED BY <1>1, <1>2, <1>3, <1>4, <1>5, LedgerTypeStep DEF TypeOK

(* In every reachable state the tables have their types: no interleaving of *)
(* charges, refunds, corrections and restarts makes a balance negative.    *)
THEOREM TypeCorrect == Spec => []TypeOK
<1>1. IInv => TypeOK
  BY DEF IInv
<1> QED BY TypeInit, TypeStep, <1>1, PTL DEF Spec

-----------------------------------------------------------------------------

(* The ledger and its cache: each posting starts from the user's last      *)
(* balance because the row lock orders the writers.                        *)
LedgerInv == CacheMatchesLedger /\ LedgerChains /\ OneRowPerReference

(* A posting keeps what earlier prefixes of the ledger say, and what the   *)
(* whole of it says of the other users.                                    *)
LEMMA SettlesStable ==
  ASSUME IInv, NEW u \in Users, NEW d \in Int, NEW r \in Reasons, NEW f \in Refs,
         Post(u, d, r, f),
         NEW v \in Users, NEW n \in 0..Len(ledger), NEW b \in Int, Settles(v, n, b)
  PROVE  /\ Settles(v, n, b)'
         /\ (v # u /\ n = Len(ledger)) => Settles(v, n + 1, b)'
<1>1. /\ Len(ledger) \in Nat
      /\ \A i \in 1..Len(ledger) : ledger'[i] = ledger[i]
      /\ ledger'[Len(ledger) + 1].user = u
  <2>1. TypeOK
    BY DEF IInv
  <2>2. /\ Len(ledger) \in Nat
        /\ \A i \in 1..Len(ledger) : ledger'[i] = ledger[i]
        /\ ledger'[Len(ledger) + 1] =
             [user |-> u, delta |-> d, reason |-> r, ref |-> f,
              balanceAfter |-> points[u] + d]
    BY <2>1, PostRows
  <2> QED BY <2>2
<1>2. CASE b = 0 /\ \A i \in 1..n : ledger[i].user # v
  BY <1>1, <1>2 DEF Settles
<1>3. ASSUME NEW j \in 1..n, ledger[j].user = v, b = ledger[j].balanceAfter,
             \A i \in (j + 1)..n : ledger[i].user # v
      PROVE  /\ Settles(v, n, b)'
             /\ (v # u /\ n = Len(ledger)) => Settles(v, n + 1, b)'
  <2>1. /\ ledger'[j].user = v
        /\ b = ledger'[j].balanceAfter
        /\ \A i \in (j + 1)..n : ledger'[i].user # v
    BY <1>1, <1>3
  <2>2. Settles(v, n, b)'
    BY <2>1 DEF Settles
  <2>3. ASSUME v # u, n = Len(ledger)
        PROVE  Settles(v, n + 1, b)'
    <3>1. \A i \in (j + 1)..(n + 1) : ledger'[i].user # v
      BY <2>1, <2>3, <1>1
    <3>2. j \in 1..(n + 1)
      BY <1>1
    <3> QED BY <3>1, <3>2, <2>1 DEF Settles
  <2> QED BY <2>2, <2>3
<1> QED BY <1>2, <1>3 DEF Settles

(* A step keeps the invariants of the ledger.                              *)
LEMMA LedgerInvStep ==
  ASSUME IInv, LedgerInv, [Next]_vars
  PROVE  LedgerInv'
<1>1. CASE UNCHANGED <<points, ledger>>
  BY <1>1 DEF LedgerInv, CacheMatchesLedger, LedgerChains, OneRowPerReference, Settles, IsRow
<1>2. ASSUME NEW u \in Users, NEW d \in Int, NEW r \in Reasons, NEW f \in Refs,
             Posting(u, d, r, f)
      PROVE  LedgerInv'
  <2>0. PICK n \in Nat : n = Len(ledger)
    BY DEF IInv, TypeOK
  <2>1. /\ n \in Nat
        /\ Len(ledger') = n + 1
        /\ \A i \in 1..n : ledger'[i] = ledger[i]
        /\ ledger'[n + 1] = [user |-> u, delta |-> d, reason |-> r, ref |-> f,
                             balanceAfter |-> points[u] + d]
        /\ \A i \in 1..n : ledger[i] \in Row
        /\ points' = [points EXCEPT ![u] = @ + d]
    BY <1>2, <2>0, PostRows DEF IInv, Posting
  <2>2. points \in [Users -> Nat]
    BY DEF IInv, TypeOK
  <2>3. CacheMatchesLedger'
    <3> SUFFICES ASSUME NEW v \in Users
                 PROVE  Settles(v, n + 1, points[v])'
      BY <2>1 DEF CacheMatchesLedger, Settles
    <3>1. CASE v = u
      BY <3>1, <2>1, <2>2 DEF Settles
    <3>2. CASE v # u
      <4>1. Settles(v, n, points[v])
        BY <2>0 DEF LedgerInv, CacheMatchesLedger
      <4>2. PICK b \in Int : b = points[v] /\ b = points'[v]
        BY <3>2, <2>1, <2>2
      <4>3. Settles(v, n + 1, b)'
        BY <4>1, <4>2, <3>2, <2>0, <1>2, SettlesStable DEF Posting
      <4> QED BY <4>2, <4>3
    <3> QED BY <3>1, <3>2
  <2>4. LedgerChains'
    <3> SUFFICES ASSUME NEW i \in 1..(n + 1)
                 PROVE  Settles(ledger[i].user, i - 1, ledger[i].balanceAfter - ledger[i].delta)'
      BY <2>1 DEF LedgerChains
    <3>1. CASE i \in 1..n
      <4>1. Settles(ledger[i].user, i - 1, ledger[i].balanceAfter - ledger[i].delta)
        BY <3>1, <2>0 DEF LedgerInv, LedgerChains
      <4>2. ledger[i] \in Row /\ ledger'[i] = ledger[i]
        BY <3>1, <2>1
      <4>3. PICK v \in Users, b \in Int :
              v = ledger[i].user /\ b = ledger[i].balanceAfter - ledger[i].delta
        BY <4>2 DEF Row
      <4>4. Settles(v, i - 1, b)'
        BY <4>1, <4>3, <3>1, <2>0, <1>2, SettlesStable DEF Posting
      <4> QED BY <4>2, <4>3, <4>4
    <3>2. CASE i = n + 1
      <4>1. Settles(u, n, points[u])
        BY <2>0 DEF LedgerInv, CacheMatchesLedger
      <4>2. /\ ledger'[i].user = u
            /\ ledger'[i].balanceAfter - ledger'[i].delta = points[u]
        BY <3>2, <2>1, <2>2
      <4>3. PICK b \in Int : b = points[u]
        BY <2>2
      <4>4. Settles(u, n, b)'
        BY <4>1, <4>3, <2>0, <1>2, SettlesStable DEF Posting
      <4> QED BY <4>2, <4>3, <4>4, <3>2, <2>1
    <3> QED BY <3>1, <3>2, <2>1
  <2>5. OneRowPerReference'
    <3> SUFFICES ASSUME NEW i \in 1..(n + 1), NEW j \in 1..(n + 1),
                        IsRow(i, ledger[j].user, ledger[j].reason, ledger[j].ref)'
                 PROVE  i = j
      BY <2>1 DEF OneRowPerReference
    <3>1. \A k \in 1..n : ~IsRow(k, u, r, f)
      BY <1>2, <2>0 DEF Posting, Post, HasRow
    <3>2. CASE i \in 1..n /\ j \in 1..n
      BY <3>2, <2>0, <2>1 DEF LedgerInv, OneRowPerReference, IsRow
    <3>3. CASE i = n + 1 /\ j \in 1..n
      BY <3>1, <3>3, <2>1 DEF IsRow
    <3>4. CASE i \in 1..n /\ j = n + 1
      BY <3>1, <3>4, <2>1 DEF IsRow
    <3> QED BY <3>2, <3>3, <3>4, <2>1
  <2> QED BY <2>3, <2>4, <2>5 DEF LedgerInv
<1> QED BY <1>1, <1>2, LedgerStep

(* The ledger is empty at first.                                           *)
LEMMA LedgerInvInit == Init => LedgerInv
  BY DEF Init, LedgerInv, CacheMatchesLedger, LedgerChains, OneRowPerReference, Settles

(* The ledger invariants in every reachable state.                         *)
LEMMA LedgerCorrect == Spec => [](IInv /\ LedgerInv)
  BY TypeInit, TypeStep, LedgerInvInit, LedgerInvStep, PTL DEF Spec

(* users.points is the balance after the user's last row, whatever was     *)
(* rolled back, raced or interrupted.                                      *)
THEOREM CacheIsLedger == Spec => []CacheMatchesLedger
<1>1. LedgerInv => CacheMatchesLedger
  BY DEF LedgerInv
<1> QED BY LedgerCorrect, <1>1, PTL

(* The rows of each user form an unbroken chain of balances.               *)
THEOREM LedgerIsChain == Spec => []LedgerChains
<1>1. LedgerInv => LedgerChains
  BY DEF LedgerInv
<1> QED BY LedgerCorrect, <1>1, PTL

(* The balances are those of the ledger, and the ledger has no gap.        *)
THEOREM BooksAlwaysAgree == Spec => []BooksAgree
<1>1. CacheMatchesLedger /\ LedgerChains => BooksAgree
  BY DEF BooksAgree
<1> QED BY CacheIsLedger, LedgerIsChain, <1>1, PTL

(* No action is charged twice, refunded twice or paid twice.               *)
THEOREM EffectsOnce == Spec => []OneRowPerReference
<1>1. LedgerInv => OneRowPerReference
  BY DEF LedgerInv
<1> QED BY LedgerCorrect, <1>1, PTL
-----------------------------------------------------------------------------

(* Rows are never changed or removed.                                      *)
LEMMA LedgerGrows ==
  ASSUME IInv, [Next]_vars
  PROVE  /\ Len(ledger) \in Nat /\ Len(ledger') \in Nat
         /\ Len(ledger) <= Len(ledger')
         /\ \A i \in 1..Len(ledger) : ledger'[i] = ledger[i]
<1>1. CASE UNCHANGED <<points, ledger>>
  BY <1>1 DEF IInv, TypeOK
<1>2. ASSUME NEW u \in Users, NEW d \in Int, NEW r \in Reasons, NEW f \in Refs,
             Posting(u, d, r, f)
      PROVE  /\ Len(ledger) \in Nat /\ Len(ledger') \in Nat
             /\ Len(ledger) <= Len(ledger')
             /\ \A i \in 1..Len(ledger) : ledger'[i] = ledger[i]
  <2>1. TypeOK /\ Post(u, d, r, f)
    BY <1>2 DEF IInv, Posting
  <2>2. /\ Len(ledger) \in Nat /\ Len(ledger') = Len(ledger) + 1
        /\ \A i \in 1..Len(ledger) : ledger'[i] = ledger[i]
    BY <2>1, PostRows
  <2> QED BY <2>2
<1> QED BY <1>1, <1>2, LedgerStep

(* The charge that an open refund returns.                                 *)
Charged(user, key, amount) ==
  \E j \in 1..Len(ledger) :
    IsRow(j, user, "SPEND", key) /\ amount = -ledger[j].delta

OpenRefunds ==
  \A p \in Procs : tx[p].op = "refund" => Charged(tx[p].user, tx[p].key, tx[p].amount)

(* RefundMatchesSpend is inductive with what the open refunds have read.   *)
RefundInv == RefundMatchesSpend /\ OpenRefunds

(* A refund is open because it was, or because it just read its charge.    *)
LEMMA RefundOrigin ==
  ASSUME IInv, [Next]_vars, NEW p \in Procs, tx'[p].op = "refund"
  PROVE  \/ tx'[p] = tx[p]
         \/ /\ UNCHANGED ledger
            /\ Charged(tx'[p].user, tx'[p].key, tx'[p].amount)
<1> USE DEF Idle
<1>0. tx \in [Procs -> Tx]
  BY DEF IInv, TypeOK
<1>1. ASSUME NEW q \in Procs, Close(q)
      PROVE  tx'[p] = tx[p]
  BY <1>0, <1>1 DEF Close
<1>2. ASSUME NEW q \in Procs, NEW u \in Users, NEW k \in Keys, BeginCharge(q, u, k)
      PROVE  tx'[p] = tx[p]
  BY <1>0, <1>2 DEF BeginCharge, Open
<1>3. ASSUME NEW q \in Procs, NEW u \in Users, NEW k \in Keys, BeginRefund(q, u, k)
      PROVE  \/ tx'[p] = tx[p]
             \/ UNCHANGED ledger /\ Charged(tx'[p].user, tx'[p].key, tx'[p].amount)
  <2>1. PICK i \in 1..Len(ledger) :
          /\ IsRow(i, u, "SPEND", k)
          /\ Open(q, [op |-> "refund", user |-> u, key |-> k, amount |-> -ledger[i].delta])
    BY <1>3 DEF BeginRefund
  <2>2. CASE q = p
    <3>1. tx'[p] = [op |-> "refund", user |-> u, key |-> k, amount |-> -ledger[i].delta]
      BY <1>0, <2>1, <2>2 DEF Open
    <3>2. UNCHANGED ledger
      BY <1>3 DEF BeginRefund
    <3> QED BY <2>1, <3>1, <3>2 DEF Charged
  <2>3. CASE q # p
    BY <1>0, <2>1, <2>3 DEF Open
  <2> QED BY <2>2, <2>3
<1>4. ASSUME NEW q \in Procs, NEW u \in Users, NEW c \in Codes, BeginRedeem(q, u, c)
      PROVE  tx'[p] = tx[p]
  BY <1>0, <1>4 DEF BeginRedeem, Open
<1>5. ASSUME NEW q \in Procs, NEW u \in Users, Register(q, u)
      PROVE  tx'[p] = tx[p]
  BY <1>0, <1>5 DEF Register, Open
<1>6. ~Restart
  BY DEF Restart
<1> QED BY <1>1, <1>2, <1>3, <1>4, <1>5, <1>6
        DEF Next, vars, CommitCharge, FailCharge, CommitRefund, FailRefund, CommitRedeem,
            FailRedeem, CommitBonus, Rollback, Adjust, CreateCode, Expire

(* Nothing is refunded or open at first.                                   *)
LEMMA RefundInvInit == Init => RefundInv
  BY DEF Init, RefundInv, RefundMatchesSpend, OpenRefunds, Idle

(* A step keeps RefundInv.                                                 *)
LEMMA RefundInvStep ==
  ASSUME IInv, RefundInv, [Next]_vars
  PROVE  RefundInv'
<1>1. /\ Len(ledger) \in Nat /\ Len(ledger') \in Nat
      /\ Len(ledger) <= Len(ledger')
      /\ \A i \in 1..Len(ledger) : ledger'[i] = ledger[i]
  BY LedgerGrows
<1>2. OpenRefunds'
  <2> SUFFICES ASSUME NEW p \in Procs, tx'[p].op = "refund"
               PROVE  Charged(tx[p].user, tx[p].key, tx[p].amount)'
    BY DEF OpenRefunds
  <2>1. CASE tx'[p] = tx[p]
    <3>1. Charged(tx[p].user, tx[p].key, tx[p].amount)
      BY <2>1 DEF RefundInv, OpenRefunds
    <3>2. PICK j \in 1..Len(ledger) :
            IsRow(j, tx[p].user, "SPEND", tx[p].key) /\ tx[p].amount = -ledger[j].delta
      BY <3>1 DEF Charged
    <3>3. j \in 1..Len(ledger') /\ ledger'[j] = ledger[j]
      BY <1>1
    <3> QED BY <2>1, <3>2, <3>3 DEF Charged, IsRow
  <2>2. CASE UNCHANGED ledger /\ Charged(tx'[p].user, tx'[p].key, tx'[p].amount)
    BY <2>2 DEF Charged, IsRow
  <2> QED BY <2>1, <2>2, RefundOrigin
<1>3. RefundMatchesSpend'
  <2>1. CASE UNCHANGED <<points, ledger>>
    BY <2>1 DEF RefundInv, RefundMatchesSpend, IsRow
  <2>2. ASSUME NEW u \in Users, NEW d \in Int, NEW r \in Reasons, NEW f \in Refs,
               Posting(u, d, r, f)
        PROVE  RefundMatchesSpend'
    <3>0. PICK n \in Nat : n = Len(ledger)
      BY <1>1
    <3>1. /\ Len(ledger') = n + 1
          /\ ledger'[n + 1] = [user |-> u, delta |-> d, reason |-> r, ref |-> f,
                               balanceAfter |-> points[u] + d]
      BY <2>2, <3>0, PostRows DEF IInv, Posting
    <3> SUFFICES ASSUME NEW i \in 1..(n + 1), ledger'[i].reason = "REFUND"
                 PROVE  \E j \in 1..(i - 1) :
                          /\ IsRow(j, ledger[i].user, "SPEND", ledger[i].ref)'
                          /\ ledger'[i].delta = -ledger'[j].delta
      BY <3>1 DEF RefundMatchesSpend
    <3>2. CASE i \in 1..n
      <4>1. ledger'[i] = ledger[i]
        BY <3>0, <3>2, <1>1
      <4>2. PICK j \in 1..(i - 1) :
              /\ IsRow(j, ledger[i].user, "SPEND", ledger[i].ref)
              /\ ledger[i].delta = -ledger[j].delta
        BY <3>0, <3>2, <4>1 DEF RefundInv, RefundMatchesSpend
      <4>3. ledger'[j] = ledger[j]
        BY <3>0, <3>2, <1>1
      <4> QED BY <4>1, <4>2, <4>3 DEF IsRow
    <3>3. CASE i = n + 1
      <4>1. r = "REFUND" /\ ledger'[i].user = u /\ ledger'[i].ref = f /\ ledger'[i].delta = d
        BY <3>1, <3>3
      <4>2. PICK p \in Procs :
              tx[p] = [op |-> "refund", user |-> u, key |-> f, amount |-> d]
        BY <2>2, <4>1 DEF Posting
      <4>3. Charged(u, f, d)
        BY <4>2 DEF RefundInv, OpenRefunds
      <4>4. PICK j \in 1..n : IsRow(j, u, "SPEND", f) /\ d = -ledger[j].delta
        BY <3>0, <4>3 DEF Charged
      <4>5. j \in 1..(i - 1) /\ ledger'[j] = ledger[j]
        BY <3>0, <3>3, <1>1
      <4> QED BY <4>1, <4>4, <4>5 DEF IsRow
    <3> QED BY <3>2, <3>3
  <2> QED BY <2>1, <2>2, LedgerStep
<1> QED BY <1>2, <1>3 DEF RefundInv

(* Every refund gives back exactly what an earlier charge of the action    *)
(* took, at any prices and however restarts change them (refundTurn).      *)
THEOREM RefundsAreExact == Spec => []RefundMatchesSpend
<1>1. RefundInv => RefundMatchesSpend
  BY DEF RefundInv
<1> QED BY TypeInit, TypeStep, RefundInvInit, RefundInvStep, <1>1, PTL DEF Spec
-----------------------------------------------------------------------------

(* A posting adds its reference to those with a row, and no other.         *)
LEMMA HasRowAfter ==
  ASSUME IInv, NEW u \in Users, NEW d \in Int, NEW r \in Reasons, NEW f \in Refs,
         Post(u, d, r, f), NEW v, NEW s, NEW g
  PROVE  HasRow(v, s, g)' <=> HasRow(v, s, g) \/ (v = u /\ s = r /\ g = f)
<1>0. PICK n \in Nat : n = Len(ledger)
  BY DEF IInv, TypeOK
<1>1. /\ Len(ledger') = n + 1
      /\ \A i \in 1..n : ledger'[i] = ledger[i]
      /\ ledger'[n + 1] = [user |-> u, delta |-> d, reason |-> r, ref |-> f,
                           balanceAfter |-> points[u] + d]
  BY <1>0, PostRows DEF IInv
<1>2. IsRow(n + 1, v, s, g)' <=> (v = u /\ s = r /\ g = f)
  BY <1>1 DEF IsRow
<1>3. \A i \in 1..n : IsRow(i, v, s, g)' <=> IsRow(i, v, s, g)
  BY <1>1 DEF IsRow
<1>4. HasRow(v, s, g)' <=> \E i \in 1..(n + 1) : IsRow(i, v, s, g)'
  BY <1>1 DEF HasRow
<1>5. HasRow(v, s, g) <=> \E i \in 1..n : IsRow(i, v, s, g)
  BY <1>0 DEF HasRow
<1>6. \A i \in 1..(n + 1) : i \in 1..n \/ i = n + 1
  OBVIOUS
<1>7. (n + 1) \in 1..(n + 1) /\ \A i \in 1..n : i \in 1..(n + 1)
  OBVIOUS
<1> QED BY <1>2, <1>3, <1>4, <1>5, <1>6, <1>7

(* The redemptions of a code are finitely many, so that they can be        *)
(* counted.                                                                *)
CodeInv == CodeWithinQuota /\ \A c \in Codes : IsFiniteSet(redeemed[c])

(* Nothing is redeemed at first.                                           *)
LEMMA CodeInvInit == Init => CodeInv
<1>1. IsFiniteSet({}) /\ Cardinality({}) = 0
  BY FS_EmptySet
<1> QED BY <1>1, QuotaAssumption DEF Init, CodeInv, CodeWithinQuota, HasRow

(* A step keeps CodeInv.                                                   *)
LEMMA CodeInvStep ==
  ASSUME IInv, CodeInv, [Next]_vars
  PROVE  CodeInv'
<1>0. /\ usedCount \in [Codes -> Nat] /\ redeemed \in [Codes -> SUBSET Users]
      /\ Quota \in [Codes -> Nat] /\ Grant \in [Codes -> Nat]
  BY QuotaAssumption, GrantAssumption DEF IInv, TypeOK
<1>1. ASSUME NEW p \in Procs, CommitRedeem(p)
      PROVE  CodeInv'
  <2>1. PICK u \in Users, c \in Codes :
          /\ u \notin redeemed[c]
          /\ usedCount[c] < Quota[c]
          /\ redeemed' = [redeemed EXCEPT ![c] = @ \union {u}]
          /\ usedCount' = [usedCount EXCEPT ![c] = @ + 1]
          /\ Post(u, Grant[c], "REDEEM", c)
    <3>1. tx[p] \in [op : {"redeem"}, user : Users, code : Codes]
      BY <1>1 DEF CommitRedeem, IInv, TypeOK, Tx, Idle
    <3> QED BY <1>1, <3>1 DEF CommitRedeem
  <2>2. \A v \in Users, e \in Codes :
          HasRow(v, "REDEEM", e)' <=> HasRow(v, "REDEEM", e) \/ (v = u /\ e = c)
    BY <1>0, <2>1, HasRowAfter DEF Reasons, Refs
  <2>3. ASSUME NEW e \in Codes
        PROVE  /\ usedCount'[e] = Cardinality(redeemed'[e])
               /\ usedCount'[e] <= Quota[e]
               /\ \A v \in Users : v \in redeemed'[e] <=> HasRow(v, "REDEEM", e)'
               /\ IsFiniteSet(redeemed'[e])
    <3>1. /\ usedCount[e] = Cardinality(redeemed[e])
          /\ usedCount[e] <= Quota[e]
          /\ \A v \in Users : v \in redeemed[e] <=> HasRow(v, "REDEEM", e)
          /\ IsFiniteSet(redeemed[e])
      BY DEF CodeInv, CodeWithinQuota
    <3>2. CASE e = c
      <4>1. /\ redeemed'[e] = redeemed[e] \union {u}
            /\ usedCount'[e] = usedCount[e] + 1
        BY <1>0, <2>1, <3>2
      <4>2. /\ IsFiniteSet(redeemed[e] \union {u})
            /\ Cardinality(redeemed[e] \union {u}) = Cardinality(redeemed[e]) + 1
        BY <2>1, <3>1, <3>2, FS_AddElement
      <4>3. usedCount[e] + 1 <= Quota[e]
        BY <1>0, <2>1, <3>2
      <4> QED BY <2>2, <3>1, <3>2, <4>1, <4>2, <4>3
    <3>3. CASE e # c
      <4>1. redeemed'[e] = redeemed[e] /\ usedCount'[e] = usedCount[e]
        BY <1>0, <2>1, <3>3
      <4> QED BY <2>2, <3>1, <3>3, <4>1
    <3> QED BY <3>2, <3>3
  <2> QED BY <2>3 DEF CodeInv, CodeWithinQuota
<1>2. ASSUME \A p \in Procs : ~CommitRedeem(p)
      PROVE  CodeInv'
  <2>1. UNCHANGED <<usedCount, redeemed>>
    BY <1>2 DEF Next, vars, BeginCharge, BeginRefund, BeginRedeem, Register, CommitCharge,
                FailCharge, CommitRefund, FailRefund, FailRedeem, CommitBonus, Rollback,
                Adjust, CreateCode, Expire, Restart
  <2>2. \A v \in Users, c \in Codes :
          HasRow(v, "REDEEM", c)' <=> HasRow(v, "REDEEM", c)
    <3>1. CASE UNCHANGED <<points, ledger>>
      BY <3>1 DEF HasRow, IsRow
    <3>2. ASSUME NEW u \in Users, NEW d \in Int, NEW r \in Reasons, NEW f \in Refs,
                 Posting(u, d, r, f)
          PROVE  \A v \in Users, c \in Codes :
                   HasRow(v, "REDEEM", c)' <=> HasRow(v, "REDEEM", c)
      <4>1. r # "REDEEM" /\ Post(u, d, r, f)
        BY <1>2, <3>2 DEF Posting
      <4> QED BY <4>1, HasRowAfter
    <3> QED BY <3>1, <3>2, LedgerStep
  <2> QED BY <2>1, <2>2 DEF CodeInv, CodeWithinQuota
<1> QED BY <1>1, <1>2

(* However many users redeem a code at the same time, it is never used     *)
(* beyond its quota and every redemption is paid (redeem).                 *)
THEOREM QuotaIsKept == Spec => []CodeWithinQuota
<1>1. CodeInv => CodeWithinQuota
  BY DEF CodeInv
<1> QED BY TypeInit, TypeStep, CodeInvInit, CodeInvStep, <1>1, PTL DEF Spec

-----------------------------------------------------------------------------
(***************************************************************************)
(* Points implements PointAccount, for every value of the constants: each  *)
(* commit of a transaction is one operation on the account, and reads,     *)
(* rollbacks, restarts and the life of a code are invisible.               *)
(***************************************************************************)

(* All the invariants together.                                            *)
Inv == IInv /\ LedgerInv /\ RefundInv /\ CodeInv /\ config \in Configs

(* The conjunction of the invariants holds at first.                       *)
LEMMA InvInit == Init => Inv
  BY TypeInit, LedgerInvInit, RefundInvInit, CodeInvInit DEF Init, Inv

(* A step keeps the conjunction of the invariants.                         *)
LEMMA InvStep ==
  ASSUME Inv, [Next]_vars
  PROVE  Inv'
<1>1. IInv' /\ LedgerInv' /\ RefundInv' /\ CodeInv'
  BY TypeStep, LedgerInvStep, RefundInvStep, CodeInvStep DEF Inv
<1>2. config' \in Configs
  BY DEF Inv, Next, vars, BeginCharge, BeginRefund, BeginRedeem, Register, CommitCharge,
         FailCharge, CommitRefund, FailRefund, CommitRedeem, FailRedeem, CommitBonus,
         Rollback, Adjust, CreateCode, Expire, Restart
<1> QED BY <1>1, <1>2 DEF Inv

(* The only row with some property is the one that CHOOSE finds.           *)
LEMMA OnlyRow ==
  ASSUME NEW L, NEW u, NEW k, NEW i \in 1..Len(L),
         L[i].user = u, L[i].reason = "SPEND", L[i].ref = k,
         \A j \in 1..Len(L) :
           L[j].user = u /\ L[j].reason = "SPEND" /\ L[j].ref = k => j = i
  PROVE  (CHOOSE j \in 1..Len(L) :
            L[j].user = u /\ L[j].reason = "SPEND" /\ L[j].ref = k) = i
  OBVIOUS

(* The price of a charged action is the delta of its only SPEND row.       *)
LEMMA PriceIs ==
  ASSUME OneRowPerReference, NEW u, NEW k, NEW i \in 1..Len(ledger), IsRow(i, u, "SPEND", k)
  PROVE  Price(u, k) = -ledger[i].delta
<1>1. /\ ledger[i].user = u /\ ledger[i].reason = "SPEND" /\ ledger[i].ref = k
      /\ \A j \in 1..Len(ledger) :
           ledger[j].user = u /\ ledger[j].reason = "SPEND" /\ ledger[j].ref = k => j = i
  BY DEF OneRowPerReference, IsRow
<1>2. (CHOOSE j \in 1..Len(ledger) :
         ledger[j].user = u /\ ledger[j].reason = "SPEND" /\ ledger[j].ref = k) = i
  BY <1>1, OnlyRow
<1> QED BY <1>2 DEF Price, IsRow

(* The price the account sees after a charge is the one charged.           *)
LEMMA PriceIsNext ==
  ASSUME OneRowPerReference', NEW u, NEW k, NEW i \in 1..Len(ledger'),
         IsRow(i, u, "SPEND", k)'
  PROVE  Price(u, k)' = -ledger'[i].delta
<1>1. /\ ledger'[i].user = u /\ ledger'[i].reason = "SPEND" /\ ledger'[i].ref = k
      /\ \A j \in 1..Len(ledger') :
           ledger'[j].user = u /\ ledger'[j].reason = "SPEND" /\ ledger'[j].ref = k => j = i
  BY DEF OneRowPerReference, IsRow
<1>2. (CHOOSE j \in 1..Len(ledger') :
         ledger'[j].user = u /\ ledger'[j].reason = "SPEND" /\ ledger'[j].ref = k) = i
  BY <1>1, OnlyRow
<1> QED BY <1>2 DEF Price, IsRow

(* A price once paid does not change.                                      *)
LEMMA PriceStable ==
  ASSUME Inv, Inv', [Next]_vars, NEW u, NEW k, HasRow(u, "SPEND", k)
  PROVE  Price(u, k)' = Price(u, k)
<1>1. PICK i \in 1..Len(ledger) : IsRow(i, u, "SPEND", k)
  BY DEF HasRow
<1>2. i \in 1..Len(ledger') /\ ledger'[i] = ledger[i]
  BY LedgerGrows DEF Inv
<1>3. IsRow(i, u, "SPEND", k)'
  BY <1>1, <1>2 DEF IsRow
<1>4. Price(u, k) = -ledger[i].delta
  BY <1>1, PriceIs DEF Inv, LedgerInv
<1>5. Price(u, k)' = -ledger'[i].delta
  BY <1>2, <1>3, PriceIsNext DEF Inv, LedgerInv
<1> QED BY <1>2, <1>4, <1>5

(* The abstract state after a posting: only the accounts of its reason     *)
(* change.                                                                 *)
LEMMA AbstractAfter ==
  ASSUME Inv, NEW u \in Users, NEW d \in Int, NEW r \in Reasons, NEW f \in Refs,
         Post(u, d, r, f)
  PROVE  /\ \A v \in Users, s \in Reasons :
              (v # u \/ s # r) => Keyed(v, s)' = Keyed(v, s)
         /\ f \in Keys => Keyed(u, r)' = Keyed(u, r) \union {f}
         /\ r # "BONUS" => {v \in Users : HasRow(v, "BONUS", v)}' =
                            {v \in Users : HasRow(v, "BONUS", v)}
         /\ \A k \in Keys : k \in Keyed(u, r) => k # f
<1>1. \A v, s, g : HasRow(v, s, g)' <=> HasRow(v, s, g) \/ (v = u /\ s = r /\ g = f)
  BY HasRowAfter DEF Inv
<1>2. ~HasRow(u, r, f)
  BY DEF Post
<1> QED BY <1>1, <1>2 DEF Keyed

(* The account as the ledger shows it: what was spent and at what price,   *)
(* what was paid back, who was welcomed.                                   *)
Spent == [u \in Users |-> [k \in Keyed(u, "SPEND") |-> Price(u, k)]]
Refunded == [u \in Users |-> Keyed(u, "REFUND")]
Welcomed == {u \in Users : HasRow(u, "BONUS", u)}

(* A posting of another reason leaves the abstract accounts as they are.   *)
LEMMA Untouched ==
  ASSUME Inv, Inv', [Next]_vars, NEW u \in Users, NEW d \in Int, NEW r \in Reasons,
         NEW f \in Refs, Post(u, d, r, f)
  PROVE  /\ r # "SPEND" => Spent' = Spent
         /\ r # "REFUND" => Refunded' = Refunded
         /\ r # "BONUS" => Welcomed' = Welcomed
<1>1. /\ \A v \in Users, s \in Reasons :
           (v # u \/ s # r) => Keyed(v, s)' = Keyed(v, s)
      /\ r # "BONUS" => Welcomed' = Welcomed
  BY AbstractAfter DEF Welcomed
<1>2. ASSUME r # "SPEND"
      PROVE  Spent' = Spent
  <2>1. \A v \in Users : Keyed(v, "SPEND")' = Keyed(v, "SPEND")
    BY <1>1, <1>2 DEF Reasons
  <2>2. \A v \in Users : \A k \in Keyed(v, "SPEND") : Price(v, k)' = Price(v, k)
    BY PriceStable DEF Keyed
  <2> QED BY <2>1, <2>2 DEF Spent
<1>3. ASSUME r # "REFUND"
      PROVE  Refunded' = Refunded
  BY <1>1, <1>3 DEF Refunded, Reasons
<1> QED BY <1>1, <1>2, <1>3

(* A committed charge is a charge of the account.                          *)
LEMMA ChargeRefines ==
  ASSUME Inv, Inv', [Next]_vars, NEW p \in Procs, CommitCharge(p)
  PROVE  \E u \in Users, k \in Keys, price \in {cfg.cost : cfg \in Configs} :
           Account!Charge(u, k, price)
<1>1. PICK u \in Users, k \in Keys : u = tx[p].user /\ k = tx[p].key
  <2>1. tx[p] \in [op : {"charge"}, user : Users, key : Keys]
    BY DEF CommitCharge, Inv, IInv, TypeOK, Tx, Idle
  <2> QED BY <2>1
<1>2. PICK price \in Nat : price = config.cost /\ price \in {cfg.cost : cfg \in Configs}
  BY DEF Inv, IInv, TypeOK
<1>3. /\ points[u] >= price /\ Post(u, -price, "SPEND", k)
      /\ redeemed' = redeemed
  BY <1>1, <1>2 DEF CommitCharge
<1>4. /\ points \in [Users -> Nat] /\ -price \in Int /\ "SPEND" \in Reasons /\ k \in Refs
  BY <1>2 DEF Inv, IInv, TypeOK, Reasons, Refs
<1>5. Refunded' = Refunded /\ Welcomed' = Welcomed
  BY <1>3, <1>4, Untouched
<1>6. /\ \A v \in Users : v # u => Keyed(v, "SPEND")' = Keyed(v, "SPEND")
      /\ Keyed(u, "SPEND")' = Keyed(u, "SPEND") \union {k}
      /\ k \notin Keyed(u, "SPEND")
  BY <1>3, <1>4, AbstractAfter
<1>7. \A v \in Users : \A x \in Keyed(v, "SPEND") : Price(v, x)' = Price(v, x)
  BY PriceStable DEF Keyed
<1>8. Price(u, k)' = price
  <2>1. PICK n \in Nat : n = Len(ledger)
    BY DEF Inv, IInv, TypeOK
  <2>2. /\ Len(ledger') = n + 1
        /\ ledger'[n + 1] = [user |-> u, delta |-> -price, reason |-> "SPEND", ref |-> k,
                             balanceAfter |-> points[u] + -price]
    BY <1>3, <1>4, <2>1, PostRows DEF Inv, IInv
  <2>3. n + 1 \in 1..Len(ledger') /\ IsRow(n + 1, u, "SPEND", k)'
    BY <2>2 DEF IsRow
  <2>4. Price(u, k)' = -ledger'[n + 1].delta
    BY <2>3, PriceIsNext DEF Inv, LedgerInv
  <2> QED BY <1>2, <2>2, <2>4
<1>9. Spent' = [Spent EXCEPT ![u] = [x \in DOMAIN Spent[u] \union {k} |->
                                      IF x = k THEN price ELSE Spent[u][x]]]
  <2>1. \A v \in Users : v # u => Spent'[v] = Spent[v]
    BY <1>6, <1>7 DEF Spent
  <2>2. DOMAIN Spent[u] = Keyed(u, "SPEND")
    BY DEF Spent
  <2>3. \A x \in Keyed(u, "SPEND") : Spent[u][x] = Price(u, x) /\ x # k
    BY <1>6 DEF Spent
  <2>4. Spent'[u] = [x \in Keyed(u, "SPEND") \union {k} |-> Price(u, x)']
    BY <1>6 DEF Spent
  <2>5. Spent'[u] = [x \in DOMAIN Spent[u] \union {k} |->
                       IF x = k THEN price ELSE Spent[u][x]]
    BY <1>7, <1>8, <2>2, <2>3, <2>4
  <2> QED BY <2>1, <2>5 DEF Spent
<1>10. k \notin DOMAIN Spent[u]
  BY <1>6 DEF Spent
<1>11. points[u] + -price >= 0 /\ points' = [points EXCEPT ![u] = @ + -price]
  BY <1>2, <1>3, <1>4 DEF Post
<1>12. Account!Charge(u, k, price)
  BY <1>3, <1>5, <1>9, <1>10, <1>11
     DEF Account!Charge, Account!Credit, Spent, Refunded, Welcomed
<1> QED BY <1>2, <1>12

(* A committed refund is a refund of the account.                          *)
LEMMA RefundRefines ==
  ASSUME Inv, Inv', [Next]_vars, NEW p \in Procs, CommitRefund(p)
  PROVE  \E u \in Users, k \in Keys : Account!Refund(u, k)
<1>1. PICK u \in Users, k \in Keys, n \in Nat :
        u = tx[p].user /\ k = tx[p].key /\ n = tx[p].amount
  <2>1. tx[p] \in [op : {"refund"}, user : Users, key : Keys, amount : Nat]
    BY DEF CommitRefund, Inv, IInv, TypeOK, Tx, Idle
  <2> QED BY <2>1
<1>2. /\ Post(u, n, "REFUND", k)
      /\ redeemed' = redeemed
  BY <1>1 DEF CommitRefund
<1>3. /\ points \in [Users -> Nat] /\ n \in Int /\ "REFUND" \in Reasons /\ k \in Refs
  BY DEF Inv, IInv, TypeOK, Reasons, Refs
<1>4. Spent' = Spent /\ Welcomed' = Welcomed
  BY <1>2, <1>3, Untouched
<1>5. /\ \A v \in Users : v # u => Keyed(v, "REFUND")' = Keyed(v, "REFUND")
      /\ Keyed(u, "REFUND")' = Keyed(u, "REFUND") \union {k}
      /\ k \notin Keyed(u, "REFUND")
  BY <1>2, <1>3, AbstractAfter
<1>6. Refunded' = [Refunded EXCEPT ![u] = @ \union {k}]
  BY <1>5 DEF Refunded
<1>7. k \in Keyed(u, "SPEND") /\ Price(u, k) = n
  <2>1. Charged(u, k, n)
    BY <1>1 DEF CommitRefund, Inv, RefundInv, OpenRefunds
  <2>2. PICK j \in 1..Len(ledger) : IsRow(j, u, "SPEND", k) /\ n = -ledger[j].delta
    BY <2>1 DEF Charged
  <2>3. Price(u, k) = -ledger[j].delta
    BY <2>2, PriceIs DEF Inv, LedgerInv
  <2>4. HasRow(u, "SPEND", k)
    BY <2>2 DEF HasRow
  <2> QED BY <2>2, <2>3, <2>4 DEF Keyed
<1>8. k \in DOMAIN Spent[u] \ Refunded[u] /\ Spent[u][k] = n
  BY <1>5, <1>7 DEF Spent, Refunded
<1>9. points[u] + n >= 0 /\ points' = [points EXCEPT ![u] = @ + n]
  BY <1>2, <1>3 DEF Post
<1>10. Account!Refund(u, k)
  BY <1>2, <1>4, <1>6, <1>8, <1>9
     DEF Account!Refund, Account!Credit, Spent, Refunded, Welcomed
<1> QED BY <1>10

(* A committed redemption is a redemption of the account.                  *)
LEMMA RedeemRefines ==
  ASSUME Inv, Inv', [Next]_vars, NEW p \in Procs, CommitRedeem(p)
  PROVE  \E u \in Users, c \in Codes : Account!Redeem(u, c)
<1>1. PICK u \in Users, c \in Codes : u = tx[p].user /\ c = tx[p].code
  <2>1. tx[p] \in [op : {"redeem"}, user : Users, code : Codes]
    BY DEF CommitRedeem, Inv, IInv, TypeOK, Tx, Idle
  <2> QED BY <2>1
<1>2. /\ u \notin redeemed[c] /\ usedCount[c] < Quota[c]
      /\ redeemed' = [redeemed EXCEPT ![c] = @ \union {u}]
      /\ Post(u, Grant[c], "REDEEM", c)
  BY <1>1 DEF CommitRedeem
<1>3. /\ points \in [Users -> Nat] /\ Grant[c] \in Nat /\ "REDEEM" \in Reasons /\ c \in Refs
  BY GrantAssumption DEF Inv, IInv, TypeOK, Reasons, Refs
<1>4. Spent' = Spent /\ Refunded' = Refunded /\ Welcomed' = Welcomed
  BY <1>2, <1>3, Untouched
<1>5. Cardinality(redeemed[c]) < Quota[c]
  BY <1>2 DEF Inv, CodeInv, CodeWithinQuota
<1>6. points[u] + Grant[c] >= 0 /\ points' = [points EXCEPT ![u] = @ + Grant[c]]
  BY <1>2, <1>3 DEF Post
<1>7. Account!Cardinality(redeemed[c]) = Cardinality(redeemed[c])
  BY DEF Account!Cardinality, Cardinality
<1>8. Account!Redeem(u, c)
  BY <1>2, <1>4, <1>5, <1>6, <1>7 DEF Account!Redeem, Account!Credit, Spent, Refunded, Welcomed
<1> QED BY <1>8

(* A committed signup bonus is a welcome of the account.                   *)
LEMMA BonusRefines ==
  ASSUME Inv, Inv', [Next]_vars, NEW p \in Procs, CommitBonus(p)
  PROVE  \E u \in Users, bonus \in {cfg.bonus : cfg \in Configs} : Account!Welcome(u, bonus)
<1>1. PICK u \in Users : u = tx[p].user
  <2>1. tx[p] \in [op : {"bonus"}, user : Users]
    BY DEF CommitBonus, Inv, IInv, TypeOK, Tx, Idle
  <2> QED BY <2>1
<1>2. PICK n \in Nat : n = config.bonus /\ n \in {cfg.bonus : cfg \in Configs}
  BY DEF Inv, IInv, TypeOK
<1>3. Post(u, n, "BONUS", u) /\ redeemed' = redeemed
  BY <1>1, <1>2 DEF CommitBonus
<1>4. /\ points \in [Users -> Nat] /\ n \in Int /\ "BONUS" \in Reasons /\ u \in Refs
  BY DEF Inv, IInv, TypeOK, Reasons, Refs
<1>5. Spent' = Spent /\ Refunded' = Refunded
  BY <1>3, <1>4, Untouched
<1>6. /\ \A v \in Users : HasRow(v, "BONUS", v)' <=> HasRow(v, "BONUS", v) \/ v = u
      /\ ~HasRow(u, "BONUS", u)
  BY <1>3, <1>4, HasRowAfter DEF Inv, Post
<1>7. u \notin Welcomed /\ Welcomed' = Welcomed \union {u}
  BY <1>6 DEF Welcomed
<1>8. points[u] + n >= 0 /\ points' = [points EXCEPT ![u] = @ + n]
  BY <1>3, <1>4 DEF Post
<1>9. Account!Welcome(u, n)
  BY <1>3, <1>5, <1>7, <1>8 DEF Account!Welcome, Account!Credit, Spent, Refunded, Welcomed
<1> QED BY <1>2, <1>9

(* A correction is a correction of the account.                            *)
LEMMA AdjustRefines ==
  ASSUME Inv, Inv', [Next]_vars, NEW u \in Users, NEW n \in Adjustments, Adjust(u, n)
  PROVE  Account!Adjust(u, n)
<1>1. /\ Post(u, n, "ADMIN", Len(ledger) + 1) /\ redeemed' = redeemed
      /\ points[u] + n >= 0
  BY DEF Adjust
<1>2. n \in Int /\ "ADMIN" \in Reasons /\ Len(ledger) + 1 \in Refs
  BY AdjustmentAssumption DEF Inv, IInv, TypeOK, Reasons, Refs
<1>3. Spent' = Spent /\ Refunded' = Refunded /\ Welcomed' = Welcomed
  BY <1>1, <1>2, Untouched
<1> QED BY <1>1, <1>3
        DEF Post, Account!Adjust, Account!Credit, Spent, Refunded, Welcomed

(* Reads, rollbacks, restarts and the life of a code are stutters.         *)
LEMMA OtherStutters ==
  ASSUME Inv, UNCHANGED <<points, ledger, redeemed>>
  PROVE  UNCHANGED Account!vars
<1>1. \A u, r, f : HasRow(u, r, f)' <=> HasRow(u, r, f)
  BY DEF HasRow, IsRow
<1>2. \A u, r : Keyed(u, r)' = Keyed(u, r)
  BY <1>1 DEF Keyed
<1>3. \A u, k : Price(u, k)' = Price(u, k)
  BY DEF Price, IsRow
<1>4. Spent' = Spent
  BY <1>2, <1>3 DEF Spent
<1>5. Refunded' = Refunded
  BY <1>2 DEF Refunded
<1>6. Welcomed' = Welcomed
  BY <1>1 DEF Welcomed
<1> QED BY <1>4, <1>5, <1>6 DEF Account!vars, Spent, Refunded, Welcomed

(* The empty tables are the empty account.                                 *)
LEMMA InitRefines == Init => Account!Init
<1> SUFFICES ASSUME Init
             PROVE  Account!Init
  OBVIOUS
<1>1. \A u, r, f : ~HasRow(u, r, f)
  BY DEF Init, HasRow
<1>2. \A u, r : Keyed(u, r) = {}
  BY <1>1 DEF Keyed
<1>3. Spent = [u \in Users |-> [k \in {} |-> 0]]
  <2>1. \A u \in Users : Spent[u] = [k \in {} |-> 0]
    BY <1>2 DEF Spent
  <2> QED BY <2>1 DEF Spent
<1>4. Refunded = [u \in Users |-> {}] /\ Welcomed = {}
  BY <1>1, <1>2 DEF Refunded, Welcomed
<1> QED BY <1>3, <1>4 DEF Init, Account!Init, Spent, Refunded, Welcomed

(* Every step is one of the account or a stutter.                          *)
LEMMA StepRefines ==
  ASSUME Inv, Inv', [Next]_vars
  PROVE  [Account!Next]_(Account!vars)
<1>1. ASSUME NEW p \in Procs, CommitCharge(p)
      PROVE  Account!Next
  BY <1>1, ChargeRefines DEF Account!Next
<1>2. ASSUME NEW p \in Procs, CommitRefund(p)
      PROVE  Account!Next
  BY <1>2, RefundRefines DEF Account!Next
<1>3. ASSUME NEW p \in Procs, CommitRedeem(p)
      PROVE  Account!Next
  BY <1>3, RedeemRefines DEF Account!Next
<1>4. ASSUME NEW p \in Procs, CommitBonus(p)
      PROVE  Account!Next
  BY <1>4, BonusRefines DEF Account!Next
<1>5. ASSUME NEW u \in Users, NEW n \in Adjustments, Adjust(u, n)
      PROVE  Account!Next
  BY <1>5, AdjustRefines DEF Account!Next
<1>6. CASE UNCHANGED vars
  BY <1>6, OtherStutters DEF vars
<1>7. CASE \/ \E p \in Procs :
                \/ \E u \in Users :
                     \/ \E k \in Keys : BeginCharge(p, u, k) \/ BeginRefund(p, u, k)
                     \/ \E c \in Codes : BeginRedeem(p, u, c)
                     \/ Register(p, u)
                \/ FailCharge(p) \/ FailRefund(p) \/ FailRedeem(p)
           \/ \E c \in Codes : CreateCode(c) \/ Expire(c)
           \/ Restart
  <2>1. UNCHANGED <<points, ledger, redeemed>>
    BY <1>7 DEF BeginCharge, BeginRefund, BeginRedeem, Register, FailCharge, FailRefund,
                FailRedeem, Rollback, CreateCode, Expire, Restart
  <2> QED BY <2>1, OtherStutters
<1> QED BY <1>1, <1>2, <1>3, <1>4, <1>5, <1>6, <1>7 DEF Next

(* The transactions of points.service.ts implement the account: an action  *)
(* is charged at most once, given back at most once and exactly, a code    *)
(* pays each user at most once within its quota.                           *)
THEOREM ImplementsThePromise == Spec => ImplementsAccount
<1>1. Spec => []Inv
  BY InvInit, InvStep, PTL DEF Spec
<1>2. Init => Account!Init
  BY InitRefines
<1>3. Inv /\ Inv' /\ [Next]_vars => [Account!Next]_(Account!vars)
  BY StepRefines
<1> QED BY <1>1, <1>2, <1>3, PTL DEF Spec, ImplementsAccount, Account!Spec
=============================================================================
