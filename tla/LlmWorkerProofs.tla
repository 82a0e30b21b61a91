--------------------------- MODULE LlmWorkerProofs ---------------------------
(***************************************************************************)
(* Theorems about LlmWorker, for any number of turns, polls, tasks,        *)
(* retries and restarts: what the claim, the locks and the refunds of the  *)
(* worker guarantee, and that it implements Narration but for its          *)
(* liveness; and about RunMemory, for any number of turns, tasks, attempts *)
(* and restarts: what handlers and worker, who write the same stores, do   *)
(* not take from each other.                                               *)
(***************************************************************************)
EXTENDS LlmWorker, RunMemory, FiniteSetTheorems, TLAPS

(* The least element of a set of naturals is in it.                        *)
LEMMA LeastIsIn ==
  ASSUME NEW S \in SUBSET Nat, S # {}
  PROVE  Min(S) \in S
<1> DEFINE Below == {S \cap 0..n : n \in S}
<1>1. Below \subseteq FiniteSubsetsOf(S) /\ Below # {}
  <2>1. ASSUME NEW n \in S PROVE IsFiniteSet(S \cap 0..n)
    <3>1. IsFiniteSet(0..n) /\ S \cap 0..n \in SUBSET (0..n)
      BY FS_Interval
    <3> QED BY ONLY <3>1, FS_Subset
  <2> QED BY <2>1 DEF FiniteSubsetsOf
<1>2. PICK low \in Below : \A b \in Below : <<b, low>> \notin StrictSubsetOrdering(S)
  BY <1>1, FS_StrictSubsetOrderingWellFounded, WFMin
<1>3. PICK x \in S : low = S \cap 0..x
  OBVIOUS
<1>4. \A y \in S : x <= y
  <2> SUFFICES ASSUME NEW y \in S, y < x PROVE FALSE
    OBVIOUS
  <2> DEFINE b == S \cap 0..y
  <2>1. b \in Below /\ b \subseteq low /\ x \in low /\ x \notin b
    BY <1>3
  <2>2. <<b, low>> \in StrictSubsetOrdering(S)
    BY <2>1, <1>1 DEF StrictSubsetOrdering, FiniteSubsetsOf
  <2> QED BY <1>2, <2>1, <2>2
<1> QED BY <1>4 DEF Min

(* A claim that finds its turn pending takes an idle task for it.          *)
LEMMA ClaimTakes ==
  ASSUME TypeOK, NEW p \in Polls, NEW t \in Turns, Claim(p, t), llm[t] = "PENDING"
  PROVE  \E s \in Tasks :
           /\ phase[s] = "idle"
           /\ phase' = [phase EXCEPT ![s] = "call"]
           /\ job' = [job EXCEPT ![s] = t]
           /\ llm' = [llm EXCEPT ![t] = "RUNNING"]
           /\ lock' = [lock EXCEPT ![t] = "fresh"]
           /\ own' = [own EXCEPT ![t] = TRUE]
<1> DEFINE free == {s \in Tasks : phase[s] = "idle"}
<1>1. free # {} /\ free \in SUBSET Nat
  BY WorkerAssumption DEF Claim, Tasks
<1>2. Min(free) \in free
  BY <1>1, LeastIsIn
<1> QED BY <1>2 DEF Claim

(* A claim that comes too late changes nothing but its poll.               *)
LEMMA ClaimLeaves ==
  ASSUME NEW p \in Polls, NEW t \in Turns, Claim(p, t), llm[t] # "PENDING"
  PROVE  UNCHANGED <<turnVars, taskVars>>
  BY DEF Claim

(* The initial state is well typed.                                        *)
LEMMA TypeInit == Init => TypeOK
  BY WorkerAssumption DEF Init, TypeOK, Turns, Tasks

(* Every step keeps the types: one case per action.                        *)
LEMMA TypeStep == TypeOK /\ [Next]_vars => TypeOK'
<1> SUFFICES ASSUME TypeOK, [Next]_vars PROVE TypeOK'
  OBVIOUS
<1> USE WorkerAssumption DEF turnVars, pollVars, taskVars, retryVars
<1>0. /\ \A s \in Tasks : phase[s] # "idle" => job[s] \in Turns
      /\ \A q \in Retriers : retrying[q] # 0 => retrying[q] \in Turns
      /\ \A t \in Turns : t # 0 /\ t \in 0..NumTurns
  BY DEF TypeOK, Turns
<1>1. CASE UNCHANGED vars
  BY <1>1 DEF TypeOK, vars
<1>2. ASSUME NEW t \in Turns, Commit(t) PROVE TypeOK'
  BY <1>2 DEF TypeOK, Commit
<1>3. ASSUME NEW t \in Turns, Age(t) PROVE TypeOK'
  BY <1>3 DEF TypeOK, Age
<1>4. ASSUME NEW p \in Polls, PollReset(p) PROVE TypeOK'
  BY <1>4 DEF TypeOK, PollReset
<1>5. ASSUME NEW p \in Polls, PollCount(p) PROVE TypeOK'
  <2> DEFINE busy == {t \in Turns : llm[t] = "RUNNING" /\ own[t]}
             available == MaxConcurrent - Cardinality(busy)
  <2>1. IsFiniteSet(Turns) /\ busy \in SUBSET Turns
    BY FS_Interval DEF Turns
  <2>2. Cardinality(busy) \in Nat
    BY ONLY <2>1, FS_Subset, FS_CardinalityType
  <2>3. available \in Int /\ available <= MaxConcurrent
    BY <2>2
  <2>4. ~(available <= 0) => available \in 0..MaxConcurrent
    BY <2>3
  <2>5. slots' \in [Polls -> 0..MaxConcurrent] /\ pollPc' \in [Polls -> {"idle", "count", "select", "claim"}]
    <3> HIDE DEF busy
    <3>1. /\ available <= 0 => pollPc' = [pollPc EXCEPT ![p] = "idle"] /\ UNCHANGED slots
          /\ ~(available <= 0) => /\ pollPc' = [pollPc EXCEPT ![p] = "select"]
                                  /\ slots' = [slots EXCEPT ![p] = available]
      BY <1>5 DEF PollCount, busy
    <3> HIDE DEF available
    <3> QED BY <2>4, <3>1 DEF TypeOK
  <2> QED BY <1>5, <2>5 DEF TypeOK, PollCount
<1>6. ASSUME NEW p \in Polls, PollSelect(p) PROVE TypeOK'
  <2>1. Oldest(slots[p], Pending) \in SUBSET Turns /\ 0 \in 0..MaxConcurrent
    BY DEF Oldest, Pending
  <2> QED BY <1>6, <2>1 DEF TypeOK, PollSelect
<1>7. ASSUME NEW p \in Polls, NEW t \in Turns, Claim(p, t) PROVE TypeOK'
  <2>1. /\ list' \in [Polls -> SUBSET Turns]
        /\ pollPc' \in [Polls -> {"idle", "count", "select", "claim"}]
        /\ UNCHANGED <<refunded, slots, retryVars, crashes>>
    BY <1>7 DEF TypeOK, Claim
  <2>2. CASE llm[t] = "PENDING"
    <3>1. PICK s \in Tasks :
            /\ phase' = [phase EXCEPT ![s] = "call"]
            /\ job' = [job EXCEPT ![s] = t]
            /\ llm' = [llm EXCEPT ![t] = "RUNNING"]
            /\ lock' = [lock EXCEPT ![t] = "fresh"]
            /\ own' = [own EXCEPT ![t] = TRUE]
      BY <1>7, <2>2, ClaimTakes
    <3> QED BY <1>0, <2>1, <3>1 DEF TypeOK
  <2>3. CASE llm[t] # "PENDING"
    BY <1>7, <2>1, <2>3, ClaimLeaves DEF TypeOK
  <2> QED BY <2>2, <2>3
<1>8. ASSUME NEW s \in Tasks, Deliver(s) PROVE TypeOK'
  BY <1>0, <1>8 DEF TypeOK, Deliver
<1>9. ASSUME NEW s \in Tasks, Fail(s) PROVE TypeOK'
  BY <1>0, <1>9 DEF TypeOK, Fail
<1>10. ASSUME NEW s \in Tasks, Finish(s) PROVE TypeOK'
  BY <1>10 DEF TypeOK, Finish, Release
<1>11. ASSUME NEW s \in Tasks, RefundOnFailure(s) PROVE TypeOK'
  BY <1>0, <1>11 DEF TypeOK, RefundOnFailure, Release
<1>12. ASSUME NEW q \in Retriers, RetryReset(q) PROVE TypeOK'
  BY <1>0, <1>12 DEF TypeOK, RetryReset
<1>13. ASSUME NEW q \in Retriers, NEW t \in Turns, RetryCheck(q, t) PROVE TypeOK'
  BY <1>0, <1>13 DEF TypeOK, RetryCheck
<1>14. CASE Restart
  BY <1>14 DEF TypeOK, Restart
<1> QED BY <1>1, <1>2, <1>3, <1>4, <1>5, <1>6, <1>7, <1>8, <1>9, <1>10, <1>11, <1>12,
           <1>13, <1>14 DEF Next, PollNext, TaskNext

(* The rows, polls and tasks are always well formed; a task has a turn     *)
(* exactly while it works.                                                 *)
THEOREM WorkerTypes == Spec => []TypeOK
  BY TypeInit, TypeStep, PTL DEF Spec

-----------------------------------------------------------------------------

(* While a call is made for a turn the turn is RUNNING under a lock that   *)
(* is not stale; after its text was written it is DONE; nobody else works  *)
(* on it meanwhile, and a retry past its check finds the turn still FAILED. *)
CallInv ==
  /\ \A s \in Tasks :
       /\ phase[s] = "call" => llm[job[s]] = "RUNNING" /\ lock[job[s]] = "fresh"
       /\ phase[s] = "after" => llm[job[s]] = "DONE"
  /\ \A s1, s2 \in Tasks :
       /\ phase[s1] \in {"call", "after"} /\ phase[s2] \in {"call", "after"}
       /\ job[s1] = job[s2]
       => s1 = s2
  /\ \A q \in Retriers : retrying[q] # 0 => llm[retrying[q]] = "FAILED"

(* At first nobody works.                                                  *)
LEMMA CallInit == Init => CallInv
  BY DEF Init, CallInv

(* A step keeps CallInv if calls end within the lock's time and retries do *)
(* not overlap.                                                            *)
LEMMA CallStep ==
  ASSUME InTime, TypeOK, CallInv, [Next]_vars
  PROVE  CallInv'
<1> USE WorkerAssumption DEF turnVars, pollVars, taskVars, retryVars
<1>0. /\ \A s \in Tasks : phase[s] # "idle" => job[s] \in Turns
      /\ \A q \in Retriers : retrying[q] # 0 => retrying[q] \in Turns
  BY DEF TypeOK, Turns
<1>1. CASE UNCHANGED vars
  BY <1>1 DEF CallInv, vars
<1>2. ASSUME NEW t \in Turns, Commit(t) PROVE CallInv'
  BY <1>0, <1>2 DEF TypeOK, CallInv, Commit
<1>3. ASSUME NEW t \in Turns, Age(t) PROVE CallInv'
  BY <1>0, <1>3 DEF InTime, TypeOK, CallInv, Age
<1>4. ASSUME NEW p \in Polls, PollReset(p) PROVE CallInv'
  BY <1>0, <1>4 DEF TypeOK, CallInv, PollReset
<1>5. ASSUME NEW p \in Polls, PollCount(p) \/ PollSelect(p) PROVE CallInv'
  BY <1>5 DEF CallInv, PollCount, PollSelect
<1>6. ASSUME NEW p \in Polls, NEW t \in Turns, Claim(p, t) PROVE CallInv'
  <2>0. UNCHANGED retrying
    BY <1>6 DEF Claim
  <2>1. CASE llm[t] = "PENDING"
    <3>1. PICK s \in Tasks :
            /\ phase[s] = "idle"
            /\ phase' = [phase EXCEPT ![s] = "call"]
            /\ job' = [job EXCEPT ![s] = t]
            /\ llm' = [llm EXCEPT ![t] = "RUNNING"]
            /\ lock' = [lock EXCEPT ![t] = "fresh"]
      BY <1>6, <2>1, ClaimTakes
    <3> QED BY <1>0, <2>0, <2>1, <3>1 DEF TypeOK, CallInv
  <2>2. CASE llm[t] # "PENDING"
    BY <1>6, <2>0, <2>2, ClaimLeaves DEF CallInv
  <2> QED BY <2>1, <2>2
<1>7. ASSUME NEW s \in Tasks, Deliver(s) PROVE CallInv'
  BY <1>0, <1>7 DEF TypeOK, CallInv, Deliver
<1>8. ASSUME NEW s \in Tasks, Fail(s) PROVE CallInv'
  BY <1>0, <1>8 DEF TypeOK, CallInv, Fail
<1>9. ASSUME NEW s \in Tasks, Finish(s) \/ RefundOnFailure(s) PROVE CallInv'
  BY <1>9 DEF TypeOK, CallInv, Finish, RefundOnFailure, Release
<1>10. ASSUME NEW q \in Retriers, RetryReset(q) PROVE CallInv'
  BY <1>0, <1>10 DEF InTime, TypeOK, CallInv, RetryReset
<1>11. ASSUME NEW q \in Retriers, NEW t \in Turns, RetryCheck(q, t) PROVE CallInv'
  BY <1>11 DEF TypeOK, CallInv, RetryCheck
<1>12. CASE Restart
  BY <1>12 DEF CallInv, Restart
<1> QED BY <1>1, <1>2, <1>3, <1>4, <1>5, <1>6, <1>7, <1>8, <1>9, <1>10, <1>11, <1>12
        DEF Next, PollNext, TaskNext

(* Two calls for a turn would be two tasks at work on it.                  *)
LEMMA CallBound == TypeOK /\ CallInv => OneCall
<1> SUFFICES ASSUME CallInv, NEW t \in Turns
             PROVE  Cardinality(Calls(t)) <= 1
  BY DEF OneCall
<1>1. CASE Calls(t) = {}
  BY <1>1, FS_EmptySet
<1>2. ASSUME NEW s \in Calls(t) PROVE Cardinality(Calls(t)) <= 1
  <2>1. Calls(t) = {s}
    BY <1>2 DEF Calls, CallInv
  <2> QED BY <2>1, FS_Singleton
<1> QED BY <1>1, <1>2

(* The claim is a barrier: no turn is narrated by two calls at a time, if  *)
(* a turn is processed within LOCK_TIMEOUT_S and retries do not overlap.   *)
THEOREM ClaimIsBarrier ==
  ASSUME InTime
  PROVE  Spec => []OneCall
<1>1. Init => TypeOK /\ CallInv
  BY TypeInit, CallInit
<1>2. TypeOK /\ CallInv /\ [Next]_vars => TypeOK' /\ CallInv'
  BY InTime, TypeStep, CallStep
<1>3. TypeOK /\ CallInv => OneCall
  BY CallBound
<1> QED BY <1>1, <1>2, <1>3, PTL DEF Spec

-----------------------------------------------------------------------------

(* A step keeps RunningIsWorked.                                           *)
LEMMA WorkedStep ==
  ASSUME TypeOK, RunningIsWorked, [Next]_vars
  PROVE  RunningIsWorked'
<1> USE WorkerAssumption DEF turnVars, pollVars, taskVars, retryVars
<1> DEFINE Worked(t) == llm[t] = "RUNNING" /\ own[t] => \E s \in Tasks : phase[s] = "call" /\ job[s] = t
<1>0. /\ \A t \in Turns : Worked(t)
      /\ \A s \in Tasks : phase[s] # "idle" => job[s] \in Turns
      /\ \A q \in Retriers : retrying[q] # 0 => retrying[q] \in Turns
  BY DEF RunningIsWorked, Calls, TypeOK, Turns
<1> SUFFICES ASSUME NEW u \in Turns PROVE Worked(u)'
  BY DEF RunningIsWorked, Calls
<1>1. CASE UNCHANGED vars
  BY <1>0, <1>1 DEF vars
<1>2. ASSUME NEW t \in Turns, Commit(t) \/ Age(t) PROVE Worked(u)'
  BY <1>0, <1>2 DEF TypeOK, Commit, Age
<1>3. ASSUME NEW p \in Polls, PollReset(p) \/ PollCount(p) \/ PollSelect(p) PROVE Worked(u)'
  BY <1>0, <1>3 DEF TypeOK, PollReset, PollCount, PollSelect
<1>4. ASSUME NEW p \in Polls, NEW t \in Turns, Claim(p, t) PROVE Worked(u)'
  <2>1. CASE llm[t] = "PENDING"
    <3>1. PICK s \in Tasks :
            /\ phase[s] = "idle"
            /\ phase' = [phase EXCEPT ![s] = "call"]
            /\ job' = [job EXCEPT ![s] = t]
            /\ llm' = [llm EXCEPT ![t] = "RUNNING"]
            /\ own' = [own EXCEPT ![t] = TRUE]
      BY <1>4, <2>1, ClaimTakes
    <3> QED BY <1>0, <3>1 DEF TypeOK
  <2>2. CASE llm[t] # "PENDING"
    BY <1>0, <1>4, <2>2, ClaimLeaves
  <2> QED BY <2>1, <2>2
<1>5. ASSUME NEW s \in Tasks, TaskNext(s) PROVE Worked(u)'
  BY <1>0, <1>5 DEF TypeOK, TaskNext, Deliver, Fail, Finish, RefundOnFailure, Release
<1>6. ASSUME NEW q \in Retriers, RetryReset(q) \/ \E t \in Turns : RetryCheck(q, t) PROVE Worked(u)'
  BY <1>0, <1>6 DEF TypeOK, RetryReset, RetryCheck
<1>7. CASE Restart
  BY <1>7 DEF Restart
<1> QED BY <1>1, <1>2, <1>3, <1>4, <1>5, <1>6, <1>7 DEF Next, PollNext

(* No task that is over keeps one of the worker's slots, however slow the  *)
(* calls are and however many retries and restarts overlap.                *)
THEOREM SlotsAreWorked == Spec => []RunningIsWorked
<1>1. Init => TypeOK /\ RunningIsWorked
  BY TypeInit DEF Init, RunningIsWorked
<1>2. TypeOK /\ RunningIsWorked /\ [Next]_vars => TypeOK' /\ RunningIsWorked'
  BY TypeStep, WorkedStep
<1> QED BY <1>1, <1>2, PTL DEF Spec

-----------------------------------------------------------------------------

(* A step keeps FailedIsRefunded.                                          *)
LEMMA RefundedStep ==
  ASSUME TypeOK, FailedIsRefunded, [Next]_vars
  PROVE  FailedIsRefunded'
<1> USE WorkerAssumption DEF turnVars, pollVars, taskVars, retryVars
<1> DEFINE Free(t) ==
             \/ Key[t] \in refunded
             \/ \E s \in Tasks : phase[s] = "refund" /\ job[s] = t
<1>0. /\ \A s \in Tasks : phase[s] # "idle" => job[s] \in Turns
      /\ \A q \in Retriers : retrying[q] # 0 => retrying[q] \in Turns
      /\ crashes \in Nat
  BY DEF TypeOK, Turns
<1>1. CASE Restart
  BY <1>0, <1>1 DEF FailedIsRefunded, Restart
<1> SUFFICES ASSUME ~Restart, crashes' = 0, NEW u \in Turns, llm'[u] = "FAILED" PROVE Free(u)'
  BY <1>1 DEF FailedIsRefunded
<1>2. crashes = 0
  BY DEF Next, vars, PollNext, TaskNext, Commit, Age, PollReset, PollCount, PollSelect, Claim,
         Deliver, Fail, Finish, RefundOnFailure, RetryReset, RetryCheck
<1>3. llm[u] = "FAILED" => Free(u)
  BY <1>2 DEF FailedIsRefunded
<1>4. CASE UNCHANGED vars
  BY <1>3, <1>4 DEF vars
<1>5. ASSUME NEW t \in Turns, Commit(t) \/ Age(t) PROVE Free(u)'
  BY <1>3, <1>5 DEF TypeOK, Commit, Age
<1>6. ASSUME NEW p \in Polls, PollReset(p) \/ PollCount(p) \/ PollSelect(p) PROVE Free(u)'
  BY <1>3, <1>6 DEF TypeOK, PollReset, PollCount, PollSelect
<1>7. ASSUME NEW p \in Polls, NEW t \in Turns, Claim(p, t) PROVE Free(u)'
  <2>0. UNCHANGED refunded
    BY <1>7 DEF Claim
  <2>1. CASE llm[t] = "PENDING"
    <3>1. PICK s \in Tasks :
            /\ phase[s] = "idle"
            /\ phase' = [phase EXCEPT ![s] = "call"]
            /\ job' = [job EXCEPT ![s] = t]
            /\ llm' = [llm EXCEPT ![t] = "RUNNING"]
      BY <1>7, <2>1, ClaimTakes
    <3> QED BY <1>3, <2>0, <3>1 DEF TypeOK
  <2>2. CASE llm[t] # "PENDING"
    BY <1>3, <1>7, <2>0, <2>2, ClaimLeaves
  <2> QED BY <2>1, <2>2
<1>8. ASSUME NEW s \in Tasks, TaskNext(s) PROVE Free(u)'
  BY <1>0, <1>3, <1>8 DEF TypeOK, TaskNext, Deliver, Fail, Finish, RefundOnFailure, Release
<1>9. ASSUME NEW q \in Retriers, RetryReset(q) \/ \E t \in Turns : RetryCheck(q, t) PROVE Free(u)'
  BY <1>0, <1>3, <1>9 DEF TypeOK, RetryReset, RetryCheck
<1> QED BY <1>1, <1>4, <1>5, <1>6, <1>7, <1>8, <1>9 DEF Next, PollNext

(* While the process was not restarted, a turn that failed has its charge  *)
(* back or a task is about to give it back, whatever races for the turn.   *)
THEOREM FailureIsFree == Spec => []FailedIsRefunded
<1>1. Init => TypeOK /\ FailedIsRefunded
  BY TypeInit DEF Init, FailedIsRefunded
<1>2. TypeOK /\ FailedIsRefunded /\ [Next]_vars => TypeOK' /\ FailedIsRefunded'
  BY TypeStep, RefundedStep
<1> QED BY <1>1, <1>2, PTL DEF Spec

-----------------------------------------------------------------------------

(* What the player sees of a turn, read off its status.                    *)
View(x) ==
  IF x = "none" THEN "none"
  ELSE IF x = "DONE" THEN "ready"
  ELSE IF x = "FAILED" THEN "failed"
  ELSE "waiting"

(* The text Narration speaks of is the view of each status.                *)
LEMMA TextIsView == TypeOK => SeenText = [t \in Turns |-> View(llm[t])]
  BY DEF TypeOK, View, SeenText

(* If one status changes, so does the text of that turn and no other.      *)
LEMMA OneMoves ==
  ASSUME TypeOK, TypeOK', NEW t \in Turns, NEW y, llm' = [llm EXCEPT ![t] = y]
  PROVE  /\ Seen!Move(t, View(llm[t]), View(y))
         /\ View(llm[t]) = View(y) => UNCHANGED SeenText
<1>1. /\ SeenText = [u \in Turns |-> View(llm[u])]
      /\ SeenText' = [u \in Turns |-> View(llm'[u])]
  <2>1. TypeOK' => SeenText' = [u \in Turns |-> View(llm'[u])]
    BY DEF TypeOK, View, SeenText
  <2> QED BY <2>1, TextIsView
<1>2. llm \in [Turns -> {"none", "PENDING", "RUNNING", "DONE", "FAILED"}]
  BY DEF TypeOK
<1>3. SeenText' = [SeenText EXCEPT ![t] = View(y)] /\ SeenText[t] = View(llm[t])
  BY <1>1, <1>2
<1> QED BY <1>1, <1>2, <1>3 DEF Seen!Move

(* Statuses that look the same are one text.                               *)
LEMMA NoneMoves ==
  ASSUME TypeOK, TypeOK', \A t \in Turns : View(llm'[t]) = View(llm[t])
  PROVE  UNCHANGED SeenText
<1>1. TypeOK' => SeenText' = [u \in Turns |-> View(llm'[u])]
  BY DEF TypeOK, View, SeenText
<1> QED BY <1>1, TextIsView

(* Every step is one that Narration allows, or changes no text.            *)
LEMMA StepNarrates ==
  ASSUME InTime, TypeOK, TypeOK', CallInv, [Next]_vars
  PROVE  [Seen!Next]_SeenText
<1> USE WorkerAssumption DEF turnVars, pollVars, taskVars, retryVars
<1>0. /\ \A s \in Tasks : phase[s] # "idle" => job[s] \in Turns
      /\ \A q \in Retriers : retrying[q] # 0 => retrying[q] \in Turns
  BY DEF TypeOK, Turns
<1>1. CASE UNCHANGED vars
  BY <1>1 DEF vars, SeenText
<1>2. ASSUME NEW t \in Turns, Commit(t) PROVE Seen!Request(t)
  BY <1>2, OneMoves DEF Commit, View, Seen!Request
<1>3. ASSUME NEW t \in Turns, Age(t) PROVE UNCHANGED SeenText
  BY <1>3 DEF Age, SeenText
<1>4. ASSUME NEW p \in Polls, PollReset(p) PROVE UNCHANGED SeenText
  BY <1>4, NoneMoves DEF PollReset, View
<1>5. ASSUME NEW p \in Polls, PollCount(p) \/ PollSelect(p) PROVE UNCHANGED SeenText
  <2>1. llm' = llm
    BY <1>5 DEF PollCount, PollSelect
  <2> QED BY <2>1 DEF SeenText
<1>6. ASSUME NEW p \in Polls, NEW t \in Turns, Claim(p, t) PROVE UNCHANGED SeenText
  <2>1. CASE llm[t] = "PENDING"
    BY <1>6, <2>1, OneMoves DEF Claim, View
  <2>2. CASE llm[t] # "PENDING"
    <3>1. llm' = llm
      BY <1>6, <2>2, ClaimLeaves
    <3> QED BY <3>1 DEF SeenText
  <2> QED BY <2>1, <2>2
<1>7. ASSUME NEW s \in Tasks, Deliver(s) PROVE Seen!Deliver(job[s])
  BY <1>0, <1>7, OneMoves DEF CallInv, Deliver, View, Seen!Deliver
<1>8. ASSUME NEW s \in Tasks, Fail(s) PROVE Seen!Fail(job[s]) \/ Seen!Withdraw(job[s])
  BY <1>0, <1>8, OneMoves DEF CallInv, Fail, View, Seen!Fail, Seen!Withdraw
<1>9. ASSUME NEW s \in Tasks, Finish(s) \/ RefundOnFailure(s) PROVE UNCHANGED SeenText
  <2>1. llm' = llm
    BY <1>9 DEF Finish, RefundOnFailure
  <2> QED BY <2>1 DEF SeenText
<1>10. ASSUME NEW q \in Retriers, RetryReset(q) PROVE Seen!Retry(retrying[q])
  <2>1. retrying[q] \in Turns /\ llm[retrying[q]] = "FAILED"
    BY <1>0, <1>10 DEF CallInv, RetryReset
  <2>2. llm' = [llm EXCEPT ![retrying[q]] = "PENDING"]
    BY <1>10 DEF RetryReset
  <2>3. Seen!Move(retrying[q], View(llm[retrying[q]]), View("PENDING"))
    BY <2>1, <2>2, OneMoves
  <2> QED BY <2>1, <2>3 DEF View, Seen!Retry
<1>11. ASSUME NEW q \in Retriers, NEW t \in Turns, RetryCheck(q, t) PROVE UNCHANGED SeenText
  BY <1>11 DEF RetryCheck, SeenText
<1>12. CASE Restart
  BY <1>12 DEF Restart, SeenText
<1>13. ASSUME NEW s \in Tasks, Deliver(s) \/ Fail(s) PROVE job[s] \in Turns
  BY <1>0, <1>13 DEF Deliver, Fail
<1>14. ASSUME NEW q \in Retriers, RetryReset(q) PROVE retrying[q] \in Turns
  BY <1>0, <1>14 DEF RetryReset
<1> QED BY <1>1, <1>2, <1>3, <1>4, <1>5, <1>6, <1>7, <1>8, <1>9, <1>10, <1>11, <1>12, <1>13, <1>14
        DEF Next, PollNext, TaskNext, Seen!Next

(* With calls in time and retries that do not overlap the worker does to   *)
(* a turn only what Narration allows: a text is never taken back to        *)
(* waiting, and a failure is waited for again only after a retry.          *)
THEOREM NarratesSafely ==
  ASSUME InTime
  PROVE  Spec => Seen!Safe
<1>1. Init => TypeOK /\ CallInv /\ Seen!Init
  <2>1. Init => SeenText = [t \in Turns |-> "none"]
    BY DEF Init, SeenText
  <2> QED BY <2>1, TypeInit, CallInit DEF Seen!Init
<1>2. TypeOK /\ CallInv /\ [Next]_vars => TypeOK' /\ CallInv'
  BY InTime, TypeStep, CallStep
<1>3. TypeOK /\ TypeOK' /\ CallInv /\ [Next]_vars => [Seen!Next]_SeenText
  BY InTime, StepNarrates
<1> QED BY <1>1, <1>2, <1>3, PTL DEF Spec, Seen!Safe

-----------------------------------------------------------------------------
(* RunMemory: how the worker and the handlers move.                        *)

Plain == {"end", "patch", "know", "thread", "facts", "beats"}

(* A task goes on with one of its stages or ends, and ends after the last. *)
LEMMA FromIs ==
  ASSUME NEW t, NEW i \in 0..5
  PROVE  From(t, i) \in Plain /\ (i = 5 => From(t, i) = "end")
<1> DEFINE due == {j \in (i + 1)..Len(Stages) :
                     Stages[j] \in answers[t] /\ (nodes[task[t].node] = "HUB" => Stages[j] = "patch")}
<1>1. Len(Stages) = 5 /\ \A j \in 1..5 : Stages[j] \in Plain
  BY DEF Stages, Plain
<1>2. due \in SUBSET Nat /\ due \subseteq (i + 1)..5
  BY <1>1
<1>3. From(t, i) = IF due = {} THEN "end" ELSE Stages[Min(due)]
  BY DEF From
<1> HIDE DEF due
<1>4. CASE due = {}
  BY <1>3, <1>4 DEF Plain
<1>5. CASE due # {}
  <2>1. Min(due) \in due
    BY <1>2, <1>5, LeastIsIn
  <2>2. Min(due) \in 1..5 /\ i # 5
    <3>1. PICK m : m = Min(due)
      OBVIOUS
    <3>2. m \in (i + 1)..5
      BY <2>1, <3>1, <1>2
    <3>3. m \in 1..5 /\ i # 5
      BY <3>2
    <3> QED BY <3>1, <3>3
  <2> QED BY <2>2, <1>3, <1>5, <1>1
<1> QED BY <1>4, <1>5

(* The stage after a stage.                                                *)
LEMMA AfterIs ==
  ASSUME NEW t, NEW s \in {"patch", "know", "thread", "facts", "beats"}
  PROVE  After(t, s) \in Plain /\ (s = "beats" => After(t, s) = "end")
<1> DEFINE j == CHOOSE k \in 1..Len(Stages) : Stages[k] = s
<1>1. \E k \in 1..Len(Stages) : Stages[k] = s
  <2>1. Len(Stages) = 5 /\ Stages[1] = "patch" /\ Stages[2] = "know" /\ Stages[3] = "thread"
          /\ Stages[4] = "facts" /\ Stages[5] = "beats"
    BY DEF Stages
  <2> QED BY <2>1
<1>2. j \in 1..Len(Stages) /\ Stages[j] = s
  BY <1>1
<1>3. j \in 0..5 /\ (s = "beats" => j = 5)
  BY <1>2 DEF Stages
<1>4. After(t, s) = From(t, j)
  BY DEF After
<1> HIDE DEF j
<1> QED BY <1>3, <1>4, FromIs

-----------------------------------------------------------------------------
(* The steps of the worker.                                                *)

\* The task of turn t moves on, and nothing of the handler changes.
WorkFrame(t) ==
  /\ task[t].pc \notin {"none", "end"}
  /\ DOMAIN task' = TurnNos /\ \A u \in TurnNos : u # t => task'[u] = task[u]
  /\ task'[t] \in [pc : TaskLabels \ {"none", "waiting"}, node : {task[t].node}, seen : {task'[t].seen}, tries : Nat]
  /\ UNCHANGED <<cur, nodes, active, over, hand, answers, restarts, played, adopted, summary>>

Rests(t) == task'[t].pc \in Plain /\ task'[t].seen = None

\* What it does.
Reads(t) ==
  /\ UNCHANGED <<run, rows, memory, told, overlapped>>
  /\ \/ Rests(t)
     \/ task'[t].pc \in {"patch write", "beats write"} /\ task'[t].seen = run
     \/ task'[t].pc \in {"know write", "facts write"} /\ task'[t].seen = memory
     \/ /\ task'[t].pc = "thread write"
        /\ \E i \in FirstRow(task[t].node) :
             task'[t].seen = IF i = 0 THEN [row |-> 0, acts |-> {}, thread |-> {}]
                             ELSE [row |-> i, acts |-> rows[i].acts, thread |-> rows[i].thread]
PatchesRun(t) ==
  /\ Rests(t)
  /\ UNCHANGED <<rows, memory, told, overlapped>>
  /\ \/ run' = [run EXCEPT !.marks = @ \union {t}]
     \/ task'[t].pc = "end" /\ run' = [run EXCEPT !.beats = t]
TellsFacts(t) ==
  /\ Rests(t) /\ task[t].pc \in {"know write", "facts write"}
  /\ UNCHANGED <<run, rows>>
  /\ \E s \in {"know", "facts"} : Remember(t, task[t].seen, <<s, t>>)
TellsThread(t) ==
  /\ Rests(t) /\ task[t].pc = "thread write"
  /\ UNCHANGED <<run, memory>>
  /\ rows' = IF task[t].seen.row = 0 THEN Append(rows, WithThread(t))
             ELSE [rows EXCEPT ![task[t].seen.row] = WrittenThread(t)]
  /\ told' = told \union {<<"thread", t>>}
  /\ overlapped' = IF Threading(task[t].node) = {t} THEN overlapped
                   ELSE overlapped \union {task[t].node}

JobIs(t) == task[t] \in [pc : TaskLabels, node : Nat, seen : {task[t].seen}, tries : Nat]

(* Step moves one task and no other.                                       *)
LEMMA StepIs ==
  ASSUME DOMAIN task = TurnNos, NEW t \in TurnNos, JobIs(t), NEW pc \in TaskLabels \ {"none", "waiting"}, NEW seen,
         Step(t, pc, seen)
  PROVE  /\ DOMAIN task' = TurnNos /\ \A u \in TurnNos : u # t => task'[u] = task[u]
         /\ task'[t] \in [pc : TaskLabels \ {"none", "waiting"}, node : {task[t].node}, seen : {task'[t].seen}, tries : Nat]
         /\ task'[t].pc = pc /\ task'[t].seen = seen
BY DEF Step, JobIs

(* So does the write of a job, which forgets what was read.                *)
LEMMA NewJobIs ==
  ASSUME DOMAIN task = TurnNos, NEW t \in TurnNos, JobIs(t), NEW pc \in TaskLabels \ {"none", "waiting"}, NEW n \in Nat,
         task' = [task EXCEPT ![t] = [Job(pc, @.node) EXCEPT !.tries = n]]
           \/ task' = [task EXCEPT ![t] = Job(pc, @.node)]
  PROVE  /\ DOMAIN task' = TurnNos /\ \A u \in TurnNos : u # t => task'[u] = task[u]
         /\ task'[t] \in [pc : TaskLabels \ {"none", "waiting"}, node : {task[t].node}, seen : {task'[t].seen}, tries : Nat]
         /\ task'[t].pc = pc /\ task'[t].seen = None
<1>1. DOMAIN task' = TurnNos /\ \A u \in TurnNos : u # t => task'[u] = task[u]
  OBVIOUS
<1>2. task'[t] = [pc |-> pc, node |-> task[t].node, seen |-> None, tries |-> n]
        \/ task'[t] = [pc |-> pc, node |-> task[t].node, seen |-> None, tries |-> 0]
  BY DEF Job
<1> QED BY <1>1, <1>2

(* A step of the worker reads, patches the run, or tells something.        *)
LEMMA WorkIs ==
  ASSUME MemoryTypeOK, NEW t \in TurnNos, Work(t)
  PROVE  WorkFrame(t) /\ (Reads(t) \/ PatchesRun(t) \/ TellsFacts(t) \/ TellsThread(t))
<1> USE DEF stores, place, history
<1>0. DOMAIN task = TurnNos /\ JobIs(t)
  BY DEF MemoryTypeOK, JobIs
<1>l. Plain \subseteq TaskLabels \ {"none", "waiting"}
  BY DEF Plain, TaskLabels
<1>w. WriteOf["patch"] = "patch write" /\ WriteOf["know"] = "know write" /\ WriteOf["facts"] = "facts write"
        /\ WriteOf["beats"] = "beats write"
  BY DEF WriteOf
<1>1. CASE ClaimTurn(t)
  <2>1. From(t, 0) \in Plain
    BY FromIs
  <2>2. Step(t, From(t, 0), None) /\ task[t].pc = "waiting"
    BY <1>1 DEF ClaimTurn, At
  <2>3. UNCHANGED <<stores, place, hand, answers, restarts, history>>
    BY <1>1 DEF ClaimTurn
  <2>4. task'[t].pc = From(t, 0) /\ task'[t].seen = None
    BY <1>0, <1>l, <2>1, <2>2, StepIs
  <2>5. WorkFrame(t)
    BY <1>0, <1>l, <2>1, <2>2, <2>3, StepIs DEF WorkFrame
  <2> QED BY <2>1, <2>3, <2>4, <2>5 DEF Reads, Rests
<1>2. CASE ReadRun(t)
  <2>1. PICK s \in {"patch", "beats"} : task[t].pc = s /\ Step(t, WriteOf[s], run)
    BY <1>2 DEF ReadRun, At
  <2>2. UNCHANGED <<stores, place, hand, answers, restarts, history>>
    BY <1>2 DEF ReadRun
  <2>3. WriteOf[s] \in {"patch write", "beats write"}
    BY <1>w
  <2>4. WriteOf[s] \in TaskLabels \ {"none", "waiting"}
    BY <2>3 DEF TaskLabels
  <2>5. task'[t].pc = WriteOf[s] /\ task'[t].seen = run
    BY <1>0, <2>1, <2>4, StepIs
  <2>6. WorkFrame(t)
    BY <1>0, <2>1, <2>2, <2>4, StepIs DEF WorkFrame
  <2> QED BY <2>2, <2>3, <2>5, <2>6 DEF Reads
<1>3. CASE Patch(t)
  <2>1. PICK s \in {"patch", "beats"} :
          /\ task[t].pc = WriteOf[s]
          /\ IF run = task[t].seen
               THEN run' = Patched(t, run) /\ task' = [task EXCEPT ![t] = Job(After(t, s), @.node)]
               ELSE Tried(t, s) /\ UNCHANGED run
    BY <1>3 DEF Patch, At
  <2>2. UNCHANGED <<rows, memory, summary, place, hand, answers, restarts, history>>
    BY <1>3 DEF Patch
  <2>3. After(t, s) \in Plain /\ (s = "beats" => After(t, s) = "end") /\ s \in Plain
    BY AfterIs DEF Plain
  <2>4. task[t].pc \notin {"none", "end"} /\ (task[t].pc = "patch write" <=> s = "patch")
    BY <2>1, <1>w
  <2>5. CASE run = task[t].seen
    <3>1. task' = [task EXCEPT ![t] = Job(After(t, s), @.node)] /\ run' = Patched(t, run)
      BY <2>1, <2>5
    <3>2. task'[t].pc = After(t, s) /\ task'[t].seen = None
      BY <1>0, <1>l, <2>3, <3>1, NewJobIs
    <3>3. WorkFrame(t)
      BY <1>0, <1>l, <2>2, <2>3, <2>4, <3>1, NewJobIs DEF WorkFrame
    <3>4. PatchesRun(t)
      BY <2>2, <2>3, <2>4, <3>1, <3>2 DEF PatchesRun, Rests, Patched, At
    <3> QED BY <3>3, <3>4
  <2>6. CASE run # task[t].seen
    <3>1. Tried(t, s) /\ UNCHANGED run
      BY <2>1, <2>6
    <3>2. task[t].tries \in Nat
      BY <1>0 DEF JobIs
    <3>3. PICK pc \in Plain, n \in Nat : \/ task' = [task EXCEPT ![t] = [Job(pc, @.node) EXCEPT !.tries = n]]
                             \/ task' = [task EXCEPT ![t] = Job(pc, @.node)]
      BY <3>1, <3>2, <2>3 DEF Tried
    <3>4. task'[t].pc = pc /\ task'[t].seen = None
      BY <1>0, <1>l, <3>3, NewJobIs
    <3>5. pc \in TaskLabels \ {"none", "waiting"}
      BY <1>l
    <3>6. /\ DOMAIN task' = TurnNos /\ \A u \in TurnNos : u # t => task'[u] = task[u]
          /\ task'[t] \in [pc : TaskLabels \ {"none", "waiting"}, node : {task[t].node}, seen : {task'[t].seen}, tries : Nat]
      BY ONLY <1>0, <3>3, <3>5, NewJobIs, t \in TurnNos, n \in Nat
    <3>7. WorkFrame(t)
      BY <2>2, <2>4, <3>6 DEF WorkFrame
    <3> QED BY <2>2, <3>1, <3>4, <3>7 DEF Reads, Rests
  <2> QED BY <2>5, <2>6
<1>4. CASE ReadFacts(t)
  <2>1. PICK s \in {"know", "facts"} : task[t].pc = s /\ Step(t, WriteOf[s], memory)
    BY <1>4 DEF ReadFacts, At
  <2>2. UNCHANGED <<stores, place, hand, answers, restarts, history>>
    BY <1>4 DEF ReadFacts
  <2>3. WriteOf[s] \in {"know write", "facts write"}
    BY <1>w
  <2>4. WriteOf[s] \in TaskLabels \ {"none", "waiting"}
    BY <2>3 DEF TaskLabels
  <2>5. task'[t].pc = WriteOf[s] /\ task'[t].seen = memory
    BY <1>0, <2>1, <2>4, StepIs
  <2>6. WorkFrame(t)
    BY <1>0, <2>1, <2>2, <2>4, StepIs DEF WorkFrame
  <2> QED BY <2>2, <2>3, <2>5, <2>6 DEF Reads
<1>5. CASE SaveFacts(t)
  <2>1. PICK s \in {"know", "facts"} :
          task[t].pc = WriteOf[s] /\ Remember(t, task[t].seen, <<s, t>>) /\ Step(t, After(t, s), None)
    BY <1>5 DEF SaveFacts, At
  <2>2. UNCHANGED <<run, rows, summary, place, hand, answers, restarts, played, adopted>>
    BY <1>5 DEF SaveFacts
  <2>3. After(t, s) \in Plain
    BY AfterIs
  <2>4. task[t].pc \in {"know write", "facts write"}
    BY <2>1, <1>w
  <2>5. task'[t].pc = After(t, s) /\ task'[t].seen = None
    BY <1>0, <1>l, <2>1, <2>3, StepIs
  <2>6. WorkFrame(t)
    BY <1>0, <1>l, <2>1, <2>2, <2>3, <2>4, StepIs DEF WorkFrame
  <2> QED BY <2>1, <2>2, <2>3, <2>4, <2>5, <2>6 DEF TellsFacts, Rests
<1>6. CASE ReadThread(t)
  <2> DEFINE read(i) == IF i = 0 THEN [row |-> 0, acts |-> {}, thread |-> {}]
                        ELSE [row |-> i, acts |-> rows[i].acts, thread |-> rows[i].thread]
  <2>1. PICK i \in FirstRow(task[t].node) : Step(t, "thread write", read(i))
    BY <1>6 DEF ReadThread
  <2>2. UNCHANGED <<stores, place, hand, answers, restarts, history>> /\ task[t].pc = "thread"
    BY <1>6 DEF ReadThread, At
  <2>4. "thread write" \in TaskLabels \ {"none", "waiting"}
    BY DEF TaskLabels
  <2>5. /\ DOMAIN task' = TurnNos /\ \A u \in TurnNos : u # t => task'[u] = task[u]
        /\ task'[t] \in [pc : TaskLabels \ {"none", "waiting"}, node : {task[t].node}, seen : {task'[t].seen}, tries : Nat]
        /\ task'[t].pc = "thread write" /\ task'[t].seen = read(i)
    <3> HIDE DEF read
    <3> QED BY <1>0, <2>1, <2>4, StepIs
  <2>6. WorkFrame(t)
    BY <2>2, <2>5 DEF WorkFrame
  <2>7. \E k \in FirstRow(task[t].node) : task'[t].seen = read(k)
    BY <2>5
  <2> QED BY <2>2, <2>5, <2>6, <2>7 DEF Reads
<1>7. CASE SaveThread(t)
  <2>1. task[t].pc = "thread write" /\ Step(t, After(t, "thread"), None)
    BY <1>7 DEF SaveThread, At
  <2>2. UNCHANGED <<run, memory, summary, place, hand, answers, restarts, played, adopted>>
    BY <1>7 DEF SaveThread
  <2>3. After(t, "thread") \in Plain
    BY AfterIs
  <2>5. task'[t].pc = After(t, "thread") /\ task'[t].seen = None
    BY <1>0, <1>l, <2>1, <2>3, StepIs
  <2>6. WorkFrame(t)
    BY <1>0, <1>l, <2>1, <2>2, <2>3, StepIs DEF WorkFrame
  <2>7. TellsThread(t)
    BY <1>7, <2>1, <2>2, <2>3, <2>5 DEF SaveThread, TellsThread, Rests
  <2> QED BY <2>6, <2>7
<1> QED BY <1>1, <1>2, <1>3, <1>4, <1>5, <1>6, <1>7 DEF Work

-----------------------------------------------------------------------------
(* The inductive invariant of RunMemory.                                   *)

\* The labels before the turn is inserted, before it is saved, and while the
\* visit is told.
Early == {"collect", "hear", "hear write", "store", "visit", "visit read", "visit write", "minimal"}
Before == Early \union {"leave", "insert"}
Unsaved == Before \union {"save"}
Reading == {"visit", "visit read", "visit write", "minimal"}

\* The turn in progress leaves a place.
Leaves == (hand.plan = "move" /\ nodes[hand.node] = "LOCATION") \/ hand.plan = "end"

\* The numbers: turns are inserted in order, and none is ahead of the run but
\* on behalf of the handler, until the process ends in between.
Known(n) == task[n].pc # "none"
TurnsInOrder == \A t, u \in TurnNos : ~Known(t) /\ t < u => ~Known(u)
NoneAfterCur == \A u \in TurnNos : u > cur => ~Known(u)
NoneAfterTurn == \A u \in TurnNos : u > hand.turn => ~Known(u)
NoneAfterEntry == \A u \in TurnNos : u > hand.turn + 1 => ~Known(u)
IsNext == hand.turn = cur + 1
EntryKnown == task[hand.turn + 1].pc # "none"
NumberInv ==
  /\ TurnsInOrder
  /\ hand.pc \in Before \union {"idle"} /\ restarts = 0 => NoneAfterCur
  /\ hand.pc \in {"save", "move", "end"} => NoneAfterTurn
  /\ hand.pc = "save enter" => NoneAfterEntry
  /\ task[cur].pc # "none"
  /\ hand.pc = "save" => task[hand.turn].pc # "none"
  /\ hand.pc = "save enter" => EntryKnown
  /\ hand.pc \in Unsaved => IsNext
  /\ hand.pc \in {"move", "end", "save enter"} => hand.turn = cur
  /\ hand.pc # "idle" => ~over

\* The paths of the plans, and the node of the turn.
AtNode == hand.node = IF hand.pc = "save enter" THEN Len(nodes) - 1 ELSE Len(nodes)
EntryFits == hand.turn + 1 \in TurnNos
PathInv ==
  hand.pc # "idle" =>
    /\ AtNode
    /\ hand.plan = "move" => EntryFits /\ hand.next \in {"HUB", "LOCATION"}
    /\ hand.plan # "move" => nodes[hand.node] = "LOCATION"
    /\ hand.pc \in {"collect", "hear", "hear write", "store"} => hand.plan # "move"
    /\ hand.pc \in Reading => Leaves
    /\ hand.pc \in {"leave", "move", "save enter"} => hand.plan = "move"
    /\ hand.pc = "end" => hand.plan = "end"
    /\ active <=> hand.plan # "move" \/ hand.pc \in Reading \union {"leave", "save enter"}

\* The run state: what the handler was given is what is there but for the
\* worker's fields, and beats that were used are nobody's any more.
Used == {a.beats : a \in adopted}
Spent(b) == b \in TurnNos => task[b].pc = "end"
BeatsInv ==
  /\ \A a \in adopted : Spent(a.beats)
  /\ \A a, b \in adopted : a.beats = b.beats => a = b
  /\ Spent(run.beats) /\ run.beats \notin Used
DoneInv == run.done = {p.turn : p \in played}
BaseInv ==
  /\ hand.adopt => hand.plan # "move" /\ hand.base.beats \in TurnNos
  /\ Spent(hand.base.beats)
  /\ hand.pc # "end" => hand.base.beats \notin Used
  /\ run.done = hand.base.done \union IF hand.pc \in Unsaved THEN {} ELSE {hand.turn}
  /\ run.visits = IF hand.pc \in Unsaved THEN hand.base.visits ELSE hand.visits
  /\ hand.base.visits \subseteq hand.visits
RunInv == BeatsInv /\ DoneInv /\ (hand.pc # "idle" => BaseInv)

\* The rows: every action of a place is in one of them.
Stored(n, turn) == \E i \in DOMAIN rows : rows[i].node = n /\ turn \in rows[i].acts
PlayedStored == \A p \in played : p.plan # "move" => Stored(p.node, p.turn)
HeldRow ==
  IF hand.seen.row = 0 THEN hand.seen.acts = {}
  ELSE /\ hand.seen.row \in DOMAIN rows /\ rows[hand.seen.row].node = hand.node
       /\ rows[hand.seen.row].acts = hand.seen.acts
TurnStored == hand.plan = "move" \/ Stored(hand.node, hand.turn)
ThreadRows ==
  \A t \in TurnNos : task[t].pc = "thread write" =>
    IF task[t].seen.row = 0 THEN task[t].seen.thread = {}
    ELSE task[t].seen.row \in DOMAIN rows /\ rows[task[t].seen.row].node = task[t].node
RowInv ==
  /\ PlayedStored
  /\ hand.pc \in {"hear", "hear write", "store"} => HeldRow
  /\ hand.pc \in Reading \union {"insert", "save"} => TurnStored
  /\ ThreadRows

\* The visits: a place that was left is told of, with all actions in it.
SplitIn(rs, n) == \E i, j \in DOMAIN rs : i # j /\ rs[i].node = n /\ rs[j].node = n
ActsIn(turns, n) == {p.turn : p \in {q \in turns : q.node = n /\ q.plan # "move"}}
ToldIn(lines, rs, n, acts) ==
  \E k \in DOMAIN lines : lines[k].node = n /\ (SplitIn(rs, n) \/ acts \subseteq lines[k].acts)
Finished(n) == n \in run.visits /\ ToldIn(summary, rows, n, ActsIn(played, n))
ActsSoFar == ActsIn(played, hand.node) \union IF hand.plan = "end" THEN {hand.turn} ELSE {}

VisitRead == SplitIn(rows, hand.node) \/ ActsSoFar \subseteq hand.seen
VisitSeen == (SplitIn(rows, hand.node) \/ ActsSoFar \subseteq hand.seen.acts) /\ hand.seen.summary = summary
VisitTold == hand.node \in hand.visits /\ ToldIn(summary, rows, hand.node, ActsSoFar)
MovesTold == \A p \in played : p.plan = "move" /\ nodes[p.node] = "LOCATION" => Finished(p.node)
EndTold == over => Finished(Len(nodes))
NodesLeft == \A n \in DOMAIN nodes : n = Len(nodes) \/ \E p \in played : p.node = n /\ p.plan = "move"
LeavesNow == \A p \in played : p.plan = "move" /\ p.node = Len(nodes) => ~active /\ hand.pc \in {"idle", "move"}
MovesOn == \E p \in played : p.node = hand.node /\ p.plan = "move"
VisitInv ==
  /\ hand.pc = "visit read" => VisitRead
  /\ hand.pc \in {"visit write", "minimal"} => VisitSeen
  /\ hand.pc \in {"leave", "insert", "save", "move", "end", "save enter"} /\ Leaves => VisitTold
  /\ hand.pc = "move" => MovesOn
  /\ MovesTold /\ EndTold /\ NodesLeft /\ LeavesNow

\* Without a restart each of them once.
LinesApart == \A j, k \in DOMAIN summary : summary[j].node = summary[k].node => j = k
LinesKnown == \A k \in DOMAIN summary : summary[k].node \in DOMAIN nodes
LineNow ==
  \A k \in DOMAIN summary : summary[k].node = Len(nodes) =>
    over \/ (hand.pc \in {"leave", "insert", "save", "move", "end"} /\ hand.plan # "act")
LineInv == restarts = 0 => LinesApart /\ LinesKnown /\ LineNow

\* What was told about turns: a writer whose column nobody else wrote since it
\* read has read what is there.
MemoryTold == {e \in told : e[1] # "thread"} = memory
TasksHear == \A t \in TurnNos : task[t].pc \in {"know write", "facts write"} => task[t].seen = memory
HeardInv ==
  RunRow \notin overlapped =>
    /\ MemoryTold /\ TasksHear
    /\ hand.pc \in {"hear write", "visit write"} => hand.seen.memory = memory

TasksPlaced ==
  \A t \in TurnNos :
    /\ <<"thread", t>> \in told => task[t].pc # "none"
    /\ task[t].pc # "none" => task[t].node \in DOMAIN nodes
RowsPlaced == \A i \in DOMAIN rows : rows[i].node \in DOMAIN nodes

HasThread(rs, n, t) == \E i \in DOMAIN rs : rs[i].node = n /\ t \in rs[i].thread
ThreadsSeen ==
  \A t \in TurnNos :
    task[t].pc = "thread write" /\ task[t].seen.row # 0 /\ task[t].node \notin overlapped =>
      task[t].seen.thread = rows[task[t].seen.row].thread
ThreadsTold ==
  \A n \in DOMAIN nodes : n \notin overlapped =>
    \A t \in TurnNos : <<"thread", t>> \in told /\ task[t].node = n <=> HasThread(rows, n, t)
ToldInv == HeardInv /\ TasksPlaced /\ RowsPlaced /\ ThreadsSeen /\ ThreadsTold

MemoryInv == MemoryTypeOK /\ NumberInv /\ PathInv /\ RunInv /\ RowInv /\ VisitInv /\ LineInv /\ ToldInv

-----------------------------------------------------------------------------

(* The steps of the handler.                                               *)

HandIs ==
  hand \in [pc : HandLabels, plan : Plans, next : {None, "HUB", "LOCATION"}, adopt : BOOLEAN,
            turn : TurnNos, node : DOMAIN nodes, base : RunStates, visits : SUBSET Nat, seen : {hand.seen}]

\* The handler moves on with the turn it has.
Moves(pc, seen, visits) ==
  hand' = [pc |-> pc, plan |-> hand.plan, next |-> hand.next, adopt |-> hand.adopt, turn |-> hand.turn,
           node |-> hand.node, base |-> hand.base, visits |-> visits, seen |-> seen]

(* With a label of a turn the handler has one,                             *)
LEMMA HandHere ==
  ASSUME MemoryTypeOK, hand.pc \in HandLabels
  PROVE  hand # Idle /\ HandIs /\ hand.seen \in HandSeen(hand.pc)
<1>1. hand # Idle
  <2>1. Idle.pc = "idle" /\ "idle" \notin HandLabels
    BY DEF Idle, HandLabels
  <2> QED BY ONLY <2>1, hand.pc \in HandLabels
<1> QED BY <1>1 DEF MemoryTypeOK, HandIs

(* and without one it is idle.                                             *)
LEMMA HandAway ==
  ASSUME MemoryTypeOK
  PROVE  hand.pc \in HandLabels \union {"idle"} /\ (hand = Idle <=> hand.pc = "idle")
<1>1. hand = Idle \/ hand.pc \in HandLabels
  BY DEF MemoryTypeOK
<1>2. "idle" \notin HandLabels /\ Idle.pc = "idle"
  BY DEF HandLabels, Idle
<1> QED BY <1>1, <1>2

(* Goto keeps the turn.                                                    *)
LEMMA GotoIs ==
  ASSUME MemoryTypeOK, hand.pc \in HandLabels, NEW pc, NEW seen, Goto(pc, seen)
  PROVE  Moves(pc, seen, hand.visits)
<1>1. HandIs
  BY HandHere
<1> QED BY <1>1 DEF HandIs, Moves, Goto

\* The steps before the visit is told: rows, memory and what was told change.
EarlyStep ==
  /\ hand.pc \in Early /\ hand'.pc \in Early \union {"insert"}
  /\ Moves(hand'.pc, hand'.seen, hand.visits)
  /\ hand.plan # "move" \/ (hand.pc \in Reading /\ hand'.pc \in Reading)
  /\ hand'.pc \in Reading => hand.pc \in Reading \/ hand.plan = "end"
  /\ hand'.pc = "insert" => hand.plan = "act"
  /\ hand'.pc \in {"hear", "hear write", "store"} => hand.pc \in {"collect", "hear", "hear write", "store"}
  /\ UNCHANGED <<run, cur, nodes, active, over, summary, task, answers, restarts, played, adopted>>

(* The steps before the visit is told keep it, with a label of their path. *)
LEMMA EarlyIs ==
  ASSUME MemoryTypeOK, PathInv, Collect \/ Hear \/ WriteHeard \/ Store \/ ReadVisit \/ ReadMemory
  PROVE  EarlyStep
<1> USE DEF stores, place, history, Early, Reading, HandLabels
<1>0. hand.pc \in HandLabels /\ hand # Idle /\ HandIs
  <2>1. hand.pc \in HandLabels
    BY DEF Collect, Hear, WriteHeard, Store, ReadVisit, ReadMemory
  <2> QED BY <2>1, HandHere
<1>p. /\ hand.pc \in {"collect", "hear", "hear write", "store"} => hand.plan # "move"
      /\ hand.plan \in {"act", "move", "end"}
  BY <1>0 DEF PathInv, HandIs, Plans
<1>1. CASE Collect
  <2>1. PICK i \in FirstRow(hand.node) :
          hand' = [hand EXCEPT !.pc = "hear",
                     !.seen = [row |-> i, acts |-> IF i = 0 THEN {} ELSE rows[i].acts, memory |-> {}]]
    BY <1>1 DEF Collect
  <2>2. PICK read : hand' = [hand EXCEPT !.pc = "hear", !.seen = read]
    BY <2>1
  <2>3. Moves("hear", read, hand.visits)
    BY <2>2, <1>0 DEF HandIs, Moves
  <2>4. hand'.pc = "hear" /\ hand'.seen = read
    BY <2>3 DEF Moves
  <2> QED BY <1>1, <1>p, <2>3, <2>4 DEF Collect, EarlyStep
<1>2. CASE Hear
  <2>0. PICK pc \in {"store", "hear write"} : \E read : Goto(pc, read)
    BY <1>2 DEF Hear
  <2>1. PICK read : Goto(pc, read)
    BY <2>0
  <2>2. Moves(pc, read, hand.visits)
    BY <2>1, <1>0, GotoIs
  <2>3. hand'.pc = pc /\ hand'.seen = read
    BY <2>2 DEF Moves
  <2> QED BY <1>2, <1>p, <2>2, <2>3 DEF Hear, EarlyStep
<1>3. CASE WriteHeard
  <2>1. Goto("store", hand.seen) /\ hand.pc = "hear write"
    BY <1>3 DEF WriteHeard
  <2>2. Moves("store", hand.seen, hand.visits)
    BY <2>1, <1>0, GotoIs
  <2>3. hand'.pc = "store" /\ hand'.seen = hand.seen
    BY <2>2 DEF Moves
  <2> QED BY <1>3, <1>p, <2>1, <2>2, <2>3 DEF WriteHeard, EarlyStep
<1>4. CASE Store
  <2>1. PICK pc \in {"visit", "insert"} : Goto(pc, None) /\ (pc = "visit" <=> hand.plan = "end")
    BY <1>4 DEF Store
  <2>2. Moves(pc, None, hand.visits)
    BY <2>1, <1>0, GotoIs
  <2>3. hand'.pc = pc /\ hand'.seen = None
    BY <2>2 DEF Moves
  <2> QED BY <1>4, <1>p, <2>1, <2>2, <2>3 DEF Store, EarlyStep
<1>5. CASE ReadVisit
  <2>1. PICK read : Goto("visit read", read)
    BY <1>5 DEF ReadVisit
  <2>2. Moves("visit read", read, hand.visits)
    BY <2>1, <1>0, GotoIs
  <2>3. hand'.pc = "visit read" /\ hand'.seen = read
    BY <2>2 DEF Moves
  <2> QED BY <1>5, <1>p, <2>2, <2>3 DEF ReadVisit, EarlyStep
<1>6. CASE ReadMemory
  <2>0. PICK pc \in {"minimal", "visit write"} : \E read : Goto(pc, read)
    BY <1>6 DEF ReadMemory
  <2>1. PICK read : Goto(pc, read)
    BY <2>0
  <2>2. Moves(pc, read, hand.visits)
    BY <2>1, <1>0, GotoIs
  <2>3. hand'.pc = pc /\ hand'.seen = read
    BY <2>2 DEF Moves
  <2> QED BY <1>6, <1>p, <2>2, <2>3 DEF ReadMemory, EarlyStep
<1> QED BY <1>1, <1>2, <1>3, <1>4, <1>5, <1>6

(* A submission takes the next number at the last node.                    *)
LEMMA SubmitIs ==
  ASSUME MemoryTypeOK, NEW plan \in Plans, NEW next \in {None, "HUB", "LOCATION"}, NEW adopt \in BOOLEAN,
         Submit(plan, next, adopt)
  PROVE  /\ hand' = [pc |-> hand'.pc, plan |-> plan, next |-> next, adopt |-> adopt, turn |-> cur + 1,
                     node |-> Len(nodes), base |-> run, visits |-> run.visits, seen |-> None]
         /\ hand'.pc \in {"collect", "leave", "visit"}
         /\ hand'.pc = "collect" <=> plan # "move"
         /\ hand'.pc = "leave" <=> plan = "move" /\ nodes[Len(nodes)] = "HUB"
         /\ hand = Idle /\ active /\ ~over /\ cur + 1 \in TurnNos
         /\ plan = "move" => cur + 2 \in TurnNos /\ next \in {"HUB", "LOCATION"}
         /\ plan # "move" => nodes[Len(nodes)] = "LOCATION"
         /\ adopt => plan # "move" /\ run.beats \in TurnNos
         /\ UNCHANGED <<run, rows, memory, summary, cur, nodes, active, over, task, answers, restarts,
                        played, adopted, told, overlapped>>
<1> DEFINE pc == IF plan # "move" THEN "collect" ELSE IF nodes[Len(nodes)] = "HUB" THEN "leave" ELSE "visit"
<1>1. hand' = [pc |-> pc, plan |-> plan, next |-> next, adopt |-> adopt, turn |-> cur + 1,
               node |-> Len(nodes), base |-> run, visits |-> run.visits, seen |-> None]
  BY DEF Submit
<1>2. hand'.pc = pc
  BY <1>1
<1>3. cur \in 1..MaxTurns /\ restarts \in Nat /\ MaxTurns \in Nat /\ run.beats \in TurnNos \union {0}
  BY MemoryAssumption DEF MemoryTypeOK, TurnNos, RunStates, NoBeats
<1>4. cur + (IF plan = "move" THEN 2 ELSE 1) + restarts \in 1..MaxTurns
  BY DEF Submit, TurnNos
<1>5. cur + 1 \in 1..MaxTurns /\ (plan = "move" => cur + 2 \in 1..MaxTurns)
  <2>1. CASE plan = "move"
    BY <2>1, <1>3, <1>4
  <2>2. CASE plan # "move"
    BY <2>2, <1>3, <1>4
  <2> QED BY <2>1, <2>2
<1>6. adopt => plan # "move" /\ run.beats \in TurnNos
  BY <1>3 DEF Submit, Fresh, NoBeats
<1>7. Len(nodes) \in 1..Len(nodes) /\ nodes[Len(nodes)] \in {"HUB", "LOCATION"}
  BY DEF MemoryTypeOK
<1>8. nodes[Len(nodes)] = "HUB" => next = "LOCATION"
  BY DEF Submit
<1>9. plan = "move" <=> next # None
  BY DEF Submit
<1>10. plan # "move" => nodes[Len(nodes)] = "LOCATION"
  BY <1>7, <1>8, <1>9 DEF None
<1>11. UNCHANGED <<run, rows, memory, summary, cur, nodes, active, over, task, answers, restarts,
                        played, adopted, told, overlapped>>
       /\ hand = Idle /\ active /\ ~over
  BY DEF Submit, stores, place, history
<1>12. hand'.pc \in {"collect", "leave", "visit"} /\ (hand'.pc = "collect" <=> plan # "move")
       /\ (hand'.pc = "leave" <=> plan = "move" /\ nodes[Len(nodes)] = "HUB")
  BY <1>2
<1> HIDE DEF pc
<1> QED BY <1>1, <1>2, <1>5, <1>6, <1>9, <1>10, <1>11, <1>12 DEF TurnNos

(* The visit is told, and counted by the handler;                          *)
LEMMA WriteVisitIs ==
  ASSUME MemoryTypeOK, WriteVisit
  PROVE  /\ hand.pc \in {"visit write", "minimal"} /\ HandIs
         /\ Moves(IF hand.plan = "move" THEN "leave" ELSE "insert", None, hand.visits \union {hand.node})
         /\ hand.seen \in [acts : SUBSET TurnNos, memory : SUBSET Entries, summary : Seq(SummaryLines)]
<1>1. hand.pc \in {"visit write", "minimal"} /\ hand.pc \in HandLabels
  BY DEF WriteVisit, HandLabels
<1>2. HandIs /\ hand.seen \in HandSeen(hand.pc)
  BY <1>1, HandHere
<1>3. hand.seen \in [acts : SUBSET TurnNos, memory : SUBSET Entries, summary : Seq(SummaryLines)]
  BY <1>1, <1>2 DEF HandSeen
<1>4. hand' = [hand EXCEPT !.pc = IF hand.plan = "move" THEN "leave" ELSE "insert",
                           !.visits = @ \union {hand.node}, !.seen = None]
  BY DEF WriteVisit
<1>5. Moves(IF hand.plan = "move" THEN "leave" ELSE "insert", None, hand.visits \union {hand.node})
  BY <1>2, <1>4 DEF HandIs, Moves
<1> QED BY <1>1, <1>2, <1>3, <1>5

(* the run is saved, and the turn is over unless it moves or ends the run; *)
LEMMA SavingIs ==
  ASSUME MemoryTypeOK, PathInv, Save
  PROVE  /\ hand.pc = "save" /\ HandIs
         /\ IF hand.plan = "act" THEN hand' = Idle ELSE Moves(hand.plan, None, hand.visits)
<1>1. hand.pc = "save" /\ hand.pc \in HandLabels
  BY DEF Save, HandLabels
<1> QED BY <1>1, HandHere, GotoIs DEF Save

(* the next node is entered;                                               *)
LEMMA EnteringIs ==
  ASSUME MemoryTypeOK, Enter
  PROVE  hand.pc = "move" /\ HandIs /\ Moves("save enter", None, hand.visits)
<1>1. hand.pc = "move" /\ hand.pc \in HandLabels
  BY DEF Enter, HandLabels
<1> QED BY <1>1, HandHere, GotoIs DEF Enter

(* the place is left;                                                      *)
LEMMA LeavingIs ==
  ASSUME MemoryTypeOK, Leave
  PROVE  hand.pc = "leave" /\ HandIs /\ Moves("insert", None, hand.visits)
<1>1. hand.pc = "leave" /\ hand.pc \in HandLabels
  BY DEF Leave, HandLabels
<1> QED BY <1>1, HandHere, GotoIs DEF Leave

(* the turn is inserted, or its number was taken.                          *)
LEMMA InsertingIs ==
  ASSUME MemoryTypeOK, Insert
  PROVE  /\ hand.pc = "insert" /\ HandIs
         /\ \/ /\ task[hand.turn].pc = "none"
               /\ task' = [task EXCEPT ![hand.turn] = Job("waiting", hand.node)]
               /\ Moves("save", None, hand.visits)
            \/ task[hand.turn].pc # "none" /\ hand' = Idle /\ UNCHANGED task
<1>1. hand.pc = "insert" /\ hand.pc \in HandLabels
  BY DEF Insert, HandLabels
<1> QED BY <1>1, HandHere, GotoIs DEF Insert

(* A restart: nobody works, and no turn is forgotten.                      *)
LEMMA CrashIs ==
  ASSUME MemoryTypeOK, Crash
  PROVE  /\ hand' = Idle /\ restarts' = restarts + 1 /\ restarts' \in 0..MaxRestarts
         /\ DOMAIN task' = TurnNos
         /\ \A t \in TurnNos :
              /\ task'[t] \in [pc : {"none", "waiting", "end"}, node : {task[t].node}, seen : {None}, tries : Nat]
              /\ task'[t].pc = "none" <=> task[t].pc = "none"
              /\ task[t].pc = "end" => task'[t].pc = "end"
         /\ UNCHANGED <<run, rows, memory, summary, cur, nodes, active, over, answers,
                        played, adopted, told, overlapped>>
<1>1. hand' = Idle /\ restarts' = restarts + 1 /\ restarts' \in 0..MaxRestarts
  <2>1. hand' = Idle /\ restarts' = restarts + 1 /\ restarts < MaxRestarts
    BY DEF Crash
  <2>2. restarts \in 0..MaxRestarts /\ MaxRestarts \in Nat
    BY MemoryAssumption DEF MemoryTypeOK
  <2> QED BY ONLY <2>1, <2>2
<1>2. DOMAIN task' = TurnNos
  BY DEF Crash
<1>3. ASSUME NEW t \in TurnNos
      PROVE  /\ task'[t] \in [pc : {"none", "waiting", "end"}, node : {task[t].node}, seen : {None}, tries : Nat]
             /\ task'[t].pc = "none" <=> task[t].pc = "none"
             /\ task[t].pc = "end" => task'[t].pc = "end"
  <2>1. task'[t] = IF t \notin Working THEN task[t]
                   ELSE Job(IF task[t].pc \in {"patch", "patch write", "know", "know write"}
                              THEN "waiting" ELSE "end", task[t].node)
    BY DEF Crash
  <2>2. /\ task[t] \in [pc : TaskLabels, node : Nat, seen : {task[t].seen}, tries : Nat]
        /\ task[t].seen \in TaskSeen(task[t].pc)
    BY DEF MemoryTypeOK
  <2>3. CASE task[t].pc \in {"none", "waiting", "end"}
    <3>1. task'[t] = task[t]
      BY <2>1, <2>3 DEF Working
    <3>2. task[t].seen = None
      BY <2>2, <2>3 DEF TaskSeen
    <3>3. task[t] \in [pc : {"none", "waiting", "end"}, node : {task[t].node}, seen : {None}, tries : Nat]
      BY ONLY <2>2, <2>3, <3>2
    <3> QED BY <3>1, <3>3
  <2>4. CASE task[t].pc \notin {"none", "waiting", "end"}
    <3>1. PICK pc \in {"waiting", "end"} : task'[t] = Job(pc, task[t].node)
      BY <2>1, <2>4 DEF Working
    <3> QED BY <3>1, <2>4 DEF Job
  <2> QED BY <2>3, <2>4
<1>4. UNCHANGED <<run, rows, memory, summary, cur, nodes, active, over, answers,
                  played, adopted, told, overlapped>>
  BY DEF Crash, stores, place, history
<1> QED BY <1>1, <1>2, <1>3, <1>4

-----------------------------------------------------------------------------

(* Types.                                                                  *)

RowsType == [node : Nat, acts : SUBSET TurnNos, thread : SUBSET TurnNos]

TypesOfStores ==
  /\ run \in RunStates /\ rows \in Seq(RowsType) /\ memory \in SUBSET Entries /\ summary \in Seq(SummaryLines)
TypesOfPlace ==
  /\ cur \in TurnNos /\ nodes \in Seq({"HUB", "LOCATION"}) \ {<<>>}
  /\ active \in BOOLEAN /\ over \in BOOLEAN /\ restarts \in 0..MaxRestarts
TypesOfHand == hand # Idle => HandIs /\ hand.seen \in HandSeen(hand.pc)
TypesOfTasks ==
  /\ DOMAIN task = TurnNos
  /\ \A t \in TurnNos : JobIs(t) /\ task[t].seen \in TaskSeen(task[t].pc)
TypesOfHistory ==
  /\ played \in SUBSET [turn : TurnNos, node : DOMAIN nodes, plan : Plans]
  /\ adopted \in SUBSET [turn : TurnNos, beats : TurnNos]
  /\ told \in SUBSET (Entries \union ({"thread"} \X TurnNos)) /\ overlapped \in SUBSET Nat

(* MemoryTypeOK in parts, now                                              *)
LEMMA TypesAre ==
  MemoryTypeOK <=> TypesOfStores /\ TypesOfPlace /\ TypesOfHand /\ TypesOfTasks /\ TypesOfHistory
BY DEF MemoryTypeOK, TypesOfStores, TypesOfPlace, TypesOfHand, TypesOfTasks, TypesOfHistory, HandIs, JobIs, RowsType

(* and in the next state.                                                  *)
LEMMA TypesAreNext ==
  TypesOfStores' /\ TypesOfPlace' /\ TypesOfHand' /\ TypesOfTasks' /\ TypesOfHistory' => MemoryTypeOK'
BY DEF MemoryTypeOK, TypesOfStores, TypesOfPlace, TypesOfHand, TypesOfTasks, TypesOfHistory, HandIs, JobIs, RowsType

(* A sequence with one element replaced, and                               *)
LEMMA ExceptSeq ==
  ASSUME NEW S, NEW s \in Seq(S), NEW i, NEW v \in S
  PROVE  /\ [s EXCEPT ![i] = v] \in Seq(S) /\ DOMAIN [s EXCEPT ![i] = v] = DOMAIN s
         /\ Len([s EXCEPT ![i] = v]) = Len(s)
<1> DEFINE w == [s EXCEPT ![i] = v]
<1>1. s \in [1..Len(s) -> S] /\ Len(s) \in Nat /\ DOMAIN s = 1..Len(s)
  OBVIOUS
<1>2. w \in [1..Len(s) -> S]
  BY <1>1
<1>3. DOMAIN w = 1..Len(s)
  BY <1>2
<1> HIDE DEF w
<1>4. w \in Seq(S)
  BY <1>1, <1>2
<1>5. Len(w) \in Nat /\ DOMAIN w = 1..Len(w)
  BY <1>4
<1>6. Len(w) = Len(s)
  BY <1>1, <1>3, <1>5
<1> QED BY <1>1, <1>3, <1>4, <1>6 DEF w

(* one with an element more.                                               *)
LEMMA AppendSeq ==
  ASSUME NEW S, NEW s \in Seq(S), NEW v \in S
  PROVE  /\ Append(s, v) \in Seq(S) /\ Len(Append(s, v)) = Len(s) + 1
         /\ DOMAIN Append(s, v) = DOMAIN s \union {Len(s) + 1}
         /\ \A i \in DOMAIN s : Append(s, v)[i] = s[i]
         /\ Append(s, v)[Len(s) + 1] = v
<1>1. Append(s, v) \in Seq(S) /\ Len(Append(s, v)) = Len(s) + 1 /\ Len(s) \in Nat
  OBVIOUS
<1>2. DOMAIN Append(s, v) = 1..(Len(s) + 1) /\ DOMAIN s = 1..Len(s)
  BY <1>1
<1>3. \A i \in 1..Len(s) : Append(s, v)[i] = s[i]
  OBVIOUS
<1>4. Append(s, v)[Len(s) + 1] = v
  OBVIOUS
<1>5. 1..(Len(s) + 1) = 1..Len(s) \union {Len(s) + 1}
  BY <1>1
<1> QED BY <1>1, <1>2, <1>3, <1>4, <1>5

(* What a handler that moves on holds.                                     *)
LEMMA MovedIs ==
  ASSUME HandIs, NEW pc \in HandLabels, NEW seen \in HandSeen(pc), NEW visits \in SUBSET Nat, Moves(pc, seen, visits),
         DOMAIN nodes \subseteq DOMAIN nodes'
  PROVE  /\ TypesOfHand'
         /\ hand' # Idle /\ hand'.pc = pc /\ hand'.seen = seen /\ hand'.visits = visits
         /\ hand'.plan = hand.plan /\ hand'.next = hand.next /\ hand'.adopt = hand.adopt /\ hand'.turn = hand.turn
         /\ hand'.node = hand.node /\ hand'.base = hand.base
<1>1. /\ hand'.pc = pc /\ hand'.seen = seen /\ hand'.visits = visits
      /\ hand'.plan = hand.plan /\ hand'.next = hand.next /\ hand'.adopt = hand.adopt /\ hand'.turn = hand.turn
      /\ hand'.node = hand.node /\ hand'.base = hand.base
  BY DEF Moves
<1>2. hand' # Idle
  <2>1. Idle.pc = "idle" /\ "idle" \notin HandLabels
    BY DEF Idle, HandLabels
  <2> QED BY ONLY <2>1, <1>1, pc \in HandLabels
<1>3. HandIs'
  BY DEF HandIs, Moves
<1> QED BY <1>1, <1>2, <1>3 DEF TypesOfHand

(* findFirst finds a row of the node, or there is none.                    *)
LEMMA RowsRead ==
  ASSUME MemoryTypeOK, NEW n, NEW i \in FirstRow(n)
  PROVE  /\ i \in Nat
         /\ i # 0 => i \in DOMAIN rows /\ rows[i] \in RowsType /\ rows[i].node = n
         /\ i = 0 => \A k \in DOMAIN rows : rows[k].node # n
<1>1. rows \in Seq(RowsType)
  BY TypesAre DEF TypesOfStores
<1>2. DOMAIN rows = 1..Len(rows) /\ Len(rows) \in Nat
  BY <1>1
<1> DEFINE found == {k \in 1..Len(rows) : rows[k].node = n}
<1>3. i \in IF found = {} THEN {0} ELSE found
  BY DEF FirstRow
<1> QED BY <1>1, <1>2, <1>3

(* structuredMemory with one entry more is one.                            *)
LEMMA RememberTypes ==
  ASSUME MemoryTypeOK, NEW p \in Nat, NEW seen \in SUBSET Entries, NEW entry \in Entries, Remember(p, seen, entry)
  PROVE  memory' \in SUBSET Entries /\ told' \in SUBSET (Entries \union ({"thread"} \X TurnNos)) /\ overlapped' \in SUBSET Nat
<1>1. overlapped' \in {overlapped, overlapped \union {RunRow}}
  BY DEF Remember
<1>2. RunRow \in Nat
  BY DEF RunRow
<1>3. told \in SUBSET (Entries \union ({"thread"} \X TurnNos)) /\ overlapped \in SUBSET Nat
  BY TypesAre DEF TypesOfHistory
<1>4. memory' = seen \union {entry} /\ told' = told \union {entry}
  BY DEF Remember
<1> QED BY ONLY <1>1, <1>2, <1>3, <1>4, seen \in SUBSET Entries, entry \in Entries

(* The worker keeps the types.                                             *)
LEMMA WorkTypes ==
  ASSUME MemoryTypeOK, RowInv, NEW t \in TurnNos, Work(t)
  PROVE  MemoryTypeOK'
<1>1. WorkFrame(t)
  BY WorkIs
<1>2. TypesOfStores /\ TypesOfPlace /\ TypesOfHand /\ TypesOfTasks /\ TypesOfHistory
  BY TypesAre
<1>3. TypesOfPlace' /\ TypesOfHand'
  BY <1>1, <1>2 DEF WorkFrame, TypesOfPlace, TypesOfHand, HandIs
<1>4. /\ DOMAIN task' = TurnNos
      /\ \A u \in TurnNos : u # t => JobIs(u)' /\ task'[u].seen \in TaskSeen(task'[u].pc)
      /\ JobIs(t)'
  <2>1. DOMAIN task' = TurnNos /\ \A u \in TurnNos : u # t => JobIs(u)' /\ task'[u].seen \in TaskSeen(task'[u].pc)
    BY <1>1, <1>2 DEF WorkFrame, TypesOfTasks, JobIs
  <2>2. task[t].node \in Nat
    BY <1>2 DEF TypesOfTasks, JobIs
  <2>3. JobIs(t)'
    BY <1>1, <2>2 DEF WorkFrame, JobIs
  <2> QED BY <2>1, <2>3
<1>5. ASSUME task'[t].seen \in TaskSeen(task'[t].pc) PROVE TypesOfTasks'
  BY <1>4, <1>5 DEF TypesOfTasks
<1>6. Rests(t) => TypesOfTasks'
  <2>1. Rests(t) => None \in TaskSeen(task'[t].pc)
    BY DEF Rests, Plain, TaskSeen
  <2> QED BY <2>1, <1>5 DEF Rests
<1>7. CASE Reads(t)
  <2>1. TypesOfStores' /\ TypesOfHistory'
    BY <1>1, <1>2, <1>7 DEF WorkFrame, Reads, TypesOfStores, TypesOfHistory
  <2>2. CASE Rests(t)
    BY <2>1, <2>2, <1>6, <1>3, TypesAreNext
  <2>3. CASE task'[t].pc \in {"patch write", "beats write"} /\ task'[t].seen = run
    <3>1. task'[t].seen \in TaskSeen(task'[t].pc)
      BY <2>3, <1>2 DEF TypesOfStores, TaskSeen
    <3> QED BY <3>1, <2>1, <1>5, <1>3, TypesAreNext
  <2>4. CASE task'[t].pc \in {"know write", "facts write"} /\ task'[t].seen = memory
    <3>1. task'[t].seen \in TaskSeen(task'[t].pc)
      BY <2>4, <1>2 DEF TypesOfStores, TaskSeen
    <3> QED BY <3>1, <2>1, <1>5, <1>3, TypesAreNext
  <2>5. CASE /\ task'[t].pc = "thread write"
             /\ \E i \in FirstRow(task[t].node) :
                  task'[t].seen = IF i = 0 THEN [row |-> 0, acts |-> {}, thread |-> {}]
                             ELSE [row |-> i, acts |-> rows[i].acts, thread |-> rows[i].thread]
    <3>1. PICK i \in FirstRow(task[t].node) :
                  task'[t].seen = IF i = 0 THEN [row |-> 0, acts |-> {}, thread |-> {}]
                             ELSE [row |-> i, acts |-> rows[i].acts, thread |-> rows[i].thread]
      BY <2>5
    <3>2. i \in Nat /\ (i # 0 => rows[i] \in RowsType)
      BY RowsRead
    <3>3. task'[t].seen \in [row : Nat, acts : SUBSET TurnNos, thread : SUBSET TurnNos]
      <4>1. CASE i = 0
        BY <3>1, <4>1
      <4>2. CASE i # 0
        BY <3>1, <3>2, <4>2 DEF RowsType
      <4> QED BY <4>1, <4>2
    <3>4. task'[t].seen \in TaskSeen(task'[t].pc)
      BY <2>5, <3>3 DEF TaskSeen
    <3> QED BY <3>4, <2>1, <1>5, <1>3, TypesAreNext
  <2> QED BY <1>7, <2>2, <2>3, <2>4, <2>5 DEF Reads
<1>8. CASE PatchesRun(t)
  <2>1. TypesOfHistory'
    BY <1>1, <1>2, <1>8 DEF WorkFrame, PatchesRun, TypesOfHistory
  <2>2. run' \in RunStates
    BY <1>2, <1>8 DEF PatchesRun, TypesOfStores, RunStates
  <2>3. TypesOfStores'
    BY <1>1, <1>2, <1>8, <2>2 DEF WorkFrame, PatchesRun, TypesOfStores
  <2> QED BY <2>1, <2>3, <1>3, <1>6, <1>8, TypesAreNext DEF PatchesRun
<1>9. CASE TellsFacts(t)
  <2>1. PICK s \in {"know", "facts"} : Remember(t, task[t].seen, <<s, t>>)
    BY <1>9 DEF TellsFacts
  <2>2. task[t].seen \in SUBSET Entries
    BY <1>2, <1>9 DEF TellsFacts, TypesOfTasks, TaskSeen
  <2>3. t \in Nat
    BY MemoryAssumption DEF TurnNos
  <2>4. <<s, t>> \in Entries
    BY <2>3 DEF Entries
  <2>5. memory' \in SUBSET Entries /\ told' \in SUBSET (Entries \union ({"thread"} \X TurnNos)) /\ overlapped' \in SUBSET Nat
    BY <2>1, <2>2, <2>3, <2>4, RememberTypes
  <2>6. TypesOfStores' /\ TypesOfHistory'
    BY <1>1, <1>2, <1>9, <2>5 DEF WorkFrame, TellsFacts, TypesOfStores, TypesOfHistory
  <2> QED BY <2>6, <1>3, <1>6, <1>9, TypesAreNext DEF TellsFacts
<1>10. CASE TellsThread(t)
  <2>1. task[t].seen \in [row : Nat, acts : SUBSET TurnNos, thread : SUBSET TurnNos] /\ task[t].node \in Nat
    BY <1>2, <1>10 DEF TellsThread, TypesOfTasks, TaskSeen, JobIs
  <2>2. WithThread(t) \in RowsType
    BY <2>1 DEF WithThread, RowsType
  <2>3. rows' \in Seq(RowsType)
    <3>1. CASE task[t].seen.row = 0
      <4>1. rows' = Append(rows, WithThread(t))
        BY <1>10, <3>1 DEF TellsThread
      <4> QED BY <4>1, <2>2, <1>2, AppendSeq DEF TypesOfStores
    <3>2. CASE task[t].seen.row # 0
      <4>1. task[t].seen.row \in DOMAIN rows
        BY <1>10, <3>2 DEF TellsThread, RowInv, ThreadRows
      <4>2. rows[task[t].seen.row] \in RowsType
        BY <4>1, <1>2 DEF TypesOfStores
      <4>3. WrittenThread(t) \in RowsType
        BY <2>1, <4>2 DEF WrittenThread, WithThread, RowsType
      <4>4. rows' = [rows EXCEPT ![task[t].seen.row] = WrittenThread(t)]
        BY <1>10, <3>2 DEF TellsThread
      <4> QED BY <4>3, <4>4, <1>2, ExceptSeq DEF TypesOfStores
    <3> QED BY <3>1, <3>2
  <2>4. TypesOfStores'
    BY <1>1, <1>2, <1>10, <2>3 DEF WorkFrame, TellsThread, TypesOfStores
  <2>5. <<"thread", t>> \in {"thread"} \X TurnNos
    OBVIOUS
  <2>6. told' = told \union {<<"thread", t>>} /\ overlapped' \in {overlapped, overlapped \union {task[t].node}}
    BY <1>10 DEF TellsThread
  <2>7. told' \in SUBSET (Entries \union ({"thread"} \X TurnNos)) /\ overlapped' \in SUBSET Nat
    BY ONLY <1>2, <2>1, <2>5, <2>6 DEF TypesOfHistory
  <2>8. TypesOfHistory'
    BY <1>1, <1>2, <2>7 DEF WorkFrame, TypesOfHistory
  <2> QED BY <2>4, <2>8, <1>3, <1>6, <1>10, TypesAreNext DEF TellsThread
<1> QED BY <1>7, <1>8, <1>9, <1>10, WorkIs

-----------------------------------------------------------------------------
(* The steps of the handler before the visit is told.                      *)

(* Each step before the visit is told: what it reads, and what it writes.  *)
LEMMA GotoDoes ==
  ASSUME MemoryTypeOK, hand.pc \in HandLabels, NEW pc, NEW seen, Goto(pc, seen)
  PROVE  hand'.pc = pc /\ hand'.seen = seen
BY GotoIs DEF Moves

HandRest == UNCHANGED <<memory, told, overlapped>>

LEMMA CollectDoes ==
  ASSUME MemoryTypeOK, Collect
  PROVE  /\ hand.pc = "collect" /\ hand'.pc = "hear" /\ HandRest /\ UNCHANGED rows
         /\ \E i \in FirstRow(hand.node) :
              hand'.seen = [row |-> i, acts |-> IF i = 0 THEN {} ELSE rows[i].acts, memory |-> {}]
<1>1. hand.pc = "collect" /\ HandRest /\ UNCHANGED rows
  BY DEF Collect, HandRest, stores, history
<1>2. HandIs
  BY <1>1, HandHere DEF HandLabels
<1>3. PICK i \in FirstRow(hand.node) :
        hand' = [hand EXCEPT !.pc = "hear",
                   !.seen = [row |-> i, acts |-> IF i = 0 THEN {} ELSE rows[i].acts, memory |-> {}]]
  BY DEF Collect
<1> DEFINE read == [row |-> i, acts |-> IF i = 0 THEN {} ELSE rows[i].acts, memory |-> {}]
<1>4. hand'.pc = "hear" /\ hand'.seen = read
  <2> HIDE DEF read
  <2>1. hand' = [hand EXCEPT !.pc = "hear", !.seen = read]
    BY <1>3 DEF read
  <2> QED BY <2>1, <1>2 DEF HandIs
<1> QED BY <1>1, <1>4

LEMMA HearDoes ==
  ASSUME MemoryTypeOK, Hear
  PROVE  /\ hand.pc = "hear" /\ HandRest /\ UNCHANGED rows
         /\ \/ hand'.pc = "store" /\ hand'.seen = hand.seen
            \/ hand'.pc = "hear write" /\ hand'.seen = [hand.seen EXCEPT !.memory = memory]
<1>1. hand.pc = "hear" /\ hand.pc \in HandLabels /\ HandRest /\ UNCHANGED rows
  BY DEF Hear, HandRest, stores, history, HandLabels
<1>2. CASE Goto("store", hand.seen)
  BY <1>1, <1>2, GotoDoes
<1>3. CASE Goto("hear write", [hand.seen EXCEPT !.memory = memory])
  <2> DEFINE read == [hand.seen EXCEPT !.memory = memory]
  <2>1. Goto("hear write", read)
    BY <1>3
  <2> HIDE DEF read
  <2>2. hand'.pc = "hear write" /\ hand'.seen = read
    BY <2>1, <1>1, GotoDoes
  <2> QED BY <2>2, <1>1 DEF read
<1> QED BY <1>2, <1>3 DEF Hear

LEMMA WriteHeardDoes ==
  ASSUME MemoryTypeOK, WriteHeard
  PROVE  /\ hand.pc = "hear write" /\ hand'.pc = "store" /\ hand'.seen = hand.seen /\ UNCHANGED rows
         /\ Remember(Handler, hand.seen.memory, <<"heard", hand.turn>>)
<1>1. hand.pc = "hear write" /\ hand.pc \in HandLabels
  BY DEF WriteHeard, HandLabels
<1>2. Goto("store", hand.seen) /\ Remember(Handler, hand.seen.memory, <<"heard", hand.turn>>) /\ UNCHANGED rows
  BY DEF WriteHeard
<1>3. hand'.pc = "store" /\ hand'.seen = hand.seen
  BY ONLY <1>1, <1>2, GotoDoes, MemoryTypeOK
<1> QED BY <1>1, <1>2, <1>3

LEMMA StoreDoes ==
  ASSUME MemoryTypeOK, Store
  PROVE  /\ hand.pc = "store" /\ HandRest /\ hand'.seen = None
         /\ hand'.pc = IF hand.plan = "end" THEN "visit" ELSE "insert"
         /\ rows' = IF hand.seen.row = 0
                      THEN Append(rows, [node |-> hand.node, acts |-> hand.seen.acts \union {hand.turn}, thread |-> {}])
                      ELSE [rows EXCEPT ![hand.seen.row].acts = hand.seen.acts \union {hand.turn}]
<1>1. hand.pc = "store" /\ hand.pc \in HandLabels /\ HandRest
  BY DEF Store, HandLabels, HandRest, history
<1> QED BY <1>1, GotoIs DEF Moves, Store

LEMMA ReadVisitDoes ==
  ASSUME MemoryTypeOK, ReadVisit
  PROVE  /\ hand.pc = "visit" /\ hand'.pc = "visit read" /\ HandRest /\ UNCHANGED rows
         /\ \E i \in FirstRow(hand.node) : hand'.seen = IF i = 0 THEN {} ELSE rows[i].acts
<1>1. hand.pc = "visit" /\ hand.pc \in HandLabels /\ HandRest /\ UNCHANGED rows
  BY DEF ReadVisit, HandLabels, HandRest, stores, history
<1>2. PICK i \in FirstRow(hand.node) : Goto("visit read", IF i = 0 THEN {} ELSE rows[i].acts)
  BY DEF ReadVisit
<1> DEFINE read == IF i = 0 THEN {} ELSE rows[i].acts
<1> HIDE DEF read
<1>3. Goto("visit read", read)
  BY <1>2 DEF read
<1>4. hand'.pc = "visit read" /\ hand'.seen = read
  BY ONLY <1>1, <1>3, GotoDoes, MemoryTypeOK
<1> QED BY <1>1, <1>2, <1>4 DEF read

LEMMA ReadMemoryDoes ==
  ASSUME MemoryTypeOK, ReadMemory
  PROVE  /\ hand.pc = "visit read" /\ HandRest /\ UNCHANGED rows
         /\ hand'.pc = IF hand.seen = {} THEN "minimal" ELSE "visit write"
         /\ hand'.seen = [acts |-> hand.seen, memory |-> memory, summary |-> summary]
<1>1. hand.pc = "visit read" /\ hand.pc \in HandLabels /\ HandRest /\ UNCHANGED rows
  BY DEF ReadMemory, HandLabels, HandRest, stores, history
<1> DEFINE read == [acts |-> hand.seen, memory |-> memory, summary |-> summary]
<1>2. Goto(IF hand.seen = {} THEN "minimal" ELSE "visit write", read)
  BY DEF ReadMemory
<1> HIDE DEF read
<1>3. hand'.pc = (IF hand.seen = {} THEN "minimal" ELSE "visit write") /\ hand'.seen = read
  BY ONLY <1>1, <1>2, GotoDoes, MemoryTypeOK
<1> QED BY <1>1, <1>3 DEF read

(* They keep the types.                                                    *)
LEMMA EarlyTypes ==
  ASSUME MemoryTypeOK, PathInv, RowInv, Collect \/ Hear \/ WriteHeard \/ Store \/ ReadVisit \/ ReadMemory
  PROVE  MemoryTypeOK'
<1>1. EarlyStep
  BY EarlyIs
<1>2. TypesOfStores /\ TypesOfPlace /\ TypesOfHand /\ TypesOfTasks /\ TypesOfHistory
  BY TypesAre
<1>3. hand.pc \in HandLabels /\ hand'.pc \in HandLabels
  BY <1>1 DEF EarlyStep, Early, HandLabels
<1>4. HandIs /\ hand.seen \in HandSeen(hand.pc)
  BY <1>3, HandHere
<1>5. TypesOfPlace' /\ TypesOfTasks'
  BY <1>1, <1>2 DEF EarlyStep, TypesOfPlace, TypesOfTasks, JobIs
<1>6. ASSUME hand'.seen \in HandSeen(hand'.pc) PROVE TypesOfHand'
  <2>1. Moves(hand'.pc, hand'.seen, hand.visits) /\ nodes' = nodes /\ hand.visits \in SUBSET Nat
    BY <1>1, <1>4 DEF EarlyStep, HandIs
  <2> QED BY <2>1, <1>3, <1>4, <1>6, MovedIs
<1>7. ASSUME HandRest PROVE TypesOfHistory'
  BY <1>1, <1>2, <1>7 DEF EarlyStep, HandRest, TypesOfHistory
<1>8. ASSUME HandRest, UNCHANGED rows PROVE TypesOfStores'
  BY <1>1, <1>2, <1>8 DEF EarlyStep, HandRest, TypesOfStores
<1>11. CASE Collect
  <2>1. PICK i \in FirstRow(hand.node) :
          hand'.seen = [row |-> i, acts |-> IF i = 0 THEN {} ELSE rows[i].acts, memory |-> {}]
    BY <1>11, CollectDoes
  <2>2. i \in Nat /\ (i # 0 => rows[i] \in RowsType)
    BY RowsRead
  <2>3. (IF i = 0 THEN {} ELSE rows[i].acts) \in SUBSET TurnNos
    BY <2>2 DEF RowsType
  <2>4. hand'.pc = "hear"
    BY <1>11, CollectDoes
  <2>5. hand'.seen \in HandSeen(hand'.pc)
    BY ONLY <2>1, <2>2, <2>3, <2>4 DEF HandSeen
  <2> QED BY <2>5, <1>5, <1>6, <1>7, <1>8, <1>11, CollectDoes, TypesAreNext
<1>12. CASE Hear
  <2>1. hand.seen \in [row : Nat, acts : SUBSET TurnNos, memory : SUBSET Entries] /\ memory \in SUBSET Entries
    BY <1>12, <1>2, <1>4, HearDoes DEF HandSeen, TypesOfStores
  <2>2. hand'.seen \in [row : Nat, acts : SUBSET TurnNos, memory : SUBSET Entries] /\ hand'.pc \in {"store", "hear write"}
    BY <2>1, <1>12, HearDoes
  <2>3. hand'.seen \in HandSeen(hand'.pc)
    BY <2>2 DEF HandSeen
  <2> QED BY <2>3, <1>5, <1>6, <1>7, <1>8, <1>12, HearDoes, TypesAreNext
<1>13. CASE WriteHeard
  <2>1. hand.seen \in [row : Nat, acts : SUBSET TurnNos, memory : SUBSET Entries]
    BY <1>13, <1>4, WriteHeardDoes DEF HandSeen
  <2>2. hand'.seen \in HandSeen(hand'.pc)
    BY <2>1, <1>13, WriteHeardDoes DEF HandSeen
  <2>3. hand.turn \in Nat
    BY <1>4, MemoryAssumption DEF HandIs, TurnNos
  <2>4. <<"heard", hand.turn>> \in Entries /\ Handler \in Nat
    BY <2>3 DEF Entries, Handler
  <2>5. memory' \in SUBSET Entries /\ told' \in SUBSET (Entries \union ({"thread"} \X TurnNos)) /\ overlapped' \in SUBSET Nat
    BY <2>1, <2>4, <1>13, WriteHeardDoes, RememberTypes
  <2>6. TypesOfStores' /\ TypesOfHistory'
    BY <2>5, <1>1, <1>2, <1>13, WriteHeardDoes DEF EarlyStep, TypesOfStores, TypesOfHistory
  <2> QED BY <2>2, <2>6, <1>5, <1>6, TypesAreNext
<1>14. CASE Store
  <2>1. hand.seen \in [row : Nat, acts : SUBSET TurnNos, memory : SUBSET Entries]
    BY <1>14, <1>4, StoreDoes DEF HandSeen
  <2>2. hand'.seen \in HandSeen(hand'.pc)
    BY <1>14, StoreDoes DEF HandSeen
  <2> DEFINE acts == hand.seen.acts \union {hand.turn}
  <2>3. acts \in SUBSET TurnNos /\ hand.node \in Nat
    BY <2>1, <1>4, <1>2 DEF HandIs, TypesOfPlace
  <2> HIDE DEF acts
  <2>4. rows' \in Seq(RowsType)
    <3>1. CASE hand.seen.row = 0
      <4>1. rows' = Append(rows, [node |-> hand.node, acts |-> acts, thread |-> {}])
        BY <1>14, <3>1, StoreDoes DEF acts
      <4>2. [node |-> hand.node, acts |-> acts, thread |-> {}] \in RowsType
        BY <2>3 DEF RowsType
      <4> QED BY <4>1, <4>2, <1>2, AppendSeq DEF TypesOfStores
    <3>2. CASE hand.seen.row # 0
      <4>1. hand.seen.row \in DOMAIN rows
        BY <1>14, <3>2, StoreDoes DEF RowInv, HeldRow
      <4>2. rows[hand.seen.row] \in RowsType
        BY <4>1, <1>2 DEF TypesOfStores
      <4>3. [rows[hand.seen.row] EXCEPT !.acts = acts] \in RowsType
        BY <2>3, <4>2 DEF RowsType
      <4>4. rows' = [rows EXCEPT ![hand.seen.row] = [rows[hand.seen.row] EXCEPT !.acts = acts]]
        BY <1>14, <3>2, StoreDoes DEF acts
      <4> QED BY <4>3, <4>4, <1>2, ExceptSeq DEF TypesOfStores
    <3> QED BY <3>1, <3>2
  <2>5. TypesOfStores'
    BY <2>4, <1>1, <1>2, <1>14, StoreDoes DEF EarlyStep, HandRest, TypesOfStores
  <2> QED BY <2>2, <2>5, <1>5, <1>6, <1>7, <1>14, StoreDoes, TypesAreNext
<1>15. CASE ReadVisit
  <2>1. PICK i \in FirstRow(hand.node) : hand'.seen = IF i = 0 THEN {} ELSE rows[i].acts
    BY <1>15, ReadVisitDoes
  <2>2. i # 0 => rows[i] \in RowsType
    BY RowsRead
  <2>3. hand'.seen \in SUBSET TurnNos
    BY <2>1, <2>2 DEF RowsType
  <2>4. hand'.seen \in HandSeen(hand'.pc)
    BY <2>3, <1>15, ReadVisitDoes DEF HandSeen
  <2> QED BY <2>4, <1>5, <1>6, <1>7, <1>8, <1>15, ReadVisitDoes, TypesAreNext
<1>16. CASE ReadMemory
  <2>1. hand.seen \in SUBSET TurnNos
    BY <1>16, <1>4, ReadMemoryDoes DEF HandSeen
  <2>2. hand'.seen \in [acts : SUBSET TurnNos, memory : SUBSET Entries, summary : Seq(SummaryLines)]
    <3>1. hand'.seen = [acts |-> hand.seen, memory |-> memory, summary |-> summary]
      BY <1>16, ReadMemoryDoes
    <3>2. memory \in SUBSET Entries /\ summary \in Seq(SummaryLines)
      BY <1>2 DEF TypesOfStores
    <3> QED BY ONLY <2>1, <3>1, <3>2
  <2>3. hand'.seen \in HandSeen(hand'.pc)
    BY <2>2, <1>16, ReadMemoryDoes DEF HandSeen
  <2> QED BY <2>3, <1>5, <1>6, <1>7, <1>8, <1>16, ReadMemoryDoes, TypesAreNext
<1> QED BY <1>11, <1>12, <1>13, <1>14, <1>15, <1>16

-----------------------------------------------------------------------------
(* The others, and the types.                                              *)

(* The node of the turn is one of the nodes.                               *)
LEMMA NodeIs ==
  ASSUME MemoryTypeOK, HandIs
  PROVE  hand.node \in Nat /\ hand.node \in 1..Len(nodes) /\ Len(nodes) \in Nat
<1>1. nodes \in Seq({"HUB", "LOCATION"}) /\ hand.node \in DOMAIN nodes
  BY DEF MemoryTypeOK, HandIs
<1>2. Len(nodes) \in Nat /\ DOMAIN nodes = 1..Len(nodes)
  BY <1>1
<1> QED BY <1>1, <1>2

(* What keeps the types of the tasks, of the handler, and the types step   *)
(* by step.                                                                *)
LEMMA TaskSame ==
  ASSUME TypesOfTasks, UNCHANGED task
  PROVE  TypesOfTasks'
BY DEF TypesOfTasks, JobIs

LEMMA SubmitTypes ==
  ASSUME MemoryTypeOK, NEW plan \in Plans, NEW next \in {None, "HUB", "LOCATION"}, NEW adopt \in BOOLEAN,
         Submit(plan, next, adopt)
  PROVE  MemoryTypeOK'
<1>2. TypesOfStores /\ TypesOfPlace /\ TypesOfHand /\ TypesOfTasks /\ TypesOfHistory
  BY TypesAre
<1>3. UNCHANGED <<run, rows, memory, summary, cur, nodes, active, over, task, answers, restarts,
                  played, adopted, told, overlapped>>
  BY SubmitIs
<1>4. TypesOfStores' /\ TypesOfPlace' /\ TypesOfHistory' /\ TypesOfTasks'
  BY <1>2, <1>3, TaskSame DEF TypesOfStores, TypesOfPlace, TypesOfHistory
<1>5. TypesOfHand'
  <2>1. hand' = [pc |-> hand'.pc, plan |-> plan, next |-> next, adopt |-> adopt, turn |-> cur + 1,
                 node |-> Len(nodes), base |-> run, visits |-> run.visits, seen |-> None]
        /\ hand'.pc \in {"collect", "leave", "visit"} /\ cur + 1 \in TurnNos
    BY SubmitIs
  <2>2. run \in RunStates /\ run.visits \in SUBSET Nat /\ Len(nodes) \in DOMAIN nodes'
    BY <1>2, <1>3 DEF TypesOfStores, TypesOfPlace, RunStates
  <2>3. hand'.pc \in HandLabels /\ None \in HandSeen(hand'.pc) /\ hand'.seen = None
    <3>0. PICK pc \in {"collect", "leave", "visit"} :
            hand' = [pc |-> pc, plan |-> plan, next |-> next, adopt |-> adopt, turn |-> cur + 1,
                     node |-> Len(nodes), base |-> run, visits |-> run.visits, seen |-> None]
      BY ONLY <2>1
    <3>1. hand'.pc \in HandLabels /\ hand'.seen = None
      BY ONLY <3>0 DEF HandLabels
    <3>2. hand'.pc \in {"collect", "leave", "visit"}
      BY <2>1
    <3> QED BY ONLY <3>1, <3>2 DEF HandSeen
  <2>4. HandIs'
    BY <2>1, <2>2, <2>3 DEF HandIs
  <2> QED BY <2>3, <2>4 DEF TypesOfHand
<1> QED BY <1>4, <1>5, TypesAreNext

LEMMA WriteVisitTypes ==
  ASSUME MemoryTypeOK, WriteVisit
  PROVE  MemoryTypeOK'
<1>1. /\ hand.pc \in {"visit write", "minimal"} /\ HandIs
      /\ Moves(IF hand.plan = "move" THEN "leave" ELSE "insert", None, hand.visits \union {hand.node})
      /\ hand.seen \in [acts : SUBSET TurnNos, memory : SUBSET Entries, summary : Seq(SummaryLines)]
  BY WriteVisitIs
<1>2. TypesOfStores /\ TypesOfPlace /\ TypesOfHand /\ TypesOfTasks /\ TypesOfHistory
  BY TypesAre
<1>3. UNCHANGED <<run, rows, cur, nodes, active, over, task, answers, restarts, played, adopted>>
  BY DEF WriteVisit, place
<1>4. TypesOfPlace' /\ TypesOfTasks'
  BY <1>2, <1>3, TaskSame DEF TypesOfPlace
<1>5. hand.node \in Nat /\ hand.visits \union {hand.node} \in SUBSET Nat
  BY <1>1, NodeIs DEF HandIs
<1>6. TypesOfHand'
  <2> DEFINE pc == IF hand.plan = "move" THEN "leave" ELSE "insert"
  <2>1. pc \in HandLabels /\ None \in HandSeen(pc)
    BY DEF HandLabels, HandSeen
  <2>2. Moves(pc, None, hand.visits \union {hand.node})
    BY <1>1
  <2> HIDE DEF pc
  <2> QED BY <1>1, <1>3, <1>5, <2>1, <2>2, MovedIs
<1>7. summary' \in Seq(SummaryLines)
  <2>1. summary' = Append(hand.seen.summary, Line)
    BY DEF WriteVisit
  <2>2. Line \in SummaryLines
    BY <1>1, <1>5 DEF Line, SummaryLines
  <2> QED BY <1>1, <2>1, <2>2, AppendSeq
<1>8. memory' \in SUBSET Entries /\ told' \in SUBSET (Entries \union ({"thread"} \X TurnNos)) /\ overlapped' \in SUBSET Nat
  <2>1. CASE hand.pc = "minimal"
    BY <1>2, <2>1 DEF WriteVisit, TypesOfStores, TypesOfHistory
  <2>2. CASE hand.pc # "minimal"
    <3>1. Remember(Handler, hand.seen.memory, <<"visit", hand.node>>)
      BY <2>2 DEF WriteVisit
    <3>2. <<"visit", hand.node>> \in Entries /\ Handler \in Nat
      BY <1>5 DEF Entries, Handler
    <3> QED BY <1>1, <3>1, <3>2, RememberTypes
  <2> QED BY <2>1, <2>2
<1>9. TypesOfStores' /\ TypesOfHistory'
  BY <1>2, <1>3, <1>7, <1>8 DEF TypesOfStores, TypesOfHistory
<1> QED BY <1>4, <1>6, <1>9, TypesAreNext

LEMMA LeaveTypes ==
  ASSUME MemoryTypeOK, Leave
  PROVE  MemoryTypeOK'
<1>1. HandIs /\ Moves("insert", None, hand.visits)
  BY LeavingIs
<1>2. TypesOfStores /\ TypesOfPlace /\ TypesOfHand /\ TypesOfTasks /\ TypesOfHistory
  BY TypesAre
<1>3. UNCHANGED <<run, rows, memory, summary, cur, nodes, over, task, restarts, played, adopted, told, overlapped>>
      /\ active' \in BOOLEAN
  BY DEF Leave, stores, history
<1>4. TypesOfStores' /\ TypesOfPlace' /\ TypesOfTasks' /\ TypesOfHistory'
  BY <1>2, <1>3, TaskSame DEF TypesOfStores, TypesOfPlace, TypesOfHistory
<1>5. TypesOfHand'
  <2>1. "insert" \in HandLabels /\ None \in HandSeen("insert") /\ hand.visits \in SUBSET Nat
    BY <1>1 DEF HandLabels, HandSeen, HandIs
  <2> QED BY <1>1, <1>3, <2>1, MovedIs
<1> QED BY <1>4, <1>5, TypesAreNext

LEMMA NoHand ==
  ASSUME hand' = Idle
  PROVE  TypesOfHand'
BY DEF TypesOfHand

LEMMA InsertTypes ==
  ASSUME MemoryTypeOK, Insert
  PROVE  MemoryTypeOK'
<1>1. HandIs
  BY InsertingIs
<1>2. TypesOfStores /\ TypesOfPlace /\ TypesOfHand /\ TypesOfTasks /\ TypesOfHistory
  BY TypesAre
<1>3. UNCHANGED <<run, rows, memory, summary, cur, nodes, active, over, restarts, played, adopted, told, overlapped>>
  BY DEF Insert, stores, place, history
<1>4. TypesOfStores' /\ TypesOfPlace' /\ TypesOfHistory'
  BY <1>2, <1>3 DEF TypesOfStores, TypesOfPlace, TypesOfHistory
<1>5. CASE /\ task' = [task EXCEPT ![hand.turn] = Job("waiting", hand.node)]
           /\ Moves("save", None, hand.visits)
  <2>1. "save" \in HandLabels /\ None \in HandSeen("save") /\ hand.visits \in SUBSET Nat /\ hand.node \in Nat
    BY <1>1, NodeIs DEF HandLabels, HandSeen, HandIs
  <2>2. TypesOfHand'
    BY <1>1, <1>3, <1>5, <2>1, MovedIs
  <2>3. TypesOfTasks'
    BY <1>2, <1>5, <2>1 DEF TypesOfTasks, JobIs, Job, TaskLabels, TaskSeen
  <2> QED BY <1>4, <2>2, <2>3, TypesAreNext
<1>6. CASE hand' = Idle /\ UNCHANGED task
  BY <1>2, <1>4, <1>6, NoHand, TaskSame, TypesAreNext
<1> QED BY <1>5, <1>6, InsertingIs

\* What a handler stores of the run.
LEMMA ResultTypes ==
  ASSUME HandIs, NEW beats \in TurnNos \union {NoBeats}
  PROVE  Result(beats) \in RunStates
BY DEF HandIs, Result, RunStates

LEMMA SaveTypes ==
  ASSUME MemoryTypeOK, PathInv, RunInv, Save
  PROVE  MemoryTypeOK' /\ run' = Result(IF hand.adopt THEN NoBeats ELSE run.beats)
<1>1. hand.pc = "save" /\ HandIs /\ hand # Idle
  BY SavingIs, HandHere DEF HandLabels
<1>2. TypesOfStores /\ TypesOfPlace /\ TypesOfHand /\ TypesOfTasks /\ TypesOfHistory
  BY TypesAre
<1>3. /\ UNCHANGED <<nodes, active, over, rows, memory, summary, task, restarts, told, overlapped>>
      /\ run' = Result(IF hand.adopt THEN NoBeats ELSE run.beats) /\ cur' = hand.turn
  BY DEF Save, MergedBeats
<1>4. run' \in RunStates
  <2>1. (IF hand.adopt THEN NoBeats ELSE run.beats) \in TurnNos \union {NoBeats}
    BY <1>2 DEF TypesOfStores, RunStates
  <2> QED BY <1>1, <1>3, <2>1, ResultTypes
<1>5. TypesOfStores' /\ TypesOfPlace' /\ TypesOfTasks'
  BY <1>1, <1>2, <1>3, <1>4, TaskSame DEF TypesOfStores, TypesOfPlace, HandIs
<1>6. TypesOfHistory'
  <2>1. [turn |-> hand.turn, node |-> hand.node, plan |-> hand.plan] \in [turn : TurnNos, node : DOMAIN nodes, plan : Plans]
    BY <1>1 DEF HandIs
  <2>2. played' = played \union {[turn |-> hand.turn, node |-> hand.node, plan |-> hand.plan]}
    BY DEF Save
  <2>3. played' \in SUBSET [turn : TurnNos, node : DOMAIN nodes', plan : Plans]
    BY ONLY <2>1, <2>2, <1>2, <1>3 DEF TypesOfHistory
  <2>4. adopted' \in SUBSET [turn : TurnNos, beats : TurnNos]
    <3>1. hand.adopt => hand.base.beats \in TurnNos
      BY <1>1 DEF RunInv, BaseInv
    <3> QED BY <1>1, <1>2, <3>1 DEF Save, TypesOfHistory, HandIs
  <2> QED BY <1>2, <1>3, <2>3, <2>4 DEF TypesOfHistory
<1>7. TypesOfHand'
  <2>1. CASE hand.plan = "act"
    BY <2>1, NoHand, SavingIs
  <2>2. CASE hand.plan # "act"
    <3>1. hand.plan \in {"move", "end"}
      BY <1>1, <2>2 DEF HandIs, Plans
    <3>2. hand.plan \in HandLabels /\ None \in HandSeen(hand.plan) /\ hand.visits \in SUBSET Nat
      BY <1>1, <3>1 DEF HandLabels, HandSeen, HandIs
    <3>3. Moves(hand.plan, None, hand.visits)
      BY <2>2, SavingIs
    <3> QED BY <1>1, <1>3, <3>2, <3>3, MovedIs
  <2> QED BY <2>1, <2>2
<1> QED BY <1>3, <1>5, <1>6, <1>7, TypesAreNext

LEMMA EndRunIs ==
  ASSUME MemoryTypeOK, EndRun
  PROVE  /\ hand.pc = "end" /\ HandIs /\ hand # Idle /\ hand' = Idle /\ over' = TRUE
         /\ UNCHANGED <<run, rows, memory, summary, cur, nodes, active, task, answers, restarts,
                        played, adopted, told, overlapped>>
         /\ MemoryTypeOK'
<1>1. hand.pc = "end" /\ HandIs /\ hand # Idle
  BY HandHere DEF EndRun, HandLabels
<1>2. hand' = Idle /\ over' = TRUE
      /\ UNCHANGED <<run, rows, memory, summary, cur, nodes, active, task, answers, restarts,
                     played, adopted, told, overlapped>>
  BY DEF EndRun, stores, history
<1>3. TypesOfStores /\ TypesOfPlace /\ TypesOfHand /\ TypesOfTasks /\ TypesOfHistory
  BY TypesAre
<1>4. TypesOfStores' /\ TypesOfPlace' /\ TypesOfHand' /\ TypesOfTasks' /\ TypesOfHistory'
  BY <1>2, <1>3, NoHand, TaskSame DEF TypesOfStores, TypesOfPlace, TypesOfHistory
<1> QED BY <1>1, <1>2, <1>4, TypesAreNext

LEMMA EnterTypes ==
  ASSUME MemoryTypeOK, PathInv, Enter
  PROVE  /\ MemoryTypeOK'
         /\ hand.turn + 1 \in TurnNos /\ Len(nodes') = Len(nodes) + 1 /\ DOMAIN nodes \subseteq DOMAIN nodes'
         /\ \A n \in DOMAIN nodes : nodes'[n] = nodes[n]
         /\ hand.node = Len(nodes)
<1>1. hand.pc = "move" /\ HandIs /\ hand # Idle /\ Moves("save enter", None, hand.visits)
  BY EnteringIs, HandHere DEF HandLabels
<1>2. TypesOfStores /\ TypesOfPlace /\ TypesOfHand /\ TypesOfTasks /\ TypesOfHistory
  BY TypesAre
<1>3. /\ UNCHANGED <<run, rows, memory, summary, cur, over, answers, restarts, played, adopted, told, overlapped>>
      /\ nodes' = Append(nodes, hand.next) /\ active' = TRUE
      /\ task' = [task EXCEPT ![hand.turn + 1] = Job("waiting", hand.node + 1)]
  BY DEF Enter, stores, history
<1>4. hand.turn + 1 \in TurnNos /\ hand.next \in {"HUB", "LOCATION"} /\ hand.node = Len(nodes)
  BY <1>1 DEF PathInv, EntryFits, AtNode
<1>5. /\ nodes' \in Seq({"HUB", "LOCATION"}) /\ Len(nodes') = Len(nodes) + 1 /\ DOMAIN nodes \subseteq DOMAIN nodes'
      /\ \A n \in DOMAIN nodes : nodes'[n] = nodes[n]
  BY <1>2, <1>3, <1>4, AppendSeq DEF TypesOfPlace
<1>6. TypesOfPlace'
  <2>1. nodes' # <<>>
    BY <1>2, <1>5 DEF TypesOfPlace
  <2> QED BY <1>2, <1>3, <1>5, <2>1 DEF TypesOfPlace
<1>7. TypesOfHand'
  <2>1. "save enter" \in HandLabels /\ None \in HandSeen("save enter") /\ hand.visits \in SUBSET Nat
    BY <1>1 DEF HandLabels, HandSeen, HandIs
  <2> QED BY <1>1, <1>5, <2>1, MovedIs
<1>8. TypesOfTasks'
  <2>1. hand.node + 1 \in Nat
    BY <1>2, <1>4 DEF TypesOfPlace
  <2> QED BY <1>2, <1>3, <1>4, <2>1 DEF TypesOfTasks, JobIs, Job, TaskLabels, TaskSeen
<1>9. TypesOfStores' /\ TypesOfHistory'
  BY <1>2, <1>3, <1>5 DEF TypesOfStores, TypesOfHistory
<1> QED BY <1>4, <1>5, <1>6, <1>7, <1>8, <1>9, TypesAreNext

LEMMA SaveEnterTypes ==
  ASSUME MemoryTypeOK, PathInv, SaveEnter
  PROVE  /\ MemoryTypeOK'
         /\ hand.pc = "save enter" /\ HandIs /\ hand # Idle /\ hand' = Idle
         /\ run' = Result(hand.base.beats) /\ cur' = hand.turn + 1
         /\ UNCHANGED <<rows, memory, summary, nodes, active, over, task, restarts, played, adopted, told, overlapped>>
<1>1. hand.pc = "save enter" /\ HandIs /\ hand # Idle
  BY HandHere DEF SaveEnter, HandLabels
<1>2. TypesOfStores /\ TypesOfPlace /\ TypesOfHand /\ TypesOfTasks /\ TypesOfHistory
  BY TypesAre
<1>3. /\ hand' = Idle /\ run' = Result(hand.base.beats) /\ cur' = hand.turn + 1
      /\ UNCHANGED <<rows, memory, summary, nodes, active, over, task, restarts, played, adopted, told, overlapped>>
  BY DEF SaveEnter, history
<1>4. cur' \in TurnNos /\ run' \in RunStates
  <2>1. hand.base.beats \in TurnNos \union {NoBeats}
    BY <1>1 DEF HandIs, RunStates
  <2>2. hand.turn + 1 \in TurnNos
    BY <1>1 DEF PathInv, EntryFits
  <2> QED BY <1>1, <1>3, <2>1, <2>2, ResultTypes
<1>5. TypesOfStores' /\ TypesOfPlace' /\ TypesOfHand' /\ TypesOfTasks' /\ TypesOfHistory'
  BY <1>2, <1>3, <1>4, NoHand, TaskSame DEF TypesOfStores, TypesOfPlace, TypesOfHistory
<1> QED BY <1>1, <1>3, <1>5, TypesAreNext

LEMMA CrashTypes ==
  ASSUME MemoryTypeOK, Crash
  PROVE  MemoryTypeOK'
<1>2. TypesOfStores /\ TypesOfPlace /\ TypesOfHand /\ TypesOfTasks /\ TypesOfHistory
  BY TypesAre
<1>3. TypesOfStores' /\ TypesOfPlace' /\ TypesOfHand' /\ TypesOfHistory'
  BY <1>2, CrashIs, NoHand DEF TypesOfStores, TypesOfPlace, TypesOfHistory
<1>4. TypesOfTasks'
  <2>1. DOMAIN task' = TurnNos
    BY CrashIs
  <2>2. ASSUME NEW t \in TurnNos PROVE JobIs(t)' /\ task'[t].seen \in TaskSeen(task'[t].pc)
    <3>1. task'[t] \in [pc : {"none", "waiting", "end"}, node : {task[t].node}, seen : {None}, tries : Nat]
      BY CrashIs
    <3>2. task[t].node \in Nat
      BY <1>2 DEF TypesOfTasks, JobIs
    <3> QED BY <3>1, <3>2 DEF JobIs, TaskLabels, TaskSeen
  <2> QED BY <2>1, <2>2 DEF TypesOfTasks
<1> QED BY <1>3, <1>4, TypesAreNext

-----------------------------------------------------------------------------

(* Numbers and paths.                                                      *)

(* The numbers that the arithmetic below is about.                         *)
LEMMA NumbersAre ==
  ASSUME MemoryTypeOK
  PROVE  /\ TurnNos \subseteq Nat /\ cur \in TurnNos /\ cur \in Nat /\ DOMAIN task = TurnNos /\ restarts \in Nat
         /\ hand.pc \in HandLabels \union {"idle"}
         /\ hand.pc # "idle" => HandIs /\ hand.turn \in TurnNos /\ hand.turn \in Nat
<1>1. TurnNos \subseteq Nat /\ cur \in TurnNos /\ cur \in Nat /\ DOMAIN task = TurnNos /\ restarts \in Nat
  BY MemoryAssumption DEF MemoryTypeOK, TurnNos
<1>2. hand.pc \in HandLabels \union {"idle"}
  BY HandAway
<1>3. hand.pc # "idle" => HandIs
  BY <1>2, HandHere
<1>4. hand.pc # "idle" => hand.turn \in TurnNos
  BY <1>3 DEF HandIs
<1> QED BY <1>1, <1>2, <1>3, <1>4

\* What the parts of the invariants say while the handler keeps its turn.
LEMMA NumbersSame ==
  ASSUME UNCHANGED <<cur, task>>
  PROVE  /\ TurnsInOrder' <=> TurnsInOrder
         /\ NoneAfterCur' <=> NoneAfterCur
         /\ hand'.turn = hand.turn => /\ NoneAfterTurn' <=> NoneAfterTurn
                                      /\ NoneAfterEntry' <=> NoneAfterEntry
                                      /\ EntryKnown' <=> EntryKnown
                                      /\ IsNext' <=> IsNext
                                      /\ EntryFits' <=> EntryFits
BY DEF TurnsInOrder, NoneAfterCur, NoneAfterTurn, NoneAfterEntry, EntryKnown, IsNext, EntryFits, Known

(* Without a turn in progress little is left to show.                      *)
LEMMA NumbersIdle ==
  ASSUME hand'.pc = "idle", TurnsInOrder', task'[cur'].pc # "none", restarts' = 0 => NoneAfterCur'
  PROVE  NumberInv' /\ PathInv'
<1>1. hand'.pc \notin Unsaved
  BY DEF Unsaved, Before, Early
<1> QED BY <1>1 DEF NumberInv, PathInv

(* Every step keeps NumberInv and PathInv.                                 *)
LEMMA NumbersWork ==
  ASSUME MemoryTypeOK, NumberInv, PathInv, NEW t \in TurnNos, Work(t)
  PROVE  NumberInv' /\ PathInv'
<1>1. WorkFrame(t)
  BY WorkIs
<1>2. \A u \in TurnNos : (task'[u].pc = "none") = (task[u].pc = "none")
  BY <1>1 DEF WorkFrame
<1>3. UNCHANGED <<cur, nodes, active, over, hand, restarts>>
  BY <1>1 DEF WorkFrame
<1>4. \A u \in TurnNos : Known(u)' = Known(u)
  BY <1>2 DEF Known
<1>5. /\ TurnsInOrder' <=> TurnsInOrder
      /\ NoneAfterCur' <=> NoneAfterCur
      /\ NoneAfterTurn' <=> NoneAfterTurn
      /\ NoneAfterEntry' <=> NoneAfterEntry
      /\ IsNext' <=> IsNext
      /\ EntryFits' <=> EntryFits
      /\ AtNode' <=> AtNode
      /\ Leaves' <=> Leaves
  BY <1>3, <1>4 DEF TurnsInOrder, NoneAfterCur, NoneAfterTurn, NoneAfterEntry, IsNext, EntryFits, AtNode, Leaves
<1>6. hand.pc = "save enter" => EntryKnown'
  <2>1. hand.pc = "save enter" => EntryFits /\ EntryKnown
    BY DEF PathInv, NumberInv
  <2> QED BY <2>1, <1>2, <1>3 DEF EntryKnown, EntryFits
<1>7. task'[cur].pc # "none" /\ (hand.pc = "save" => task'[hand.turn].pc # "none")
  BY <1>2, NumbersAre DEF NumberInv
<1>8. NumberInv'
  BY <1>3, <1>5, <1>6, <1>7 DEF NumberInv
<1>9. PathInv'
  BY <1>3, <1>5 DEF PathInv
<1> QED BY <1>8, <1>9

LEMMA NumbersEarly ==
  ASSUME MemoryTypeOK, NumberInv, PathInv, EarlyStep
  PROVE  NumberInv' /\ PathInv'
<1>1. /\ hand.pc \in Early /\ hand.pc \in Before /\ hand.pc \in Unsaved
      /\ hand'.pc \in Before /\ hand'.pc \in Unsaved
      /\ hand'.pc \notin {"save", "move", "end", "save enter", "leave", "idle"}
      /\ hand.pc \notin {"save", "move", "end", "save enter", "leave", "idle"}
  BY DEF EarlyStep, Early, Before, Unsaved
<1>2. /\ hand'.plan = hand.plan /\ hand'.next = hand.next /\ hand'.turn = hand.turn /\ hand'.node = hand.node
      /\ UNCHANGED <<cur, nodes, active, over, task, restarts>>
  <2>1. Moves(hand'.pc, hand'.seen, hand.visits) /\ UNCHANGED <<cur, nodes, active, over, task, restarts>>
    BY DEF EarlyStep
  <2>2. PICK pc, seen : Moves(pc, seen, hand.visits)
    BY <2>1
  <2> QED BY <2>1, <2>2 DEF Moves
<1>3. NumberInv'
  BY <1>1, <1>2, NumbersSame DEF NumberInv
<1>4. PathInv'
  <2>1. hand.plan \in Plans
    BY <1>1, NumbersAre DEF HandIs
  <2>2. hand'.pc \in Reading => Leaves
    BY <1>1, <2>1 DEF PathInv, EarlyStep, Leaves, Plans
  <2>3. active <=> hand'.plan # "move" \/ hand'.pc \in Reading \union {"leave", "save enter"}
    BY <1>1, <1>2, <2>1 DEF PathInv, EarlyStep
  <2>4. hand'.pc \in {"collect", "hear", "hear write", "store"} => hand'.plan # "move"
    BY <1>1, <1>2, <2>1 DEF PathInv, EarlyStep, Early, Reading
  <2>5. AtNode'
    BY <1>1, <1>2 DEF AtNode, PathInv
  <2>6. hand'.plan = "move" => EntryFits' /\ hand'.next \in {"HUB", "LOCATION"}
    BY <1>1, <1>2, NumbersSame DEF PathInv
  <2>7. hand'.plan # "move" => nodes'[hand'.node] = "LOCATION"
    BY <1>1, <1>2 DEF PathInv
  <2>8. hand'.pc \in Reading => Leaves'
    BY <1>2, <2>2 DEF Leaves
  <2> QED BY <1>1, <1>2, <2>3, <2>4, <2>5, <2>6, <2>7, <2>8 DEF PathInv
<1> QED BY <1>3, <1>4

LEMMA NumbersSubmit ==
  ASSUME MemoryTypeOK, NumberInv, NEW plan \in Plans, NEW next \in {None, "HUB", "LOCATION"}, NEW adopt \in BOOLEAN,
         Submit(plan, next, adopt)
  PROVE  NumberInv' /\ PathInv'
<1>1. /\ hand'.plan = plan /\ hand'.next = next /\ hand'.turn = cur + 1 /\ hand'.node = Len(nodes)
      /\ hand'.pc \in {"collect", "leave", "visit"} /\ hand = Idle /\ active /\ ~over
      /\ hand'.pc = "collect" <=> plan # "move"
      /\ hand'.pc = "leave" <=> plan = "move" /\ nodes[Len(nodes)] = "HUB"
      /\ UNCHANGED <<cur, nodes, active, over, task, restarts>>
  BY SubmitIs
<1>2. hand.pc = "idle"
  BY <1>1 DEF Idle
<1>m. /\ hand'.pc \in Before /\ hand'.pc \in Unsaved
      /\ hand'.pc \notin {"save", "move", "end", "save enter", "idle"}
  BY <1>1 DEF Early, Before, Unsaved
<1>3. NumberInv'
  <2>1. IsNext'
    BY <1>1 DEF IsNext
  <2> QED BY <1>1, <1>2, <1>m, <2>1, NumbersSame DEF NumberInv
<1>4. /\ plan = "move" => cur + 2 \in TurnNos /\ next \in {"HUB", "LOCATION"}
      /\ plan # "move" => nodes[Len(nodes)] = "LOCATION"
  BY SubmitIs
<1>5. cur \in Nat /\ nodes[Len(nodes)] \in {"HUB", "LOCATION"}
  BY MemoryAssumption DEF MemoryTypeOK, TurnNos
<1>6. (cur + 1) + 1 = cur + 2
  BY ONLY <1>5
<1>7. AtNode' /\ (plan = "move" => EntryFits')
  <2>1. AtNode'
    BY <1>1, <1>m DEF AtNode
  <2>2. hand'.turn + 1 = cur + 2
    BY <1>1, <1>6
  <2> QED BY <2>1, <2>2, <1>4 DEF EntryFits
<1>8. hand'.pc \in Reading => Leaves'
  BY <1>1, <1>5 DEF Reading, Leaves
<1>9. hand'.pc \in Reading <=> plan = "move" /\ nodes[Len(nodes)] # "HUB"
  BY <1>1 DEF Reading
<1>10. PathInv'
  BY <1>1, <1>4, <1>7, <1>8, <1>9 DEF PathInv
<1> QED BY <1>3, <1>10

LEMMA NumbersWriteVisit ==
  ASSUME MemoryTypeOK, NumberInv, PathInv, WriteVisit
  PROVE  NumberInv' /\ PathInv'
<1>1. /\ hand.pc \in {"visit write", "minimal"} /\ HandIs
      /\ Moves(IF hand.plan = "move" THEN "leave" ELSE "insert", None, hand.visits \union {hand.node})
  BY WriteVisitIs
<1>2. /\ hand'.pc = (IF hand.plan = "move" THEN "leave" ELSE "insert")
      /\ hand'.plan = hand.plan /\ hand'.next = hand.next /\ hand'.turn = hand.turn /\ hand'.node = hand.node
  BY <1>1 DEF Moves
<1>3. UNCHANGED <<cur, nodes, active, over, task, restarts>>
  BY DEF WriteVisit, place
<1>m. /\ hand.pc \in Before /\ hand.pc \in Unsaved /\ hand'.pc \in Before /\ hand'.pc \in Unsaved
      /\ hand'.pc \notin {"save", "move", "end", "save enter", "idle"} /\ hand.pc \in Reading /\ hand'.pc \notin Reading
      /\ hand.pc # "idle" /\ hand.pc # "save enter"
  BY <1>1, <1>2 DEF Early, Before, Unsaved, Reading
<1>5. NumberInv'
  BY <1>2, <1>3, <1>m, NumbersSame DEF NumberInv
<1>6. AtNode' /\ (hand'.plan = "move" => EntryFits')
  BY <1>2, <1>3, <1>m, NumbersSame DEF AtNode, PathInv
<1>7. PathInv'
  BY <1>2, <1>3, <1>6, <1>m DEF PathInv
<1> QED BY <1>5, <1>7

LEMMA NumbersLeave ==
  ASSUME MemoryTypeOK, NumberInv, PathInv, Leave
  PROVE  NumberInv' /\ PathInv'
<1>1. hand.pc = "leave" /\ HandIs /\ Moves("insert", None, hand.visits)
  BY LeavingIs
<1>2. /\ hand'.pc = "insert"
      /\ hand'.plan = hand.plan /\ hand'.next = hand.next /\ hand'.turn = hand.turn /\ hand'.node = hand.node
  BY <1>1 DEF Moves
<1>3. UNCHANGED <<cur, nodes, over, task, restarts>> /\ active' = FALSE
  BY DEF Leave
<1>m. /\ hand.pc \in Before /\ hand.pc \in Unsaved /\ hand'.pc \in Before /\ hand'.pc \in Unsaved
      /\ hand'.pc \notin Reading
  BY <1>1, <1>2 DEF Early, Before, Unsaved, Reading
<1>5. NumberInv'
  BY <1>1, <1>2, <1>3, <1>m, NumbersSame DEF NumberInv
<1>6. AtNode' /\ EntryFits' /\ hand.plan = "move"
  BY <1>1, <1>2, <1>3, NumbersSame DEF AtNode, PathInv
<1>7. PathInv'
  BY <1>1, <1>2, <1>3, <1>6, <1>m DEF PathInv
<1> QED BY <1>5, <1>7

(* After a restart the number may be taken; without one it is not.         *)
LEMMA NumbersInsert ==
  ASSUME MemoryTypeOK, NumberInv, PathInv, Insert
  PROVE  /\ NumberInv' /\ PathInv'
         /\ restarts = 0 => Moves("save", None, hand.visits)
<1>1. hand.pc = "insert" /\ HandIs
  BY InsertingIs
<1>2. UNCHANGED <<cur, nodes, active, over, restarts>>
  BY DEF Insert, place
<1>m. hand.pc \in Before /\ hand.pc \in Unsaved /\ "save" \in Unsaved /\ "save" \notin Before \union Reading
  BY <1>1 DEF Early, Before, Unsaved, Reading
<1>3. /\ hand.turn = cur + 1 /\ hand.turn \in TurnNos /\ hand.turn \in Nat
      /\ cur \in Nat /\ TurnNos \subseteq Nat /\ DOMAIN task = TurnNos /\ cur \in TurnNos
  BY <1>1, <1>m, NumbersAre DEF NumberInv, IsNext
<1>4. CASE /\ task[hand.turn].pc = "none"
           /\ task' = [task EXCEPT ![hand.turn] = Job("waiting", hand.node)]
           /\ Moves("save", None, hand.visits)
  <2>1. /\ hand'.pc = "save"
        /\ hand'.plan = hand.plan /\ hand'.next = hand.next /\ hand'.turn = hand.turn /\ hand'.node = hand.node
    BY <1>4 DEF Moves
  <2>4. task'[hand.turn].pc = "waiting" /\ \A u \in TurnNos : u # hand.turn => task'[u] = task[u]
    BY <1>3, <1>4 DEF Job
  <2>5. NoneAfterTurn'
    <3> SUFFICES ASSUME NEW v \in TurnNos, v > hand.turn PROVE task'[v].pc = "none"
      BY <2>1 DEF NoneAfterTurn, Known
    <3>1. task[v].pc = "none"
      BY <1>3, <1>4 DEF NumberInv, TurnsInOrder, Known
    <3>2. v # hand.turn
      BY <1>3
    <3> QED BY <3>1, <3>2, <2>4
  <2>6. TurnsInOrder'
    <3> SUFFICES ASSUME NEW v \in TurnNos, NEW u \in TurnNos, task'[v].pc = "none", v < u
                 PROVE  task'[u].pc = "none"
      BY DEF TurnsInOrder, Known
    <3>1. v # hand.turn /\ task[v].pc = "none"
      BY <2>4
    <3>2. task[u].pc = "none"
      BY <3>1 DEF NumberInv, TurnsInOrder, Known
    <3>3. ASSUME u = hand.turn PROVE FALSE
      <4>1. v <= cur /\ v \in Nat
        BY <1>3, <3>3
      <4>2. v < cur => task[cur].pc = "none"
        BY <3>1, <1>3 DEF NumberInv, TurnsInOrder, Known
      <4>3. v = cur => task[cur].pc = "none"
        BY <3>1
      <4>4. v < cur \/ v = cur
        BY <4>1, <1>3
      <4> QED BY <4>2, <4>3, <4>4 DEF NumberInv
    <3>4. u # hand.turn
      BY <3>3
    <3> QED BY <3>2, <3>4, <2>4
  <2>7. NumberInv'
    <3>1. task'[cur].pc # "none" /\ task'[hand.turn].pc # "none" /\ ~over
      <4>1. cur # hand.turn
        BY <1>3
      <4> QED BY <1>1, <1>3, <2>4, <4>1 DEF NumberInv
    <3>2. IsNext'
      BY <1>2, <1>3, <2>1 DEF IsNext
    <3> QED BY <1>2, <1>m, <2>1, <2>5, <2>6, <3>1, <3>2 DEF NumberInv
  <2>8. PathInv'
    <3>1. AtNode' /\ (hand.plan = "move" => EntryFits')
      BY <1>1, <1>2, <2>1 DEF AtNode, EntryFits, PathInv
    <3> QED BY <1>1, <1>2, <1>m, <2>1, <3>1 DEF PathInv, Reading
  <2> QED BY <2>7, <2>8, <1>4
<1>5. CASE task[hand.turn].pc # "none" /\ hand' = Idle /\ UNCHANGED task
  <2>1. restarts # 0
    <3>1. restarts = 0 => NoneAfterCur
      BY <1>m DEF NumberInv
    <3>2. hand.turn > cur
      BY <1>3
    <3> QED BY <1>3, <1>5, <3>1, <3>2 DEF NoneAfterCur, Known
  <2>2. hand'.pc = "idle"
    BY <1>5 DEF Idle
  <2>3. NumberInv' /\ PathInv'
    <3>1. TurnsInOrder' /\ task'[cur'].pc # "none"
      BY <1>2, <1>5, NumbersSame DEF NumberInv
    <3> QED BY <1>2, <2>1, <2>2, <3>1, NumbersIdle
  <2> QED BY <2>1, <2>3
<1> QED BY <1>4, <1>5, InsertingIs

LEMMA NumbersSave ==
  ASSUME MemoryTypeOK, NumberInv, PathInv, Save
  PROVE  NumberInv' /\ PathInv'
<1>1. /\ hand.pc = "save" /\ HandIs
      /\ IF hand.plan = "act" THEN hand' = Idle ELSE Moves(hand.plan, None, hand.visits)
  BY SavingIs
<1>2. UNCHANGED <<nodes, active, over, task, restarts>> /\ cur' = hand.turn
  BY DEF Save
<1>3. TurnsInOrder' /\ task'[cur'].pc # "none" /\ ~over
  BY <1>1, <1>2 DEF NumberInv, TurnsInOrder, Known
<1>4. CASE hand.plan = "act"
  <2>1. hand'.pc = "idle"
    BY <1>1, <1>4 DEF Idle
  <2>2. NoneAfterCur'
    BY <1>1, <1>2 DEF NumberInv, NoneAfterCur, NoneAfterTurn, Known
  <2> QED BY <1>3, <2>1, <2>2, NumbersIdle
<1>5. CASE hand.plan # "act"
  <2>1. /\ hand'.pc = hand.plan /\ hand.plan \in {"move", "end"}
        /\ hand'.plan = hand.plan /\ hand'.next = hand.next /\ hand'.turn = hand.turn /\ hand'.node = hand.node
    BY <1>1, <1>5 DEF Moves, HandIs, Plans
  <2>2. hand'.pc \notin Before \union {"idle"} /\ hand'.pc \notin Unsaved \union Reading
    BY <2>1 DEF Before, Early, Unsaved, Reading
  <2>3. NumberInv'
    <3>1. NoneAfterTurn'
      BY <1>1, <1>2, <2>1 DEF NumberInv, NoneAfterTurn, Known
    <3> QED BY <1>2, <1>3, <2>1, <2>2, <3>1 DEF NumberInv
  <2>4. PathInv'
    <3>1. AtNode' /\ (hand.plan = "move" => EntryFits')
      BY <1>1, <1>2, <2>1 DEF AtNode, EntryFits, PathInv
    <3> QED BY <1>1, <1>2, <2>1, <2>2, <3>1 DEF PathInv, Reading
  <2> QED BY <2>3, <2>4
<1> QED BY <1>4, <1>5

LEMMA NumbersEndRun ==
  ASSUME MemoryTypeOK, NumberInv, PathInv, EndRun
  PROVE  NumberInv' /\ PathInv'
<1>1. /\ hand.pc = "end" /\ hand # Idle /\ hand' = Idle
      /\ UNCHANGED <<cur, nodes, active, task, restarts>>
  BY EndRunIs
<1>2. hand.turn = cur /\ hand'.pc = "idle"
  BY <1>1 DEF NumberInv, Idle
<1>3. TurnsInOrder' /\ task'[cur'].pc # "none"
  BY <1>1, NumbersSame DEF NumberInv
<1>4. NoneAfterCur'
  BY <1>1, <1>2 DEF NumberInv, NoneAfterTurn, NoneAfterCur, Known
<1> QED BY <1>2, <1>3, <1>4, NumbersIdle

(* The number of the entry turn is free, also after a restart.             *)
LEMMA NumbersEnter ==
  ASSUME MemoryTypeOK, NumberInv, PathInv, Enter
  PROVE  NumberInv' /\ PathInv' /\ task[hand.turn + 1].pc = "none"
<1>1. hand.pc = "move" /\ HandIs /\ Moves("save enter", None, hand.visits)
  BY EnteringIs
<1>2. /\ hand'.pc = "save enter"
      /\ hand'.plan = hand.plan /\ hand'.next = hand.next /\ hand'.turn = hand.turn /\ hand'.node = hand.node
  BY <1>1 DEF Moves
<1>m. hand'.pc \notin Before \union {"idle"} /\ hand'.pc \notin Unsaved \union Reading
  BY <1>2 DEF Before, Early, Unsaved, Reading
<1>4. /\ UNCHANGED <<cur, over, restarts>> /\ active' = TRUE
      /\ task' = [task EXCEPT ![hand.turn + 1] = Job("waiting", hand.node + 1)]
  BY DEF Enter
<1>5. hand.turn + 1 \in TurnNos /\ Len(nodes') = Len(nodes) + 1 /\ hand.node = Len(nodes)
  BY EnterTypes
<1>6. DOMAIN task = TurnNos /\ TurnNos \subseteq Nat /\ hand.turn \in TurnNos /\ hand.turn \in Nat
        /\ cur \in TurnNos /\ cur \in Nat
  BY <1>1, NumbersAre
<1> DEFINE new == hand.turn + 1
<1>a. new = hand.turn + 1 /\ new \in TurnNos /\ new \in Nat /\ new # hand.turn
  BY <1>5, <1>6
<1>7. task'[new].pc = "waiting" /\ \A u \in TurnNos : u # new => task'[u] = task[u]
  BY <1>4, <1>5, <1>6 DEF Job
<1> HIDE DEF new
<1>8. \A u \in TurnNos : u > hand.turn => task[u].pc = "none"
  BY <1>1 DEF NumberInv, NoneAfterTurn, Known
<1>9. NoneAfterEntry'
  <2> SUFFICES ASSUME NEW u \in TurnNos, u > new PROVE task'[u].pc = "none"
    BY <1>2, <1>a DEF NoneAfterEntry, Known
  <2>1. u > hand.turn /\ u # new
    BY <1>6, <1>a
  <2> QED BY <2>1, <1>7, <1>8
<1>10. TurnsInOrder'
  <2> SUFFICES ASSUME NEW v \in TurnNos, NEW u \in TurnNos, task'[v].pc = "none", v < u
               PROVE  task'[u].pc = "none"
    BY DEF TurnsInOrder, Known
  <2>1. v # new /\ task[v].pc = "none"
    BY <1>7
  <2>2. task[u].pc = "none"
    BY <2>1 DEF NumberInv, TurnsInOrder, Known
  <2>3. ASSUME u = new PROVE FALSE
    <3>1. v < hand.turn \/ v = hand.turn
      BY <2>3, <1>6, <1>a
    <3>3. task[hand.turn].pc # "none"
      BY <1>1 DEF NumberInv
    <3>4. v < hand.turn => task[hand.turn].pc = "none"
      BY <1>6, <2>1 DEF NumberInv, TurnsInOrder, Known
    <3> QED BY <3>1, <3>3, <3>4, <2>1
  <2> QED BY <2>2, <2>3, <1>7
<1>11. NumberInv'
  <2>1. hand'.turn = cur' /\ ~over'
    BY <1>1, <1>2, <1>4 DEF NumberInv
  <2>2. task'[cur'].pc # "none"
    <3>1. cur # new /\ task[cur].pc # "none"
      BY <1>1, <1>a DEF NumberInv
    <3> QED BY <3>1, <1>4, <1>6, <1>7
  <2>3. EntryKnown'
    BY <1>2, <1>7, <1>a DEF EntryKnown
  <2> QED BY <1>2, <1>m, <1>9, <1>10, <2>1, <2>2, <2>3 DEF NumberInv
<1>12. PathInv'
  <2>2. Len(nodes) \in Nat
    BY <1>1, NodeIs
  <2>3. hand.plan = "move" /\ hand.next \in {"HUB", "LOCATION"}
    BY <1>1 DEF PathInv
  <2>4. hand'.node = Len(nodes') - 1
    <3>1. (Len(nodes) + 1) - 1 = Len(nodes)
      BY ONLY <2>2
    <3> QED BY <3>1, <1>2, <1>5
  <2>5. AtNode' /\ EntryFits'
    BY <1>2, <1>5, <2>4 DEF AtNode, EntryFits
  <2> QED BY <1>2, <1>4, <1>m, <2>3, <2>5 DEF PathInv
<1>13. task[hand.turn + 1].pc = "none"
  <2>1. hand.turn + 1 > hand.turn
    BY <1>6
  <2> QED BY <1>5, <1>8, <2>1
<1> QED BY <1>11, <1>12, <1>13

LEMMA NumbersSaveEnter ==
  ASSUME MemoryTypeOK, NumberInv, PathInv, SaveEnter
  PROVE  NumberInv' /\ PathInv'
<1>1. /\ hand.pc = "save enter" /\ hand # Idle /\ hand' = Idle /\ cur' = hand.turn + 1
      /\ UNCHANGED <<nodes, active, over, task, restarts>>
  BY SaveEnterTypes
<1>2. hand'.pc = "idle"
  BY <1>1 DEF Idle
<1>3. TurnsInOrder' /\ task'[cur'].pc # "none"
  BY <1>1 DEF NumberInv, TurnsInOrder, EntryKnown, Known
<1>4. NoneAfterCur'
  BY <1>1 DEF NumberInv, NoneAfterEntry, NoneAfterCur, Known
<1> QED BY <1>2, <1>3, <1>4, NumbersIdle

LEMMA NumbersCrash ==
  ASSUME MemoryTypeOK, NumberInv, PathInv, Crash
  PROVE  NumberInv' /\ PathInv'
<1>1. /\ hand' = Idle /\ restarts' = restarts + 1
      /\ \A t \in TurnNos : (task'[t].pc = "none") = (task[t].pc = "none")
      /\ UNCHANGED <<cur, nodes, active, over>>
  BY CrashIs
<1>2. hand'.pc = "idle" /\ cur \in TurnNos /\ restarts \in Nat
  BY <1>1, NumbersAre DEF Idle
<1>3. restarts' # 0
  BY <1>1, <1>2
<1>4. TurnsInOrder' /\ task'[cur'].pc # "none"
  BY <1>1, <1>2 DEF NumberInv, TurnsInOrder, Known
<1> QED BY <1>2, <1>3, <1>4, NumbersIdle

-----------------------------------------------------------------------------

(* The run state.                                                          *)

\* A task that ended stays so.
EndsStay == \A t \in TurnNos : task[t].pc = "end" => task'[t].pc = "end"

\* The handler goes on with its turn.
HandKeeps ==
  /\ hand.pc # "idle" /\ hand'.pc # "idle"
  /\ hand'.adopt = hand.adopt /\ hand'.plan = hand.plan /\ hand'.base = hand.base /\ hand'.turn = hand.turn
  /\ hand.visits \subseteq hand'.visits /\ (hand.pc \notin Unsaved => hand'.visits = hand.visits)
  /\ hand'.pc \in Unsaved <=> hand.pc \in Unsaved
  /\ hand'.pc = "end" <=> hand.pc = "end"

(* Beats of a turn that was processed stay those of one.                   *)
LEMMA SpentStays ==
  ASSUME EndsStay, NEW b, Spent(b)
  PROVE  b \in TurnNos => task'[b].pc = "end"
BY DEF EndsStay, Spent

(* A step that leaves done and visits, and brings no beats that were used. *)
LEMMA RunFrame ==
  ASSUME MemoryTypeOK, RunInv, EndsStay, UNCHANGED <<adopted, played>>,
         run'.done = run.done, run'.visits = run.visits,
         run'.beats = run.beats \/ ((run'.beats \in TurnNos => task'[run'.beats].pc = "end") /\ run'.beats \notin Used),
         hand'.pc = "idle" \/ HandKeeps
  PROVE  RunInv'
<1>1. Used' = Used
  BY DEF Used
<1>2. BeatsInv'
  <2>1. \A a \in adopted : Spent(a.beats)'
    <3> SUFFICES ASSUME NEW a \in adopted PROVE Spent(a.beats)'
      OBVIOUS
    <3>1. Spent(a.beats)
      BY DEF RunInv, BeatsInv
    <3> QED BY <3>1, SpentStays DEF Spent
  <2>2. run'.beats \in TurnNos => task'[run'.beats].pc = "end"
    <3>1. Spent(run.beats)
      BY DEF RunInv, BeatsInv
    <3> QED BY <3>1, SpentStays
  <2>3. run'.beats \notin Used
    BY DEF RunInv, BeatsInv
  <2> QED BY <1>1, <2>1, <2>2, <2>3 DEF RunInv, BeatsInv, Spent
<1>3. DoneInv'
  BY DEF RunInv, DoneInv
<1>4. ASSUME HandKeeps PROVE BaseInv'
  <2>1. BaseInv
    BY <1>4 DEF HandKeeps, RunInv
  <2>2. hand'.base.beats \in TurnNos => task'[hand'.base.beats].pc = "end"
    <3>1. Spent(hand.base.beats)
      BY <2>1 DEF BaseInv
    <3>2. hand.base.beats \in TurnNos => task'[hand.base.beats].pc = "end"
      BY <3>1, SpentStays
    <3> QED BY <1>4, <3>2 DEF HandKeeps
  <2>3. run'.visits = IF hand'.pc \in Unsaved THEN hand'.base.visits ELSE hand'.visits
    BY <1>4, <2>1 DEF HandKeeps, BaseInv
  <2>4. run'.done = hand'.base.done \union IF hand'.pc \in Unsaved THEN {} ELSE {hand'.turn}
    BY <1>4, <2>1 DEF HandKeeps, BaseInv
  <2>5. /\ hand'.adopt => hand'.plan # "move" /\ hand'.base.beats \in TurnNos
        /\ hand'.pc # "end" => hand'.base.beats \notin Used
        /\ hand'.base.visits \subseteq hand'.visits
    BY <1>4, <2>1 DEF HandKeeps, BaseInv
  <2> QED BY <1>1, <2>2, <2>3, <2>4, <2>5 DEF BaseInv, Spent
<1> QED BY <1>2, <1>3, <1>4 DEF RunInv

(* The steps that let ended tasks end.                                     *)
LEMMA EndsOfWork ==
  ASSUME NEW t \in TurnNos, WorkFrame(t)
  PROVE  EndsStay
BY DEF WorkFrame, EndsStay

LEMMA EndsSame ==
  ASSUME UNCHANGED task
  PROVE  EndsStay
BY DEF EndsStay

(* Every step keeps RunInv.                                                *)
LEMMA RunWork ==
  ASSUME MemoryTypeOK, RunInv, NEW t \in TurnNos, Work(t)
  PROVE  RunInv'
<1>1. WorkFrame(t) /\ (Reads(t) \/ PatchesRun(t) \/ TellsFacts(t) \/ TellsThread(t)) /\ EndsStay
  BY WorkIs, EndsOfWork
<1>2. UNCHANGED <<adopted, played, hand>>
  BY <1>1 DEF WorkFrame
<1>3. hand'.pc = "idle" \/ HandKeeps
  BY <1>2 DEF HandKeeps
<1>4. CASE UNCHANGED run
  BY <1>1, <1>2, <1>3, <1>4, RunFrame
<1>5. CASE PatchesRun(t)
  <2>0. run \in [done : SUBSET TurnNos, marks : SUBSET TurnNos, beats : TurnNos \union {NoBeats}, visits : SUBSET Nat]
    BY DEF MemoryTypeOK, RunStates
  <2>1. CASE run' = [run EXCEPT !.marks = @ \union {t}]
    <3>1. run'.done = run.done /\ run'.visits = run.visits /\ run'.beats = run.beats
      BY <2>0, <2>1
    <3> QED BY <1>1, <1>2, <1>3, <3>1, RunFrame
  <2>2. CASE task'[t].pc = "end" /\ run' = [run EXCEPT !.beats = t]
    <3>1. run'.done = run.done /\ run'.visits = run.visits /\ run'.beats = t
      BY <2>0, <2>2
    <3>2. t \notin Used
      <4>1. task[t].pc # "end"
        BY <1>1 DEF WorkFrame
      <4> QED BY <4>1 DEF Used, RunInv, BeatsInv, Spent
    <3> QED BY <1>1, <1>2, <1>3, <2>2, <3>1, <3>2, RunFrame
  <2> QED BY <1>5, <2>1, <2>2 DEF PatchesRun
<1> QED BY <1>1, <1>4, <1>5 DEF Reads, TellsFacts, TellsThread

LEMMA RunEarly ==
  ASSUME MemoryTypeOK, RunInv, EarlyStep
  PROVE  RunInv'
<1>1. /\ hand.pc \in Unsaved /\ hand'.pc \in Unsaved
      /\ hand.pc \notin {"idle", "end"} /\ hand'.pc \notin {"idle", "end"}
  BY DEF EarlyStep, Early, Before, Unsaved
<1>2. UNCHANGED <<run, task, adopted, played>>
  BY DEF EarlyStep
<1>3. PICK pc, seen : Moves(pc, seen, hand.visits)
  BY DEF EarlyStep
<1>4. HandKeeps
  BY <1>1, <1>3 DEF Moves, HandKeeps
<1> QED BY <1>2, <1>4, EndsSame, RunFrame

LEMMA RunSubmit ==
  ASSUME MemoryTypeOK, RunInv, NEW plan \in Plans, NEW next \in {None, "HUB", "LOCATION"}, NEW adopt \in BOOLEAN,
         Submit(plan, next, adopt)
  PROVE  RunInv'
<1>1. /\ hand'.plan = plan /\ hand'.adopt = adopt /\ hand'.base = run /\ hand'.visits = run.visits
      /\ hand'.pc \in {"collect", "leave", "visit"}
      /\ adopt => plan # "move" /\ run.beats \in TurnNos
      /\ UNCHANGED <<run, task, adopted, played>>
  BY SubmitIs
<1>2. hand'.pc \in Unsaved
  BY <1>1 DEF Unsaved, Before, Early
<1>3. BeatsInv' /\ DoneInv' /\ Used' = Used
  BY <1>1 DEF RunInv, BeatsInv, DoneInv, Used, Spent
<1>4. BaseInv'
  <2>1. Spent(run.beats)' /\ run.beats \notin Used'
    BY <1>1, <1>3 DEF RunInv, BeatsInv, Spent
  <2> QED BY <1>1, <1>2, <2>1 DEF BaseInv, Spent
<1> QED BY <1>3, <1>4 DEF RunInv

LEMMA RunWriteVisit ==
  ASSUME MemoryTypeOK, RunInv, WriteVisit
  PROVE  RunInv'
<1>1. /\ hand.pc \in {"visit write", "minimal"} /\ HandIs
      /\ Moves(IF hand.plan = "move" THEN "leave" ELSE "insert", None, hand.visits \union {hand.node})
  BY WriteVisitIs
<1>2. UNCHANGED <<run, task, adopted, played>>
  BY DEF WriteVisit
<1>3. PICK pc \in {"leave", "insert"} : Moves(pc, None, hand.visits \union {hand.node})
  BY <1>1
<1>4. /\ hand'.pc = pc /\ hand'.adopt = hand.adopt /\ hand'.plan = hand.plan /\ hand'.base = hand.base
      /\ hand'.turn = hand.turn /\ hand'.visits = hand.visits \union {hand.node}
  BY <1>3 DEF Moves
<1>5. /\ hand.pc \in Unsaved /\ hand'.pc \in Unsaved
      /\ hand.pc \notin {"idle", "end"} /\ hand'.pc \notin {"idle", "end"}
  BY <1>1, <1>3, <1>4 DEF Early, Before, Unsaved
<1>6. HandKeeps
  BY <1>4, <1>5 DEF HandKeeps
<1> QED BY <1>2, <1>6, EndsSame, RunFrame

LEMMA RunLeave ==
  ASSUME MemoryTypeOK, RunInv, Leave
  PROVE  RunInv'
<1>1. hand.pc = "leave" /\ HandIs /\ Moves("insert", None, hand.visits)
  BY LeavingIs
<1>2. UNCHANGED <<run, task, adopted, played>>
  BY DEF Leave, stores, history
<1>3. "leave" \in Unsaved /\ "insert" \in Unsaved
  BY DEF Unsaved, Before
<1>4. HandKeeps
  BY <1>1, <1>3 DEF HandKeeps, Moves
<1> QED BY <1>2, <1>4, EndsSame, RunFrame

LEMMA RunInsert ==
  ASSUME MemoryTypeOK, RunInv, Insert
  PROVE  RunInv'
<1>1. hand.pc = "insert" /\ HandIs
  BY InsertingIs
<1>2. UNCHANGED <<run, adopted, played>>
  BY DEF Insert, stores, history
<1>3. "save" \in Unsaved /\ "insert" \in Unsaved
  BY DEF Unsaved, Before
<1>4. CASE /\ task[hand.turn].pc = "none"
           /\ task' = [task EXCEPT ![hand.turn] = Job("waiting", hand.node)]
           /\ Moves("save", None, hand.visits)
  <2>1. HandKeeps
    BY <1>1, <1>3, <1>4 DEF HandKeeps, Moves
  <2>2. EndsStay
    <3>1. hand.turn \in TurnNos /\ DOMAIN task = TurnNos
      BY <1>1 DEF HandIs, MemoryTypeOK
    <3> QED BY <1>4, <3>1 DEF EndsStay
  <2> QED BY <1>2, <2>1, <2>2, RunFrame
<1>5. CASE hand' = Idle /\ UNCHANGED task
  <2>1. hand'.pc = "idle"
    BY <1>5 DEF Idle
  <2> QED BY <1>2, <1>5, <2>1, EndsSame, RunFrame
<1> QED BY <1>4, <1>5, InsertingIs

(* The merge: used beats go, the others stay.                              *)
LEMMA RunSave ==
  ASSUME MemoryTypeOK, PathInv, RunInv, Save
  PROVE  RunInv'
<1>1. /\ hand.pc = "save" /\ HandIs
      /\ IF hand.plan = "act" THEN hand' = Idle ELSE Moves(hand.plan, None, hand.visits)
  BY SavingIs
<1>2. /\ UNCHANGED task
      /\ played' = played \union {[turn |-> hand.turn, node |-> hand.node, plan |-> hand.plan]}
      /\ adopted' = IF hand.adopt THEN adopted \union {[turn |-> hand.turn, beats |-> hand.base.beats]} ELSE adopted
  BY DEF Save
<1>3. run' = Result(IF hand.adopt THEN NoBeats ELSE run.beats) /\ MemoryTypeOK'
  BY SaveTypes
<1>4. /\ run'.done = hand.base.done \union {hand.turn} /\ run'.visits = hand.visits
      /\ run'.beats = IF hand.adopt THEN NoBeats ELSE run.beats
  BY <1>3 DEF Result
<1>5. BaseInv /\ "save" \in Unsaved /\ "move" \notin Unsaved /\ "end" \notin Unsaved
  BY <1>1 DEF RunInv, Unsaved, Before, Early
<1>6. run.done = hand.base.done /\ Spent(hand.base.beats) /\ hand.base.beats \notin Used
      /\ (hand.adopt => hand.plan # "move" /\ hand.base.beats \in TurnNos)
      /\ hand.base.visits \subseteq hand.visits
  BY <1>1, <1>5 DEF BaseInv
<1>7. Used' = IF hand.adopt THEN Used \union {hand.base.beats} ELSE Used
  <2> DEFINE new == [turn |-> hand.turn, beats |-> hand.base.beats]
  <2>1. new.beats = hand.base.beats /\ adopted' = IF hand.adopt THEN adopted \union {new} ELSE adopted
    BY <1>2
  <2> HIDE DEF new
  <2> QED BY <2>1 DEF Used
<1>8. BeatsInv'
  <2>1. \A a \in adopted' : a.beats \in TurnNos => task[a.beats].pc = "end"
    BY <1>2, <1>6 DEF RunInv, BeatsInv, Spent
  <2>2. \A a, b \in adopted' : a.beats = b.beats => a = b
    <3>1. CASE ~hand.adopt
      BY <1>2, <3>1 DEF RunInv, BeatsInv
    <3>2. CASE hand.adopt
      <4> DEFINE new == [turn |-> hand.turn, beats |-> hand.base.beats]
      <4>1. adopted' = adopted \union {new} /\ new.beats = hand.base.beats
        BY <1>2, <3>2
      <4>2. \A a \in adopted : a.beats # new.beats
        BY <1>6, <4>1 DEF Used
      <4> HIDE DEF new
      <4> QED BY <4>1, <4>2 DEF RunInv, BeatsInv
    <3> QED BY <3>1, <3>2
  <2>3. (run'.beats \in TurnNos => task[run'.beats].pc = "end") /\ run'.beats \notin Used'
    <3>1. CASE ~hand.adopt
      BY <1>4, <1>7, <3>1 DEF RunInv, BeatsInv, Spent
    <3>2. CASE hand.adopt
      <4>1. run'.beats = 0 /\ 0 \notin TurnNos
        BY <1>4, <3>2, MemoryAssumption DEF NoBeats, TurnNos
      <4>2. \A a \in adopted : a.beats \in TurnNos
        BY DEF MemoryTypeOK
      <4> QED BY <4>1, <4>2, <1>6, <1>7, <3>2 DEF Used
    <3> QED BY <3>1, <3>2
  <2> QED BY <1>2, <2>1, <2>2, <2>3 DEF BeatsInv, Spent
<1>9. DoneInv'
  <2> DEFINE new == [turn |-> hand.turn, node |-> hand.node, plan |-> hand.plan]
  <2>1. new.turn = hand.turn /\ played' = played \union {new}
    BY <1>2
  <2> HIDE DEF new
  <2> QED BY <2>1, <1>4, <1>6 DEF RunInv, DoneInv
<1>10. CASE hand.plan = "act"
  <2>1. hand'.pc = "idle"
    BY <1>1, <1>10 DEF Idle
  <2> QED BY <2>1, <1>8, <1>9 DEF RunInv
<1>11. CASE hand.plan # "act"
  <2>1. /\ hand'.pc = hand.plan /\ hand'.adopt = hand.adopt /\ hand'.plan = hand.plan /\ hand'.base = hand.base
        /\ hand'.turn = hand.turn /\ hand'.visits = hand.visits /\ hand.plan \in {"move", "end"}
    BY <1>1, <1>11 DEF Moves, HandIs, Plans
  <2>2. hand'.pc \notin Unsaved
    BY <1>5, <2>1
  <2>3. BaseInv'
    <3>1. hand'.pc # "end" => ~hand.adopt /\ hand'.base.beats \notin Used'
      BY <2>1, <1>6, <1>7
    <3> QED BY <1>2, <1>4, <1>6, <2>1, <2>2, <3>1 DEF BaseInv, Spent
  <2> QED BY <2>3, <1>8, <1>9 DEF RunInv
<1> QED BY <1>10, <1>11

LEMMA RunEndRun ==
  ASSUME MemoryTypeOK, RunInv, EndRun
  PROVE  RunInv'
<1>1. hand' = Idle /\ UNCHANGED <<run, task, played, adopted>>
  BY EndRunIs
<1>2. hand'.pc = "idle"
  BY <1>1 DEF Idle
<1> QED BY <1>1, <1>2, EndsSame, RunFrame

(* The entry is begun with the run state of the same submission.           *)
LEMMA RunEnter ==
  ASSUME MemoryTypeOK, NumberInv, PathInv, RunInv, Enter
  PROVE  RunInv'
<1>1. hand.pc = "move" /\ HandIs /\ Moves("save enter", None, hand.visits)
  BY EnteringIs
<1>2. UNCHANGED <<run, adopted, played>> /\ task' = [task EXCEPT ![hand.turn + 1] = Job("waiting", hand.node + 1)]
  BY DEF Enter, stores, history
<1>3. "move" \notin Unsaved /\ "save enter" \notin Unsaved
  BY DEF Unsaved, Before, Early
<1>4. HandKeeps
  <2>1. /\ hand'.pc = "save enter" /\ hand'.adopt = hand.adopt /\ hand'.plan = hand.plan /\ hand'.base = hand.base
        /\ hand'.turn = hand.turn /\ hand'.visits = hand.visits
    BY <1>1 DEF Moves
  <2>2. hand.pc \notin Unsaved /\ hand'.pc \notin Unsaved
    BY <1>1, <1>3, <2>1
  <2>3. hand.pc = "move"
    BY <1>1
  <2> QED BY ONLY <2>1, <2>2, <2>3 DEF HandKeeps
<1>5. EndsStay
  <2>1. DOMAIN task = TurnNos /\ hand.turn + 1 \in TurnNos /\ task[hand.turn + 1].pc = "none"
    BY EnterTypes, NumbersEnter DEF MemoryTypeOK
  <2> QED BY <1>2, <2>1 DEF EndsStay
<1> QED BY <1>2, <1>4, <1>5, RunFrame

(* It is written without a merge: its beats are not used.                  *)
LEMMA RunSaveEnter ==
  ASSUME MemoryTypeOK, PathInv, RunInv, SaveEnter
  PROVE  RunInv'
<1>1. /\ hand.pc = "save enter" /\ HandIs /\ hand' = Idle /\ run' = Result(hand.base.beats)
      /\ UNCHANGED <<task, played, adopted>>
  BY SaveEnterTypes
<1>2. BaseInv /\ "save enter" \notin Unsaved /\ hand'.pc = "idle"
  BY <1>1 DEF RunInv, Unsaved, Before, Early, Idle
<1>3. run'.done = run.done /\ run'.visits = run.visits /\ run'.beats = hand.base.beats
  BY <1>1, <1>2 DEF BaseInv, Result
<1>4. (run'.beats \in TurnNos => task'[run'.beats].pc = "end") /\ run'.beats \notin Used
  BY <1>1, <1>2, <1>3 DEF BaseInv, Spent
<1> QED BY <1>1, <1>2, <1>3, <1>4, EndsSame, RunFrame

LEMMA RunCrash ==
  ASSUME MemoryTypeOK, RunInv, Crash
  PROVE  RunInv'
<1>1. hand' = Idle /\ UNCHANGED <<run, played, adopted>> /\ EndsStay
  BY CrashIs DEF EndsStay
<1>2. hand'.pc = "idle"
  BY <1>1 DEF Idle
<1> QED BY <1>1, <1>2, RunFrame

-----------------------------------------------------------------------------

(* The rows.                                                               *)

\* One row is written, or appended.
WritesRow(k, row) ==
  /\ DOMAIN rows' = DOMAIN rows \union {k} /\ rows'[k] = row
  /\ \A i \in DOMAIN rows : i # k => rows'[i] = rows[i]
  /\ k \in DOMAIN rows => rows[k].node = row.node

\* No row loses an action, and the labels of the tasks that hold one stay.
RowsGrow ==
  /\ DOMAIN rows \subseteq DOMAIN rows'
  /\ \A i \in DOMAIN rows : rows'[i].node = rows[i].node /\ rows[i].acts \subseteq rows'[i].acts
ThreadsHeld == \A u \in TurnNos : task'[u].pc = "thread write" => task'[u] = task[u]

(* A thread goes to the row it was read from, or to a new one of the node, *)
LEMMA ThreadWrites ==
  ASSUME MemoryTypeOK, RowInv, NEW t \in TurnNos, TellsThread(t)
  PROVE  \E k \in Nat :
           /\ WritesRow(k, [node |-> task[t].node, acts |-> IF k \in DOMAIN rows THEN rows[k].acts ELSE {},
                            thread |-> task[t].seen.thread \union {t}])
           /\ IF k \in DOMAIN rows THEN k = task[t].seen.row
              ELSE task[t].seen.row = 0 /\ task[t].seen.thread = {}
<1>1. task[t].pc = "thread write" /\ task[t].seen \in [row : Nat, acts : SUBSET TurnNos, thread : SUBSET TurnNos]
  BY TypesAre DEF TellsThread, TypesOfTasks, TaskSeen
<1>2. rows \in Seq(RowsType) /\ Len(rows) \in Nat /\ DOMAIN rows = 1..Len(rows)
  BY TypesAre DEF TypesOfStores
<1>3. task[t].node \in Nat
  BY TypesAre DEF TypesOfTasks, JobIs
<1> DEFINE thread == task[t].seen.thread \union {t}
<1>4. thread \in SUBSET TurnNos
  BY <1>1
<1>5. CASE task[t].seen.row = 0
  <2> DEFINE row == [node |-> task[t].node, acts |-> {}, thread |-> thread]
  <2>1. rows' = Append(rows, row)
    BY <1>5 DEF TellsThread, WithThread
  <2>2. row \in RowsType /\ row.node = task[t].node
    BY <1>3, <1>4 DEF RowsType
  <2>3. task[t].seen.thread = {}
    BY <1>1, <1>5 DEF RowInv, ThreadRows
  <2> DEFINE k == Len(rows) + 1
  <2>4. k \in Nat /\ k \notin DOMAIN rows
    BY <1>2
  <2>5. WritesRow(k, row)
    <3> HIDE DEF row
    <3>1. /\ DOMAIN rows' = DOMAIN rows \union {Len(rows) + 1}
          /\ \A i \in DOMAIN rows : rows'[i] = rows[i]
          /\ rows'[Len(rows) + 1] = row
      BY <2>1, <2>2, <1>2, AppendSeq
    <3> QED BY <3>1, <2>4 DEF WritesRow
  <2>6. row = [node |-> task[t].node, acts |-> IF k \in DOMAIN rows THEN rows[k].acts ELSE {}, thread |-> thread]
    BY <2>4
  <2> QED BY <1>5, <2>3, <2>4, <2>5, <2>6
<1>6. CASE task[t].seen.row # 0
  <2> DEFINE k == task[t].seen.row
             row == [node |-> task[t].node, acts |-> rows[k].acts, thread |-> thread]
  <2>1. k \in DOMAIN rows /\ rows[k].node = task[t].node
    BY <1>1, <1>6 DEF RowInv, ThreadRows
  <2>2. WrittenThread(t) = row
    <3>1. ASSUME NEW a, NEW b, NEW c, NEW d
          PROVE  [[node |-> a, acts |-> b, thread |-> c] EXCEPT !.acts = d] = [node |-> a, acts |-> d, thread |-> c]
      OBVIOUS
    <3> QED BY <3>1 DEF WrittenThread, WithThread
  <2>3. rows' = [rows EXCEPT ![k] = row]
    BY <1>6, <2>2 DEF TellsThread
  <2>4. row.node = task[t].node
    OBVIOUS
  <2>5. WritesRow(k, row)
    <3> HIDE DEF row, k
    <3> QED BY <2>1, <2>3, <2>4, <1>2 DEF WritesRow
  <2>6. row = [node |-> task[t].node, acts |-> IF k \in DOMAIN rows THEN rows[k].acts ELSE {}, thread |-> thread]
    BY <2>1
  <2>7. k \in Nat
    BY <1>1
  <2> QED BY <2>1, <2>5, <2>6, <2>7
<1> QED BY <1>5, <1>6

(* and so does a visitContext.                                             *)
LEMMA StoreWrites ==
  ASSUME MemoryTypeOK, RowInv, Store
  PROVE  \E k \in Nat :
           /\ WritesRow(k, [node |-> hand.node, acts |-> hand.seen.acts \union {hand.turn},
                            thread |-> IF k \in DOMAIN rows THEN rows[k].thread ELSE {}])
           /\ hand.seen.acts = IF k \in DOMAIN rows THEN rows[k].acts ELSE {}
           /\ k \in DOMAIN rows <=> hand.seen.row # 0
<1>1. hand.pc = "store" /\ "store" \in HandLabels
  BY StoreDoes DEF HandLabels
<1>2. rows \in Seq(RowsType) /\ Len(rows) \in Nat /\ DOMAIN rows = 1..Len(rows)
  BY TypesAre DEF TypesOfStores
<1>3. HandIs /\ hand.seen \in [row : Nat, acts : SUBSET TurnNos, memory : SUBSET Entries]
  BY <1>1, HandHere DEF HandSeen
<1>n. hand.node \in Nat
  BY <1>3, NodeIs
<1> DEFINE acts == hand.seen.acts \union {hand.turn}
<1>4. acts \in SUBSET TurnNos
  BY <1>3 DEF HandIs
<1>5. CASE hand.seen.row = 0
  <2> DEFINE row == [node |-> hand.node, acts |-> acts, thread |-> {}]
  <2>1. rows' = Append(rows, row)
    BY <1>5, StoreDoes
  <2>2. row \in RowsType /\ row.node = hand.node
    BY <1>n, <1>4 DEF RowsType
  <2>3. hand.seen.acts = {}
    BY <1>1, <1>5 DEF RowInv, HeldRow
  <2> DEFINE k == Len(rows) + 1
  <2>4. k \in Nat /\ k \notin DOMAIN rows
    BY <1>2
  <2>5. WritesRow(k, row)
    <3> HIDE DEF row
    <3>1. /\ DOMAIN rows' = DOMAIN rows \union {Len(rows) + 1}
          /\ \A i \in DOMAIN rows : rows'[i] = rows[i]
          /\ rows'[Len(rows) + 1] = row
      BY <2>1, <2>2, <1>2, AppendSeq
    <3> QED BY <3>1, <2>4 DEF WritesRow
  <2>6. row = [node |-> hand.node, acts |-> acts, thread |-> IF k \in DOMAIN rows THEN rows[k].thread ELSE {}]
    BY <2>4
  <2> QED BY <1>5, <2>3, <2>4, <2>5, <2>6
<1>6. CASE hand.seen.row # 0
  <2> DEFINE k == hand.seen.row
             row == [node |-> hand.node, acts |-> acts, thread |-> rows[k].thread]
  <2>1. k \in DOMAIN rows /\ rows[k].node = hand.node /\ rows[k].acts = hand.seen.acts
    BY <1>1, <1>6 DEF RowInv, HeldRow
  <2>2. [rows[k] EXCEPT !.acts = acts] = row
    <3>1. rows[k] \in RowsType
      BY <1>2, <2>1
    <3> HIDE DEF acts, k
    <3> QED BY <2>1, <3>1 DEF RowsType
  <2>3. rows' = [rows EXCEPT ![k] = row]
    <3>1. rows' = [rows EXCEPT ![k] = [rows[k] EXCEPT !.acts = acts]]
      BY <1>6, StoreDoes
    <3> QED BY <2>2, <3>1
  <2>4. row.node = hand.node
    OBVIOUS
  <2>5. WritesRow(k, row)
    <3> HIDE DEF row, k
    <3> QED BY <2>1, <2>3, <2>4, <1>2 DEF WritesRow
  <2>6. row = [node |-> hand.node, acts |-> acts, thread |-> IF k \in DOMAIN rows THEN rows[k].thread ELSE {}]
    BY <2>1
  <2>7. k \in Nat
    BY <1>3
  <2> QED BY <1>6, <2>1, <2>5, <2>6, <2>7
<1> QED BY <1>5, <1>6

(* The rows grow when the one that is written keeps its actions.           *)
LEMMA WrittenGrow ==
  ASSUME NEW k, NEW row, WritesRow(k, row), k \in DOMAIN rows => rows[k].acts \subseteq row.acts
  PROVE  RowsGrow
BY DEF WritesRow, RowsGrow

LEMMA RowsSame ==
  ASSUME UNCHANGED rows
  PROVE  RowsGrow
BY DEF RowsGrow

(* Then what is stored stays so.                                           *)
LEMMA StoredStays ==
  ASSUME RowsGrow, NEW n, NEW turn, Stored(n, turn)
  PROVE  \E i \in DOMAIN rows' : rows'[i].node = n /\ turn \in rows'[i].acts
BY DEF RowsGrow, Stored

LEMMA PlayedStays ==
  ASSUME RowsGrow, PlayedStored, UNCHANGED played
  PROVE  PlayedStored'
BY StoredStays DEF PlayedStored, Stored

LEMMA ThreadsStay ==
  ASSUME RowsGrow, ThreadRows, ThreadsHeld
  PROVE  ThreadRows'
<1> SUFFICES ASSUME NEW t \in TurnNos, task'[t].pc = "thread write"
             PROVE  IF task'[t].seen.row = 0 THEN task'[t].seen.thread = {}
                    ELSE task'[t].seen.row \in DOMAIN rows' /\ rows'[task'[t].seen.row].node = task'[t].node
  BY DEF ThreadRows
<1>1. task'[t] = task[t]
  BY DEF ThreadsHeld
<1>2. IF task[t].seen.row = 0 THEN task[t].seen.thread = {}
      ELSE task[t].seen.row \in DOMAIN rows /\ rows[task[t].seen.row].node = task[t].node
  BY <1>1 DEF ThreadRows
<1> QED BY <1>1, <1>2 DEF RowsGrow

\* A step that leaves the rows.
LEMMA RowsFrame ==
  ASSUME RowInv, UNCHANGED <<rows, played>>, ThreadsHeld,
         hand'.pc \notin {"hear", "hear write", "store"},
         \/ hand'.pc \notin Reading \union {"insert", "save"}
         \/ hand'.plan = "move"
         \/ /\ hand.pc \in Reading \union {"insert", "save"}
            /\ hand'.plan = hand.plan /\ hand'.node = hand.node /\ hand'.turn = hand.turn
  PROVE  RowInv'
<1>1. PlayedStored' /\ ThreadRows'
  BY RowsSame, PlayedStays, ThreadsStay DEF RowInv
<1>2. hand'.pc \in Reading \union {"insert", "save"} => TurnStored'
  BY DEF RowInv, TurnStored, Stored
<1> QED BY <1>1, <1>2 DEF RowInv

(* Every step keeps RowInv.                                                *)
LEMMA RowWork ==
  ASSUME MemoryTypeOK, RowInv, NEW t \in TurnNos, Work(t)
  PROVE  RowInv'
<1>1. WorkFrame(t) /\ (Reads(t) \/ PatchesRun(t) \/ TellsFacts(t) \/ TellsThread(t))
  BY WorkIs
<1>2. UNCHANGED <<played, hand>> /\ \A u \in TurnNos : u # t => task'[u] = task[u]
  BY <1>1 DEF WorkFrame
<1>h. HeldRow => hand.seen.row = 0 \/ hand.seen.row \in DOMAIN rows
  BY DEF HeldRow
<1>3. ASSUME RowsGrow, \A i \in DOMAIN rows : rows'[i].acts = rows[i].acts, ThreadRows'
      PROVE  RowInv'
  <2>1. PlayedStored'
    BY <1>2, <1>3, PlayedStays DEF RowInv
  <2>2. HeldRow => HeldRow'
    BY <1>2, <1>3 DEF HeldRow, RowsGrow
  <2>3. TurnStored => TurnStored'
    BY <1>2, <1>3, StoredStays DEF TurnStored, Stored
  <2> QED BY <1>2, <1>3, <2>1, <2>2, <2>3 DEF RowInv
<1>4. CASE UNCHANGED rows
  <2>1. RowsGrow
    BY <1>4, RowsSame
  <2>2. CASE task'[t].pc # "thread write"
    <3>1. ThreadsHeld
      BY <1>2, <2>2 DEF ThreadsHeld
    <3>2. ThreadRows'
      BY <2>1, <3>1, ThreadsStay DEF RowInv
    <3> QED BY <1>3, <1>4, <2>1, <3>2
  <2>3. CASE task'[t].pc = "thread write"
    <3>1. \E i \in FirstRow(task[t].node) :
             task'[t].seen = IF i = 0 THEN [row |-> 0, acts |-> {}, thread |-> {}]
                             ELSE [row |-> i, acts |-> rows[i].acts, thread |-> rows[i].thread]
      BY <1>1, <2>3 DEF Reads, PatchesRun, TellsFacts, TellsThread, Rests, Plain
    <3>2. PICK i \in FirstRow(task[t].node) :
             task'[t].seen = IF i = 0 THEN [row |-> 0, acts |-> {}, thread |-> {}]
                             ELSE [row |-> i, acts |-> rows[i].acts, thread |-> rows[i].thread]
      BY <3>1
    <3>3. i \in Nat /\ (i # 0 => i \in DOMAIN rows /\ rows[i].node = task[t].node)
      BY RowsRead
    <3>4. task'[t].node = task[t].node
      BY <1>1 DEF WorkFrame
    <3>5. IF task'[t].seen.row = 0 THEN task'[t].seen.thread = {}
          ELSE task'[t].seen.row \in DOMAIN rows' /\ rows'[task'[t].seen.row].node = task'[t].node
      BY <1>4, <3>2, <3>3, <3>4
    <3>6. ThreadRows'
      BY <1>2, <1>4, <3>5 DEF RowInv, ThreadRows
    <3> QED BY <1>3, <1>4, <2>1, <3>6
  <2> QED BY <2>2, <2>3
<1>5. CASE TellsThread(t)
  <2>1. PICK k \in Nat :
           /\ WritesRow(k, [node |-> task[t].node, acts |-> IF k \in DOMAIN rows THEN rows[k].acts ELSE {},
                            thread |-> task[t].seen.thread \union {t}])
           /\ IF k \in DOMAIN rows THEN k = task[t].seen.row
              ELSE task[t].seen.row = 0 /\ task[t].seen.thread = {}
    BY <1>5, ThreadWrites
  <2> DEFINE row == [node |-> task[t].node, acts |-> IF k \in DOMAIN rows THEN rows[k].acts ELSE {},
                     thread |-> task[t].seen.thread \union {t}]
  <2>2. row.acts = IF k \in DOMAIN rows THEN rows[k].acts ELSE {}
    OBVIOUS
  <2>3. WritesRow(k, row)
    BY <2>1
  <2> HIDE DEF row
  <2>4. RowsGrow /\ \A i \in DOMAIN rows : rows'[i].acts = rows[i].acts
    BY <2>2, <2>3 DEF WritesRow, RowsGrow
  <2>5. ThreadsHeld
    BY <1>2, <1>5 DEF ThreadsHeld, TellsThread, Rests, Plain
  <2>6. ThreadRows'
    BY <2>4, <2>5, ThreadsStay DEF RowInv
  <2> QED BY <1>3, <2>4, <2>6
<1> QED BY <1>1, <1>4, <1>5 DEF Reads, PatchesRun, TellsFacts

LEMMA RowSubmit ==
  ASSUME MemoryTypeOK, RowInv, NEW plan \in Plans, NEW next \in {None, "HUB", "LOCATION"}, NEW adopt \in BOOLEAN,
         Submit(plan, next, adopt)
  PROVE  RowInv'
<1>1. /\ hand'.plan = plan /\ hand'.pc \in {"collect", "leave", "visit"}
      /\ hand'.pc = "collect" <=> plan # "move"
      /\ UNCHANGED <<rows, task, played>>
  BY SubmitIs
<1>2. ThreadsHeld
  BY <1>1 DEF ThreadsHeld
<1> QED BY <1>1, <1>2, RowsFrame DEF Reading

LEMMA RowEarly ==
  ASSUME MemoryTypeOK, PathInv, RowInv, Collect \/ Hear \/ WriteHeard \/ Store \/ ReadVisit \/ ReadMemory
  PROVE  RowInv'
<1>1. EarlyStep
  BY EarlyIs
<1>2. UNCHANGED <<task, played>> /\ ThreadsHeld
  BY <1>1 DEF EarlyStep, ThreadsHeld
<1>3. hand'.node = hand.node /\ hand'.turn = hand.turn /\ hand'.plan = hand.plan
  <2>1. PICK pc, seen : Moves(pc, seen, hand.visits)
    BY <1>1 DEF EarlyStep
  <2> QED BY <2>1 DEF Moves
<1>4. ASSUME UNCHANGED rows, HeldRow', hand'.pc \in {"hear", "hear write", "store"} PROVE RowInv'
  <2>1. PlayedStored' /\ ThreadRows'
    BY <1>2, <1>4, RowsSame, PlayedStays, ThreadsStay DEF RowInv
  <2>2. hand'.pc \notin Reading \union {"insert", "save"}
    BY <1>4 DEF Reading
  <2> QED BY <1>4, <2>1, <2>2 DEF RowInv
<1>5. CASE Collect
  <2>1. hand'.pc = "hear" /\ UNCHANGED rows
    BY <1>5, CollectDoes
  <2>2. PICK i \in FirstRow(hand.node) :
          hand'.seen = [row |-> i, acts |-> IF i = 0 THEN {} ELSE rows[i].acts, memory |-> {}]
    BY <1>5, CollectDoes
  <2>3. i # 0 => i \in DOMAIN rows /\ rows[i].node = hand.node
    BY RowsRead
  <2>4. hand'.seen.row = i /\ hand'.seen.acts = IF i = 0 THEN {} ELSE rows[i].acts
    BY <2>2
  <2>5. HeldRow'
    BY <1>3, <2>1, <2>3, <2>4 DEF HeldRow
  <2> QED BY <1>4, <2>1, <2>5
<1>6. CASE Hear
  <2>1. hand.pc = "hear" /\ hand'.pc \in {"store", "hear write"} /\ UNCHANGED rows /\ "hear" \in HandLabels
    BY <1>6, HearDoes DEF HandLabels
  <2>2. hand.seen \in [row : Nat, acts : SUBSET TurnNos, memory : SUBSET Entries]
    BY <2>1, HandHere DEF HandSeen
  <2>3. hand'.seen.row = hand.seen.row /\ hand'.seen.acts = hand.seen.acts
    BY <1>6, <2>2, HearDoes
  <2>4. HeldRow'
    BY <1>3, <2>1, <2>3 DEF RowInv, HeldRow
  <2> QED BY <1>4, <2>1, <2>4
<1>7. CASE WriteHeard
  <2>1. hand.pc = "hear write" /\ hand'.pc = "store" /\ hand'.seen = hand.seen /\ UNCHANGED rows
    BY <1>7, WriteHeardDoes
  <2>2. HeldRow'
    BY <1>3, <2>1 DEF RowInv, HeldRow
  <2> QED BY <1>4, <2>1, <2>2
<1>8. CASE Store
  <2>1. hand'.pc \in {"visit", "insert"}
    BY <1>8, StoreDoes
  <2>2. PICK k \in Nat :
           /\ WritesRow(k, [node |-> hand.node, acts |-> hand.seen.acts \union {hand.turn},
                            thread |-> IF k \in DOMAIN rows THEN rows[k].thread ELSE {}])
           /\ hand.seen.acts = IF k \in DOMAIN rows THEN rows[k].acts ELSE {}
    BY <1>8, StoreWrites
  <2> DEFINE row == [node |-> hand.node, acts |-> hand.seen.acts \union {hand.turn},
                     thread |-> IF k \in DOMAIN rows THEN rows[k].thread ELSE {}]
  <2>3. row.acts = hand.seen.acts \union {hand.turn} /\ row.node = hand.node
    OBVIOUS
  <2>4. WritesRow(k, row)
    BY <2>2
  <2> HIDE DEF row
  <2>5. RowsGrow
    BY <2>2, <2>3, <2>4, WrittenGrow
  <2>6. TurnStored'
    <3>1. k \in DOMAIN rows' /\ rows'[k] = row
      BY <2>4 DEF WritesRow
    <3> QED BY <1>3, <2>3, <3>1 DEF TurnStored, Stored
  <2>7. PlayedStored' /\ ThreadRows'
    BY <1>2, <2>5, PlayedStays, ThreadsStay DEF RowInv
  <2> QED BY <2>1, <2>6, <2>7 DEF RowInv
<1>9. CASE ReadVisit \/ ReadMemory
  <2>1. hand.pc \in Reading /\ hand'.pc \notin {"hear", "hear write", "store"} /\ UNCHANGED rows
    BY <1>9, ReadVisitDoes, ReadMemoryDoes DEF Reading
  <2> QED BY <1>2, <1>3, <2>1, RowsFrame
<1> QED BY <1>5, <1>6, <1>7, <1>8, <1>9

LEMMA RowWriteVisit ==
  ASSUME MemoryTypeOK, RowInv, WriteVisit
  PROVE  RowInv'
<1>1. /\ hand.pc \in {"visit write", "minimal"} /\ HandIs
      /\ Moves(IF hand.plan = "move" THEN "leave" ELSE "insert", None, hand.visits \union {hand.node})
  BY WriteVisitIs
<1>2. UNCHANGED <<rows, task, played>> /\ ThreadsHeld
  BY DEF WriteVisit, ThreadsHeld
<1>3. PICK pc \in {"leave", "insert"} : Moves(pc, None, hand.visits \union {hand.node})
  BY <1>1
<1>4. hand'.pc = pc /\ hand'.plan = hand.plan /\ hand'.node = hand.node /\ hand'.turn = hand.turn
  BY <1>3 DEF Moves
<1>5. hand.pc \in Reading /\ hand'.pc \notin {"hear", "hear write", "store"}
  BY <1>1, <1>3, <1>4 DEF Reading
<1> QED BY <1>2, <1>4, <1>5, RowsFrame

LEMMA RowLeave ==
  ASSUME MemoryTypeOK, PathInv, RowInv, Leave
  PROVE  RowInv'
<1>1. hand.pc = "leave" /\ HandIs /\ Moves("insert", None, hand.visits)
  BY LeavingIs
<1>2. UNCHANGED <<rows, task, played>> /\ ThreadsHeld
  BY DEF Leave, stores, history, ThreadsHeld
<1>3. hand'.pc = "insert" /\ hand'.plan = "move"
  BY <1>1 DEF Moves, PathInv
<1> QED BY <1>2, <1>3, RowsFrame

LEMMA RowInsert ==
  ASSUME MemoryTypeOK, RowInv, Insert
  PROVE  RowInv'
<1>1. hand.pc = "insert" /\ HandIs
  BY InsertingIs
<1>2. UNCHANGED <<rows, played>>
  BY DEF Insert, stores, history
<1>4. CASE /\ task[hand.turn].pc = "none"
           /\ task' = [task EXCEPT ![hand.turn] = Job("waiting", hand.node)]
           /\ Moves("save", None, hand.visits)
  <2>1. hand'.pc = "save" /\ hand'.plan = hand.plan /\ hand'.node = hand.node /\ hand'.turn = hand.turn
    BY <1>4 DEF Moves
  <2>2. ThreadsHeld
    <3>1. hand.turn \in TurnNos /\ DOMAIN task = TurnNos
      BY <1>1 DEF HandIs, MemoryTypeOK
    <3> QED BY <1>4, <3>1 DEF ThreadsHeld, Job
  <2> QED BY <1>1, <1>2, <2>1, <2>2, RowsFrame
<1>5. CASE hand' = Idle /\ UNCHANGED task
  <2>1. hand'.pc = "idle" /\ ThreadsHeld
    BY <1>5 DEF Idle, ThreadsHeld
  <2> QED BY <1>2, <2>1, RowsFrame DEF Reading
<1> QED BY <1>4, <1>5, InsertingIs

LEMMA RowSave ==
  ASSUME MemoryTypeOK, PathInv, RowInv, Save
  PROVE  RowInv'
<1>1. /\ hand.pc = "save" /\ HandIs
      /\ IF hand.plan = "act" THEN hand' = Idle ELSE Moves(hand.plan, None, hand.visits)
  BY SavingIs
<1>2. UNCHANGED <<rows, task>> /\ ThreadsHeld
      /\ played' = played \union {[turn |-> hand.turn, node |-> hand.node, plan |-> hand.plan]}
  BY DEF Save, ThreadsHeld
<1>3. PlayedStored'
  <2> DEFINE new == [turn |-> hand.turn, node |-> hand.node, plan |-> hand.plan]
  <2>1. new.turn = hand.turn /\ new.node = hand.node /\ new.plan = hand.plan /\ played' = played \union {new}
    BY <1>2
  <2>2. TurnStored
    BY <1>1 DEF RowInv
  <2> HIDE DEF new
  <2> QED BY <1>2, <2>1, <2>2 DEF RowInv, PlayedStored, TurnStored, Stored
<1>4. ThreadRows'
  BY <1>2, RowsSame, ThreadsStay DEF RowInv
<1>5. hand'.pc \in {"idle", "move", "end"}
  BY <1>1 DEF Moves, Idle, HandIs, Plans
<1>6. hand'.pc \notin {"hear", "hear write", "store"} /\ hand'.pc \notin Reading \union {"insert", "save"}
  BY <1>5 DEF Reading
<1> QED BY <1>3, <1>4, <1>6 DEF RowInv

LEMMA RowRest ==
  ASSUME MemoryTypeOK, NumberInv, PathInv, RowInv, EndRun \/ Enter \/ SaveEnter \/ Crash
  PROVE  RowInv'
<1>1. UNCHANGED <<rows, played>>
  BY EndRunIs, SaveEnterTypes, CrashIs DEF Enter, stores, history
<1>2. hand'.pc \in {"idle", "save enter"}
  <2>1. CASE Enter
    <3>1. Moves("save enter", None, hand.visits)
      BY <2>1, EnteringIs
    <3> QED BY ONLY <3>1 DEF Moves
  <2>2. CASE EndRun \/ SaveEnter \/ Crash
    <3>1. hand' = Idle
      BY <2>2, EndRunIs, SaveEnterTypes, CrashIs
    <3> QED BY ONLY <3>1 DEF Idle
  <2> QED BY <2>1, <2>2
<1>3. ThreadsHeld
  <2>1. CASE EndRun \/ SaveEnter
    BY <2>1, EndRunIs, SaveEnterTypes DEF ThreadsHeld
  <2>2. CASE Crash
    BY <2>2, CrashIs DEF ThreadsHeld
  <2>3. CASE Enter
    <3>1. DOMAIN task = TurnNos /\ hand.turn + 1 \in TurnNos
      BY <2>3, EnterTypes DEF MemoryTypeOK
    <3>2. task' = [task EXCEPT ![hand.turn + 1] = Job("waiting", hand.node + 1)]
      BY <2>3 DEF Enter
    <3> QED BY <3>1, <3>2 DEF ThreadsHeld, Job
  <2> QED BY <2>1, <2>2, <2>3
<1>4. hand'.pc \notin {"hear", "hear write", "store"} /\ hand'.pc \notin Reading \union {"insert", "save"}
  BY <1>2 DEF Reading
<1> QED BY <1>1, <1>3, <1>4, RowsFrame

-----------------------------------------------------------------------------

(* The visits.                                                             *)

(* The rows grow with every step of the worker,                            *)
LEMMA RowsOfWork ==
  ASSUME MemoryTypeOK, RowInv, NEW t \in TurnNos, Work(t)
  PROVE  RowsGrow /\ run'.visits = run.visits
<1>1. Reads(t) \/ PatchesRun(t) \/ TellsFacts(t) \/ TellsThread(t)
  BY WorkIs
<1>2. CASE TellsThread(t)
  <2>1. PICK k \in Nat :
           WritesRow(k, [node |-> task[t].node, acts |-> IF k \in DOMAIN rows THEN rows[k].acts ELSE {},
                         thread |-> task[t].seen.thread \union {t}])
    BY <1>2, ThreadWrites
  <2> DEFINE row == [node |-> task[t].node, acts |-> IF k \in DOMAIN rows THEN rows[k].acts ELSE {},
                     thread |-> task[t].seen.thread \union {t}]
  <2>2. row.acts = IF k \in DOMAIN rows THEN rows[k].acts ELSE {}
    OBVIOUS
  <2>3. WritesRow(k, row)
    BY <2>1
  <2> HIDE DEF row
  <2> QED BY <1>2, <2>2, <2>3, WrittenGrow DEF TellsThread
<1>3. CASE PatchesRun(t)
  <2>1. run \in [done : SUBSET TurnNos, marks : SUBSET TurnNos, beats : TurnNos \union {NoBeats}, visits : SUBSET Nat]
    BY DEF MemoryTypeOK, RunStates
  <2> QED BY <1>3, <2>1, RowsSame DEF PatchesRun
<1> QED BY <1>1, <1>2, <1>3, RowsSame DEF Reads, TellsFacts

(* and with every step of the handler before the visit is told;            *)
LEMMA RowsOfEarly ==
  ASSUME MemoryTypeOK, RowInv, Collect \/ Hear \/ WriteHeard \/ Store \/ ReadVisit \/ ReadMemory
  PROVE  RowsGrow
<1>1. CASE Store
  <2>1. PICK k \in Nat :
           /\ WritesRow(k, [node |-> hand.node, acts |-> hand.seen.acts \union {hand.turn},
                            thread |-> IF k \in DOMAIN rows THEN rows[k].thread ELSE {}])
           /\ hand.seen.acts = IF k \in DOMAIN rows THEN rows[k].acts ELSE {}
    BY <1>1, StoreWrites
  <2> DEFINE row == [node |-> hand.node, acts |-> hand.seen.acts \union {hand.turn},
                     thread |-> IF k \in DOMAIN rows THEN rows[k].thread ELSE {}]
  <2>2. row.acts = hand.seen.acts \union {hand.turn}
    OBVIOUS
  <2>3. WritesRow(k, row)
    BY <2>1
  <2> HIDE DEF row
  <2> QED BY <2>1, <2>2, <2>3, WrittenGrow
<1>2. CASE ~Store
  BY <1>2, CollectDoes, HearDoes, WriteHeardDoes, ReadVisitDoes, ReadMemoryDoes, RowsSame
<1> QED BY <1>1, <1>2

(* then a node with two rows keeps them,                                   *)
LEMMA SplitStays ==
  ASSUME RowsGrow, NEW n, SplitIn(rows, n)
  PROVE  SplitIn(rows', n)
BY DEF RowsGrow, SplitIn

(* and what is told stays told,                                            *)
LEMMA ToldStays ==
  ASSUME RowsGrow, UNCHANGED summary, NEW n, NEW acts, ToldIn(summary, rows, n, acts)
  PROVE  ToldIn(summary', rows', n, acts)
BY SplitStays DEF ToldIn

(* also of fewer actions,                                                  *)
LEMMA ToldLess ==
  ASSUME NEW lines, NEW rs, NEW n, NEW acts, NEW less, less \subseteq acts, ToldIn(lines, rs, n, acts)
  PROVE  ToldIn(lines, rs, n, less)
BY DEF ToldIn

\* A step that leaves the places and what was played.
PlacesStay == RowsGrow /\ UNCHANGED <<summary, played, nodes, over>> /\ run.visits \subseteq run'.visits
SameTurn == hand'.node = hand.node /\ hand'.plan = hand.plan /\ hand'.turn = hand.turn

(* and of all places.                                                      *)
LEMMA PlacesToldStay ==
  ASSUME PlacesStay, MovesTold, EndTold, NodesLeft
  PROVE  MovesTold' /\ EndTold' /\ NodesLeft'
<1>1. ASSUME NEW n, Finished(n) PROVE n \in run'.visits /\ ToldIn(summary', rows', n, ActsIn(played', n))
  <2>1. ToldIn(summary, rows, n, ActsIn(played, n)) /\ n \in run.visits
    BY <1>1 DEF Finished
  <2>2. ToldIn(summary', rows', n, ActsIn(played, n))
    BY <2>1, ToldStays DEF PlacesStay
  <2> QED BY <2>1, <2>2 DEF PlacesStay
<1>2. MovesTold'
  BY <1>1 DEF MovesTold, PlacesStay, Finished
<1>3. EndTold'
  BY <1>1 DEF EndTold, PlacesStay, Finished
<1>4. NodesLeft'
  BY DEF NodesLeft, PlacesStay
<1> QED BY <1>2, <1>3, <1>4

(* A step that keeps the turn keeps what is said of it.                    *)
LEMMA TurnStays ==
  ASSUME UNCHANGED <<played, nodes>>, SameTurn
  PROVE  ActsSoFar' = ActsSoFar /\ (Leaves' <=> Leaves)
BY DEF SameTurn, ActsSoFar, Leaves

\* One that goes on with the same label, or drops the turn.
LEMMA VisitWork ==
  ASSUME MemoryTypeOK, RowInv, VisitInv, NEW t \in TurnNos, Work(t)
  PROVE  VisitInv'
<1>1. UNCHANGED <<summary, played, nodes, over, active, hand>>
  BY WorkIs DEF WorkFrame
<1>2. PlacesStay /\ SameTurn
  BY <1>1, RowsOfWork DEF PlacesStay, SameTurn
<1>3. MovesTold' /\ EndTold' /\ NodesLeft' /\ ActsSoFar' = ActsSoFar /\ (Leaves' <=> Leaves)
  BY <1>1, <1>2, PlacesToldStay, TurnStays DEF VisitInv
<1>4. VisitRead => VisitRead'
  BY <1>1, <1>2, <1>3, SplitStays DEF VisitRead, PlacesStay
<1>5. VisitSeen => VisitSeen'
  BY <1>1, <1>2, <1>3, SplitStays DEF VisitSeen, PlacesStay
<1>6. VisitTold => VisitTold'
  <2>1. ToldIn(summary, rows, hand.node, ActsSoFar) => ToldIn(summary', rows', hand.node, ActsSoFar)
    BY <1>2, ToldStays DEF PlacesStay
  <2> QED BY <1>1, <1>3, <2>1 DEF VisitTold
<1>7. LeavesNow' /\ (MovesOn => MovesOn')
  BY <1>1 DEF VisitInv, LeavesNow, MovesOn
<1> QED BY <1>1, <1>3, <1>4, <1>5, <1>6, <1>7 DEF VisitInv

(* Without a turn in progress the places that were left are told.          *)
LEMMA VisitIdle ==
  ASSUME VisitInv, PlacesStay, UNCHANGED active, hand'.pc = "idle"
  PROVE  VisitInv'
<1>1. MovesTold' /\ EndTold' /\ NodesLeft'
  BY PlacesToldStay DEF VisitInv
<1>2. LeavesNow'
  BY DEF VisitInv, LeavesNow, PlacesStay
<1> QED BY <1>1, <1>2 DEF VisitInv

\* The steps before the visit is written.
LEMMA VisitEarly ==
  ASSUME MemoryTypeOK, PathInv, RowInv, VisitInv,
         Collect \/ Hear \/ WriteHeard \/ Store \/ ReadVisit \/ ReadMemory
  PROVE  VisitInv'
<1>1. EarlyStep /\ RowsGrow
  BY EarlyIs, RowsOfEarly
<1>2. UNCHANGED <<run, summary, played, nodes, over, active>>
  BY <1>1 DEF EarlyStep
<1>3. SameTurn
  <2>1. PICK pc, seen : Moves(pc, seen, hand.visits)
    BY <1>1 DEF EarlyStep
  <2> QED BY <2>1 DEF Moves, SameTurn
<1>4. PlacesStay
  BY <1>1, <1>2 DEF PlacesStay
<1>5. MovesTold' /\ EndTold' /\ NodesLeft' /\ ActsSoFar' = ActsSoFar /\ (Leaves' <=> Leaves)
  BY <1>2, <1>3, <1>4, PlacesToldStay, TurnStays DEF VisitInv
<1>6. /\ hand.pc \notin {"idle", "move"}
      /\ hand'.pc \notin {"leave", "save", "move", "end", "save enter"}
      /\ hand'.pc = "insert" => hand.plan = "act"
  BY <1>1 DEF EarlyStep, Early
<1>7. LeavesNow'
  BY <1>2, <1>6 DEF VisitInv, LeavesNow
<1>8. hand'.pc = "insert" => ~Leaves'
  BY <1>5, <1>6 DEF Leaves
<1>9. hand'.pc = "visit read" => VisitRead'
  <2> SUFFICES ASSUME hand'.pc = "visit read" PROVE VisitRead'
    OBVIOUS
  <2>1. ReadVisit
    BY CollectDoes, HearDoes, WriteHeardDoes, StoreDoes, ReadMemoryDoes
  <2>2. PICK i \in FirstRow(hand.node) : hand'.seen = IF i = 0 THEN {} ELSE rows[i].acts
    BY <2>1, ReadVisitDoes
  <2>3. /\ i # 0 => i \in DOMAIN rows /\ rows[i].node = hand.node
        /\ i = 0 => \A k \in DOMAIN rows : rows[k].node # hand.node
    BY RowsRead
  <2>4. hand.pc = "visit" /\ UNCHANGED rows
    BY <2>1, ReadVisitDoes
  <2>5. ASSUME ~SplitIn(rows, hand.node), NEW turn, Stored(hand.node, turn) PROVE turn \in hand'.seen
    <3>1. PICK j \in DOMAIN rows : rows[j].node = hand.node /\ turn \in rows[j].acts
      BY <2>5 DEF Stored
    <3>2. i = j
      BY <2>3, <2>5, <3>1 DEF SplitIn
    <3> QED BY <2>2, <2>3, <3>1, <3>2
  <2>6. ASSUME NEW turn \in ActsSoFar PROVE Stored(hand.node, turn)
    <3>1. CASE turn \in ActsIn(played, hand.node)
      BY <3>1 DEF ActsIn, RowInv, PlayedStored
    <3>2. CASE hand.plan = "end" /\ turn = hand.turn
      BY <2>4, <3>2 DEF RowInv, TurnStored, Reading
    <3> QED BY <3>1, <3>2 DEF ActsSoFar
  <2>7. SplitIn(rows, hand.node) \/ ActsSoFar \subseteq hand'.seen
    BY <2>5, <2>6
  <2> QED BY <1>3, <1>5, <2>4, <2>7 DEF VisitRead, SameTurn
<1>10. hand'.pc \in {"visit write", "minimal"} => VisitSeen'
  <2> SUFFICES ASSUME hand'.pc \in {"visit write", "minimal"} PROVE VisitSeen'
    OBVIOUS
  <2>1. ReadMemory
    BY CollectDoes, HearDoes, WriteHeardDoes, StoreDoes, ReadVisitDoes
  <2>2. hand.pc = "visit read" /\ UNCHANGED rows
    BY <2>1, ReadMemoryDoes
  <2>3. hand'.seen.acts = hand.seen /\ hand'.seen.summary = summary
    <3>1. hand'.seen = [acts |-> hand.seen, memory |-> memory, summary |-> summary]
      BY <2>1, ReadMemoryDoes
    <3> QED BY ONLY <3>1
  <2>4. VisitRead
    BY <2>2 DEF VisitInv
  <2> QED BY <1>2, <1>3, <1>5, <2>2, <2>3, <2>4 DEF VisitRead, VisitSeen, SameTurn
<1> QED BY <1>5, <1>6, <1>7, <1>8, <1>9, <1>10 DEF VisitInv

(* The steps of a turn keep VisitInv.                                      *)
LEMMA VisitSubmit ==
  ASSUME MemoryTypeOK, VisitInv, NEW plan \in Plans, NEW next \in {None, "HUB", "LOCATION"}, NEW adopt \in BOOLEAN,
         Submit(plan, next, adopt)
  PROVE  VisitInv'
<1>1. /\ hand'.plan = plan /\ hand'.node = Len(nodes) /\ hand'.pc \in {"collect", "leave", "visit"} /\ active
      /\ hand'.pc = "leave" <=> plan = "move" /\ nodes[Len(nodes)] = "HUB"
      /\ UNCHANGED <<run, rows, summary, nodes, active, over, played>>
  BY SubmitIs
<1>2. PlacesStay
  BY <1>1, RowsSame DEF PlacesStay
<1>3. MovesTold' /\ EndTold' /\ NodesLeft'
  BY <1>2, PlacesToldStay DEF VisitInv
<1>4. LeavesNow'
  BY <1>1 DEF VisitInv, LeavesNow
<1>5. hand'.pc = "leave" => ~Leaves'
  BY <1>1 DEF Leaves
<1> QED BY <1>1, <1>3, <1>4, <1>5 DEF VisitInv

(* The line that is written tells of the actions so far.                   *)
LEMMA VisitWriteVisit ==
  ASSUME MemoryTypeOK, PathInv, VisitInv, WriteVisit
  PROVE  VisitInv'
<1>1. /\ hand.pc \in {"visit write", "minimal"} /\ HandIs
      /\ Moves(IF hand.plan = "move" THEN "leave" ELSE "insert", None, hand.visits \union {hand.node})
      /\ hand.seen \in [acts : SUBSET TurnNos, memory : SUBSET Entries, summary : Seq(SummaryLines)]
  BY WriteVisitIs
<1>2. UNCHANGED <<run, rows, nodes, active, over, played>> /\ summary' = Append(hand.seen.summary, Line)
  BY DEF WriteVisit, place
<1>3. PICK pc \in {"leave", "insert"} : Moves(pc, None, hand.visits \union {hand.node})
  BY <1>1
<1>4. hand'.pc = pc /\ hand'.visits = hand.visits \union {hand.node} /\ SameTurn
  BY <1>3 DEF Moves, SameTurn
<1>5. ActsSoFar' = ActsSoFar /\ (Leaves' <=> Leaves)
  BY <1>2, <1>4, TurnStays
<1>6. VisitSeen
  BY <1>1 DEF VisitInv
<1>7. /\ DOMAIN summary' = DOMAIN summary \union {Len(summary) + 1}
      /\ \A k \in DOMAIN summary : summary'[k] = summary[k]
      /\ summary'[Len(summary) + 1] = Line
  <2>1. summary \in Seq(SummaryLines) /\ summary' = Append(summary, Line)
    BY <1>2, <1>6, TypesAre DEF VisitSeen, TypesOfStores
  <2>2. Line \in SummaryLines
    <3>1. hand.node \in Nat /\ hand.seen.acts \in SUBSET TurnNos
      BY <1>1, NodeIs
    <3> QED BY <3>1 DEF Line, SummaryLines
  <2> QED BY <2>1, <2>2, AppendSeq
<1>8. ASSUME NEW n, NEW acts, ToldIn(summary, rows, n, acts) PROVE ToldIn(summary', rows', n, acts)
  BY <1>2, <1>7, <1>8 DEF ToldIn
<1>9. ASSUME NEW n, Finished(n) PROVE n \in run'.visits /\ ToldIn(summary', rows', n, ActsIn(played', n))
  BY <1>2, <1>8, <1>9 DEF Finished
<1>10. MovesTold' /\ EndTold'
  BY <1>2, <1>9 DEF VisitInv, MovesTold, EndTold, Finished
<1>11. NodesLeft' /\ LeavesNow'
  BY <1>1, <1>2 DEF VisitInv, NodesLeft, LeavesNow
<1>12. VisitTold'
  <2>1. ToldIn(summary', rows', hand.node, ActsSoFar)
    <3>1. Line.node = hand.node /\ Line.acts = hand.seen.acts
      BY DEF Line
    <3> QED BY <1>2, <1>6, <1>7, <3>1 DEF VisitSeen, ToldIn
  <2> QED BY <1>4, <1>5, <2>1 DEF VisitTold, SameTurn
<1> QED BY <1>3, <1>4, <1>10, <1>11, <1>12 DEF VisitInv

\* The visit stays told while the turn goes on.
LEMMA VisitGoesOn ==
  ASSUME VisitInv, PlacesStay, UNCHANGED rows, SameTurn, hand'.visits = hand.visits,
         hand.pc \in {"leave", "insert", "save", "end"},
         hand'.pc \in {"insert", "save", "end"}, active' = active \/ ~active'
  PROVE  VisitInv'
<1>1. MovesTold' /\ EndTold' /\ NodesLeft' /\ ActsSoFar' = ActsSoFar /\ (Leaves' <=> Leaves)
  BY PlacesToldStay, TurnStays DEF VisitInv, PlacesStay
<1>2. LeavesNow'
  BY DEF VisitInv, LeavesNow, PlacesStay
<1>3. Leaves => VisitTold'
  BY <1>1, ToldStays DEF VisitInv, VisitTold, PlacesStay, SameTurn
<1> QED BY <1>1, <1>2, <1>3 DEF VisitInv

LEMMA VisitLeave ==
  ASSUME MemoryTypeOK, VisitInv, Leave
  PROVE  VisitInv'
<1>1. hand.pc = "leave" /\ HandIs /\ Moves("insert", None, hand.visits)
  BY LeavingIs
<1>2. UNCHANGED <<run, rows, summary, nodes, over, played>> /\ ~active'
  BY DEF Leave, stores, history
<1>3. PlacesStay
  BY <1>2, RowsSame DEF PlacesStay
<1>4. SameTurn /\ hand'.visits = hand.visits /\ hand'.pc = "insert"
  BY <1>1 DEF Moves, SameTurn
<1> QED BY <1>1, <1>2, <1>3, <1>4, VisitGoesOn

LEMMA VisitInsert ==
  ASSUME MemoryTypeOK, VisitInv, Insert
  PROVE  VisitInv'
<1>1. hand.pc = "insert" /\ HandIs
  BY InsertingIs
<1>2. UNCHANGED <<run, rows, summary, nodes, active, over, played>>
  BY DEF Insert, stores, place, history
<1>3. PlacesStay
  BY <1>2, RowsSame DEF PlacesStay
<1>4. CASE Moves("save", None, hand.visits)
  <2>1. SameTurn /\ hand'.visits = hand.visits /\ hand'.pc = "save"
    BY <1>4 DEF Moves, SameTurn
  <2> QED BY <1>1, <1>2, <1>3, <2>1, VisitGoesOn
<1>5. CASE hand' = Idle
  <2>1. hand'.pc = "idle"
    BY <1>5 DEF Idle
  <2> QED BY <1>2, <1>3, <2>1, VisitIdle
<1> QED BY <1>4, <1>5, InsertingIs

LEMMA VisitEndRun ==
  ASSUME MemoryTypeOK, PathInv, RunInv, VisitInv, EndRun
  PROVE  VisitInv'
<1>1. /\ hand.pc = "end" /\ HandIs /\ hand' = Idle /\ over' = TRUE
      /\ UNCHANGED <<run, rows, summary, nodes, active, played>>
  BY EndRunIs
<1>2. hand'.pc = "idle"
  BY <1>1 DEF Idle
<1>3. hand.node = Len(nodes) /\ hand.plan = "end"
  BY <1>1 DEF PathInv, AtNode
<1>4. VisitTold
  BY <1>1, <1>3 DEF VisitInv, Leaves
<1>5. run.visits = hand.visits
  <2>1. "end" \notin Unsaved
    BY DEF Unsaved, Before, Early
  <2> QED BY <1>1, <2>1 DEF RunInv, BaseInv
<1>6. Finished(Len(nodes))
  <2>1. ActsIn(played, hand.node) \subseteq ActsSoFar
    BY DEF ActsSoFar
  <2>2. ToldIn(summary, rows, hand.node, ActsIn(played, hand.node))
    BY <1>4, <2>1, ToldLess DEF VisitTold
  <2> QED BY <1>3, <1>4, <1>5, <2>2 DEF Finished, VisitTold
<1>7. EndTold'
  BY <1>1, <1>6 DEF EndTold, Finished
<1>8. MovesTold' /\ NodesLeft'
  BY <1>1 DEF VisitInv, MovesTold, NodesLeft, Finished
<1>9. LeavesNow'
  BY <1>1, <1>2 DEF VisitInv, LeavesNow
<1> QED BY <1>2, <1>7, <1>8, <1>9 DEF VisitInv

(* A turn that was played is one of those the line tells of.               *)
LEMMA VisitSave ==
  ASSUME MemoryTypeOK, NumberInv, PathInv, RunInv, VisitInv, Save
  PROVE  VisitInv'
<1>1. /\ hand.pc = "save" /\ HandIs
      /\ IF hand.plan = "act" THEN hand' = Idle ELSE Moves(hand.plan, None, hand.visits)
  BY SavingIs
<1>2. /\ UNCHANGED <<rows, summary, nodes, active, over>>
      /\ played' = played \union {[turn |-> hand.turn, node |-> hand.node, plan |-> hand.plan]}
  BY DEF Save
<1>3. run'.visits = hand.visits /\ run.visits \subseteq run'.visits
  <2>1. run' = Result(IF hand.adopt THEN NoBeats ELSE run.beats)
    BY SaveTypes
  <2>2. "save" \in Unsaved
    BY DEF Unsaved
  <2>3. run.visits \subseteq hand.visits
    BY <1>1, <2>2 DEF RunInv, BaseInv
  <2> QED BY <2>1, <2>3 DEF Result
<1>4. /\ hand.node = Len(nodes) /\ ~over /\ hand.node \in DOMAIN nodes
      /\ active <=> hand.plan # "move"
  <2>1. hand.pc \notin Reading \union {"leave", "save enter"}
    BY <1>1 DEF Reading
  <2> QED BY <1>1, <2>1 DEF PathInv, AtNode, NumberInv, HandIs
<1> DEFINE new == [turn |-> hand.turn, node |-> hand.node, plan |-> hand.plan]
<1>5. new.turn = hand.turn /\ new.node = hand.node /\ new.plan = hand.plan /\ played' = played \union {new}
  BY <1>2
<1> HIDE DEF new
<1>6. \A p \in played : p.plan = "move" => p.node # hand.node
  BY <1>1, <1>4 DEF VisitInv, LeavesNow
<1>7. \A n : n # hand.node => ActsIn(played', n) = ActsIn(played, n)
  BY <1>5 DEF ActsIn
<1>8. ActsIn(played', hand.node) = IF hand.plan = "move" THEN ActsIn(played, hand.node)
                                   ELSE ActsIn(played, hand.node) \union {hand.turn}
  BY <1>5 DEF ActsIn
<1>9. hand.plan \in {"move", "end"} => ActsIn(played', hand.node) = ActsSoFar
  BY <1>8 DEF ActsSoFar
<1>10. Leaves => ToldIn(summary', rows', hand.node, ActsSoFar) /\ hand.node \in hand.visits
  BY <1>1, <1>2 DEF VisitInv, VisitTold
<1>11. MovesTold'
  <2> SUFFICES ASSUME NEW p \in played', p.plan = "move", nodes[p.node] = "LOCATION"
               PROVE  p.node \in run'.visits /\ ToldIn(summary', rows', p.node, ActsIn(played', p.node))
    BY <1>2 DEF MovesTold, Finished
  <2>1. CASE p \in played
    <3>1. Finished(p.node) /\ p.node # hand.node
      BY <1>6, <2>1 DEF VisitInv, MovesTold
    <3>2. ActsIn(played', p.node) = ActsIn(played, p.node)
      BY <1>7, <3>1
    <3> QED BY <1>2, <1>3, <3>1, <3>2 DEF Finished
  <2>2. CASE p = new
    <3>1. Leaves /\ hand.plan = "move"
      BY <1>5, <2>2 DEF Leaves
    <3> QED BY <1>3, <1>5, <1>9, <1>10, <2>2, <3>1
  <2> QED BY <1>5, <2>1, <2>2
<1>12. EndTold'
  BY <1>2, <1>4 DEF EndTold
<1>13. NodesLeft'
  BY <1>2, <1>5 DEF VisitInv, NodesLeft
<1>14. CASE hand.plan = "act"
  <2>1. hand'.pc = "idle"
    BY <1>1, <1>14 DEF Idle
  <2>2. LeavesNow'
    BY <1>2, <1>4, <1>5, <1>6, <1>14 DEF LeavesNow
  <2> QED BY <2>1, <2>2, <1>11, <1>12, <1>13 DEF VisitInv
<1>15. CASE hand.plan # "act"
  <2>1. SameTurn /\ hand'.visits = hand.visits /\ hand'.pc = hand.plan /\ hand.plan \in {"move", "end"}
    BY <1>1, <1>15 DEF Moves, HandIs, Plans, SameTurn
  <2>2. LeavesNow'
    BY <1>2, <1>4, <1>5, <1>6, <2>1 DEF LeavesNow
  <2>3. hand'.pc = "move" => MovesOn'
    BY <1>5, <2>1 DEF MovesOn, SameTurn
  <2>4. Leaves' <=> Leaves
    BY <1>2, <2>1 DEF Leaves, SameTurn
  <2>5. Leaves => VisitTold'
    <3>1. ActsSoFar' = ActsSoFar
      BY <1>9, <2>1 DEF ActsSoFar, SameTurn
    <3> QED BY <1>10, <2>1, <3>1 DEF VisitTold, SameTurn
  <2> QED BY <2>1, <2>2, <2>3, <2>4, <2>5, <1>11, <1>12, <1>13 DEF VisitInv
<1> QED BY <1>14, <1>15

(* The node that was the last was left.                                    *)
LEMMA VisitEnter ==
  ASSUME MemoryTypeOK, NumberInv, PathInv, VisitInv, Enter
  PROVE  VisitInv'
<1>1. hand.pc = "move" /\ HandIs /\ Moves("save enter", None, hand.visits)
  BY EnteringIs
<1>2. hand'.pc = "save enter" /\ SameTurn /\ hand'.visits = hand.visits
  BY <1>1 DEF Moves, SameTurn
<1>3. UNCHANGED <<run, rows, summary, over, played>> /\ ~over
  BY <1>1 DEF Enter, stores, history, NumberInv
<1>4. /\ Len(nodes') = Len(nodes) + 1 /\ hand.node = Len(nodes)
      /\ \A n \in DOMAIN nodes : nodes'[n] = nodes[n]
      /\ MemoryTypeOK'
  BY EnterTypes
<1>5. /\ Len(nodes) \in Nat /\ DOMAIN nodes = 1..Len(nodes) /\ DOMAIN nodes' = 1..(Len(nodes) + 1)
  BY <1>4 DEF MemoryTypeOK
<1>6. \A p \in played : p.node \in DOMAIN nodes /\ p.node # Len(nodes')
  <2>1. \A p \in played : p.node \in DOMAIN nodes
    BY DEF MemoryTypeOK
  <2> QED BY <2>1, <1>4, <1>5
<1>7. MovesTold'
  BY <1>3, <1>4, <1>6 DEF VisitInv, MovesTold, Finished
<1>8. EndTold'
  BY <1>3 DEF EndTold
<1>9. NodesLeft'
  <2> SUFFICES ASSUME NEW n \in DOMAIN nodes', n # Len(nodes') PROVE \E p \in played : p.node = n /\ p.plan = "move"
    BY <1>3 DEF NodesLeft
  <2>1. n \in DOMAIN nodes
    BY <1>4, <1>5
  <2>2. CASE n = Len(nodes)
    BY <1>1, <1>4, <2>2 DEF VisitInv, MovesOn
  <2>3. CASE n # Len(nodes)
    BY <2>1, <2>3 DEF VisitInv, NodesLeft
  <2> QED BY <2>2, <2>3
<1>10. LeavesNow'
  BY <1>3, <1>6 DEF LeavesNow
<1>11. Leaves' => VisitTold'
  <2>1. hand.node \in DOMAIN nodes
    BY <1>1 DEF HandIs
  <2>2. Leaves' <=> Leaves
    BY <1>2, <1>4, <2>1 DEF Leaves, SameTurn
  <2>3. ActsSoFar' = ActsSoFar
    BY <1>2, <1>3 DEF ActsSoFar, SameTurn
  <2>4. Leaves => VisitTold
    BY <1>1 DEF VisitInv
  <2> QED BY <1>2, <1>3, <2>2, <2>3, <2>4 DEF VisitTold, SameTurn
<1> QED BY <1>2, <1>7, <1>8, <1>9, <1>10, <1>11 DEF VisitInv

(* The last steps, and a restart.                                          *)
LEMMA VisitLast ==
  ASSUME MemoryTypeOK, PathInv, RunInv, VisitInv, SaveEnter \/ Crash
  PROVE  VisitInv'
<1>1. hand' = Idle /\ UNCHANGED <<rows, summary, nodes, active, over, played>>
  BY SaveEnterTypes, CrashIs
<1>2. run'.visits = run.visits
  <2>1. CASE SaveEnter
    <3>1. hand.pc = "save enter" /\ run' = Result(hand.base.beats)
      BY <2>1, SaveEnterTypes
    <3>2. "save enter" \notin Unsaved
      BY DEF Unsaved, Before, Early
    <3>3. run.visits = hand.visits
      BY <3>1, <3>2 DEF RunInv, BaseInv
    <3> QED BY <3>1, <3>3 DEF Result
  <2> QED BY <2>1, CrashIs
<1>3. PlacesStay /\ hand'.pc = "idle"
  BY <1>1, <1>2, RowsSame DEF PlacesStay, Idle
<1> QED BY <1>1, <1>3, VisitIdle

-----------------------------------------------------------------------------

(* The lines.                                                              *)

Telling == hand.pc \in {"leave", "insert", "save", "move", "end"} /\ hand.plan # "act"

(* A step that leaves the lines, the nodes and the restarts keeps LineInv  *)
(* when LineNow goes on.                                                   *)
LEMMA LinesFrame ==
  ASSUME LineInv, UNCHANGED <<summary, nodes, over, restarts>>, restarts = 0 /\ Telling => Telling'
  PROVE  LineInv'
BY DEF LineInv, LinesApart, LinesKnown, LineNow, Telling

(* Every step keeps it.                                                    *)
LEMMA LinesWork ==
  ASSUME MemoryTypeOK, LineInv, NEW t \in TurnNos, Work(t)
  PROVE  LineInv'
<1>1. UNCHANGED <<summary, nodes, over, restarts, hand>>
  BY WorkIs DEF WorkFrame
<1>2. Telling' <=> Telling
  BY <1>1 DEF Telling
<1> QED BY <1>1, <1>2, LinesFrame

LEMMA LinesTurn ==
  ASSUME MemoryTypeOK, NumberInv, PathInv, LineInv,
         \/ EarlyStep \/ Leave \/ Insert \/ Save \/ SaveEnter
  PROVE  LineInv'
<1>1. CASE EarlyStep
  <2>1. UNCHANGED <<summary, nodes, over, restarts>> /\ ~Telling
    BY <1>1 DEF EarlyStep, Early, Telling
  <2> QED BY <2>1, LinesFrame
<1>2. CASE Leave
  <2>1. hand.pc = "leave" /\ Moves("insert", None, hand.visits)
    BY <1>2, LeavingIs
  <2>2. UNCHANGED <<summary, nodes, over, restarts>>
    BY <1>2 DEF Leave, stores
  <2>3. hand'.pc = "insert" /\ hand'.plan = hand.plan
    BY <2>1 DEF Moves
  <2> QED BY <2>2, <2>3, LinesFrame DEF Telling
<1>3. CASE Insert
  <2>1. restarts = 0 => Moves("save", None, hand.visits)
    BY <1>3, NumbersInsert
  <2>2. UNCHANGED <<summary, nodes, over, restarts>>
    BY <1>3 DEF Insert, stores, place
  <2>3. restarts = 0 => hand'.pc = "save" /\ hand'.plan = hand.plan
    BY <2>1 DEF Moves
  <2> QED BY <2>2, <2>3, LinesFrame DEF Telling
<1>4. CASE Save
  <2>1. HandIs /\ IF hand.plan = "act" THEN hand' = Idle ELSE Moves(hand.plan, None, hand.visits)
    BY <1>4, SavingIs
  <2>2. UNCHANGED <<summary, nodes, over, restarts>>
    BY <1>4 DEF Save
  <2>3. hand.plan # "act" => hand'.pc = hand.plan /\ hand'.plan = hand.plan /\ hand.plan \in {"move", "end"}
    BY <2>1 DEF Moves, HandIs, Plans
  <2> QED BY <2>2, <2>3, LinesFrame DEF Telling
<1>5. CASE SaveEnter
  <2>1. hand.pc = "save enter" /\ UNCHANGED <<summary, nodes, over, restarts>>
    BY <1>5, SaveEnterTypes
  <2> QED BY <2>1, LinesFrame DEF Telling
<1> QED BY <1>1, <1>2, <1>3, <1>4, <1>5

LEMMA LinesSubmit ==
  ASSUME MemoryTypeOK, LineInv, NEW plan \in Plans, NEW next \in {None, "HUB", "LOCATION"}, NEW adopt \in BOOLEAN,
         Submit(plan, next, adopt)
  PROVE  LineInv'
<1>1. hand = Idle /\ UNCHANGED <<summary, nodes, over, restarts>>
  BY SubmitIs
<1>2. ~Telling
  BY <1>1 DEF Telling, Idle
<1> QED BY <1>1, <1>2, LinesFrame

(* Without a restart the place has no line before.                         *)
LEMMA LinesWriteVisit ==
  ASSUME MemoryTypeOK, NumberInv, PathInv, VisitInv, LineInv, WriteVisit
  PROVE  LineInv'
<1>1. /\ hand.pc \in {"visit write", "minimal"} /\ HandIs
      /\ Moves(IF hand.plan = "move" THEN "leave" ELSE "insert", None, hand.visits \union {hand.node})
      /\ hand.seen \in [acts : SUBSET TurnNos, memory : SUBSET Entries, summary : Seq(SummaryLines)]
  BY WriteVisitIs
<1>2. UNCHANGED <<nodes, over, restarts>> /\ summary' = Append(hand.seen.summary, Line)
  BY DEF WriteVisit, place
<1>3. PICK pc \in {"leave", "insert"} : Moves(pc, None, hand.visits \union {hand.node})
  BY <1>1
<1>4. hand'.pc = pc /\ hand'.plan = hand.plan
  BY <1>3 DEF Moves
<1>5. /\ DOMAIN summary' = DOMAIN summary \union {Len(summary) + 1}
      /\ \A k \in DOMAIN summary : summary'[k] = summary[k]
      /\ summary'[Len(summary) + 1] = Line
  <2>1. summary \in Seq(SummaryLines) /\ summary' = Append(summary, Line)
    BY <1>1, <1>2, TypesAre DEF VisitInv, VisitSeen, TypesOfStores
  <2>2. Line \in SummaryLines
    <3>1. hand.node \in Nat /\ hand.seen.acts \in SUBSET TurnNos
      BY <1>1, NodeIs
    <3> QED BY <3>1 DEF Line, SummaryLines
  <2> QED BY <2>1, <2>2, AppendSeq
<1>6. /\ hand.node = Len(nodes) /\ hand.node \in DOMAIN nodes /\ ~over
      /\ hand.plan # "act"
  <2>1. Leaves
    BY <1>1 DEF PathInv, Reading
  <2> QED BY <1>1, <2>1 DEF PathInv, AtNode, HandIs, NumberInv, Leaves
<1>7. Telling'
  BY <1>3, <1>4, <1>6 DEF Telling
<1>8. ASSUME restarts = 0 PROVE LinesApart' /\ LinesKnown' /\ LineNow'
  <2>1. LinesApart /\ LinesKnown /\ LineNow
    BY <1>8 DEF LineInv
  <2>2. \A k \in DOMAIN summary : summary[k].node # hand.node
    BY <1>1, <1>6, <2>1 DEF LineNow
  <2>3. Line.node = hand.node
    BY DEF Line
  <2>4. LinesApart'
    BY <1>5, <2>1, <2>2, <2>3 DEF LinesApart
  <2>5. LinesKnown'
    BY <1>2, <1>5, <1>6, <2>1, <2>3 DEF LinesKnown
  <2>6. LineNow'
    BY <1>7 DEF LineNow, Telling
  <2> QED BY <2>4, <2>5, <2>6
<1> QED BY <1>2, <1>8 DEF LineInv

LEMMA LinesRest ==
  ASSUME MemoryTypeOK, PathInv, LineInv, EndRun \/ Enter \/ Crash
  PROVE  LineInv'
<1>1. CASE EndRun
  <2>1. UNCHANGED <<summary, nodes, restarts>> /\ over' = TRUE
    BY <1>1, EndRunIs
  <2> QED BY <2>1 DEF LineInv, LinesApart, LinesKnown, LineNow
<1>2. CASE Enter
  <2>1. /\ Len(nodes') = Len(nodes) + 1 /\ DOMAIN nodes \subseteq DOMAIN nodes'
        /\ UNCHANGED <<summary, restarts>>
    BY <1>2, EnterTypes DEF Enter, stores
  <2>2. Len(nodes) \in Nat /\ DOMAIN nodes = 1..Len(nodes)
    BY DEF MemoryTypeOK
  <2>3. Len(nodes') \notin DOMAIN nodes
    BY <2>1, <2>2
  <2> QED BY <2>1, <2>3 DEF LineInv, LinesApart, LinesKnown, LineNow
<1>3. CASE Crash
  <2>1. restarts' = restarts + 1 /\ restarts \in Nat
    BY <1>3, CrashIs, NumbersAre
  <2>2. restarts' # 0
    BY <2>1
  <2> QED BY <2>2 DEF LineInv
<1> QED BY <1>1, <1>2, <1>3

-----------------------------------------------------------------------------

(* What was told.                                                          *)

Holds == {"know write", "facts write", "thread write"}
Hears == {"hear write", "visit write"}

\* A task keeps its turn, and what it holds while it is to write.
TasksKept ==
  \A u \in TurnNos :
    /\ task[u].pc # "none" => task'[u].pc # "none" /\ task'[u].node = task[u].node
    /\ task[u].pc = "none" /\ task'[u].pc # "none" => task'[u].node \in DOMAIN nodes'
TasksGo == TasksKept /\ \A u \in TurnNos : task'[u].pc \in Holds => task'[u] = task[u]

(* What a step must leave for each part of ToldInv to stay.                *)
LEMMA HeardFrame ==
  ASSUME HeardInv, UNCHANGED memory, RunRow \in overlapped => RunRow \in overlapped',
         \A e : e[1] # "thread" => (e \in told' <=> e \in told),
         \A u \in TurnNos : task'[u].pc \in {"know write", "facts write"} => task'[u].seen = memory \/ task'[u] = task[u],
         hand'.pc \in Hears => hand'.seen.memory = memory \/ hand' = hand
  PROVE  HeardInv'
<1> SUFFICES ASSUME RunRow \notin overlapped'
             PROVE  MemoryTold' /\ TasksHear' /\ (hand'.pc \in Hears => hand'.seen.memory = memory)
  BY DEF HeardInv, Hears
<1>1. MemoryTold /\ TasksHear /\ (hand.pc \in Hears => hand.seen.memory = memory)
  BY DEF HeardInv, Hears
<1>2. MemoryTold'
  BY <1>1 DEF MemoryTold
<1>3. TasksHear'
  BY <1>1 DEF TasksHear
<1> QED BY <1>1, <1>2, <1>3

LEMMA PlacedFrame ==
  ASSUME TasksPlaced, TasksKept, DOMAIN nodes \subseteq DOMAIN nodes',
         \A t \in TurnNos : <<"thread", t>> \in told' => <<"thread", t>> \in told \/ task[t].pc # "none"
  PROVE  TasksPlaced'
BY DEF TasksPlaced, TasksKept

\* A step that leaves rows and tells no thread.
LEMMA ThreadsFrame ==
  ASSUME TasksPlaced, RowsPlaced, ThreadsSeen, ThreadsTold, UNCHANGED rows, TasksKept,
         \A t \in TurnNos : task'[t].pc = "thread write" =>
           task'[t] = task[t] \/ (task'[t].seen.row # 0 => task'[t].seen.thread = rows[task'[t].seen.row].thread),
         DOMAIN nodes \subseteq DOMAIN nodes', overlapped \subseteq overlapped',
         \A t \in TurnNos : <<"thread", t>> \in told' <=> <<"thread", t>> \in told
  PROVE  RowsPlaced' /\ ThreadsSeen' /\ ThreadsTold'
<1>1. RowsPlaced'
  BY DEF RowsPlaced
<1>2. ThreadsSeen'
  <2> SUFFICES ASSUME NEW t \in TurnNos, task'[t].pc = "thread write", task'[t].seen.row # 0,
                      task'[t].node \notin overlapped'
               PROVE  task'[t].seen.thread = rows[task'[t].seen.row].thread
    BY DEF ThreadsSeen
  <2> QED BY DEF ThreadsSeen
<1>3. ThreadsTold'
  <2> SUFFICES ASSUME NEW n \in DOMAIN nodes', n \notin overlapped', NEW t \in TurnNos
               PROVE  <<"thread", t>> \in told /\ task'[t].node = n <=> HasThread(rows, n, t)
    BY DEF ThreadsTold
  <2>1. <<"thread", t>> \in told => task'[t].node = task[t].node /\ task[t].node \in DOMAIN nodes
    BY DEF TasksPlaced, TasksKept
  <2>2. CASE n \in DOMAIN nodes
    BY <2>1, <2>2 DEF ThreadsTold
  <2>3. CASE n \notin DOMAIN nodes
    BY <2>1, <2>3 DEF RowsPlaced, HasThread
  <2> QED BY <2>2, <2>3
<1> QED BY <1>1, <1>2, <1>3

LEMMA ToldFrame ==
  ASSUME ToldInv, UNCHANGED <<memory, told, overlapped, rows>>, TasksGo, DOMAIN nodes \subseteq DOMAIN nodes',
         hand'.pc \in Hears => hand'.seen.memory = memory \/ hand' = hand
  PROVE  ToldInv'
<1>1. HeardInv'
  BY HeardFrame DEF ToldInv, TasksGo, Holds
<1>2. TasksPlaced'
  BY PlacedFrame DEF ToldInv, TasksGo
<1>3. RowsPlaced' /\ ThreadsSeen' /\ ThreadsTold'
  BY ThreadsFrame DEF ToldInv, TasksGo, Holds
<1> QED BY <1>1, <1>2, <1>3 DEF ToldInv

(* Tasks keep their nodes.                                                 *)
LEMMA TasksStay ==
  ASSUME UNCHANGED task
  PROVE  TasksGo
BY DEF TasksGo, TasksKept

\* A writer of structuredMemory that is the only one.
Busy == {t \in TurnNos : task[t].pc \in {"know write", "facts write"}} \union (IF hand.pc \in Hears THEN {Handler} ELSE {})

(* A writer that is alone has read what is there,                          *)
LEMMA RememberDoes ==
  ASSUME NEW p, NEW seen, NEW entry, entry[1] # "thread", Remember(p, seen, entry)
  PROVE  /\ memory' = seen \union {entry} /\ told' = told \union {entry}
         /\ \A u : <<"thread", u>> \in told' <=> <<"thread", u>> \in told
         /\ overlapped \subseteq overlapped' /\ overlapped' \subseteq overlapped \union {RunRow}
         /\ RunRow \notin overlapped' => RunRow \notin overlapped /\ Busy = {p}
<1>1. memory' = seen \union {entry} /\ told' = told \union {entry}
  BY DEF Remember
<1>2. overlapped' = IF Busy = {p} THEN overlapped ELSE overlapped \union {RunRow}
  BY DEF Remember, Busy, Hears
<1>3. \A u : <<"thread", u>> # entry
  <2>1. ASSUME NEW u PROVE <<"thread", u>>[1] = "thread"
    OBVIOUS
  <2> QED BY <2>1
<1> QED BY <1>1, <1>2, <1>3

(* so that nothing is lost unless another writer is noted in overlapped.   *)
LEMMA HeardRemember ==
  ASSUME HeardInv, NEW p, NEW seen, NEW entry, entry[1] # "thread",
         Remember(p, seen, entry), RunRow \notin overlapped => seen = memory,
         \A u \in TurnNos : u # p => task'[u] = task[u],
         p \in TurnNos => task'[p].pc \notin {"know write", "facts write"},
         hand'.pc \in Hears => p # Handler /\ hand' = hand
  PROVE  HeardInv'
<1> SUFFICES ASSUME RunRow \notin overlapped'
             PROVE  MemoryTold' /\ TasksHear' /\ hand'.pc \notin Hears
  BY DEF HeardInv, Hears
<1>1. /\ memory' = seen \union {entry} /\ told' = told \union {entry}
      /\ RunRow \notin overlapped /\ Busy = {p}
  BY RememberDoes
<1>2. MemoryTold /\ seen = memory
  BY <1>1 DEF HeardInv
<1>3. MemoryTold'
  BY <1>1, <1>2 DEF MemoryTold
<1>4. \A u \in TurnNos : task[u].pc \in {"know write", "facts write"} => u = p
  BY <1>1 DEF Busy
<1>5. TasksHear'
  BY <1>4 DEF TasksHear
<1>6. hand'.pc \notin Hears
  BY <1>1 DEF Busy
<1> QED BY <1>3, <1>5, <1>6

-----------------------------------------------------------------------------

(* Every step keeps ToldInv.                                               *)
LEMMA ToldEarly ==
  ASSUME MemoryTypeOK, PathInv, RowInv, ToldInv,
         Collect \/ Hear \/ WriteHeard \/ Store \/ ReadVisit \/ ReadMemory
  PROVE  ToldInv'
<1>1. UNCHANGED <<nodes, task>> /\ TasksGo /\ DOMAIN nodes \subseteq DOMAIN nodes'
  BY EarlyIs, TasksStay DEF EarlyStep
<1>2. CASE Collect \/ ReadVisit
  <2>1. hand'.pc \notin Hears /\ UNCHANGED <<memory, told, overlapped, rows>>
    BY <1>2, CollectDoes, ReadVisitDoes DEF Hears, HandRest
  <2> QED BY <1>1, <2>1, ToldFrame
<1>3. CASE Hear
  <2>1. UNCHANGED <<memory, told, overlapped, rows>> /\ hand.pc = "hear" /\ "hear" \in HandLabels
    BY <1>3, HearDoes DEF HandRest, HandLabels
  <2>2. hand'.pc \in Hears => hand'.seen = [hand.seen EXCEPT !.memory = memory]
    BY <1>3, HearDoes DEF Hears
  <2>3. hand.seen \in [row : Nat, acts : SUBSET TurnNos, memory : SUBSET Entries]
    BY <2>1, HandHere DEF HandSeen
  <2>4. [hand.seen EXCEPT !.memory = memory].memory = memory
    BY ONLY <2>3
  <2>5. hand'.pc \in Hears => hand'.seen.memory = memory
    BY ONLY <2>2, <2>4
  <2> QED BY <1>1, <2>1, <2>5, ToldFrame
<1>4. CASE ReadMemory
  <2>1. UNCHANGED <<memory, told, overlapped, rows>>
    BY <1>4, ReadMemoryDoes DEF HandRest
  <2>2. hand'.seen.memory = memory
    <3>1. hand'.seen = [acts |-> hand.seen, memory |-> memory, summary |-> summary]
      BY <1>4, ReadMemoryDoes
    <3> QED BY ONLY <3>1
  <2> QED BY <1>1, <2>1, <2>2, ToldFrame
<1>5. CASE WriteHeard
  <2>1. /\ hand.pc = "hear write" /\ hand'.pc = "store" /\ UNCHANGED rows
        /\ Remember(Handler, hand.seen.memory, <<"heard", hand.turn>>)
    BY <1>5, WriteHeardDoes
  <2> DEFINE entry == <<"heard", hand.turn>>
  <2>2. entry[1] # "thread" /\ Remember(Handler, hand.seen.memory, entry)
    BY <2>1
  <2> HIDE DEF entry
  <2>3. Handler \notin TurnNos /\ hand'.pc \notin Hears
    <3>1. Handler \notin TurnNos
      BY MemoryAssumption DEF Handler, TurnNos
    <3> QED BY <2>1, <3>1 DEF Hears
  <2>4. RunRow \notin overlapped => hand.seen.memory = memory
    BY <2>1 DEF ToldInv, HeardInv
  <2>5. HeardInv'
    BY <1>1, <2>2, <2>3, <2>4, HeardRemember DEF ToldInv
  <2>6. (\A u : <<"thread", u>> \in told' <=> <<"thread", u>> \in told) /\ overlapped \subseteq overlapped'
    BY <2>2, RememberDoes
  <2>7. TasksPlaced'
    BY <1>1, <2>6, PlacedFrame DEF ToldInv, TasksGo
  <2>8. RowsPlaced' /\ ThreadsSeen' /\ ThreadsTold'
    BY <1>1, <2>1, <2>6, ThreadsFrame DEF ToldInv, TasksGo, Holds
  <2> QED BY <2>5, <2>7, <2>8 DEF ToldInv
<1>6. CASE Store
  <2>1. UNCHANGED <<memory, told, overlapped>> /\ hand.pc = "store" /\ hand'.pc \notin Hears /\ "store" \in HandLabels
    BY <1>6, StoreDoes DEF HandRest, Hears, HandLabels
  <2>2. PICK k \in Nat :
           WritesRow(k, [node |-> hand.node, acts |-> hand.seen.acts \union {hand.turn},
                         thread |-> IF k \in DOMAIN rows THEN rows[k].thread ELSE {}])
    BY <1>6, StoreWrites
  <2> DEFINE row == [node |-> hand.node, acts |-> hand.seen.acts \union {hand.turn},
                     thread |-> IF k \in DOMAIN rows THEN rows[k].thread ELSE {}]
  <2>3. row.node = hand.node /\ row.thread = IF k \in DOMAIN rows THEN rows[k].thread ELSE {}
    OBVIOUS
  <2>4. WritesRow(k, row)
    BY <2>2
  <2> HIDE DEF row
  <2>5. hand.node \in DOMAIN nodes
    BY <2>1, HandHere DEF HandIs
  <2>6. \A i \in DOMAIN rows : rows'[i].node = rows[i].node /\ rows'[i].thread = rows[i].thread
    BY <2>3, <2>4 DEF WritesRow
  <2>7. RowsPlaced'
    BY <1>1, <2>3, <2>4, <2>5, <2>6 DEF ToldInv, RowsPlaced, WritesRow
  <2>8. \A n, t : HasThread(rows', n, t) <=> HasThread(rows, n, t)
    BY <2>3, <2>4, <2>6 DEF HasThread, WritesRow
  <2>9. ThreadsTold'
    BY <1>1, <2>1, <2>8 DEF ToldInv, ThreadsTold
  <2>10. ThreadsSeen'
    <3> SUFFICES ASSUME NEW t \in TurnNos, task[t].pc = "thread write", task[t].seen.row # 0, task[t].node \notin overlapped
                 PROVE  task[t].seen.thread = rows'[task[t].seen.row].thread
      BY <1>1, <2>1 DEF ThreadsSeen
    <3>1. task[t].seen.row \in DOMAIN rows
      BY DEF RowInv, ThreadRows
    <3> QED BY <2>6, <3>1 DEF ToldInv, ThreadsSeen
  <2>11. HeardInv' /\ TasksPlaced'
    BY <1>1, <2>1, HeardFrame, PlacedFrame DEF ToldInv, TasksGo, Holds
  <2> QED BY <2>7, <2>9, <2>10, <2>11 DEF ToldInv
<1> QED BY <1>2, <1>3, <1>4, <1>5, <1>6

LEMMA ToldSubmit ==
  ASSUME MemoryTypeOK, ToldInv, NEW plan \in Plans, NEW next \in {None, "HUB", "LOCATION"}, NEW adopt \in BOOLEAN,
         Submit(plan, next, adopt)
  PROVE  ToldInv'
<1>1. hand'.pc \in {"collect", "leave", "visit"} /\ UNCHANGED <<memory, told, overlapped, rows, task, nodes>>
  BY SubmitIs
<1>2. hand'.pc \notin Hears
  BY <1>1 DEF Hears
<1> QED BY <1>1, <1>2, TasksStay, ToldFrame

LEMMA ToldWriteVisit ==
  ASSUME MemoryTypeOK, ToldInv, WriteVisit
  PROVE  ToldInv'
<1>1. /\ hand.pc \in {"visit write", "minimal"}
      /\ Moves(IF hand.plan = "move" THEN "leave" ELSE "insert", None, hand.visits \union {hand.node})
  BY WriteVisitIs
<1>2. UNCHANGED <<rows, task, nodes>>
  BY DEF WriteVisit, place
<1>3. PICK pc \in {"leave", "insert"} : Moves(pc, None, hand.visits \union {hand.node})
  BY <1>1
<1>4. hand'.pc = pc
  BY <1>3 DEF Moves
<1>5. hand'.pc \notin Hears /\ TasksGo
  BY <1>2, <1>3, <1>4, TasksStay DEF Hears
<1>6. CASE hand.pc = "minimal"
  <2>1. UNCHANGED <<memory, told, overlapped>>
    BY <1>6 DEF WriteVisit
  <2> QED BY <1>2, <1>5, <2>1, ToldFrame
<1>7. CASE hand.pc = "visit write"
  <2> DEFINE entry == <<"visit", hand.node>>
  <2>2. entry[1] # "thread" /\ Remember(Handler, hand.seen.memory, entry)
    BY <1>7 DEF WriteVisit
  <2> HIDE DEF entry
  <2>3. Handler \notin TurnNos
    BY MemoryAssumption DEF Handler, TurnNos
  <2>4. RunRow \notin overlapped => hand.seen.memory = memory
    BY <1>7 DEF ToldInv, HeardInv
  <2>5. HeardInv'
    BY <1>2, <1>5, <2>2, <2>3, <2>4, HeardRemember DEF ToldInv
  <2>6. (\A u : <<"thread", u>> \in told' <=> <<"thread", u>> \in told) /\ overlapped \subseteq overlapped'
    BY <2>2, RememberDoes
  <2>7. TasksPlaced'
    BY <1>2, <1>5, <2>6, PlacedFrame DEF ToldInv, TasksGo
  <2>8. RowsPlaced' /\ ThreadsSeen' /\ ThreadsTold'
    BY <1>2, <1>5, <2>6, ThreadsFrame DEF ToldInv, TasksGo, Holds
  <2> QED BY <2>5, <2>7, <2>8 DEF ToldInv
<1> QED BY <1>1, <1>6, <1>7

LEMMA ToldRest ==
  ASSUME MemoryTypeOK, NumberInv, PathInv, ToldInv,
         Leave \/ Insert \/ Save \/ EndRun \/ Enter \/ SaveEnter \/ Crash
  PROVE  ToldInv'
<1>1. UNCHANGED <<memory, told, overlapped, rows>>
  BY EndRunIs, SaveEnterTypes, CrashIs DEF Leave, Insert, Save, Enter, stores, history
<1>2. hand'.pc \in {"insert", "save", "idle", "move", "end", "save enter"}
  <2>1. CASE Leave
    <3>1. Moves("insert", None, hand.visits)
      BY <2>1, LeavingIs
    <3> QED BY ONLY <3>1 DEF Moves
  <2>2. CASE Insert
    <3>1. Moves("save", None, hand.visits) \/ hand' = Idle
      BY <2>2, InsertingIs
    <3>2. Moves("save", None, hand.visits) => hand'.pc = "save"
      BY ONLY TRUE DEF Moves
    <3>3. hand' = Idle => hand'.pc = "idle"
      BY ONLY TRUE DEF Idle
    <3> QED BY ONLY <3>1, <3>2, <3>3
  <2>3. CASE Save
    <3>1. HandIs /\ IF hand.plan = "act" THEN hand' = Idle ELSE Moves(hand.plan, None, hand.visits)
      BY <2>3, SavingIs
    <3>2. Moves(hand.plan, None, hand.visits) => hand'.pc = hand.plan
      BY ONLY TRUE DEF Moves
    <3>3. hand' = Idle => hand'.pc = "idle"
      BY ONLY TRUE DEF Idle
    <3>4. hand.plan \in Plans
      BY ONLY <3>1 DEF HandIs
    <3> QED BY ONLY <3>1, <3>2, <3>3, <3>4 DEF Plans
  <2>4. CASE Enter
    <3>1. Moves("save enter", None, hand.visits)
      BY <2>4, EnteringIs
    <3> QED BY ONLY <3>1 DEF Moves
  <2>5. CASE EndRun \/ SaveEnter \/ Crash
    <3>1. hand' = Idle
      BY <2>5, EndRunIs, SaveEnterTypes, CrashIs
    <3> QED BY ONLY <3>1 DEF Idle
  <2> QED BY <2>1, <2>2, <2>3, <2>4, <2>5
<1>3. hand'.pc \notin Hears
  BY <1>2 DEF Hears
<1>4. TasksGo /\ DOMAIN nodes \subseteq DOMAIN nodes'
  <2>1. CASE UNCHANGED <<task, nodes>>
    BY <2>1, TasksStay
  <2>2. CASE Insert
    <3>1. HandIs /\ hand.turn \in TurnNos /\ hand.node \in DOMAIN nodes /\ UNCHANGED nodes /\ DOMAIN task = TurnNos
      BY <2>2, InsertingIs DEF HandIs, Insert, place, MemoryTypeOK
    <3>2. \/ task[hand.turn].pc = "none" /\ task' = [task EXCEPT ![hand.turn] = Job("waiting", hand.node)]
          \/ UNCHANGED task
      BY <2>2, InsertingIs
    <3>3. CASE UNCHANGED task
      BY <3>1, <3>3, TasksStay
    <3>4. CASE task[hand.turn].pc = "none" /\ task' = [task EXCEPT ![hand.turn] = Job("waiting", hand.node)]
      <4>1. task'[hand.turn].pc = "waiting" /\ task'[hand.turn].node = hand.node
        BY <3>1, <3>4 DEF Job
      <4>2. \A u \in TurnNos : u # hand.turn => task'[u] = task[u]
        BY <3>1, <3>4
      <4> QED BY <3>1, <3>4, <4>1, <4>2 DEF TasksGo, TasksKept, Holds
    <3> QED BY <3>2, <3>3, <3>4
  <2>3. CASE Enter
    <3> DEFINE new == hand.turn + 1
    <3>1. /\ new \in TurnNos /\ task[new].pc = "none" /\ DOMAIN nodes \subseteq DOMAIN nodes'
          /\ hand.node = Len(nodes) /\ Len(nodes') = Len(nodes) + 1 /\ DOMAIN task = TurnNos /\ MemoryTypeOK'
      BY <2>3, EnterTypes, NumbersEnter DEF MemoryTypeOK
    <3>2. task' = [task EXCEPT ![new] = Job("waiting", hand.node + 1)]
      BY <2>3 DEF Enter
    <3> HIDE DEF new
    <3>3. hand.node + 1 \in DOMAIN nodes'
      <4>1. Len(nodes) \in Nat /\ DOMAIN nodes' = 1..Len(nodes')
        BY <3>1 DEF MemoryTypeOK
      <4> QED BY ONLY <3>1, <4>1
    <3>4. task'[new].pc = "waiting" /\ task'[new].node = hand.node + 1
      BY <3>1, <3>2 DEF Job
    <3>5. \A u \in TurnNos : u # new => task'[u] = task[u]
      BY <3>1, <3>2
    <3> QED BY <3>1, <3>3, <3>4, <3>5 DEF TasksGo, TasksKept, Holds
  <2>4. CASE Crash
    <3>1. UNCHANGED nodes /\ \A t \in TurnNos :
              /\ task'[t].pc \in {"none", "waiting", "end"} /\ task'[t].node = task[t].node
              /\ task'[t].pc = "none" <=> task[t].pc = "none"
      BY <2>4, CrashIs
    <3> QED BY <3>1 DEF TasksGo, TasksKept, Holds
  <2> QED BY <2>1, <2>2, <2>3, <2>4, EndRunIs, SaveEnterTypes DEF Leave, Save
<1> QED BY <1>1, <1>3, <1>4, ToldFrame

(* A thread is lost only when two tasks of a node write theirs at a time.  *)
LEMMA ToldWork ==
  ASSUME MemoryTypeOK, RowInv, ToldInv, NEW t \in TurnNos, Work(t)
  PROVE  ToldInv'
<1>1. WorkFrame(t) /\ (Reads(t) \/ PatchesRun(t) \/ TellsFacts(t) \/ TellsThread(t))
  BY WorkIs
<1>2. /\ UNCHANGED <<nodes, hand>> /\ DOMAIN nodes \subseteq DOMAIN nodes'
      /\ \A u \in TurnNos : u # t => task'[u] = task[u]
      /\ task[t].pc # "none" /\ task'[t].pc # "none" /\ task'[t].node = task[t].node
  BY <1>1 DEF WorkFrame
<1>3. TasksKept
  BY <1>2 DEF TasksKept
<1>4. ASSUME Rests(t) PROVE TasksGo /\ task'[t].pc \notin Holds
  BY <1>2, <1>3, <1>4 DEF TasksGo, Rests, Plain, Holds
<1>5. CASE Reads(t)
  <2>1. UNCHANGED <<rows, memory, told, overlapped>>
    BY <1>5 DEF Reads
  <2>2. task'[t].pc \in {"know write", "facts write"} => task'[t].seen = memory
    BY <1>5 DEF Reads, Rests, Plain
  <2>3. task'[t].pc = "thread write" /\ task'[t].seen.row # 0 => task'[t].seen.thread = rows[task'[t].seen.row].thread
    <3> SUFFICES ASSUME task'[t].pc = "thread write", task'[t].seen.row # 0
                 PROVE  task'[t].seen.thread = rows[task'[t].seen.row].thread
      OBVIOUS
    <3>1. \E i \in FirstRow(task[t].node) :
             task'[t].seen = IF i = 0 THEN [row |-> 0, acts |-> {}, thread |-> {}]
                             ELSE [row |-> i, acts |-> rows[i].acts, thread |-> rows[i].thread]
      BY <1>5 DEF Reads, Rests, Plain
    <3>2. PICK i \in FirstRow(task[t].node) :
             task'[t].seen = IF i = 0 THEN [row |-> 0, acts |-> {}, thread |-> {}]
                             ELSE [row |-> i, acts |-> rows[i].acts, thread |-> rows[i].thread]
      BY <3>1
    <3>3. CASE i = 0
      <4>1. task'[t].seen = [row |-> 0, acts |-> {}, thread |-> {}]
        BY <3>2, <3>3
      <4>2. task'[t].seen.row = 0
        BY ONLY <4>1
      <4> QED BY <4>2
    <3>4. CASE i # 0
      <4>1. task'[t].seen = [row |-> i, acts |-> rows[i].acts, thread |-> rows[i].thread]
        BY <3>2, <3>4
      <4> QED BY ONLY <4>1
    <3> QED BY <3>3, <3>4
  <2>4. HeardInv'
    BY <1>2, <2>1, <2>2, HeardFrame DEF ToldInv
  <2>5. TasksPlaced'
    BY <1>2, <1>3, <2>1, PlacedFrame DEF ToldInv
  <2>6. RowsPlaced' /\ ThreadsSeen' /\ ThreadsTold'
    BY <1>2, <1>3, <2>1, <2>3, ThreadsFrame DEF ToldInv
  <2> QED BY <2>4, <2>5, <2>6 DEF ToldInv
<1>6. CASE PatchesRun(t)
  <2>1. UNCHANGED <<rows, memory, told, overlapped>> /\ Rests(t)
    BY <1>6 DEF PatchesRun
  <2> QED BY <1>2, <1>4, <2>1, ToldFrame
<1>7. CASE TellsFacts(t)
  <2>1. UNCHANGED rows /\ Rests(t) /\ task[t].pc \in {"know write", "facts write"}
    BY <1>7 DEF TellsFacts
  <2>2. PICK s \in {"know", "facts"} : Remember(t, task[t].seen, <<s, t>>)
    BY <1>7 DEF TellsFacts
  <2> DEFINE entry == <<s, t>>
  <2>3. entry[1] # "thread" /\ Remember(t, task[t].seen, entry)
    BY <2>2
  <2> HIDE DEF entry
  <2>4. t # Handler
    BY MemoryAssumption DEF Handler, TurnNos
  <2>5. RunRow \notin overlapped => task[t].seen = memory
    BY <2>1 DEF ToldInv, HeardInv, TasksHear
  <2>6. task'[t].pc \notin {"know write", "facts write"} /\ TasksGo
    BY <1>4, <2>1 DEF Holds
  <2>7. HeardInv'
    BY <1>2, <2>3, <2>4, <2>5, <2>6, HeardRemember DEF ToldInv
  <2>8. (\A u : <<"thread", u>> \in told' <=> <<"thread", u>> \in told) /\ overlapped \subseteq overlapped'
    BY <2>3, RememberDoes
  <2>9. TasksPlaced'
    BY <1>2, <1>3, <2>8, PlacedFrame DEF ToldInv
  <2>10. RowsPlaced' /\ ThreadsSeen' /\ ThreadsTold'
    BY <1>2, <2>1, <2>6, <2>8, ThreadsFrame DEF ToldInv, TasksGo, Holds
  <2> QED BY <2>7, <2>9, <2>10 DEF ToldInv
<1>8. CASE TellsThread(t)
  <2> DEFINE n == task[t].node
             entry == <<"thread", t>>
  <2>1. /\ UNCHANGED memory /\ Rests(t) /\ task[t].pc = "thread write"
        /\ told' = told \union {entry}
        /\ overlapped' = IF Threading(n) = {t} THEN overlapped ELSE overlapped \union {n}
    BY <1>8 DEF TellsThread
  <2>2. entry[1] = "thread" /\ \A u : <<"thread", u>> = entry <=> u = t
    OBVIOUS
  <2> HIDE DEF entry
  <2>3. n \in DOMAIN nodes /\ n # RunRow
    <3>1. DOMAIN nodes = 1..Len(nodes) /\ Len(nodes) \in Nat
      BY DEF MemoryTypeOK
    <3>2. n \in DOMAIN nodes
      BY <1>2 DEF ToldInv, TasksPlaced
    <3> QED BY <3>1, <3>2 DEF RunRow
  <2>4. overlapped \subseteq overlapped' /\ (RunRow \in overlapped' => RunRow \in overlapped)
    BY <2>1, <2>3
  <2>5. TasksGo
    BY <1>4, <2>1
  <2>6. HeardInv'
    <3>1. \A e : e[1] # "thread" => (e \in told' <=> e \in told)
      BY <2>1, <2>2
    <3>2. \A u \in TurnNos : task'[u].pc \in {"know write", "facts write"} => task'[u] = task[u]
      BY <2>5 DEF TasksGo, Holds
    <3> QED BY <1>2, <2>1, <2>4, <3>1, <3>2, HeardFrame DEF ToldInv
  <2>7. TasksPlaced'
    <3>1. \A u \in TurnNos : <<"thread", u>> \in told' => <<"thread", u>> \in told \/ task[u].pc # "none"
      BY <1>2, <2>1, <2>2
    <3> QED BY <1>2, <1>3, <3>1, PlacedFrame DEF ToldInv
  <2>8. PICK k \in Nat :
           /\ WritesRow(k, [node |-> n, acts |-> IF k \in DOMAIN rows THEN rows[k].acts ELSE {},
                            thread |-> task[t].seen.thread \union {t}])
           /\ IF k \in DOMAIN rows THEN k = task[t].seen.row
              ELSE task[t].seen.row = 0 /\ task[t].seen.thread = {}
    BY <1>8, ThreadWrites
  <2> DEFINE row == [node |-> n, acts |-> IF k \in DOMAIN rows THEN rows[k].acts ELSE {},
                     thread |-> task[t].seen.thread \union {t}]
  <2>9. row.node = n /\ row.thread = task[t].seen.thread \union {t}
    OBVIOUS
  <2>10. WritesRow(k, row)
    BY <2>8
  <2> HIDE DEF row
  <2>11. RowsPlaced'
    BY <1>2, <2>3, <2>9, <2>10 DEF ToldInv, RowsPlaced, WritesRow
  <2>12. ASSUME n \notin overlapped, k \in DOMAIN rows PROVE task[t].seen.thread = rows[k].thread
    <3>1. k # 0 /\ k = task[t].seen.row
      <4>1. DOMAIN rows = 1..Len(rows) /\ Len(rows) \in Nat
        BY TypesAre DEF TypesOfStores
      <4> QED BY <2>8, <2>12, <4>1
    <3> QED BY <2>1, <2>12, <3>1 DEF ToldInv, ThreadsSeen
  <2>13. ASSUME n \notin overlapped, NEW u
         PROVE  HasThread(rows', n, u) <=> HasThread(rows, n, u) \/ u = t
    <3>1. u \in row.thread <=> u = t \/ (k \in DOMAIN rows /\ u \in rows[k].thread)
      <4>1. CASE k \in DOMAIN rows
        BY <2>9, <2>12, <2>13, <4>1
      <4>2. CASE k \notin DOMAIN rows
        BY <2>8, <2>9, <4>2
      <4> QED BY <4>1, <4>2
    <3> QED BY <2>9, <2>10, <3>1 DEF HasThread, WritesRow
  <2>14. ASSUME NEW m, m # n, NEW u
         PROVE  HasThread(rows', m, u) <=> HasThread(rows, m, u)
    BY <2>9, <2>10, <2>14 DEF HasThread, WritesRow
  <2>15. ThreadsTold'
    <3> SUFFICES ASSUME NEW m \in DOMAIN nodes, m \notin overlapped', NEW u \in TurnNos
                 PROVE  <<"thread", u>> \in told' /\ task'[u].node = m <=> HasThread(rows', m, u)
      BY <1>2 DEF ThreadsTold
    <3>1. task'[u].node = task[u].node
      BY <1>2
    <3>2. <<"thread", u>> \in told' <=> <<"thread", u>> \in told \/ u = t
      BY <2>1, <2>2
    <3>3. <<"thread", u>> \in told /\ task[u].node = m <=> HasThread(rows, m, u)
      BY <2>4 DEF ToldInv, ThreadsTold
    <3>4. CASE m = n
      <4>1. n \notin overlapped
        BY <2>4, <3>4
      <4> HIDE DEF n
      <4>2. task[t].node = n
        BY DEF n
      <4> QED BY <2>13, <3>1, <3>2, <3>3, <3>4, <4>1, <4>2
    <3>5. CASE m # n
      BY <2>14, <3>1, <3>2, <3>3, <3>5
    <3> QED BY <3>4, <3>5
  <2>16. ThreadsSeen'
    <3> SUFFICES ASSUME NEW u \in TurnNos, task'[u].pc = "thread write", task'[u].seen.row # 0,
                        task'[u].node \notin overlapped'
                 PROVE  task'[u].seen.thread = rows'[task'[u].seen.row].thread
      BY DEF ThreadsSeen
    <3>1. task'[u] = task[u] /\ u # t
      BY <1>4, <2>1, <2>5 DEF TasksGo, Holds
    <3>2. task[u].seen.row \in DOMAIN rows /\ rows[task[u].seen.row].node = task[u].node
      BY <3>1 DEF RowInv, ThreadRows
    <3>3. task[u].node # n
      <4>1. ASSUME task[u].node = n PROVE FALSE
        <5>1. Threading(n) = {t}
          BY <2>1, <3>1, <4>1
        <5>2. u \in Threading(n)
          BY <3>1, <4>1 DEF Threading, At
        <5> QED BY <3>1, <5>1, <5>2
      <4> QED BY <4>1
    <3>4. task[u].seen.row # k
      BY <2>8, <2>9, <2>10, <3>2, <3>3 DEF WritesRow
    <3>5. rows'[task[u].seen.row] = rows[task[u].seen.row]
      BY <2>10, <3>2, <3>4 DEF WritesRow
    <3>6. task[u].node \notin overlapped
      BY <2>4, <3>1
    <3> QED BY <3>1, <3>5, <3>6 DEF ToldInv, ThreadsSeen
  <2> QED BY <2>6, <2>7, <2>11, <2>15, <2>16 DEF ToldInv
<1> QED BY <1>1, <1>5, <1>6, <1>7, <1>8

-----------------------------------------------------------------------------
(* RunMemory: the invariant, and what follows from it.                     *)

(* The invariant holds at the beginning,                                   *)
LEMMA MemoryBegins ==
  ASSUME MemoryInit
  PROVE  MemoryInv
<1>1. /\ run = [done |-> {}, marks |-> {}, beats |-> NoBeats, visits |-> {}]
      /\ cur = 1 /\ nodes = <<"LOCATION">> /\ active = TRUE /\ over = FALSE
      /\ rows = <<>> /\ memory = {} /\ summary = <<>> /\ hand = Idle /\ restarts = 0
      /\ played = {} /\ adopted = {} /\ told = {} /\ overlapped = {}
  BY DEF MemoryInit
<1>2. hand.pc = "idle" /\ "idle" \notin Unsaved \union Reading
  BY <1>1 DEF Idle, Unsaved, Before, Early, Reading
<1>3. 1 \in TurnNos /\ 0 \notin TurnNos /\ TurnNos \subseteq Nat
  BY MemoryAssumption DEF TurnNos
<1>4. DOMAIN task = TurnNos
  BY DEF MemoryInit
<1>5. \A t \in TurnNos : task[t] = IF t = 1 THEN [pc |-> "waiting", node |-> 1, seen |-> None, tries |-> 0]
                                 ELSE [pc |-> "none", node |-> 0, seen |-> None, tries |-> 0]
  BY DEF MemoryInit, Job
<1>6. /\ task[1].pc = "waiting" /\ task[1].node = 1
      /\ \A t \in TurnNos : t # 1 => task[t].pc = "none"
  <2>1. task[1] = [pc |-> "waiting", node |-> 1, seen |-> None, tries |-> 0]
    BY <1>3, <1>5
  <2>2. ASSUME NEW t \in TurnNos, t # 1 PROVE task[t].pc = "none"
    <3>1. task[t] = [pc |-> "none", node |-> 0, seen |-> None, tries |-> 0]
      BY <1>5, <2>2
    <3> QED BY ONLY <3>1
  <2>3. task[1].pc = "waiting" /\ task[1].node = 1
    BY ONLY <2>1
  <2> QED BY <2>2, <2>3
<1>7. DOMAIN nodes = {1} /\ Len(nodes) = 1 /\ nodes[1] = "LOCATION" /\ DOMAIN rows = {} /\ DOMAIN summary = {}
  BY <1>1
<1>8. MemoryTypeOK
  <2>1. TypesOfStores
    BY <1>1 DEF TypesOfStores, RunStates
  <2>2. TypesOfPlace
    <3>1. nodes \in Seq({"HUB", "LOCATION"}) \ {<<>>}
      BY <1>1
    <3>2. 0 \in 0..MaxRestarts
      BY MemoryAssumption
    <3> QED BY <1>1, <1>3, <3>1, <3>2 DEF TypesOfPlace
  <2>3. TypesOfHand
    BY <1>1 DEF TypesOfHand
  <2>4. TypesOfTasks
    <3> SUFFICES ASSUME NEW t \in TurnNos PROVE JobIs(t) /\ task[t].seen \in TaskSeen(task[t].pc)
      BY <1>4 DEF TypesOfTasks
    <3>1. {"waiting", "none"} \subseteq TaskLabels /\ 0 \in Nat /\ 1 \in Nat
      BY DEF TaskLabels
    <3>2. ASSUME NEW pc \in {"waiting", "none"}, NEW n \in {0, 1},
                 task[t] = [pc |-> pc, node |-> n, seen |-> None, tries |-> 0]
          PROVE  JobIs(t) /\ task[t].seen \in TaskSeen(task[t].pc)
      <4>1. task[t].seen = None /\ task[t].pc = pc
        BY ONLY <3>2
      <4>2. pc \in TaskLabels /\ n \in Nat
        BY ONLY <3>1, pc \in {"waiting", "none"}, n \in {0, 1}
      <4>3. JobIs(t)
        BY ONLY <3>1, <3>2, <4>1, <4>2 DEF JobIs
      <4> QED BY <4>1, <4>3 DEF TaskSeen
    <3> QED BY <3>2, <1>5
  <2>5. TypesOfHistory
    BY <1>1 DEF TypesOfHistory
  <2> QED BY <2>1, <2>2, <2>3, <2>4, <2>5, TypesAre
<1>9. NumberInv
  <2>1. TurnsInOrder
    <3> SUFFICES ASSUME NEW t \in TurnNos, NEW u \in TurnNos, task[t].pc = "none", t < u PROVE task[u].pc = "none"
      BY DEF TurnsInOrder, Known
    <3>1. u # 1
      BY <1>3, MemoryAssumption DEF TurnNos
    <3> QED BY <1>6, <3>1
  <2>2. NoneAfterCur
    BY <1>1, <1>3, <1>6 DEF NoneAfterCur, Known
  <2> QED BY <1>1, <1>2, <1>6, <2>1, <2>2 DEF NumberInv
<1>10. PathInv
  BY <1>2 DEF PathInv
<1>11. RunInv
  BY <1>1, <1>2, <1>3 DEF RunInv, BeatsInv, DoneInv, Spent, Used, NoBeats
<1>12. RowInv
  BY <1>1, <1>2, <1>6 DEF RowInv, PlayedStored, ThreadRows
<1>13. VisitInv
  BY <1>1, <1>2, <1>7 DEF VisitInv, MovesTold, EndTold, NodesLeft, LeavesNow
<1>14. LineInv
  BY <1>7 DEF LineInv, LinesApart, LinesKnown, LineNow
<1>15. ToldInv
  <2>1. HeardInv
    BY <1>1, <1>2, <1>6 DEF HeardInv, MemoryTold, TasksHear
  <2>2. TasksPlaced /\ RowsPlaced /\ ThreadsSeen /\ ThreadsTold
    BY <1>1, <1>6, <1>7 DEF TasksPlaced, RowsPlaced, ThreadsSeen, ThreadsTold, HasThread
  <2> QED BY <2>1, <2>2 DEF ToldInv
<1> QED BY <1>8, <1>9, <1>10, <1>11, <1>12, <1>13, <1>14, <1>15 DEF MemoryInv

(* and is kept by every step: a submission,                                *)
LEMMA MemorySubmits ==
  ASSUME MemoryInv, NEW plan \in Plans, NEW next \in {None, "HUB", "LOCATION"}, NEW adopt \in BOOLEAN,
         Submit(plan, next, adopt)
  PROVE  MemoryInv'
<1>1. MemoryTypeOK /\ NumberInv /\ PathInv /\ RunInv /\ RowInv /\ VisitInv /\ LineInv /\ ToldInv
  BY DEF MemoryInv
<1>2. MemoryTypeOK'
  BY <1>1, SubmitTypes
<1>3. NumberInv' /\ PathInv'
  BY <1>1, NumbersSubmit
<1>4. RunInv'
  BY <1>1, RunSubmit
<1>5. RowInv'
  BY <1>1, RowSubmit
<1>6. VisitInv'
  BY <1>1, VisitSubmit
<1>7. LineInv'
  BY <1>1, LinesSubmit
<1>8. ToldInv'
  BY <1>1, ToldSubmit
<1> QED BY <1>2, <1>3, <1>4, <1>5, <1>6, <1>7, <1>8 DEF MemoryInv

(* a step of the worker,                                                   *)
LEMMA MemoryWorks ==
  ASSUME MemoryInv, NEW t \in TurnNos, Work(t)
  PROVE  MemoryInv'
<1>1. MemoryTypeOK /\ NumberInv /\ PathInv /\ RunInv /\ RowInv /\ VisitInv /\ LineInv /\ ToldInv
  BY DEF MemoryInv
<1>2. MemoryTypeOK'
  BY <1>1, WorkTypes
<1>3. NumberInv' /\ PathInv'
  BY <1>1, NumbersWork
<1>4. RunInv'
  BY <1>1, RunWork
<1>5. RowInv'
  BY <1>1, RowWork
<1>6. VisitInv'
  BY <1>1, VisitWork
<1>7. LineInv'
  BY <1>1, LinesWork
<1>8. ToldInv'
  BY <1>1, ToldWork
<1> QED BY <1>2, <1>3, <1>4, <1>5, <1>6, <1>7, <1>8 DEF MemoryInv

(* a step of the handler or a restart,                                     *)
LEMMA MemoryTurns ==
  ASSUME MemoryInv, Turn \/ Crash
  PROVE  MemoryInv'
<1>1. MemoryTypeOK /\ NumberInv /\ PathInv /\ RunInv /\ RowInv /\ VisitInv /\ LineInv /\ ToldInv
  BY DEF MemoryInv
<1>2. CASE Collect \/ Hear \/ WriteHeard \/ Store \/ ReadVisit \/ ReadMemory
  <2>1. EarlyStep
    BY <1>1, <1>2, EarlyIs
  <2>2. MemoryTypeOK'
    BY <1>1, <1>2, EarlyTypes
  <2>3. NumberInv' /\ PathInv'
    BY <1>1, <2>1, NumbersEarly
  <2>4. RunInv'
    BY <1>1, <2>1, RunEarly
  <2>5. RowInv'
    BY <1>1, <1>2, RowEarly
  <2>6. VisitInv'
    BY <1>1, <1>2, VisitEarly
  <2>7. LineInv'
    BY <1>1, <2>1, LinesTurn
  <2>8. ToldInv'
    BY <1>1, <1>2, ToldEarly
  <2> QED BY <2>2, <2>3, <2>4, <2>5, <2>6, <2>7, <2>8 DEF MemoryInv
<1>3. CASE WriteVisit
  <2>1. MemoryTypeOK' /\ RunInv' /\ RowInv'
    BY <1>1, <1>3, WriteVisitTypes, RunWriteVisit, RowWriteVisit
  <2>2. NumberInv' /\ PathInv'
    BY <1>1, <1>3, NumbersWriteVisit
  <2>3. VisitInv' /\ LineInv' /\ ToldInv'
    BY <1>1, <1>3, VisitWriteVisit, LinesWriteVisit, ToldWriteVisit
  <2> QED BY <2>1, <2>2, <2>3 DEF MemoryInv
<1>4. CASE Leave
  <2>1. MemoryTypeOK' /\ RunInv' /\ RowInv'
    BY <1>1, <1>4, LeaveTypes, RunLeave, RowLeave
  <2>2. NumberInv' /\ PathInv'
    BY <1>1, <1>4, NumbersLeave
  <2>3. VisitInv' /\ LineInv' /\ ToldInv'
    BY <1>1, <1>4, VisitLeave, LinesTurn, ToldRest
  <2> QED BY <2>1, <2>2, <2>3 DEF MemoryInv
<1>5. CASE Insert
  <2>1. MemoryTypeOK' /\ RunInv' /\ RowInv'
    BY <1>1, <1>5, InsertTypes, RunInsert, RowInsert
  <2>2. NumberInv' /\ PathInv'
    BY <1>1, <1>5, NumbersInsert
  <2>3. VisitInv' /\ LineInv' /\ ToldInv'
    BY <1>1, <1>5, VisitInsert, LinesTurn, ToldRest
  <2> QED BY <2>1, <2>2, <2>3 DEF MemoryInv
<1>6. CASE Save
  <2>1. MemoryTypeOK' /\ RunInv' /\ RowInv'
    BY <1>1, <1>6, SaveTypes, RunSave, RowSave
  <2>2. NumberInv' /\ PathInv'
    BY <1>1, <1>6, NumbersSave
  <2>3. VisitInv' /\ LineInv' /\ ToldInv'
    BY <1>1, <1>6, VisitSave, LinesTurn, ToldRest
  <2> QED BY <2>1, <2>2, <2>3 DEF MemoryInv
<1>7. CASE EndRun
  <2>1. MemoryTypeOK' /\ RunInv' /\ RowInv'
    BY <1>1, <1>7, EndRunIs, RunEndRun, RowRest
  <2>2. NumberInv' /\ PathInv'
    BY <1>1, <1>7, NumbersEndRun
  <2>3. VisitInv' /\ LineInv' /\ ToldInv'
    BY <1>1, <1>7, VisitEndRun, LinesRest, ToldRest
  <2> QED BY <2>1, <2>2, <2>3 DEF MemoryInv
<1>8. CASE Enter
  <2>1. MemoryTypeOK' /\ RunInv' /\ RowInv'
    BY <1>1, <1>8, EnterTypes, RunEnter, RowRest
  <2>2. NumberInv' /\ PathInv'
    BY <1>1, <1>8, NumbersEnter
  <2>3. VisitInv' /\ LineInv' /\ ToldInv'
    BY <1>1, <1>8, VisitEnter, LinesRest, ToldRest
  <2> QED BY <2>1, <2>2, <2>3 DEF MemoryInv
<1>9. CASE SaveEnter
  <2>1. MemoryTypeOK' /\ RunInv' /\ RowInv'
    BY <1>1, <1>9, SaveEnterTypes, RunSaveEnter, RowRest
  <2>2. NumberInv' /\ PathInv'
    BY <1>1, <1>9, NumbersSaveEnter
  <2>3. VisitInv' /\ LineInv' /\ ToldInv'
    BY <1>1, <1>9, VisitLast, LinesTurn, ToldRest
  <2> QED BY <2>1, <2>2, <2>3 DEF MemoryInv
<1>10. CASE Crash
  <2>1. MemoryTypeOK' /\ RunInv' /\ RowInv'
    BY <1>1, <1>10, CrashTypes, RunCrash, RowRest
  <2>2. NumberInv' /\ PathInv'
    BY <1>1, <1>10, NumbersCrash
  <2>3. VisitInv' /\ LineInv' /\ ToldInv'
    BY <1>1, <1>10, VisitLast, LinesRest, ToldRest
  <2> QED BY <2>1, <2>2, <2>3 DEF MemoryInv
<1> QED BY <1>2, <1>3, <1>4, <1>5, <1>6, <1>7, <1>8, <1>9, <1>10 DEF Turn

(* and one that changes nothing.                                           *)
LEMMA MemoryStutters ==
  ASSUME MemoryInv, UNCHANGED memoryVars
  PROVE  MemoryInv'
<1>1. /\ run' = run /\ rows' = rows /\ memory' = memory /\ summary' = summary
      /\ cur' = cur /\ nodes' = nodes /\ active' = active /\ over' = over
      /\ hand' = hand /\ task' = task /\ answers' = answers /\ restarts' = restarts
      /\ played' = played /\ adopted' = adopted /\ told' = told /\ overlapped' = overlapped
  BY DEF memoryVars, stores, place, history
<1>2. MemoryTypeOK'
  BY <1>1 DEF MemoryInv, MemoryTypeOK
<1>3. NumberInv' /\ PathInv'
  BY <1>1 DEF MemoryInv, NumberInv, PathInv, Known, TurnsInOrder, NoneAfterCur, NoneAfterTurn, NoneAfterEntry,
              IsNext, EntryKnown, AtNode, EntryFits, Leaves
<1>4. RunInv'
  BY <1>1 DEF MemoryInv, RunInv, BeatsInv, DoneInv, BaseInv, Used, Spent
<1>5. RowInv'
  BY <1>1 DEF MemoryInv, RowInv, PlayedStored, HeldRow, TurnStored, ThreadRows, Stored
<1>6. VisitInv'
  BY <1>1 DEF MemoryInv, VisitInv, VisitRead, VisitSeen, VisitTold, MovesTold, EndTold, NodesLeft, LeavesNow, MovesOn,
              Finished, ActsSoFar, Leaves
<1>7. LineInv'
  BY <1>1 DEF MemoryInv, LineInv, LinesApart, LinesKnown, LineNow
<1>8. ToldInv'
  BY <1>1 DEF MemoryInv, ToldInv, HeardInv, MemoryTold, TasksHear, TasksPlaced, RowsPlaced, ThreadsSeen, ThreadsTold
<1> QED BY <1>2, <1>3, <1>4, <1>5, <1>6, <1>7, <1>8 DEF MemoryInv

(* Together.                                                               *)
LEMMA MemoryGoesOn ==
  MemoryInv /\ [MemoryNext]_memoryVars => MemoryInv'
<1> SUFFICES ASSUME MemoryInv, [MemoryNext]_memoryVars PROVE MemoryInv'
  OBVIOUS
<1>1. ASSUME NEW plan \in {"act", "move", "end"}, NEW next \in {None, "HUB", "LOCATION"}, NEW adopt \in BOOLEAN,
             Submit(plan, next, adopt)
      PROVE  MemoryInv'
  <2>1. plan \in Plans
    BY DEF Plans
  <2> QED BY <1>1, <2>1, MemorySubmits
<1>2. CASE Turn \/ Crash
  BY <1>2, MemoryTurns
<1>3. ASSUME NEW t \in TurnNos, Work(t) PROVE MemoryInv'
  BY <1>3, MemoryWorks
<1>4. CASE UNCHANGED memoryVars
  BY <1>4, MemoryStutters
<1> QED BY <1>1, <1>2, <1>3, <1>4 DEF MemoryNext

(* Every variable of RunMemory stays in its type, and what a handler or a  *)
(* task has read stays of the kind that its next statement needs, in any   *)
(* interleaving of handlers, worker and restarts.                          *)
THEOREM MemoryTyped == MemorySpec => []MemoryTypeOK
<1>1. MemoryInit => MemoryInv
  BY MemoryBegins
<1>2. MemoryInv => MemoryTypeOK
  BY DEF MemoryInv
<1> QED BY <1>1, <1>2, MemoryGoesOn, PTL DEF MemorySpec

(* The handlers, which write runState whole, and the worker, which patches *)
(* it, do not undo each other: every turn that was committed stays done, and *)
(* beats that a turn has used are not offered again (the merge of          *)
(* nextBeatCandidates in turns.service.ts and applyRunStatePatch).         *)
THEOREM RunStateIsKept == MemorySpec => []RunStateKept
<1>1. MemoryInit => MemoryInv
  BY MemoryBegins
<1>2. MemoryInv => RunStateKept
  BY DEF MemoryInv, RunInv, BeatsInv, DoneInv, RunStateKept
<1> QED BY <1>1, <1>2, MemoryGoesOn, PTL DEF MemorySpec

(* What VisitsRemembered says of a state with the invariant.               *)
LEMMA Remembered ==
  ASSUME MemoryInv
  PROVE  VisitsRemembered
<1>1. MemoryTypeOK /\ VisitInv /\ LineInv /\ ToldInv
  BY DEF MemoryInv
<1>2. rows \in Seq(RowsType) /\ DOMAIN rows = 1..Len(rows) /\ DOMAIN nodes = 1..Len(nodes)
  BY <1>1, TypesAre DEF TypesOfStores, TypesOfPlace
<1>3. \A n \in Left : Finished(n)
  <2> SUFFICES ASSUME NEW p \in played, nodes[p.node] = "LOCATION", p.plan \in {"move"} \union (IF over THEN {"end"} ELSE {})
               PROVE  Finished(p.node)
    BY DEF Left
  <2>1. CASE p.plan = "move"
    BY <1>1, <2>1 DEF VisitInv, MovesTold
  <2>2. CASE p.plan = "end" /\ over
    <3>1. p.node \in DOMAIN nodes
      BY <1>1 DEF MemoryTypeOK
    <3>2. CASE p.node = Len(nodes)
      BY <1>1, <2>2, <3>2 DEF VisitInv, EndTold
    <3>3. CASE p.node # Len(nodes)
      <4>1. PICK q \in played : q.node = p.node /\ q.plan = "move"
        BY <1>1, <3>1, <3>3 DEF VisitInv, NodesLeft
      <4>2. nodes[q.node] = "LOCATION"
        BY <4>1
      <4>3. Finished(q.node)
        BY <1>1, <4>1, <4>2 DEF VisitInv, MovesTold
      <4> QED BY <4>1, <4>3
    <3> QED BY <3>2, <3>3
  <2> QED BY <2>1, <2>2
<1>4. ASSUME NEW n \in Left
      PROVE  /\ n \in run.visits
             /\ Lines(n) # {}
             /\ restarts = 0 => \A j, k \in Lines(n) : j = k
             /\ ~Split(n) => \E k \in Lines(n) : Acts(n) \subseteq summary[k].acts
  <2>1. n \in run.visits /\ ToldIn(summary, rows, n, ActsIn(played, n))
    BY <1>3 DEF Finished
  <2>2. PICK k \in DOMAIN summary : summary[k].node = n /\ (SplitIn(rows, n) \/ ActsIn(played, n) \subseteq summary[k].acts)
    BY <2>1 DEF ToldIn
  <2>3. k \in Lines(n)
    BY <2>2 DEF Lines
  <2>4. SplitIn(rows, n) => Split(n)
    BY <1>2 DEF SplitIn, Split
  <2>5. Acts(n) = ActsIn(played, n)
    BY DEF Acts, ActsIn
  <2>6. restarts = 0 => \A i, j \in Lines(n) : i = j
    BY <1>1 DEF LineInv, LinesApart, Lines
  <2> QED BY <2>1, <2>2, <2>3, <2>4, <2>5, <2>6
<1>5. RunRow \notin overlapped => {e \in told : e[1] # "thread"} = memory
  BY <1>1 DEF ToldInv, HeardInv, MemoryTold
<1>6. ASSUME NEW n \in 1..Len(nodes) \ overlapped
      PROVE  {e[2] : e \in {x \in told : x[1] = "thread" /\ task[x[2]].node = n}}
               = UNION {rows[i].thread : i \in {j \in 1..Len(rows) : rows[j].node = n}}
  <2>1. ASSUME NEW t \in TurnNos
        PROVE  <<"thread", t>> \in told /\ task[t].node = n <=> HasThread(rows, n, t)
    BY <1>1, <1>2 DEF ToldInv, ThreadsTold
  <2>2. ASSUME NEW x \in told, x[1] = "thread"
        PROVE  x[2] \in TurnNos /\ x = <<"thread", x[2]>>
    <3>1. x \in Entries \union ({"thread"} \X TurnNos)
      BY <1>1 DEF MemoryTypeOK
    <3>2. x \notin Entries
      BY <2>2 DEF Entries
    <3> QED BY <3>1, <3>2
  <2>3. ASSUME NEW t
        PROVE  t \in UNION {rows[i].thread : i \in {j \in 1..Len(rows) : rows[j].node = n}}
                 <=> t \in TurnNos /\ HasThread(rows, n, t)
    <3>1. \A i \in DOMAIN rows : rows[i].thread \in SUBSET TurnNos
      <4>1. \A i \in DOMAIN rows : rows[i] \in RowsType
        BY <1>2
      <4> QED BY <4>1 DEF RowsType
    <3> QED BY <1>2, <3>1 DEF HasThread
  <2>4. ASSUME NEW t
        PROVE  t \in {e[2] : e \in {x \in told : x[1] = "thread" /\ task[x[2]].node = n}}
                 <=> t \in TurnNos /\ <<"thread", t>> \in told /\ task[t].node = n
    <3>1. <<"thread", t>>[1] = "thread" /\ <<"thread", t>>[2] = t
      OBVIOUS
    <3> QED BY <2>2, <3>1
  <2> QED BY <2>1, <2>3, <2>4
<1> QED BY <1>4, <1>5, <1>6 DEF VisitsRemembered

(* A visit that ended is told and counted, once without a restart, with all *)
(* its actions unless the arrival's text and the first action each made a  *)
(* row of the node; and what the worker and the handlers stored in different *)
(* columns stays, in whatever order their reads and writes come.           *)
THEOREM VisitsAreRemembered == MemorySpec => []VisitsRemembered
<1>1. MemoryInit => MemoryInv
  BY MemoryBegins
<1> QED BY <1>1, Remembered, MemoryGoesOn, PTL DEF MemorySpec
=============================================================================
