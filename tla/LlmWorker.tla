------------------------------ MODULE LlmWorker ------------------------------
(***************************************************************************)
(* llm-worker.service.ts: the background worker that writes the narrative  *)
(* of committed turns. poll() runs every second and again whenever wake()  *)
(* is called, so polls overlap; each awaits the database three times       *)
(* before it claims its turns. A claim is a conditional UPDATE             *)
(* PENDING -> RUNNING with a lock that goes stale after LOCK_TIMEOUT_S.    *)
(* The other updates of a turn's llmStatus (DONE, FAILED, retryLlm's       *)
(* PENDING) carry no condition.                                            *)
(***************************************************************************)
EXTENDS Integers, FiniteSets, FiniteSetsExt

CONSTANTS
  NumTurns,         \* turns committed as PENDING, numbered by created_at
  Key,              \* Key[t]: the turn's charge key; an arrival turn shares its action's
  MaxConcurrent,    \* MAX_CONCURRENT_TURNS
  Polls,            \* polls that may overlap
  NumTasks,         \* bound on the processTurn calls in flight
  Retriers,         \* retryLlm calls that may overlap
  MaxRetries,       \* bound on the number of retries
  MaxCrashes,       \* bound on the number of process restarts
  SlowCalls         \* TRUE: a turn may be processed for longer than LOCK_TIMEOUT_S

Turns == 1..NumTurns
Tasks == 1..NumTasks

ASSUME WorkerAssumption ==
  /\ NumTurns \in Nat /\ NumTasks \in Nat /\ MaxConcurrent \in Nat
  /\ DOMAIN Key = Turns
  /\ SlowCalls \in BOOLEAN

VARIABLES
  llm,              \* turns.llm_status, "none" before the turn is committed
  lock,             \* turns.llm_locked_at: "none", "fresh" or "stale"
  own,              \* turns.llm_lock_owner is the running process
  refunded,         \* the charge keys given back
  pollPc, slots, list,   \* poll(): where it is, slotsAvailable, pendingTurns not yet claimed
  phase, job,       \* processTurn: where it is and its turn
  retrying,         \* retryLlm between its check and its update: the turn, or 0
  retries, crashes

turnVars == <<llm, lock, own>>
pollVars == <<pollPc, slots, list>>
taskVars == <<phase, job>>
retryVars == <<retrying, retries>>
vars == <<turnVars, refunded, pollVars, taskVars, retryVars, crashes>>

Init ==
  /\ llm = [t \in Turns |-> "none"]
  /\ lock = [t \in Turns |-> "none"]
  /\ own = [t \in Turns |-> FALSE]
  /\ refunded = {}
  /\ pollPc = [p \in Polls |-> "idle"]
  /\ slots = [p \in Polls |-> 0]
  /\ list = [p \in Polls |-> {}]
  /\ phase = [s \in Tasks |-> "idle"]
  /\ job = [s \in Tasks |-> 0]
  /\ retrying = [q \in Retriers |-> 0]
  /\ retries = 0
  /\ crashes = 0

Pending == {t \in Turns : llm[t] = "PENDING"}

\* The n smallest members of a set of turns: ORDER BY created_at LIMIT n.
Oldest(n, S) == {t \in S : Cardinality({u \in S : u < t}) < n}

-----------------------------------------------------------------------------

\* commitTurnRecord and the arrival turns insert with llmStatus PENDING.
Commit(t) ==
  /\ llm[t] = "none"
  /\ \A u \in Turns : u < t => llm[u] # "none"
  /\ llm' = [llm EXCEPT ![t] = "PENDING"]
  /\ UNCHANGED <<lock, own, refunded, pollVars, taskVars, retryVars, crashes>>

\* Mutation of PollReset: no turn is ever recovered.
PollResetNothing(p) ==
  /\ pollPc[p] = "idle"
  /\ \E t \in Turns : llm[t] \in {"PENDING", "RUNNING"}
  /\ pollPc' = [pollPc EXCEPT ![p] = "count"]
  /\ UNCHANGED <<turnVars, refunded, slots, list, taskVars, retryVars, crashes>>

\* poll, first statement: RUNNING turns whose lock is stale go back to PENDING.
PollReset(p) ==
  LET stale == {t \in Turns : llm[t] = "RUNNING" /\ lock[t] = "stale"}
  IN  /\ pollPc[p] = "idle"
      /\ \E t \in Turns : llm[t] \in {"PENDING", "RUNNING"}
      /\ llm' = [t \in Turns |-> IF t \in stale THEN "PENDING" ELSE llm[t]]
      /\ lock' = [t \in Turns |-> IF t \in stale THEN "none" ELSE lock[t]]
      /\ own' = [t \in Turns |-> own[t] /\ t \notin stale]
      /\ pollPc' = [pollPc EXCEPT ![p] = "count"]
      /\ UNCHANGED <<refunded, slots, list, taskVars, retryVars, crashes>>

PollCount(p) ==
  LET available == MaxConcurrent - Cardinality({t \in Turns : llm[t] = "RUNNING" /\ own[t]})
  IN  /\ pollPc[p] = "count"
      /\ IF available <= 0
           THEN pollPc' = [pollPc EXCEPT ![p] = "idle"] /\ UNCHANGED slots
           ELSE /\ pollPc' = [pollPc EXCEPT ![p] = "select"]
                /\ slots' = [slots EXCEPT ![p] = available]
      /\ UNCHANGED <<turnVars, refunded, list, taskVars, retryVars, crashes>>

PollSelect(p) ==
  /\ pollPc[p] = "select"
  /\ list' = [list EXCEPT ![p] = Oldest(slots[p], Pending)]
  /\ slots' = [slots EXCEPT ![p] = 0]
  /\ pollPc' = [pollPc EXCEPT ![p] = IF Pending = {} THEN "idle" ELSE "claim"]
  /\ UNCHANGED <<turnVars, refunded, taskVars, retryVars, crashes>>

\* Mutation of Claim: the UPDATE lost its condition on PENDING.
ClaimUnconditional(p, t) ==
  LET free == {s \in Tasks : phase[s] = "idle"}
  IN  /\ pollPc[p] = "claim"
      /\ t \in list[p]
      /\ list' = [list EXCEPT ![p] = @ \ {t}]
      /\ pollPc' = [pollPc EXCEPT ![p] = IF list[p] = {t} THEN "idle" ELSE "claim"]
      /\ free # {}
      /\ phase' = [phase EXCEPT ![Min(free)] = "call"]
      /\ job' = [job EXCEPT ![Min(free)] = t]
      /\ llm' = [llm EXCEPT ![t] = "RUNNING"]
      /\ lock' = [lock EXCEPT ![t] = "fresh"]
      /\ own' = [own EXCEPT ![t] = TRUE]
      /\ UNCHANGED <<refunded, slots, retryVars, crashes>>

\* processTurnInner starts with the claim; no row updated means another poll won.
Claim(p, t) ==
  /\ pollPc[p] = "claim"
  /\ t \in list[p]
  /\ list' = [list EXCEPT ![p] = @ \ {t}]
  /\ pollPc' = [pollPc EXCEPT ![p] = IF list[p] = {t} THEN "idle" ELSE "claim"]
  /\ IF llm[t] = "PENDING"
       THEN LET free == {s \in Tasks : phase[s] = "idle"}
            IN  /\ free # {}
                /\ phase' = [phase EXCEPT ![Min(free)] = "call"]
                /\ job' = [job EXCEPT ![Min(free)] = t]
                /\ llm' = [llm EXCEPT ![t] = "RUNNING"]
                /\ lock' = [lock EXCEPT ![t] = "fresh"]
                /\ own' = [own EXCEPT ![t] = TRUE]
       ELSE UNCHANGED <<turnVars, taskVars>>
  /\ UNCHANGED <<refunded, slots, retryVars, crashes>>

\* The narrative is there: the DONE update.
Deliver(s) ==
  /\ phase[s] = "call"
  /\ llm' = [llm EXCEPT ![job[s]] = "DONE"]
  /\ phase' = [phase EXCEPT ![s] = "after"]
  /\ UNCHANGED <<lock, own, refunded, pollVars, job, retryVars, crashes>>

\* Mutation of Fail: the exception path does not mark the turn.
FailUnmarked(s) ==
  /\ phase[s] \in {"call", "after"}
  /\ phase' = [phase EXCEPT ![s] = "refund"]
  /\ UNCHANGED <<turnVars, refunded, pollVars, job, retryVars, crashes>>

\* The call failed, or something threw, before or after the DONE update.
Fail(s) ==
  /\ phase[s] \in {"call", "after"}
  /\ llm' = [llm EXCEPT ![job[s]] = "FAILED"]
  /\ phase' = [phase EXCEPT ![s] = "refund"]
  /\ UNCHANGED <<lock, own, refunded, pollVars, job, retryVars, crashes>>

Release(s) ==
  /\ phase' = [phase EXCEPT ![s] = "idle"]
  /\ job' = [job EXCEPT ![s] = 0]

Finish(s) ==
  /\ phase[s] = "after"
  /\ Release(s)
  /\ UNCHANGED <<turnVars, refunded, pollVars, retryVars, crashes>>

\* Mutation of RefundOnFailure: the failed turn keeps its charge.
RefundForgotten(s) ==
  /\ phase[s] = "refund"
  /\ Release(s)
  /\ UNCHANGED <<turnVars, refunded, pollVars, retryVars, crashes>>

RefundOnFailure(s) ==
  /\ phase[s] = "refund"
  /\ refunded' = refunded \union {Key[job[s]]}
  /\ Release(s)
  /\ UNCHANGED <<turnVars, pollVars, retryVars, crashes>>

\* LOCK_TIMEOUT_S passes since the claim.
Age(t) ==
  /\ llm[t] = "RUNNING" /\ lock[t] = "fresh"
  /\ SlowCalls \/ \A s \in Tasks : phase[s] = "call" => job[s] # t
  /\ lock' = [lock EXCEPT ![t] = "stale"]
  /\ UNCHANGED <<llm, own, refunded, pollVars, taskVars, retryVars, crashes>>

\* retryLlm: the status is checked, then the turn is reset without a condition.
RetryCheck(q, t) ==
  /\ retrying[q] = 0
  /\ retries < MaxRetries
  /\ llm[t] = "FAILED"
  /\ retrying' = [retrying EXCEPT ![q] = t]
  /\ retries' = retries + 1
  /\ UNCHANGED <<turnVars, refunded, pollVars, taskVars, crashes>>

RetryReset(q) ==
  /\ retrying[q] # 0
  /\ llm' = [llm EXCEPT ![retrying[q]] = "PENDING"]
  /\ lock' = [lock EXCEPT ![retrying[q]] = "none"]
  /\ own' = [own EXCEPT ![retrying[q]] = FALSE]
  /\ retrying' = [retrying EXCEPT ![q] = 0]
  /\ UNCHANGED <<refunded, pollVars, taskVars, retries, crashes>>

\* The process restarts under a new WORKER_ID.
Restart ==
  /\ crashes < MaxCrashes
  /\ crashes' = crashes + 1
  /\ own' = [t \in Turns |-> FALSE]
  /\ pollPc' = [p \in Polls |-> "idle"]
  /\ slots' = [p \in Polls |-> 0]
  /\ list' = [p \in Polls |-> {}]
  /\ phase' = [s \in Tasks |-> "idle"]
  /\ job' = [s \in Tasks |-> 0]
  /\ retrying' = [q \in Retriers |-> 0]
  /\ UNCHANGED <<llm, lock, refunded, retries>>

PollNext(p) == PollReset(p) \/ PollCount(p) \/ PollSelect(p) \/ \E t \in Turns : Claim(p, t)
TaskNext(s) == Deliver(s) \/ Fail(s) \/ Finish(s) \/ RefundOnFailure(s)

Next ==
  \/ \E t \in Turns : Commit(t) \/ Age(t)
  \/ \E p \in Polls : PollNext(p)
  \/ \E s \in Tasks : TaskNext(s)
  \/ \E q \in Retriers : RetryReset(q) \/ \E t \in Turns : RetryCheck(q, t)
  \/ Restart

Spec == Init /\ [][Next]_vars

(* The interval timer keeps polling, the event loop runs every poll and    *)
(* task on, every call returns (each provider call has a timeout), and     *)
(* the clock makes locks stale.                                            *)
Fairness ==
  /\ \A p \in Polls : WF_vars(PollNext(p))
  /\ \A s \in Tasks : WF_vars(TaskNext(s))
  /\ \A t \in Turns : WF_vars(Age(t))

FairSpec == Spec /\ Fairness

-----------------------------------------------------------------------------

\* Types; a task has a turn exactly while it works.
TypeOK ==
  /\ llm \in [Turns -> {"none", "PENDING", "RUNNING", "DONE", "FAILED"}]
  /\ lock \in [Turns -> {"none", "fresh", "stale"}]
  /\ own \in [Turns -> BOOLEAN]
  /\ refunded \subseteq {Key[t] : t \in Turns}
  /\ pollPc \in [Polls -> {"idle", "count", "select", "claim"}]
  /\ slots \in [Polls -> 0..MaxConcurrent]
  /\ list \in [Polls -> SUBSET Turns]
  /\ phase \in [Tasks -> {"idle", "call", "after", "refund"}]
  /\ job \in [Tasks -> 0..NumTurns]
  /\ \A s \in Tasks : job[s] = 0 <=> phase[s] = "idle"
  /\ retrying \in [Retriers -> 0..NumTurns]
  /\ retries \in Nat /\ crashes \in Nat

(* A turn is processed within LOCK_TIMEOUT_S, and retries do not overlap.  *)
InTime ==
  /\ ~SlowCalls
  /\ \A q1, q2 \in Retriers : q1 = q2

Calls(t) == {s \in Tasks : phase[s] = "call" /\ job[s] = t}

(* The claim is the barrier against a second LLM call for the same turn    *)
(* (processTurnInner "이중 LLM 호출을 막는 유일한 방벽"), as long as a turn  *)
(* is processed within the lock timeout and retries do not overlap.        *)
OneCall == \A t \in Turns : Cardinality(Calls(t)) <= 1

(* A turn is RUNNING under this process's id only while a task works on    *)
(* it: no finished, failed or lost task keeps one of the worker's slots.   *)
RunningIsWorked ==
  \A t \in Turns : (llm[t] = "RUNNING" /\ own[t]) => Calls(t) # {}

(* A turn that failed for good is free: its charge is given back, or a     *)
(* task is about to ("D5 실패 턴 무과금"), unless a restart came between.   *)
FailedIsRefunded ==
  crashes = 0 =>
    \A t \in Turns :
      llm[t] = "FAILED" =>
        \/ Key[t] \in refunded
        \/ \E s \in Tasks : phase[s] = "refund" /\ job[s] = t

(* What the player sees: waiting ends in text or failure, text is never    *)
(* taken back to waiting, a failure becomes waiting only by a retry.       *)
SeenText ==
  [t \in Turns |->
     CASE llm[t] = "none" -> "none"
       [] llm[t] \in {"PENDING", "RUNNING"} -> "waiting"
       [] llm[t] = "DONE" -> "ready"
       [] llm[t] = "FAILED" -> "failed"]

Seen == INSTANCE Narration WITH text <- SeenText

DeliversNarration == Seen!Spec
=============================================================================
