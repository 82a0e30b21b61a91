--------------------------- MODULE CampaignProofs ---------------------------
(***************************************************************************)
(* Theorems about Campaign, for any number of scenarios, heroes, requests, *)
(* campaigns, runs and failures.                                           *)
(***************************************************************************)
EXTENDS Campaign, FiniteSetTheorems, SequenceTheorems, TLAPS

(* A set of naturals that is not empty has a least element.                *)
LEMMA LeastIs ==
  ASSUME NEW S \in SUBSET Nat, S # {}
  PROVE  \E x \in S : \A y \in S : x <= y
<1> DEFINE Below == {S \cap 0..n : n \in S}
<1>1. Below \subseteq FiniteSubsetsOf(S) /\ Below # {}
  <2>1. ASSUME NEW n \in S PROVE IsFiniteSet(S \cap 0..n)
    <3>1. IsFiniteSet(0..n) /\ S \cap 0..n \in SUBSET (0..n)
      BY FS_Interval
    <3> QED BY ONLY <3>1, FS_Subset
  <2> QED BY <2>1 DEF FiniteSubsetsOf
<1>2. PICK low \in Below : \A b \in Below : <<b, low>> \notin StrictSubsetOrdering(S)
  BY <1>1, FS_StrictSubsetOrderingWellFounded, WFMin
<1>3. PICK x \in S : low = S \cap 0..x
  OBVIOUS
<1>4. \A y \in S : x <= y
  <2> SUFFICES ASSUME NEW y \in S, y < x PROVE FALSE
    OBVIOUS
  <2> DEFINE b == S \cap 0..y
  <2>1. b \in Below /\ b \subseteq low /\ x \in low /\ x \notin b
    BY <1>3
  <2>2. <<b, low>> \in StrictSubsetOrdering(S)
    BY <2>1, <1>1 DEF StrictSubsetOrdering, FiniteSubsetsOf
  <2> QED BY <1>2, <2>1, <2>2
<1> QED BY <1>4

-----------------------------------------------------------------------------
\* Types

(* What a campaign, a run, a request and the end of a run are made of.     *)
(* What they refer to is one of n campaigns.                               *)
Campaigns == [status : {"ACTIVE", "COMPLETED"}, carry : Carries]

(* A run of one of n campaigns, or of none.                                *)
RunsTo(n) == [campaign : 0..n, scenario : 0..Scenarios, who : Mixtures,
              status : {"ACTIVE", "ENDED", "ABORTED"}]

(* The labels of a request.                                                *)
Labels == {"idle", "journey", "guard", "carry", "check", "stats", "insert"}

(* A request about one of n campaigns.                                     *)
RequestsTo(n) == [pc : Labels, campaign : 0..n, scenario : 0..Scenarios,
                  who : Mixtures \union {Nobody}, carry : Carries]

(* The phases of the end of a run.                                         *)
Phases == {"playing", "end", "campaign", "run", "stats", "write", "over"}

(* The end of a run.                                                       *)
Endings == [pc : Phases,
            carry : Carries, stats : Stats]

(* TypeOK with names for its parts.                                        *)
Typed ==
  /\ setting \in Settings
  /\ campaigns \in Seq(Campaigns)
  /\ runs \in Seq(RunsTo(Len(campaigns)))
  /\ profile \in Stats
  /\ req \in [Requests -> RequestsTo(Len(campaigns))]
  /\ ending \in Seq(Endings) /\ DOMAIN ending = DOMAIN runs
  /\ aborting \subseteq DOMAIN runs
  /\ faults \in Nat

(* It is TypeOK.                                                           *)
LEMMA TypedIs == Typed <=> TypeOK
  BY DEF Typed, TypeOK, Campaigns, RunsTo, Endings, Phases, RequestsTo, Labels

(* Types, and where a label implies a campaign.                            *)
Shape ==
  /\ Typed
  /\ \A r \in Requests :
       /\ req[r].pc \in {"guard", "carry", "check"} => req[r].campaign # 0
       /\ req[r].pc \in {"guard", "carry", "check", "stats", "insert"} => req[r].who \in Mixtures
       /\ req[r].pc \in {"stats", "insert"} /\ req[r].campaign = 0 => req[r].carry = NoCarry
  /\ \A i \in DOMAIN runs : Merging(i) => runs[i].campaign # 0

(* The same in a form that is easier to use.                               *)
LEMMA ShapeIs ==
  ASSUME Shape
  PROVE  /\ Len(campaigns) \in Nat /\ DOMAIN campaigns = 1..Len(campaigns)
         /\ Len(runs) \in Nat /\ DOMAIN runs = 1..Len(runs)
         /\ DOMAIN ending = DOMAIN runs
         /\ \A c \in DOMAIN campaigns : campaigns[c] \in Campaigns
         /\ \A i \in DOMAIN runs : runs[i] \in RunsTo(Len(campaigns)) /\ ending[i] \in Endings
         /\ req \in [Requests -> RequestsTo(Len(campaigns))]
         /\ \A r \in Requests : req[r] \in RequestsTo(Len(campaigns))
         /\ profile \in Stats /\ faults \in Nat /\ aborting \subseteq DOMAIN runs
         /\ setting.careful \in BOOLEAN /\ setting.single \in BOOLEAN
<1>1. /\ campaigns \in Seq(Campaigns) /\ runs \in Seq(RunsTo(Len(campaigns)))
      /\ ending \in Seq(Endings) /\ DOMAIN ending = DOMAIN runs
      /\ req \in [Requests -> RequestsTo(Len(campaigns))]
      /\ profile \in Stats /\ faults \in Nat /\ aborting \subseteq DOMAIN runs
  BY DEF Shape, Typed
<1>2. setting.careful \in BOOLEAN /\ setting.single \in BOOLEAN
  BY CampaignAssumption DEF Shape, Typed
<1> QED BY ONLY <1>1, <1>2

(* A function on 1..n is a sequence of length n.                           *)
LEMMA FunctionIsSeq ==
  ASSUME NEW n \in Nat, NEW S, NEW f \in [1..n -> S]
  PROVE  f \in Seq(S) /\ Len(f) = n /\ DOMAIN f = 1..n
<1>1. f \in Seq(S)
  BY SeqDef
<1>2. Len(f) \in Nat /\ DOMAIN f = 1..Len(f) /\ DOMAIN f = 1..n
  BY <1>1, LenProperties
<1> QED BY <1>1, <1>2

(* A sequence has one length.                                              *)
LEMMA SameLength ==
  ASSUME NEW m \in Nat, NEW n \in Nat, 1..m = 1..n
  PROVE  m = n
<1>1. m \in 1..m \/ m = 0
  OBVIOUS
<1>2. n \in 1..n \/ n = 0
  OBVIOUS
<1> QED BY <1>1, <1>2

(* What a journey and a player begin with is of the right type.            *)
LEMMA NoCarryIs == NoStats \in Stats /\ NoCarry \in Carries
  BY DEF NoStats, NoCarry, Stats, Carries

(* So is a request that is not there.                                      *)
LEMMA IdleIs == ASSUME NEW n \in Nat PROVE Idle \in RequestsTo(n) /\ Idle.pc = "idle"
  BY NoCarryIs, CampaignAssumption DEF Idle, RequestsTo, Labels

(* The shape is there at first.                                            *)
LEMMA InitShape == Init => Shape
<1> SUFFICES ASSUME Init PROVE Shape
  OBVIOUS
<1>1. campaigns = <<>> /\ runs = <<>> /\ ending = <<>> /\ req = [r \in Requests |-> Idle]
  BY DEF Init
<1>2. \A r \in Requests : req[r] = Idle
  BY <1>1
<1>3. Idle \in RequestsTo(0)
  BY IdleIs
<1>4. Idle.pc = "idle"
  BY IdleIs
<1>5. Typed
  BY <1>1, <1>3, NoCarryIs DEF Init, Typed
<1> QED BY <1>1, <1>2, <1>4, <1>5 DEF Shape

-----------------------------------------------------------------------------
\* What the steps write

(* A step of request r leaves every other request alone.                   *)
Kept(r) ==
  /\ req' \in [Requests -> RequestsTo(Len(campaigns))]
  /\ \A x \in Requests \ {r} : req'[x] = req[x]

(* It changes the label of r and nothing else of it.                       *)
Moved(r, label) ==
  /\ Kept(r)
  /\ req'[r].pc = label /\ req'[r].campaign = req[r].campaign
  /\ req'[r].scenario = req[r].scenario /\ req'[r].who = req[r].who
  /\ req'[r].carry = req[r].carry

(* It ends r.                                                              *)
Answered(r) == Kept(r) /\ req'[r] = Idle /\ req'[r].pc = "idle"

(* A step of the end of run i leaves the end of every other run alone.     *)
Spared(i) ==
  /\ ending' \in Seq(Endings) /\ DOMAIN ending' = DOMAIN runs
  /\ \A j \in DOMAIN runs \ {i} : ending'[j] = ending[j]

(* It changes the phase of i and nothing else of it.                       *)
Stepped(i, label) ==
  /\ Spared(i)
  /\ ending'[i].pc = label /\ ending'[i].carry = ending[i].carry
  /\ ending'[i].stats = ending[i].stats

(* It gives up what the end of i has left to do.                           *)
Left(i) == Spared(i) /\ ending'[i].pc = "over"

(* Goto moves a request.                                                   *)
LEMMA GotoIs ==
  ASSUME Shape, NEW r \in Requests, NEW l \in Labels, Goto(r, l)
  PROVE  Moved(r, l)
<1>1. req \in [Requests -> RequestsTo(Len(campaigns))]
  BY ShapeIs
<1>2. req[r] \in RequestsTo(Len(campaigns))
  BY <1>1
<1> QED BY ONLY <1>1, <1>2, r \in Requests, l \in Labels, Goto(r, l) DEF Goto, Moved, Kept, RequestsTo

(* Answer ends it.                                                         *)
LEMMA AnswerIs ==
  ASSUME Shape, NEW r \in Requests, Answer(r)
  PROVE  Answered(r)
<1>1. req \in [Requests -> RequestsTo(Len(campaigns))]
  BY ShapeIs
<1>2. Idle \in RequestsTo(Len(campaigns)) /\ Idle.pc = "idle"
  BY ShapeIs, IdleIs
<1> QED BY ONLY <1>1, <1>2, Answer(r) DEF Answer, Answered, Kept

(* Replacing one entry of ending spares the others.                        *)
LEMMA EndingAt ==
  ASSUME Shape, NEW i \in DOMAIN runs, NEW e \in Endings, ending' = [ending EXCEPT ![i] = e]
  PROVE  Spared(i) /\ ending'[i] = e
<1>1. ending \in Seq(Endings) /\ DOMAIN ending = DOMAIN runs /\ i \in 1..Len(ending)
  BY ShapeIs DEF Shape, Typed
<1>2. /\ ending' \in Seq(Endings) /\ Len(ending') = Len(ending)
      /\ \A j \in 1..Len(ending) : ending'[j] = IF j = i THEN e ELSE ending[j]
  BY ONLY <1>1, e \in Endings, ending' = [ending EXCEPT ![i] = e], ExceptSeq
<1>3. DOMAIN ending' = 1..Len(ending) /\ DOMAIN ending = 1..Len(ending)
  BY ONLY <1>1, <1>2, LenProperties
<1> QED BY ONLY <1>1, <1>2, <1>3 DEF Spared

(* Step changes a phase.                                                   *)
LEMMA StepIs ==
  ASSUME Shape, NEW i \in DOMAIN runs, NEW l \in Phases, Step(i, l)
  PROVE  Stepped(i, l)
<1>1. ending \in Seq(Endings) /\ ending[i] \in Endings /\ i \in 1..Len(ending)
  BY ShapeIs DEF Shape, Typed
<1> DEFINE e == [ending[i] EXCEPT !.pc = l]
<1>2. /\ e \in Endings
      /\ e.pc = l /\ e.carry = ending[i].carry /\ e.stats = ending[i].stats
  BY <1>1 DEF Endings
<1>3. ending' = [ending EXCEPT ![i] = e]
  BY DEF Step
<1> HIDE DEF e
<1>4. Spared(i) /\ ending'[i] = e
  BY <1>1, <1>2, <1>3, EndingAt
<1> QED BY <1>2, <1>4 DEF Stepped

(* Over gives up.                                                          *)
LEMMA OverIs ==
  ASSUME Shape, NEW i \in DOMAIN runs, Over(i)
  PROVE  Left(i)
<1> DEFINE e == [Playing EXCEPT !.pc = "over"]
<1>1. e \in Endings /\ e.pc = "over"
  BY NoCarryIs DEF Playing, Endings, Phases
<1>2. ending' = [ending EXCEPT ![i] = e]
  BY DEF Over
<1> HIDE DEF e
<1> QED BY <1>1, <1>2, EndingAt DEF Left

-----------------------------------------------------------------------------
\* The shape is kept

(* The part of Shape that is about one request.                            *)
Placed(q) ==
  /\ q.pc \in {"guard", "carry", "check"} => q.campaign # 0
  /\ q.pc \in {"guard", "carry", "check", "stats", "insert"} => q.who \in Mixtures
  /\ q.pc \in {"stats", "insert"} /\ q.campaign = 0 => q.carry = NoCarry

(* A step of a request that writes no campaign and no run.                 *)
LEMMA RequestShape ==
  ASSUME Shape, NEW r \in Requests, Kept(r), Placed(req'[r]), profile' \in Stats,
         UNCHANGED <<setting, campaigns, runs, ending, aborting, faults>>
  PROVE  Shape'
<1>1. Typed'
  BY DEF Shape, Typed, Kept
<1>2. \A i \in DOMAIN runs : Merging(i)' <=> Merging(i)
  BY DEF Merging
<1>3. (\A i \in DOMAIN runs : Merging(i) => runs[i].campaign # 0)'
  BY <1>2 DEF Shape
<1>4. \A x \in Requests : Placed(req'[x])
  BY DEF Shape, Kept, Placed
<1> QED BY <1>1, <1>3, <1>4 DEF Shape, Placed

(* A step of a run's end that writes no request and no run.                *)
LEMMA EndingShape ==
  ASSUME Shape, NEW i \in DOMAIN runs, Spared(i),
         Merging(i)' => runs[i].campaign # 0,
         campaigns' \in Seq(Campaigns), Len(campaigns') = Len(campaigns),
         faults' \in Nat, UNCHANGED <<setting, runs, profile, req, aborting>>
  PROVE  Shape'
<1>1. Typed'
  BY DEF Shape, Typed, Spared
<1>2. \A j \in DOMAIN runs \ {i} : Merging(j)' <=> Merging(j)
  BY DEF Merging, Spared
<1>3. (\A j \in DOMAIN runs : Merging(j) => runs[j].campaign # 0)'
  BY <1>2 DEF Shape
<1> QED BY <1>1, <1>3 DEF Shape

(* createCampaign, first statement: every campaign is archived, none       *)
(* changes what it carries.                                                *)
LEMMA ArchiveShape ==
  ASSUME Shape, NEW r \in Requests, Archive(r), UNCHANGED setting
  PROVE  /\ Shape' /\ Moved(r, "journey") /\ req[r].pc = "idle"
         /\ DOMAIN campaigns' = DOMAIN campaigns
         /\ \A c \in DOMAIN campaigns :
              campaigns'[c].status = "COMPLETED" /\ campaigns'[c].carry = campaigns[c].carry
<1>1. Moved(r, "journey") /\ req[r].pc = "idle"
  BY GotoIs DEF Archive, Labels, At
<1>2. campaigns' = [c \in 1..Len(campaigns) |->
                      [status |-> "COMPLETED", carry |-> campaigns[c].carry]]
  BY ShapeIs DEF Archive
<1>3. \A c \in 1..Len(campaigns) : campaigns[c].carry \in Carries
  BY ShapeIs DEF Campaigns
<1>4. /\ campaigns' \in Seq(Campaigns) /\ Len(campaigns') = Len(campaigns)
      /\ DOMAIN campaigns' = 1..Len(campaigns)
  <2>1. campaigns' \in [1..Len(campaigns) -> Campaigns]
    BY <1>2, <1>3 DEF Campaigns
  <2>2. Len(campaigns) \in Nat
    BY ShapeIs
  <2> QED BY ONLY <2>1, <2>2, FunctionIsSeq
<1>5. Typed'
  BY <1>1, <1>4 DEF Shape, Typed, Kept, Moved, Archive
<1>6. (\A i \in DOMAIN runs : Merging(i) => runs[i].campaign # 0)'
  BY DEF Shape, Merging, Archive
<1>7. \A x \in Requests : Placed(req'[x])
  BY <1>1 DEF Shape, Kept, Placed, Moved
<1>8. DOMAIN campaigns = 1..Len(campaigns)
  BY ShapeIs
<1>9. Shape'
  BY <1>5, <1>6, <1>7 DEF Shape, Placed
<1> QED BY <1>1, <1>2, <1>4, <1>8, <1>9

(* createCampaign, second statement: one campaign more, nothing carried.   *)
LEMMA InsertCampaignShape ==
  ASSUME Shape, NEW r \in Requests, InsertCampaign(r), UNCHANGED setting
  PROVE  /\ Shape' /\ Answered(r) /\ req[r].pc = "journey"
         /\ Len(campaigns') = Len(campaigns) + 1
         /\ DOMAIN campaigns' = 1..(Len(campaigns) + 1)
         /\ \A c \in DOMAIN campaigns : campaigns'[c] = campaigns[c]
         /\ campaigns'[Len(campaigns) + 1] = [status |-> "ACTIVE", carry |-> NoCarry]
<1>1. Answered(r) /\ req[r].pc = "journey"
  BY AnswerIs DEF InsertCampaign, At
<1>2. campaigns \in Seq(Campaigns)
  BY DEF Shape, Typed
<1>3. campaigns' = Append(campaigns, [status |-> "ACTIVE", carry |-> NoCarry])
  BY DEF InsertCampaign
<1>4. [status |-> "ACTIVE", carry |-> NoCarry] \in Campaigns
  BY NoCarryIs DEF Campaigns
<1>5. /\ campaigns' \in Seq(Campaigns)
      /\ Len(campaigns') = Len(campaigns) + 1
      /\ DOMAIN campaigns' = 1..(Len(campaigns) + 1)
      /\ \A c \in DOMAIN campaigns : campaigns'[c] = campaigns[c]
      /\ campaigns'[Len(campaigns) + 1] = [status |-> "ACTIVE", carry |-> NoCarry]
  BY ONLY <1>2, <1>3, <1>4
<1>6. /\ RequestsTo(Len(campaigns)) \subseteq RequestsTo(Len(campaigns'))
      /\ RunsTo(Len(campaigns)) \subseteq RunsTo(Len(campaigns'))
  <2>1. 0..Len(campaigns) \subseteq 0..Len(campaigns')
    BY <1>5, ShapeIs
  <2> QED BY ONLY <2>1 DEF RequestsTo, RunsTo
<1>7. req' \in [Requests -> RequestsTo(Len(campaigns'))]
  BY <1>1, <1>6 DEF Answered, Kept
<1>8. runs' \in Seq(RunsTo(Len(campaigns')))
  <2>1. runs \in Seq(RunsTo(Len(campaigns)))
    BY DEF Shape, Typed
  <2> QED BY <2>1, <1>6 DEF InsertCampaign
<1>9. Typed'
  BY <1>5, <1>7, <1>8 DEF Shape, Typed, InsertCampaign
<1>10. (\A i \in DOMAIN runs : Merging(i) => runs[i].campaign # 0)'
  BY DEF Shape, Merging, InsertCampaign
<1>11. \A x \in Requests : Placed(req'[x])
  BY <1>1 DEF Shape, Kept, Placed, Answered
<1>12. Shape'
  BY <1>9, <1>10, <1>11 DEF Shape, Placed
<1> QED BY <1>1, <1>5, <1>12

(* Who is asked for, whatever is left out, has the parts of a persona.     *)
LEMMA PersonasAre == Personas \subseteq Mixtures
  BY DEF Personas, Mixtures

(* A request for a run begins, with nothing read yet.                      *)
LEMMA AskIs ==
  ASSUME Shape, NEW r \in Requests, NEW c \in 0..Len(campaigns), NEW s \in 0..Scenarios,
         NEW h \in Personas, Ask(r, c, s, h), UNCHANGED setting
  PROVE  /\ Shape' /\ Kept(r) /\ req[r].pc = "idle" /\ MayAsk
         /\ setting.single => \A i \in DOMAIN runs : ~Active(i)
         /\ req'[r].pc = IF c = 0 THEN "stats" ELSE "guard"
         /\ req'[r].campaign = c /\ req'[r].who = h /\ req'[r].carry = NoCarry
         /\ req'[r].scenario = s /\ c = 0 => s = 0
<1> DEFINE q == [Idle EXCEPT !.pc = IF c = 0 THEN "stats" ELSE "guard",
                             !.campaign = c, !.scenario = s, !.who = h]
<1>1. req \in [Requests -> RequestsTo(Len(campaigns))] /\ profile \in Stats
  BY DEF Shape, Typed
<1>2. /\ q.pc = (IF c = 0 THEN "stats" ELSE "guard") /\ q.campaign = c /\ q.who = h
      /\ q.carry = NoCarry /\ q.scenario = s
      /\ q \in RequestsTo(Len(campaigns))
  BY NoCarryIs, PersonasAre DEF Idle, RequestsTo, Labels
<1>3. /\ req' = [req EXCEPT ![r] = q] /\ req[r].pc = "idle" /\ MayAsk
      /\ setting.single => \A i \in DOMAIN runs : ~Active(i)
      /\ c = 0 => s = 0
      /\ UNCHANGED <<campaigns, runs, profile, ending, aborting, faults>>
  BY DEF Ask, At
<1> HIDE DEF q
<1>4. Kept(r) /\ req'[r] = q
  BY <1>1, <1>2, <1>3 DEF Kept
<1>5. Placed(req'[r])
  BY <1>2, <1>4, PersonasAre DEF Placed
<1> QED BY <1>1, <1>2, <1>3, <1>4, <1>5, RequestShape

(* A request that is answered leaves the shape.                            *)
LEMMA AnswerShape ==
  ASSUME Shape, NEW r \in Requests, Answered(r),
         UNCHANGED <<setting, campaigns, runs, profile, ending, aborting, faults>>
  PROVE  Shape'
<1>1. Kept(r) /\ Placed(req'[r]) /\ profile' \in Stats
  BY ShapeIs DEF Answered, Placed
<1> QED BY <1>1, RequestShape

(* The guard lets a request pass only when the campaign has no open run.   *)
LEMMA GuardIs ==
  ASSUME Shape, NEW r \in Requests, Guard(r), UNCHANGED setting
  PROVE  /\ Shape' /\ req[r].pc = "guard"
         /\ Answered(r) \/ (Moved(r, "carry") /\ ActiveIn(req[r].campaign) = {})
<1>1. /\ req[r].pc = "guard"
      /\ Answered(r) \/ (Moved(r, "carry") /\ ActiveIn(req[r].campaign) = {})
  BY AnswerIs, GotoIs DEF Guard, At, Labels
<1>2. Shape'
  <2>1. CASE Answered(r)
    BY <2>1, AnswerShape DEF Guard
  <2>2. CASE Moved(r, "carry")
    <3>1. Kept(r) /\ Placed(req'[r]) /\ profile' \in Stats
      BY <1>1, <2>2, ShapeIs DEF Moved, Placed, Shape, Guard
    <3> QED BY <3>1, RequestShape DEF Guard
  <2> QED BY <1>1, <2>1, <2>2
<1> QED BY <1>1, <1>2

(* The carried state of the campaign is copied into the request.           *)
LEMMA ReadCarryIs ==
  ASSUME Shape, NEW r \in Requests, ReadCarry(r), UNCHANGED setting
  PROVE  /\ Shape' /\ Kept(r) /\ req[r].pc = "carry" /\ req'[r].pc = "check"
         /\ req[r].campaign \in DOMAIN campaigns
         /\ req'[r].campaign = req[r].campaign /\ req'[r].who = req[r].who
         /\ req'[r].carry = campaigns[req[r].campaign].carry
<1> DEFINE c == campaigns[req[r].campaign].carry
           q == [req[r] EXCEPT !.carry = c, !.pc = "check"]
<1>1. /\ req \in [Requests -> RequestsTo(Len(campaigns))] /\ profile \in Stats
      /\ req[r] \in RequestsTo(Len(campaigns)) /\ req[r].pc = "carry"
      /\ Placed(req[r])
  BY ShapeIs DEF Shape, Typed, ReadCarry, At, Placed
<1>2. req[r].campaign \in DOMAIN campaigns
  BY <1>1, ShapeIs DEF RequestsTo, Placed
<1>3. c \in Carries
  BY <1>2, ShapeIs DEF Campaigns
<1> HIDE DEF c
<1>4. /\ q.pc = "check" /\ q.campaign = req[r].campaign /\ q.who = req[r].who
      /\ q.carry = c /\ q \in RequestsTo(Len(campaigns))
  BY <1>1, <1>3 DEF RequestsTo, Labels
<1>5. req' = [req EXCEPT ![r] = q]
  BY DEF ReadCarry, c
<1> HIDE DEF q
<1>6. Kept(r) /\ req'[r] = q
  BY <1>1, <1>4, <1>5 DEF Kept
<1>7. Placed(req'[r])
  BY <1>1, <1>4, <1>6 DEF Placed
<1>8. Shape'
  BY <1>1, <1>6, <1>7, RequestShape DEF ReadCarry
<1> QED BY <1>1, <1>2, <1>4, <1>6, <1>8 DEF c

(* The scenario that is chosen for a request without one is no completed   *)
(* one.                                                                    *)
LEMMA NextScenarioIs ==
  ASSUME NEW c, NEW open, 0 \notin Completed(campaigns[c].carry)
  PROVE  /\ NextScenario(c, open) \in 0..Scenarios
         /\ NextScenario(c, open) \notin Completed(campaigns[c].carry)
<1> DEFINE free == (1..Scenarios) \ (Completed(campaigns[c].carry) \union {open})
<1>0. Scenarios \in Nat
  BY CampaignAssumption
<1>1. CASE free = {}
  BY <1>0, <1>1 DEF NextScenario
<1>2. CASE free # {}
  <2>1. free \in SUBSET Nat
    OBVIOUS
  <2>2. \E s \in free : \A t \in free : s <= t
    BY <1>2, <2>1, LeastIs
  <2>3. (CHOOSE s \in free : \A t \in free : s <= t) \in free
    BY <2>2
  <2>4. NextScenario(c, open) = CHOOSE s \in free : \A t \in free : s <= t
    BY <1>2 DEF NextScenario
  <2> QED BY <1>0, <2>3, <2>4
<1> QED BY <1>1, <1>2

(* A scenario that is completed has a number.                              *)
LEMMA CompletedIs ==
  ASSUME NEW carry \in Carries
  PROVE  Completed(carry) \subseteq 1..Scenarios
  BY DEF Carries, Completed

(* The check lets a request pass only with a scenario that is not          *)
(* completed.                                                              *)
LEMMA CheckIs ==
  ASSUME Shape, NEW r \in Requests, Check(r), UNCHANGED setting
  PROVE  /\ Shape' /\ req[r].pc = "check" /\ req[r].campaign \in DOMAIN campaigns
         /\ \/ Answered(r)
            \/ /\ Kept(r) /\ req'[r].pc = "stats" /\ req'[r].campaign = req[r].campaign
               /\ req'[r].who = req[r].who /\ req'[r].carry = req[r].carry
               /\ req'[r].scenario \notin Completed(campaigns[req[r].campaign].carry)
<1> DEFINE c == req[r].campaign
<1>1. /\ req \in [Requests -> RequestsTo(Len(campaigns))] /\ profile \in Stats
      /\ req[r] \in RequestsTo(Len(campaigns)) /\ req[r].pc = "check"
      /\ Placed(req[r]) /\ UNCHANGED <<campaigns, runs, profile, ending, aborting, faults>>
  BY ShapeIs DEF Shape, Typed, Check, At, Placed
<1>2. c \in DOMAIN campaigns
  BY <1>1, ShapeIs DEF RequestsTo, Placed
<1>3. 0 \notin Completed(campaigns[c].carry)
  BY <1>2, ShapeIs, CompletedIs DEF Campaigns
<1>4. CASE req[r].scenario \in Completed(campaigns[c].carry)
  <2>1. Answered(r)
    BY <1>4, AnswerIs DEF Check
  <2> QED BY <1>1, <1>2, <2>1, AnswerShape
<1>5. CASE req[r].scenario \notin Completed(campaigns[c].carry)
  <2>1. PICK next \in (IF req[r].scenario # 0 THEN {req[r].scenario}
                      ELSE {NextScenario(c, o) : o \in Open(c)}) :
          req' = [req EXCEPT ![r].pc = "stats", ![r].scenario = next]
    BY <1>5 DEF Check
  <2>2. next \in 0..Scenarios /\ next \notin Completed(campaigns[c].carry)
    BY <1>1, <1>3, <1>5, <2>1, NextScenarioIs DEF RequestsTo
  <2> DEFINE q == [req[r] EXCEPT !.pc = "stats", !.scenario = next]
  <2>3. /\ q.pc = "stats" /\ q.campaign = c /\ q.who = req[r].who
        /\ q.carry = req[r].carry /\ q.scenario = next /\ q \in RequestsTo(Len(campaigns))
    BY <1>1, <2>2 DEF RequestsTo, Labels
  <2>4. req' = [req EXCEPT ![r] = q]
    BY <2>1
  <2> HIDE DEF q
  <2>5. Kept(r) /\ req'[r] = q
    BY <1>1, <2>3, <2>4 DEF Kept
  <2>6. Placed(req'[r])
    BY <1>1, <2>3, <2>5 DEF Placed
  <2>7. Shape'
    BY <1>1, <2>5, <2>6, RequestShape
  <2> QED BY <1>1, <1>2, <2>2, <2>3, <2>5, <2>7
<1> QED BY <1>4, <1>5

(* A refused request leaves nothing behind.                                *)
LEMMA RefuseIs ==
  ASSUME Shape, NEW r \in Requests, Refuse(r), UNCHANGED setting
  PROVE  Shape' /\ Answered(r) /\ req[r].pc = "stats"
  BY AnswerIs, AnswerShape DEF Refuse, At

(* The stats of a run are stats: those of its preset, or the carried ones. *)
LEMMA StatsAre ==
  ASSUME NEW carry \in Carries, NEW h \in Mixtures
  PROVE  StatsOf(carry, h) \in Stats
<1>1. carry.stats \in Stats /\ carry.bonus \in Nat
  BY DEF Carries
<1> QED BY <1>1 DEF StatsOf, Stats, Mixtures

(* The player's stats become those of the request.                         *)
LEMMA WriteProfileIs ==
  ASSUME Shape, NEW r \in Requests, WriteProfile(r), UNCHANGED setting
  PROVE  /\ Shape' /\ Moved(r, "insert") /\ req[r].pc = "stats"
         /\ req[r].who \in Mixtures /\ profile' = StatsOf(req[r].carry, req[r].who)
<1>1. /\ req[r].pc = "stats" /\ Moved(r, "insert") /\ Placed(req[r])
      /\ req[r].carry \in Carries
      /\ profile' = StatsOf(req[r].carry, req[r].who)
  BY GotoIs, ShapeIs DEF WriteProfile, At, Labels, Shape, Placed, RequestsTo
<1>2. Kept(r) /\ Placed(req'[r]) /\ profile' \in Stats
  BY <1>1, StatsAre DEF Moved, Placed
<1>3. Shape'
  BY <1>2, RequestShape DEF WriteProfile
<1> QED BY <1>1, <1>3 DEF Placed

(* The run a request inserts.                                              *)
InsertedRun(r) ==
  [campaign |-> req[r].campaign, scenario |-> req[r].scenario,
   who |-> HeroOf(req[r].carry, req[r].who), status |-> "ACTIVE"]

(* One run more, at the end, and its request is answered.                  *)
LEMMA InsertRunIs ==
  ASSUME Shape, NEW r \in Requests, InsertRun(r), UNCHANGED setting
  PROVE  /\ Shape' /\ Answered(r) /\ req[r].pc = "insert"
         /\ DOMAIN runs = 1..Len(runs) /\ DOMAIN runs' = 1..(Len(runs) + 1) /\ Len(runs) \in Nat
         /\ \A i \in DOMAIN runs : runs'[i] = runs[i] /\ ending'[i] = ending[i]
         /\ runs'[Len(runs) + 1] = InsertedRun(r)
         /\ ending'[Len(runs) + 1].pc = "playing"
<1>1. /\ req[r].pc = "insert" /\ Answered(r) /\ Placed(req[r])
      /\ req[r] \in RequestsTo(Len(campaigns))
  BY AnswerIs, ShapeIs DEF InsertRun, At, Shape, Placed
<1>2. /\ runs \in Seq(RunsTo(Len(campaigns))) /\ ending \in Seq(Endings)
      /\ DOMAIN runs = DOMAIN ending
  BY DEF Shape, Typed
<1>3. HeroOf(req[r].carry, req[r].who) \in Mixtures
  BY <1>1 DEF HeroOf, Or, Mixtures, RequestsTo, Carries, Placed
<1>4. InsertedRun(r) \in RunsTo(Len(campaigns))
  BY <1>1, <1>3 DEF InsertedRun, RunsTo, RequestsTo
<1>5. Playing \in Endings /\ Playing.pc = "playing"
  BY NoCarryIs DEF Playing, Endings, Phases
<1>6. runs' = Append(runs, InsertedRun(r)) /\ ending' = Append(ending, Playing)
  BY DEF InsertRun, InsertedRun
<1>7. /\ runs' \in Seq(RunsTo(Len(campaigns)))
      /\ DOMAIN runs = 1..Len(runs) /\ DOMAIN runs' = 1..(Len(runs) + 1) /\ Len(runs) \in Nat
      /\ \A i \in DOMAIN runs : runs'[i] = runs[i]
      /\ runs'[Len(runs) + 1] = InsertedRun(r)
  BY ONLY <1>2, <1>4, <1>6
<1>8. /\ ending' \in Seq(Endings)
      /\ DOMAIN ending = 1..Len(ending) /\ DOMAIN ending' = 1..(Len(ending) + 1)
      /\ Len(ending) \in Nat
      /\ \A i \in DOMAIN ending : ending'[i] = ending[i]
      /\ ending'[Len(ending) + 1] = Playing
  BY ONLY <1>2, <1>5, <1>6
<1>9. Len(ending) = Len(runs)
  <2>1. 1..Len(runs) = 1..Len(ending)
    BY ONLY <1>2, <1>7, <1>8
  <2> QED BY ONLY <2>1, <1>7, <1>8, SameLength
<1>10. Typed'
  <2>1. aborting \subseteq DOMAIN runs'
    BY <1>7 DEF Shape, Typed
  <2> QED BY <1>1, <1>7, <1>8, <1>9, <2>1 DEF Shape, Typed, InsertRun, Answered, Kept
<1>11. (\A i \in DOMAIN runs : Merging(i) => runs[i].campaign # 0)'
  <2>1. \A i \in DOMAIN runs : Merging(i)' <=> Merging(i)
    BY <1>2, <1>8 DEF Merging
  <2>2. PICK n \in Nat : n = Len(runs) + 1
    BY <1>7
  <2>3. ~Merging(n)'
    BY <2>2, <1>5, <1>8, <1>9 DEF Merging
  <2>4. ASSUME NEW i \in DOMAIN runs', Merging(i)' PROVE runs'[i].campaign # 0
    <3>1. i \in DOMAIN runs
      BY <2>2, <2>3, <2>4, <1>7
    <3> QED BY <2>1, <2>4, <3>1, <1>7 DEF Shape
  <2> QED BY <2>4
<1>12. \A x \in Requests : Placed(req'[x])
  BY <1>1 DEF Shape, Kept, Placed, Answered
<1>13. Shape'
  BY <1>10, <1>11, <1>12 DEF Shape, Placed
<1> QED BY <1>1, <1>2, <1>5, <1>7, <1>8, <1>9, <1>13

-----------------------------------------------------------------------------

(* EndingShape for the steps that write no campaign and count no failure.  *)
LEMMA PhaseShape ==
  ASSUME Shape, NEW i \in DOMAIN runs, Spared(i), Merging(i)' => runs[i].campaign # 0,
         UNCHANGED <<setting, campaigns, runs, profile, req, aborting, faults>>
  PROVE  Shape'
  BY EndingShape DEF Shape, Typed

(* A turn that will end the run has read it as active.                     *)
LEMMA LastTurnIs ==
  ASSUME Shape, NEW i \in DOMAIN runs, LastTurn(i), UNCHANGED setting
  PROVE  /\ Shape' /\ Stepped(i, "end") /\ ending[i].pc = "playing" /\ Active(i) /\ MayAsk
<1>1. Stepped(i, "end") /\ ending[i].pc = "playing" /\ Active(i) /\ MayAsk
  BY StepIs DEF LastTurn, Phase, Phases
<1>2. Shape'
  BY <1>1, PhaseShape DEF LastTurn, Stepped, Merging
<1> QED BY <1>1, <1>2

(* Only the status of one run is written.                                  *)
LEMMA StatusIs ==
  ASSUME Shape, NEW i \in DOMAIN runs, NEW st \in {"ACTIVE", "ENDED", "ABORTED"},
         runs' = [runs EXCEPT ![i].status = st]
  PROVE  /\ runs' \in Seq(RunsTo(Len(campaigns))) /\ DOMAIN runs' = DOMAIN runs
         /\ \A j \in DOMAIN runs \ {i} : runs'[j] = runs[j]
         /\ runs'[i].status = st /\ runs'[i].campaign = runs[i].campaign
         /\ runs'[i].scenario = runs[i].scenario /\ runs'[i].who = runs[i].who
<1>1. runs \in Seq(RunsTo(Len(campaigns))) /\ i \in 1..Len(runs) /\ runs[i] \in RunsTo(Len(campaigns))
  BY ShapeIs DEF Shape, Typed
<1> DEFINE e == [runs[i] EXCEPT !.status = st]
<1>2. /\ e \in RunsTo(Len(campaigns)) /\ e.status = st
      /\ e.campaign = runs[i].campaign /\ e.scenario = runs[i].scenario /\ e.who = runs[i].who
  BY <1>1 DEF RunsTo
<1>3. runs' = [runs EXCEPT ![i] = e]
  OBVIOUS
<1> HIDE DEF e
<1>4. /\ runs' \in Seq(RunsTo(Len(campaigns))) /\ Len(runs') = Len(runs)
      /\ \A j \in 1..Len(runs) : runs'[j] = IF j = i THEN e ELSE runs[j]
  BY ONLY <1>1, <1>2, <1>3, ExceptSeq
<1>5. DOMAIN runs' = 1..Len(runs) /\ DOMAIN runs = 1..Len(runs)
  BY ONLY <1>1, <1>4, LenProperties
<1> QED BY ONLY <1>1, <1>2, <1>4, <1>5

(* The end of a run: the status is written and, in a campaign, the merge   *)
(* begins.                                                                 *)
LEMMA EndIs ==
  ASSUME Shape, NEW i \in DOMAIN runs, End(i), UNCHANGED setting
  PROVE  /\ Shape' /\ ending[i].pc = "end"
         /\ IF runs[i].campaign = 0 THEN Left(i) ELSE Stepped(i, "campaign")
         /\ DOMAIN runs' = DOMAIN runs
         /\ \A j \in DOMAIN runs \ {i} : runs'[j] = runs[j]
         /\ runs'[i].status = "ENDED" /\ runs'[i].campaign = runs[i].campaign
         /\ runs'[i].scenario = runs[i].scenario /\ runs'[i].who = runs[i].who
<1>1. /\ ending[i].pc = "end"
      /\ IF runs[i].campaign = 0 THEN Left(i) ELSE Stepped(i, "campaign")
  BY OverIs, StepIs DEF End, Phase, Phases
<1>2. /\ runs' \in Seq(RunsTo(Len(campaigns))) /\ DOMAIN runs' = DOMAIN runs
      /\ \A j \in DOMAIN runs \ {i} : runs'[j] = runs[j]
      /\ runs'[i].status = "ENDED" /\ runs'[i].campaign = runs[i].campaign
      /\ runs'[i].scenario = runs[i].scenario /\ runs'[i].who = runs[i].who
  BY StatusIs DEF End
<1>3. Spared(i)
  BY <1>1 DEF Left, Stepped
<1>4. Typed'
  BY <1>2, <1>3 DEF Shape, Typed, Spared, End
<1>5. (\A j \in DOMAIN runs : Merging(j) => runs[j].campaign # 0)'
  <2>1. \A j \in DOMAIN runs \ {i} : Merging(j)' <=> Merging(j)
    BY <1>3 DEF Spared, Merging
  <2>2. Merging(i)' => runs[i].campaign # 0
    BY <1>1 DEF Left, Merging
  <2> QED BY <1>2, <2>1, <2>2 DEF Shape
<1>6. \A x \in Requests : Placed(req'[x])
  BY DEF Shape, Placed, End
<1>7. Shape'
  BY <1>4, <1>5, <1>6 DEF Shape, Placed
<1> QED BY <1>1, <1>2, <1>7

(* The merge copies the carried state of the campaign.                     *)
LEMMA MergeReadCampaignIs ==
  ASSUME Shape, NEW i \in DOMAIN runs, MergeReadCampaign(i), UNCHANGED setting
  PROVE  /\ Shape' /\ Spared(i) /\ ending[i].pc = "campaign" /\ ending'[i].pc = "run"
         /\ runs[i].campaign \in DOMAIN campaigns
         /\ ending'[i].carry = campaigns[runs[i].campaign].carry
<1> DEFINE c == campaigns[runs[i].campaign].carry
           e == [ending[i] EXCEPT !.pc = "run", !.carry = c]
<1>1. ending[i].pc = "campaign" /\ runs[i].campaign # 0 /\ runs[i].campaign \in DOMAIN campaigns
  BY ShapeIs DEF MergeReadCampaign, Phase, Merging, Shape, RunsTo
<1>2. c \in Carries /\ ending[i] \in Endings
  BY <1>1, ShapeIs DEF Campaigns
<1>3. ending' = [ending EXCEPT ![i] = e]
  BY DEF MergeReadCampaign
<1> HIDE DEF c
<1>4. e \in Endings /\ e.pc = "run" /\ e.carry = c
  BY <1>2 DEF Endings, Phases
<1> HIDE DEF e
<1>5. Spared(i) /\ ending'[i] = e
  BY <1>3, <1>4, EndingAt
<1>6. Shape'
  BY <1>1, <1>5, PhaseShape DEF MergeReadCampaign
<1> QED BY <1>1, <1>4, <1>5, <1>6 DEF c

(* The merge goes on only if the run reads ended.                          *)
LEMMA MergeReadRunIs ==
  ASSUME Shape, NEW i \in DOMAIN runs, MergeReadRun(i), UNCHANGED setting
  PROVE  /\ Shape' /\ ending[i].pc = "run"
         /\ IF runs[i].status = "ENDED" THEN Stepped(i, "stats") ELSE Left(i)
<1>1. /\ ending[i].pc = "run"
      /\ IF runs[i].status = "ENDED" THEN Stepped(i, "stats") ELSE Left(i)
  BY StepIs, OverIs DEF MergeReadRun, Phase, Phases
<1>2. Spared(i) /\ runs[i].campaign # 0
  BY <1>1 DEF Stepped, Left, Shape, Merging
<1> QED BY <1>1, <1>2, PhaseShape DEF MergeReadRun

(* The merge copies the player's stats.                                    *)
LEMMA MergeReadStatsIs ==
  ASSUME Shape, NEW i \in DOMAIN runs, MergeReadStats(i), UNCHANGED setting
  PROVE  /\ Shape' /\ Spared(i) /\ ending[i].pc = "stats" /\ ending'[i].pc = "write"
         /\ ending'[i].carry = ending[i].carry /\ ending'[i].stats = profile
<1> DEFINE e == [ending[i] EXCEPT !.pc = "write", !.stats = profile]
<1>1. ending[i].pc = "stats" /\ runs[i].campaign # 0
  BY DEF MergeReadStats, Phase, Merging, Shape
<1>2. profile \in Stats /\ ending[i] \in Endings
  BY ShapeIs
<1>3. ending' = [ending EXCEPT ![i] = e]
  BY DEF MergeReadStats
<1>4. e \in Endings /\ e.pc = "write" /\ e.carry = ending[i].carry /\ e.stats = profile
  BY <1>2 DEF Endings, Phases
<1> HIDE DEF e
<1>5. Spared(i) /\ ending'[i] = e
  BY <1>3, <1>4, EndingAt
<1>6. Shape'
  BY <1>1, <1>5, PhaseShape DEF MergeReadStats
<1> QED BY <1>1, <1>4, <1>5, <1>6
(* What is merged is a carried state, and one more scenario is completed.  *)
LEMMA ResultIs ==
  ASSUME Shape, NEW i \in DOMAIN runs
  PROVE  /\ Result(i) \in [scenario : 1..Scenarios, run : Nat]
         /\ Result(i).run = i
<1>1. /\ runs[i].scenario \in 0..Scenarios /\ i \in Nat
  BY ShapeIs DEF RunsTo
<1>2. 1 \in 1..Scenarios
  BY CampaignAssumption
<1> QED BY <1>1, <1>2 DEF Result

(* What a merge writes: a carried state, with the scenario of the run      *)
(* among the completed ones.                                               *)
LEMMA MergedIs ==
  ASSUME Shape, NEW i \in DOMAIN runs
  PROVE  /\ Merged(i) \in Carries
         /\ Merged(i).done = WithResult(ending[i].carry.done, i)
         /\ Merged(i).who = IF ending[i].carry.who # Nobody THEN ending[i].carry.who ELSE runs[i].who
         /\ Merged(i).stats = ending[i].stats
         /\ Merged(i).bonus =
              ending[i].carry.bonus + IF Result(i).scenario \in Completed(ending[i].carry) THEN 0 ELSE 1
         /\ Completed(Merged(i)) = Completed(ending[i].carry) \union {Result(i).scenario}
<1> DEFINE p == ending[i].carry
<1>1. p \in Carries /\ ending[i].stats \in Stats /\ runs[i].who \in Mixtures
  BY ShapeIs DEF Endings, RunsTo
<1>2. /\ p.done \in SUBSET [scenario : 1..Scenarios, run : Nat] /\ p.bonus \in Nat
      /\ p.who \in Mixtures \union {Nobody}
  BY <1>1 DEF Carries
<1>3. /\ Merged(i).done = WithResult(p.done, i)
      /\ Merged(i).who = IF p.who # Nobody THEN p.who ELSE runs[i].who
      /\ Merged(i).stats = ending[i].stats
      /\ Merged(i).bonus = p.bonus + IF Result(i).scenario \in Completed(p) THEN 0 ELSE 1
  BY DEF Merged
<1>4. WithResult(p.done, i) \in SUBSET [scenario : 1..Scenarios, run : Nat]
  BY <1>2, ResultIs DEF WithResult
<1>5. Merged(i) \in Carries
  <2> DEFINE d == WithResult(p.done, i)
             h == IF p.who # Nobody THEN p.who ELSE runs[i].who
             b == p.bonus + IF Result(i).scenario \in Completed(p) THEN 0 ELSE 1
  <2>1. d \in SUBSET [scenario : 1..Scenarios, run : Nat] /\ h \in Mixtures \union {Nobody} /\ b \in Nat
    BY <1>1, <1>2, <1>4
  <2>2. Merged(i) = [done |-> d, who |-> h, stats |-> ending[i].stats, bonus |-> b]
    BY DEF Merged
  <2> HIDE DEF d, h, b
  <2> QED BY <1>1, <2>1, <2>2 DEF Carries
<1>6. Completed(Merged(i)) = Completed(p) \union {Result(i).scenario}
  <2>1. Completed(Merged(i)) = {d.scenario : d \in WithResult(p.done, i)}
    BY <1>3 DEF Completed
  <2>2. Completed(p) = {d.scenario : d \in p.done}
    BY DEF Completed
  <2> QED BY ONLY <2>1, <2>2 DEF WithResult
<1> QED BY <1>3, <1>5, <1>6

(* The merge replaces what its campaign carries, and nothing else.         *)
LEMMA MergeWriteIs ==
  ASSUME Shape, NEW i \in DOMAIN runs, MergeWrite(i), UNCHANGED setting
  PROVE  /\ Shape' /\ ending[i].pc = "write" /\ Left(i)
         /\ runs[i].campaign \in DOMAIN campaigns /\ DOMAIN campaigns' = DOMAIN campaigns
         /\ \A c \in DOMAIN campaigns \ {runs[i].campaign} : campaigns'[c] = campaigns[c]
         /\ campaigns'[runs[i].campaign].status = campaigns[runs[i].campaign].status
         /\ campaigns'[runs[i].campaign].carry = Merged(i)
<1> DEFINE c == runs[i].campaign
           e == [campaigns[c] EXCEPT !.carry = Merged(i)]
<1>1. /\ ending[i].pc = "write" /\ Left(i) /\ c # 0 /\ c \in DOMAIN campaigns
      /\ c \in 1..Len(campaigns) /\ campaigns \in Seq(Campaigns) /\ campaigns[c] \in Campaigns
  BY ShapeIs, OverIs DEF MergeWrite, Phase, Merging, Shape, RunsTo, Typed
<1>2. campaigns' = [campaigns EXCEPT ![c] = e]
  BY DEF MergeWrite
<1>3. e \in Campaigns /\ e.status = campaigns[c].status /\ e.carry = Merged(i)
  BY <1>1, MergedIs DEF Campaigns
<1> HIDE DEF e
<1>4. /\ campaigns' \in Seq(Campaigns) /\ Len(campaigns') = Len(campaigns)
      /\ \A d \in 1..Len(campaigns) : campaigns'[d] = IF d = c THEN e ELSE campaigns[d]
  BY ONLY <1>1, <1>2, <1>3, ExceptSeq
<1>5. DOMAIN campaigns' = 1..Len(campaigns) /\ DOMAIN campaigns = 1..Len(campaigns)
  BY ONLY <1>1, <1>4, LenProperties
<1>6. Shape'
  <2>1. Spared(i) /\ ~Merging(i)' /\ faults' \in Nat
    BY <1>1 DEF Left, Merging, MergeWrite, Shape, Typed
  <2> QED BY <1>4, <2>1, EndingShape DEF MergeWrite
<1> QED BY <1>1, <1>3, <1>4, <1>5, <1>6

(* A merge that fails is given up and counted.                             *)
LEMMA MergeFailsIs ==
  ASSUME Shape, NEW i \in DOMAIN runs, MergeFails(i), UNCHANGED setting
  PROVE  Shape' /\ Merging(i) /\ Left(i) /\ faults' # 0
<1>1. Merging(i) /\ Left(i) /\ faults' = faults + 1 /\ faults \in Nat
  BY OverIs, ShapeIs DEF MergeFails
<1>2. Spared(i) /\ ~Merging(i)' /\ faults' \in Nat
  BY <1>1 DEF Left, Merging
<1>3. campaigns \in Seq(Campaigns)
  BY DEF Shape, Typed
<1>4. Shape'
  BY <1>2, <1>3, EndingShape DEF MergeFails
<1> QED BY <1>1, <1>4

(* abortRun has read the run as active.                                    *)
LEMMA AbortCheckIs ==
  ASSUME Shape, NEW i \in DOMAIN runs, AbortCheck(i), UNCHANGED setting
  PROVE  Shape' /\ Active(i) /\ MayAsk /\ aborting' = aborting \union {i}
<1>1. Typed'
  BY DEF Shape, Typed, AbortCheck
<1> QED BY <1>1 DEF Shape, AbortCheck, Merging

(* abortRun writes the status of the run, and nothing else.                *)
LEMMA AbortWriteIs ==
  ASSUME Shape, NEW i \in DOMAIN runs, AbortWrite(i), UNCHANGED setting
  PROVE  /\ Shape' /\ i \in aborting /\ aborting' = aborting \ {i}
         /\ DOMAIN runs' = DOMAIN runs
         /\ \A j \in DOMAIN runs \ {i} : runs'[j] = runs[j]
         /\ runs'[i].status = "ABORTED" /\ runs'[i].campaign = runs[i].campaign
         /\ runs'[i].scenario = runs[i].scenario /\ runs'[i].who = runs[i].who
<1>1. /\ runs' \in Seq(RunsTo(Len(campaigns))) /\ DOMAIN runs' = DOMAIN runs
      /\ \A j \in DOMAIN runs \ {i} : runs'[j] = runs[j]
      /\ runs'[i].status = "ABORTED" /\ runs'[i].campaign = runs[i].campaign
      /\ runs'[i].scenario = runs[i].scenario /\ runs'[i].who = runs[i].who
  BY StatusIs DEF AbortWrite
<1>2. Typed'
  BY <1>1 DEF Shape, Typed, AbortWrite
<1>3. (\A j \in DOMAIN runs : Merging(j) => runs[j].campaign # 0)'
  <2>1. \A j \in DOMAIN runs : Merging(j)' <=> Merging(j)
    BY DEF Merging, AbortWrite
  <2> QED BY <1>1, <2>1 DEF Shape
<1>4. Shape'
  BY <1>2, <1>3 DEF Shape, AbortWrite
<1> QED BY <1>1, <1>4 DEF AbortWrite

(* A crash ends every request, every abort and every merge, and keeps what *)
(* is written.                                                             *)
LEMMA CrashIs ==
  ASSUME Shape, Crash, UNCHANGED setting
  PROVE  /\ Shape' /\ faults' # 0 /\ aborting' = {}
         /\ \A r \in Requests : req'[r].pc = "idle"
         /\ \A i \in DOMAIN runs :
              ending'[i].pc = CASE ending[i].pc = "end" -> "playing"
                                [] Merging(i) -> "over" [] OTHER -> ending[i].pc
<1> DEFINE e(i) == CASE Phase(i, "end") -> Playing
                     [] Merging(i) -> [Playing EXCEPT !.pc = "over"]
                     [] OTHER -> ending[i]
<1>1. /\ ending' = [i \in 1..Len(runs) |-> e(i)] /\ Len(runs) \in Nat /\ DOMAIN runs = 1..Len(runs)
  BY ShapeIs DEF Crash
<1>2. Playing \in Endings /\ [Playing EXCEPT !.pc = "over"] \in Endings
  BY NoCarryIs DEF Playing, Endings, Phases
<1>3. \A i \in 1..Len(runs) : e(i) \in Endings
  BY <1>1, <1>2, ShapeIs DEF Merging, Phase
<1>4. ending' \in [1..Len(runs) -> Endings]
  BY <1>1, <1>3
<1>5. ending' \in Seq(Endings) /\ DOMAIN ending' = DOMAIN runs
  BY <1>1, <1>4, FunctionIsSeq
<1>6. req' = [r \in Requests |-> Idle] /\ Idle \in RequestsTo(Len(campaigns)) /\ Idle.pc = "idle"
  BY IdleIs, ShapeIs DEF Crash
<1>7. faults' \in Nat /\ faults' # 0
  BY ShapeIs DEF Crash
<1>8. \A i \in DOMAIN runs :
        ending'[i].pc = CASE ending[i].pc = "end" -> "playing"
                          [] Merging(i) -> "over" [] OTHER -> ending[i].pc
  BY <1>1 DEF Phase, Merging, Playing
<1>9. Typed'
  BY <1>5, <1>6, <1>7 DEF Shape, Typed, Crash
<1>10. (\A i \in DOMAIN runs : Merging(i) => runs[i].campaign # 0)'
  <2>1. \A i \in DOMAIN runs : ~Merging(i)'
    BY <1>8 DEF Merging
  <2> QED BY <2>1 DEF Crash
<1>11. \A x \in Requests : Placed(req'[x])
  BY <1>6 DEF Placed
<1>12. Shape'
  BY <1>9, <1>10, <1>11 DEF Shape, Placed
<1> QED BY <1>6, <1>7, <1>8, <1>12 DEF Crash

(* Every step keeps the shape.                                             *)
LEMMA ShapeStep == Shape /\ [Next]_vars => Shape'
<1> SUFFICES ASSUME Shape, [Next]_vars PROVE Shape'
  OBVIOUS
<1>1. CASE UNCHANGED vars
  BY <1>1 DEF Shape, Typed, vars, Merging
<1> QED BY <1>1, ArchiveShape, InsertCampaignShape, AskIs, GuardIs, ReadCarryIs, CheckIs, RefuseIs,
           WriteProfileIs, InsertRunIs, LastTurnIs, EndIs, MergeReadCampaignIs, MergeReadRunIs,
           MergeReadStatsIs, MergeWriteIs, MergeFailsIs, AbortCheckIs, AbortWriteIs, CrashIs DEF Next

(* The shape holds for ever.                                               *)
LEMMA ShapeHolds == Spec => []Shape
<1> QED BY InitShape, ShapeStep, PTL DEF Spec

(* Every state is well typed.                                              *)
THEOREM CampaignTypes == Spec => []TypeOK
<1>1. Shape => TypeOK
  BY TypedIs DEF Shape
<1> QED BY <1>1, ShapeHolds, PTL

-----------------------------------------------------------------------------
\* Carried states are fair, whatever overlaps

(* No run disappears or changes its campaign, its scenario or its hero.    *)
Grown ==
  \A i \in DOMAIN runs :
    /\ i \in DOMAIN runs' /\ runs'[i].campaign = runs[i].campaign
    /\ runs'[i].scenario = runs[i].scenario /\ runs'[i].who = runs[i].who

(* No step removes a run or changes what it was created with.              *)
LEMMA RunsGrow ==
  ASSUME Shape, [Next]_vars
  PROVE  Grown
<1>1. ASSUME runs' = runs PROVE Grown
  BY <1>1 DEF Grown
<1>2. ASSUME NEW r \in Requests, InsertRun(r), UNCHANGED setting PROVE Grown
  BY <1>2, InsertRunIs DEF Grown
<1>3. ASSUME NEW i \in DOMAIN runs, End(i), UNCHANGED setting PROVE Grown
  BY <1>3, EndIs DEF Grown
<1>4. ASSUME NEW i \in DOMAIN runs, AbortWrite(i), UNCHANGED setting PROVE Grown
  BY <1>4, AbortWriteIs DEF Grown
<1> QED BY <1>1, <1>2, <1>3, <1>4
        DEF Next, vars, Archive, InsertCampaign, Ask, Guard, ReadCarry, Check, Refuse, WriteProfile,
            LastTurn, MergeReadCampaign, MergeReadRun, MergeReadStats, MergeWrite, MergeFails,
            AbortCheck, Crash

(* The phases of a merge that has read the campaign.                       *)
Read(p) == p \in {"run", "stats", "write"}

(* A carried state is the one before, that of a new campaign, or the       *)
(* merged one.                                                             *)
LEMMA CarryMoves ==
  ASSUME Shape, [Next]_vars, NEW c \in DOMAIN campaigns'
  PROVE  \/ c \in DOMAIN campaigns /\ campaigns'[c].carry = campaigns[c].carry
         \/ c \notin DOMAIN campaigns /\ campaigns'[c].carry = NoCarry
         \/ \E i \in DOMAIN runs :
              /\ c \in DOMAIN campaigns /\ ending[i].pc = "write" /\ runs[i].campaign = c
              /\ campaigns'[c].carry = Merged(i) /\ ending'[i].pc = "over"
<1> DEFINE P == \/ c \in DOMAIN campaigns /\ campaigns'[c].carry = campaigns[c].carry
                \/ c \notin DOMAIN campaigns /\ campaigns'[c].carry = NoCarry
                \/ \E i \in DOMAIN runs :
                     /\ c \in DOMAIN campaigns /\ ending[i].pc = "write" /\ runs[i].campaign = c
                     /\ campaigns'[c].carry = Merged(i) /\ ending'[i].pc = "over"
<1>1. ASSUME campaigns' = campaigns PROVE P
  BY <1>1
<1>2. ASSUME NEW r \in Requests, Archive(r), UNCHANGED setting PROVE P
  BY <1>2, ArchiveShape
<1>3. ASSUME NEW r \in Requests, InsertCampaign(r), UNCHANGED setting PROVE P
  <2>1. /\ DOMAIN campaigns = 1..Len(campaigns) /\ Len(campaigns) \in Nat
        /\ DOMAIN campaigns' = 1..(Len(campaigns) + 1)
        /\ \A d \in DOMAIN campaigns : campaigns'[d] = campaigns[d]
        /\ campaigns'[Len(campaigns) + 1] = [status |-> "ACTIVE", carry |-> NoCarry]
    BY <1>3, InsertCampaignShape, ShapeIs
  <2>2. c \in DOMAIN campaigns \/ c = Len(campaigns) + 1
    BY <2>1
  <2> QED BY <2>1, <2>2
<1>4. ASSUME NEW i \in DOMAIN runs, MergeWrite(i), UNCHANGED setting PROVE P
  <2>1. CASE c = runs[i].campaign
    BY <1>4, <2>1, MergeWriteIs DEF Left
  <2>2. CASE c # runs[i].campaign
    BY <1>4, <2>2, MergeWriteIs
  <2> QED BY <2>1, <2>2
<1> HIDE DEF P
<1>5. P
  BY <1>1, <1>2, <1>3, <1>4
        DEF Next, vars, InsertRun, Ask, Guard, ReadCarry, Check, Refuse, WriteProfile,
            LastTurn, End, MergeReadCampaign, MergeReadRun, MergeReadStats, MergeFails,
            AbortCheck, AbortWrite, Crash
<1> QED BY <1>5 DEF P

(* The copy a merge has is the one before or one just read.                *)
LEMMA CopyMoves ==
  ASSUME Shape, [Next]_vars, NEW i \in DOMAIN runs', Read(ending'[i].pc)
  PROVE  /\ i \in DOMAIN runs
         /\ \/ Read(ending[i].pc) /\ ending'[i].carry = ending[i].carry
            \/ /\ ending[i].pc = "campaign" /\ runs[i].campaign \in DOMAIN campaigns
               /\ ending'[i].carry = campaigns[runs[i].campaign].carry
<1> DEFINE P == /\ i \in DOMAIN runs
                /\ \/ Read(ending[i].pc) /\ ending'[i].carry = ending[i].carry
                   \/ /\ ending[i].pc = "campaign" /\ runs[i].campaign \in DOMAIN campaigns
                      /\ ending'[i].carry = campaigns[runs[i].campaign].carry
<1> SUFFICES P
  OBVIOUS
<1>1. ASSUME UNCHANGED <<runs, ending>> PROVE P
  BY <1>1
<1>2. ASSUME NEW r \in Requests, InsertRun(r), UNCHANGED setting PROVE P
  <2>1. i # Len(runs) + 1
    BY <1>2, InsertRunIs DEF Read
  <2> QED BY <1>2, <2>1, InsertRunIs
<1>3. ASSUME NEW j \in DOMAIN runs, Left(j), DOMAIN runs' = DOMAIN runs PROVE P
  BY <1>3 DEF Left, Spared, Read
<1>4. ASSUME NEW j \in DOMAIN runs, NEW l, Stepped(j, l), DOMAIN runs' = DOMAIN runs,
             l \in {"end", "campaign"} \/ Read(ending[j].pc) PROVE P
  BY <1>4 DEF Stepped, Spared, Read
<1>5. ASSUME NEW j \in DOMAIN runs, MergeReadCampaign(j), UNCHANGED setting PROVE P
  BY <1>5, MergeReadCampaignIs DEF MergeReadCampaign, Spared
<1>6. ASSUME NEW j \in DOMAIN runs, MergeReadStats(j), UNCHANGED setting PROVE P
  BY <1>6, MergeReadStatsIs DEF MergeReadStats, Spared, Read
<1>7. ASSUME Crash, UNCHANGED setting PROVE P
  BY <1>7, CrashIs DEF Crash, Read, Merging
<1>8. ASSUME NEW j \in DOMAIN runs, LastTurn(j), UNCHANGED setting PROVE P
  BY <1>4, <1>8, LastTurnIs DEF LastTurn
<1>9. ASSUME NEW j \in DOMAIN runs, End(j), UNCHANGED setting PROVE P
  BY <1>3, <1>4, <1>9, EndIs
<1>10. ASSUME NEW j \in DOMAIN runs, MergeReadRun(j), UNCHANGED setting PROVE P
  BY <1>3, <1>4, <1>10, MergeReadRunIs DEF MergeReadRun, Read
<1>11. ASSUME NEW j \in DOMAIN runs, MergeWrite(j), UNCHANGED setting PROVE P
  BY <1>3, <1>11, MergeWriteIs DEF MergeWrite
<1>12. ASSUME NEW j \in DOMAIN runs, MergeFails(j), UNCHANGED setting PROVE P
  BY <1>3, <1>12, MergeFailsIs DEF MergeFails
<1>13. ASSUME NEW j \in DOMAIN runs, AbortWrite(j), UNCHANGED setting PROVE P
  BY <1>13, AbortWriteIs DEF AbortWrite
<1> HIDE DEF P
<1> QED BY <1>1, <1>2, <1>5, <1>6, <1>7, <1>8, <1>9, <1>10, <1>11, <1>12, <1>13
        DEF Next, vars, Archive, InsertCampaign, Ask, Guard, ReadCarry, Check, Refuse, WriteProfile,
            AbortCheck

(* A carried state of campaign c is fair when its bonus is one per         *)
(* scenario, no scenario is listed twice, and each is the scenario of a    *)
(* run of c.                                                               *)
Fair(R, carry, c) ==
  /\ carry.bonus = Cardinality(Completed(carry))
  /\ \A d, e \in carry.done : d.scenario = e.scenario => d = e
  /\ \A d \in carry.done :
       /\ d.run \in DOMAIN R /\ R[d.run].campaign = c
       /\ d.scenario = IF R[d.run].scenario = 0 THEN 1 ELSE R[d.run].scenario
  /\ carry.done = {} => carry = NoCarry

(* Every carried state is fair, also the copies that merges hold: that     *)
(* makes the property of the stored ones inductive, because a merge writes *)
(* its copy back, however old it is.                                       *)
Earned ==
  /\ \A c \in DOMAIN campaigns : Fair(runs, campaigns[c].carry, c)
  /\ \A i \in DOMAIN runs :
       Read(ending[i].pc) => Fair(runs, ending[i].carry, runs[i].campaign)

(* A carried state stays fair while runs are added.                        *)
LEMMA FairKept ==
  ASSUME NEW carry, NEW c, Fair(runs, carry, c), Grown
  PROVE  Fair(runs', carry, c)
  BY DEF Fair, Grown

(* The empty one is fair.                                                  *)
LEMMA NoCarryFair == ASSUME NEW R, NEW c PROVE Fair(R, NoCarry, c)
<1>1. Completed(NoCarry) = {} /\ NoCarry.done = {} /\ NoCarry.bonus = 0
  BY DEF Completed, NoCarry
<1> QED BY <1>1, FS_EmptySet DEF Fair

(* A fair copy is merged into a fair carried state: the old result of the  *)
(* scenario is dropped, and the bonus is raised only if the scenario is    *)
(* new.                                                                    *)
LEMMA MergedFair ==
  ASSUME Shape, NEW i \in DOMAIN runs, Fair(runs, ending[i].carry, runs[i].campaign)
  PROVE  Fair(runs, Merged(i), runs[i].campaign)
<1> DEFINE p == ending[i].carry
           m == Merged(i)
           s == Result(i).scenario
<1>1. p \in Carries
  BY ShapeIs DEF Endings
<1>2. /\ m.done = {d \in p.done : d.scenario # s} \union {Result(i)}
      /\ m.bonus = p.bonus + IF s \in Completed(p) THEN 0 ELSE 1
      /\ Completed(m) = Completed(p) \union {s}
  BY MergedIs DEF WithResult
<1>3. IsFiniteSet(Completed(p))
  <2>1. Completed(p) \subseteq 1..Scenarios /\ IsFiniteSet(1..Scenarios)
    BY <1>1, CompletedIs, FS_Interval, CampaignAssumption
  <2> QED BY ONLY <2>1, FS_Subset
<1>4. m.bonus = Cardinality(Completed(m))
  <2>1. p.bonus = Cardinality(Completed(p))
    BY DEF Fair
  <2>2. Cardinality(Completed(p) \union {s})
          = IF s \in Completed(p) THEN Cardinality(Completed(p)) ELSE Cardinality(Completed(p)) + 1
    BY ONLY <1>3, FS_AddElement
  <2>3. Cardinality(Completed(p)) \in Nat
    BY ONLY <1>3, FS_CardinalityType
  <2> QED BY ONLY <1>2, <2>1, <2>2, <2>3
<1>5. /\ Result(i).run = i /\ i \in DOMAIN runs
      /\ s = IF runs[i].scenario = 0 THEN 1 ELSE runs[i].scenario
  BY DEF Result
<1>6. /\ \A d, e \in p.done : d.scenario = e.scenario => d = e
      /\ \A d \in p.done :
           /\ d.run \in DOMAIN runs /\ runs[d.run].campaign = runs[i].campaign
           /\ d.scenario = IF runs[d.run].scenario = 0 THEN 1 ELSE runs[d.run].scenario
  BY DEF Fair
<1> HIDE DEF p, m, s
<1>7. \A d, e \in m.done : d.scenario = e.scenario => d = e
  BY ONLY <1>2, <1>6 DEF s
<1>8. \A d \in m.done :
        /\ d.run \in DOMAIN runs /\ runs[d.run].campaign = runs[i].campaign
        /\ d.scenario = IF runs[d.run].scenario = 0 THEN 1 ELSE runs[d.run].scenario
  BY ONLY <1>2, <1>5, <1>6 DEF s
<1>9. m.done # {}
  BY <1>2
<1> QED BY <1>4, <1>7, <1>8, <1>9 DEF Fair, m

(* Every step keeps what is earned.                                        *)
LEMMA EarnedStep == Shape /\ Earned /\ [Next]_vars => Earned'
<1> SUFFICES ASSUME Shape, Earned, [Next]_vars PROVE Earned'
  OBVIOUS
<1>1. Grown
  BY RunsGrow
<1>2. ASSUME NEW c \in DOMAIN campaigns' PROVE Fair(runs', campaigns'[c].carry, c)
  <2>1. CASE c \in DOMAIN campaigns /\ campaigns'[c].carry = campaigns[c].carry
    BY <1>1, <2>1, FairKept DEF Earned
  <2>2. CASE campaigns'[c].carry = NoCarry
    BY <2>2, NoCarryFair
  <2>3. ASSUME NEW i \in DOMAIN runs, ending[i].pc = "write", runs[i].campaign = c,
               campaigns'[c].carry = Merged(i)
        PROVE  Fair(runs', campaigns'[c].carry, c)
    <3>1. Fair(runs, ending[i].carry, runs[i].campaign)
      BY <2>3 DEF Earned, Read
    <3> QED BY <1>1, <2>3, <3>1, MergedFair, FairKept
  <2> QED BY <2>1, <2>2, <2>3, CarryMoves
<1>3. ASSUME NEW i \in DOMAIN runs', Read(ending'[i].pc)
      PROVE  Fair(runs', ending'[i].carry, runs'[i].campaign)
  <2>1. i \in DOMAIN runs /\ Fair(runs, ending'[i].carry, runs[i].campaign)
    BY <1>3, CopyMoves DEF Earned
  <2> QED BY <1>1, <2>1, FairKept DEF Grown
<1> QED BY <1>2, <1>3 DEF Earned

(* Every carried state is fair for ever, whatever overlaps.                *)
LEMMA EarnedHolds == Spec => []Earned
<1>1. Init => Earned
  BY DEF Init, Earned
<1> QED BY <1>1, EarnedStep, ShapeHolds, PTL DEF Spec

-----------------------------------------------------------------------------
\* A player who waits has one thing in flight

(* Request r is in flight.                                                 *)
Asking(r) == req[r].pc # "idle"

(* A player who waits has one thing in flight: a request, the end of a run *)
(* or an abort, and never two of them.                                     *)
Alone == setting.careful =>
  /\ \A r, q \in Requests : Asking(r) /\ Asking(q) => r = q
  /\ \A r \in Requests : Asking(r) => aborting = {} /\ \A i \in DOMAIN runs : ~AtWork(i)
  /\ \A i, j \in DOMAIN runs : AtWork(i) /\ AtWork(j) => i = j
  /\ \A i \in DOMAIN runs : AtWork(i) => aborting = {}
  /\ \A i, j \in aborting : i = j

(* What is in flight is taken up by nobody else.                           *)
LEMMA FewerAlone ==
  ASSUME Alone, UNCHANGED setting, aborting' \subseteq aborting,
         \A r \in Requests : Asking(r)' => Asking(r),
         \A i \in DOMAIN runs' : AtWork(i)' => i \in DOMAIN runs /\ AtWork(i)
  PROVE  Alone'
  BY DEF Alone

(* A step of an end that is under way adds nothing.                        *)
LEMMA SpareAlone ==
  ASSUME Alone, UNCHANGED <<setting, req, aborting>>, DOMAIN runs' = DOMAIN runs,
         NEW i \in DOMAIN runs, Spared(i), AtWork(i)' => AtWork(i)
  PROVE  Alone'
<1>1. \A j \in DOMAIN runs \ {i} : AtWork(j)' => AtWork(j)
  BY DEF AtWork, Merging, Spared
<1> QED BY <1>1, FewerAlone DEF Asking

(* A step of a request that is under way adds nothing.                     *)
LEMMA KeptAlone ==
  ASSUME Alone, UNCHANGED <<setting, aborting, runs, ending>>,
         NEW r \in Requests, Kept(r), Asking(r)
  PROVE  Alone'
<1>1. \A q \in Requests : Asking(q)' => Asking(q)
  BY DEF Asking, Kept
<1>2. \A j \in DOMAIN runs : AtWork(j)' => AtWork(j)
  BY DEF AtWork, Merging
<1> QED BY <1>1, <1>2, FewerAlone

(* Every step keeps it: what begins something asks MayAsk first.           *)
LEMMA AloneStep == Shape /\ Alone /\ [Next]_vars => Alone'
<1> SUFFICES ASSUME Shape, Alone, [Next]_vars PROVE Alone'
  OBVIOUS
<1>1. CASE UNCHANGED vars
  BY <1>1 DEF Alone, vars, Asking, AtWork, Merging
<1>2. ASSUME MayAsk, setting.careful
      PROVE  aborting = {} /\ (\A r \in Requests : ~Asking(r)) /\ \A i \in DOMAIN runs : ~AtWork(i)
  BY <1>2 DEF MayAsk, Quiet, Asking
<1>3. ASSUME NEW r \in Requests, Kept(r), MayAsk, UNCHANGED <<setting, aborting, runs, ending>>
      PROVE  Alone'
  <2>1. \A j \in DOMAIN runs : AtWork(j)' => AtWork(j)
    BY <1>3 DEF AtWork, Merging
  <2>2. \A q \in Requests \ {r} : Asking(q)' => Asking(q)
    BY <1>3 DEF Kept, Asking
  <2> QED BY <1>2, <1>3, <2>1, <2>2 DEF Alone
<1>4. ASSUME NEW r \in Requests, Archive(r), UNCHANGED setting PROVE Alone'
  BY <1>3, <1>4, ArchiveShape DEF Archive, Moved
<1>5. ASSUME NEW r \in Requests, InsertCampaign(r), UNCHANGED setting PROVE Alone'
  BY <1>5, KeptAlone, InsertCampaignShape DEF InsertCampaign, Answered, Asking
<1>6. ASSUME NEW r \in Requests, NEW c \in 0..Len(campaigns), NEW s \in 0..Scenarios,
             NEW h \in Personas, Ask(r, c, s, h), UNCHANGED setting
      PROVE  Alone'
  BY <1>3, <1>6, AskIs DEF Ask
<1>7. ASSUME NEW r \in Requests, Guard(r), UNCHANGED setting PROVE Alone'
  BY <1>7, KeptAlone, GuardIs DEF Guard, Answered, Moved, Asking
<1>8. ASSUME NEW r \in Requests, ReadCarry(r), UNCHANGED setting PROVE Alone'
  BY <1>8, KeptAlone, ReadCarryIs DEF ReadCarry, Asking
<1>9. ASSUME NEW r \in Requests, Check(r), UNCHANGED setting PROVE Alone'
  BY <1>9, KeptAlone, CheckIs DEF Check, Answered, Asking
<1>10. ASSUME NEW r \in Requests, Refuse(r), UNCHANGED setting PROVE Alone'
  BY <1>10, KeptAlone, RefuseIs DEF Refuse, Answered, Asking
<1>11. ASSUME NEW r \in Requests, WriteProfile(r), UNCHANGED setting PROVE Alone'
  BY <1>11, KeptAlone, WriteProfileIs DEF WriteProfile, Moved, Asking
<1>12. ASSUME NEW r \in Requests, InsertRun(r), UNCHANGED setting PROVE Alone'
  <2>1. \A q \in Requests : Asking(q)' => Asking(q)
    BY <1>12, InsertRunIs DEF Asking, Answered, Kept
  <2>2. ASSUME NEW i \in DOMAIN runs', AtWork(i)' PROVE i \in DOMAIN runs /\ AtWork(i)
    <3>1. i # Len(runs) + 1
      BY <1>12, <2>2, InsertRunIs DEF AtWork, Merging
    <3> QED BY <1>12, <2>2, <3>1, InsertRunIs DEF AtWork, Merging
  <2> QED BY <1>12, <2>1, <2>2, FewerAlone DEF InsertRun
<1>13. ASSUME NEW i \in DOMAIN runs, LastTurn(i), UNCHANGED setting PROVE Alone'
  <2>1. \A j \in DOMAIN runs \ {i} : AtWork(j)' => AtWork(j)
    BY <1>13, LastTurnIs DEF Stepped, Spared, AtWork, Merging
  <2>2. \A q \in Requests : Asking(q)' <=> Asking(q)
    BY <1>13 DEF LastTurn, Asking
  <2>3. UNCHANGED <<runs, aborting>> /\ MayAsk
    BY <1>13 DEF LastTurn
  <2> QED BY <1>2, <1>13, <2>1, <2>2, <2>3 DEF Alone
<1>14. ASSUME NEW i \in DOMAIN runs, End(i), UNCHANGED setting PROVE Alone'
  BY <1>14, EndIs, SpareAlone DEF End, Left, Stepped, AtWork
<1>15. ASSUME NEW i \in DOMAIN runs, MergeReadCampaign(i), UNCHANGED setting PROVE Alone'
  BY <1>15, MergeReadCampaignIs, SpareAlone DEF MergeReadCampaign, AtWork, Merging
<1>16. ASSUME NEW i \in DOMAIN runs, MergeReadRun(i), UNCHANGED setting PROVE Alone'
  BY <1>16, MergeReadRunIs, SpareAlone DEF MergeReadRun, Left, Stepped, AtWork, Merging
<1>17. ASSUME NEW i \in DOMAIN runs, MergeReadStats(i), UNCHANGED setting PROVE Alone'
  BY <1>17, MergeReadStatsIs, SpareAlone DEF MergeReadStats, AtWork, Merging
<1>18. ASSUME NEW i \in DOMAIN runs, MergeWrite(i), UNCHANGED setting PROVE Alone'
  BY <1>18, MergeWriteIs, SpareAlone DEF MergeWrite, Left, AtWork, Merging
<1>19. ASSUME NEW i \in DOMAIN runs, MergeFails(i), UNCHANGED setting PROVE Alone'
  BY <1>19, MergeFailsIs, SpareAlone DEF MergeFails, Left, AtWork
<1>20. ASSUME NEW i \in DOMAIN runs, AbortCheck(i), UNCHANGED setting PROVE Alone'
  <2>1. \A j \in DOMAIN runs : AtWork(j)' <=> AtWork(j)
    BY <1>20 DEF AbortCheck, AtWork, Merging
  <2>2. \A q \in Requests : Asking(q)' <=> Asking(q)
    BY <1>20 DEF AbortCheck, Asking
  <2>3. UNCHANGED runs /\ MayAsk /\ aborting' = aborting \union {i}
    BY <1>20, AbortCheckIs DEF AbortCheck
  <2> QED BY <1>2, <1>20, <2>1, <2>2, <2>3 DEF Alone
<1>21. ASSUME NEW i \in DOMAIN runs, AbortWrite(i), UNCHANGED setting PROVE Alone'
  <2>1. \A j \in DOMAIN runs : AtWork(j)' <=> AtWork(j)
    BY <1>21 DEF AbortWrite, AtWork, Merging
  <2>2. \A q \in Requests : Asking(q)' <=> Asking(q)
    BY <1>21 DEF AbortWrite, Asking
  <2> QED BY <1>21, <2>1, <2>2, AbortWriteIs, FewerAlone
<1>22. ASSUME Crash, UNCHANGED setting PROVE Alone'
  <2>1. \A i \in DOMAIN runs : ~AtWork(i)'
    BY <1>22, CrashIs DEF AtWork, Merging
  <2> QED BY <1>22, <2>1, CrashIs DEF Crash, Alone, Asking
<1> QED BY <1>1, <1>4, <1>5, <1>6, <1>7, <1>8, <1>9, <1>10, <1>11, <1>12, <1>13, <1>14, <1>15,
           <1>16, <1>17, <1>18, <1>19, <1>20, <1>21, <1>22 DEF Next

(* A player who waits has one thing in flight for ever.                    *)
LEMMA AloneHolds == Spec => []Alone
<1>1. Init => Alone
  BY IdleIs DEF Init, Alone, Asking
<1> QED BY <1>1, AloneStep, ShapeHolds, PTL DEF Spec

-----------------------------------------------------------------------------
\* What is in flight works on a run that is open, or ended by it

(* What is about to happen to a run can still happen to it: a run that is  *)
(* aborted or ended is open, and one that is merged is ended.              *)
Working == setting.careful =>
  /\ \A i \in aborting : Active(i)
  /\ \A i \in DOMAIN runs :
       /\ ending[i].pc = "end" => Active(i)
       /\ Merging(i) => runs[i].status = "ENDED"
       /\ Active(i) => ending[i].pc \in {"playing", "end"}

(* A step of an end that leaves the runs alone.                            *)
LEMMA PhaseWorking ==
  ASSUME Working, UNCHANGED <<setting, runs, aborting>>, NEW i \in DOMAIN runs, Spared(i),
         \/ ending'[i].pc = "end" /\ Active(i)
         \/ ending'[i].pc = "over" /\ ~Active(i)
         \/ Merging(i) /\ Merging(i)'
  PROVE  Working'
<1>1. \A j \in DOMAIN runs \ {i} : ending'[j] = ending[j]
  BY DEF Spared
<1> QED BY <1>1 DEF Working, Active, Merging

(* Every step keeps it: nothing else is in flight that could change the    *)
(* run meanwhile.                                                          *)
LEMMA WorkingStep == Shape /\ Alone /\ Working /\ [Next]_vars => Working'
<1> SUFFICES ASSUME Shape, Alone, Working, [Next]_vars PROVE Working'
  OBVIOUS
<1>1. ASSUME UNCHANGED <<setting, runs, ending, aborting>> PROVE Working'
  BY <1>1 DEF Working, Active, Merging
<1>2. ASSUME NEW r \in Requests, InsertRun(r), UNCHANGED setting PROVE Working'
  <2>1. \A i \in DOMAIN runs' : i \in DOMAIN runs \/ (ending'[i].pc = "playing" /\ i = Len(runs) + 1)
    BY <1>2, InsertRunIs
  <2>2. \A i \in DOMAIN runs : runs'[i] = runs[i] /\ ending'[i] = ending[i] /\ i \in DOMAIN runs'
    BY <1>2, InsertRunIs
  <2>3. aborting' = aborting /\ aborting \subseteq DOMAIN runs
    BY <1>2, ShapeIs DEF InsertRun
  <2> QED BY <1>2, <2>1, <2>2, <2>3 DEF Working, Active, Merging
<1>3. ASSUME NEW i \in DOMAIN runs, LastTurn(i), UNCHANGED setting PROVE Working'
  BY <1>3, LastTurnIs, PhaseWorking DEF LastTurn, Stepped
<1>4. ASSUME NEW i \in DOMAIN runs, End(i), UNCHANGED setting PROVE Working'
  <2>1. /\ \A j \in DOMAIN runs \ {i} : runs'[j] = runs[j] /\ ending'[j] = ending[j]
        /\ runs'[i].status = "ENDED" /\ DOMAIN runs' = DOMAIN runs
        /\ ending'[i].pc \in {"over", "campaign"} /\ aborting' = aborting
    BY <1>4, EndIs DEF End, Left, Stepped, Spared
  <2>2. setting.careful => aborting = {}
    BY <1>4, EndIs DEF Alone, AtWork
  <2> QED BY <1>4, <2>1, <2>2 DEF Working, Active, Merging
<1>5. ASSUME NEW i \in DOMAIN runs, MergeReadCampaign(i), UNCHANGED setting PROVE Working'
  BY <1>5, MergeReadCampaignIs, PhaseWorking DEF MergeReadCampaign, Merging
<1>6. ASSUME NEW i \in DOMAIN runs, MergeReadRun(i), UNCHANGED setting PROVE Working'
  <2>1. CASE runs[i].status = "ENDED"
    BY <1>6, <2>1, MergeReadRunIs, PhaseWorking DEF MergeReadRun, Stepped, Merging
  <2>2. CASE runs[i].status # "ENDED"
    <3>1. ~setting.careful
      BY <1>6, <2>2, MergeReadRunIs DEF Working, Merging
    <3> QED BY <1>6, <3>1 DEF Working
  <2> QED BY <2>1, <2>2
<1>7. ASSUME NEW i \in DOMAIN runs, MergeReadStats(i), UNCHANGED setting PROVE Working'
  BY <1>7, MergeReadStatsIs, PhaseWorking DEF MergeReadStats, Merging
<1>8. ASSUME NEW i \in DOMAIN runs, Merging(i), Left(i), UNCHANGED <<setting, runs, aborting>>
      PROVE  Working'
  <2>1. CASE setting.careful
    <3>1. ~Active(i)
      BY <1>8, <2>1 DEF Working, Active
    <3> QED BY <1>8, <3>1, PhaseWorking DEF Left
  <2>2. CASE ~setting.careful
    BY <1>8, <2>2 DEF Working
  <2> QED BY <2>1, <2>2
<1>9. ASSUME NEW i \in DOMAIN runs, MergeWrite(i), UNCHANGED setting PROVE Working'
  BY <1>8, <1>9, MergeWriteIs DEF MergeWrite, Merging
<1>10. ASSUME NEW i \in DOMAIN runs, MergeFails(i), UNCHANGED setting PROVE Working'
  BY <1>8, <1>10, MergeFailsIs DEF MergeFails
<1>11. ASSUME NEW i \in DOMAIN runs, AbortCheck(i), UNCHANGED setting PROVE Working'
  BY <1>11, AbortCheckIs DEF AbortCheck, Working, Active, Merging
<1>12. ASSUME NEW i \in DOMAIN runs, AbortWrite(i), UNCHANGED setting PROVE Working'
  <2>1. setting.careful => ending[i].pc = "playing" /\ aborting' = {}
    BY <1>12, AbortWriteIs DEF Working, Alone, AtWork
  <2> QED BY <1>12, <2>1, AbortWriteIs DEF AbortWrite, Working, Active, Merging
<1>13. ASSUME Crash, UNCHANGED setting PROVE Working'
  BY <1>13, CrashIs DEF Crash, Working, Active, Merging
<1> QED BY <1>1, <1>2, <1>3, <1>4, <1>5, <1>6, <1>7, <1>9, <1>10, <1>11, <1>12, <1>13
        DEF Next, vars, Archive, InsertCampaign, Ask, Guard, ReadCarry, Check, Refuse, WriteProfile

(* It holds for ever.                                                      *)
LEMMA WorkingHolds == Spec => []Working
<1>1. Init => Working
  BY DEF Init, Working
<1> QED BY <1>1, WorkingStep, AloneHolds, ShapeHolds, PTL DEF Spec

-----------------------------------------------------------------------------
\* One open run in a campaign

(* Campaign c has no open run.                                             *)
Shut(c) == \A i \in DOMAIN runs : runs[i].campaign = c => runs[i].status # "ACTIVE"

(* One run at most is open in a campaign. For that to be inductive, a      *)
(* campaign has none from the guard of a request up to its insert, and     *)
(* none while one of its runs is merged.                                   *)
OneOpen == setting.careful =>
  /\ \A i, j \in DOMAIN runs :
       Active(i) /\ Active(j) /\ runs[i].campaign = runs[j].campaign /\ runs[i].campaign # 0 => i = j
  /\ \A i \in DOMAIN runs : Merging(i) => Shut(runs[i].campaign)
  /\ \A r \in Requests :
       req[r].pc \in {"carry", "check", "stats", "insert"} /\ req[r].campaign # 0
         => Shut(req[r].campaign)

(* A run that is open after a step was it before, or is new.               *)
LEMMA OpenBefore ==
  ASSUME Shape, [Next]_vars, NEW i \in DOMAIN runs', runs'[i].status = "ACTIVE"
  PROVE  \/ i \in DOMAIN runs /\ runs'[i] = runs[i]
         \/ \E r \in Requests : /\ InsertRun(r) /\ UNCHANGED setting
                               /\ i = Len(runs) + 1 /\ i \notin DOMAIN runs
<1> DEFINE P == \/ i \in DOMAIN runs /\ runs'[i] = runs[i]
                \/ \E r \in Requests : /\ InsertRun(r) /\ UNCHANGED setting
                                      /\ i = Len(runs) + 1 /\ i \notin DOMAIN runs
<1> SUFFICES P
  OBVIOUS
<1>1. ASSUME runs' = runs PROVE P
  BY <1>1
<1>2. ASSUME NEW r \in Requests, InsertRun(r), UNCHANGED setting PROVE P
  <2>1. i \in DOMAIN runs \/ (i = Len(runs) + 1 /\ i \notin DOMAIN runs)
    BY <1>2, InsertRunIs
  <2> QED BY <1>2, <2>1, InsertRunIs
<1>3. ASSUME NEW j \in DOMAIN runs, End(j), UNCHANGED setting PROVE P
  BY <1>3, EndIs
<1>4. ASSUME NEW j \in DOMAIN runs, AbortWrite(j), UNCHANGED setting PROVE P
  BY <1>4, AbortWriteIs
<1> HIDE DEF P
<1> QED BY <1>1, <1>2, <1>3, <1>4
        DEF Next, vars, Archive, InsertCampaign, Ask, Guard, ReadCarry, Check, Refuse, WriteProfile,
            LastTurn, MergeReadCampaign, MergeReadRun, MergeReadStats, MergeWrite, MergeFails,
            AbortCheck, Crash

(* A campaign without an open run gets one by InsertRun only.              *)
LEMMA ClosedKept ==
  ASSUME Shape, [Next]_vars, \A r \in Requests : ~InsertRun(r)
  PROVE  /\ \A i \in DOMAIN runs' : runs'[i].status = "ACTIVE" =>
                i \in DOMAIN runs /\ runs'[i] = runs[i] /\ Active(i)
         /\ DOMAIN runs' = DOMAIN runs
<1>1. \A i \in DOMAIN runs' : runs'[i].status = "ACTIVE" =>
          i \in DOMAIN runs /\ runs'[i] = runs[i] /\ Active(i)
  BY OpenBefore DEF Active
<1>2. DOMAIN runs' = DOMAIN runs
  BY EndIs, AbortWriteIs
     DEF Next, vars, Archive, InsertCampaign, Ask, Guard, ReadCarry, Check, Refuse, WriteProfile,
         LastTurn, MergeReadCampaign, MergeReadRun, MergeReadStats, MergeWrite, MergeFails,
         AbortCheck, Crash
<1> QED BY <1>1, <1>2

(* A merge begins with the end of an open run.                             *)
LEMMA MergeBegins ==
  ASSUME Shape, [Next]_vars, NEW i \in DOMAIN runs', Merging(i)'
  PROVE  /\ i \in DOMAIN runs
         /\ Merging(i) \/ (End(i) /\ UNCHANGED setting)
<1> DEFINE P == i \in DOMAIN runs /\ (Merging(i) \/ (End(i) /\ UNCHANGED setting))
<1> SUFFICES P
  OBVIOUS
<1>0. ending'[i].pc \in {"campaign", "run", "stats", "write"}
  BY DEF Merging
<1>1. ASSUME UNCHANGED <<runs, ending>> PROVE P
  BY <1>0, <1>1 DEF Merging
<1>2. ASSUME NEW r \in Requests, InsertRun(r), UNCHANGED setting PROVE P
  <2>1. i # Len(runs) + 1
    BY <1>0, <1>2, InsertRunIs
  <2> QED BY <1>0, <1>2, <2>1, InsertRunIs DEF Merging
<1>3. ASSUME NEW j \in DOMAIN runs, Spared(j), DOMAIN runs' = DOMAIN runs,
             j = i => Merging(i) \/ (End(i) /\ UNCHANGED setting)
      PROVE  P
  BY <1>0, <1>3 DEF Spared, Merging
<1>4. ASSUME Crash, UNCHANGED setting PROVE P
  BY <1>0, <1>4, CrashIs DEF Merging, Crash
<1>5. ASSUME NEW j \in DOMAIN runs, LastTurn(j), UNCHANGED setting PROVE P
  BY <1>0, <1>3, <1>5, LastTurnIs DEF LastTurn, Stepped
<1>6. ASSUME NEW j \in DOMAIN runs, End(j), UNCHANGED setting PROVE P
  BY <1>3, <1>6, EndIs DEF Stepped, Left
<1>7. ASSUME NEW j \in DOMAIN runs, MergeReadCampaign(j), UNCHANGED setting PROVE P
  BY <1>3, <1>7, MergeReadCampaignIs DEF MergeReadCampaign, Merging
<1>8. ASSUME NEW j \in DOMAIN runs, MergeReadRun(j), UNCHANGED setting PROVE P
  BY <1>3, <1>8, MergeReadRunIs DEF MergeReadRun, Merging, Stepped, Left
<1>9. ASSUME NEW j \in DOMAIN runs, MergeReadStats(j), UNCHANGED setting PROVE P
  BY <1>3, <1>9, MergeReadStatsIs DEF MergeReadStats, Merging
<1>10. ASSUME NEW j \in DOMAIN runs, MergeWrite(j), UNCHANGED setting PROVE P
  BY <1>3, <1>10, MergeWriteIs DEF MergeWrite, Merging, Left
<1>11. ASSUME NEW j \in DOMAIN runs, MergeFails(j), UNCHANGED setting PROVE P
  BY <1>3, <1>11, MergeFailsIs DEF MergeFails, Left
<1>12. ASSUME NEW j \in DOMAIN runs, AbortWrite(j), UNCHANGED setting PROVE P
  BY <1>0, <1>12, AbortWriteIs DEF AbortWrite, Merging
<1> HIDE DEF P
<1> QED BY <1>1, <1>2, <1>4, <1>5, <1>6, <1>7, <1>8, <1>9, <1>10, <1>11, <1>12
        DEF Next, vars, Archive, InsertCampaign, Ask, Guard, ReadCarry, Check, Refuse, WriteProfile,
            AbortCheck
(* What a step may do to a request.                                        *)
Moves(r) ==
  \/ req'[r] = req[r]
  \/ req'[r].pc = "idle"
  \/ /\ req[r].pc = "idle" /\ req'[r].pc = "journey" /\ MayAsk
     /\ \A c \in DOMAIN campaigns' : campaigns'[c].status = "COMPLETED"
  \/ /\ UNCHANGED <<campaigns, runs, ending>>
     /\ \/ /\ req[r].pc = "idle" /\ MayAsk /\ req'[r].carry = NoCarry
           /\ \/ req'[r].pc = "guard" /\ req'[r].campaign # 0
              \/ req'[r].pc = "stats" /\ req'[r].campaign = 0
           /\ setting.single => \A i \in DOMAIN runs : ~Active(i)
        \/ /\ Asking(r) /\ req'[r].campaign = req[r].campaign /\ req'[r].who = req[r].who
           /\ \/ /\ req[r].pc = "guard" /\ req'[r].pc = "carry"
                 /\ req'[r].carry = req[r].carry /\ Shut(req[r].campaign)
              \/ /\ req[r].pc = "carry" /\ req'[r].pc = "check"
                 /\ req'[r].carry = campaigns[req[r].campaign].carry
              \/ /\ req[r].pc = "check" /\ req'[r].pc = "stats"
                 /\ req'[r].carry = req[r].carry
                 /\ req'[r].scenario \notin Completed(campaigns[req[r].campaign].carry)
              \/ /\ req[r].pc = "stats" /\ req'[r].pc = "insert"
                 /\ req'[r].carry = req[r].carry /\ req'[r].scenario = req[r].scenario
                 /\ profile' = StatsOf(req[r].carry, req[r].who)

(* Every step is one of those for every request.                           *)
LEMMA RequestMoves ==
  ASSUME Shape, [Next]_vars, NEW r \in Requests
  PROVE  Moves(r)
<1>1. ASSUME UNCHANGED req PROVE Moves(r)
  BY <1>1 DEF Moves
<1>2. ASSUME NEW q \in Requests, Kept(q), q = r => Moves(r) PROVE Moves(r)
  BY <1>2 DEF Kept, Moves
<1>3. ASSUME NEW q \in Requests, Answered(q) PROVE Moves(r)
  BY <1>2, <1>3 DEF Answered, Moves
<1>4. ASSUME NEW q \in Requests, Archive(q), UNCHANGED setting PROVE Moves(r)
  <2>1. /\ Kept(q) /\ req[q].pc = "idle" /\ req'[q].pc = "journey" /\ MayAsk
        /\ \A c \in DOMAIN campaigns' : campaigns'[c].status = "COMPLETED"
    BY <1>4, ArchiveShape DEF Moved, Archive
  <2> QED BY <1>2, <2>1 DEF Moves
<1>5. ASSUME NEW q \in Requests, NEW c \in 0..Len(campaigns), NEW s \in 0..Scenarios,
             NEW h \in Personas, Ask(q, c, s, h), UNCHANGED setting
      PROVE  Moves(r)
  <2>1. /\ Kept(q) /\ req[q].pc = "idle" /\ MayAsk /\ req'[q].carry = NoCarry
        /\ setting.single => \A i \in DOMAIN runs : ~Active(i)
        /\ \/ req'[q].pc = "guard" /\ req'[q].campaign # 0
           \/ req'[q].pc = "stats" /\ req'[q].campaign = 0
        /\ UNCHANGED <<campaigns, runs, ending>>
    BY <1>5, AskIs DEF Ask
  <2> QED BY <1>2, <2>1 DEF Moves
<1>6. ASSUME NEW q \in Requests, Guard(q), UNCHANGED setting PROVE Moves(r)
  <2>1. CASE Answered(q)
    BY <1>3, <2>1
  <2>2. CASE Moved(q, "carry") /\ ActiveIn(req[q].campaign) = {}
    <3>1. Shut(req[q].campaign)
      BY <2>2 DEF ActiveIn, RunsOf, Active, Shut
    <3>2. req[q].pc = "guard" /\ Asking(q) /\ UNCHANGED <<campaigns, runs, ending>>
      BY <1>6, GuardIs DEF Guard, Asking
    <3> QED BY <1>2, <2>2, <3>1, <3>2 DEF Moved, Moves
  <2> QED BY <1>6, <2>1, <2>2, GuardIs
<1>7. ASSUME NEW q \in Requests, ReadCarry(q), UNCHANGED setting PROVE Moves(r)
  BY <1>2, <1>7, ReadCarryIs DEF ReadCarry, Moves, Asking
<1>8. ASSUME NEW q \in Requests, Check(q), UNCHANGED setting PROVE Moves(r)
  BY <1>2, <1>3, <1>8, CheckIs DEF Check, Moves, Asking
<1>9. ASSUME NEW q \in Requests, WriteProfile(q), UNCHANGED setting PROVE Moves(r)
  BY <1>2, <1>9, WriteProfileIs DEF WriteProfile, Moved, Moves, Asking
<1>10. ASSUME Crash, UNCHANGED setting PROVE Moves(r)
  BY <1>10, CrashIs DEF Moves
<1> QED BY <1>1, <1>3, <1>4, <1>5, <1>6, <1>7, <1>8, <1>9, <1>10,
           InsertCampaignShape, RefuseIs, InsertRunIs
        DEF Next, vars, LastTurn, End, MergeReadCampaign, MergeReadRun, MergeReadStats, MergeWrite,
            MergeFails, AbortCheck, AbortWrite

(* A run that is inserted is open.                                         *)
LEMMA InsertedIsOpen ==
  ASSUME Shape, NEW q \in Requests, InsertRun(q), UNCHANGED setting,
         NEW i \in DOMAIN runs', i \notin DOMAIN runs
  PROVE  runs'[i].status = "ACTIVE"
<1>1. i = Len(runs) + 1 /\ runs'[Len(runs) + 1] = InsertedRun(q)
  BY InsertRunIs
<1> QED BY <1>1 DEF InsertedRun

(* A run is inserted by a request that is answered with it.                *)
LEMMA InsertAnswers ==
  ASSUME Shape, NEW q \in Requests, InsertRun(q), UNCHANGED setting
  PROVE  /\ req[q].pc = "insert" /\ req'[q].pc = "idle" /\ Asking(q)
         /\ runs'[Len(runs) + 1].campaign = req[q].campaign
         /\ runs'[Len(runs) + 1].scenario = req[q].scenario
         /\ runs'[Len(runs) + 1].who = HeroOf(req[q].carry, req[q].who)
<1>1. /\ req[q].pc = "insert" /\ req'[q].pc = "idle"
      /\ runs'[Len(runs) + 1] = InsertedRun(q)
  BY InsertRunIs DEF Answered
<1> QED BY <1>1 DEF Asking, InsertedRun

(* Every step keeps it.                                                    *)
LEMMA OneOpenStep ==
  Shape /\ Alone /\ Working /\ OneOpen /\ [Next]_vars => OneOpen'
<1> SUFFICES ASSUME Shape, Alone, Working, OneOpen, [Next]_vars, setting.careful
             PROVE  OneOpen'
  BY DEF Next, vars, OneOpen
<1>1. ASSUME NEW i \in DOMAIN runs', NEW j \in DOMAIN runs',
             runs'[i].status = "ACTIVE", runs'[j].status = "ACTIVE",
             runs'[i].campaign = runs'[j].campaign, runs'[i].campaign # 0
      PROVE  i = j
  <2>1. CASE i \in DOMAIN runs /\ runs'[i] = runs[i] /\ j \in DOMAIN runs /\ runs'[j] = runs[j]
    BY <1>1, <2>1 DEF OneOpen, Active
  <2>2. ASSUME NEW k \in DOMAIN runs, runs'[k] = runs[k], runs[k].status = "ACTIVE",
               NEW q \in Requests, InsertRun(q), UNCHANGED setting,
               runs'[Len(runs) + 1].campaign = runs[k].campaign, runs[k].campaign # 0
        PROVE  FALSE
    BY <2>2, InsertAnswers DEF OneOpen, Shut
  <2>3. CASE i \in DOMAIN runs /\ runs'[i] = runs[i]
    BY <1>1, <2>1, <2>2, <2>3, OpenBefore
  <2>4. CASE j \in DOMAIN runs /\ runs'[j] = runs[j]
    BY <1>1, <2>1, <2>2, <2>4, OpenBefore
  <2> QED BY <1>1, <2>3, <2>4, OpenBefore
<1>2. ASSUME NEW i \in DOMAIN runs', Merging(i)',
             NEW k \in DOMAIN runs', runs'[k].campaign = runs'[i].campaign
      PROVE  runs'[k].status # "ACTIVE"
  <2> SUFFICES ASSUME runs'[k].status = "ACTIVE" PROVE FALSE
    OBVIOUS
  <2>1. i \in DOMAIN runs /\ runs'[i].campaign = runs[i].campaign
    BY <1>2, MergeBegins, RunsGrow DEF Grown
  <2>2. CASE Merging(i)
    <3>1. \A q \in Requests : ~Asking(q)
      BY <2>1, <2>2 DEF Alone, AtWork
    <3>2. k \in DOMAIN runs /\ runs'[k] = runs[k]
      BY <3>1, OpenBefore, InsertAnswers
    <3> QED BY <1>2, <2>1, <2>2, <3>2 DEF OneOpen, Shut
  <2>3. CASE End(i) /\ UNCHANGED setting
    <3>1. /\ Active(i) /\ k # i /\ k \in DOMAIN runs /\ runs'[k] = runs[k] /\ Active(k)
      BY <2>1, <2>3, EndIs DEF Working, Active
    <3>2. runs[i].campaign # 0
      BY <1>2, <2>1, <2>3, EndIs DEF Left, Merging
    <3> QED BY <1>2, <2>1, <3>1, <3>2 DEF OneOpen
  <2> QED BY <1>2, <2>2, <2>3, MergeBegins
<1>3. ASSUME NEW r \in Requests, req'[r].pc \in {"carry", "check", "stats", "insert"},
             req'[r].campaign # 0,
             NEW k \in DOMAIN runs', runs'[k].campaign = req'[r].campaign
      PROVE  runs'[k].status # "ACTIVE"
  <2> SUFFICES ASSUME runs'[k].status = "ACTIVE" PROVE FALSE
    OBVIOUS
  <2>1. Moves(r)
    BY RequestMoves
  <2>2. CASE req'[r] = req[r]
    <3>1. Shut(req[r].campaign) /\ Asking(r)
      BY <1>3, <2>2 DEF OneOpen, Asking
    <3>2. \A q \in Requests : InsertRun(q) /\ UNCHANGED setting => FALSE
      BY <1>3, <2>2, <3>1, InsertAnswers DEF Alone
    <3>3. k \in DOMAIN runs /\ runs'[k] = runs[k]
      BY <3>2, OpenBefore
    <3> QED BY <1>3, <2>2, <3>1, <3>3 DEF Shut
  <2>3. CASE req'[r] # req[r]
    <3>1. runs' = runs /\ req'[r].campaign = req[r].campaign /\ Shut(req[r].campaign)
      BY <1>3, <2>1, <2>3 DEF Moves, OneOpen
    <3> QED BY <1>3, <3>1 DEF Shut
  <2> QED BY <2>2, <2>3
<1> QED BY <1>1, <1>2, <1>3 DEF OneOpen, Shut, Active

(* One run at most is open in a campaign, for ever.                        *)
LEMMA OneOpenHolds == Spec => []OneOpen
<1>1. Init => OneOpen
  <2> SUFFICES ASSUME Init PROVE OneOpen
    OBVIOUS
  <2>1. DOMAIN runs = {} /\ \A r \in Requests : req[r].pc = "idle"
    BY IdleIs DEF Init
  <2> QED BY <2>1 DEF OneOpen
<1> QED BY <1>1, OneOpenStep, WorkingHolds, AloneHolds, ShapeHolds, PTL DEF Spec

-----------------------------------------------------------------------------
\* What was read is still true, and no open run is behind it

(* What a merge and a request have read of a campaign is still what the    *)
(* campaign carries; so the scenario a request was let pass with is not    *)
(* completed when its run is inserted, nor later.                          *)
Fresh == setting.careful =>
  /\ \A i \in DOMAIN runs :
       Read(ending[i].pc) => ending[i].carry = campaigns[runs[i].campaign].carry
  /\ \A r \in Requests :
       /\ req[r].pc \in {"check", "stats", "insert"} /\ req[r].campaign # 0
            => req[r].carry = campaigns[req[r].campaign].carry
       /\ req[r].pc \in {"stats", "insert"} /\ req[r].campaign # 0
            => req[r].scenario \notin Completed(req[r].carry)
  /\ \A i \in DOMAIN runs :
       Active(i) /\ runs[i].campaign # 0
         => runs[i].scenario \notin Completed(campaigns[runs[i].campaign].carry)

(* Runs and requests are about campaigns there are.                        *)
LEMMA CampaignsAre ==
  ASSUME Shape
  PROVE  /\ \A i \in DOMAIN runs : runs[i].campaign # 0 => runs[i].campaign \in DOMAIN campaigns
         /\ \A r \in Requests : req[r].campaign # 0 => req[r].campaign \in DOMAIN campaigns
         /\ 0 \notin DOMAIN campaigns
  BY ShapeIs DEF RunsTo, RequestsTo

(* A carried state that changes is that of a campaign whose only open      *)
(* business is this merge.                                                 *)
LEMMA CarryKept ==
  ASSUME Shape, Alone, OneOpen, [Next]_vars, setting.careful,
         NEW c \in DOMAIN campaigns, campaigns'[c].carry # campaigns[c].carry
  PROVE  /\ Shut(c) /\ \A r \in Requests : ~Asking(r)
         /\ \E i \in DOMAIN runs :
              /\ ending[i].pc = "write" /\ runs[i].campaign = c
              /\ campaigns'[c].carry = Merged(i) /\ ending'[i].pc = "over"
              /\ \A j \in DOMAIN runs \ {i} : ~AtWork(j)
<1>1. c \in DOMAIN campaigns'
  BY ArchiveShape, InsertCampaignShape, ShapeIs, MergeWriteIs
     DEF Next, vars, InsertRun, Ask, Guard, ReadCarry, Check, Refuse, WriteProfile,
         LastTurn, End, MergeReadCampaign, MergeReadRun, MergeReadStats, MergeFails,
         AbortCheck, AbortWrite, Crash
<1>2. PICK i \in DOMAIN runs :
        /\ ending[i].pc = "write" /\ runs[i].campaign = c
        /\ campaigns'[c].carry = Merged(i) /\ ending'[i].pc = "over"
  BY <1>1, CarryMoves
<1>3. Merging(i) /\ AtWork(i)
  BY <1>2 DEF Merging, AtWork
<1>4. Shut(c)
  BY <1>2, <1>3 DEF OneOpen
<1>5. /\ \A r \in Requests : ~Asking(r)
      /\ \A j \in DOMAIN runs \ {i} : ~AtWork(j)
  BY <1>3 DEF Alone
<1> QED BY <1>2, <1>4, <1>5

(* Every step keeps it: the one step that changes a carried state is a     *)
(* merge, and while it is under way no request is in flight and its        *)
(* campaign is shut.                                                       *)
LEMMA FreshStep ==
  Shape /\ Alone /\ Working /\ OneOpen /\ Fresh /\ [Next]_vars => Fresh'
<1> SUFFICES ASSUME Shape, Alone, Working, OneOpen, Fresh, [Next]_vars, setting.careful
             PROVE  Fresh'
  BY DEF Next, vars, Fresh
<1>1. ASSUME NEW i \in DOMAIN runs', Read(ending'[i].pc)
      PROVE  ending'[i].carry = campaigns'[runs'[i].campaign].carry
  <2>1. i \in DOMAIN runs /\ runs'[i].campaign = runs[i].campaign /\ Merging(i)
    BY <1>1, CopyMoves, RunsGrow DEF Grown, Read, Merging
  <2>2. ending'[i].carry = campaigns[runs[i].campaign].carry
    BY <1>1, CopyMoves DEF Fresh
  <2>3. runs[i].campaign \in DOMAIN campaigns /\ AtWork(i)
    BY <2>1, CampaignsAre DEF Shape, AtWork
  <2>4. ASSUME campaigns'[runs[i].campaign].carry # campaigns[runs[i].campaign].carry
        PROVE  FALSE
    <3>1. PICK j \in DOMAIN runs :
            /\ ending[j].pc = "write" /\ ending'[j].pc = "over"
            /\ \A x \in DOMAIN runs \ {j} : ~AtWork(x)
      BY <2>3, <2>4, CarryKept
    <3>2. i = j
      BY <2>1, <2>3, <3>1
    <3> QED BY <1>1, <3>1, <3>2 DEF Read
  <2> QED BY <2>1, <2>2, <2>4
<1>2. ASSUME NEW r \in Requests, Asking(r)', NEW c, c \in DOMAIN campaigns
      PROVE  campaigns'[c].carry = campaigns[c].carry
  <2>1. Asking(r) \/ MayAsk
    BY <1>2, RequestMoves DEF Moves, Asking
  <2>2. Asking(r) \/ \A i \in DOMAIN runs : ~AtWork(i)
    BY <2>1 DEF MayAsk, Quiet
  <2>3. ASSUME campaigns'[c].carry # campaigns[c].carry PROVE FALSE
    BY <1>2, <2>2, <2>3, CarryKept DEF AtWork, Merging
  <2> QED BY <2>3
<1>3. ASSUME NEW r \in Requests, req'[r].pc \in {"check", "stats", "insert"}, req'[r].campaign # 0
      PROVE  /\ req'[r].carry = campaigns'[req'[r].campaign].carry
             /\ req'[r].pc # "check" => req'[r].scenario \notin Completed(req'[r].carry)
  <2>1. Moves(r) /\ Asking(r)'
    BY <1>3, RequestMoves DEF Asking
  <2>2. /\ req'[r].campaign = req[r].campaign /\ req[r].campaign \in DOMAIN campaigns
        /\ req'[r].carry = campaigns[req[r].campaign].carry
        /\ req'[r].pc # "check" => req'[r].scenario \notin Completed(req'[r].carry)
    <3>1. CASE req'[r] = req[r]
      BY <1>3, <3>1, CampaignsAre DEF Fresh
    <3>2. CASE req'[r] # req[r]
      <4>1. req'[r].campaign = req[r].campaign /\ req[r].campaign \in DOMAIN campaigns
        BY <1>3, <2>1, <3>2, CampaignsAre DEF Moves
      <4>2. req[r].pc = "carry" => req'[r].pc = "check" /\ req'[r].carry = campaigns[req[r].campaign].carry
        BY <1>3, <2>1, <3>2 DEF Moves
      <4>3. req[r].pc # "carry" =>
              /\ req'[r].carry = req[r].carry /\ req[r].pc \in {"check", "stats"}
              /\ req[r].pc = "check" => req'[r].scenario \notin Completed(campaigns[req[r].campaign].carry)
              /\ req[r].pc = "stats" => req'[r].scenario = req[r].scenario
        BY <1>3, <2>1, <3>2 DEF Moves
      <4> QED BY <1>3, <4>1, <4>2, <4>3 DEF Fresh
    <3> QED BY <3>1, <3>2
  <2> QED BY <1>2, <2>1, <2>2
<1>4. ASSUME NEW i \in DOMAIN runs', runs'[i].status = "ACTIVE", runs'[i].campaign # 0
      PROVE  runs'[i].scenario \notin Completed(campaigns'[runs'[i].campaign].carry)
  <2>1. CASE i \in DOMAIN runs /\ runs'[i] = runs[i]
    <3>1. /\ runs[i].campaign \in DOMAIN campaigns
          /\ runs[i].scenario \notin Completed(campaigns[runs[i].campaign].carry)
      BY <1>4, <2>1, CampaignsAre DEF Fresh, Active
    <3>2. campaigns'[runs[i].campaign].carry = campaigns[runs[i].campaign].carry
      BY <1>4, <2>1, <3>1, CarryKept DEF Shut
    <3> QED BY <2>1, <3>1, <3>2
  <2>2. ASSUME NEW q \in Requests, InsertRun(q), UNCHANGED setting, i = Len(runs) + 1
        PROVE  runs'[i].scenario \notin Completed(campaigns'[runs'[i].campaign].carry)
    BY <1>4, <2>2, InsertAnswers DEF Fresh, InsertRun
  <2> QED BY <1>4, <2>1, <2>2, OpenBefore
<1> QED BY <1>1, <1>3, <1>4 DEF Fresh, Active

(* What was read stays true, for ever.                                     *)
LEMMA FreshHolds == Spec => []Fresh
<1>1. Init => Fresh
  <2> SUFFICES ASSUME Init PROVE Fresh
    OBVIOUS
  <2>1. DOMAIN runs = {} /\ \A r \in Requests : req[r].pc = "idle"
    BY IdleIs DEF Init
  <2> QED BY <2>1 DEF Fresh
<1> QED BY <1>1, FreshStep, OneOpenHolds, WorkingHolds, AloneHolds, ShapeHolds, PTL DEF Spec

-----------------------------------------------------------------------------
\* One active campaign

(* One campaign at most is active, and none is between the two statements  *)
(* of createCampaign.                                                      *)
Journeys == setting.careful =>
  /\ \A r \in Requests :
       req[r].pc = "journey" => \A c \in DOMAIN campaigns : campaigns[c].status = "COMPLETED"
  /\ \A c, d \in DOMAIN campaigns :
       campaigns[c].status = "ACTIVE" /\ campaigns[d].status = "ACTIVE" => c = d

(* Every step keeps it.                                                    *)
LEMMA JourneysStep == Shape /\ Alone /\ Journeys /\ [Next]_vars => Journeys'
<1> SUFFICES ASSUME Shape, Alone, Journeys, [Next]_vars, setting.careful
             PROVE  Journeys'
  BY DEF Next, vars, Journeys
<1>1. ASSUME NEW r \in Requests, Archive(r), UNCHANGED setting PROVE Journeys'
  BY <1>1, ArchiveShape DEF Journeys
<1>2. ASSUME NEW r \in Requests, InsertCampaign(r), UNCHANGED setting PROVE Journeys'
  <2>1. /\ \A c \in DOMAIN campaigns : campaigns'[c].status = "COMPLETED"
        /\ \A q \in Requests : req'[q].pc # "journey"
    BY <1>2, InsertCampaignShape DEF Journeys, Answered, Kept, Alone, Asking
  <2>2. \A c \in DOMAIN campaigns' : c \in DOMAIN campaigns \/ c = Len(campaigns) + 1
    BY <1>2, InsertCampaignShape, ShapeIs
  <2> QED BY <2>1, <2>2 DEF Journeys
<1>3. ASSUME DOMAIN campaigns' = DOMAIN campaigns,
             \A c \in DOMAIN campaigns : campaigns'[c].status = campaigns[c].status,
             \A r \in Requests : ~Archive(r)
      PROVE  Journeys'
  <2>1. \A r \in Requests : req'[r].pc = "journey" =>
          req[r].pc = "journey" \/ \A c \in DOMAIN campaigns' : campaigns'[c].status = "COMPLETED"
    BY RequestMoves DEF Moves
  <2> QED BY <1>3, <2>1 DEF Journeys
<1>4. ASSUME NEW i \in DOMAIN runs, MergeWrite(i), UNCHANGED setting,
             \A r \in Requests : ~Archive(r) PROVE Journeys'
  BY <1>3, <1>4, MergeWriteIs
<1> QED BY <1>1, <1>2, <1>3, <1>4
        DEF Next, vars, InsertRun, Ask, Guard, ReadCarry, Check, Refuse, WriteProfile,
            LastTurn, End, MergeReadCampaign, MergeReadRun, MergeReadStats, MergeFails,
            AbortCheck, AbortWrite, Crash

(* It holds for ever.                                                      *)
LEMMA JourneysHold == Spec => []Journeys
<1>1. Init => Journeys
  <2> SUFFICES ASSUME Init PROVE Journeys
    OBVIOUS
  <2>1. DOMAIN campaigns = {}
    BY DEF Init
  <2> QED BY <2>1 DEF Journeys
<1> QED BY <1>1, JourneysStep, AloneHolds, ShapeHolds, PTL DEF Spec

(* There is no way back, whatever crashes and however games are mixed.     *)
THEOREM NoWayBackHolds == Spec => []NoWayBack
<1>1. Shape /\ OneOpen /\ Fresh /\ Journeys => NoWayBack
  <2> SUFFICES ASSUME Shape, OneOpen, Fresh, Journeys, setting.careful PROVE NoWayBack
    BY DEF NoWayBack
  <2>1. 0 \notin DOMAIN campaigns
    BY CampaignsAre
  <2>2. \A c \in DOMAIN campaigns : \A i, j \in ActiveIn(c) : i = j
    BY <2>1 DEF OneOpen, ActiveIn, RunsOf
  <2>3. \A c \in DOMAIN campaigns : \A i \in ActiveIn(c) :
          runs[i].scenario \notin Completed(campaigns[c].carry)
    BY <2>1 DEF Fresh, ActiveIn, RunsOf
  <2> QED BY <2>2, <2>3 DEF NoWayBack, Journeys
<1> QED BY <1>1, ShapeHolds, OneOpenHolds, FreshHolds, JourneysHold, PTL

-----------------------------------------------------------------------------
\* Every ended run is completed, and no other

(* A completion is one of an ended run.                                    *)
Ended == setting.careful =>
  \A c \in DOMAIN campaigns : \A d \in campaigns[c].carry.done : runs[d.run].status = "ENDED"

(* Every ended run that is not merged just now is completed, if nothing    *)
(* failed.                                                                 *)
Rewarded == setting.careful /\ faults = 0 =>
  \A i \in DOMAIN runs :
    runs[i].status = "ENDED" /\ runs[i].campaign # 0 /\ ~Merging(i)
      => Result(i).scenario \in Completed(campaigns[runs[i].campaign].carry)

(* An ended run stays so, and one that is ended by a step was open.        *)
LEMMA EndedStays ==
  ASSUME Shape, Working, [Next]_vars, setting.careful, NEW i \in DOMAIN runs
  PROVE  /\ runs[i].status = "ENDED" => runs'[i].status = "ENDED"
         /\ runs[i].status # "ENDED" /\ runs'[i].status = "ENDED" /\ runs[i].campaign # 0
              => Merging(i)'
<1>1. ASSUME NEW r \in Requests, InsertRun(r), UNCHANGED setting PROVE runs'[i] = runs[i]
  BY <1>1, InsertRunIs
<1>2. ASSUME NEW j \in DOMAIN runs, End(j), UNCHANGED setting
      PROVE  /\ runs[i].status = "ENDED" => runs'[i].status = "ENDED"
             /\ runs[i].status # "ENDED" /\ runs'[i].status = "ENDED" /\ runs[i].campaign # 0
                  => Merging(i)'
  BY <1>2, EndIs DEF Stepped, Merging
<1>3. ASSUME NEW j \in DOMAIN runs, AbortWrite(j), UNCHANGED setting
      PROVE  /\ runs[i].status = "ENDED" => runs'[i].status = "ENDED"
             /\ runs'[i].status = "ENDED" => runs[i].status = "ENDED"
  BY <1>3, AbortWriteIs DEF Working, Active
<1> QED BY <1>1, <1>2, <1>3
        DEF Next, vars, Archive, InsertCampaign, Ask, Guard, ReadCarry, Check, Refuse, WriteProfile,
            LastTurn, MergeReadCampaign, MergeReadRun, MergeReadStats, MergeWrite, MergeFails,
            AbortCheck, Crash

(* What is merged goes into the carried state that is there.               *)
LEMMA MergedInto ==
  ASSUME Shape, Fresh, setting.careful, NEW i \in DOMAIN runs, ending[i].pc = "write"
  PROVE  /\ runs[i].campaign \in DOMAIN campaigns
         /\ ending[i].carry = campaigns[runs[i].campaign].carry
<1>1. Merging(i) /\ Read(ending[i].pc)
  BY DEF Merging, Read
<1> QED BY <1>1, CampaignsAre DEF Shape, Fresh

(* Every step keeps Ended: no ended run is opened or aborted, and only an  *)
(* ended one is merged.                                                    *)
LEMMA EndedStep ==
  Shape /\ Alone /\ Working /\ OneOpen /\ Fresh /\ Earned /\ Ended /\ [Next]_vars => Ended'
<1> SUFFICES ASSUME Shape, Alone, Working, OneOpen, Fresh, Earned, Ended, [Next]_vars, setting.careful,
                    NEW c \in DOMAIN campaigns', NEW d \in campaigns'[c].carry.done
             PROVE  runs'[d.run].status = "ENDED"
  BY DEF Next, vars, Ended
<1>1. CASE c \in DOMAIN campaigns /\ campaigns'[c].carry = campaigns[c].carry
  <2>1. d.run \in DOMAIN runs /\ runs[d.run].status = "ENDED"
    BY <1>1 DEF Ended, Earned, Fair
  <2> QED BY <2>1, EndedStays
<1>2. CASE campaigns'[c].carry = NoCarry
  BY <1>2 DEF NoCarry
<1>3. ASSUME NEW i \in DOMAIN runs, ending[i].pc = "write", runs[i].campaign = c,
             campaigns'[c].carry = Merged(i)
      PROVE  runs'[d.run].status = "ENDED"
  <2>1. ending[i].carry = campaigns[c].carry /\ c \in DOMAIN campaigns
    BY <1>3, MergedInto
  <2>2. d \in campaigns[c].carry.done \/ d = Result(i)
    BY <1>3, <2>1, MergedIs DEF WithResult
  <2>3. runs[i].status = "ENDED"
    BY <1>3 DEF Working, Merging
  <2>4. d.run \in DOMAIN runs /\ runs[d.run].status = "ENDED"
    BY <2>1, <2>2, <2>3, ResultIs DEF Ended, Earned, Fair
  <2> QED BY <2>4, EndedStays
<1> QED BY <1>1, <1>2, <1>3, CarryMoves

(* A completion is one of an ended run, for ever.                          *)
LEMMA EndedHolds == Spec => []Ended
<1>1. Init => Ended
  <2> SUFFICES ASSUME Init PROVE Ended
    OBVIOUS
  <2>1. DOMAIN campaigns = {}
    BY DEF Init
  <2> QED BY <2>1 DEF Ended
<1> QED BY <1>1, EndedStep, EarnedHolds, FreshHolds, OneOpenHolds, WorkingHolds, AloneHolds,
           ShapeHolds, PTL DEF Spec

(* A merge is over when it has written, or when something failed.          *)
LEMMA MergeEnds ==
  ASSUME Shape, [Next]_vars, NEW i \in DOMAIN runs, Merging(i), ~Merging(i)',
         runs[i].status = "ENDED", faults' = 0
  PROVE  MergeWrite(i)
<1>1. ASSUME UNCHANGED ending PROVE FALSE
  BY <1>1 DEF Merging
<1>2. ASSUME NEW r \in Requests, InsertRun(r), UNCHANGED setting PROVE FALSE
  BY <1>2, InsertRunIs DEF Merging
<1>3. ASSUME NEW j \in DOMAIN runs, Spared(j), j = i => MergeWrite(i) PROVE MergeWrite(i)
  BY <1>3 DEF Spared, Merging
<1>4. ASSUME NEW j \in DOMAIN runs, LastTurn(j), UNCHANGED setting PROVE MergeWrite(i)
  BY <1>3, <1>4, LastTurnIs DEF Stepped, Merging
<1>5. ASSUME NEW j \in DOMAIN runs, End(j), UNCHANGED setting PROVE MergeWrite(i)
  BY <1>3, <1>5, EndIs DEF Stepped, Left, Merging
<1>6. ASSUME NEW j \in DOMAIN runs, MergeReadCampaign(j), UNCHANGED setting PROVE MergeWrite(i)
  BY <1>3, <1>6, MergeReadCampaignIs DEF Merging
<1>7. ASSUME NEW j \in DOMAIN runs, MergeReadRun(j), UNCHANGED setting PROVE MergeWrite(i)
  BY <1>3, <1>7, MergeReadRunIs DEF Stepped, Left, Merging
<1>8. ASSUME NEW j \in DOMAIN runs, MergeReadStats(j), UNCHANGED setting PROVE MergeWrite(i)
  BY <1>3, <1>8, MergeReadStatsIs DEF Merging
<1>9. ASSUME NEW j \in DOMAIN runs, MergeWrite(j), UNCHANGED setting PROVE MergeWrite(i)
  BY <1>3, <1>9, MergeWriteIs DEF Left
<1> QED BY <1>1, <1>2, <1>4, <1>5, <1>6, <1>7, <1>8, <1>9, MergeFailsIs, CrashIs
        DEF Next, vars, Archive, InsertCampaign, Ask, Guard, ReadCarry, Check, Refuse, WriteProfile,
            AbortCheck, AbortWrite

(* Faults are counted, never forgotten.                                    *)
LEMMA FaultsGrow ==
  ASSUME Shape, [Next]_vars, faults' = 0
  PROVE  faults = 0
  BY MergeFailsIs, CrashIs
     DEF Next, vars, Archive, InsertCampaign, Ask, Guard, ReadCarry, Check, Refuse, WriteProfile,
         InsertRun, LastTurn, End, MergeReadCampaign, MergeReadRun, MergeReadStats, MergeWrite,
         AbortCheck, AbortWrite

(* Every step keeps Rewarded: a merge that begins goes on to its last      *)
(* statement, and no later merge loses a scenario, because each writes to  *)
(* what it has read.                                                       *)
LEMMA RewardedStep ==
  Shape /\ Alone /\ Working /\ OneOpen /\ Fresh /\ Rewarded /\ [Next]_vars => Rewarded'
<1> SUFFICES ASSUME Shape, Alone, Working, OneOpen, Fresh, Rewarded, [Next]_vars, setting.careful,
                    faults' = 0, NEW i \in DOMAIN runs', runs'[i].status = "ENDED",
                    runs'[i].campaign # 0, ~Merging(i)'
             PROVE  Result(i)'.scenario \in Completed(campaigns'[runs'[i].campaign].carry)
  BY DEF Next, vars, Rewarded
<1>0. faults = 0
  BY FaultsGrow
<1>1. i \in DOMAIN runs
  BY InsertedIsOpen, EndIs, AbortWriteIs
     DEF Next, vars, Archive, InsertCampaign, Ask, Guard, ReadCarry, Check, Refuse, WriteProfile,
         LastTurn, MergeReadCampaign, MergeReadRun, MergeReadStats, MergeWrite, MergeFails,
         AbortCheck, Crash
<1>2. /\ runs'[i].campaign = runs[i].campaign /\ runs[i].campaign \in DOMAIN campaigns
      /\ Result(i)' = Result(i)
  BY <1>1, RunsGrow, CampaignsAre DEF Grown, Result
<1>3. runs[i].status = "ENDED"
  BY <1>1, <1>2, EndedStays
<1>4. CASE Merging(i)
  <2>1. MergeWrite(i)
    BY <1>1, <1>3, <1>4, MergeEnds
  <2>2. campaigns'[runs[i].campaign].carry = Merged(i)
    BY <1>1, <2>1, MergeWriteIs DEF Next, vars
  <2> QED BY <1>1, <1>2, <2>2, MergedIs
<1>5. CASE ~Merging(i)
  <2>1. Result(i).scenario \in Completed(campaigns[runs[i].campaign].carry)
    BY <1>0, <1>1, <1>2, <1>3, <1>5 DEF Rewarded
  <2>2. CASE campaigns'[runs[i].campaign].carry = campaigns[runs[i].campaign].carry
    BY <1>2, <2>1, <2>2
  <2>3. CASE campaigns'[runs[i].campaign].carry # campaigns[runs[i].campaign].carry
    <3>1. PICK j \in DOMAIN runs :
            /\ ending[j].pc = "write" /\ runs[j].campaign = runs[i].campaign
            /\ campaigns'[runs[i].campaign].carry = Merged(j)
      BY <1>2, <2>3, CarryKept
    <3>2. ending[j].carry = campaigns[runs[i].campaign].carry
      BY <3>1, MergedInto
    <3> QED BY <1>2, <2>1, <3>1, <3>2, MergedIs
  <2> QED BY <2>2, <2>3
<1> QED BY <1>4, <1>5

(* Every ended run is completed, if nothing failed, for ever.              *)
LEMMA RewardedHolds == Spec => []Rewarded
<1>1. Init => Rewarded
  <2> SUFFICES ASSUME Init PROVE Rewarded
    OBVIOUS
  <2>1. DOMAIN runs = {}
    BY DEF Init
  <2> QED BY <2>1 DEF Rewarded
<1> QED BY <1>1, RewardedStep, FreshHolds, OneOpenHolds, WorkingHolds, AloneHolds, ShapeHolds, PTL
        DEF Spec

(* What is achieved is carried over, once, also when requests overlap; and *)
(* all of it, if the player waits and nothing fails.                       *)
THEOREM CarriedHolds == Spec => []Carried
<1>1. Shape /\ Earned /\ Ended /\ Rewarded => Carried
  <2> SUFFICES ASSUME Shape, Earned, Ended, Rewarded PROVE Carried
    OBVIOUS
  <2>1. ASSUME NEW c \in DOMAIN campaigns
        PROVE  LET carry == campaigns[c].carry
               IN  /\ carry.bonus = Cardinality(Completed(carry))
                   /\ \A d, e \in carry.done : d.scenario = e.scenario => d = e
                   /\ \A d \in carry.done :
                        /\ runs[d.run].campaign = c
                        /\ d = Result(d.run)
                        /\ setting.careful => runs[d.run].status = "ENDED"
    <3> DEFINE carry == campaigns[c].carry
    <3>1. Fair(runs, carry, c)
      BY DEF Earned
    <3>2. carry \in Carries
      BY ShapeIs DEF Campaigns
    <3> HIDE DEF carry
    <3>3. ASSUME NEW d \in carry.done PROVE d = Result(d.run)
      <4>1. d \in [scenario : 1..Scenarios, run : Nat]
        BY <3>2 DEF Carries
      <4>2. d.scenario = IF runs[d.run].scenario = 0 THEN 1 ELSE runs[d.run].scenario
        BY <3>1 DEF Fair
      <4> QED BY <4>1, <4>2 DEF Result
    <3>4. setting.careful => \A d \in carry.done : runs[d.run].status = "ENDED"
      BY DEF Ended, carry
    <3> QED BY <3>1, <3>3, <3>4 DEF Fair, carry
  <2>2. ASSUME setting.careful, Quiet, faults = 0, NEW i \in DOMAIN runs,
               runs[i].status = "ENDED", runs[i].campaign # 0
        PROVE  Result(i).scenario \in Completed(campaigns[runs[i].campaign].carry)
    BY <2>2 DEF Quiet, AtWork, Rewarded
  <2> QED BY <2>1, <2>2 DEF Carried
<1> QED BY <1>1, ShapeHolds, EarnedHolds, EndedHolds, RewardedHolds, PTL

-----------------------------------------------------------------------------
\* One hero

(* The runs of a journey have one hero: the completed ones, the open one   *)
(* and the one that is merged.                                             *)
Heroic == setting.careful =>
  /\ \A c \in DOMAIN campaigns : \A d \in campaigns[c].carry.done :
       Plays(d.run, campaigns[c].carry)
  /\ \A i \in DOMAIN runs :
       (Active(i) \/ Merging(i)) /\ runs[i].campaign # 0
         => LET carry == campaigns[runs[i].campaign].carry
            IN  carry.done # {} => Plays(i, carry)

(* A journey that has begun has a hero.                                    *)
LEMMA CarriedHero ==
  ASSUME Shape, Earned, Heroic, setting.careful, NEW c \in DOMAIN campaigns,
         campaigns[c].carry.done # {}
  PROVE  campaigns[c].carry.who # Nobody
<1>1. PICK d \in campaigns[c].carry.done : TRUE
  OBVIOUS
<1>2. d.run \in DOMAIN runs /\ runs[d.run].who.hero = campaigns[c].carry.who.hero
  BY <1>1 DEF Earned, Fair, Heroic, Plays
<1>3. runs[d.run].who.hero \in Heroes
  BY <1>2, ShapeIs DEF RunsTo, Mixtures
<1> QED BY <1>2, <1>3, CampaignAssumption DEF Nobody

(* What is merged has the identity that was carried, or that of the run if *)
(* it is the first; the run is played by this hero.                        *)
LEMMA MergedHero ==
  ASSUME Shape, Earned, Fresh, Heroic, setting.careful, NEW i \in DOMAIN runs, ending[i].pc = "write"
  PROVE  /\ Plays(i, Merged(i))
         /\ campaigns[runs[i].campaign].carry.done # {}
              => Merged(i).who = campaigns[runs[i].campaign].carry.who
<1> DEFINE c == runs[i].campaign
<1>1. c \in DOMAIN campaigns /\ ending[i].carry = campaigns[c].carry /\ c # 0 /\ Merging(i)
  BY MergedInto, CampaignsAre DEF Merging
<1>2. CASE campaigns[c].carry.done = {}
  <2>1. campaigns[c].carry.who = Nobody
    BY <1>1, <1>2 DEF Earned, Fair, NoCarry
  <2> QED BY <1>1, <1>2, <2>1, MergedIs DEF Plays
<1>3. CASE campaigns[c].carry.done # {}
  <2>1. campaigns[c].carry.who # Nobody /\ Plays(i, campaigns[c].carry)
    BY <1>1, <1>3, CarriedHero DEF Heroic
  <2> QED BY <1>1, <2>1, MergedIs DEF Plays
<1> QED BY <1>2, <1>3

(* The hero of a run that is inserted.                                     *)
LEMMA InsertedHero ==
  ASSUME Shape, Earned, Fresh, Heroic, setting.careful,
         NEW q \in Requests, InsertRun(q), UNCHANGED setting, req[q].campaign # 0,
         campaigns[req[q].campaign].carry.done # {}
  PROVE  LET who == runs'[Len(runs) + 1].who
             carried == campaigns[req[q].campaign].carry.who
         IN  /\ who.hero = carried.hero
             /\ carried.name # None => who.name = carried.name
<1>1. req[q].campaign \in DOMAIN campaigns
  BY CampaignsAre
<1>2. req[q].carry = campaigns[req[q].campaign].carry
  BY InsertAnswers DEF Fresh
<1>3. runs'[Len(runs) + 1].who = HeroOf(req[q].carry, req[q].who)
  BY InsertAnswers
<1>4. ~IsFirst(req[q].carry) /\ req[q].carry.who # Nobody
  BY <1>1, <1>2, CarriedHero DEF IsFirst
<1>5. /\ HeroOf(req[q].carry, req[q].who).hero = req[q].carry.who.hero
      /\ HeroOf(req[q].carry, req[q].who).name = Or(req[q].carry.who.name, req[q].who.name)
  BY <1>4 DEF HeroOf
<1> QED BY <1>2, <1>3, <1>5 DEF Or

(* Every step keeps it.                                                    *)
LEMMA HeroicStep ==
  Shape /\ Alone /\ Working /\ OneOpen /\ Fresh /\ Earned /\ Heroic /\ [Next]_vars => Heroic'
<1> SUFFICES ASSUME Shape, Alone, Working, OneOpen, Fresh, Earned, Heroic, [Next]_vars, setting.careful
             PROVE  Heroic'
  BY DEF Next, vars, Heroic
<1>1. Grown
  BY RunsGrow
<1>2. ASSUME NEW c \in DOMAIN campaigns', NEW d \in campaigns'[c].carry.done
      PROVE  Plays(d.run, campaigns[c].carry)'
  <2>1. CASE c \in DOMAIN campaigns /\ campaigns'[c].carry = campaigns[c].carry
    <3>1. d.run \in DOMAIN runs /\ Plays(d.run, campaigns[c].carry)
      BY <2>1 DEF Heroic, Earned, Fair
    <3> QED BY <1>1, <2>1, <3>1 DEF Grown, Plays
  <2>2. CASE campaigns'[c].carry = NoCarry
    BY <2>2 DEF NoCarry
  <2>3. ASSUME NEW i \in DOMAIN runs, ending[i].pc = "write", runs[i].campaign = c,
               campaigns'[c].carry = Merged(i)
        PROVE  Plays(d.run, campaigns[c].carry)'
    <3>1. ending[i].carry = campaigns[c].carry /\ c \in DOMAIN campaigns /\ Merging(i)
      BY <2>3, MergedInto DEF Merging
    <3>2. d \in campaigns[c].carry.done \/ d = Result(i)
      BY <2>3, <3>1, MergedIs DEF WithResult
    <3>3. c # 0 /\ Plays(i, Merged(i))
      BY <2>3, <3>1, MergedHero, CampaignsAre
    <3>4. CASE d = Result(i)
      BY <1>1, <2>3, <3>3, <3>4, ResultIs DEF Grown, Plays
    <3>5. CASE d \in campaigns[c].carry.done
      <4>1. /\ d.run \in DOMAIN runs /\ Plays(d.run, campaigns[c].carry)
            /\ Merged(i).who = campaigns[c].carry.who
        BY <2>3, <3>1, <3>5, MergedHero DEF Heroic, Earned, Fair
      <4> QED BY <1>1, <2>3, <3>3, <4>1 DEF Grown, Plays
    <3> QED BY <3>2, <3>4, <3>5
  <2> QED BY <2>1, <2>2, <2>3, CarryMoves
<1>3. ASSUME NEW i \in DOMAIN runs', runs'[i].status = "ACTIVE" \/ Merging(i)', runs'[i].campaign # 0,
             campaigns'[runs'[i].campaign].carry.done # {}
      PROVE  Plays(i, campaigns[runs[i].campaign].carry)'
  <2>1. CASE i \in DOMAIN runs /\ (Active(i) \/ Merging(i))
    <3>1. /\ runs'[i].campaign = runs[i].campaign /\ runs'[i].who = runs[i].who
          /\ runs[i].campaign \in DOMAIN campaigns
      BY <1>1, <1>3, <2>1, CampaignsAre DEF Grown, Plays
    <3>2. campaigns'[runs[i].campaign].carry = campaigns[runs[i].campaign].carry
      <4> SUFFICES ASSUME campaigns'[runs[i].campaign].carry # campaigns[runs[i].campaign].carry
                   PROVE  FALSE
        OBVIOUS
      <4>1. ~Active(i)
        BY <2>1, <3>1, CarryKept DEF Shut, Active
      <4>2. Merging(i) /\ AtWork(i)
        BY <2>1, <4>1 DEF AtWork
      <4>3. ending'[i].pc = "over"
        BY <2>1, <3>1, <4>2, CarryKept
      <4>4. Grown /\ Working'
        BY <1>1, WorkingStep
      <4>5. runs'[i].status # "ACTIVE"
        BY <2>1, <4>3, <4>4 DEF Grown, Working, Active, Next, vars
      <4> QED BY <1>3, <4>3, <4>5 DEF Merging
    <3> QED BY <1>3, <2>1, <3>1, <3>2 DEF Heroic, Plays
  <2>2. ASSUME NEW q \in Requests, InsertRun(q), UNCHANGED setting, i = Len(runs) + 1
        PROVE  Plays(i, campaigns[runs[i].campaign].carry)'
    BY <1>3, <2>2, InsertAnswers, InsertedHero DEF InsertRun, Plays
  <2>3. CASE runs'[i].status = "ACTIVE"
    BY <2>1, <2>2, <2>3, OpenBefore DEF Active
  <2>4. CASE Merging(i)'
    <3>1. i \in DOMAIN runs /\ (Merging(i) \/ End(i))
      BY <2>4, MergeBegins
    <3>2. End(i) => Active(i)
      BY <3>1 DEF Working, End, Phase
    <3> QED BY <2>1, <3>1, <3>2
  <2> QED BY <1>3, <2>3, <2>4
<1> QED BY <1>2, <1>3 DEF Heroic, Active

(* It holds for ever.                                                      *)
LEMMA HeroicHolds == Spec => []Heroic
<1>1. Init => Heroic
  <2> SUFFICES ASSUME Init PROVE Heroic
    OBVIOUS
  <2>1. DOMAIN runs = {} /\ DOMAIN campaigns = {}
    BY DEF Init
  <2> QED BY <2>1 DEF Heroic
<1> QED BY <1>1, HeroicStep, EarnedHolds, FreshHolds, OneOpenHolds, WorkingHolds, AloneHolds,
           ShapeHolds, PTL DEF Spec

(* Request r is for a run.                                                 *)
Creates(r) == req[r].pc \in {"guard", "carry", "check", "stats", "insert"}

(* No run is open.                                                         *)
NoneOpen == \A i \in DOMAIN runs : runs[i].status # "ACTIVE"

(* A player with one game at a time has one open run at most, and none     *)
(* while a run is merged or created.                                       *)
OneGame == setting.careful /\ setting.single =>
  /\ \A i, j \in DOMAIN runs : Active(i) /\ Active(j) => i = j
  /\ \A i \in DOMAIN runs : Merging(i) => NoneOpen
  /\ \A r \in Requests : Creates(r) => NoneOpen

(* Every step keeps it.                                                    *)
LEMMA OneGameStep ==
  Shape /\ Alone /\ Working /\ OneGame /\ [Next]_vars => OneGame'
<1> SUFFICES ASSUME Shape, Alone, Working, OneGame, [Next]_vars, setting.careful, setting.single
             PROVE  OneGame'
  BY DEF Next, vars, OneGame
<1>1. ASSUME NEW i \in DOMAIN runs', NEW j \in DOMAIN runs',
             runs'[i].status = "ACTIVE", runs'[j].status = "ACTIVE"
      PROVE  i = j
  <2>1. CASE i \in DOMAIN runs /\ runs'[i] = runs[i] /\ j \in DOMAIN runs /\ runs'[j] = runs[j]
    BY <1>1, <2>1 DEF OneGame, Active
  <2>2. ASSUME NEW k \in DOMAIN runs, runs[k].status = "ACTIVE",
               NEW q \in Requests, InsertRun(q), UNCHANGED setting
        PROVE  FALSE
    BY <2>2, InsertAnswers DEF OneGame, NoneOpen, Creates
  <2>3. CASE i \in DOMAIN runs /\ runs'[i] = runs[i]
    BY <1>1, <2>1, <2>2, <2>3, OpenBefore
  <2>4. CASE j \in DOMAIN runs /\ runs'[j] = runs[j]
    BY <1>1, <2>1, <2>2, <2>4, OpenBefore
  <2> QED BY <1>1, <2>3, <2>4, OpenBefore
<1>2. ASSUME NEW i \in DOMAIN runs', Merging(i)', NEW k \in DOMAIN runs'
      PROVE  runs'[k].status # "ACTIVE"
  <2> SUFFICES ASSUME runs'[k].status = "ACTIVE" PROVE FALSE
    OBVIOUS
  <2>1. i \in DOMAIN runs
    BY <1>2, MergeBegins
  <2>2. CASE Merging(i)
    <3>1. \A q \in Requests : ~Asking(q)
      BY <2>1, <2>2 DEF Alone, AtWork
    <3>2. k \in DOMAIN runs /\ runs'[k] = runs[k]
      BY <3>1, OpenBefore, InsertAnswers
    <3> QED BY <1>2, <2>1, <2>2, <3>2 DEF OneGame, NoneOpen
  <2>3. CASE End(i) /\ UNCHANGED setting
    <3>1. /\ Active(i) /\ k # i /\ k \in DOMAIN runs /\ runs'[k] = runs[k] /\ Active(k)
      BY <2>1, <2>3, EndIs DEF Working, Active
    <3> QED BY <1>2, <2>1, <3>1 DEF OneGame
  <2> QED BY <1>2, <2>2, <2>3, MergeBegins
<1>3. ASSUME NEW r \in Requests, Creates(r)', NEW k \in DOMAIN runs'
      PROVE  runs'[k].status # "ACTIVE"
  <2> SUFFICES ASSUME runs'[k].status = "ACTIVE" PROVE FALSE
    OBVIOUS
  <2>1. Moves(r)
    BY RequestMoves
  <2>2. CASE req'[r] = req[r]
    <3>1. NoneOpen /\ Asking(r)
      BY <1>3, <2>2 DEF OneGame, Asking, Creates
    <3>2. \A q \in Requests : InsertRun(q) /\ UNCHANGED setting => FALSE
      BY <1>3, <2>2, <3>1, InsertAnswers DEF Alone, Creates
    <3>3. k \in DOMAIN runs /\ runs'[k] = runs[k]
      BY <3>2, OpenBefore
    <3> QED BY <3>1, <3>3 DEF NoneOpen
  <2>3. CASE req'[r] # req[r]
    <3>1. runs' = runs /\ (NoneOpen \/ \A i \in DOMAIN runs : ~Active(i))
      BY <1>3, <2>1, <2>3 DEF Moves, OneGame, Creates
    <3> QED BY <3>1 DEF NoneOpen, Active
  <2> QED BY <2>2, <2>3
<1> QED BY <1>1, <1>2, <1>3 DEF OneGame, NoneOpen, Active

(* It holds for ever.                                                      *)
LEMMA OneGameHolds == Spec => []OneGame
<1>1. Init => OneGame
  <2> SUFFICES ASSUME Init PROVE OneGame
    OBVIOUS
  <2>1. DOMAIN runs = {}
    BY DEF Init
  <2> QED BY <2>1 DEF OneGame, NoneOpen
<1> QED BY <1>1, OneGameStep, WorkingHolds, AloneHolds, ShapeHolds, PTL DEF Spec

-----------------------------------------------------------------------------
(* The player's stats. They are one row, so that they are the hero's only  *)
(* while nothing else is played: for a player with one game at a time they *)
(* are those of the open run, of the run that is merged and, once written, *)
(* of the run that is about to be inserted.                                *)
Profiled == setting.careful /\ setting.single =>
  /\ \A i \in DOMAIN runs : Active(i) \/ Merging(i) => profile.hero = runs[i].who.hero
  /\ \A i \in DOMAIN runs : Active(i) /\ runs[i].campaign # 0
       => profile.bonus >= campaigns[runs[i].campaign].carry.bonus
  /\ \A r \in Requests : req[r].pc = "insert" => profile = StatsOf(req[r].carry, req[r].who)
  /\ \A c \in DOMAIN campaigns :
       campaigns[c].carry.done # {} => campaigns[c].carry.stats.hero = campaigns[c].carry.who.hero
  /\ \A i \in DOMAIN runs : ending[i].pc = "write" => ending[i].stats = profile

(* The stats are written by WriteProfile only.                             *)
LEMMA ProfileMoves ==
  ASSUME [Next]_vars, profile' # profile
  PROVE  \E r \in Requests : WriteProfile(r) /\ UNCHANGED setting
  BY DEF Next, vars, Archive, InsertCampaign, Ask, Guard, ReadCarry, Check, Refuse, InsertRun,
         LastTurn, End, MergeReadCampaign, MergeReadRun, MergeReadStats, MergeWrite, MergeFails,
         AbortCheck, AbortWrite, Crash

(* While a run is open or merged, and while a request waits to insert its  *)
(* run, they stay as they are.                                             *)
LEMMA ProfileKept ==
  ASSUME Shape, Alone, OneGame, [Next]_vars, setting.careful, setting.single,
         \/ \E i \in DOMAIN runs : Active(i) \/ AtWork(i)
         \/ \E r \in Requests : req[r].pc = "insert"
  PROVE  profile' = profile
<1> SUFFICES ASSUME NEW q \in Requests, WriteProfile(q) PROVE FALSE
  BY ProfileMoves
<1>1. req[q].pc = "stats" /\ Creates(q) /\ Asking(q)
  BY DEF WriteProfile, At, Creates, Asking
<1>2. ASSUME NEW i \in DOMAIN runs, Active(i) PROVE FALSE
  BY <1>1, <1>2 DEF OneGame, NoneOpen, Active
<1>3. ASSUME NEW i \in DOMAIN runs, AtWork(i) PROVE FALSE
  BY <1>1, <1>3 DEF Alone
<1>4. ASSUME NEW r \in Requests, req[r].pc = "insert" PROVE FALSE
  BY <1>1, <1>4 DEF Alone, Asking
<1> QED BY <1>2, <1>3, <1>4

(* A merge that is about to write has the stats it had or has just read.   *)
LEMMA StatsMove ==
  ASSUME Shape, [Next]_vars, NEW i \in DOMAIN runs', ending'[i].pc = "write"
  PROVE  /\ i \in DOMAIN runs
         /\ \/ ending[i].pc = "write" /\ ending'[i].stats = ending[i].stats
            \/ Merging(i) /\ ending'[i].stats = profile /\ profile' = profile
<1> DEFINE P == \/ ending[i].pc = "write" /\ ending'[i].stats = ending[i].stats
                \/ Merging(i) /\ ending'[i].stats = profile /\ profile' = profile
<1>0. i \in DOMAIN runs /\ (Merging(i) \/ (End(i) /\ UNCHANGED setting))
  BY MergeBegins DEF Merging
<1> SUFFICES P
  BY <1>0
<1>1. ASSUME UNCHANGED ending PROVE P
  BY <1>1
<1>2. ASSUME NEW r \in Requests, InsertRun(r), UNCHANGED setting PROVE P
  BY <1>0, <1>2, InsertRunIs
<1>3. ASSUME NEW j \in DOMAIN runs, Spared(j), ending'[j].pc # "write" PROVE P
  BY <1>0, <1>3 DEF Spared
<1>4. ASSUME NEW j \in DOMAIN runs, MergeReadStats(j), UNCHANGED setting PROVE P
  BY <1>0, <1>4, MergeReadStatsIs DEF MergeReadStats, Spared, Merging
<1>5. ASSUME Crash, UNCHANGED setting PROVE P
  BY <1>0, <1>5, CrashIs DEF Merging
<1>6. ASSUME NEW j \in DOMAIN runs, LastTurn(j), UNCHANGED setting PROVE P
  BY <1>3, <1>6, LastTurnIs DEF Stepped
<1>7. ASSUME NEW j \in DOMAIN runs, End(j), UNCHANGED setting PROVE P
  BY <1>3, <1>7, EndIs DEF Stepped, Left
<1>8. ASSUME NEW j \in DOMAIN runs, MergeReadCampaign(j), UNCHANGED setting PROVE P
  BY <1>3, <1>8, MergeReadCampaignIs
<1>9. ASSUME NEW j \in DOMAIN runs, MergeReadRun(j), UNCHANGED setting PROVE P
  BY <1>3, <1>9, MergeReadRunIs DEF Stepped, Left
<1>10. ASSUME NEW j \in DOMAIN runs, MergeWrite(j), UNCHANGED setting PROVE P
  BY <1>3, <1>10, MergeWriteIs DEF Left
<1>11. ASSUME NEW j \in DOMAIN runs, MergeFails(j), UNCHANGED setting PROVE P
  BY <1>3, <1>11, MergeFailsIs DEF Left
<1> HIDE DEF P
<1> QED BY <1>1, <1>2, <1>4, <1>5, <1>6, <1>7, <1>8, <1>9, <1>10, <1>11
        DEF Next, vars, Archive, InsertCampaign, Ask, Guard, ReadCarry, Check, Refuse, WriteProfile,
            AbortCheck, AbortWrite

(* The stats a run begins with: they are its hero's, and raised by the     *)
(* bonus that is carried over.                                             *)
LEMMA InsertedStats ==
  ASSUME Shape, Earned, Fresh, Heroic, Profiled, setting.careful, setting.single,
         NEW q \in Requests, InsertRun(q), UNCHANGED setting
  PROVE  /\ profile.hero = HeroOf(req[q].carry, req[q].who).hero
         /\ req[q].campaign # 0 =>
              /\ req[q].carry = campaigns[req[q].campaign].carry
              /\ profile.bonus >= req[q].carry.bonus
<1> DEFINE carry == req[q].carry
<1>1. /\ req[q].pc = "insert" /\ carry \in Carries
      /\ profile = StatsOf(carry, req[q].who)
  BY InsertAnswers, ShapeIs DEF Profiled, RequestsTo
<1>2. req[q].campaign # 0 =>
        req[q].campaign \in DOMAIN campaigns /\ carry = campaigns[req[q].campaign].carry
  BY <1>1, CampaignsAre DEF Fresh
<1>3. req[q].campaign = 0 => carry = NoCarry
  BY <1>1 DEF Shape
<1>4. CASE carry.done = {}
  <2>1. carry = NoCarry
    BY <1>2, <1>3, <1>4 DEF Earned, Fair
  <2> QED BY <1>1, <1>2, <1>4, <2>1 DEF StatsOf, HeroOf, IsFirst, NoCarry
<1>5. CASE carry.done # {}
  <2>1. req[q].campaign # 0
    BY <1>3, <1>5 DEF NoCarry
  <2>2. carry.who # Nobody /\ carry.stats.hero = carry.who.hero
    BY <1>2, <1>5, <2>1, CarriedHero DEF Profiled
  <2>3. carry.stats.bonus \in Nat /\ carry.bonus \in Nat
    BY <1>1 DEF Carries, Stats
  <2>4. profile.hero = carry.stats.hero /\ profile.bonus = carry.stats.bonus + carry.bonus
    BY <1>1, <1>5 DEF StatsOf, IsFirst
  <2>5. HeroOf(carry, req[q].who).hero = carry.who.hero
    BY <1>5, <2>2 DEF HeroOf, IsFirst
  <2> QED BY <1>2, <2>2, <2>3, <2>4, <2>5
<1> QED BY <1>4, <1>5

(* Every step keeps it: the stats change only when nothing is open, and a  *)
(* run is inserted with the stats just written.                            *)
LEMMA ProfiledStep ==
  Shape /\ Alone /\ Working /\ OneOpen /\ Fresh /\ Earned /\ Heroic /\ OneGame /\ Profiled
    /\ [Next]_vars => Profiled'
<1> SUFFICES ASSUME Shape, Alone, Working, OneOpen, Fresh, Earned, Heroic, OneGame, Profiled,
                    [Next]_vars, setting.careful, setting.single
             PROVE  Profiled'
  BY DEF Next, vars, Profiled
<1>1. Grown
  BY RunsGrow
<1>2. ASSUME NEW i \in DOMAIN runs, Active(i) \/ Merging(i)
      PROVE  profile' = profile /\ profile.hero = runs[i].who.hero /\ runs'[i].who = runs[i].who
  BY <1>1, <1>2, ProfileKept DEF Profiled, AtWork, Grown
<1>3. ASSUME NEW q \in Requests, InsertRun(q), UNCHANGED setting
      PROVE  /\ profile' = profile /\ campaigns' = campaigns
             /\ profile.hero = runs'[Len(runs) + 1].who.hero
             /\ runs'[Len(runs) + 1].campaign # 0 =>
                  profile.bonus >= campaigns[runs'[Len(runs) + 1].campaign].carry.bonus
  <2>1. profile' = profile /\ campaigns' = campaigns
    BY <1>3 DEF InsertRun
  <2> QED BY <1>3, <2>1, InsertAnswers, InsertedStats
<1>4. ASSUME NEW i \in DOMAIN runs', runs'[i].status = "ACTIVE" \/ Merging(i)'
      PROVE  profile'.hero = runs'[i].who.hero
  <2>1. CASE i \in DOMAIN runs /\ (Active(i) \/ Merging(i))
    BY <1>2, <2>1
  <2>2. CASE runs'[i].status = "ACTIVE"
    BY <1>3, <2>1, <2>2, OpenBefore DEF Active
  <2>3. CASE Merging(i)'
    <3>1. i \in DOMAIN runs /\ (Merging(i) \/ End(i))
      BY <2>3, MergeBegins
    <3>2. End(i) => Active(i)
      BY <3>1 DEF Working, End, Phase
    <3> QED BY <2>1, <3>1, <3>2
  <2> QED BY <1>4, <2>2, <2>3
<1>5. ASSUME NEW i \in DOMAIN runs', runs'[i].status = "ACTIVE", runs'[i].campaign # 0
      PROVE  profile'.bonus >= campaigns'[runs'[i].campaign].carry.bonus
  <2>1. CASE i \in DOMAIN runs /\ runs'[i] = runs[i]
    <3>1. Active(i) /\ runs[i].campaign \in DOMAIN campaigns
      BY <1>5, <2>1, CampaignsAre DEF Active
    <3>2. campaigns'[runs[i].campaign].carry = campaigns[runs[i].campaign].carry
      BY <2>1, <3>1, CarryKept DEF Shut, Active
    <3> QED BY <1>2, <1>5, <2>1, <3>1, <3>2 DEF Profiled
  <2>2. ASSUME NEW q \in Requests, InsertRun(q), UNCHANGED setting, i = Len(runs) + 1
        PROVE  profile'.bonus >= campaigns'[runs'[i].campaign].carry.bonus
    BY <1>3, <1>5, <2>2
  <2> QED BY <1>5, <2>1, <2>2, OpenBefore
<1>6. ASSUME NEW r \in Requests, req'[r].pc = "insert"
      PROVE  profile' = StatsOf(req'[r].carry, req'[r].who)
  <2>1. CASE req'[r] = req[r]
    BY <1>6, <2>1, ProfileKept DEF Profiled
  <2>2. CASE req'[r] # req[r]
    BY <1>6, <2>2, RequestMoves DEF Moves
  <2> QED BY <2>1, <2>2
<1>7. ASSUME NEW c \in DOMAIN campaigns', campaigns'[c].carry.done # {}
      PROVE  campaigns'[c].carry.stats.hero = campaigns'[c].carry.who.hero
  <2>1. CASE c \in DOMAIN campaigns /\ campaigns'[c].carry = campaigns[c].carry
    BY <1>7, <2>1 DEF Profiled
  <2>2. CASE campaigns'[c].carry = NoCarry
    BY <1>7, <2>2 DEF NoCarry
  <2>3. ASSUME NEW i \in DOMAIN runs, ending[i].pc = "write", campaigns'[c].carry = Merged(i)
        PROVE  campaigns'[c].carry.stats.hero = campaigns'[c].carry.who.hero
    <3>1. Merged(i).who.hero = runs[i].who.hero /\ Merged(i).stats = ending[i].stats
      BY <2>3, MergedHero, MergedIs DEF Plays
    <3>2. ending[i].stats = profile /\ profile.hero = runs[i].who.hero
      BY <2>3 DEF Profiled, Merging
    <3> QED BY <2>3, <3>1, <3>2
  <2> QED BY <2>1, <2>2, <2>3, CarryMoves
<1>8. ASSUME NEW i \in DOMAIN runs', ending'[i].pc = "write"
      PROVE  ending'[i].stats = profile'
  <2>1. CASE i \in DOMAIN runs /\ ending[i].pc = "write" /\ ending'[i].stats = ending[i].stats
    BY <1>2, <2>1 DEF Profiled, Merging
  <2> QED BY <1>8, <2>1, StatsMove
<1> QED BY <1>4, <1>5, <1>6, <1>7, <1>8 DEF Profiled, Active

(* The stats are those of the hero who plays, for ever.                    *)
LEMMA ProfiledHolds == Spec => []Profiled
<1>1. Init => Profiled
  <2> SUFFICES ASSUME Init PROVE Profiled
    OBVIOUS
  <2>1. DOMAIN runs = {} /\ DOMAIN campaigns = {} /\ \A r \in Requests : req[r].pc = "idle"
    BY IdleIs DEF Init
  <2> QED BY <2>1 DEF Profiled
<1> QED BY <1>1, ProfiledStep, OneGameHolds, HeroicHolds, EarnedHolds, FreshHolds, OneOpenHolds,
           WorkingHolds, AloneHolds, ShapeHolds, PTL DEF Spec

(* One hero, with one name if it has one, makes the whole journey whatever *)
(* the later requests ask for, with the own stats if nothing else is       *)
(* played, whatever crashes and however games follow each other.           *)
THEOREM OneHeroHolds == Spec => []OneHero
<1>1. Shape /\ Heroic /\ Profiled => OneHero
  <2> SUFFICES ASSUME Shape, Heroic, Profiled, setting.careful PROVE OneHero
    BY DEF OneHero
  <2>1. 0 \notin DOMAIN campaigns
    BY CampaignsAre
  <2>2. ASSUME NEW c \in DOMAIN campaigns
        PROVE  /\ \A d \in campaigns[c].carry.done : Plays(d.run, campaigns[c].carry)
               /\ campaigns[c].carry.done # {} =>
                    \A i \in ActiveIn(c) : Plays(i, campaigns[c].carry)
    BY <2>1, <2>2 DEF Heroic, ActiveIn, RunsOf
  <2>3. ASSUME setting.single, NEW i \in DOMAIN runs, Active(i)
        PROVE  /\ profile.hero = runs[i].who.hero
               /\ runs[i].campaign # 0 => profile.bonus >= campaigns[runs[i].campaign].carry.bonus
    BY <2>3 DEF Profiled
  <2> QED BY <2>2, <2>3 DEF OneHero
<1> QED BY <1>1, ShapeHolds, HeroicHolds, ProfiledHolds, PTL
=============================================================================
