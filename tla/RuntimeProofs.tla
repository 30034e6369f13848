--------------------------- MODULE RuntimeProofs ---------------------------
(***************************************************************************)
(* Proofs about services of MCRuntime, for any number of clients, requests,*)
(* handlers, notices, callers and children: what a goal allows, which      *)
(* request gets which reply, what stopping a session leaves behind, and    *)
(* that a session has one runtime.                                         *)
(***************************************************************************)
EXTENDS MCRuntime, FiniteSetTheorems, TLAPS

allVars == <<which, vars, runtimesVars, compactionVars, goalsVars, stopsVars, approvalsVars>>

-----------------------------------------------------------------------------
(* Goals.                                                                  *)

Row == [id : Nat, status : Goal!Statuses, budget : Nat, used : Nat]

\* The inductive invariant of Goals: a continuation is decided on for an active
\* goal, which takes the count back.
GoalInv ==
    /\ gGoal = NoGoal \/ gGoal \in Row
    /\ created \in Nat /\ extra \in {0, 1}
    /\ Goal!BudgetHolds
    /\ Goal!Active => extra = 0
    /\ tpc = "continue" => extra = 0

\* What a transaction may leave behind.
Sound(g) == g = NoGoal \/ (g \in Row /\ (g.status = "active" => ~Goal!Exhausted(g)))

LEMMA WriteKeeps ==
    ASSUME GoalInv, NEW g, Sound(g), Goal!Write(g), created' \in Nat,
           tpc' = "continue" => tpc = "continue"
    PROVE  GoalInv'
  <1>1. gGoal' = g /\ extra' = (IF g # NoGoal THEN IF g.status = "active" THEN 0 ELSE extra
                                ELSE extra)
    BY DEF Goal!Write
  <1>2. CASE g = NoGoal
    BY <1>1, <1>2 DEF GoalInv, Goal!BudgetHolds, Goal!Active
  <1>3. CASE g # NoGoal
    BY <1>1, <1>3 DEF GoalInv, Goal!BudgetHolds, Goal!Active, Goal!Exhausted, Sound
  <1> QED
    BY <1>2, <1>3

LEMMA GoalKeeps ==
    ASSUME GoalInv, UNCHANGED <<gGoal, extra>>, created' \in Nat,
           tpc' = "continue" => (tpc = "continue" \/ Goal!Active)
    PROVE  GoalInv'
  BY DEF GoalInv, Goal!BudgetHolds, Goal!Active, Goal!Exhausted

LEMMA CreateKeeps ==
    ASSUME GoalInv, NEW budget \in Nat, Goal!Create(budget),
           tpc' = "continue" => tpc = "continue"
    PROVE  GoalInv'
  <1>0. created \in Nat
    BY DEF GoalInv
  <1>1. CASE created < MaxGoals /\ (gGoal = NoGoal \/ gGoal.status = "complete")
    <2> DEFINE g == [id |-> created + 1, status |-> "active", budget |-> budget, used |-> 0]
    <2>1. Goal!Write(g) /\ created' = created + 1
      BY <1>1 DEF Goal!Create
    <2>2. Sound(g)
      BY <1>0 DEF Sound, Row, Goal!Statuses, Goal!Exhausted
    <2> HIDE DEF g
    <2> QED
      BY <1>0, <2>1, <2>2, WriteKeeps
  <1>2. CASE ~(created < MaxGoals /\ (gGoal = NoGoal \/ gGoal.status = "complete"))
    <2>1. UNCHANGED <<gGoal, created, extra>>
      BY <1>2 DEF Goal!Create
    <2> QED
      BY <1>0, <2>1, GoalKeeps
  <1> QED
    BY <1>1, <1>2

LEMMA UpdateKeeps ==
    ASSUME GoalInv, NEW to \in {""} \cup Goal!Statuses, NEW budget,
           budget \in Nat \/ budget = MaxBudget + 1,
           Goal!Update(to, budget), created' = created,
           tpc' = "continue" => tpc = "continue"
    PROVE  GoalInv'
  <1>0. created' \in Nat
    BY DEF GoalInv
  <1>1. CASE gGoal = NoGoal
    <2>1. UNCHANGED <<gGoal, extra>>
      BY <1>1 DEF Goal!Update
    <2> QED
      BY <1>0, <2>1, GoalKeeps
  <1>2. CASE gGoal # NoGoal
    <2>1. gGoal \in Row
      BY <1>2 DEF GoalInv
    <2> DEFINE s == IF to = "" THEN gGoal.status ELSE to
               b == IF budget = MaxBudget + 1 THEN gGoal.budget ELSE budget
               g == [gGoal EXCEPT !.status = s, !.budget = b]
               w == Goal!Settled(g, gGoal.status, to)
    <2>2. s \in Goal!Statuses /\ b \in Nat
      BY <2>1 DEF Row
    <2>4. Goal!Write(w)
      BY <1>2 DEF Goal!Update
    <2> HIDE DEF s, b
    <2>3. PICK half \in Row : half = [gGoal EXCEPT !.status = s]
      BY <2>1, <2>2 DEF Row
    <2>5. PICK h \in Row : h = g
      <3>1. [half EXCEPT !.budget = b] \in Row /\ [half EXCEPT !.budget = b] = g
        BY <2>2, <2>3 DEF Row
      <3> QED
        BY <3>1
    <2> HIDE DEF g
    <2>6. \A t \in Goal!Statuses : [h EXCEPT !.status = t] \in Row /\ [h EXCEPT !.status = t].status = t
      BY DEF Row
    <2>7. Sound(w)
      BY <2>5, <2>6 DEF Sound, Goal!Settled, Goal!Statuses
    <2> HIDE DEF w
    <2> QED
      BY <1>0, <2>4, <2>7, WriteKeeps
  <1> QED
    BY <1>1, <1>2

LEMMA ChargeKeeps ==
    ASSUME GoalInv, NEW tokens \in Nat, Goal!AccountUsage(tokens), created' = created,
           tpc' = "continue" => tpc = "continue"
    PROVE  GoalInv'
  <1>0. created' \in Nat
    BY DEF GoalInv
  <1>1. CASE ~Goal!Active
    <2>1. UNCHANGED <<gGoal, extra>>
      BY <1>1 DEF Goal!AccountUsage
    <2> QED
      BY <1>0, <2>1, GoalKeeps
  <1>2. CASE Goal!Active
    <2>1. gGoal \in Row
      BY <1>2 DEF GoalInv, Goal!Active
    <2> DEFINE g == [gGoal EXCEPT !.used = @ + tokens]
               w == [g EXCEPT !.status = IF Goal!Exhausted(g) THEN "budget_limited" ELSE @]
    <2>2. g = [id |-> gGoal.id, status |-> gGoal.status, budget |-> gGoal.budget,
               used |-> gGoal.used + tokens]
      BY <2>1 DEF Row
    <2>3. Goal!Write(w)
      BY <1>2 DEF Goal!AccountUsage
    <2>4. PICK h \in Row : h = g
      BY <2>1, <2>2 DEF Row
    <2> HIDE DEF g
    <2>5. w = [h EXCEPT !.status = IF Goal!Exhausted(h) THEN "budget_limited" ELSE h.status]
      BY <2>4
    <2> HIDE DEF w
    <2>6. ASSUME Goal!Exhausted(h) PROVE Sound(w)
      <3>1. w \in Row /\ w.status = "budget_limited"
        BY <2>5, <2>6 DEF Row, Goal!Statuses
      <3> QED
        BY <3>1 DEF Sound
    <2>7. ASSUME ~Goal!Exhausted(h) PROVE Sound(w)
      <3>1. w = h
        BY <2>5, <2>7 DEF Row
      <3> QED
        BY <3>1, <2>7 DEF Sound
    <2> QED
      BY <1>0, <2>3, <2>6, <2>7, WriteKeeps
  <1> QED
    BY <1>1, <1>2

LEMMA BudgetsAreNumbers == \A budget \in 0..(MaxBudget + 1) : budget \in Nat
  <1>1. MaxBudget \in Nat
    BY RuntimeAssumption
  <1> QED
    BY <1>1

LEMMA GoalStep ==
    ASSUME GoalInv, Goal!Next
    PROVE  GoalInv'
  <1> USE DEF Goal!turn
  <1>0. created \in Nat /\ (gGoal = NoGoal \/ gGoal \in Row)
    BY DEF GoalInv
  <1>1. ASSUME NEW c \in Users, Goal!PutGoal(c) PROVE GoalInv'
    BY <1>0, <1>1, GoalKeeps DEF Goal!PutGoal
  <1>2. ASSUME NEW c \in Users, Goal!PutCreates(c) PROVE GoalInv'
    <2>1. PICK budget \in 0..MaxBudget : Goal!Create(budget)
      BY <1>2 DEF Goal!PutCreates
    <2>2. budget \in Nat /\ tpc' = tpc
      BY <1>2 DEF Goal!PutCreates
    <2> QED
      BY <2>1, <2>2, CreateKeeps
  <1>3. ASSUME NEW c \in Users, Goal!PutUpdates(c) PROVE GoalInv'
    <2>1. PICK to \in {""} \cup Goal!Statuses, budget \in 0..(MaxBudget + 1) :
            Goal!Update(to, budget)
      BY <1>3 DEF Goal!PutUpdates
    <2>2. tpc' = tpc /\ created' = created
      BY <1>3 DEF Goal!PutUpdates
    <2> QED
      BY <2>1, <2>2, BudgetsAreNumbers, UpdateKeeps
  <1>4. ASSUME NEW c \in Users, Goal!DeleteGoal(c) PROVE GoalInv'
    <2>1. Goal!Write(NoGoal) /\ created' = created /\ tpc' = tpc
      BY <1>4 DEF Goal!DeleteGoal
    <2> QED
      BY <1>0, <2>1, WriteKeeps DEF Sound
  <1>5. CASE Goal!Prompt
    BY <1>0, <1>5, GoalKeeps DEF Goal!Prompt
  <1>6. CASE Goal!ProviderTurn
    <2>1. PICK tokens \in 0..1 : Goal!AccountUsage(tokens)
      BY <1>6 DEF Goal!ProviderTurn
    <2>2. tokens \in Nat /\ created' = created /\ tpc' # "continue"
      BY <1>6 DEF Goal!ProviderTurn
    <2> QED
      BY <2>1, <2>2, ChargeKeeps
  <1>7. CASE Goal!MarkUsageLimited
    <2>1. tpc' # "continue" /\ created' = created
      BY <1>7 DEF Goal!MarkUsageLimited
    <2>2. CASE Goal!Active
      <3>1. Goal!Write([gGoal EXCEPT !.status = "usage_limited"])
        BY <1>7, <2>2 DEF Goal!MarkUsageLimited
      <3>2. Sound([gGoal EXCEPT !.status = "usage_limited"])
        BY <1>0, <2>2 DEF Sound, Row, Goal!Statuses, Goal!Active
      <3> QED
        BY <1>0, <2>1, <3>1, <3>2, WriteKeeps
    <2>3. CASE ~Goal!Active
      <3>1. UNCHANGED <<gGoal, extra>>
        BY <1>7, <2>3 DEF Goal!MarkUsageLimited
      <3> QED
        BY <1>0, <2>1, <3>1, GoalKeeps
    <2> QED
      BY <2>2, <2>3
  <1>8. CASE Goal!TurnFails
    BY <1>0, <1>8, GoalKeeps DEF Goal!TurnFails
  <1>9. CASE Goal!BeforeTools
    BY <1>0, <1>9, GoalKeeps DEF Goal!BeforeTools
  <1>10. CASE Goal!AgentTool
    <2>1. tpc' = tpc
      BY <1>10 DEF Goal!AgentTool
    <2>2. ASSUME NEW budget \in 0..MaxBudget, Goal!Create(budget) PROVE GoalInv'
      <3>1. budget \in Nat
        OBVIOUS
      <3> QED
        BY <2>1, <2>2, <3>1, CreateKeeps
    <2>3. ASSUME NEW to \in {"complete", "blocked"}, Goal!Update(to, MaxBudget + 1),
                 UNCHANGED created
          PROVE  GoalInv'
      <3>1. to \in {""} \cup Goal!Statuses
        BY DEF Goal!Statuses
      <3> QED
        BY <2>1, <2>3, <3>1, UpdateKeeps
    <2> QED
      BY <1>10, <2>2, <2>3 DEF Goal!AgentTool
  <1>11. CASE Goal!AfterTools
    BY <1>0, <1>11, GoalKeeps DEF Goal!AfterTools
  <1>12. CASE Goal!ReadContinuation
    BY <1>0, <1>12, GoalKeeps DEF Goal!ReadContinuation
  <1>13. CASE Goal!Continue
    <2>1. /\ tpc = "continue" /\ tpc' = "model" /\ UNCHANGED <<gGoal, created>>
          /\ extra' = IF Goal!Active THEN 0 ELSE extra + 1
      BY <1>13 DEF Goal!Continue
    <2> QED
      BY <2>1 DEF GoalInv, Goal!BudgetHolds, Goal!Active, Goal!Exhausted
  <1> QED
    BY <1>1, <1>2, <1>3, <1>4, <1>5, <1>6, <1>7, <1>8, <1>9, <1>10, <1>11, <1>12, <1>13
    DEF Goal!Next

LEMMA GoalSteps ==
    ASSUME AllNext \/ UNCHANGED allVars
    PROVE  Goal!Next \/ UNCHANGED goalsVars
  BY DEF AllNext, allVars

\* GoalInv is an invariant of the services of MCRuntime.
THEOREM GoalInvariance == AllSpec => []GoalInv
  <1>1. AllInit => GoalInv
    BY DEF AllInit, Goal!Init, GoalInv, Goal!BudgetHolds, Goal!Active
  <1>2. GoalInv /\ [AllNext]_allVars => GoalInv'
    <2> SUFFICES ASSUME GoalInv, AllNext \/ UNCHANGED allVars PROVE GoalInv'
      BY DEF allVars
    <2>1. CASE UNCHANGED goalsVars
      BY <2>1 DEF goalsVars, GoalInv, Goal!BudgetHolds, Goal!Active, Goal!Exhausted
    <2> QED
      BY <2>1, GoalStep, GoalSteps
  <1> QED
    BY <1>1, <1>2, PTL DEF AllSpec, allVars

\* GoalRespected of MCRuntime: an active goal has budget left, and once it is not
\* active at most one more turn continues by itself (AccountUsage, Update,
\* prepareContinuation).
THEOREM GoalsAreRespected == AllSpec => []GoalRespected
  <1>1. GoalInv => GoalRespected
    BY DEF GoalInv, GoalRespected, Goal!GoalRespected, Goal!ContinuesOnce
  <1> QED
    BY <1>1, GoalInvariance, PTL
-----------------------------------------------------------------------------
(* Approvals.                                                              *)

Replies == {"allow", "deny"}
Places == {"idle", "asks", "takes", "error"} \cup Replies
Reads == [key : {"yes", "no", "halt"}, epoch : Nat, under : Approval!Requests \cup {NoReply}]

\* A reply is held by whoever took the request, then lies in its channel, and is
\* what the call returns; before and after nothing is under way.
Untouched(r) == sending[r] = NoReply /\ channel[r] = NoReply /\ told[r] = NoReply
Held(r) == sending[r] \in Replies /\ channel[r] = NoReply /\ told[r] = NoReply
Lies(r) == sending[r] = NoReply /\ channel[r] \in Replies /\ told[r] = channel[r]
ReplyHolds(r) ==
    \/ caller[r] = "idle" /\ r \notin aPending /\ Untouched(r)
    \/ caller[r] = "asks" /\ r \in aPending /\ Untouched(r)
    \/ caller[r] \in {"asks", "takes"} /\ r \notin aPending /\ (Held(r) \/ Lies(r))
    \/ caller[r] \in {"error"} \cup Replies /\ r \notin aPending
       /\ sending[r] = NoReply /\ channel[r] = NoReply
       /\ (told[r] # NoReply => caller[r] = told[r])

\* A question is given up in any case, and its reply may come to nobody.
ApprovalTypes ==
    /\ aPending \subseteq Approval!Requests
    /\ caller \in [Approval!Requests -> Places]
    /\ sending \in [Approval!Requests -> Replies \cup {NoReply}]
    /\ channel \in [Approval!Requests -> Replies \cup {NoReply}]
    /\ told \in [Approval!Requests -> Replies \cup {NoReply}]
    /\ modal \in Approval!Requests \cup {NoReply} /\ aEpoch \in Nat
    /\ pump = NoReply \/ pump \in Reads

\* The dialog a key was read under is the open one for as long as the epoch lasts.
PumpHolds ==
    pump # NoReply => pump.epoch <= aEpoch /\ (pump.epoch = aEpoch => pump.under = modal)

\* The inductive invariant of Approvals.
ApprovalInv ==
    /\ ApprovalTypes /\ PumpHolds /\ Approval!KeyMeantIt
    /\ \A r \in Permissions : ReplyHolds(r)

\* Steps of the brokers change one request at a time.
OthersStay(r) ==
    \A q \in Approval!Requests \ {r} :
        /\ caller'[q] = caller[q] /\ sending'[q] = sending[q] /\ channel'[q] = channel[q]
        /\ told'[q] = told[q] /\ (q \in aPending' <=> q \in aPending)

LEMMA RepliesFollow ==
    ASSUME ApprovalInv, NEW r \in Approval!Requests, OthersStay(r),
           r \in Permissions => ReplyHolds(r)'
    PROVE  \A q \in Permissions : ReplyHolds(q)'
  <1> SUFFICES ASSUME NEW q \in Permissions, q # r PROVE ReplyHolds(q)'
    OBVIOUS
  <1>1. q \in Approval!Requests \ {r}
    BY DEF Approval!Requests
  <1>2. ReplyHolds(q)
    BY DEF ApprovalInv
  <1>3. /\ caller'[q] = caller[q] /\ sending'[q] = sending[q] /\ channel'[q] = channel[q]
        /\ told'[q] = told[q] /\ (q \in aPending' <=> q \in aPending)
    BY <1>1 DEF OthersStay
  <1> QED
    BY <1>2, <1>3 DEF ReplyHolds, Untouched, Held, Lies

LEMMA ChatRests ==
    ASSUME ApprovalInv, UNCHANGED Approval!chat
    PROVE  PumpHolds' /\ Approval!KeyMeantIt'
  BY DEF ApprovalInv, PumpHolds, Approval!KeyMeantIt, Approval!chat

LEMMA BrokerStep ==
    ASSUME ApprovalInv, NEW r \in Approval!Requests,
           \/ Approval!Ask(r) \/ Approval!Ends(r) \/ Approval!Receive(r)
           \/ Approval!GiveUp(r) \/ Approval!Send(r) \/ Approval!ClientReplies(r)
    PROVE  ApprovalInv'
  <1>0. /\ ApprovalTypes /\ (r \in Permissions => ReplyHolds(r))
        /\ NoReply \notin Replies
    BY RuntimeAssumption DEF ApprovalInv, Replies
  <1>1. UNCHANGED Approval!chat
    BY DEF Approval!Ask, Approval!Ends, Approval!Receive, Approval!GiveUp, Approval!Send,
       Approval!ClientReplies
  <1>2. UNCHANGED <<modal, aEpoch, pump>>
    BY <1>1 DEF Approval!chat
  <1> USE DEF ReplyHolds, Untouched, Held, Lies, Replies, Places
  <1>3. CASE Approval!Ask(r)
    <2>1. /\ caller' = [caller EXCEPT ![r] = "asks"] /\ aPending' = aPending \cup {r}
          /\ UNCHANGED <<sending, channel, told>> /\ caller[r] = "idle"
      BY <1>3 DEF Approval!Ask
    <2>2. ApprovalTypes'
      BY <1>0, <1>2, <2>1 DEF ApprovalTypes
    <2>3. OthersStay(r)
      BY <1>0, <2>1 DEF ApprovalTypes, OthersStay
    <2>4. caller'[r] = "asks" /\ r \in aPending'
      BY <1>0, <2>1 DEF ApprovalTypes
    <2>5. r \in Permissions => ReplyHolds(r)'
      BY <1>0, <2>1, <2>4
    <2> QED
      BY <1>1, <2>2, <2>3, <2>5, RepliesFollow, ChatRests DEF ApprovalInv
  <1>4. CASE Approval!Ends(r)
    <2>1. UNCHANGED <<aPending, caller, sending, channel, told>>
      BY <1>4 DEF Approval!Ends
    <2>2. ApprovalTypes'
      BY <1>0, <1>2, <2>1 DEF ApprovalTypes
    <2>3. OthersStay(r)
      BY <2>1 DEF OthersStay
    <2>5. r \in Permissions => ReplyHolds(r)'
      BY <1>0, <2>1
    <2> QED
      BY <1>1, <2>2, <2>3, <2>5, RepliesFollow, ChatRests DEF ApprovalInv
  <1>5. CASE Approval!Receive(r)
    <2>1. /\ caller' = [caller EXCEPT ![r] = channel[r]]
          /\ channel' = [channel EXCEPT ![r] = NoReply]
          /\ UNCHANGED <<aPending, sending, told>>
          /\ caller[r] \in {"asks", "takes"} /\ channel[r] # NoReply
      BY <1>5 DEF Approval!Receive
    <2>2. channel[r] \in Replies
      BY <1>0, <2>1 DEF ApprovalTypes
    <2>3. ApprovalTypes'
      BY <1>0, <1>2, <2>1, <2>2 DEF ApprovalTypes
    <2>4. OthersStay(r)
      BY <1>0, <2>1 DEF ApprovalTypes, OthersStay
    <2>5. caller'[r] = channel[r] /\ channel'[r] = NoReply
      BY <1>0, <2>1 DEF ApprovalTypes
    <2>6. r \in Permissions => ReplyHolds(r)'
      BY <1>0, <2>1, <2>2, <2>5
    <2> QED
      BY <1>1, <2>3, <2>4, <2>6, RepliesFollow, ChatRests DEF ApprovalInv
  <1>6. CASE Approval!GiveUp(r)
    <2> DEFINE end == IF r \in Permissions /\ r \notin aPending THEN "takes" ELSE "error"
    <2>1. /\ caller' = [caller EXCEPT ![r] = end] /\ aPending' = aPending \ {r}
          /\ UNCHANGED <<sending, channel, told>> /\ caller[r] = "asks"
      BY <1>6 DEF Approval!GiveUp
    <2>2. ApprovalTypes'
      BY <1>0, <1>2, <2>1 DEF ApprovalTypes
    <2>3. OthersStay(r)
      BY <1>0, <2>1 DEF ApprovalTypes, OthersStay
    <2>4. caller'[r] = end /\ r \notin aPending'
      BY <1>0, <2>1 DEF ApprovalTypes
    <2>5. r \in Permissions => ReplyHolds(r)'
      BY <1>0, <2>1, <2>4
    <2> QED
      BY <1>1, <2>2, <2>3, <2>5, RepliesFollow, ChatRests DEF ApprovalInv
  <1>7. CASE Approval!Send(r)
    <2>1. /\ channel' = [channel EXCEPT ![r] = sending[r]]
          /\ told' = [told EXCEPT ![r] = sending[r]]
          /\ sending' = [sending EXCEPT ![r] = NoReply]
          /\ UNCHANGED <<aPending, caller>> /\ sending[r] # NoReply
      BY <1>7 DEF Approval!Send
    <2>2. ApprovalTypes'
      BY <1>0, <1>2, <2>1 DEF ApprovalTypes
    <2>3. OthersStay(r)
      BY <1>0, <2>1 DEF ApprovalTypes, OthersStay
    <2>4. channel'[r] = sending[r] /\ told'[r] = sending[r] /\ sending'[r] = NoReply
      BY <1>0, <2>1 DEF ApprovalTypes
    <2>5. r \in Permissions => ReplyHolds(r)'
      BY <1>0, <2>1, <2>4
    <2> QED
      BY <1>1, <2>2, <2>3, <2>5, RepliesFollow, ChatRests DEF ApprovalInv
  <1>8. CASE Approval!ClientReplies(r)
    <2>1. PICK reply \in Replies : Approval!TakeFor(r, reply)
      BY <1>8 DEF Approval!ClientReplies
    <2>2. UNCHANGED <<caller, channel, told>>
      BY <1>8 DEF Approval!ClientReplies
    <2>3. CASE r \in aPending
      <3>1. aPending' = aPending \ {r} /\ sending' = [sending EXCEPT ![r] = reply]
        BY <2>1, <2>3 DEF Approval!TakeFor
      <3>2. ApprovalTypes'
        BY <1>0, <1>2, <2>2, <3>1 DEF ApprovalTypes
      <3>3. OthersStay(r)
        BY <1>0, <2>2, <3>1 DEF ApprovalTypes, OthersStay
      <3>4. sending'[r] = reply /\ r \notin aPending'
        BY <1>0, <3>1 DEF ApprovalTypes
      <3>5. r \in Permissions => ReplyHolds(r)'
        BY <1>0, <2>2, <2>3, <3>4
      <3> QED
        BY <1>1, <3>2, <3>3, <3>5, RepliesFollow, ChatRests DEF ApprovalInv
    <2>4. CASE r \notin aPending
      <3>1. UNCHANGED <<aPending, sending>>
        BY <2>1, <2>4 DEF Approval!TakeFor
      <3>2. ApprovalTypes'
        BY <1>0, <1>2, <2>2, <3>1 DEF ApprovalTypes
      <3>3. OthersStay(r)
        BY <2>2, <3>1 DEF OthersStay
      <3>5. r \in Permissions => ReplyHolds(r)'
        BY <1>0, <2>2, <3>1
      <3> QED
        BY <1>1, <3>2, <3>3, <3>5, RepliesFollow, ChatRests DEF ApprovalInv
    <2> QED
      BY <2>3, <2>4
  <1> QED
    BY <1>3, <1>4, <1>5, <1>6, <1>7, <1>8

\* What happens to the requests when the chat takes one of them, or none.
LEMMA TakingKeeps ==
    ASSUME ApprovalInv, NEW r \in Approval!Requests \cup {NoReply}, NEW reply \in Replies,
           Approval!TakeFor(r, reply), UNCHANGED <<caller, channel, told>>
    PROVE  /\ \A q \in Permissions : ReplyHolds(q)'
           /\ aPending' \subseteq Approval!Requests
           /\ sending' \in [Approval!Requests -> Replies \cup {NoReply}]
  <1>0. ApprovalTypes
    BY DEF ApprovalInv
  <1>1. CASE r \in aPending
    <2>1. aPending' = aPending \ {r} /\ sending' = [sending EXCEPT ![r] = reply]
      BY <1>1 DEF Approval!TakeFor
    <2>2. r \in Approval!Requests
      BY <1>0, <1>1 DEF ApprovalTypes
    <2>3. OthersStay(r)
      BY <1>0, <2>1, <2>2 DEF ApprovalTypes, OthersStay
    <2>4. sending'[r] = reply /\ r \notin aPending'
      BY <1>0, <2>1, <2>2 DEF ApprovalTypes
    <2>5. r \in Permissions => ReplyHolds(r)'
      <3> SUFFICES ASSUME r \in Permissions PROVE ReplyHolds(r)'
        OBVIOUS
      <3>1. ReplyHolds(r)
        BY DEF ApprovalInv
      <3> QED
        BY <1>1, <2>4, <3>1, RuntimeAssumption DEF ReplyHolds, Untouched, Held, Lies, Replies
    <2>6. \A q \in Permissions : ReplyHolds(q)'
      BY <2>2, <2>3, <2>5, RepliesFollow
    <2> QED
      BY <1>0, <2>1, <2>6 DEF ApprovalTypes
  <1>2. CASE r \notin aPending
    <2>1. UNCHANGED <<aPending, sending>>
      BY <1>2 DEF Approval!TakeFor
    <2> QED
      BY <1>0, <2>1 DEF ApprovalInv, ApprovalTypes, ReplyHolds, Untouched, Held, Lies
  <1> QED
    BY <1>1, <1>2

LEMMA RequestsRest ==
    ASSUME ApprovalInv, UNCHANGED <<aPending, caller, sending, channel, told>>
    PROVE  \A q \in Permissions : ReplyHolds(q)'
  BY DEF ApprovalInv, ReplyHolds, Untouched, Held, Lies

\* The dialog is closed and its request gets the reply.
LEMMA ClosingKeeps ==
    ASSUME ApprovalInv, NEW reply \in Replies, Approval!CloseModal(reply),
           pump.key = "halt" \/ pump.under = modal, pump' = NoReply,
           UNCHANGED <<caller, channel, told>>
    PROVE  ApprovalInv'
  <1>0. ApprovalTypes
    BY DEF ApprovalInv
  <1>1. /\ Approval!TakeFor(modal, reply) /\ modal' = NoReply /\ aEpoch' = aEpoch + 1
        /\ answer' = [under |-> pump.under, key |-> pump.key, request |-> modal]
    BY DEF Approval!CloseModal
  <1>2. modal \in Approval!Requests \cup {NoReply}
    BY <1>0 DEF ApprovalTypes
  <1>3. /\ \A q \in Permissions : ReplyHolds(q)'
        /\ aPending' \subseteq Approval!Requests
        /\ sending' \in [Approval!Requests -> Replies \cup {NoReply}]
    BY <1>1, <1>2, TakingKeeps
  <1>4. ApprovalTypes'
    BY <1>0, <1>1, <1>3 DEF ApprovalTypes
  <1>5. PumpHolds'
    BY DEF PumpHolds
  <1>6. Approval!KeyMeantIt'
    BY <1>1 DEF Approval!KeyMeantIt
  <1> QED
    BY <1>3, <1>4, <1>5, <1>6 DEF ApprovalInv

LEMMA ChatStep ==
    ASSUME ApprovalInv,
           \/ Approval!DetectModal \/ Approval!ReadKey \/ Approval!Halt
           \/ Approval!HandleKey \/ Approval!TurnOver
    PROVE  ApprovalInv'
  <1> USE DEF Approval!broker
  <1>0. ApprovalTypes /\ PumpHolds /\ Approval!KeyMeantIt
    BY DEF ApprovalInv
  <1>1. CASE Approval!DetectModal
    <2>1. /\ modal' \in aPending \cup {NoReply} /\ aEpoch' = aEpoch + 1
          /\ UNCHANGED <<aPending, caller, sending, channel, told, pump, answer>>
      BY <1>1 DEF Approval!DetectModal
    <2>2. ApprovalTypes'
      BY <1>0, <2>1 DEF ApprovalTypes
    <2>3. PumpHolds'
      BY <1>0, <2>1 DEF PumpHolds, ApprovalTypes, Reads
    <2>4. Approval!KeyMeantIt'
      BY <1>0, <2>1 DEF Approval!KeyMeantIt
    <2> QED
      BY <2>1, <2>2, <2>3, <2>4, RequestsRest DEF ApprovalInv
  <1>2. CASE Approval!ReadKey
    <2>1. UNCHANGED <<aPending, caller, sending, channel, told, modal, aEpoch, answer>>
      BY <1>2 DEF Approval!ReadKey
    <2>2. PICK key \in {"yes", "no", "halt"} :
            pump' = [key |-> key, epoch |-> aEpoch, under |-> modal]
      BY <1>2 DEF Approval!ReadKey
    <2>3. ApprovalTypes'
      BY <1>0, <2>1, <2>2 DEF ApprovalTypes, Reads
    <2>4. PumpHolds'
      BY <1>0, <2>1, <2>2 DEF PumpHolds, ApprovalTypes
    <2>5. Approval!KeyMeantIt'
      BY <1>0, <2>1 DEF Approval!KeyMeantIt
    <2> QED
      BY <2>1, <2>3, <2>4, <2>5, RequestsRest DEF ApprovalInv
  <1>3. ASSUME UNCHANGED <<aPending, caller, sending, channel, told, modal, aEpoch, answer>>,
               pump' = NoReply \/ pump' = pump
        PROVE  ApprovalInv'
    <2>1. ApprovalTypes'
      BY <1>0, <1>3 DEF ApprovalTypes
    <2>2. PumpHolds'
      BY <1>0, <1>3 DEF PumpHolds
    <2>3. Approval!KeyMeantIt'
      BY <1>0, <1>3 DEF Approval!KeyMeantIt
    <2> QED
      BY <1>3, <2>1, <2>2, <2>3, RequestsRest DEF ApprovalInv
  <1>4. CASE Approval!Halt
    <2>1. pump.key = "halt" /\ pump' = NoReply /\ UNCHANGED <<caller, channel, told>>
      BY <1>4 DEF Approval!Halt
    <2>2. CASE modal = NoReply
      BY <1>3, <1>4, <2>1, <2>2 DEF Approval!Halt, Approval!NoAnswer
    <2>3. CASE modal # NoReply
      <3>1. Approval!CloseModal("deny") /\ "deny" \in Replies
        BY <1>4, <2>3 DEF Approval!Halt, Replies
      <3> QED
        BY <2>1, <3>1, ClosingKeeps
    <2> QED
      BY <2>2, <2>3
  <1>5. CASE Approval!HandleKey
    <2>1. pump # NoReply /\ pump' = NoReply /\ UNCHANGED <<caller, channel, told>>
      BY <1>5 DEF Approval!HandleKey
    <2>2. CASE Approval!ForDialog
      <3>1. PICK reply \in Replies : Approval!CloseModal(reply)
        BY <1>5, <2>2 DEF Approval!HandleKey, Replies
      <3>2. pump.under = modal
        BY <1>0, <2>1, <2>2 DEF PumpHolds, Approval!ForDialog
      <3> QED
        BY <2>1, <3>1, <3>2, ClosingKeeps
    <2>3. CASE ~Approval!ForDialog
      BY <1>3, <1>5, <2>1, <2>3 DEF Approval!HandleKey, Approval!NoAnswer
    <2> QED
      BY <2>2, <2>3
  <1>6. CASE Approval!TurnOver
    BY <1>3, <1>6 DEF Approval!TurnOver
  <1> QED
    BY <1>1, <1>2, <1>4, <1>5, <1>6

LEMMA ApprovalSteps ==
    ASSUME AllNext \/ UNCHANGED allVars
    PROVE  Approval!Next \/ UNCHANGED approvalsVars
  BY DEF AllNext, allVars

\* ApprovalInv is an invariant of the services of MCRuntime.
THEOREM ApprovalInvariance == AllSpec => []ApprovalInv
  <1>1. AllInit => ApprovalInv
    <2> SUFFICES ASSUME Approval!Init PROVE ApprovalInv
      BY DEF AllInit
    <2>1. ApprovalTypes
      BY DEF Approval!Init, ApprovalTypes, Places
    <2>2. \A r \in Permissions : ReplyHolds(r)
      BY DEF Approval!Init, ReplyHolds, Untouched, Approval!Requests
    <2> QED
      BY <2>1, <2>2 DEF Approval!Init, ApprovalInv, PumpHolds, Approval!KeyMeantIt
  <1>2. ApprovalInv /\ [AllNext]_allVars => ApprovalInv'
    <2> SUFFICES ASSUME ApprovalInv, AllNext \/ UNCHANGED allVars PROVE ApprovalInv'
      BY DEF allVars
    <2>1. CASE UNCHANGED approvalsVars
      <3> USE <2>1 DEF approvalsVars
      <3>1. ApprovalTypes'
        BY DEF ApprovalInv, ApprovalTypes
      <3>2. PumpHolds' /\ Approval!KeyMeantIt'
        BY DEF ApprovalInv, PumpHolds, Approval!KeyMeantIt
      <3>3. UNCHANGED <<aPending, caller, sending, channel, told>>
        OBVIOUS
      <3> QED
        BY <3>1, <3>2, <3>3, RequestsRest DEF ApprovalInv
    <2>2. CASE Approval!Next
      BY <2>2, BrokerStep, ChatStep DEF Approval!Next
    <2> QED
      BY <2>1, <2>2, ApprovalSteps
  <1> QED
    BY <1>1, <1>2, PTL DEF AllSpec, allVars

\* RepliesAreMeant of MCRuntime: a permission reply that was reported as accepted is
\* what the tool's call returns, and a request is answered by a key only if the key was
\* read under its dialog (Broker.reply, Authorize, enhancedInputMode).
THEOREM RepliesReach == AllSpec => []RepliesAreMeant
  <1>1. ApprovalInv => RepliesAreMeant
    <2> SUFFICES ASSUME ApprovalInv PROVE Approval!AcceptedIsDelivered
      BY DEF ApprovalInv, RepliesAreMeant, Approval!RepliesAreMeant
    <2> SUFFICES ASSUME NEW r \in Permissions, told[r] # NoReply, Approval!Returned(r)
                 PROVE  caller[r] = told[r]
      BY DEF Approval!AcceptedIsDelivered
    <2> QED
      BY DEF ApprovalInv, ReplyHolds, Approval!Returned
  <1> QED
    BY <1>1, ApprovalInvariance, PTL
-----------------------------------------------------------------------------
(* Interruptions.                                                          *)

Steps == {"called", "notices", "waiting", "turn", "stopping", "cleanup", "check", "wake",
          "erase", "resume", "done"}

StopTypes ==
    /\ turn \in {"none", "active", "stopping"} /\ wake \in BOOLEAN /\ pending \in Nat
    /\ gone \in {"no", "shut", "erased"} /\ iClosed \in BOOLEAN
    /\ notice \in [Notices -> {"idle", "active", "sent", "over"}]
    /\ paused \in Int /\ pc \in [Stops!Handlers -> Steps]
    /\ waits \in [Stops!Handlers -> SUBSET Notices]
    /\ owns \subseteq Stops!Handlers /\ failed \subseteq Stops!Handlers

\* The handlers whose pause is counted: they wait for the notices, or have to take the
\* pause back.  Whoever gave up leaves the count raised, so that it is a bound only.
Suspends(h) == pc[h] = "waiting" \/ (h \in owns /\ pc[h] # "done")
Suspending == {h \in Ints \cup Dels : Suspends(h)}
PausesCounted == Cardinality(Suspending) <= paused

\* Whoever waits has found every notice that runs, and an owner has seen the last one
\* end; none begins, because the notifier is closed or the session paused.
Quiet ==
    \A n \in Notices : Stops!Running(n) =>
        /\ \A h \in Stops!Handlers : pc[h] = "waiting" => n \in waits[h]
        /\ \A h \in owns : pc[h] = "done"

\* Where the kinds of handlers may be, and what an end of the application has done.
KindsHold ==
    \A h \in Stops!Handlers :
        /\ pc[h] = "erase" => h \in Dels
        /\ pc[h] = "check" \/ pc[h] = "wake" => h \in Ints
        /\ h \in owns => pc[h] # "called"
        /\ h \in Quits /\ pc[h] # "called" => iClosed
        /\ h \in Quits /\ pc[h] \in {"cleanup", "stopping", "resume", "done"} => gone # "no"

\* What is pending has a turn, or a handler that looks after it, or nobody is to.
Excused == gone # "no" \/ Stops!Abandoned \/ \E h \in Stops!Handlers : Stops!Handing(h)
Minded ==
    turn \in {"none", "stopping"} /\ pending > 0 => Excused \/ (turn = "stopping" /\ wake)

\* The inductive invariant of Interruptions.
StopInv == StopTypes /\ PausesCounted /\ Quiet /\ KindsHold /\ Minded

\* The steps of one handler.
Handles(h) ==
    \/ Stops!SuspendProcesses(h) \/ Stops!SuspendSession(h) \/ Stops!Suspended(h)
    \/ Stops!SuspendFails(h) \/ (\E n \in Notices : Stops!Cancel(h, n))
    \/ Stops!CloseNotifier(h) \/ Stops!CloseFails(h) \/ Stops!StopTurn(h)
    \/ Stops!StopFails(h) \/ Stops!Cleanup(h) \/ Stops!Check(h) \/ Stops!Wake(h)
    \/ Stops!Erase(h) \/ Stops!ResumeSession(h)

\* The steps of the session and of the notices.
Moves == Stops!SubmitPrompt \/ Stops!Promote \/ Stops!EndTurn \/ Stops!FinishStopped
Notes(n) == Stops!Notify(n) \/ Stops!Deliver(n) \/ Stops!Delivered(n)
\* What a step of one handler does to the notices' invariant: the others stay, and the
\* handler that begins to wait sees all that run.
HandlerShape(h) ==
    /\ notice' = notice /\ pc[h] # "done"
    /\ \A g \in Stops!Handlers \ {h} :
        pc'[g] = pc[g] /\ waits'[g] = waits[g] /\ (g \in owns' <=> g \in owns)
    /\ pc'[h] = "waiting" => \/ pc[h] = "waiting" /\ waits'[h] = waits[h]
                             \/ waits'[h] = {n \in Notices : Stops!Running(n)}
    /\ h \in owns' => \/ h \in owns
                      \/ pc[h] = "waiting" /\ \A n \in waits[h] : ~Stops!Running(n)

LEMMA HandlerStep ==
    ASSUME StopTypes, NEW h \in Stops!Handlers, Handles(h)
    PROVE  StopTypes' /\ HandlerShape(h)
  <1> USE DEF Stops!Go, Stops!session, Stops!notifier, Stops!handlers
  <1>1. CASE Stops!SuspendProcesses(h)
    <2>1. PICK p \in Steps : pc' = [pc EXCEPT ![h] = p] /\ p # "waiting"
      BY <1>1 DEF Stops!SuspendProcesses, Steps
    <2>2. /\ UNCHANGED <<turn, wake, pending, gone, iClosed, notice, paused, waits, owns>>
          /\ failed' \subseteq Stops!Handlers /\ pc[h] = "called"
      BY <1>1 DEF Stops!SuspendProcesses, StopTypes
    <2> QED
      BY <2>1, <2>2 DEF StopTypes, HandlerShape
  <1>2. CASE Stops!SuspendSession(h)
    <2>1. /\ pc' = [pc EXCEPT ![h] = "waiting"] /\ paused' = paused + 1 /\ pc[h] = "notices"
          /\ waits' = [waits EXCEPT ![h] = {n \in Notices : Stops!Running(n)}]
          /\ UNCHANGED <<turn, wake, pending, gone, iClosed, notice, owns, failed>>
      BY <1>2 DEF Stops!SuspendSession
    <2> QED
      BY <2>1 DEF StopTypes, HandlerShape, Steps
  <1>3. CASE Stops!Suspended(h)
    <2>1. /\ pc' = [pc EXCEPT ![h] = "turn"] /\ owns' = owns \cup {h} /\ pc[h] = "waiting"
          /\ \A n \in waits[h] : ~Stops!Running(n)
          /\ UNCHANGED <<turn, wake, pending, gone, iClosed, notice, paused, waits, failed>>
      BY <1>3 DEF Stops!Suspended
    <2> QED
      BY <2>1 DEF StopTypes, HandlerShape, Steps
  <1>4. CASE Stops!SuspendFails(h) \/ Stops!CloseFails(h) \/ Stops!StopFails(h)
    <2>1. /\ \E p \in {"turn", "cleanup"} : pc' = [pc EXCEPT ![h] = p]
          /\ failed' = failed \cup {h} /\ pc[h] \in {"waiting", "stopping"}
          /\ UNCHANGED <<turn, wake, pending, gone, iClosed, notice, paused, waits, owns>>
      BY <1>4 DEF Stops!SuspendFails, Stops!CloseFails, Stops!StopFails
    <2> QED
      BY <2>1 DEF StopTypes, HandlerShape, Steps
  <1>5. CASE \E n \in Notices : Stops!Cancel(h, n)
    <2>1. /\ UNCHANGED <<turn, wake, pending, gone, iClosed, notice, paused, waits, owns,
                         failed, pc>>
          /\ pc[h] = "waiting"
      BY <1>5 DEF Stops!Cancel
    <2> QED
      BY <2>1 DEF StopTypes, HandlerShape
  <1>6. CASE Stops!CloseNotifier(h)
    <2>1. /\ pc' = [pc EXCEPT ![h] = "waiting"] /\ iClosed' = TRUE /\ pc[h] = "called"
          /\ waits' = [waits EXCEPT ![h] = {n \in Notices : Stops!Running(n)}]
          /\ UNCHANGED <<turn, wake, pending, gone, notice, paused, owns, failed>>
      BY <1>6 DEF Stops!CloseNotifier
    <2> QED
      BY <2>1 DEF StopTypes, HandlerShape, Steps
  <1>7. CASE Stops!StopTurn(h)
    <2>1. /\ \E p \in {"cleanup", "stopping"} : pc' = [pc EXCEPT ![h] = p]
          /\ gone' \in {gone, "shut"} /\ turn' \in {turn, "stopping"} /\ wake' \in {wake, FALSE}
          /\ UNCHANGED <<pending, iClosed, notice, paused, waits, owns, failed>>
          /\ pc[h] = "turn"
      BY <1>7 DEF Stops!StopTurn
    <2> QED
      BY <2>1 DEF StopTypes, HandlerShape, Steps
  <1>8. CASE Stops!Cleanup(h) \/ Stops!Check(h)
    <2>1. /\ \E p \in {"check", "erase", "resume", "wake"} : pc' = [pc EXCEPT ![h] = p]
          /\ UNCHANGED <<turn, wake, pending, gone, iClosed, notice, paused, waits, owns, failed>>
          /\ pc[h] \in {"cleanup", "check"}
      BY <1>8 DEF Stops!Cleanup, Stops!Check
    <2> QED
      BY <2>1 DEF StopTypes, HandlerShape, Steps
  <1>9. CASE Stops!Wake(h)
    <2>1. /\ pc' = [pc EXCEPT ![h] = "resume"] /\ pc[h] = "wake"
          /\ turn' \in {turn, "active"} /\ wake' \in {wake, TRUE}
          /\ UNCHANGED <<pending, gone, iClosed, notice, paused, waits, owns, failed>>
      BY <1>9 DEF Stops!Wake
    <2> QED
      BY <2>1 DEF StopTypes, HandlerShape, Steps
  <1>10. CASE Stops!Erase(h)
    <2>1. /\ \E p \in {"erase", "resume"} : pc' = [pc EXCEPT ![h] = p]
          /\ turn' \in {turn, "stopping"} /\ wake' \in {wake, FALSE}
          /\ gone' \in {gone, "erased"} /\ failed' \in {failed, failed \cup {h}}
          /\ UNCHANGED <<pending, iClosed, notice, paused, waits, owns>> /\ pc[h] = "erase"
      BY <1>10 DEF Stops!Erase, StopTypes
    <2> QED
      BY <2>1 DEF StopTypes, HandlerShape, Steps
  <1>11. CASE Stops!ResumeSession(h)
    <2>1. /\ pc' = [pc EXCEPT ![h] = "done"] /\ paused' \in {paused, paused - 1}
          /\ pc[h] = "resume"
          /\ UNCHANGED <<turn, wake, pending, gone, iClosed, notice, waits, owns, failed>>
      BY <1>11 DEF Stops!ResumeSession
    <2> QED
      BY <2>1 DEF StopTypes, HandlerShape, Steps
  <1> QED
    BY <1>1, <1>2, <1>3, <1>4, <1>5, <1>6, <1>7, <1>8, <1>9, <1>10, <1>11 DEF Handles
LEMMA SuspendingIsFinite ==
    /\ IsFiniteSet(Suspending) /\ Cardinality(Suspending) \in Nat
    /\ \A h : IsFiniteSet(Suspending \cup {h}) /\ IsFiniteSet(Suspending \ {h})
  <1>1. IsFiniteSet(Ints \cup Dels)
    BY RuntimeAssumption, FS_Union
  <1>2. IsFiniteSet(Suspending)
    BY <1>1, FS_Subset DEF Suspending
  <1> QED
    BY <1>2, FS_CardinalityType, FS_AddElement, FS_RemoveElement

\* A pause that counts shows: the session is paused or the notifier closed.
LEMMA PauseShows ==
    ASSUME StopInv, NEW h \in Stops!Handlers, Suspends(h)
    PROVE  iClosed \/ paused > 0
  <1>1. CASE h \in Quits
    BY <1>1 DEF StopInv, KindsHold, Suspends
  <1>2. CASE h \in Ints \cup Dels
    <2>1. h \in Suspending
      BY <1>2 DEF Suspending
    <2>2. Cardinality(Suspending) # 0
      BY <2>1, SuspendingIsFinite, FS_EmptySet
    <2>3. Cardinality(Suspending) \in Nat /\ paused \in Int /\ Cardinality(Suspending) <= paused
      BY SuspendingIsFinite DEF StopInv, StopTypes, PausesCounted
    <2> QED
      BY <2>2, <2>3
  <1> QED
    BY <1>1, <1>2 DEF Stops!Handlers

LEMMA CountFollows ==
    ASSUME StopInv, paused' = paused, Suspending' \subseteq Suspending
    PROVE  PausesCounted'
  <1>1. Cardinality(Suspending') \in Nat /\ Cardinality(Suspending') <= Cardinality(Suspending)
    BY SuspendingIsFinite, FS_Subset, FS_CardinalityType
  <1> QED
    BY <1>1, SuspendingIsFinite DEF StopInv, PausesCounted, StopTypes

LEMMA PausesStep ==
    ASSUME StopInv, NEW h \in Stops!Handlers, Handles(h)
    PROVE  PausesCounted'
  <1>0. StopTypes /\ StopTypes' /\ HandlerShape(h)
    BY HandlerStep DEF StopInv
  <1>1. \A g \in Stops!Handlers \ {h} : Suspends(g)' <=> Suspends(g)
    BY <1>0 DEF HandlerShape, Suspends
  <1>2. Ints \subseteq Stops!Handlers /\ Dels \subseteq Stops!Handlers
    BY DEF Stops!Handlers
  <1>3. ASSUME paused' = paused, Suspends(h)' => Suspends(h) PROVE PausesCounted'
    <2>1. Suspending' \subseteq Suspending
      BY <1>1, <1>2, <1>3 DEF Suspending
    <2> QED
      BY <1>3, <2>1, CountFollows
  <1> USE DEF Stops!Go, Stops!session, Stops!notifier, Stops!handlers
  <1>4. CASE Stops!SuspendSession(h)
    <2>1. paused' = paused + 1
      BY <1>4 DEF Stops!SuspendSession
    <2>2. Suspending' \subseteq Suspending \cup {h}
      BY <1>1, <1>2 DEF Suspending
    <2>3. /\ Cardinality(Suspending') \in Nat
          /\ Cardinality(Suspending') <= Cardinality(Suspending \cup {h})
      BY <2>2, SuspendingIsFinite, FS_Subset, FS_CardinalityType
    <2>4. Cardinality(Suspending \cup {h}) <= Cardinality(Suspending) + 1
      BY SuspendingIsFinite, FS_AddElement
    <2>5. Cardinality(Suspending \cup {h}) \in Nat
      BY SuspendingIsFinite, FS_CardinalityType
    <2> QED
      BY <1>0, <2>1, <2>3, <2>4, <2>5, SuspendingIsFinite
      DEF StopInv, PausesCounted, StopTypes
  <1>5. CASE Stops!ResumeSession(h)
    <2>1. pc'[h] = "done" /\ pc[h] = "resume"
      BY <1>0, <1>5 DEF Stops!ResumeSession, StopTypes
    <2>2. CASE h \in owns /\ h \notin Quits
      <3>1. paused' = paused - 1
        BY <1>5, <2>2 DEF Stops!ResumeSession
      <3>2. h \in Suspending
        BY <2>1, <2>2 DEF Suspending, Suspends, Stops!Handlers
      <3>3. Suspending' \subseteq Suspending \ {h}
        BY <1>1, <1>2, <2>1 DEF Suspending, Suspends
      <3>4. /\ Cardinality(Suspending') \in Nat
            /\ Cardinality(Suspending') <= Cardinality(Suspending \ {h})
        BY <3>3, SuspendingIsFinite, FS_Subset, FS_CardinalityType
      <3>5. Cardinality(Suspending \ {h}) = Cardinality(Suspending) - 1
        BY <3>2, SuspendingIsFinite, FS_RemoveElement
      <3> QED
        BY <1>0, <3>1, <3>4, <3>5, SuspendingIsFinite DEF StopInv, PausesCounted, StopTypes
    <2>3. CASE ~(h \in owns /\ h \notin Quits)
      <3>1. paused' = paused
        BY <1>5, <2>3 DEF Stops!ResumeSession
      <3> QED
        BY <1>3, <2>1, <3>1 DEF Suspends
    <2> QED
      BY <2>2, <2>3
  <1>6. CASE Stops!Suspended(h)
    BY <1>3, <1>6 DEF Stops!Suspended, Suspends
  <1>7. CASE Stops!CloseNotifier(h)
    <2>1. paused' = paused /\ h \in Quits
      BY <1>7 DEF Stops!CloseNotifier
    <2>2. h \notin Ints \cup Dels
      BY <2>1, RuntimeAssumption
    <2>3. Suspending' \subseteq Suspending
      BY <1>1, <1>2, <2>2 DEF Suspending
    <2> QED
      BY <2>1, <2>3, CountFollows
  <1>8. CASE \E n \in Notices : Stops!Cancel(h, n)
    <2>1. UNCHANGED <<paused, pc, owns>>
      BY <1>8 DEF Stops!Cancel
    <2> QED
      BY <1>3, <2>1 DEF Suspends
  <1>9. CASE \/ Stops!SuspendProcesses(h) \/ Stops!SuspendFails(h) \/ Stops!CloseFails(h)
             \/ Stops!StopTurn(h) \/ Stops!StopFails(h) \/ Stops!Cleanup(h)
             \/ Stops!Check(h) \/ Stops!Wake(h) \/ Stops!Erase(h)
    <2>1. paused' = paused /\ owns' = owns /\ pc[h] # "done"
      BY <1>0, <1>9 DEF HandlerShape, Stops!SuspendProcesses, Stops!SuspendFails,
         Stops!CloseFails, Stops!StopTurn, Stops!StopFails, Stops!Cleanup, Stops!Check,
         Stops!Wake, Stops!Erase
    <2>2. \E p \in Steps \ {"waiting"} : pc' = [pc EXCEPT ![h] = p]
      <3>1. CASE Stops!SuspendProcesses(h) \/ Stops!SuspendFails(h) \/ Stops!CloseFails(h)
        BY <3>1 DEF Stops!SuspendProcesses, Stops!SuspendFails, Stops!CloseFails, Steps
      <3>2. CASE Stops!StopTurn(h) \/ Stops!StopFails(h) \/ Stops!Cleanup(h)
        BY <3>2 DEF Stops!StopTurn, Stops!StopFails, Stops!Cleanup, Steps
      <3>3. CASE Stops!Check(h) \/ Stops!Wake(h)
        BY <3>3 DEF Stops!Check, Stops!Wake, Steps
      <3>4. CASE Stops!Erase(h)
        <4>1. pc[h] = "erase" /\ \E p \in {"erase", "resume"} : pc' = [pc EXCEPT ![h] = p]
          BY <1>0, <3>4 DEF Stops!Erase, StopTypes
        <4> QED
          BY <4>1 DEF Steps
      <3> QED
        BY <1>9, <3>1, <3>2, <3>3, <3>4
    <2>3. pc'[h] # "waiting"
      BY <1>0, <2>2 DEF StopTypes
    <2> QED
      BY <1>3, <2>1, <2>3 DEF Suspends
  <1> QED
    BY <1>4, <1>5, <1>6, <1>7, <1>8, <1>9 DEF Handles

LEMMA QuietStep ==
    ASSUME StopInv, NEW h \in Stops!Handlers, Handles(h)
    PROVE  Quiet'
  <1> SUFFICES ASSUME NEW n \in Notices, Stops!Running(n)'
               PROVE  /\ \A g \in Stops!Handlers : pc'[g] = "waiting" => n \in waits'[g]
                      /\ \A g \in owns' : pc'[g] = "done"
    BY DEF Quiet
  <1>0. StopTypes' /\ StopTypes /\ HandlerShape(h)
    BY HandlerStep DEF StopInv
  <1>1. Stops!Running(n)
    BY <1>0 DEF HandlerShape, Stops!Running
  <1>2. /\ \A g \in Stops!Handlers : pc[g] = "waiting" => n \in waits[g]
        /\ \A g \in owns : pc[g] = "done"
    BY <1>1 DEF StopInv, Quiet
  <1>3. pc'[h] = "waiting" => n \in waits'[h]
    BY <1>0, <1>1, <1>2 DEF HandlerShape
  <1>4. h \notin owns'
    BY <1>0, <1>1, <1>2 DEF HandlerShape
  <1>5. owns' \subseteq Stops!Handlers
    BY <1>0 DEF StopTypes
  <1> QED
    BY <1>0, <1>2, <1>3, <1>4, <1>5 DEF HandlerShape
LEMMA KindsStep ==
    ASSUME StopInv, NEW h \in Stops!Handlers, Handles(h)
    PROVE  KindsHold'
  <1> DEFINE Kind(g) ==
        /\ pc[g] = "erase" => g \in Dels
        /\ pc[g] = "check" \/ pc[g] = "wake" => g \in Ints
        /\ g \in owns => pc[g] # "called"
        /\ g \in Quits /\ pc[g] # "called" => iClosed
        /\ g \in Quits /\ pc[g] \in {"cleanup", "stopping", "resume", "done"} => gone # "no"
  <1>0. StopTypes /\ StopTypes' /\ HandlerShape(h) /\ \A g \in Stops!Handlers : Kind(g)
    BY HandlerStep DEF StopInv, KindsHold
  <1>1. (iClosed => iClosed') /\ (gone # "no" => gone' # "no")
    BY <1>0 DEF Handles, Stops!SuspendProcesses, Stops!SuspendSession, Stops!Suspended,
       Stops!SuspendFails, Stops!Cancel, Stops!CloseNotifier, Stops!CloseFails,
       Stops!StopTurn, Stops!StopFails, Stops!Cleanup, Stops!Check, Stops!Wake,
       Stops!Erase, Stops!ResumeSession, Stops!session, Stops!notifier
  <1>2. \A g \in Stops!Handlers \ {h} : Kind(g)'
    BY <1>0, <1>1 DEF HandlerShape
  <1> USE DEF Stops!Go, Stops!session, Stops!notifier, Stops!handlers
  <1>3. Kind(h)'
    <2>1. CASE Stops!SuspendProcesses(h) \/ Stops!SuspendSession(h) \/ Stops!Suspended(h)
               \/ Stops!SuspendFails(h)
      <3>1. \E p \in {"notices", "waiting", "turn"} : pc' = [pc EXCEPT ![h] = p]
        BY <2>1 DEF Stops!SuspendProcesses, Stops!SuspendSession, Stops!Suspended,
           Stops!SuspendFails
      <3>2. pc'[h] \in {"notices", "waiting", "turn"}
        BY <1>0, <3>1 DEF StopTypes
      <3>3. h \in Quits => pc[h] # "called"
        BY <2>1 DEF Stops!SuspendProcesses, Stops!SuspendSession, Stops!Suspended,
           Stops!SuspendFails
      <3> QED
        BY <1>0, <1>1, <3>2, <3>3
    <2>2. CASE \E n \in Notices : Stops!Cancel(h, n)
      <3>1. UNCHANGED <<pc, owns, iClosed, gone>>
        BY <2>2 DEF Stops!Cancel
      <3> QED
        BY <1>0, <3>1
    <2>3. CASE Stops!CloseNotifier(h)
      <3>1. pc' = [pc EXCEPT ![h] = "waiting"] /\ iClosed' = TRUE
        BY <2>3 DEF Stops!CloseNotifier
      <3>2. pc'[h] = "waiting"
        BY <1>0, <3>1 DEF StopTypes
      <3> QED
        BY <3>1, <3>2
    <2>4. CASE Stops!CloseFails(h)
      <3>1. pc' = [pc EXCEPT ![h] = "turn"] /\ pc[h] = "waiting"
        BY <2>4 DEF Stops!CloseFails
      <3>2. pc'[h] = "turn"
        BY <1>0, <3>1 DEF StopTypes
      <3> QED
        BY <1>0, <1>1, <3>1, <3>2
    <2>5. CASE Stops!StopTurn(h)
      <3>1. \E p \in {"cleanup", "stopping"} : pc' = [pc EXCEPT ![h] = p]
        BY <2>5 DEF Stops!StopTurn
      <3>2. pc'[h] \in {"cleanup", "stopping"}
        BY <1>0, <3>1 DEF StopTypes
      <3>3. pc[h] = "turn" /\ (h \in Quits => gone' # "no")
        BY <2>5 DEF Stops!StopTurn
      <3> QED
        BY <1>0, <1>1, <3>2, <3>3
    <2>6. CASE Stops!StopFails(h)
      <3>1. pc' = [pc EXCEPT ![h] = "cleanup"] /\ pc[h] = "stopping"
        BY <2>6 DEF Stops!StopFails
      <3>2. pc'[h] = "cleanup"
        BY <1>0, <3>1 DEF StopTypes
      <3> QED
        BY <1>0, <1>1, <3>1, <3>2
    <2>7. CASE Stops!Cleanup(h)
      <3>1. /\ pc[h] = "cleanup"
            /\ \/ h \in Ints /\ pc' = [pc EXCEPT ![h] = "check"]
               \/ h \in Dels /\ pc' = [pc EXCEPT ![h] = "erase"]
               \/ pc' = [pc EXCEPT ![h] = "resume"]
        BY <2>7 DEF Stops!Cleanup
      <3>2. \/ h \in Ints /\ pc'[h] = "check"
            \/ h \in Dels /\ pc'[h] = "erase"
            \/ pc'[h] = "resume"
        BY <1>0, <3>1 DEF StopTypes
      <3> QED
        BY <1>0, <1>1, <3>1, <3>2
    <2>8. CASE Stops!Check(h)
      <3>1. pc[h] = "check" /\ \E p \in {"wake", "resume"} : pc' = [pc EXCEPT ![h] = p]
        BY <2>8 DEF Stops!Check
      <3>2. h \in Ints /\ h \notin Quits /\ pc'[h] \in {"wake", "resume"}
        BY <1>0, <3>1, RuntimeAssumption DEF StopTypes
      <3> QED
        BY <1>0, <1>1, <3>1, <3>2
    <2>9. CASE Stops!Wake(h)
      <3>1. pc[h] = "wake" /\ pc' = [pc EXCEPT ![h] = "resume"]
        BY <2>9 DEF Stops!Wake
      <3>2. h \in Ints /\ h \notin Quits /\ pc'[h] = "resume"
        BY <1>0, <3>1, RuntimeAssumption DEF StopTypes
      <3> QED
        BY <1>0, <1>1, <3>1, <3>2
    <2>10. CASE Stops!Erase(h)
      <3>1. pc[h] = "erase" /\ \E p \in {"erase", "resume"} : pc' = [pc EXCEPT ![h] = p]
        BY <1>0, <2>10 DEF Stops!Erase, StopTypes
      <3>2. h \in Dels /\ h \notin Quits /\ pc'[h] \in {"erase", "resume"}
        BY <1>0, <3>1, RuntimeAssumption DEF StopTypes
      <3> QED
        BY <1>0, <1>1, <3>1, <3>2
    <2>11. CASE Stops!ResumeSession(h)
      <3>1. pc[h] = "resume" /\ pc' = [pc EXCEPT ![h] = "done"]
        BY <2>11 DEF Stops!ResumeSession
      <3>2. pc'[h] = "done"
        BY <1>0, <3>1 DEF StopTypes
      <3> QED
        BY <1>0, <1>1, <3>1, <3>2
    <2> QED
      BY <2>1, <2>2, <2>3, <2>4, <2>5, <2>6, <2>7, <2>8, <2>9, <2>10, <2>11 DEF Handles
  <1> QED
    BY <1>2, <1>3 DEF KindsHold

\* An excuse lasts while its handler looks after the session.
LEMMA ExcuseStays ==
    ASSUME StopInv, NEW h \in Stops!Handlers, HandlerShape(h), Excused,
           gone # "no" => gone' # "no", failed \subseteq failed',
           Stops!Handing(h) => Stops!Handing(h)'
    PROVE  Excused'
  <1>0. Dels \subseteq Stops!Handlers
    BY DEF Stops!Handlers
  <1>1. \A g \in Stops!Handlers \ {h} : Stops!Handing(g)' <=> Stops!Handing(g)
    BY DEF HandlerShape, Stops!Handing
  <1>2. CASE gone # "no"
    BY <1>2 DEF Excused
  <1>3. CASE \E g \in Stops!Handlers : Stops!Handing(g)
    BY <1>1, <1>3 DEF Excused
  <1>4. CASE Stops!Abandoned
    <2>1. PICK d \in Dels : d \in failed /\ ~Stops!Handing(d)
      BY <1>4 DEF Stops!Abandoned
    <2>2. CASE Stops!Handing(d)'
      BY <1>0, <2>2 DEF Excused
    <2>3. CASE ~Stops!Handing(d)'
      <3>1. d \in failed'
        BY <2>1
      <3> QED
        BY <2>3, <3>1 DEF Excused, Stops!Abandoned
    <2> QED
      BY <2>2, <2>3
  <1> QED
    BY <1>2, <1>3, <1>4 DEF Excused

LEMMA MindedStep ==
    ASSUME StopInv, NEW h \in Stops!Handlers, Handles(h)
    PROVE  Minded'
  <1> USE DEF Stops!Go, Stops!session, Stops!notifier, Stops!handlers
  <1>0. StopTypes /\ StopTypes' /\ HandlerShape(h) /\ Minded
    BY HandlerStep DEF StopInv
  <1>1. ASSUME Stops!Handing(h)' PROVE Minded'
    BY <1>1 DEF Minded, Excused
  <1>2. ASSUME UNCHANGED <<turn, wake, pending, gone>>, failed \subseteq failed',
               ~Stops!Handing(h)
        PROVE  Minded'
    <2>1. Excused => Excused'
      BY <1>0, <1>2, ExcuseStays
    <2> QED
      BY <1>0, <1>2, <2>1 DEF Minded
  <1>3. CASE Stops!SuspendProcesses(h) \/ Stops!SuspendSession(h)
             \/ (\E n \in Notices : Stops!Cancel(h, n)) \/ Stops!CloseNotifier(h)
             \/ Stops!ResumeSession(h)
    <2>1. /\ UNCHANGED <<turn, wake, pending, gone>> /\ failed \subseteq failed'
          /\ pc[h] \in {"called", "notices", "waiting", "resume"}
      BY <1>3 DEF Stops!SuspendProcesses, Stops!SuspendSession, Stops!Cancel,
         Stops!CloseNotifier, Stops!ResumeSession
    <2> QED
      BY <1>2, <2>1 DEF Stops!Handing
  <1>4. CASE Stops!Suspended(h) \/ Stops!SuspendFails(h) \/ Stops!CloseFails(h)
             \/ Stops!StopTurn(h) \/ Stops!StopFails(h)
    <2>1. \E p \in {"turn", "stopping", "cleanup"} : pc' = [pc EXCEPT ![h] = p]
      BY <1>4 DEF Stops!Suspended, Stops!SuspendFails, Stops!CloseFails, Stops!StopTurn,
         Stops!StopFails
    <2>2. pc'[h] \in {"turn", "stopping", "cleanup"}
      BY <1>0, <2>1 DEF StopTypes
    <2> QED
      BY <1>1, <2>2 DEF Stops!Handing
  <1>5. CASE Stops!Cleanup(h)
    <2>1. UNCHANGED <<turn, wake, pending, gone, failed>> /\ pc[h] = "cleanup"
      BY <1>5 DEF Stops!Cleanup
    <2>2. \/ pc' = [pc EXCEPT ![h] = "check"] \/ pc' = [pc EXCEPT ![h] = "erase"]
          \/ pc' = [pc EXCEPT ![h] = "resume"] /\ (h \in Quits \/ (h \in Dels /\ h \in failed))
      BY <1>5 DEF Stops!Cleanup, Stops!Handlers
    <2>3. \/ pc'[h] \in {"check", "erase"}
          \/ pc'[h] = "resume" /\ (h \in Quits \/ (h \in Dels /\ h \in failed'))
      BY <1>0, <2>1, <2>2 DEF StopTypes
    <2>4. h \in Quits => gone' # "no"
      BY <2>1 DEF StopInv, KindsHold
    <2>5. ASSUME h \in Dels, h \in failed', pc'[h] = "resume" PROVE Stops!Abandoned'
      BY <2>5 DEF Stops!Abandoned, Stops!Handing
    <2> QED
      BY <1>1, <2>3, <2>4, <2>5 DEF Stops!Handing, Minded, Excused
  <1>6. CASE Stops!Check(h)
    <2>1. /\ pc' = [pc EXCEPT ![h] = IF pending > 0 THEN "wake" ELSE "resume"]
          /\ pending' = pending
      BY <1>6 DEF Stops!Check
    <2>2. CASE pending > 0
      BY <1>0, <1>1, <2>1, <2>2 DEF Stops!Handing, StopTypes
    <2>3. CASE ~(pending > 0)
      BY <2>1, <2>3 DEF Minded
    <2> QED
      BY <2>2, <2>3
  <1>7. CASE Stops!Wake(h)
    <2>1. gone' # "no" \/ turn' = "active" \/ wake' = TRUE
      BY <1>7 DEF Stops!Wake
    <2>2. wake' = TRUE /\ turn' = "none" => gone' # "no"
      BY <1>7 DEF Stops!Wake
    <2> QED
      BY <2>1, <2>2 DEF Minded, Excused
  <1>8. CASE Stops!Erase(h)
    <2>1. h \in Dels /\ pc[h] = "erase"
      BY <1>8 DEF Stops!Erase, StopInv, KindsHold
    <2>2. \/ gone' = "erased"
          \/ UNCHANGED pc
          \/ failed' = failed \cup {h} /\ pc' = [pc EXCEPT ![h] = "resume"]
      BY <1>8 DEF Stops!Erase
    <2>3. UNCHANGED pc => Stops!Handing(h)'
      BY <2>1 DEF Stops!Handing
    <2>4. failed' = failed \cup {h} /\ pc' = [pc EXCEPT ![h] = "resume"] => Stops!Abandoned'
      BY <1>0, <2>1 DEF Stops!Abandoned, Stops!Handing, StopTypes
    <2> QED
      BY <1>1, <2>2, <2>3, <2>4 DEF Minded, Excused
  <1> QED
    BY <1>3, <1>4, <1>5, <1>6, <1>7, <1>8 DEF Handles

\* The session's own steps: admission, the turn, and the end of a stopped one.
LEMMA MovesStep ==
    ASSUME StopInv, Moves
    PROVE  StopInv'
  <1> USE DEF Stops!session, Stops!notifier, Stops!handlers
  <1>0. StopTypes /\ PausesCounted /\ Quiet /\ KindsHold /\ Minded
    BY DEF StopInv
  <1>1. CASE Stops!SubmitPrompt \/ Stops!Promote \/ Stops!EndTurn
    <2>1. /\ turn' \in {"none", "active"} /\ wake' \in BOOLEAN /\ pending' \in Nat
          /\ turn' = "none" => pending' = 0
          /\ UNCHANGED <<gone, iClosed, notice, paused, pc, waits, owns, failed>>
      <3>1. CASE Stops!SubmitPrompt
        BY <1>0, <3>1 DEF Stops!SubmitPrompt, Stops!Admits, StopTypes
      <3>2. CASE Stops!Promote
        BY <1>0, <3>2 DEF Stops!Promote, StopTypes
      <3>3. CASE Stops!EndTurn
        BY <1>0, <3>3 DEF Stops!EndTurn, StopTypes
      <3> QED
        BY <1>1, <3>1, <3>2, <3>3
    <2>2. StopTypes'
      BY <1>0, <2>1 DEF StopTypes
    <2>3. PausesCounted' /\ Quiet' /\ KindsHold'
      BY <1>0, <2>1 DEF PausesCounted, Suspending, Suspends, Quiet, Stops!Running, KindsHold
    <2>4. Minded'
      BY <2>1 DEF Minded
    <2> QED
      BY <2>2, <2>3, <2>4 DEF StopInv
  <1>2. CASE Stops!FinishStopped
    <2>1. /\ turn' = (IF wake /\ gone = "no" THEN "active" ELSE "none") /\ wake' = FALSE
          /\ pc' = [h \in Stops!Handlers |-> IF pc[h] = "stopping" THEN "cleanup" ELSE pc[h]]
          /\ UNCHANGED <<pending, gone, iClosed, notice, paused, waits, owns, failed>>
          /\ turn = "stopping"
      BY <1>2 DEF Stops!FinishStopped
    <2>2. \A h \in Stops!Handlers :
            pc'[h] = pc[h] \/ (pc[h] = "stopping" /\ pc'[h] = "cleanup")
      BY <2>1
    <2>3. StopTypes'
      BY <1>0, <2>1 DEF StopTypes, Steps
    <2>4. \A h \in Stops!Handlers : (Suspends(h)' <=> Suspends(h))
                                 /\ (Stops!Handing(h)' <=> Stops!Handing(h))
      BY <2>1, <2>2 DEF Suspends, Stops!Handing
    <2>5. Ints \cup Dels \subseteq Stops!Handlers /\ Dels \subseteq Stops!Handlers
      BY DEF Stops!Handlers
    <2>6. PausesCounted'
      <3>1. Suspending' = Suspending
        BY <2>4, <2>5 DEF Suspending
      <3> QED
        BY <1>0, <2>1, <3>1 DEF PausesCounted
    <2>7. Quiet'
      <3>1. owns \subseteq Stops!Handlers
        BY <1>0 DEF StopTypes
      <3> QED
        BY <1>0, <2>1, <2>2, <3>1 DEF Quiet, Stops!Running
    <2>8. KindsHold'
      BY <1>0, <2>1, <2>2 DEF KindsHold
    <2>9. Minded'
      <3>1. Excused => Excused'
        BY <2>1, <2>4, <2>5 DEF Excused, Stops!Abandoned
      <3> QED
        BY <1>0, <2>1, <3>1 DEF Minded, Excused
    <2> QED
      BY <2>3, <2>6, <2>7, <2>8, <2>9 DEF StopInv
  <1> QED
    BY <1>1, <1>2 DEF Moves

LEMMA NotesStep ==
    ASSUME StopInv, NEW n \in Notices, Notes(n)
    PROVE  StopInv'
  <1> USE DEF Stops!session, Stops!notifier, Stops!handlers
  <1>0. StopTypes /\ PausesCounted /\ Quiet /\ KindsHold /\ Minded
    BY DEF StopInv
  <1>1. UNCHANGED <<gone, iClosed, paused, pc, waits, owns, failed>>
    BY DEF Notes, Stops!Notify, Stops!Deliver, Stops!Delivered
  <1>2. /\ turn' \in {turn, "active"} /\ wake' \in BOOLEAN /\ pending' \in Nat
        /\ turn' = "active" \/ UNCHANGED <<turn, wake, pending>>
    <2>1. CASE Stops!Notify(n) \/ Stops!Delivered(n)
      BY <1>0, <2>1 DEF Stops!Notify, Stops!Delivered, StopTypes
    <2>2. CASE Stops!Deliver(n)
      <3>1. CASE Stops!Admits
        BY <1>0, <3>1 DEF Stops!Admits, StopTypes
      <3>2. CASE UNCHANGED <<turn, wake, pending>>
        BY <1>0, <3>2 DEF StopTypes
      <3> QED
        BY <2>2, <3>1, <3>2 DEF Stops!Deliver
    <2> QED
      BY <2>1, <2>2 DEF Notes
  <1>3. \E p \in {"over", "active", "sent"} : notice' = [notice EXCEPT ![n] = p]
    BY DEF Notes, Stops!Notify, Stops!Deliver, Stops!Delivered
  <1>4. StopTypes'
    BY <1>0, <1>1, <1>2, <1>3 DEF StopTypes
  <1>5. PausesCounted' /\ KindsHold'
    BY <1>0, <1>1 DEF PausesCounted, Suspending, Suspends, KindsHold
  <1>6. Minded'
    BY <1>0, <1>1, <1>2 DEF Minded, Excused, Stops!Abandoned, Stops!Handing
  <1>7. \A m \in Notices \ {n} : Stops!Running(m)' => Stops!Running(m)
    BY <1>0, <1>3 DEF StopTypes, Stops!Running
  <1>8. ASSUME Stops!Running(n)', ~Stops!Running(n)
        PROVE  \A h \in Stops!Handlers : ~Suspends(h)
    <2>1. Stops!Notify(n)
      BY <1>8 DEF Notes, Stops!Deliver, Stops!Delivered, Stops!Running, StopTypes
    <2>2. ~(iClosed \/ paused > 0)
      BY <1>0, <1>8, <2>1 DEF Stops!Notify, Stops!Running, StopTypes
    <2> QED
      BY <2>2, PauseShows
  <1>9. Quiet'
    <2> SUFFICES ASSUME NEW m \in Notices, Stops!Running(m)'
                 PROVE  /\ \A h \in Stops!Handlers : pc[h] = "waiting" => m \in waits[h]
                        /\ \A h \in owns : pc[h] = "done"
      BY <1>1 DEF Quiet
    <2>1. CASE Stops!Running(m)
      BY <1>0, <2>1 DEF Quiet
    <2>2. CASE ~Stops!Running(m)
      <3>1. \A h \in Stops!Handlers : ~Suspends(h)
        BY <1>7, <1>8, <2>2
      <3> QED
        BY <1>0, <3>1 DEF Suspends, StopTypes
    <2> QED
      BY <2>1, <2>2
  <1> QED
    BY <1>4, <1>5, <1>6, <1>9 DEF StopInv

LEMMA StopSteps ==
    ASSUME AllNext \/ UNCHANGED allVars
    PROVE  \/ Moves \/ (\E n \in Notices : Notes(n)) \/ (\E h \in Stops!Handlers : Handles(h))
           \/ UNCHANGED stopsVars
  <1>1. Stops!Next \/ UNCHANGED stopsVars
    BY DEF AllNext, allVars
  <1> QED
    BY <1>1 DEF Stops!Next, Moves, Notes, Handles

LEMMA StopRests ==
    ASSUME StopInv, UNCHANGED stopsVars
    PROVE  StopInv'
  <1> USE DEF stopsVars
  <1>1. StopTypes' /\ PausesCounted' /\ KindsHold'
    BY DEF StopInv, StopTypes, PausesCounted, Suspending, Suspends, KindsHold
  <1>2. Quiet' /\ Minded'
    BY DEF StopInv, Quiet, Stops!Running, Minded, Excused, Stops!Abandoned, Stops!Handing
  <1> QED
    BY <1>1, <1>2 DEF StopInv

\* StopInv is an invariant of the services of MCRuntime.
THEOREM StopInvariance == AllSpec => []StopInv
  <1>1. AllInit => StopInv
    <2> SUFFICES ASSUME Stops!Init PROVE StopInv
      BY DEF AllInit
    <2>0. StopTypes
      <3>0. wake \in BOOLEAN /\ iClosed \in BOOLEAN
        BY Zenon DEF Stops!Init
      <3>1. /\ turn \in {"none", "active", "stopping"} /\ pending \in Nat
            /\ gone \in {"no", "shut", "erased"} /\ paused \in Int
        BY DEF Stops!Init
      <3>2. notice \in [Notices -> {"idle", "active", "sent", "over"}]
        BY DEF Stops!Init
      <3>3. pc \in [Stops!Handlers -> Steps] /\ waits \in [Stops!Handlers -> SUBSET Notices]
        BY DEF Stops!Init, Steps
      <3>4. owns \subseteq Stops!Handlers /\ failed \subseteq Stops!Handlers
        BY DEF Stops!Init
      <3> QED
        BY <3>0, <3>1, <3>2, <3>3, <3>4 DEF StopTypes
    <2>1. Quiet /\ KindsHold /\ Minded
      BY DEF Stops!Init, Quiet, Stops!Running, KindsHold, Minded
    <2>2. Suspending = {}
      BY DEF Stops!Init, Suspending, Suspends, Stops!Handlers
    <2>3. PausesCounted
      BY <2>2, FS_EmptySet DEF Stops!Init, PausesCounted
    <2> QED
      BY <2>0, <2>1, <2>3 DEF StopInv
  <1>2. StopInv /\ [AllNext]_allVars => StopInv'
    <2> SUFFICES ASSUME StopInv, AllNext \/ UNCHANGED allVars PROVE StopInv'
      BY DEF allVars
    <2>1. ASSUME NEW h \in Stops!Handlers, Handles(h) PROVE StopInv'
      BY <2>1, HandlerStep, PausesStep, QuietStep, KindsStep, MindedStep DEF StopInv
    <2> QED
      BY <2>1, MovesStep, NotesStep, StopRests, StopSteps
  <1> QED
    BY <1>1, <1>2, PTL DEF AllSpec, allVars

\* StopsAreOrderly of MCRuntime: from the success of a suspension until the resume no
\* notice is admitted, and what is left pending by an interrupt gets a turn
\* (SuspendSession, DomainBackend.Interrupt, DeleteSession).
THEOREM StopsKeepOrder == AllSpec => StopsAreOrderly
  <1>1. StopInv => Stops!NothingStranded
    BY DEF StopInv, Minded, Excused, Stops!NothingStranded
  <1>2. StopInv /\ [AllNext]_allVars => [Stops!NoNoticeWhileSuspended]_(Stops!vars)
    <2> SUFFICES ASSUME StopInv, AllNext \/ UNCHANGED allVars
                 PROVE  Stops!NoNoticeWhileSuspended
      BY DEF allVars
    <2> SUFFICES ASSUME \E h \in owns : pc[h] # "done" PROVE delivered' = delivered
      BY DEF Stops!NoNoticeWhileSuspended
    <2>1. \A n \in Notices : ~Stops!Running(n)
      BY DEF StopInv, Quiet
    <2>2. \A n \in Notices : ~Stops!Deliver(n)
      BY <2>1 DEF Stops!Deliver, Stops!Running
    <2> USE DEF Stops!session, Stops!notifier, Stops!handlers
    <2>3. CASE Moves
      BY <2>3 DEF Moves, Stops!SubmitPrompt, Stops!Promote, Stops!EndTurn,
         Stops!FinishStopped
    <2>4. CASE \E n \in Notices : Notes(n)
      BY <2>2, <2>4 DEF Notes, Stops!Notify, Stops!Delivered
    <2>5. CASE \E h \in Stops!Handlers : Handles(h)
      BY <2>5 DEF Handles, Stops!SuspendProcesses, Stops!SuspendSession, Stops!Suspended,
         Stops!SuspendFails, Stops!Cancel, Stops!CloseNotifier, Stops!CloseFails,
         Stops!StopTurn, Stops!StopFails, Stops!Cleanup, Stops!Check, Stops!Wake,
         Stops!Erase, Stops!ResumeSession
    <2>6. CASE UNCHANGED stopsVars
      BY <2>6 DEF stopsVars
    <2> QED
      BY <2>3, <2>4, <2>5, <2>6, StopSteps
  <1> QED
    BY <1>1, <1>2, StopInvariance, PTL
    DEF AllSpec, allVars, StopsAreOrderly, Stops!StopsAreOrderly
-----------------------------------------------------------------------------
(* SessionRuntimes.                                                        *)

\* Where a call may be: looking a session up, creating a child, after it has a result.
Lookups == {"look", "load", "record"}
Binds == {"bind", "wait", "build", "publish"}
Undoes == {"unbind", "rollback", "forget"}
Ends == {"admit", "discard", "detach", "release", "erase", "remove", "done"}
Creations == {"lock", "persist", "relate", "rollback", "forget", "admit", "discard",
              "detach", "release"}
Positions == {"idle", "close"} \cup Lookups \cup Binds \cup Undoes \cup Ends \cup Creations

CallTypes ==
    /\ rpc \in [Binders -> Positions]
    /\ op \in [Binders -> {Nobody, "get", "delete", "create", "shutdown"}]
    /\ goal \in [Binders -> Runtimes!Sessions] /\ cur \in [Binders -> Runtimes!Sessions]
    /\ got \in [Binders -> Runtimes!Objects \cup {Nobody, Failed, Missing}]
RuntimeTypes ==
    /\ durable \subseteq Runtimes!Sessions /\ dtos \subseteq Runtimes!Sessions
    /\ relations \subseteq Runtimes!Sessions
    /\ sessions \in [Runtimes!Sessions -> Runtimes!Objects \cup {Nobody}]
    /\ binding \in [Runtimes!Sessions -> Binders \cup {Nobody}]
    /\ closed \in [user : BOOLEAN, repository : BOOLEAN]
    /\ childMu \in Binders \cup {Nobody}
    /\ CallTypes

\* A session that is bound has no runtime yet, and its binder is who it says.
BindingsHold ==
    /\ \A s \in Runtimes!Sessions : binding[s] # Nobody => sessions[s] = Nobody
    /\ \A u \in Binders : rpc[u] \in {"build", "publish", "unbind"} => binding[cur[u]] = u

\* Behind the snapshot nothing is bound.
SnapshotHolds ==
    snapshot # Nobody =>
        /\ closed.repository /\ Runtimes!Bound \subseteq snapshot
        /\ \A s \in Runtimes!Sessions : binding[s] = Nobody

\* Who creates a child has no other session at hand once the child exists.
CallHolds(u) ==
    /\ cur[u] \in {goal[u], Root}
    /\ rpc[u] \in Creations => op[u] = "create"
    /\ op[u] = "create" => rpc[u] \notin Lookups \cup {"close", "erase", "remove"}
    /\ op[u] = "create" /\ rpc[u] \notin {"idle", "lock", "persist", "release", "done"} =>
          cur[u] = goal[u] /\ cur[u] \in Children

\* The repository forgets only children whose stores are gone.
ForgetsHold == \A u \in Binders : rpc[u] \in {"forget", "detach"} => cur[u] \notin durable

\* Creations exclude each other from the count of the children to the end.
MutexHolds ==
    \A u \in Binders :
        op[u] = "create" /\ rpc[u] \notin {"idle", "lock", "done"} => childMu = u

\* An object is known by who built it; a child's builder builds no more.
BuiltBy(x, s) == \E v \in Binders : x = <<v, s>> /\ rpc[v] \in Ends
ObjectsHold ==
    /\ \A s \in Children : sessions[s] # Nobody => BuiltBy(sessions[s], s)
    /\ \A u \in Binders : rpc[u] = "admit" => got[u] = Missing \/ BuiltBy(got[u], cur[u])
    /\ \A x \in managed : x = Missing \/ \E s \in Children : BuiltBy(x, s)
    /\ \A s \in Runtimes!Sessions : sessions[s] # Nobody => sessions[s][2] = s

\* The creation that has counted the children may add one.
LimitHolds ==
    /\ Cardinality(Runtimes!Registered) <= MaxChildTasks
    /\ \A u \in Binders :
        op[u] = "create" /\ rpc[u] \in {"persist", "relate", "admit"} \cup Binds =>
            Cardinality(Runtimes!Registered) < MaxChildTasks

\* The inductive invariant of SessionRuntimes.
RuntimeInv ==
    /\ RuntimeTypes /\ BindingsHold /\ SnapshotHolds /\ MutexHolds /\ ObjectsHold
    /\ LimitHolds /\ ForgetsHold /\ Runtimes!ChildReachable /\ \A u \in Binders : CallHolds(u)
\* The steps of one call.
Performs(u) ==
    \/ \E s \in Runtimes!Sessions : Runtimes!CallGet(u, s) \/ Runtimes!CallDelete(u, s)
    \/ Runtimes!CallCreate(u) \/ Runtimes!LockCreate(u) \/ Runtimes!Persist(u)
    \/ Runtimes!Relate(u) \/ Runtimes!Look(u) \/ Runtimes!Load(u) \/ Runtimes!Record(u)
    \/ Runtimes!Bind(u) \/ Runtimes!Awake(u) \/ Runtimes!Build(u) \/ Runtimes!Publish(u)
    \/ Runtimes!Unbind(u) \/ Runtimes!Rollback(u) \/ Runtimes!Forget(u) \/ Runtimes!Admit(u)
    \/ Runtimes!Discard(u) \/ Runtimes!Detach(u) \/ Runtimes!ReleaseCreate(u)
    \/ Runtimes!Erase(u) \/ Runtimes!Remove(u) \/ Runtimes!CallShutdown(u)
    \/ Runtimes!CloseAndSnapshot(u)

\* Where a call may come from.
Entered(from, to) ==
    /\ to = "persist" => from = "lock"
    /\ to = "build" => from = "bind"
    /\ to = "publish" => from = "build"
    /\ to = "unbind" => from \in {"build", "rollback"}
    /\ to = "forget" => from = "rollback"
    /\ to = "detach" => from = "discard"
    /\ to = "admit" => from \in {"bind", "wait", "publish"} \cup Lookups

\* A call stays a creation from its count to its end, has counted before it goes on, and
\* does not come back from its end.
ControlShape(u) ==
    /\ op'[u] = "create" /\ rpc'[u] \notin {"idle", "lock", "done"} =>
          \/ op[u] = "create" /\ rpc[u] \notin {"idle", "lock", "done"}
          \/ op[u] = "create" /\ rpc[u] = "lock" /\ rpc'[u] = "persist"
    /\ op'[u] = "create" /\ rpc'[u] \in {"relate", "admit"} \cup Binds =>
          op[u] = "create" /\ rpc[u] \in {"persist", "relate"} \cup Binds
    /\ rpc[u] \in Ends => rpc'[u] \in Ends
    /\ Entered(rpc[u], rpc'[u])

\* What a step of one call does to the calls.
CallShape(u) ==
    /\ CallTypes' /\ ControlShape(u) /\ CallHolds(u)'
    /\ \A v \in Binders \ {u} :
        /\ rpc'[v] = rpc[v] /\ op'[v] = op[v] /\ goal'[v] = goal[v] /\ cur'[v] = cur[v]
        /\ got'[v] = got[v]

\* One call moves to a place, and nothing else of the calls changes.
Goes(u, place) ==
    rpc' = [rpc EXCEPT ![u] = place] /\ UNCHANGED <<op, goal, cur, got>>

LEMMA GoesShape ==
    ASSUME CallTypes, NEW u \in Binders, CallHolds(u), NEW place \in Positions, Goes(u, place),
           place \in Creations => op[u] = "create",
           op[u] = "create" => place \notin Lookups \cup {"close", "erase", "remove"},
           place \notin {"idle", "lock", "persist", "release", "done"} \cup Lookups =>
              op[u] # "create" \/ (cur[u] = goal[u] /\ cur[u] \in Children),
           op[u] = "create" /\ place \notin {"idle", "lock", "done"} =>
              rpc[u] \notin {"idle", "lock", "done"} \/ (rpc[u] = "lock" /\ place = "persist"),
           op[u] = "create" /\ place \in {"relate", "admit"} \cup Binds =>
              rpc[u] \in {"persist", "relate"} \cup Binds,
           rpc[u] \in Ends => place \in Ends, Entered(rpc[u], place)
    PROVE  CallShape(u)
  <1>1. /\ rpc'[u] = place /\ op'[u] = op[u] /\ goal'[u] = goal[u] /\ cur'[u] = cur[u]
        /\ CallTypes'
    BY DEF Goes, CallTypes
  <1>2. \A v \in Binders \ {u} :
          /\ rpc'[v] = rpc[v] /\ op'[v] = op[v] /\ goal'[v] = goal[v] /\ cur'[v] = cur[v]
          /\ got'[v] = got[v]
    BY DEF Goes, CallTypes
  <1>3. ControlShape(u)
    BY <1>1 DEF ControlShape
  <1>4. CallHolds(u)'
    BY <1>1 DEF CallHolds, Lookups
  <1> QED
    BY <1>1, <1>2, <1>3, <1>4 DEF CallShape

\* Continue: to the child whose parent was looked for, or to the end of the lookup.
ContinueShape(u, result) ==
    \/ /\ cur[u] # goal[u] /\ cur'[u] = goal[u] /\ rpc'[u] \in {"done", "bind"}
    \/ /\ cur[u] = goal[u] /\ cur'[u] = cur[u] /\ got'[u] = result
       /\ op[u] = "create" => rpc'[u] \in {"admit", "release"}
       /\ op[u] # "create" => rpc'[u] \in {"done", "erase"}
       /\ result = Failed => rpc'[u] # "admit"

LEMMA ContinueStep ==
    ASSUME CallTypes, NEW u \in Binders, CallHolds(u), NEW result,
           result \in Runtimes!Objects \cup {Failed, Missing},
           Runtimes!Continue(u, result), UNCHANGED <<op, goal>>,
           rpc[u] \in Lookups \cup {"bind", "wait", "publish", "unbind"},
           rpc[u] = "unbind" => result = Failed
    PROVE  CallShape(u) /\ ContinueShape(u, result)
  <1>1. CASE cur[u] # goal[u]
    <2>1. PICK place \in {"done", "bind"} : rpc' = [rpc EXCEPT ![u] = place]
      BY <1>1 DEF Runtimes!Continue
    <2>2. cur' = [cur EXCEPT ![u] = goal[u]]
      BY <1>1 DEF Runtimes!Continue
    <2>3. \E x \in {result, got[u]} : got' = [got EXCEPT ![u] = x]
      BY <1>1 DEF Runtimes!Continue
    <2>4. CallTypes'
      BY <2>1, <2>2, <2>3 DEF CallTypes, Positions, Binds, Ends
    <2>5. /\ rpc'[u] = place /\ op'[u] = op[u] /\ goal'[u] = goal[u] /\ cur'[u] = goal[u]
      BY <2>1, <2>2 DEF CallTypes
    <2>6. \A v \in Binders \ {u} :
            /\ rpc'[v] = rpc[v] /\ op'[v] = op[v] /\ goal'[v] = goal[v] /\ cur'[v] = cur[v]
            /\ got'[v] = got[v]
      BY <2>1, <2>2, <2>3 DEF CallTypes
    <2>7. op[u] # "create"
      BY <1>1 DEF CallHolds, Lookups
    <2>8. ControlShape(u) /\ CallHolds(u)'
      BY <2>5, <2>7 DEF ControlShape, Entered, CallHolds, Lookups, Creations, Ends
    <2> QED
      BY <1>1, <2>4, <2>5, <2>6, <2>8 DEF CallShape, ContinueShape
  <1>2. CASE cur[u] = goal[u]
    <2>1. PICK place \in {"done", "erase", "admit", "release"} :
            /\ rpc' = [rpc EXCEPT ![u] = place]
            /\ op[u] = "create" => place \in {"admit", "release"}
            /\ op[u] # "create" => place \in {"done", "erase"}
            /\ result = Failed => place # "admit"
      BY <1>2 DEF Runtimes!Continue
    <2>2. cur' = cur /\ got' = [got EXCEPT ![u] = result]
      BY <1>2 DEF Runtimes!Continue
    <2>4. CallTypes'
      BY <2>1, <2>2 DEF CallTypes, Positions, Binds, Ends
    <2>5. /\ rpc'[u] = place /\ op'[u] = op[u] /\ goal'[u] = goal[u] /\ cur'[u] = cur[u]
          /\ got'[u] = result
      BY <2>1, <2>2 DEF CallTypes
    <2>6. \A v \in Binders \ {u} :
            /\ rpc'[v] = rpc[v] /\ op'[v] = op[v] /\ goal'[v] = goal[v] /\ cur'[v] = cur[v]
            /\ got'[v] = got[v]
      BY <2>1, <2>2 DEF CallTypes
    <2>7. ControlShape(u) /\ CallHolds(u)'
      BY <2>1, <2>5 DEF ControlShape, Entered, CallHolds, Lookups, Creations, Ends, Binds
    <2> QED
      BY <1>2, <2>1, <2>4, <2>5, <2>6, <2>7 DEF CallShape, ContinueShape
  <1> QED
    BY <1>1, <1>2
LEMMA CallStep ==
    ASSUME RuntimeTypes, NEW u \in Binders, CallHolds(u), Performs(u)
    PROVE  CallShape(u)
  <1> USE DEF Runtimes!Go, Runtimes!repo, Runtimes!Keep, Goes
  <1>0. /\ CallTypes /\ Root \in Runtimes!Sessions /\ Children \subseteq Runtimes!Sessions
        /\ \A s \in Runtimes!Sessions :
              sessions[s] # Nobody => sessions[s] \in Runtimes!Objects \cup {Failed, Missing}
    BY DEF RuntimeTypes, Runtimes!Sessions
  <1>1. CASE \E s \in Runtimes!Sessions : Runtimes!CallGet(u, s) \/ Runtimes!CallDelete(u, s)
    <2>1. PICK s \in Runtimes!Sessions, o \in {"get", "delete"} :
            /\ rpc' = [rpc EXCEPT ![u] = "look"] /\ op' = [op EXCEPT ![u] = o]
            /\ goal' = [goal EXCEPT ![u] = s] /\ cur' = [cur EXCEPT ![u] = s]
            /\ got' = got /\ rpc[u] = "idle"
      BY <1>1 DEF Runtimes!CallGet, Runtimes!CallDelete
    <2>2. CallTypes'
      BY <1>0, <2>1 DEF CallTypes, Positions, Lookups
    <2>3. rpc'[u] = "look" /\ op'[u] = o /\ goal'[u] = s /\ cur'[u] = s
      BY <1>0, <2>1 DEF CallTypes
    <2>4. ControlShape(u) /\ CallHolds(u)'
      BY <2>1, <2>3 DEF ControlShape, Entered, CallHolds, Lookups, Creations, Ends
    <2> QED
      BY <1>0, <2>1, <2>2, <2>4 DEF CallShape, CallTypes
  <1>2. CASE Runtimes!CallCreate(u) \/ Runtimes!CallShutdown(u)
    <2>1. PICK o \in {"create", "shutdown"} :
            /\ rpc' = [rpc EXCEPT ![u] = IF o = "create" THEN "lock" ELSE "close"]
            /\ op' = [op EXCEPT ![u] = o]
            /\ UNCHANGED <<goal, cur, got>> /\ rpc[u] = "idle"
      <3>1. CASE Runtimes!CallCreate(u)
        BY <3>1 DEF Runtimes!CallCreate
      <3>2. CASE Runtimes!CallShutdown(u)
        BY <3>2 DEF Runtimes!CallShutdown
      <3> QED
        BY <1>2, <3>1, <3>2
    <2>2. CallTypes'
      BY <1>0, <2>1 DEF CallTypes, Positions, Creations
    <2>3. /\ rpc'[u] = (IF o = "create" THEN "lock" ELSE "close") /\ op'[u] = o
          /\ goal'[u] = goal[u] /\ cur'[u] = cur[u]
      BY <1>0, <2>1 DEF CallTypes
    <2>4. ControlShape(u) /\ CallHolds(u)'
      BY <2>1, <2>3 DEF ControlShape, Entered, CallHolds, Lookups, Creations, Ends, Binds
    <2> QED
      BY <1>0, <2>1, <2>2, <2>4 DEF CallShape, CallTypes
  <1>3. CASE Runtimes!LockCreate(u)
    <2>1. PICK place \in {"done", "persist"} : Goes(u, place)
      BY <1>3 DEF Runtimes!LockCreate
    <2>2. rpc[u] = "lock"
      BY <1>3 DEF Runtimes!LockCreate
    <2> QED
      BY <1>0, <2>1, <2>2, GoesShape DEF CallHolds, Entered, Positions, Lookups, Creations, Ends, Binds
  <1>4. CASE Runtimes!Persist(u)
    <2>1. rpc[u] = "persist" /\ UNCHANGED <<op, got>>
      BY <1>4 DEF Runtimes!Persist
    <2>2. CASE Goes(u, "release")
      BY <1>0, <2>1, <2>2, GoesShape
      DEF CallHolds, Entered, Positions, Lookups, Creations, Ends, Binds
    <2>3. CASE \E c \in Children : /\ rpc' = [rpc EXCEPT ![u] = "relate"]
                                   /\ goal' = [goal EXCEPT ![u] = c]
                                   /\ cur' = [cur EXCEPT ![u] = c]
      <3>1. PICK c \in Children : /\ rpc' = [rpc EXCEPT ![u] = "relate"]
                                  /\ goal' = [goal EXCEPT ![u] = c]
                                  /\ cur' = [cur EXCEPT ![u] = c]
        BY <2>3
      <3>2. CallTypes'
        BY <1>0, <2>1, <3>1 DEF CallTypes, Positions, Creations
      <3>3. rpc'[u] = "relate" /\ goal'[u] = c /\ cur'[u] = c /\ op'[u] = op[u]
        BY <1>0, <2>1, <3>1 DEF CallTypes
      <3>4. ControlShape(u) /\ CallHolds(u)'
        BY <2>1, <3>3 DEF ControlShape, Entered, CallHolds, Lookups, Creations, Ends, Binds
      <3> QED
        BY <1>0, <2>1, <3>1, <3>2, <3>4 DEF CallShape, CallTypes
    <2> QED
      BY <1>4, <2>1, <2>2, <2>3 DEF Runtimes!Persist
  <1>5. CASE Runtimes!Relate(u)
    <2>1. rpc[u] = "relate" /\ Goes(u, "bind")
      BY <1>5 DEF Runtimes!Relate
    <2> QED
      BY <1>0, <2>1, GoesShape DEF CallHolds, Entered, Positions, Lookups, Creations, Ends, Binds
  <1>6. CASE Runtimes!Look(u)
    <2>1. rpc[u] = "look" /\ UNCHANGED <<op, goal>>
      BY <1>6 DEF Runtimes!Look
    <2>2. op[u] # "create"
      BY <2>1 DEF CallHolds, Lookups
    <2>3. CASE sessions[cur[u]] # Nobody /\ Runtimes!Continue(u, sessions[cur[u]])
      <3>1. sessions[cur[u]] \in Runtimes!Objects \cup {Failed, Missing}
        BY <1>0, <2>3 DEF CallTypes
      <3> QED
        BY <1>0, <2>1, <2>3, <3>1, ContinueStep DEF Lookups
    <2>4. CASE Goes(u, "load") \/ Goes(u, "bind")
      <3>1. PICK place \in {"load", "bind"} : Goes(u, place)
        BY <2>4
      <3> QED
        BY <1>0, <2>1, <2>2, <3>1, GoesShape
        DEF CallHolds, Entered, Positions, Lookups, Creations, Ends, Binds
    <2>5. CASE /\ rpc' = [rpc EXCEPT ![u] = "look"] /\ cur' = [cur EXCEPT ![u] = Root]
               /\ got' = got
      <3>1. CallTypes'
        BY <1>0, <2>1, <2>5 DEF CallTypes, Positions, Lookups
      <3>2. rpc'[u] = "look" /\ cur'[u] = Root /\ op'[u] = op[u] /\ goal'[u] = goal[u]
        BY <1>0, <2>1, <2>5 DEF CallTypes
      <3>3. ControlShape(u) /\ CallHolds(u)'
        BY <2>1, <2>2, <3>2 DEF ControlShape, Entered, CallHolds, Lookups, Creations, Ends
      <3> QED
        BY <1>0, <2>1, <2>5, <3>1, <3>3 DEF CallShape, CallTypes
    <2> QED
      BY <1>6, <2>1, <2>3, <2>4, <2>5 DEF Runtimes!Look
  <1>7. CASE Runtimes!Load(u)
    <2>1. rpc[u] = "load" /\ UNCHANGED <<op, goal>>
      BY <1>7 DEF Runtimes!Load
    <2>2. op[u] # "create"
      BY <2>1 DEF CallHolds, Lookups
    <2>3. CASE Runtimes!Continue(u, Failed)
      BY <1>0, <2>1, <2>3, ContinueStep DEF Lookups
    <2>4. CASE Goes(u, "record") \/ Goes(u, "bind")
      <3>1. PICK place \in {"record", "bind"} : Goes(u, place)
        BY <2>4
      <3> QED
        BY <1>0, <2>1, <2>2, <3>1, GoesShape
        DEF CallHolds, Entered, Positions, Lookups, Creations, Ends, Binds
    <2> QED
      BY <1>7, <2>1, <2>3, <2>4 DEF Runtimes!Load
  <1>8. CASE Runtimes!Record(u)
    <2>1. /\ rpc[u] = "record" /\ UNCHANGED <<op, goal, got>>
          /\ rpc' = [rpc EXCEPT ![u] = "look"] /\ cur' = [cur EXCEPT ![u] = Root]
      BY <1>8 DEF Runtimes!Record
    <2>2. op[u] # "create"
      BY <2>1 DEF CallHolds, Lookups
    <2>3. CallTypes'
      BY <1>0, <2>1 DEF CallTypes, Positions, Lookups
    <2>4. rpc'[u] = "look" /\ cur'[u] = Root /\ op'[u] = op[u] /\ goal'[u] = goal[u]
      BY <1>0, <2>1 DEF CallTypes
    <2>5. ControlShape(u) /\ CallHolds(u)'
      BY <2>1, <2>2, <2>4 DEF ControlShape, Entered, CallHolds, Lookups, Creations, Ends
    <2> QED
      BY <1>0, <2>1, <2>3, <2>5 DEF CallShape, CallTypes
  <1>9. CASE Runtimes!Bind(u)
    <2>1. rpc[u] = "bind" /\ UNCHANGED <<op, goal>>
      BY <1>9 DEF Runtimes!Bind
    <2>2. op[u] = "create" => cur[u] = goal[u] /\ cur[u] \in Children
      BY <2>1 DEF CallHolds
    <2>3. CASE Runtimes!Continue(u, Failed)
      BY <1>0, <2>1, <2>3, ContinueStep
    <2>4. CASE sessions[cur[u]] # Nobody /\ Runtimes!Continue(u, sessions[cur[u]])
      <3>1. sessions[cur[u]] \in Runtimes!Objects \cup {Failed, Missing}
        BY <1>0, <2>4 DEF CallTypes
      <3> QED
        BY <1>0, <2>1, <2>4, <3>1, ContinueStep
    <2>5. CASE \/ Goes(u, "wait") \/ Goes(u, "build")
               \/ op[u] = "create" /\ Goes(u, "rollback")
      <3>1. PICK place \in {"wait", "build", "rollback"} :
              Goes(u, place) /\ (place = "rollback" => op[u] = "create")
        BY <2>5
      <3> QED
        BY <1>0, <2>1, <2>2, <3>1, GoesShape
        DEF Entered, Positions, Lookups, Creations, Ends, Binds
    <2> QED
      BY <1>9, <2>1, <2>3, <2>4, <2>5 DEF Runtimes!Bind, Runtimes!Rolls
  <1>10. CASE Runtimes!Awake(u)
    <2>1. rpc[u] = "wait" /\ UNCHANGED <<op, goal>>
      BY <1>10 DEF Runtimes!Awake
    <2>2. PICK result \in Runtimes!Objects \cup {Failed, Missing} :
            Runtimes!Continue(u, result)
      <3>1. cur[u] \in Runtimes!Sessions
        BY <1>0 DEF CallTypes
      <3> QED
        BY <1>0, <1>10, <3>1 DEF Runtimes!Awake
    <2> QED
      BY <1>0, <2>1, <2>2, ContinueStep
  <1>11. CASE Runtimes!Build(u)
    <2>1. rpc[u] = "build"
      BY <1>11 DEF Runtimes!Build
    <2>2. PICK place \in {"publish", "rollback", "unbind"} :
            Goes(u, place) /\ (place = "rollback" => op[u] = "create")
      BY <1>11 DEF Runtimes!Build, Runtimes!Rolls
    <2>3. op[u] = "create" => cur[u] = goal[u] /\ cur[u] \in Children
      BY <2>1 DEF CallHolds
    <2> QED
      BY <1>0, <2>1, <2>2, <2>3, GoesShape
      DEF Entered, Positions, Lookups, Creations, Ends, Binds, Undoes
  <1>12. CASE Runtimes!Publish(u)
    <2>1. rpc[u] = "publish" /\ UNCHANGED <<op, goal>> /\ Runtimes!Continue(u, <<u, cur[u]>>)
      BY <1>12 DEF Runtimes!Publish
    <2>2. <<u, cur[u]>> \in Runtimes!Objects
      BY <1>0 DEF CallTypes, Runtimes!Objects
    <2> QED
      BY <1>0, <2>1, <2>2, ContinueStep
  <1>13. CASE Runtimes!Unbind(u)
    <2>1. rpc[u] = "unbind" /\ UNCHANGED <<op, goal>> /\ Runtimes!Continue(u, Failed)
      BY <1>13 DEF Runtimes!Unbind
    <2> QED
      BY <1>0, <2>1, ContinueStep
  <1>14. CASE Runtimes!Rollback(u)
    <2>1. rpc[u] = "rollback"
      BY <1>14 DEF Runtimes!Rollback
    <2>2. PICK place \in {"forget", "unbind", "release"} : Goes(u, place)
      BY <1>14 DEF Runtimes!Rollback
    <2>3. op[u] = "create" /\ cur[u] = goal[u] /\ cur[u] \in Children
      BY <2>1 DEF CallHolds, Creations
    <2> QED
      BY <1>0, <2>1, <2>2, <2>3, GoesShape
      DEF Entered, Positions, Lookups, Creations, Ends, Binds, Undoes
  <1>15. CASE Runtimes!Admit(u) \/ Runtimes!Discard(u)
    <2>1. rpc[u] \in {"admit", "discard"}
      BY <1>15 DEF Runtimes!Admit, Runtimes!Discard
    <2>2. PICK place \in {"release", "discard", "detach"} :
            Goes(u, place) /\ (place = "detach" => rpc[u] = "discard")
      BY <1>15 DEF Runtimes!Admit, Runtimes!Discard
    <2>3. op[u] = "create" /\ cur[u] = goal[u] /\ cur[u] \in Children
      BY <2>1 DEF CallHolds, Creations
    <2> QED
      BY <1>0, <2>1, <2>2, <2>3, GoesShape DEF Entered, Positions, Lookups, Creations, Ends, Binds
  <1>16. CASE Runtimes!Forget(u) \/ Runtimes!Detach(u)
    <2>1. rpc[u] \in {"forget", "detach"} /\ Goes(u, "release")
      BY <1>16 DEF Runtimes!Forget, Runtimes!Detach
    <2>2. op[u] = "create"
      BY <2>1 DEF CallHolds, Creations
    <2> QED
      BY <1>0, <2>1, <2>2, GoesShape DEF Entered, Positions, Lookups, Creations, Ends, Binds
  <1>17. CASE Runtimes!ReleaseCreate(u) \/ Runtimes!Remove(u)
    <2>1. rpc[u] \in {"release", "remove"} /\ Goes(u, "done")
      BY <1>17 DEF Runtimes!ReleaseCreate, Runtimes!Remove
    <2> QED
      BY <1>0, <2>1, GoesShape DEF Entered, Positions, Lookups, Creations, Ends, Binds
  <1>18. CASE Runtimes!Erase(u)
    <2>1. rpc[u] = "erase"
      BY <1>18 DEF Runtimes!Erase
    <2>2. PICK place \in {"remove", "done"} : Goes(u, place)
      BY <1>18 DEF Runtimes!Erase
    <2>3. op[u] # "create"
      BY <2>1 DEF CallHolds
    <2> QED
      BY <1>0, <2>1, <2>2, <2>3, GoesShape DEF Entered, Positions, Lookups, Creations, Ends, Binds
  <1>19. CASE Runtimes!CloseAndSnapshot(u)
    <2>1. rpc[u] = "close"
      BY <1>19 DEF Runtimes!CloseAndSnapshot
    <2>2. PICK place \in {"close", "done"} : Goes(u, place)
      BY <1>19 DEF Runtimes!CloseAndSnapshot
    <2>3. op[u] # "create"
      BY <2>1 DEF CallHolds
    <2> QED
      BY <1>0, <2>1, <2>2, <2>3, GoesShape DEF Entered, Positions, Lookups, Creations, Ends, Binds
  <1> QED
    BY <1>1, <1>2, <1>3, <1>4, <1>5, <1>6, <1>7, <1>8, <1>9, <1>10, <1>11, <1>12, <1>13,
       <1>14, <1>15, <1>16, <1>17, <1>18, <1>19 DEF Performs
\* Which step it is, by the place.
LEMMA StepsAre ==
    ASSUME NEW u \in Binders, Performs(u)
    PROVE  /\ rpc[u] = "lock" => Runtimes!LockCreate(u)
           /\ rpc[u] = "rollback" => Runtimes!Rollback(u)
           /\ rpc[u] = "discard" => Runtimes!Discard(u)
           /\ rpc[u] = "relate" => Runtimes!Relate(u)
           /\ rpc[u] = "bind" => Runtimes!Bind(u)
           /\ rpc[u] = "wait" => Runtimes!Awake(u)
           /\ rpc[u] = "build" => Runtimes!Build(u)
           /\ rpc[u] = "publish" => Runtimes!Publish(u)
           /\ rpc[u] = "admit" => Runtimes!Admit(u)
  BY DEF Performs, Runtimes!CallGet, Runtimes!CallDelete, Runtimes!CallCreate,
     Runtimes!LockCreate, Runtimes!Persist, Runtimes!Relate, Runtimes!Look, Runtimes!Load,
     Runtimes!Record, Runtimes!Bind, Runtimes!Awake, Runtimes!Build, Runtimes!Publish,
     Runtimes!Unbind, Runtimes!Rollback, Runtimes!Forget, Runtimes!Admit, Runtimes!Discard,
     Runtimes!Detach, Runtimes!ReleaseCreate, Runtimes!Erase, Runtimes!Remove,
     Runtimes!CallShutdown, Runtimes!CloseAndSnapshot

\* The steps that change what the repository holds, the flags, the lock and the tasks.
LEMMA StepsChange ==
    ASSUME NEW u \in Binders, Performs(u)
    PROVE  /\ \/ UNCHANGED <<sessions, binding>>
              \/ Runtimes!Bind(u) \/ Runtimes!Publish(u) \/ Runtimes!Unbind(u)
              \/ Runtimes!Forget(u) \/ Runtimes!Detach(u) \/ Runtimes!Remove(u)
           /\ \/ UNCHANGED <<closed, snapshot>>
              \/ Runtimes!CallShutdown(u) \/ Runtimes!CloseAndSnapshot(u)
           /\ childMu' = childMu \/ Runtimes!LockCreate(u) \/ Runtimes!ReleaseCreate(u)
           /\ managed' = managed \/ Runtimes!Admit(u)
           /\ \/ UNCHANGED durable \/ Runtimes!Persist(u)
              \/ durable' = durable \ {cur[u]} /\ UNCHANGED relations
           /\ \/ relations \subseteq relations'
              \/ /\ rpc[u] \in {"forget", "detach"} /\ relations' = relations \ {cur[u]}
                 /\ durable' = durable
           /\ relations' \subseteq relations \cup {cur[u]} /\ dtos' \subseteq dtos \cup {cur[u]}
  <1> USE DEF Runtimes!repo, Runtimes!Keep, Runtimes!calls
  <1>1. CASE \/ \E s \in Runtimes!Sessions : Runtimes!CallGet(u, s) \/ Runtimes!CallDelete(u, s)
             \/ Runtimes!CallCreate(u) \/ Runtimes!LockCreate(u) \/ Runtimes!Persist(u)
             \/ Runtimes!Relate(u) \/ Runtimes!Look(u) \/ Runtimes!Load(u)
    BY <1>1 DEF Runtimes!CallGet, Runtimes!CallDelete, Runtimes!CallCreate,
       Runtimes!LockCreate, Runtimes!Persist, Runtimes!Relate, Runtimes!Look, Runtimes!Load
  <1>2. CASE Runtimes!Record(u) \/ Runtimes!Bind(u) \/ Runtimes!Awake(u) \/ Runtimes!Build(u)
             \/ Runtimes!Publish(u) \/ Runtimes!Unbind(u) \/ Runtimes!Rollback(u)
    BY <1>2 DEF Runtimes!Record, Runtimes!Bind, Runtimes!Awake, Runtimes!Build,
       Runtimes!Publish, Runtimes!Unbind, Runtimes!Rollback
  <1>3. CASE Runtimes!Forget(u) \/ Runtimes!Admit(u) \/ Runtimes!Discard(u)
             \/ Runtimes!Detach(u) \/ Runtimes!ReleaseCreate(u) \/ Runtimes!Erase(u)
             \/ Runtimes!Remove(u) \/ Runtimes!CallShutdown(u)
             \/ Runtimes!CloseAndSnapshot(u)
    BY <1>3 DEF Runtimes!Forget, Runtimes!Admit, Runtimes!Discard, Runtimes!Detach,
       Runtimes!ReleaseCreate, Runtimes!Erase, Runtimes!Remove, Runtimes!CallShutdown,
       Runtimes!CloseAndSnapshot
  <1> QED
    BY <1>1, <1>2, <1>3 DEF Performs

\* A step of one call, with what is known of it.
StepOf(u) ==
    /\ u \in Binders /\ Performs(u) /\ CallShape(u) /\ CallTypes /\ CallHolds(u)
    /\ cur[u] \in Runtimes!Sessions

\* The one session whose runtime and binding a step changes.
SessionShape(u) ==
    \/ UNCHANGED <<sessions, binding>>
    \/ /\ rpc[u] = "bind" /\ rpc'[u] = "build" /\ cur'[u] = cur[u] /\ sessions' = sessions
       /\ ~closed.repository /\ sessions[cur[u]] = Nobody /\ binding[cur[u]] = Nobody
       /\ binding' = [binding EXCEPT ![cur[u]] = u]
    \/ /\ rpc[u] = "publish" /\ binding[cur[u]] = u
       /\ sessions' = [sessions EXCEPT ![cur[u]] = <<u, cur[u]>>]
       /\ binding' = [binding EXCEPT ![cur[u]] = Nobody]
    \/ /\ binding[cur[u]] = u /\ rpc'[u] \notin {"build", "publish", "unbind"}
       /\ sessions' \in {sessions, [sessions EXCEPT ![cur[u]] = Nobody]}
       /\ binding' = [binding EXCEPT ![cur[u]] = Nobody]
    \/ /\ binding' = binding /\ rpc[u] \in {"forget", "detach", "remove"}
       /\ rpc'[u] \notin {"build", "publish", "unbind"}
       /\ sessions' \in {sessions, [sessions EXCEPT ![cur[u]] = Nobody]}

LEMMA SessionsStep ==
    ASSUME RuntimeInv, NEW u, StepOf(u)
    PROVE  SessionShape(u)
  <1>0. u \in Binders /\ CallTypes /\ CallShape(u) /\ CallHolds(u) /\ BindingsHold
    BY DEF RuntimeInv, StepOf
  <1>1. CASE UNCHANGED <<sessions, binding>>
    BY <1>1 DEF SessionShape
  <1>2. CASE Runtimes!Bind(u)
    <2>1. rpc[u] = "bind" /\ sessions' = sessions
      BY <1>2 DEF Runtimes!Bind
    <2>2. CASE binding' = binding
      BY <1>1, <2>1, <2>2
    <2>3. CASE binding' # binding
      <3>1. /\ rpc' = [rpc EXCEPT ![u] = "build"] /\ cur' = cur
            /\ ~closed.repository /\ sessions[cur[u]] = Nobody /\ binding[cur[u]] = Nobody
            /\ binding' = [binding EXCEPT ![cur[u]] = u]
        BY <1>2, <2>3 DEF Runtimes!Bind, Runtimes!Go
      <3>2. rpc'[u] = "build"
        BY <1>0, <3>1 DEF CallTypes
      <3> QED
        BY <2>1, <3>1, <3>2 DEF SessionShape
    <2> QED
      BY <2>2, <2>3
  <1>3. CASE Runtimes!Publish(u)
    <2>1. /\ rpc[u] = "publish" /\ sessions' = [sessions EXCEPT ![cur[u]] = <<u, cur[u]>>]
          /\ binding' = [binding EXCEPT ![cur[u]] = Nobody]
      BY <1>3 DEF Runtimes!Publish
    <2> QED
      BY <1>0, <2>1 DEF BindingsHold, SessionShape
  <1>4. CASE Runtimes!Unbind(u)
    <2>1. /\ rpc[u] = "unbind" /\ sessions' = sessions
          /\ binding' = [binding EXCEPT ![cur[u]] = Nobody]
      BY <1>4 DEF Runtimes!Unbind
    <2>2. binding[cur[u]] = u
      BY <1>0, <2>1 DEF BindingsHold
    <2>3. rpc'[u] \notin {"build", "publish", "unbind"}
      BY <1>0, <2>1 DEF CallShape, ControlShape, Entered
    <2> QED
      BY <2>1, <2>2, <2>3 DEF SessionShape
  <1>5. CASE Runtimes!Forget(u) \/ Runtimes!Detach(u) \/ Runtimes!Remove(u)
    <2>1. rpc[u] \in {"forget", "detach", "remove"}
      BY <1>5 DEF Runtimes!Forget, Runtimes!Detach, Runtimes!Remove
    <2>2. rpc'[u] \notin {"build", "publish", "unbind"}
      BY <1>0, <2>1 DEF CallShape, ControlShape, Entered
    <2>3. CASE Runtimes!Forget(u) /\ binding[cur[u]] = u
      BY <2>2, <2>3 DEF Runtimes!Forget, SessionShape
    <2>4. CASE ~(Runtimes!Forget(u) /\ binding[cur[u]] = u)
      <3>1. /\ binding' = binding
            /\ sessions' \in {sessions, [sessions EXCEPT ![cur[u]] = Nobody]}
        BY <1>5, <2>4 DEF Runtimes!Forget, Runtimes!Detach, Runtimes!Remove
      <3> QED
        BY <2>1, <2>2, <3>1 DEF SessionShape
    <2> QED
      BY <2>3, <2>4
  <1> QED
    BY <1>1, <1>2, <1>3, <1>4, <1>5, StepsChange DEF StepOf
LEMMA BindingsStep ==
    ASSUME RuntimeInv, NEW u, StepOf(u)
    PROVE  BindingsHold'
  <1>0. /\ u \in Binders /\ CallTypes /\ CallShape(u) /\ BindingsHold /\ SessionShape(u)
        /\ RuntimeTypes /\ cur[u] \in Runtimes!Sessions
    BY SessionsStep DEF RuntimeInv, StepOf
  <1>1. u # Nobody /\ \A v \in Binders : v # Nobody
    BY <1>0, RuntimeAssumption
  <1>2. \A v \in Binders : cur[v] \in Runtimes!Sessions
    BY <1>0 DEF CallTypes
  <1>3. ASSUME NEW s \in Runtimes!Sessions, binding'[s] # Nobody PROVE sessions'[s] = Nobody
    <2>1. CASE s = cur[u]
      BY <1>0, <1>3, <2>1 DEF SessionShape, BindingsHold, RuntimeTypes
    <2>2. CASE s # cur[u]
      BY <1>0, <1>3, <2>2 DEF SessionShape, BindingsHold, RuntimeTypes
    <2> QED
      BY <2>1, <2>2
  <1>4. ASSUME NEW v \in Binders \ {u}, rpc'[v] \in {"build", "publish", "unbind"}
        PROVE  binding'[cur'[v]] = v
    <2>1. binding[cur[v]] = v /\ cur'[v] = cur[v]
      BY <1>0, <1>4 DEF CallShape, BindingsHold
    <2> QED
      BY <1>0, <1>1, <1>2, <2>1 DEF SessionShape, RuntimeTypes
  <1>5. ASSUME rpc'[u] \in {"build", "publish", "unbind"} PROVE binding'[cur'[u]] = u
    <2>1. CASE rpc'[u] = "build"
      <3>1. Runtimes!Bind(u)
        BY <1>0, <2>1, StepsAre DEF StepOf, CallShape, ControlShape, Entered
      <3>2. binding' = [binding EXCEPT ![cur[u]] = u] /\ cur' = cur
        <4>1. ~Runtimes!Continue(u, Failed) /\ ~Runtimes!Continue(u, sessions[cur[u]])
          BY <1>0, <2>1 DEF Runtimes!Continue, CallTypes
        <4>2. rpc' # [rpc EXCEPT ![u] = "rollback"] /\ rpc' # [rpc EXCEPT ![u] = "wait"]
          BY <1>0, <2>1 DEF CallTypes
        <4> QED
          BY <3>1, <4>1, <4>2 DEF Runtimes!Bind, Runtimes!Go
      <3> QED
        BY <1>0, <3>2 DEF RuntimeTypes
    <2>2. CASE rpc'[u] = "publish"
      <3>1. rpc[u] = "build" /\ Runtimes!Build(u)
        BY <1>0, <2>2, StepsAre DEF StepOf, CallShape, ControlShape, Entered
      <3>2. UNCHANGED <<binding, cur>>
        BY <3>1 DEF Runtimes!Build, Runtimes!Keep, Runtimes!repo
      <3> QED
        BY <1>0, <3>1, <3>2 DEF BindingsHold
    <2>3. CASE rpc'[u] = "unbind"
      <3>1. CASE rpc[u] = "build"
        <4>1. UNCHANGED <<binding, cur>>
          BY <3>1, StepsAre DEF StepOf, Runtimes!Build, Runtimes!Keep, Runtimes!repo
        <4> QED
          BY <1>0, <3>1, <4>1 DEF BindingsHold
      <3>2. CASE rpc[u] = "rollback"
        <4>1. Runtimes!Rollback(u)
          BY <3>2, StepsAre DEF StepOf
        <4>2. rpc' # [rpc EXCEPT ![u] = "forget"] /\ rpc' # [rpc EXCEPT ![u] = "release"]
          BY <1>0, <2>3 DEF CallTypes
        <4>3. UNCHANGED <<binding, cur>> /\ binding[cur[u]] = u
          BY <4>1, <4>2 DEF Runtimes!Rollback, Runtimes!Go
        <4> QED
          BY <4>3
      <3> QED
        BY <1>0, <2>3, <3>1, <3>2 DEF CallShape, ControlShape, Entered
    <2> QED
      BY <1>5, <2>1, <2>2, <2>3
  <1> QED
    BY <1>3, <1>4, <1>5 DEF BindingsHold

LEMMA RuntimeTypesStep ==
    ASSUME RuntimeInv, NEW u, StepOf(u)
    PROVE  RuntimeTypes'
  <1>0. /\ u \in Binders /\ CallTypes /\ CallShape(u) /\ SessionShape(u) /\ RuntimeTypes
        /\ cur[u] \in Runtimes!Sessions /\ Performs(u)
    BY SessionsStep DEF RuntimeInv, StepOf
  <1>1. durable' \subseteq Runtimes!Sessions
    <2>1. CASE Runtimes!Persist(u)
      BY <1>0, <2>1 DEF Runtimes!Persist, RuntimeTypes, Runtimes!Sessions
    <2>2. CASE ~Runtimes!Persist(u)
      BY <1>0, <2>2, StepsChange DEF RuntimeTypes
    <2> QED
      BY <2>1, <2>2
  <1>2. dtos' \subseteq Runtimes!Sessions /\ relations' \subseteq Runtimes!Sessions
    BY <1>0, StepsChange DEF RuntimeTypes
  <1>3. sessions' \in [Runtimes!Sessions -> Runtimes!Objects \cup {Nobody}]
    <2>1. <<u, cur[u]>> \in Runtimes!Objects
      BY <1>0 DEF Runtimes!Objects
    <2> QED
      BY <1>0, <2>1 DEF SessionShape, RuntimeTypes
  <1>4. binding' \in [Runtimes!Sessions -> Binders \cup {Nobody}]
    BY <1>0 DEF SessionShape, RuntimeTypes
  <1>5. closed' \in [user : BOOLEAN, repository : BOOLEAN]
    <2>1. \/ closed' = closed \/ closed' = [closed EXCEPT !.user = TRUE]
          \/ closed' = [closed EXCEPT !.repository = TRUE]
      BY <1>0, StepsChange DEF Runtimes!CallShutdown, Runtimes!CloseAndSnapshot
    <2> QED
      BY <1>0, <2>1 DEF RuntimeTypes
  <1>6. childMu' \in Binders \cup {Nobody}
    BY <1>0, StepsChange DEF RuntimeTypes, Runtimes!LockCreate, Runtimes!ReleaseCreate
  <1> QED
    BY <1>0, <1>1, <1>2, <1>3, <1>4, <1>5, <1>6 DEF RuntimeTypes, CallShape

LEMMA SnapshotStep ==
    ASSUME RuntimeInv, NEW u, StepOf(u)
    PROVE  SnapshotHolds'
  <1>0. /\ u \in Binders /\ Performs(u) /\ SessionShape(u) /\ RuntimeTypes /\ SnapshotHolds
        /\ cur[u] \in Runtimes!Sessions /\ u # Nobody
    BY SessionsStep, RuntimeAssumption DEF RuntimeInv, StepOf
  <1>1. CASE Runtimes!CloseAndSnapshot(u)
    <2>1. closed' = [closed EXCEPT !.repository = TRUE] /\ UNCHANGED <<sessions, binding>>
      BY <1>1 DEF Runtimes!CloseAndSnapshot, Runtimes!repo
    <2>2. closed'.repository
      BY <1>0, <2>1 DEF RuntimeTypes
    <2>3. \/ snapshot' = Runtimes!Bound /\ \A s \in Runtimes!Sessions : binding[s] = Nobody
          \/ snapshot' = snapshot
      BY <1>1 DEF Runtimes!CloseAndSnapshot
    <2>4. Runtimes!Bound' = Runtimes!Bound
      BY <2>1 DEF Runtimes!Bound
    <2> QED
      BY <1>0, <2>1, <2>2, <2>3, <2>4 DEF SnapshotHolds
  <1>2. CASE ~Runtimes!CloseAndSnapshot(u)
    <2>1. snapshot' = snapshot /\ (closed' = closed \/ closed' = [closed EXCEPT !.user = TRUE])
      BY <1>0, <1>2, StepsChange DEF Runtimes!CallShutdown
    <2>2. closed'.repository = closed.repository
      BY <1>0, <2>1 DEF RuntimeTypes
    <2> SUFFICES ASSUME snapshot # Nobody
                 PROVE  /\ Runtimes!Bound' \subseteq snapshot
                        /\ \A s \in Runtimes!Sessions : binding'[s] = Nobody
      BY <1>0, <2>1, <2>2 DEF SnapshotHolds
    <2>3. /\ closed.repository /\ Runtimes!Bound \subseteq snapshot
          /\ \A s \in Runtimes!Sessions : binding[s] = Nobody
      BY <1>0 DEF SnapshotHolds
    <2>4. /\ binding' = binding
          /\ sessions' \in {sessions, [sessions EXCEPT ![cur[u]] = Nobody]}
      BY <1>0, <2>3 DEF SessionShape
    <2>5. \A s \in Runtimes!Sessions : sessions'[s] \in {sessions[s], Nobody}
      BY <1>0, <2>4 DEF RuntimeTypes
    <2>6. Runtimes!Bound' \subseteq Runtimes!Bound
      BY <2>5 DEF Runtimes!Bound
    <2> QED
      BY <2>3, <2>4, <2>6
  <1> QED
    BY <1>1, <1>2

LEMMA MutexStep ==
    ASSUME RuntimeInv, NEW u, StepOf(u)
    PROVE  MutexHolds'
  <1>0. /\ u \in Binders /\ Performs(u) /\ CallShape(u) /\ MutexHolds /\ CallTypes
        /\ CallHolds(u)
    BY DEF RuntimeInv, StepOf
  <1>1. ASSUME NEW v \in Binders \ {u}, op[v] = "create", rpc[v] \notin {"idle", "lock", "done"}
        PROVE  childMu' = v
    <2>1. childMu = v /\ v # Nobody
      BY <1>0, <1>1, RuntimeAssumption DEF MutexHolds
    <2>2. ASSUME Runtimes!ReleaseCreate(u) PROVE FALSE
      <3>1. rpc[u] = "release"
        BY <2>2 DEF Runtimes!ReleaseCreate
      <3>2. childMu = u
        BY <1>0, <3>1 DEF CallHolds, Creations, MutexHolds
      <3> QED
        BY <1>1, <2>1, <3>2
    <2>3. Runtimes!LockCreate(u) => FALSE
      BY <2>1 DEF Runtimes!LockCreate
    <2> QED
      BY <1>0, <2>1, <2>2, <2>3, StepsChange
  <1>2. ASSUME op'[u] = "create", rpc'[u] \notin {"idle", "lock", "done"}
        PROVE  childMu' = u
    <2>1. CASE rpc[u] = "lock"
      <3>1. Runtimes!LockCreate(u)
        BY <1>0, <2>1, StepsAre
      <3>2. rpc' # [rpc EXCEPT ![u] = "done"]
        BY <1>0, <1>2 DEF CallTypes
      <3> QED
        BY <3>1, <3>2 DEF Runtimes!LockCreate, Runtimes!Go
    <2>2. CASE rpc[u] # "lock"
      <3>1. op[u] = "create" /\ rpc[u] \notin {"idle", "lock", "done"}
        BY <1>0, <1>2, <2>2 DEF CallShape, ControlShape
      <3>2. childMu = u
        BY <1>0, <3>1 DEF MutexHolds
      <3>3. ~Runtimes!LockCreate(u)
        BY <2>2 DEF Runtimes!LockCreate
      <3>4. ~Runtimes!ReleaseCreate(u)
        BY <1>0, <1>2 DEF Runtimes!ReleaseCreate, Runtimes!Go, CallTypes
      <3> QED
        BY <1>0, <3>2, <3>3, <3>4, StepsChange
    <2> QED
      BY <2>1, <2>2
  <1> QED
    BY <1>0, <1>1, <1>2 DEF MutexHolds, CallShape
LEMMA ForgetsStep ==
    ASSUME RuntimeInv, NEW u, StepOf(u)
    PROVE  ForgetsHold'
  <1>0. /\ u \in Binders /\ Performs(u) /\ CallShape(u) /\ ForgetsHold /\ CallTypes
        /\ \A v \in Binders : CallHolds(v)
    BY DEF RuntimeInv, StepOf
  <1>1. ASSUME NEW v \in Binders \ {u}, rpc[v] \in {"forget", "detach"}
        PROVE  cur[v] \notin durable'
    <2>1. cur[v] \notin durable
      BY <1>0, <1>1 DEF ForgetsHold
    <2>2. cur[v] = goal[v]
      BY <1>0, <1>1 DEF CallHolds, Creations
    <2>3. CASE Runtimes!Persist(u)
      BY <2>1, <2>2, <2>3 DEF Runtimes!Persist
    <2>4. CASE ~Runtimes!Persist(u)
      BY <1>0, <2>1, <2>4, StepsChange
    <2> QED
      BY <2>3, <2>4
  <1>2. ASSUME rpc'[u] \in {"forget", "detach"} PROVE cur'[u] \notin durable'
    <2>1. Runtimes!Rollback(u) \/ Runtimes!Discard(u)
      BY <1>0, <1>2, StepsAre DEF CallShape, ControlShape, Entered
    <2>2. rpc' # [rpc EXCEPT ![u] = "release"] /\ rpc' # [rpc EXCEPT ![u] = "unbind"]
      BY <1>0, <1>2 DEF CallTypes
    <2>3. durable' = durable \ {cur[u]} /\ cur' = cur
      BY <2>1, <2>2 DEF Runtimes!Rollback, Runtimes!Discard, Runtimes!Go
    <2> QED
      BY <2>3
  <1> QED
    BY <1>0, <1>1, <1>2 DEF ForgetsHold, CallShape

LEMMA ReachStep ==
    ASSUME RuntimeInv, NEW u, StepOf(u)
    PROVE  Runtimes!ChildReachable'
  <1>0. /\ u \in Binders /\ Performs(u) /\ CallShape(u) /\ ForgetsHold /\ CallTypes
        /\ Runtimes!ChildReachable
    BY DEF RuntimeInv, StepOf
  <1> SUFFICES ASSUME NEW c \in Children, c \in durable'
               PROVE  c \in relations' \/ \E v \in Binders : rpc'[v] = "relate" /\ cur'[v] = c
    BY DEF Runtimes!ChildReachable
  <1>1. CASE c \in durable
    <2>1. c \in relations \/ \E v \in Binders : rpc[v] = "relate" /\ cur[v] = c
      BY <1>0, <1>1 DEF Runtimes!ChildReachable
    <2>2. CASE c \in relations
      <3>1. rpc[u] \in {"forget", "detach"} => cur[u] # c
        BY <1>0, <1>1 DEF ForgetsHold
      <3> QED
        BY <1>0, <2>2, <3>1, StepsChange
    <2>3. ASSUME NEW v \in Binders, rpc[v] = "relate", cur[v] = c, c \notin relations
          PROVE  c \in relations' \/ (rpc'[v] = "relate" /\ cur'[v] = c)
      <3>1. CASE v = u
        <4>1. Runtimes!Relate(u)
          BY <1>0, <2>3, <3>1, StepsAre
        <4> QED
          BY <2>3, <3>1, <4>1 DEF Runtimes!Relate
      <3>2. CASE v # u
        BY <1>0, <2>3, <3>2 DEF CallShape
      <3> QED
        BY <3>1, <3>2
    <2> QED
      BY <2>1, <2>2, <2>3
  <1>2. CASE c \notin durable
    <2>1. Runtimes!Persist(u)
      BY <1>0, <1>2, StepsChange
    <2>2. rpc' = [rpc EXCEPT ![u] = "relate"] /\ cur' = [cur EXCEPT ![u] = c]
      BY <1>2, <2>1 DEF Runtimes!Persist, Runtimes!Go
    <2> QED
      BY <1>0, <2>2 DEF CallTypes
  <1> QED
    BY <1>1, <1>2

\* What an end of a call has built stays built.
StaysBuilt(x, s) == \E v \in Binders : x = <<v, s>> /\ rpc'[v] \in Ends

LEMMA BuiltStays ==
    ASSUME CallTypes, NEW u \in Binders, CallShape(u), NEW x, NEW s, BuiltBy(x, s)
    PROVE  StaysBuilt(x, s)
  <1>1. PICK v \in Binders : x = <<v, s>> /\ rpc[v] \in Ends
    BY DEF BuiltBy
  <1>2. rpc'[v] \in Ends
    BY <1>1 DEF CallShape, ControlShape
  <1> QED
    BY <1>1, <1>2 DEF StaysBuilt

\* A result that is admitted is the runtime of the session at hand, or none.
LEMMA ResultsAre ==
    ASSUME RuntimeInv, NEW u, StepOf(u), rpc'[u] = "admit"
    PROVE  got'[u] = Missing \/ StaysBuilt(got'[u], cur'[u])
  <1>0. /\ u \in Binders /\ Performs(u) /\ CallShape(u) /\ CallTypes /\ CallHolds(u)
        /\ RuntimeTypes /\ ObjectsHold /\ cur[u] \in Runtimes!Sessions
    BY DEF RuntimeInv, StepOf
  <1>1. op'[u] = "create"
    BY <1>0 DEF CallShape, CallHolds, Creations
  <1>2. op[u] = "create" /\ rpc[u] \in {"bind", "wait", "publish"}
    BY <1>0, <1>1 DEF CallShape, ControlShape, Entered, CallHolds
  <1>3. cur[u] = goal[u] /\ cur[u] \in Children
    BY <1>0, <1>2 DEF CallHolds
  <1>4. ASSUME NEW result, result \in Runtimes!Objects \cup {Failed, Missing},
               Runtimes!Continue(u, result), UNCHANGED <<op, goal>>
        PROVE  got'[u] = result /\ cur'[u] = cur[u] /\ result # Failed
    BY <1>0, <1>2, <1>3, <1>4, ContinueStep DEF ContinueShape
  <1>5. ASSUME sessions[cur[u]] # Nobody PROVE StaysBuilt(sessions[cur[u]], cur[u])
    <2>1. BuiltBy(sessions[cur[u]], cur[u])
      BY <1>0, <1>3, <1>5 DEF ObjectsHold
    <2> QED
      BY <1>0, <2>1, BuiltStays
  <1>6. sessions[cur[u]] # Nobody => sessions[cur[u]] \in Runtimes!Objects
    BY <1>0 DEF RuntimeTypes
  <1>7. CASE rpc[u] = "bind"
    <2>1. Runtimes!Bind(u) /\ UNCHANGED <<op, goal>>
      BY <1>0, <1>7, StepsAre DEF Runtimes!Bind
    <2>2. ~Runtimes!Continue(u, Failed)
      BY <1>4, <2>1
    <2>3. \A place \in {"rollback", "wait", "build"} : rpc' # [rpc EXCEPT ![u] = place]
      BY <1>0 DEF CallTypes
    <2>4. sessions[cur[u]] # Nobody /\ Runtimes!Continue(u, sessions[cur[u]])
      BY <1>2, <2>1, <2>2, <2>3 DEF Runtimes!Bind, Runtimes!Go, Runtimes!Rolls
    <2> QED
      BY <1>4, <1>5, <1>6, <2>1, <2>4
  <1>8. CASE rpc[u] = "wait"
    <2>1. Runtimes!Awake(u) /\ UNCHANGED <<op, goal>>
      BY <1>0, <1>8, StepsAre DEF Runtimes!Awake
    <2>2. \/ Runtimes!Continue(u, Failed) \/ Runtimes!Continue(u, Missing)
          \/ sessions[cur[u]] # Nobody /\ Runtimes!Continue(u, sessions[cur[u]])
      BY <2>1 DEF Runtimes!Awake
    <2>3. ~Runtimes!Continue(u, Failed)
      BY <1>4, <2>1
    <2>4. Runtimes!Continue(u, Missing) => got'[u] = Missing
      BY <1>4, <2>1
    <2> QED
      BY <1>4, <1>5, <1>6, <2>1, <2>2, <2>3, <2>4
  <1>9. CASE rpc[u] = "publish"
    <2>1. Runtimes!Continue(u, <<u, cur[u]>>) /\ UNCHANGED <<op, goal>>
      BY <1>0, <1>9, StepsAre DEF Runtimes!Publish
    <2>2. <<u, cur[u]>> \in Runtimes!Objects
      BY <1>0 DEF Runtimes!Objects
    <2>3. got'[u] = <<u, cur[u]>> /\ cur'[u] = cur[u]
      BY <1>4, <2>1, <2>2
    <2> QED
      BY <1>0, <2>3 DEF StaysBuilt, Ends
  <1> QED
    BY <1>2, <1>7, <1>8, <1>9

LEMMA ObjectsStep ==
    ASSUME RuntimeInv, NEW u, StepOf(u)
    PROVE  ObjectsHold'
  <1>0. /\ u \in Binders /\ Performs(u) /\ CallShape(u) /\ CallTypes /\ CallHolds(u)
        /\ RuntimeTypes /\ ObjectsHold /\ cur[u] \in Runtimes!Sessions /\ SessionShape(u)
    BY SessionsStep DEF RuntimeInv, StepOf
  <1>1. Children \subseteq Runtimes!Sessions /\ Root \notin Children
    BY RuntimeAssumption DEF Runtimes!Sessions
  <1>2. ASSUME NEW s \in Children, sessions'[s] # Nobody PROVE StaysBuilt(sessions'[s], s)
    <2>1. CASE sessions'[s] = sessions[s]
      <3>1. BuiltBy(sessions[s], s)
        BY <1>0, <1>2, <2>1 DEF ObjectsHold
      <3> QED
        BY <1>0, <2>1, <3>1, BuiltStays
    <2>2. CASE sessions'[s] # sessions[s]
      <3>1. s = cur[u] /\ rpc[u] = "publish" /\ sessions'[s] = <<u, cur[u]>>
        BY <1>0, <1>1, <1>2, <2>2 DEF SessionShape, RuntimeTypes
      <3>2. Runtimes!Continue(u, <<u, cur[u]>>) /\ UNCHANGED <<op, goal>>
        BY <1>0, <3>1, StepsAre DEF Runtimes!Publish
      <3>3. cur[u] = goal[u]
        BY <1>0, <1>1, <1>2, <3>1 DEF CallHolds
      <3>4. <<u, cur[u]>> \in Runtimes!Objects
        BY <1>0 DEF Runtimes!Objects
      <3>5. rpc'[u] \in Ends
        BY <1>0, <3>1, <3>2, <3>3, <3>4, ContinueStep DEF ContinueShape, Ends
      <3> QED
        BY <1>0, <3>1, <3>5 DEF StaysBuilt
    <2> QED
      BY <2>1, <2>2
  <1>3. ASSUME NEW v \in Binders, rpc'[v] = "admit"
        PROVE  got'[v] = Missing \/ StaysBuilt(got'[v], cur'[v])
    <2>1. CASE v = u
      BY <1>3, <2>1, ResultsAre
    <2>2. CASE v # u
      <3>1. got'[v] = got[v] /\ cur'[v] = cur[v] /\ rpc[v] = "admit"
        BY <1>0, <1>3, <2>2 DEF CallShape
      <3>2. got[v] = Missing \/ BuiltBy(got[v], cur[v])
        BY <1>0, <3>1 DEF ObjectsHold
      <3> QED
        BY <1>0, <3>1, <3>2, BuiltStays
    <2> QED
      BY <2>1, <2>2
  <1>4. ASSUME NEW x \in managed' PROVE x = Missing \/ \E s \in Children : StaysBuilt(x, s)
    <2>1. CASE x \in managed
      <3>1. x = Missing \/ \E s \in Children : BuiltBy(x, s)
        BY <1>0, <2>1 DEF ObjectsHold
      <3> QED
        BY <1>0, <3>1, BuiltStays
    <2>2. CASE x \notin managed
      <3>1. Runtimes!Admit(u)
        BY <1>0, <1>4, <2>2, StepsChange
      <3>2. x = got[u] /\ rpc[u] = "admit"
        BY <1>4, <2>2, <3>1 DEF Runtimes!Admit
      <3>3. got[u] = Missing \/ BuiltBy(got[u], cur[u])
        BY <1>0, <3>2 DEF ObjectsHold
      <3>4. cur[u] \in Children
        BY <1>0, <3>2 DEF CallHolds, Creations
      <3> QED
        BY <1>0, <3>2, <3>3, <3>4, BuiltStays
    <2> QED
      BY <2>1, <2>2
  <1>5. ASSUME NEW s \in Runtimes!Sessions, sessions'[s] # Nobody PROVE sessions'[s][2] = s
    BY <1>0, <1>5 DEF SessionShape, RuntimeTypes, ObjectsHold
  <1> QED
    BY <1>2, <1>3, <1>4, <1>5 DEF ObjectsHold, BuiltBy, StaysBuilt

LEMMA RegisteredIsFinite ==
    /\ IsFiniteSet(Runtimes!Registered) /\ Cardinality(Runtimes!Registered) \in Nat
    /\ \A s : IsFiniteSet(Runtimes!Registered \cup {s})
  <1>1. IsFiniteSet(Runtimes!Sessions)
    <2>1. Runtimes!Sessions = Children \cup {Root}
      BY DEF Runtimes!Sessions
    <2> QED
      BY <2>1, RuntimeAssumption, FS_AddElement
  <1>2. IsFiniteSet(Runtimes!Registered)
    BY <1>1, FS_Subset DEF Runtimes!Registered
  <1> QED
    BY <1>2, FS_CardinalityType, FS_AddElement

LEMMA SameCardinality == \A xs : Runtimes!Cardinality(xs) = Cardinality(xs)
  BY DEF Runtimes!Cardinality, Cardinality

LEMMA LimitStep ==
    ASSUME RuntimeInv, NEW u, StepOf(u)
    PROVE  LimitHolds'
  <1>0. /\ u \in Binders /\ Performs(u) /\ CallShape(u) /\ CallTypes /\ CallHolds(u)
        /\ RuntimeTypes /\ ObjectsHold /\ LimitHolds /\ MutexHolds /\ SessionShape(u)
        /\ cur[u] \in Runtimes!Sessions
    BY SessionsStep DEF RuntimeInv, StepOf
  <1>1. /\ MaxChildTasks \in Nat /\ Nobody # Missing
        /\ Nobody \notin Runtimes!Objects /\ Missing \notin Runtimes!Objects
    BY RuntimeAssumption DEF Runtimes!Objects, Runtimes!Sessions
  <1>2. Nobody \notin managed /\ (rpc[u] = "publish" => <<u, cur[u]>> \notin managed)
    <2>1. \A x \in managed : x = Missing \/ \E s \in Children, v \in Binders :
                                 x = <<v, s>> /\ rpc[v] \in Ends
      BY <1>0 DEF ObjectsHold, BuiltBy
    <2>2. \A s \in Children, v \in Binders : <<v, s>> \in Runtimes!Objects
      BY DEF Runtimes!Objects, Runtimes!Sessions
    <2>3. <<u, cur[u]>> \in Runtimes!Objects
      BY <1>0 DEF Runtimes!Objects
    <2> QED
      BY <1>1, <2>1, <2>2, <2>3 DEF Ends
  <1>3. ASSUME NEW s \in Runtimes!Sessions, sessions'[s] \in managed PROVE sessions[s] \in managed
    BY <1>0, <1>2, <1>3 DEF SessionShape, RuntimeTypes
  <1>4. CASE ~Runtimes!Admit(u)
    <2>1. managed' = managed
      BY <1>0, <1>4, StepsChange
    <2>2. Runtimes!Registered' \subseteq Runtimes!Registered
      BY <1>3, <2>1 DEF Runtimes!Registered
    <2>3. /\ Cardinality(Runtimes!Registered') \in Nat
          /\ Cardinality(Runtimes!Registered') <= Cardinality(Runtimes!Registered)
      BY <2>2, RegisteredIsFinite, FS_Subset, FS_CardinalityType
    <2>4. ASSUME NEW v \in Binders, op'[v] = "create",
                 rpc'[v] \in {"persist", "relate", "admit"} \cup Binds
          PROVE  Cardinality(Runtimes!Registered) < MaxChildTasks
      <3>1. CASE v = u /\ rpc[u] = "lock"
        <4>1. Runtimes!LockCreate(u)
          BY <1>0, <3>1, StepsAre
        <4>2. rpc' # [rpc EXCEPT ![u] = "done"]
          BY <1>0, <2>4, <3>1 DEF CallTypes, Binds
        <4>3. ~(Cardinality(Runtimes!Registered) >= MaxChildTasks)
          <5> SUFFICES ASSUME Cardinality(Runtimes!Registered) >= MaxChildTasks PROVE FALSE
            OBVIOUS
          <5>1. rpc' = [rpc EXCEPT ![u] = "done"]
            BY <4>1, SameCardinality DEF Runtimes!LockCreate, Runtimes!Go
          <5> QED
            BY <4>2, <5>1
        <4> QED
          BY <1>1, <4>3, RegisteredIsFinite
      <3>2. CASE v = u /\ rpc[u] # "lock"
        <4>1. rpc'[u] # "persist"
          BY <1>0, <3>2 DEF CallShape, ControlShape, Entered
        <4> QED
          BY <1>0, <2>4, <3>2, <4>1 DEF CallShape, ControlShape, LimitHolds
      <3>3. CASE v # u
        BY <1>0, <2>4, <3>3 DEF CallShape, LimitHolds
      <3> QED
        BY <3>1, <3>2, <3>3
    <2>5. Cardinality(Runtimes!Registered) <= MaxChildTasks
      BY <1>0 DEF LimitHolds
    <2> QED
      BY <1>1, <2>3, <2>4, <2>5, RegisteredIsFinite DEF LimitHolds
  <1>5. CASE Runtimes!Admit(u)
    <2>1. /\ rpc[u] = "admit" /\ sessions' = sessions /\ managed' \subseteq managed \cup {got[u]}
          /\ \E place \in {"release", "discard"} : rpc' = [rpc EXCEPT ![u] = place]
      BY <1>5 DEF Runtimes!Admit, Runtimes!Go, Runtimes!repo
    <2>2. op[u] = "create"
      BY <1>0, <2>1 DEF CallHolds, Creations
    <2>3. Cardinality(Runtimes!Registered) < MaxChildTasks
      BY <1>0, <2>1, <2>2 DEF LimitHolds
    <2>4. got[u] = Missing \/ \E v \in Binders : got[u] = <<v, cur[u]>>
      BY <1>0, <2>1 DEF ObjectsHold, BuiltBy
    <2>5. ASSUME NEW s \in Runtimes!Sessions, sessions[s] = got[u] PROVE s = cur[u]
      <3>1. sessions[s] # Nobody /\ sessions[s] # Missing
        BY <1>0, <1>1, <2>4, <2>5 DEF RuntimeTypes, Runtimes!Objects
      <3>2. sessions[s][2] = s
        BY <1>0, <3>1 DEF ObjectsHold
      <3> QED
        BY <2>4, <2>5, <3>1, <3>2
    <2>6. Runtimes!Registered' \subseteq Runtimes!Registered \cup {cur[u]}
      BY <2>1, <2>5 DEF Runtimes!Registered
    <2>7. /\ Cardinality(Runtimes!Registered') \in Nat
          /\ Cardinality(Runtimes!Registered') <= Cardinality(Runtimes!Registered \cup {cur[u]})
          /\ Cardinality(Runtimes!Registered \cup {cur[u]}) \in Nat
          /\ Cardinality(Runtimes!Registered \cup {cur[u]}) <= Cardinality(Runtimes!Registered) + 1
      BY <2>6, RegisteredIsFinite, FS_Subset, FS_CardinalityType, FS_AddElement
    <2>8. Cardinality(Runtimes!Registered') <= MaxChildTasks
      BY <1>1, <2>3, <2>7, RegisteredIsFinite
    <2>9. ASSUME NEW v \in Binders, op'[v] = "create",
                 rpc'[v] \in {"persist", "relate", "admit"} \cup Binds
          PROVE  FALSE
      <3>1. rpc'[u] \in {"release", "discard"}
        BY <1>0, <2>1 DEF CallTypes
      <3>2. v # u
        BY <2>9, <3>1 DEF Binds
      <3>3. op[v] = "create" /\ rpc[v] \in {"persist", "relate", "admit"} \cup Binds
        BY <1>0, <2>9, <3>2 DEF CallShape
      <3>4. childMu = v /\ childMu = u
        BY <1>0, <2>1, <2>2, <3>3 DEF MutexHolds, Binds
      <3> QED
        BY <3>2, <3>4
    <2> QED
      BY <2>8, <2>9 DEF LimitHolds
  <1> QED
    BY <1>4, <1>5
\* Every step of the services is one of a call, or none of SessionRuntimes'.
LEMMA RuntimeSteps ==
    ASSUME RuntimeInv, AllNext \/ UNCHANGED allVars
    PROVE  (\E u \in Binders : StepOf(u)) \/ UNCHANGED runtimesVars
  <1>1. Runtimes!Next \/ UNCHANGED runtimesVars
    BY DEF AllNext, allVars
  <1>2. CASE UNCHANGED runtimesVars
    BY <1>2
  <1>3. CASE Runtimes!Next
    <2>1. (\E u \in Binders : Performs(u)) \/ Runtimes!AllDone
      BY <1>3 DEF Runtimes!Next, Performs
    <2>2. Runtimes!AllDone => UNCHANGED runtimesVars
      BY DEF Runtimes!AllDone, Runtimes!vars, Runtimes!repo, Runtimes!calls, runtimesVars
    <2>3. ASSUME NEW u \in Binders, Performs(u) PROVE StepOf(u)
      <3>1. RuntimeTypes /\ CallTypes /\ CallHolds(u)
        BY DEF RuntimeInv, RuntimeTypes
      <3> QED
        BY <2>3, <3>1, CallStep DEF StepOf, CallTypes
    <2> QED
      BY <2>1, <2>2, <2>3
  <1> QED
    BY <1>1, <1>2, <1>3

LEMMA RuntimeRests ==
    ASSUME RuntimeInv, UNCHANGED runtimesVars
    PROVE  RuntimeInv'
  <1> USE DEF runtimesVars
  <1>1. RuntimeTypes' /\ BindingsHold' /\ SnapshotHolds' /\ MutexHolds'
    BY DEF RuntimeInv, RuntimeTypes, CallTypes, BindingsHold, SnapshotHolds, Runtimes!Bound,
       MutexHolds
  <1>2. ObjectsHold' /\ LimitHolds'
    BY DEF RuntimeInv, ObjectsHold, BuiltBy, LimitHolds, Runtimes!Registered
  <1>3. ForgetsHold' /\ Runtimes!ChildReachable' /\ \A u \in Binders : CallHolds(u)'
    BY DEF RuntimeInv, ForgetsHold, Runtimes!ChildReachable, CallHolds
  <1> QED
    BY <1>1, <1>2, <1>3 DEF RuntimeInv

LEMMA RuntimesStart == AllInit => RuntimeInv
  <1> SUFFICES ASSUME Runtimes!Init PROVE RuntimeInv
    BY DEF AllInit
  <1>1. /\ durable = {Root} /\ dtos = {Root} /\ relations = {}
        /\ sessions = [s \in Runtimes!Sessions |-> Nobody]
        /\ binding = [s \in Runtimes!Sessions |-> Nobody]
        /\ closed = [user |-> FALSE, repository |-> FALSE]
        /\ managed = {} /\ childMu = Nobody /\ snapshot = Nobody
        /\ rpc = [u \in Binders |-> "idle"] /\ op = [u \in Binders |-> Nobody]
        /\ goal = [u \in Binders |-> Root] /\ cur = [u \in Binders |-> Root]
        /\ got = [u \in Binders |-> Nobody]
    BY DEF Runtimes!Init
  <1>2. Root \in Runtimes!Sessions
    BY DEF Runtimes!Sessions
  <1>3. CallTypes
    BY <1>1, <1>2 DEF CallTypes, Positions
  <1>4. closed \in [user : BOOLEAN, repository : BOOLEAN]
    BY <1>1
  <1>5. RuntimeTypes
    BY <1>1, <1>2, <1>3, <1>4 DEF RuntimeTypes
  <1>6. \A u \in Binders : CallHolds(u)
    BY <1>1 DEF CallHolds, Creations, Lookups
  <1>7. BindingsHold /\ SnapshotHolds /\ MutexHolds /\ ForgetsHold
    BY <1>1 DEF BindingsHold, SnapshotHolds, MutexHolds, ForgetsHold
  <1>8. ObjectsHold
    BY <1>1, RuntimeAssumption DEF ObjectsHold, Runtimes!Sessions
  <1>9. LimitHolds
    <2>1. Runtimes!Registered = {}
      BY <1>1 DEF Runtimes!Registered
    <2> QED
      BY <1>1, <2>1, FS_EmptySet, RuntimeAssumption DEF LimitHolds, Binds
  <1>10. Runtimes!ChildReachable
    BY <1>1, RuntimeAssumption DEF Runtimes!ChildReachable
  <1> QED
    BY <1>5, <1>6, <1>7, <1>8, <1>9, <1>10 DEF RuntimeInv

\* RuntimeInv is an invariant of the services of MCRuntime.
THEOREM RuntimeInvariance == AllSpec => []RuntimeInv
  <1>1. RuntimeInv /\ [AllNext]_allVars => RuntimeInv'
    <2> SUFFICES ASSUME RuntimeInv, AllNext \/ UNCHANGED allVars PROVE RuntimeInv'
      BY DEF allVars
    <2>1. ASSUME NEW u \in Binders, StepOf(u) PROVE RuntimeInv'
      <3>1. \A v \in Binders : CallHolds(v)'
        <4>1. CallShape(u) /\ \A v \in Binders : CallHolds(v)
          BY <2>1 DEF StepOf, RuntimeInv
        <4> QED
          BY <4>1 DEF CallShape, CallHolds
      <3> QED
        BY <2>1, <3>1, RuntimeTypesStep, BindingsStep, SnapshotStep, MutexStep, ObjectsStep,
           LimitStep, ForgetsStep, ReachStep DEF RuntimeInv
    <2> QED
      BY <2>1, RuntimeSteps, RuntimeRests
  <1> QED
    BY <1>1, RuntimesStart, PTL DEF AllSpec, allVars

\* RuntimesAccounted of MCRuntime: nothing is bound behind the snapshot of a shutdown, a
\* child that is stored is related to its parent, the limit of managed children holds,
\* and no runtime is replaced by another one (closeAndSnapshot, DiscardChild, CreateChild).
THEOREM RuntimesAreAccounted == AllSpec => RuntimesAccounted
  <1>1. RuntimeInv => Runtimes!ShutdownSeesAll /\ Runtimes!ChildReachable
                      /\ Runtimes!TasksWithinLimit
    <2>1. RuntimeInv => Runtimes!ShutdownSeesAll
      BY DEF RuntimeInv, SnapshotHolds, Runtimes!ShutdownSeesAll
    <2>2. RuntimeInv => Runtimes!TasksWithinLimit
      BY SameCardinality DEF RuntimeInv, LimitHolds, Runtimes!TasksWithinLimit
    <2>3. RuntimeInv => Runtimes!ChildReachable
      BY DEF RuntimeInv
    <2> QED
      BY <2>1, <2>2, <2>3
  <1>2. RuntimeInv /\ [AllNext]_allVars => [Runtimes!OneRuntime]_(Runtimes!vars)
    <2> SUFFICES ASSUME RuntimeInv, AllNext \/ UNCHANGED allVars
                 PROVE  Runtimes!OneRuntime
      BY DEF allVars
    <2>1. CASE UNCHANGED runtimesVars
      BY <2>1 DEF runtimesVars, Runtimes!OneRuntime
    <2>2. ASSUME NEW u \in Binders, StepOf(u) PROVE Runtimes!OneRuntime
      <3>1. /\ SessionShape(u) /\ BindingsHold /\ RuntimeTypes
            /\ cur[u] \in Runtimes!Sessions /\ u # Nobody
        BY <2>2, SessionsStep, RuntimeAssumption DEF RuntimeInv, StepOf
      <3> QED
        BY <3>1 DEF SessionShape, BindingsHold, RuntimeTypes, Runtimes!OneRuntime
    <2> QED
      BY <2>1, <2>2, RuntimeSteps
  <1> QED
    BY <1>1, <1>2, RuntimeInvariance, PTL
    DEF AllSpec, allVars, RuntimesAccounted, Runtimes!RuntimesAccounted
=============================================================================
