---- MODULE LoadingProofs ----
(* What Loading promises for any plan of stages, any number of bundles and *)
(* any number of requests in flight: the page is never opened from a        *)
(* viewer that lacks a part, and what the loading page shows never grows    *)
(* older.                                                                   *)
EXTENDS Loading, FiniteSetTheorems, TLAPS

----------------------------------------------------------------------------
(* The inductive invariant *)

\* done is the last thing Prepare does, and nothing is taken back.
DoneMeansGiven ==
  /\ pc = "pathbuilder" => "cache" \in viewer
  /\ pc \in {"close", "end", "serving"} => viewer = Parts
  /\ done => viewer = Parts

\* Main is inside a stage of the plan.
InPlan == pc \in {"body", "spawn", "wait"} => at \in 1 .. Len(Plan)

\* An answer says only what is or was so.
AnswersAreTrue ==
  \A s \in Slots :
    /\ request[s].at = "copied" => ~request[s].done
    /\ request[s].at = "answered" /\ request[s].done => done
    /\ request[s].at \in {"copied", "answered"} => request[s].edit <= edits

\* The answer the page is going to accept is not older than what it shows; and
\* the page starts over only when it shows nothing, or the server is done.
LatestIsNewer ==
  /\ shown.edit <= edits
  /\ \A s \in Slots :
       s = latest /\ request[s].at \in {"copied", "answered"} /\ ~request[s].done =>
         shown.edit <= request[s].edit
  /\ phase = "opening" /\ shown.edit # 0 => done

Inv == TypeOK /\ DoneMeansGiven /\ InPlan /\ AnswersAreTrue /\ LatestIsNewer /\ ServedIsReady

----------------------------------------------------------------------------
(* The type invariant, by the parts that change separately *)

StatsTypeOK ==
  /\ done \in BOOLEAN /\ current \in CountsType /\ edits \in Nat
  /\ all \in Seq(StageNames)

ServerTypeOK ==
  /\ pc \in Pcs /\ at \in 1 .. Len(Plan) + 1 /\ reported \in 0 .. MaxReports
  /\ worker \in [Workers -> {"unborn", "storing", "stored", "counted", "gone"}]
  /\ finished \in Nat /\ number \in [Workers -> Nat]
  /\ viewer \subseteq Parts

PageTypeOK ==
  /\ served \subseteq Parts
  /\ phase \in {"opening", "loading", "ready"}
  /\ shown \in [text : CountsType, edit : Nat]
  /\ latest \in Slots \union {NoSlot}
  /\ request \in [Slots -> RequestType]

\* The type invariant, by the parts that change separately.
LEMMA TypeByParts == TypeOK <=> StatsTypeOK /\ ServerTypeOK /\ PageTypeOK
BY DEF TypeOK, StatsTypeOK, ServerTypeOK, PageTypeOK

----------------------------------------------------------------------------
\* Each operation of Stats keeps its types, never forgets done and never
\* takes an edit back.
LEMMA StatsOperations ==
  ASSUME StatsTypeOK,
         \/ \E stage \in Stages : Start(stage)
         \/ EndStage
         \/ \E c, t \in Nat : SetCounts(c, t)
         \/ Close
         \/ UNCHANGED statsVars
  PROVE  StatsTypeOK' /\ (done => done') /\ edits <= edits'
<1>0. Ended \in Seq(StageNames)
  BY DEF Ended, StatsTypeOK, CountsType
<1>1. ASSUME NEW stage \in Stages, Start(stage)
      PROVE  StatsTypeOK' /\ (done => done') /\ edits <= edits'
  <2>1. CASE done
    BY <1>1, <2>1 DEF StatsTypeOK, Start, statsVars
  <2>2. CASE ~done
    <3>1. all' \in Seq(StageNames) BY <1>0, <1>1, <2>2 DEF Start
    <3>2. current' = Counts(stage, 0, 0) /\ edits' = edits + 1 /\ UNCHANGED done
      BY <1>1, <2>2 DEF Start, Edit
    <3>3. current' \in CountsType BY <3>2 DEF Counts, CountsType, StageNames
    <3> QED BY <3>1, <3>2, <3>3 DEF StatsTypeOK
  <2> QED BY <2>1, <2>2
<1>2. CASE EndStage
  BY <1>0, <1>2 DEF StatsTypeOK, EndStage, Edit, Idle, Counts, CountsType, StageNames
<1>3. ASSUME NEW c \in Nat, NEW t \in Nat, SetCounts(c, t)
      PROVE  StatsTypeOK' /\ (done => done') /\ edits <= edits'
  BY <1>3 DEF StatsTypeOK, SetCounts, Edit, Counts, CountsType
<1>4. CASE Close
  BY <1>4 DEF StatsTypeOK, Close
<1>5. CASE UNCHANGED statsVars
  BY <1>5 DEF StatsTypeOK, statsVars
<1> QED BY <1>1, <1>2, <1>3, <1>4, <1>5

\* The invariant holds before the first step.
LEMMA Initially == Init => Inv
<1> SUFFICES ASSUME Init PROVE Inv OBVIOUS
<1> USE PlanAssumption, BoundsAssumption DEF Init, StatsInit
<1>1. TypeOK
  <2>1. Idle \in CountsType BY DEF Idle, Counts, CountsType, StageNames
  <2>2. Free \in RequestType /\ Unknown \in [text : CountsType, edit : Nat]
    BY <2>1 DEF Free, Unknown, RequestType
  <2>3. StatsTypeOK
    <3>1. << >> \in Seq(StageNames) OBVIOUS
    <3> QED BY <2>1, <3>1 DEF StatsTypeOK
  <2>4. ServerTypeOK BY DEF ServerTypeOK, Pcs
  <2>5. PageTypeOK BY <2>2 DEF PageTypeOK
  <2> QED BY <2>3, <2>4, <2>5, TypeByParts
<1>2. DoneMeansGiven /\ InPlan BY DEF DoneMeansGiven, InPlan
<1>3. AnswersAreTrue /\ LatestIsNewer
  BY DEF AnswersAreTrue, LatestIsNewer, Free, Unknown, Idle, Counts
<1>4. ServedIsReady BY DEF ServedIsReady
<1> QED BY <1>1, <1>2, <1>3, <1>4 DEF Inv

----------------------------------------------------------------------------
(* The steps of the server leave the page alone, those of the page the server *)

ServerStep == Main \/ FailStage \/ \E w \in Workers : Work(w)

\* What a step of the server does to the statistics is an operation of Stats.
LEMMA ServerUsesStats ==
  ASSUME TypeOK, ServerStep
  PROVE  \/ \E stage \in Stages : Start(stage)
         \/ EndStage
         \/ \E c, t \in Nat : SetCounts(c, t)
         \/ Close
         \/ UNCHANGED statsVars
<1> USE PlanAssumption, BoundsAssumption
<1>1. CASE StartStage
  <2>1. Plan[at] \in Stages BY <1>1 DEF StartStage, TypeOK
  <2> QED BY <1>1, <2>1 DEF StartStage
<1>2. CASE Report
  BY <1>2 DEF Report, TypeOK
<1>3. CASE Spawn
  <2>1. Cardinality(Workers) \in Nat BY FS_CardinalityType
  <2> QED BY <1>3, <2>1 DEF Spawn
<1>4. CASE LeaveStage \/ FailStage \/ EndHandler
  BY <1>4 DEF LeaveStage, FailStage, EndHandler
<1>5. CASE StartHandler BY <1>5 DEF StartHandler
<1>6. CASE Prepare BY <1>6 DEF Prepare, Give, Finish
<1>7. ASSUME NEW w \in Workers, Work(w)
      PROVE  UNCHANGED statsVars \/ \E c, t \in Nat : SetCounts(c, t)
  <2>1. Cardinality(Workers) \in Nat BY FS_CardinalityType
  <2>2. number[w] \in Nat BY DEF TypeOK
  <2> QED BY <1>7, <2>1, <2>2 DEF Work, Stored, Count, WorkerReports
<1> QED BY <1>1, <1>2, <1>3, <1>4, <1>5, <1>6, <1>7 DEF ServerStep, Main

\* A step of the server keeps the types of its variables and the order in
\* which Prepare hands over the parts, and leaves the page alone.
LEMMA ServerSteps ==
  ASSUME Inv, ServerStep
  PROVE  ServerTypeOK' /\ DoneMeansGiven' /\ InPlan' /\ UNCHANGED pageVars
<1> USE PlanAssumption, BoundsAssumption DEF ServerTypeOK, DoneMeansGiven, InPlan
<1>0. ServerTypeOK /\ DoneMeansGiven /\ InPlan /\ Len(Plan) \in Nat /\ done \in BOOLEAN
  BY TypeByParts DEF Inv, StatsTypeOK
<1>1. CASE StartStage
  BY <1>0, <1>1 DEF StartStage, Start, Edit, statsVars, Pcs
<1>2. CASE Report
  BY <1>0, <1>2 DEF Report, SetCounts, Pcs
<1>3. CASE Spawn
  BY <1>0, <1>3 DEF Spawn, SetCounts, Pcs
<1>4. CASE LeaveStage
  BY <1>0, <1>4 DEF LeaveStage, StageIsOver, EndStage, Pcs
<1>5. CASE FailStage
  BY <1>0, <1>5 DEF FailStage, StageIsOver, EndStage, Pcs
<1>6. CASE StartHandler
  BY <1>0, <1>6 DEF StartHandler, Start, Edit, statsVars, Pcs
<1>7. CASE Prepare
  <2>1. CASE Give("cache", "pathbuilder")
    BY <1>0, <2>1 DEF Give, statsVars, Pcs, Parts
  <2>2. CASE Give("pathbuilder", "close")
    BY <1>0, <2>2 DEF Give, statsVars, Pcs, Parts
  <2>3. CASE Finish("close", "end")
    BY <1>0, <2>3 DEF Finish, Close, Pcs
  <2> QED BY <1>7, <2>1, <2>2, <2>3 DEF Prepare
<1>8. CASE EndHandler
  BY <1>0, <1>8 DEF EndHandler, EndStage, Pcs
<1>9. ASSUME NEW w \in Workers, Work(w)
      PROVE  ServerTypeOK' /\ DoneMeansGiven' /\ InPlan' /\ UNCHANGED pageVars
  <2>1. CASE Stored(w) BY <1>0, <2>1 DEF Stored, statsVars, Pcs
  <2>2. CASE Count(w) BY <1>0, <2>2 DEF Count, statsVars, Pcs
  <2>3. CASE WorkerReports(w) BY <1>0, <2>3 DEF WorkerReports, SetCounts, Pcs
  <2> QED BY <1>9, <2>1, <2>2, <2>3 DEF Work
<1> QED BY <1>1, <1>2, <1>3, <1>4, <1>5, <1>6, <1>7, <1>8, <1>9 DEF ServerStep, Main

\* The invariant survives the steps of the server: done rises only when
\* everything was given, and the edits only grow.
LEMMA ServerKeepsInv == ASSUME Inv, ServerStep PROVE Inv'
<1>1. StatsTypeOK' /\ (done => done') /\ edits <= edits'
  BY StatsOperations, ServerUsesStats, TypeByParts DEF Inv
<1>2. ServerTypeOK' /\ DoneMeansGiven' /\ InPlan' /\ UNCHANGED pageVars
  BY ServerSteps
<1>3. PageTypeOK' BY <1>2, TypeByParts DEF Inv, PageTypeOK, pageVars
<1>4. TypeOK' BY <1>1, <1>2, <1>3 DEF TypeOK, StatsTypeOK, ServerTypeOK, PageTypeOK
<1>5. AnswersAreTrue'
  <2> SUFFICES ASSUME NEW s \in Slots
               PROVE  /\ request[s].at = "copied" => ~request[s].done
                      /\ request[s].at = "answered" /\ request[s].done => done'
                      /\ request[s].at \in {"copied", "answered"} => request[s].edit <= edits'
    BY <1>2 DEF AnswersAreTrue, pageVars
  <2>1. request[s].edit \in Nat /\ edits \in Nat /\ edits' \in Nat
    BY <1>1, TypeByParts DEF Inv, StatsTypeOK, PageTypeOK, RequestType
  <2> QED BY <1>1, <2>1 DEF Inv, AnswersAreTrue
<1>6. LatestIsNewer'
  <2>1. shown.edit \in Nat /\ edits \in Nat /\ edits' \in Nat
    BY <1>1, TypeByParts DEF Inv, StatsTypeOK, PageTypeOK
  <2> QED BY <1>1, <1>2, <2>1 DEF Inv, LatestIsNewer, pageVars
<1>7. ServedIsReady' BY <1>2 DEF Inv, ServedIsReady, pageVars
<1> QED BY <1>2, <1>4, <1>5, <1>6, <1>7 DEF Inv

----------------------------------------------------------------------------
(* Requests and the page: the server stays as it is *)

\* What depends on the server alone survives the steps of the browser.
LEMMA ServerUntouched ==
  ASSUME Inv, UNCHANGED <<statsVars, serverVars>>, PageTypeOK'
  PROVE  TypeOK' /\ DoneMeansGiven' /\ InPlan'
<1>1. StatsTypeOK' BY TypeByParts DEF Inv, StatsTypeOK, statsVars
<1>2. ServerTypeOK' BY TypeByParts DEF Inv, ServerTypeOK, serverVars
<1>3. DoneMeansGiven' /\ InPlan'
  BY DEF Inv, DoneMeansGiven, InPlan, statsVars, serverVars
<1>4. TypeOK' BY <1>1, <1>2 DEF TypeOK, StatsTypeOK, ServerTypeOK, PageTypeOK
<1> QED BY <1>3, <1>4

BrowserStep == Open \/ \E s \in Slots : Handle(s) \/ Break(s) \/ Tick(s) \/ Receive(s)

\* A step of a request or of the page keeps the server as it is.
LEMMA BrowserLeavesServer ==
  ASSUME BrowserStep PROVE UNCHANGED <<statsVars, serverVars>>
BY DEF BrowserStep, Open, Handle, Look, CheckAgain, Break, Tick, Receive

\* What a request may become, as far as the invariant looks at it.
Truthful(r) ==
  /\ r \in RequestType
  /\ r.at = "copied" => ~r.done
  /\ r.at = "answered" /\ r.done => done
  /\ r.at \in {"copied", "answered"} => r.edit <= edits

\* When one request changes to another truthful one, all of them stay truthful.
LEMMA OneRequestMoves ==
  ASSUME Inv, NEW s \in Slots, NEW r, Truthful(r),
         UNCHANGED <<statsVars, serverVars>>,
         request' = [request EXCEPT ![s] = r]
  PROVE  request' \in [Slots -> RequestType] /\ AnswersAreTrue'
<1>1. request \in [Slots -> RequestType] /\ AnswersAreTrue
  BY DEF Inv, TypeOK
<1>2. request' \in [Slots -> RequestType] BY <1>1 DEF Truthful
<1>3. AnswersAreTrue'
  <2> SUFFICES ASSUME NEW t \in Slots
               PROVE  /\ request'[t].at = "copied" => ~request'[t].done
                      /\ request'[t].at = "answered" /\ request'[t].done => done'
                      /\ request'[t].at \in {"copied", "answered"} => request'[t].edit <= edits'
    BY DEF AnswersAreTrue
  <2>1. UNCHANGED <<done, edits>> BY DEF statsVars
  <2>2. CASE t = s
    <3>1. request'[t] = r BY <1>1, <2>2
    <3> QED BY <2>1, <3>1 DEF Truthful
  <2>3. CASE t # s
    <3>1. request'[t] = request[t] BY <1>1, <2>3
    <3> QED BY <1>1, <2>1, <3>1 DEF AnswersAreTrue
  <2> QED BY <2>2, <2>3
<1> QED BY <1>2, <1>3

\* Progress answers truthfully, and from a copy that is not older than the
\* page when the request is the latest.
LEMMA HandleKeepsInv == ASSUME Inv, NEW s \in Slots, Handle(s) PROVE Inv'
<1> DEFINE old == request[s]
           copy == [at |-> "copied", done |-> FALSE, seen |-> current, edit |-> edits]
           yes == Answer(TRUE, Free)
           no == Answer(FALSE, old)
<1>0. /\ UNCHANGED <<statsVars, serverVars, phase, shown, latest, served>>
      /\ done \in BOOLEAN /\ current \in CountsType /\ edits \in Nat
      /\ old \in RequestType /\ request \in [Slots -> RequestType]
  BY DEF Handle, Look, CheckAgain, Inv, TypeOK
<1>1. /\ yes.at = "answered" /\ yes.done = TRUE /\ yes.edit = 0
      /\ no.at = "answered" /\ no.done = FALSE /\ no.edit = old.edit
      /\ copy.at = "copied" /\ copy.done = FALSE /\ copy.edit = edits
      /\ yes \in RequestType /\ no \in RequestType /\ copy \in RequestType
  <2>1. Free.seen \in CountsType /\ Free.edit = 0
    BY DEF Free, Idle, Counts, CountsType, StageNames
  <2>2. old.seen \in CountsType /\ old.edit \in Nat BY <1>0 DEF RequestType
  <2> QED BY <1>0, <2>1, <2>2 DEF Answer, RequestType
<1>2. PICK r \in {yes, copy, no} :
        /\ request' = [request EXCEPT ![s] = r]
        /\ r = yes => done
        /\ r = no => old.at = "copied"
  <2>1. ASSUME Look(s), done PROVE request' = [request EXCEPT ![s] = yes]
    BY <2>1 DEF Look, Move
  <2>2. ASSUME Look(s), ~done PROVE request' = [request EXCEPT ![s] = copy]
    BY <2>2 DEF Look, Move
  <2>3. ASSUME CheckAgain(s), done PROVE request' = [request EXCEPT ![s] = yes]
    BY <2>3 DEF CheckAgain, Move
  <2>4. ASSUME CheckAgain(s), ~done
        PROVE  request' = [request EXCEPT ![s] = no] /\ old.at = "copied"
    BY <2>4 DEF CheckAgain, Move
  <2> QED BY <1>1, <2>1, <2>2, <2>3, <2>4 DEF Handle
<1> HIDE DEF yes, copy, no
<1>3. Truthful(r)
  <2>1. CASE r = yes BY <1>0, <1>1, <1>2, <2>1 DEF Truthful
  <2>2. CASE r = copy BY <1>0, <1>1, <2>2 DEF Truthful
  <2>3. CASE r = no
    <3>1. old.edit <= edits BY <1>2, <2>3 DEF Inv, AnswersAreTrue
    <3> QED BY <1>1, <2>3, <3>1 DEF Truthful
  <2> QED BY <1>2, <2>1, <2>2, <2>3
<1>4. request' \in [Slots -> RequestType] /\ AnswersAreTrue'
  BY <1>0, <1>2, <1>3, OneRequestMoves
<1>5. PageTypeOK' BY <1>0, <1>4, TypeByParts DEF Inv, PageTypeOK
<1>6. TypeOK' /\ DoneMeansGiven' /\ InPlan' BY <1>0, <1>5, ServerUntouched
<1>7. LatestIsNewer'
  <2>1. shown.edit <= edits /\ shown.edit \in Nat BY DEF Inv, LatestIsNewer, TypeOK
  <2>2. ASSUME s = latest, ~r.done PROVE shown.edit <= r.edit
    BY <1>0, <1>1, <1>2, <2>1, <2>2 DEF Inv, LatestIsNewer, AnswersAreTrue
  <2>3. \A t \in Slots :
          t = latest /\ request'[t].at \in {"copied", "answered"} /\ ~request'[t].done =>
            shown.edit <= request'[t].edit
    BY <1>0, <1>2, <2>2 DEF Inv, LatestIsNewer
  <2> QED BY <1>0, <2>3 DEF Inv, LatestIsNewer, statsVars
<1>8. ServedIsReady' BY <1>0 DEF Inv, ServedIsReady
<1> QED BY <1>4, <1>6, <1>7, <1>8 DEF Inv

\* A new request is truthful, and so is a slot that is free.
LEMMA FreshRequests == Truthful(Sent) /\ Truthful(Free)
BY DEF Truthful, Sent, Free, Idle, Counts, CountsType, StageNames, RequestType

\* Opening the page: the viewer has all parts, or the page starts over.
LEMMA OpenKeepsInv == ASSUME Inv, Open PROVE Inv'
<1>0. UNCHANGED <<statsVars, serverVars>> /\ done \in BOOLEAN BY DEF Open, Inv, TypeOK
<1>1. CASE done
  <2>1. phase' = "ready" /\ served' = Parts /\ UNCHANGED <<shown, latest, request>>
    BY <1>1 DEF Open, Inv, DoneMeansGiven
  <2>2. PageTypeOK' BY <2>1, TypeByParts DEF Inv, PageTypeOK
  <2>3. AnswersAreTrue' BY <1>0, <2>1 DEF Inv, AnswersAreTrue, statsVars
  <2>4. LatestIsNewer' BY <1>0, <2>1 DEF Inv, LatestIsNewer, statsVars
  <2>5. ServedIsReady' BY <2>1 DEF ServedIsReady, Parts
  <2> QED BY <1>0, <2>2, <2>3, <2>4, <2>5, ServerUntouched DEF Inv
<1>2. CASE ~done
  <2>0. PICK s \in Slots :
          /\ phase' = "loading" /\ shown' = Unknown /\ latest' = s
          /\ request' = [t \in Slots |-> IF t = s THEN Sent ELSE Free]
          /\ served' = served
    BY <1>2 DEF Open
  <2>1. /\ \A t \in Slots : request'[t] = Sent \/ request'[t] = Free
        /\ request' \in [Slots -> RequestType]
    BY <2>0, FreshRequests DEF Truthful
  <2>2. Sent.at = "sent" /\ Free.at = "free" BY DEF Sent, Free
  <2>3. Unknown \in [text : CountsType, edit : Nat] /\ Unknown.edit = 0
    BY DEF Unknown, Idle, Counts, CountsType, StageNames
  <2>4. PageTypeOK' BY <2>0, <2>1, <2>3, TypeByParts DEF Inv, PageTypeOK
  <2>5. AnswersAreTrue' BY <2>1, <2>2 DEF AnswersAreTrue
  <2>6. edits' \in Nat BY <1>0 DEF Inv, TypeOK, statsVars
  <2>7. LatestIsNewer' BY <2>0, <2>1, <2>2, <2>3, <2>6 DEF LatestIsNewer
  <2>8. ServedIsReady' BY <2>0 DEF ServedIsReady
  <2> QED BY <1>0, <2>4, <2>5, <2>7, <2>8, ServerUntouched DEF Inv
<1> QED BY <1>0, <1>1, <1>2

\* A new request has not been answered yet.
LEMMA TickKeepsInv == ASSUME Inv, NEW s \in Slots, Tick(s) PROVE Inv'
<1>1. /\ phase = "loading" /\ latest' = s
      /\ request' = [request EXCEPT ![s] = Sent]
      /\ UNCHANGED <<statsVars, serverVars, phase, shown, served>>
  BY DEF Tick, Move
<1>2. request' \in [Slots -> RequestType] /\ AnswersAreTrue'
  BY <1>1, FreshRequests, OneRequestMoves
<1>3. PageTypeOK' BY <1>1, <1>2, TypeByParts DEF Inv, PageTypeOK
<1>4. request'[s].at = "sent" BY <1>1 DEF Inv, TypeOK, Sent
<1>5. LatestIsNewer' BY <1>1, <1>4 DEF Inv, LatestIsNewer, statsVars
<1>6. ServedIsReady' BY <1>1 DEF Inv, ServedIsReady
<1> QED BY <1>1, <1>2, <1>3, <1>5, <1>6, ServerUntouched DEF Inv

\* A request that breaks is forgotten.
LEMMA BreakKeepsInv == ASSUME Inv, NEW s \in Slots, Break(s) PROVE Inv'
<1>1. /\ phase = "loading" /\ latest' = (IF s = latest THEN NoSlot ELSE latest)
      /\ request' = [request EXCEPT ![s] = Free]
      /\ UNCHANGED <<statsVars, serverVars, phase, shown, served>>
  BY DEF Break, Move
<1>2. request' \in [Slots -> RequestType] /\ AnswersAreTrue'
  BY <1>1, FreshRequests, OneRequestMoves
<1>3. PageTypeOK' BY <1>1, <1>2, TypeByParts DEF Inv, PageTypeOK
<1>4. LatestIsNewer'
  <2>1. \A t \in Slots : t = latest' => t = latest /\ request'[t] = request[t]
    BY <1>1, BoundsAssumption DEF Inv, TypeOK
  <2> QED BY <1>1, <2>1 DEF Inv, LatestIsNewer, statsVars
<1>5. ServedIsReady' BY <1>1 DEF Inv, ServedIsReady
<1> QED BY <1>1, <1>2, <1>3, <1>4, <1>5, ServerUntouched DEF Inv

\* What is shown for an answer is not older than what was shown.
LEMMA ShowIsNewer ==
  ASSUME Inv, NEW s \in Slots, s = latest, request[s].at = "answered", ~request[s].done
  PROVE  /\ Show(request[s]) \in [text : CountsType, edit : Nat]
         /\ shown.edit <= Show(request[s]).edit /\ Show(request[s]).edit <= edits
<1> DEFINE r == request[s]
<1>1. /\ r.seen \in CountsType /\ r.edit \in Nat /\ r.edit <= edits
      /\ shown.edit <= r.edit /\ shown.edit <= edits
      /\ shown \in [text : CountsType, edit : Nat]
  BY DEF Inv, TypeOK, RequestType, AnswersAreTrue, LatestIsNewer
<1>2. Counts(r.seen.stage, 0, 0) \in CountsType BY <1>1 DEF Counts, CountsType
<1> QED BY <1>1, <1>2 DEF Show

\* An answer is accepted when it is the one to the latest request.
LEMMA ReceiveKeepsInv ==
  ASSUME Inv, NEW s \in Slots, Receive(s) PROVE Inv' /\ shown'.edit >= shown.edit
<1>1. /\ phase = "loading" /\ request[s].at = "answered"
      /\ request' = [request EXCEPT ![s] = Free]
      /\ UNCHANGED <<statsVars, serverVars, served>>
  BY DEF Receive, Move
<1>2. request' \in [Slots -> RequestType] /\ AnswersAreTrue'
  BY <1>1, FreshRequests, OneRequestMoves
<1>3. shown \in [text : CountsType, edit : Nat] /\ edits \in Nat /\ request[s].done \in BOOLEAN
  BY DEF Inv, TypeOK, RequestType
<1>4. CASE s # latest
  <2>1. UNCHANGED <<latest, phase, shown>> BY <1>4 DEF Receive, Discard
  <2>2. PageTypeOK' BY <1>1, <1>2, <2>1, TypeByParts DEF Inv, PageTypeOK
  <2>3. \A t \in Slots : t = latest => request'[t] = request[t]
    BY <1>1, <1>4 DEF Inv, TypeOK
  <2>4. LatestIsNewer' BY <1>1, <2>1, <2>3 DEF Inv, LatestIsNewer, statsVars
  <2>5. ServedIsReady' BY <1>1, <2>1 DEF Inv, ServedIsReady
  <2> QED BY <1>1, <1>2, <1>3, <2>1, <2>2, <2>4, <2>5, ServerUntouched DEF Inv
<1>5. CASE s = latest /\ request[s].done
  <2>1. latest' = NoSlot /\ phase' = "opening" /\ shown' = shown
    BY <1>5 DEF Receive, Accept
  <2>2. PageTypeOK' BY <1>1, <1>2, <2>1, TypeByParts DEF Inv, PageTypeOK
  <2>3. done BY <1>1, <1>5 DEF Inv, AnswersAreTrue
  <2>4. LatestIsNewer'
    BY <1>1, <2>1, <2>3, BoundsAssumption DEF Inv, LatestIsNewer, statsVars
  <2>5. ServedIsReady' BY <2>1 DEF ServedIsReady
  <2> QED BY <1>1, <1>2, <1>3, <2>1, <2>2, <2>4, <2>5, ServerUntouched DEF Inv
<1>6. CASE s = latest /\ ~request[s].done
  <2>1. latest' = NoSlot /\ phase' = phase /\ shown' = Show(request[s])
    BY <1>6 DEF Receive, Accept
  <2>2. /\ shown' \in [text : CountsType, edit : Nat]
        /\ shown.edit <= shown'.edit /\ shown'.edit <= edits
    BY <1>1, <1>6, <2>1, ShowIsNewer
  <2>3. PageTypeOK' BY <1>1, <1>2, <2>1, <2>2, TypeByParts DEF Inv, PageTypeOK
  <2>4. LatestIsNewer' BY <1>1, <2>1, <2>2, BoundsAssumption DEF LatestIsNewer, statsVars
  <2>5. ServedIsReady' BY <1>1, <2>1 DEF ServedIsReady
  <2> QED BY <1>1, <1>2, <1>3, <2>2, <2>3, <2>4, <2>5, ServerUntouched DEF Inv
<1> QED BY <1>3, <1>4, <1>5, <1>6

----------------------------------------------------------------------------
\* Every step is one of the server or one of the browser, or changes nothing.
LEMMA StepsByActor == ASSUME Next PROVE ServerStep \/ BrowserStep
BY DEF Next, ServerStep, BrowserStep

\* A step keeps the invariant.
LEMMA InvIsKept == Inv /\ [Next]_vars => Inv'
<1> SUFFICES ASSUME Inv, [Next]_vars PROVE Inv' OBVIOUS
<1>1. CASE ServerStep BY <1>1, ServerKeepsInv
<1>2. CASE BrowserStep
  BY <1>2, OpenKeepsInv, HandleKeepsInv, BreakKeepsInv, TickKeepsInv, ReceiveKeepsInv
     DEF BrowserStep
<1>3. CASE UNCHANGED vars
  <2>1. PageTypeOK' BY <1>3, TypeByParts DEF Inv, PageTypeOK, vars, pageVars
  <2>2. UNCHANGED <<statsVars, serverVars, pageVars>> BY <1>3 DEF vars
  <2>3. AnswersAreTrue' /\ LatestIsNewer' /\ ServedIsReady'
    BY <2>2 DEF Inv, AnswersAreTrue, LatestIsNewer, ServedIsReady, statsVars, pageVars
  <2> QED BY <2>1, <2>2, <2>3, ServerUntouched DEF Inv
<1> QED BY <1>1, <1>2, <1>3, StepsByActor

\* A step never makes the page show something older.
LEMMA ShownIsKept == Inv /\ [Next]_vars => [shown'.edit >= shown.edit]_vars
<1> SUFFICES ASSUME Inv, Next PROVE shown'.edit >= shown.edit OBVIOUS
<1>0. shown.edit \in Nat BY DEF Inv, TypeOK
<1>1. ASSUME shown' = shown PROVE shown'.edit >= shown.edit BY <1>0, <1>1
<1>2. CASE ServerStep BY <1>1, <1>2, ServerSteps DEF pageVars
<1>3. CASE Open
  <2>1. CASE done BY <1>1, <1>3, <2>1 DEF Open
  <2>2. CASE ~done
    <3>1. shown.edit = 0 BY <1>3, <2>2 DEF Open, Inv, LatestIsNewer
    <3>2. shown'.edit = 0 BY <1>3, <2>2 DEF Open, Unknown
    <3> QED BY <3>1, <3>2
  <2> QED BY <2>1, <2>2
<1>4. ASSUME NEW s \in Slots, Handle(s) \/ Break(s) \/ Tick(s)
      PROVE  shown'.edit >= shown.edit
  BY <1>1, <1>4 DEF Handle, Look, CheckAgain, Break, Tick
<1>5. ASSUME NEW s \in Slots, Receive(s) PROVE shown'.edit >= shown.edit
  BY <1>5, ReceiveKeepsInv
<1> QED BY <1>2, <1>3, <1>4, <1>5, StepsByActor DEF BrowserStep

\* The strengthened invariant holds in every reachable state: types, the order
\* of Prepare, and what answers and the page know of the server.
THEOREM InductiveInvariant == Spec => []Inv
BY Initially, InvIsKept, PTL DEF Spec

\* The variables have their types, for every plan and any number of goroutines
\* and requests.
THEOREM TypeCorrect == Spec => []TypeOK
<1>1. Inv => TypeOK BY DEF Inv
<1> QED BY <1>1, InductiveInvariant, PTL

\* A page that is not the loading page is rendered from the complete viewer.
THEOREM ServedWhenReady == Spec => []ServedIsReady
<1>1. Inv => ServedIsReady BY DEF Inv
<1> QED BY <1>1, InductiveInvariant, PTL

\* The progress shown never becomes that of an earlier moment.
THEOREM ProgressNeverOlder == Spec => NeverShowsOlder
BY InductiveInvariant, ShownIsKept, PTL DEF Spec, NeverShowsOlder
====
