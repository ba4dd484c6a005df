---- MODULE Loading ----
(* The server while it opens an export, and the page that watches it.      *)
(*                                                                         *)
(* hangover.main listens first and opens the export afterwards: one stage  *)
(* after the other, with a goroutine per bundle in one of them (Pool),     *)
(* and at the end Viewer.Prepare hands the result to the viewer.  A browser *)
(* that comes before that gets the loading page, whose script asks for the *)
(* progress every 500 ms and reloads the page once the server is done.     *)
(* Requests overlap, overtake each other and fail.                         *)
EXTENDS Stats, FiniteSets

CONSTANTS
  Stages,
  Plan,        \* the stages of glass.Create, in order
  Pool,        \* the stage of Plan that StoreBundles runs in
  Handler,     \* the stage Prepare runs in
  Workers,     \* the goroutines of StoreBundles
  MaxReports,  \* how often a stage outside Pool reports, at most
  Slots,       \* how many requests are in flight, at most
  NoSlot

ASSUME PlanAssumption ==
  /\ Plan \in Seq(Stages) /\ Handler \in Stages
  /\ NoStage \notin Stages
ASSUME BoundsAssumption ==
  MaxReports \in Nat /\ IsFiniteSet(Workers) /\ NoSlot \notin Slots

VARIABLES
  pc,        \* what main does
  at,        \* the stage of Plan it is at
  reported,  \* how often that stage has reported
  worker,    \* what each goroutine does
  finished,  \* the atomic counter of StoreBundles
  number,    \* what the counter was, until the goroutine has reported it
  viewer,    \* what Prepare has given to the viewer
  phase,     \* what the browser does
  shown,     \* what the page shows, and the edit it stems from
  latest,    \* the request whose lastCounter is counter
  request,   \* the fetch calls of updateStatus
  served     \* what the viewer had when it answered with a real page

serverVars == <<pc, at, reported, worker, finished, number, viewer>>
pageVars == <<phase, shown, latest, request, served>>
vars == <<statsVars, serverVars, pageVars>>

Parts == {"cache", "pathbuilder"}
Sent == [at |-> "sent", done |-> FALSE, seen |-> Idle, edit |-> 0]
Free == [at |-> "free", done |-> FALSE, seen |-> Idle, edit |-> 0]
Unknown == [text |-> Idle, edit |-> 0]

Init ==
  /\ StatsInit
  /\ pc = "between" /\ at = 1 /\ reported = 0
  /\ worker = [w \in Workers |-> "unborn"]
  /\ finished = 0 /\ number = [w \in Workers |-> 0]
  /\ viewer = {}
  /\ phase = "opening" /\ shown = Unknown /\ latest = NoSlot
  /\ request = [s \in Slots |-> Free]
  /\ served = {}

----------------------------------------------------------------------------
(* main: glass.Create and the handler stage *)

StartStage ==
  /\ pc = "between" /\ at <= Len(Plan)
  /\ Start(Plan[at])
  /\ pc' = IF Plan[at] = Pool THEN "spawn" ELSE "body"
  /\ UNCHANGED <<at, reported, worker, finished, number, viewer, pageVars>>

\* Mutant of Report: one more report than the stage has.
Report_OnceMore ==
  /\ pc = "body" /\ reported <= MaxReports
  /\ SetCounts(reported + 1, MaxReports)
  /\ reported' = reported + 1
  /\ UNCHANGED <<pc, at, worker, finished, number, viewer, pageVars>>

\* Index and cache report from the goroutine of main.
Report ==
  /\ pc = "body" /\ reported < MaxReports
  /\ SetCounts(reported + 1, MaxReports)
  /\ reported' = reported + 1
  /\ UNCHANGED <<pc, at, worker, finished, number, viewer, pageVars>>

\* StoreBundles reports its total and starts a goroutine per bundle.
Spawn ==
  /\ pc = "spawn"
  /\ SetCounts(0, Cardinality(Workers))
  /\ pc' = "wait"
  /\ worker' = [w \in Workers |-> "storing"]
  /\ UNCHANGED <<at, reported, finished, number, viewer, pageVars>>

\* Context.Wait waits for Done, and Done comes before onFinish.
Waited == \A w \in Workers : worker[w] # "storing"

StageIsOver == pc = "body" \/ (pc = "wait" /\ Waited)

LeaveStage ==
  /\ StageIsOver
  /\ EndStage
  /\ pc' = "between" /\ at' = at + 1 /\ reported' = 0
  /\ UNCHANGED <<worker, finished, number, viewer, pageVars>>

\* The error of a stage ends the program (LogFatal).
FailStage ==
  /\ StageIsOver
  /\ EndStage
  /\ pc' = "exited"
  /\ UNCHANGED <<at, reported, worker, finished, number, viewer, pageVars>>

StartHandler ==
  /\ pc = "between" /\ at = Len(Plan) + 1
  /\ Start(Handler)
  /\ pc' = "cache"
  /\ UNCHANGED <<at, reported, worker, finished, number, viewer, pageVars>>

\* Prepare: the cache, the pathbuilder, and then done.
Give(part, next) ==
  /\ pc = part
  /\ viewer' = viewer \union {part}
  /\ pc' = next
  /\ UNCHANGED <<statsVars, at, reported, worker, finished, number, pageVars>>

Finish(step, next) ==
  /\ pc = step
  /\ Close
  /\ pc' = next
  /\ UNCHANGED <<at, reported, worker, finished, number, viewer, pageVars>>

\* Mutant of Prepare: done is set before the viewer has its parts.
Prepare_ClosesFirst ==
  Finish("cache", "pathbuilder") \/ Give("pathbuilder", "close") \/
  (pc = "close" /\ viewer' = Parts /\ pc' = "end" /\
   UNCHANGED <<statsVars, at, reported, worker, finished, number, pageVars>>)

Prepare ==
  \/ Give("cache", "pathbuilder")
  \/ Give("pathbuilder", "close")
  \/ Finish("close", "end")

\* DoStage ends the stage of the handler after Prepare has closed the statistics.
EndHandler ==
  /\ pc = "end"
  /\ EndStage
  /\ pc' = "serving"
  /\ UNCHANGED <<at, reported, worker, finished, number, viewer, pageVars>>

----------------------------------------------------------------------------
(* the goroutine of a bundle: extractWait.Done, then onFinish *)

Alive == pc # "exited"

Stored(w) ==
  /\ Alive /\ worker[w] = "storing"
  /\ worker' = [worker EXCEPT ![w] = "stored"]
  /\ UNCHANGED <<statsVars, pc, at, reported, finished, number, viewer, pageVars>>

\* counter.Add, and SetCT asks whether the statistics are done.
Count(w) ==
  /\ Alive /\ worker[w] = "stored"
  /\ finished' = finished + 1
  /\ number' = [number EXCEPT ![w] = IF done THEN 0 ELSE finished + 1]
  /\ worker' = [worker EXCEPT ![w] = IF done THEN "gone" ELSE "counted"]
  /\ UNCHANGED <<statsVars, pc, at, reported, viewer, pageVars>>

WorkerReports(w) ==
  /\ Alive /\ worker[w] = "counted"
  /\ SetCounts(number[w], Cardinality(Workers))
  /\ worker' = [worker EXCEPT ![w] = "gone"]
  /\ number' = [number EXCEPT ![w] = 0]
  /\ UNCHANGED <<pc, at, reported, finished, viewer, pageVars>>

----------------------------------------------------------------------------
(* a request for the progress, on the server: Stats.Progress *)

Answer(isDone, copy) ==
  [at |-> "answered", done |-> isDone, seen |-> copy.seen, edit |-> copy.edit]

Move(s, from, to) == request[s].at = from /\ request' = [request EXCEPT ![s] = to]

\* The fast path, or else the copy.  The flag may rise in between: CheckAgain
\* then gives the answer of the fast path, so the two are one step.
Look(s) ==
  /\ Alive
  /\ Move(s, "sent", IF done THEN Answer(TRUE, Free) ELSE
       [at |-> "copied", done |-> FALSE, seen |-> current, edit |-> edits])
  /\ UNCHANGED <<statsVars, serverVars, phase, shown, latest, served>>

CheckAgain(s) ==
  /\ Alive
  /\ Move(s, "copied", IF done THEN Answer(TRUE, Free) ELSE Answer(FALSE, request[s]))
  /\ UNCHANGED <<statsVars, serverVars, phase, shown, latest, served>>

----------------------------------------------------------------------------
(* the browser *)

\* htmlFallback: the loading page while the server is not done, whose script
\* asks at once; otherwise the page, rendered from what the viewer holds.
Open ==
  /\ Alive /\ phase = "opening"
  /\ IF done
       THEN /\ phase' = "ready" /\ served' = viewer
            /\ UNCHANGED <<shown, latest, request>>
       ELSE \E s \in Slots :
            /\ phase' = "loading" /\ shown' = Unknown
            /\ latest' = s
            /\ request' = [t \in Slots |-> IF t = s THEN Sent ELSE Free]
            /\ UNCHANGED served
  /\ UNCHANGED <<statsVars, serverVars>>

\* The interval calls updateStatus again, whatever is still in flight.
Tick(s) ==
  /\ phase = "loading"
  /\ Move(s, "free", Sent)
  /\ latest' = s
  /\ UNCHANGED <<statsVars, serverVars, phase, shown, served>>

\* What the page shows after an answer that says the server is not done.
Show(r) ==
  IF r.seen.total # 0 THEN [text |-> r.seen, edit |-> r.edit]
  ELSE IF r.seen.stage # NoStage
    THEN [text |-> Counts(r.seen.stage, 0, 0), edit |-> r.edit]
  ELSE shown

\* Mutant of Accept: progress.Done is not looked at.
Accept_KeepsPolling(r) ==
  /\ latest' = NoSlot
  /\ phase' = phase
  /\ shown' = Show(r)

Accept(r) ==
  /\ latest' = NoSlot
  /\ phase' = IF r.done THEN "opening" ELSE phase
  /\ shown' = IF r.done THEN shown ELSE Show(r)

Discard == UNCHANGED <<latest, phase, shown>>

\* Mutant of Receive: the counters are not compared.
Receive_AnyOrder(s) ==
  /\ phase = "loading"
  /\ Move(s, "answered", Free)
  /\ Accept(request[s])
  /\ UNCHANGED <<statsVars, serverVars, served>>

Receive(s) ==
  /\ phase = "loading"
  /\ Move(s, "answered", Free)
  /\ IF s = latest THEN Accept(request[s]) ELSE Discard
  /\ UNCHANGED <<statsVars, serverVars, served>>

\* The connection breaks or the server is gone: the catch clause does nothing.
\* A request that breaks later than on its way out changes nothing either.
Break(s) ==
  /\ phase = "loading"
  /\ Alive => request[s].at = "sent"
  /\ request[s].at # "free" /\ Move(s, request[s].at, Free)
  /\ latest' = IF s = latest THEN NoSlot ELSE latest
  /\ UNCHANGED <<statsVars, serverVars, phase, shown, served>>

----------------------------------------------------------------------------
Main == \/ StartStage \/ Report \/ Spawn \/ LeaveStage
        \/ StartHandler \/ Prepare \/ EndHandler
Work(w) == Stored(w) \/ Count(w) \/ WorkerReports(w)
Handle(s) == Look(s) \/ CheckAgain(s)
Deliver(s) == Receive(s) \/ (~Alive /\ Break(s))

Next ==
  \/ Main \/ FailStage \/ Open
  \/ \E w \in Workers : Work(w)
  \/ \E s \in Slots : Handle(s) \/ Break(s) \/ Tick(s) \/ Receive(s)

Fairness ==
  /\ WF_vars(Main) /\ WF_vars(Open)
  /\ \A w \in Workers : WF_vars(Work(w))
  /\ \A s \in Slots : WF_vars(Handle(s)) /\ WF_vars(Deliver(s)) /\ WF_vars(Tick(s))

Spec == Init /\ [][Next]_vars /\ Fairness

----------------------------------------------------------------------------
\* The variables have their types: a copy is never newer than the statistics.
StageNames == Stages \union {NoStage}
CountsType == [stage : StageNames, current : Nat, total : Nat]
Pcs == {"between", "body", "spawn", "wait", "cache", "pathbuilder", "close",
        "end", "serving", "exited"}
RequestType ==
  [at : {"free", "sent", "copied", "answered"},
   done : BOOLEAN, seen : CountsType, edit : Nat]
TypeOK ==
  /\ done \in BOOLEAN /\ current \in CountsType /\ edits \in Nat
  /\ all \in Seq(StageNames)
  /\ pc \in Pcs /\ at \in 1 .. Len(Plan) + 1 /\ reported \in 0 .. MaxReports
  /\ worker \in [Workers -> {"unborn", "storing", "stored", "counted", "gone"}]
  /\ finished \in Nat /\ number \in [Workers -> Nat]
  /\ viewer \subseteq Parts /\ served \subseteq Parts
  /\ phase \in {"opening", "loading", "ready"}
  /\ shown \in [text : CountsType, edit : Nat]
  /\ latest \in Slots \union {NoSlot}
  /\ request \in [Slots -> RequestType]

\* A request that gets past the loading page is answered from the complete
\* cache and pathbuilder, however it interleaves with Prepare.
ServedIsReady == phase = "ready" => served = Parts

\* Whatever overtakes what, the page never replaces what it shows by an older
\* state of the server.
NeverShowsOlder == [][shown'.edit >= shown.edit]_vars

\* The page opens, or from some time on no answer to a latest request arrives:
\* requests fail, the server is gone, or each is overtaken by the next tick.
PageOpens ==
  <>(phase = "ready") \/ <>[][~\E s \in Slots : s = latest /\ Receive(s)]_vars
====
