---- MODULE Stats ----
(* stats.Stats, what a viewer knows of how far the export has been opened: *)
(* the flag done, the current stage with its counts, and the stages that   *)
(* ended.  done is an atomic flag, current and all are kept under a lock;   *)
(* each operator below is what happens while the lock is held, or one       *)
(* access to the flag, and what a caller does around it is left to the      *)
(* module that calls.  The times of a stage, the log and the line of the    *)
(* terminal are left out.                                                   *)
EXTENDS Integers, Sequences

CONSTANT NoStage

VARIABLES
  done,     \* st.done
  current,  \* st.current
  all,      \* st.all, the names of the stages
  edits     \* how often current was edited: dates a copy of it, not in the code

statsVars == <<done, current, all, edits>>

Counts(stage, c, t) == [stage |-> stage, current |-> c, total |-> t]

Idle == Counts(NoStage, 0, 0)

StatsInit == done = FALSE /\ current = Idle /\ all = <<>> /\ edits = 0

Edit(counts) == current' = counts /\ edits' = edits + 1

Ended == IF current.stage = NoStage THEN all ELSE Append(all, current.stage)

\* Start ends the stage before it, if any.
Start(stage) ==
  IF done THEN UNCHANGED statsVars
          ELSE all' = Ended /\ Edit(Counts(stage, 0, 0)) /\ UNCHANGED done

\* How DoStage ends a stage, with or without an error of f: whether the
\* statistics are done is not asked again.
EndStage == all' = Ended /\ Edit(Idle) /\ UNCHANGED done

\* The locked part of SetCT; whether the statistics are done was asked before.
SetCounts(c, t) == Edit(Counts(current.stage, c, t)) /\ UNCHANGED <<done, all>>

Close == done' = TRUE /\ UNCHANGED <<current, all, edits>>
====
