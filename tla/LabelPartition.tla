---------------------------- MODULE LabelPartition ----------------------------
(***************************************************************************)
(* What package imap promises, with no ids in sight: the labels seen so    *)
(* far are partitioned into classes of identical labels, each with one     *)
(* representative.  Identifying old with same moves the whole class of old *)
(* under the representative of same.                                       *)
(***************************************************************************)
CONSTANTS Label, NoLabel

VARIABLE rep  \* representative of each label, NoLabel for one not seen

Init == rep = [l \in Label |-> NoLabel]

\* A label is seen for the first time and represents itself.
Intern(l) ==
    /\ rep[l] = NoLabel
    /\ rep' = [rep EXCEPT ![l] = l]

\* The doc of MarkIdentical: "all future calls to [Forward] or [Add] with old
\* will act as if being called by same".  The class of old follows it.
Known(l) == rep[l] # NoLabel
RepOrSelf(l) == IF Known(l) THEN rep[l] ELSE l
Identify(same, old) ==
    rep' = [l \in Label |->
              IF \/ l \in {same, old}
                 \/ Known(l) /\ rep[l] = RepOrSelf(old)
              THEN RepOrSelf(same)
              ELSE rep[l]]

\* A Reset, a Close or a failed build forgets everything.
Forget == rep' = [l \in Label |-> NoLabel]

Next ==
    \/ \E l \in Label : Intern(l)
    \/ \E same, old \in Label : Identify(same, old)
    \/ Forget

Spec == Init /\ [][Next]_rep
===============================================================================
