---- MODULE TipsyPage ----
(* tipsy/index.ts: the page that embeds the pathbuilder viewer TIPSY in a   *)
(* frame and hands it the pathbuilder.  The frame says when it is ready, in *)
(* a message to the window; any other window may send messages too.         *)
EXTENDS Integers

CONSTANTS
  Sources,   \* the windows that send messages, the frame among them
  Frame,
  MaxInbox   \* messages waiting per sender and kind, at most

ASSUME FrameAssumption == Frame \in Sources /\ MaxInbox \in Nat

VARIABLES
  dataset,    \* whether the page has all three attributes
  page,       \* "loading" until onload
  listening,  \* whether handleTipsyReady is registered
  frame,      \* "none", in the document, or running after it was ready
  inbox,      \* the messages the window has not handled yet
  sent        \* to whom the data were posted, and how often

tipsyVars == <<dataset, page, listening, frame, inbox, sent>>

Kinds == {"tipsy:ready", "other"}

TipsyInit ==
  /\ dataset \in BOOLEAN
  /\ page = "loading" /\ listening = FALSE /\ frame = "none"
  /\ inbox = [m \in Sources \X Kinds |-> 0]
  /\ sent = [w \in Sources |-> 0]

\* onload: createTipsyFrame listens before the frame is put into the document.
OnLoad ==
  /\ page = "loading"
  /\ IF dataset THEN page' = "framed" /\ listening' = TRUE /\ frame' = "attached"
                ELSE page' = "error" /\ UNCHANGED <<listening, frame>>
  /\ UNCHANGED <<dataset, inbox, sent>>

Post(from, kind) ==
  /\ inbox[<<from, kind>>] < MaxInbox
  /\ inbox' = [inbox EXCEPT ![<<from, kind>>] = @ + 1]

\* TIPSY starts in the frame and says so, again whenever it is reloaded.
FrameReady ==
  /\ frame # "none"
  /\ Post(Frame, "tipsy:ready")
  /\ frame' = "ready"
  /\ UNCHANGED <<dataset, page, listening, sent>>

OtherMessage ==
  /\ \E m \in (Sources \X Kinds) \ {<<Frame, "tipsy:ready">>} :
       (m[1] = Frame => frame # "none") /\ Post(m[1], m[2])
  /\ UNCHANGED <<dataset, page, listening, frame, sent>>

\* Mutant of Handle: the listener is not removed.
Handle_KeepsListening(from, kind) ==
  /\ inbox[<<from, kind>>] > 0
  /\ inbox' = [inbox EXCEPT ![<<from, kind>>] = @ - 1]
  /\ sent' = IF listening /\ from = Frame /\ kind = "tipsy:ready"
               THEN [sent EXCEPT ![from] = IF @ > 1 THEN @ ELSE @ + 1] ELSE sent
  /\ UNCHANGED <<dataset, page, listening, frame>>

\* handleTipsyReady, if it is registered.
Handle(from, kind) ==
  /\ inbox[<<from, kind>>] > 0
  /\ inbox' = [inbox EXCEPT ![<<from, kind>>] = @ - 1]
  /\ IF listening /\ from = Frame /\ kind = "tipsy:ready"
       THEN listening' = FALSE /\ sent' = [sent EXCEPT ![from] = @ + 1]
       ELSE UNCHANGED <<listening, sent>>
  /\ UNCHANGED <<dataset, page, frame>>

TipsyStep ==
  \/ OnLoad \/ FrameReady \/ OtherMessage
  \/ \E from \in Sources, kind \in Kinds : Handle(from, kind)

TipsyTypeOK ==
  /\ page \in {"loading", "framed", "error"} /\ dataset \in BOOLEAN /\ listening \in BOOLEAN
  /\ frame \in {"none", "attached", "ready"}
  /\ inbox \in [Sources \X Kinds -> 0 .. MaxInbox] /\ sent \in [Sources -> Nat]

\* The data go to the frame only and once, after it was ready; and once the
\* handler is gone it has done its work. No message of the frame is missed.
DataSentOnce ==
  /\ \A w \in Sources \ {Frame} : sent[w] = 0
  /\ sent[Frame] <= 1
  /\ sent[Frame] = 1 => frame = "ready" /\ ~listening
  /\ page = "framed" /\ ~listening => sent[Frame] = 1
  /\ frame = "ready" /\ inbox[<<Frame, "tipsy:ready">>] = 0 => sent[Frame] = 1
====
