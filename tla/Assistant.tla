------------------------------ MODULE Assistant ------------------------------
(***************************************************************************)
(* Questions to the AI assistant, and what the audit log keeps of them:    *)
(* AiService.generate and the tools it defines, with AuditTrail.           *)
(*                                                                         *)
(* The model's words do not matter here: it answers, asks for a tool, or   *)
(* fails. Tools of the MCP servers leave no trace in the log and change    *)
(* nothing that is modelled; a turn that calls one is left out.            *)
(***************************************************************************)
EXTENDS AuditTrail

CONSTANTS
  Asks,       \* questions; each is asked once
  MaxTurns    \* 20 in the code

ASSUME AssistantAssumption == MaxTurns \in Nat

VARIABLES
  pc,         \* per question: the call it awaits, or how it ended
  turns       \* per question: how many tools were called

vars == <<auditVars, pc, turns>>

Steps == {"prompt", "classify", "write", "draw", "log tool", "run tool", "log answer"}

\* The events of a question: its prompt, its tool calls in order, and its answer.
Prompt(a)  == [by |-> a, what |-> "prompt", turn |-> 0]
Call(a, n) == [by |-> a, what |-> "tool", turn |-> n]
Answer(a)  == [by |-> a, what |-> "answer", turn |-> 0]

Init ==
  /\ AuditInit
  /\ pc = [a \in Asks |-> "idle"]
  /\ turns = [a \in Asks |-> 0]

Goto(a, step) == pc' = [pc EXCEPT ![a] = step]

\* What a step of a question leaves alone, whether or not it logs something.
Unlogged == UNCHANGED auditVars
AuditKept == UNCHANGED <<delivery, setting>>

Ask(a) ==
  /\ pc[a] = "idle"
  /\ Goto(a, "prompt")
  /\ Unlogged /\ UNCHANGED turns

LogPrompt(a) ==
  /\ pc[a] = "prompt"
  /\ LogAction(Prompt(a))
  /\ Goto(a, "classify")
  /\ AuditKept /\ UNCHANGED turns

\* The question is taken for one that wants a text or an image, or neither, which is
\* answered at once.
Classify(a) ==
  /\ pc[a] = "classify"
  /\ Goto(a, "write") \/ Goto(a, "draw") \/ Goto(a, "log answer")
  /\ Unlogged /\ UNCHANGED turns

\* Any tool the role offers may be called; there is always one.
CallTool(a) ==
  /\ pc[a] = "write"
  /\ turns[a] < MaxTurns
  /\ turns' = [turns EXCEPT ![a] = @ + 1]
  /\ Goto(a, "log tool")
  /\ Unlogged

LogTool(a) ==
  /\ pc[a] = "log tool"
  /\ LogAction(Call(a, turns[a]))
  /\ Goto(a, "run tool")
  /\ AuditKept /\ UNCHANGED turns

RunTool(a) ==
  /\ pc[a] = "run tool"
  /\ Goto(a, "write")
  /\ Unlogged /\ UNCHANGED turns

\* The model has written, or drawn, what it was asked for.
Finish(a) ==
  /\ pc[a] \in {"write", "draw"}
  /\ Goto(a, "log answer")
  /\ Unlogged /\ UNCHANGED turns

\* Faulty variant: the apology is given without being logged.
OverloadedUnlogged(a) ==
  /\ pc[a] \in {"classify", "write", "draw", "run tool"}
  /\ Goto(a, "answered")
  /\ Unlogged /\ UNCHANGED turns

\* The model is over its quota: an apology is the answer.
Overloaded(a) ==
  /\ pc[a] \in {"classify", "write", "draw", "run tool"}
  /\ Goto(a, "log answer")
  /\ Unlogged /\ UNCHANGED turns

LogAnswer(a) ==
  /\ pc[a] = "log answer"
  /\ LogAction(Answer(a))
  /\ Goto(a, "answered")
  /\ AuditKept /\ UNCHANGED turns

\* The model or a tool throws something else, which the caller is told, or the
\* process stops.
Abort(a) ==
  /\ pc[a] \in Steps
  /\ Goto(a, "error")
  /\ Unlogged /\ UNCHANGED turns

Proceed(a) ==
  \/ LogPrompt(a) \/ Classify(a) \/ CallTool(a) \/ LogTool(a) \/ RunTool(a)
  \/ Finish(a) \/ Overloaded(a) \/ LogAnswer(a)

Next ==
  \/ AuditNext /\ UNCHANGED <<pc, turns>>
  \/ \E a \in Asks : Ask(a) \/ Proceed(a) \/ Abort(a)

Spec == Init /\ [][Next]_vars

-----------------------------------------------------------------------------
(* Properties *)

Events == {Prompt(a) : a \in Asks} \cup {Answer(a) : a \in Asks}
            \cup {Call(a, n) : a \in Asks, n \in 1..MaxTurns}

\* The topic carries events of questions, and the log's own parts have their types.
TypeOK ==
  /\ topic \in Seq(Events) /\ lost \subseteq Events
  /\ AuditTypeOK
  /\ pc \in [Asks -> Steps \cup {"idle", "answered", "error"}]
  /\ turns \in [Asks -> 0..MaxTurns]

Sent(e) == e \in Range(topic) \cup lost

\* Whatever the assistant did, it tried to log before: the prompt before anything else,
\* each tool's call before the tool runs, the answer, even an apology, before it is
\* given. Only a failure to produce loses one.
AssistantIsAudited ==
  /\ TypeOK
  /\ \A a \in Asks :
       /\ pc[a] \notin {"idle", "prompt", "error"} => Sent(Prompt(a))
       /\ \A n \in 1..turns[a] :
            Sent(Call(a, n)) \/ (n = turns[a] /\ pc[a] \in {"log tool", "error"})
       /\ pc[a] = "answered" => Sent(Answer(a))

Stored(e, upto) == \E i \in 1..upto : topic[entries[i].event] = e
Missing(e) ==
  e \in lost \/ \E n \in missed \cup skipped : topic[n] = e

\* The log tells a question in its order: an answer has its prompt and its tool calls
\* before it, through crashes and repeated deliveries, unless one of them was lost.
LogTellsTheStory ==
  \A i \in DOMAIN entries :
    LET e == topic[entries[i].event] IN
    /\ e.what # "prompt" => Stored(Prompt(e.by), i) \/ Missing(Prompt(e.by))
    /\ e.what = "answer" =>
         \A n \in 1..turns[e.by] :
           Call(e.by, n) \in Range(topic) =>
             Stored(Call(e.by, n), i) \/ Missing(Call(e.by, n))
=============================================================================
