------------------------------- MODULE AgentChat -------------------------------
(***************************************************************************)
(* agents/base_agent.py: one execute of an agent.  The model is asked, it  *)
(* calls tools or writes their calls into its text, each call is answered  *)
(* by a tool or by an error, and the model is asked again, with the whole  *)
(* history, until it answers in text or its rounds are over.               *)
(***************************************************************************)
EXTENDS Agents

CONSTANTS MaxRounds,  \* bound on an agent's rounds of tools (0 to 8 in the settings)
          MaxCalls    \* bound on the tool calls in one reply of the model

ASSUME ChatBounds == MaxRounds \in Nat /\ MaxCalls \in Nat \ {0}

VARIABLES job,      \* the agent: its role, whether its model calls tools, its rounds, its context
          chat,     \* "new", "asking", "dispatching", "returned" or "raised"
          turns,    \* the rounds gone through
          asked,    \* the requests sent to the model
          history,  \* the messages that the next request carries
          waiting,  \* the calls of the last reply that are not answered yet
          answer    \* what execute returned: "text", calls in "markup" nobody parsed, or markup "torn" before a whole call

chatvars == <<job, chat, turns, asked, history, waiting, answer>>

(* What an earlier node left under its id: a result object, a text, another
   value, or None; an entry of the run itself has a name with two underscores. *)
Values == {"object", "text", "value", "none", "own"}

\* The context of a node, without what is not a dependency's result.
DepContext(given) == {d \in DOMAIN given : given[d] \notin {"own", "none"}}

\* The prompt: the system's part and the user's, which shows every result.
BuildMessages(given) == <<[from |-> "system"], [from |-> "user", shows |-> DepContext(given)]>>

ChatInit ==
  /\ job \in [role : Roles, calling : BOOLEAN, rounds : 0..MaxRounds, given : [{"dep"} -> Values]]
  /\ chat = "new" /\ turns = 0 /\ asked = 0
  /\ history = <<>> /\ waiting = <<>> /\ answer = "-"

Tools == Offered(job.role, AgentOf[job.role].tools, job.calling)

\* In the last round, and once the rounds are over, no tools are offered.
UseTools == Tools # {} /\ turns < job.rounds

\* execute: the tool caller refuses a model that cannot call tools.
Execute ==
  /\ chat = "new"
  /\ IF Refuses(job.role, job.calling)
     THEN chat' = "raised" /\ UNCHANGED history
     ELSE chat' = "asking" /\ history' = BuildMessages(job.given)
  /\ UNCHANGED <<job, turns, asked, waiting, answer>>

(* What a call comes to: an error for a tool that is not offered, or for
   arguments that lack a required one (those that are no JSON lack them all,
   those that are no object are refused by the call of the tool), else what the
   tool makes of it, an error if it raises. *)
Dispatch(name, args) ==
  IF name \notin Tools \/ (args = "short" /\ name \notin NothingRequired)
  THEN {"error"} ELSE {"result", "error"}

Calls == (Tools \cup {"other"}) \X {"complete", "short"}

\* A reply with k calls is entered and its calls wait for their answers; those
\* parsed from the text get ids of their own.
Enter(how, k) ==
  /\ waiting' = [i \in 1..k |-> <<how, turns, i>>]
  /\ history' = Append(history, [from |-> "model", calls |-> waiting'])
  /\ chat' = "dispatching" /\ UNCHANGED answer

Return(what) == chat' = "returned" /\ answer' = what /\ UNCHANGED <<history, waiting>>

\* Structured calls are dispatched, offered or not.
ReplyCalls == \E k \in 1..MaxCalls : Enter("call", k)

\* Markup in the text is parsed only where tools were offered, and only whole
\* calls are found; without one the text is the answer as it stands.
ReplyMarkup ==
  \/ UseTools /\ \E k \in 1..MaxCalls : Enter("dsml", k)
  \/ ~UseTools /\ Return("markup")
  \/ Return("torn")

ReplyText == Return("text")

Ask ==
  /\ chat = "asking" /\ turns <= job.rounds
  /\ asked' = asked + 1
  /\ ReplyCalls \/ ReplyMarkup \/ ReplyText
  /\ UNCHANGED <<job, turns>>

\* Mutant: a call that comes to an error is dropped.
AnsweredUnlessError(id, outcome) ==
  IF outcome = "error" THEN history ELSE Append(history, [from |-> "tool", id |-> id, says |-> outcome])

\* Every call has its answer in the history, an error if need be.
Answered(id, outcome) == Append(history, [from |-> "tool", id |-> id, says |-> outcome])

Answer ==
  /\ chat = "dispatching"
  /\ \E c \in Calls : \E outcome \in Dispatch(c[1], c[2]) : history' = Answered(Head(waiting), outcome)
  /\ waiting' = Tail(waiting)
  /\ IF Len(waiting) = 1
     THEN chat' = "asking" /\ turns' = turns + 1
     ELSE UNCHANGED <<chat, turns>>
  /\ UNCHANGED <<job, asked, answer>>

\* JSON that is a number, a truth value or null has no keys to list: the error
\* is raised outside of the try.  What is parsed from markup is an object.
DispatchRaises ==
  /\ chat = "dispatching" /\ Head(waiting)[1] = "call"
  /\ chat' = "raised"
  /\ UNCHANGED <<job, turns, asked, history, waiting, answer>>

\* After the last round the model is asked once more, and whatever it says is the answer.
FinalAsk ==
  /\ chat = "asking" /\ turns > job.rounds
  /\ asked' = asked + 1
  /\ \E what \in {"text", "markup", "torn"} : Return(what)
  /\ UNCHANGED <<job, turns>>

\* A request to the model fails: nothing catches it in the agent.
AskFails ==
  /\ chat = "asking" /\ asked' = asked + 1 /\ chat' = "raised"
  /\ UNCHANGED <<job, turns, history, waiting, answer>>

ChatNext == Execute \/ Ask \/ Answer \/ DispatchRaises \/ FinalAsk \/ AskFails

ChatSpec == ChatInit /\ [][ChatNext]_chatvars

ChatTypeOK ==
  /\ chat \in {"new", "asking", "dispatching", "returned", "raised"}
  /\ turns \in 0..MaxRounds + 1 /\ asked \in 0..MaxRounds + 2
  /\ answer \in {"-", "text", "markup", "torn"} /\ Len(waiting) <= MaxCalls

--------------------------------------------------------------------------------
(* base_agent.py:386-428.  A provider refuses a history in which a call is
   not answered, or is answered twice, or out of place: whenever the model is
   asked, each reply with calls is followed by the answers to just these calls,
   in their order, whatever became of the tools; and the prompt shows every
   result that an earlier node left. *)
CallsAnswered ==
  chat = "asking" =>
    /\ \A i \in DOMAIN history : history[i].from = "model" =>
         LET calls == history[i].calls IN
         /\ i + Len(calls) <= Len(history)
         /\ \A j \in DOMAIN calls : history[i + j].from = "tool" /\ history[i + j].id = calls[j]
    /\ \A i \in DOMAIN history : history[i].from = "tool" =>
         \E j \in 1..i - 1 : history[j].from = "model" /\ history[i].id \in {history[j].calls[k] : k \in DOMAIN history[j].calls}
    /\ \A d \in DOMAIN job.given : job.given[d] \in {"object", "text", "value"} => d \in history[2].shows

(* base_agent.py:327-376.  The rounds bound the requests, and a whole call in
   markup reaches the next node as an answer only when no tools were offered
   with the last request: a call that the model could still make is never lost
   in text.  Markup without a whole call is the answer at any time. *)
ChatEnds ==
  /\ asked <= job.rounds + 2
  /\ answer = "markup" => (Tools = {} \/ asked > job.rounds)

\* A chat is one that the model's service accepts, and it comes to an end.
ChatSound == ChatTypeOK /\ CallsAnswered /\ ChatEnds

(* base_agent.py:437 says of the dispatch that it "Returns an error string on failure
   so the model can recover gracefully": no call is left without its answer. *)
FailuresAreAnswered == chat = "raised" => waiting = <<>>
================================================================================
