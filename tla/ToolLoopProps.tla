---------------------------- MODULE ToolLoopProps ----------------------------
(***************************************************************************)
(* The properties of ToolLoop that the runs check and ToolLoopProofs       *)
(* proves.                                                                 *)
(***************************************************************************)
EXTENDS ToolLoop

\* Every variable stays within the values the code gives it.
TypeOK ==
  /\ pc \in {"start", "tools", "ask", "dsml", "dsmlTools", "synthesis",
             "reply", "done", "failed"}
  /\ pending \in 0 .. MaxBatch
  /\ pc \in {"tools", "dsmlTools"} => pending > 0
  /\ limit \in {MaxIterations, MaxContinuation} /\ iteration \in 0 .. limit - 1
  /\ pc \in {"start", "tools", "ask"} => limit = MaxIterations
  /\ spent \in Nat /\ calls \in Nat /\ executed \in Nat /\ late \in Nat
  /\ stores \subseteq Nat /\ found \subseteq Nat /\ stored \subseteq Nat
  /\ log \in Seq(Nat) /\ summary \in Seq(Nat)
  /\ content \in Contents /\ reply \in Contents

\* However the model mixes structured calls and DSML, a turn makes at most
\* one call to it for the question, one per iteration of the loop, and one
\* per iteration of the continuation.
CallsBounded ==
  calls <= 1 + MaxIterations + MaxContinuation

\* The reply of a turn is never empty and bears no block of calls and no whole
\* tag, whichever of the loops, caps and failures it comes from; of markup it
\* may only end in a tag cut off (NoRawMarkup).
ReplyIsClean == pc = "done" => reply.markup = "none" /\ ~IsEmpty(reply)

\* dsml.py:29: any single tag is stripped, of a "cut-off reply" too;
\* orchestrator.py:853: "raw DSML must never reach the user, full stop".  The
\* patterns want a tag's closing bracket: a reply that max_tokens cuts within a
\* tag is sent with it.
NoRawMarkup == pc = "done" => ~reply.cut

\* The evidence saved with the reply lists every tool call of the turn
\* once, in the order of execution, over both loops.
SummaryComplete == pc = "done" => summary = [i \in 1 .. executed |-> i]

\* Every fact the model stored is reported to the refresh of the activation.
StoresReported == pc = "done" => stored = stores

\* Once the output of the tools is over its cap, at most one more answer of
\* the model is executed: the first of a continuation.
OverBudgetOnce == late <= 1

\* The two loops and their two caps together bound a turn.
LoopBounded == TypeOK /\ CallsBounded /\ OverBudgetOnce

\* What a turn did, and what it stored, is on its record when it replies.
EvidenceKept == SummaryComplete /\ StoresReported
=============================================================================
