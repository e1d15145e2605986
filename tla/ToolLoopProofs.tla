---------------------------- MODULE ToolLoopProofs ----------------------------
(***************************************************************************)
(* Proofs about the tools of a turn.  ToolLoop: the calls of a turn, for   *)
(* any caps, sizes and batches.  HostFiles: the files that write_file and  *)
(* read_file write and read, for any paths, calls, failures and kills.     *)
(***************************************************************************)
EXTENDS ToolLoopProps, HostFiles, SequenceTheorems, TLAPS

\* What StripDsml returns and the plain contents are contents.
LEMMA PlainContents == Plain(TRUE) \in Contents /\ Plain(FALSE) \in Contents
  BY BatchAssumption DEF Contents, Plain, Markup

LEMMA StripContents == ASSUME NEW c \in Contents PROVE StripDsml(c) \in Contents
  <1>1. c.prose \in BOOLEAN /\ c.cut \in BOOLEAN
    BY DEF Contents
  <1> QED
    BY <1>1, BatchAssumption DEF StripDsml, Plain, Contents, Markup

LEMMA InvokesRange ==
  ASSUME NEW c \in Contents PROVE c.invokes \in 0 .. MaxBatch
  BY DEF Contents
-----------------------------------------------------------------------------
(* Type correctness.                                                       *)

LEMMA TypeInit == Init => TypeOK
  <1> SUFFICES ASSUME Init PROVE TypeOK
    OBVIOUS
  <1>1. content \in Contents /\ reply \in Contents
    BY PlainContents DEF Init
  <1>2. /\ limit \in {MaxIterations, MaxContinuation} /\ iteration \in 0 .. limit - 1
        /\ pending \in 0 .. MaxBatch
    BY LoopAssumption, BatchAssumption DEF Init
  <1>3. /\ log \in Seq(Nat) /\ summary \in Seq(Nat)
        /\ stores \subseteq Nat /\ found \subseteq Nat /\ stored \subseteq Nat
    BY DEF Init
  <1>4. /\ pc = "start" /\ limit = MaxIterations
        /\ spent \in Nat /\ calls \in Nat /\ executed \in Nat /\ late \in Nat
    BY DEF Init
  <1> QED
    BY <1>1, <1>2, <1>3, <1>4 DEF TypeOK

\* What the end of a DSML round leaves behind.
LEMMA LeaveType ==
  ASSUME TypeOK, NEW c \in Contents, LeaveDsml(c)
  PROVE  /\ pc' = "reply" /\ reply' \in Contents
         /\ summary' \in Seq(Nat) /\ stored' \subseteq Nat
         /\ log' \in Seq(Nat) /\ found' \subseteq Nat
  <1>1. reply' \in {c, Plain(TRUE), StripDsml(c)}
    BY DEF LeaveDsml
  <1>2. reply' \in Contents
    BY <1>1, PlainContents, StripContents
  <1>3. summary' \in Seq(Nat) /\ stored' \subseteq Nat
        /\ log' \in Seq(Nat) /\ found' \subseteq Nat /\ pc' = "reply"
    BY DEF LeaveDsml, Fold, TypeOK
  <1> QED
    BY <1>2, <1>3

\* What an answer with tool calls leaves behind.
LEMMA CallsType ==
  ASSUME TypeOK, NEW n \in 1 .. MaxBatch, NEW i, Calls(n, i)
  PROVE  pending' \in 0 .. MaxBatch /\ pending' > 0 /\ iteration' = i /\ late' \in Nat
  <1>1. late' \in {late, late + 1}
    BY DEF Calls
  <1> QED
    BY <1>1, BatchAssumption DEF Calls, TypeOK

LEMMA TypeStep == TypeOK /\ [Next]_vars => TypeOK'
  <1> SUFFICES ASSUME TypeOK, [Next]_vars PROVE TypeOK'
    OBVIOUS
  <1> USE LoopAssumption, OutputAssumption, BatchAssumption
  <1>1. CASE FirstCall
    <2>1. CASE \E n \in 1 .. MaxBatch : Calls(n, 0) /\ pc' = "tools"
                 /\ UNCHANGED <<limit, content, reply>>
      <3>1. PICK n \in 1 .. MaxBatch : Calls(n, 0)
        BY <2>1
      <3>2. pending' \in 0 .. MaxBatch /\ pending' > 0 /\ iteration' = 0 /\ late' \in Nat
        BY <3>1, CallsType
      <3> QED
        BY <1>1, <2>1, <3>2 DEF FirstCall, TypeOK, toolVars
    <2>2. CASE \E c \in Contents :
          /\ IF c.markup = "block"
             THEN EnterDsml(c, MaxIterations) /\ UNCHANGED reply
             ELSE pc' = "reply" /\ reply' = c /\ UNCHANGED loopVars
          /\ UNCHANGED <<pending, late>>
      BY <1>1, <2>2 DEF FirstCall, EnterDsml, TypeOK, toolVars, loopVars
    <2> QED
      BY <1>1, <2>1, <2>2 DEF FirstCall
  <1>2. CASE Tool
    <2>1. PICK size \in Sizes, isStore \in BOOLEAN : Execute(size, isStore)
      BY <1>2 DEF Tool
    <2>2. spent' \in Nat /\ executed' \in Nat /\ log' \in Seq(Nat)
          /\ stores' \subseteq Nat /\ found' \subseteq Nat
      BY <2>1 DEF Execute, TypeOK
    <2>3. pending' \in 0 .. MaxBatch
      BY <1>2 DEF Tool, TypeOK
    <2> QED
      BY <1>2, <2>2, <2>3 DEF Tool, TypeOK, loopVars, outVars
  <1>3. CASE Ask
    <2>1. CASE /\ OffersTools
               /\ \E n \in 1 .. MaxBatch : Calls(n, iteration + 1)
               /\ pc' = "tools"
               /\ UNCHANGED <<limit, content, outVars, log, found>>
      <3>1. PICK n \in 1 .. MaxBatch : Calls(n, iteration + 1)
        BY <2>1
      <3>2. pending' \in 0 .. MaxBatch /\ pending' > 0 /\ iteration' = iteration + 1
            /\ late' \in Nat
        BY <3>1, CallsType
      <3> QED
        BY <1>3, <2>1, <3>2 DEF Ask, OffersTools, TypeOK, outVars
    <2>2. CASE (\E c \in Contents : EndOfToolRound(c)) /\ UNCHANGED <<pending, late>>
      <3>1. PICK c \in Contents : EndOfToolRound(c)
        BY <2>2
      <3>2. summary' \in Seq(Nat) /\ stored' \subseteq Nat
            /\ log' \in Seq(Nat) /\ found' \subseteq Nat
        BY <3>1 DEF EndOfToolRound, Fold, TypeOK
      <3> QED
        BY <1>3, <2>2, <3>1, <3>2 DEF Ask, EndOfToolRound, EnterDsml, TypeOK, loopVars
    <2> QED
      BY <1>3, <2>1, <2>2 DEF Ask
  <1>4. CASE ParseDsml
    <2>1. CASE content.invokes = 0
      <3>1. LeaveDsml(Plain(FALSE)) /\ UNCHANGED <<pending, iteration, late>>
        BY <1>4, <2>1 DEF ParseDsml
      <3>2. /\ pc' = "reply" /\ reply' \in Contents
            /\ summary' \in Seq(Nat) /\ stored' \subseteq Nat
            /\ log' \in Seq(Nat) /\ found' \subseteq Nat
        BY <3>1, LeaveType, PlainContents
      <3> QED
        BY <1>4, <3>1, <3>2 DEF ParseDsml, TypeOK
    <2>2. CASE content.invokes # 0
      <3>1. content.invokes \in 1 .. MaxBatch
        BY <2>2, InvokesRange DEF TypeOK
      <3>2. Calls(content.invokes, iteration)
        BY <1>4, <2>2 DEF ParseDsml
      <3>3. pending' \in 0 .. MaxBatch /\ pending' > 0 /\ iteration' = iteration
            /\ late' \in Nat
        BY <3>1, <3>2, CallsType
      <3> QED
        BY <1>4, <2>2, <3>3 DEF ParseDsml, TypeOK, outVars
    <2> QED
      BY <2>1, <2>2
  <1>5. CASE Synthesis
    <2>1. PICK c \in Contents, failed \in BOOLEAN :
            IF failed \/ c.markup # "block" \/ DsmlCap
            THEN LeaveDsml(c) /\ UNCHANGED loopVars
            ELSE /\ pc' = "dsml" /\ content' = c /\ iteration' = iteration + 1
                 /\ UNCHANGED <<limit, outVars, log, found>>
      BY <1>5 DEF Synthesis
    <2>2. CASE failed \/ c.markup # "block" \/ DsmlCap
      <3>1. LeaveDsml(c) /\ UNCHANGED loopVars
        BY <2>1, <2>2
      <3>2. /\ pc' = "reply" /\ reply' \in Contents
            /\ summary' \in Seq(Nat) /\ stored' \subseteq Nat
            /\ log' \in Seq(Nat) /\ found' \subseteq Nat
        BY <3>1, LeaveType
      <3> QED
        BY <1>5, <3>1, <3>2 DEF Synthesis, TypeOK, loopVars
    <2>3. CASE ~(failed \/ c.markup # "block" \/ DsmlCap)
      <3>1. /\ pc' = "dsml" /\ content' = c /\ iteration' = iteration + 1
            /\ UNCHANGED <<limit, outVars, log, found>>
        BY <2>1, <2>3
      <3>2. iteration' \in 0 .. limit' - 1
        BY <2>3, <3>1 DEF DsmlCap, TypeOK
      <3> QED
        BY <1>5, <3>1, <3>2 DEF Synthesis, TypeOK, outVars
    <2> QED
      BY <2>2, <2>3
  <1>6. CASE Finish
    <2>1. reply' \in {Plain(TRUE), StripDsml(reply)}
      BY <1>6 DEF Finish
    <2>2. reply' \in Contents
      BY <2>1, PlainContents, StripContents DEF TypeOK
    <2> QED
      BY <1>6, <2>2 DEF Finish, TypeOK, loopVars, toolVars
  <1>7. CASE TurnFails
    BY <1>7 DEF TurnFails, TypeOK, loopVars, outVars, toolVars
  <1>8. CASE UNCHANGED vars
    BY <1>8 DEF TypeOK, vars, loopVars, outVars, toolVars
  <1> QED
    BY <1>1, <1>2, <1>3, <1>4, <1>5, <1>6, <1>7, <1>8 DEF Next, Over

\* Every variable keeps its type, and no loop exceeds its limit.
THEOREM TypeCorrect == Spec => []TypeOK
  BY TypeInit, TypeStep, PTL DEF Spec
-----------------------------------------------------------------------------
(* The bound on the calls of the model.                                    *)

\* What is left of the budget: in the structured loop one call was made for
\* each iteration, in the DSML loop a call is left for each that may follow.
CallsInv ==
  /\ pc = "start" => calls = 0
  /\ pc \in {"tools", "ask"} =>
       calls = iteration + 1 /\ limit = MaxIterations
  /\ pc \in {"dsml", "dsmlTools", "synthesis"} =>
       calls + (limit - iteration) <= 1 + MaxIterations + MaxContinuation
  /\ CallsBounded

LEMMA CallsInit == Init => CallsInv
  <1> SUFFICES ASSUME Init PROVE CallsInv
    OBVIOUS
  <1>1. pc = "start" /\ calls = 0
    BY DEF Init
  <1> QED
    BY <1>1, LoopAssumption DEF CallsInv, CallsBounded

LEMMA CallsStep == TypeOK /\ CallsInv /\ [Next]_vars => CallsInv'
  <1> SUFFICES ASSUME TypeOK, CallsInv, [Next]_vars PROVE CallsInv'
    OBVIOUS
  <1> USE LoopAssumption
  <1>1. CASE FirstCall
    <2>1. calls' = 1
      BY <1>1 DEF FirstCall, CallsInv
    <2>2. \/ pc' = "tools" /\ iteration' = 0 /\ limit' = limit
          \/ pc' = "dsml" /\ iteration' = 0 /\ limit' = MaxIterations
          \/ pc' = "reply"
      BY <1>1 DEF FirstCall, Calls, EnterDsml
    <2> QED
      BY <1>1, <2>1, <2>2 DEF FirstCall, CallsInv, CallsBounded, TypeOK
  <1>2. CASE Tool
    <2>1. /\ UNCHANGED <<calls, iteration, limit>>
          /\ \/ pc = "tools" /\ pc' \in {"tools", "ask"}
             \/ pc = "dsmlTools" /\ pc' \in {"dsmlTools", "synthesis"}
      BY <1>2 DEF Tool, loopVars
    <2> QED
      BY <2>1 DEF CallsInv, CallsBounded
  <1>3. CASE Ask
    <2>1. calls' = calls + 1 /\ calls = iteration + 1 /\ limit = MaxIterations
      BY <1>3 DEF Ask, CallsInv
    <2>2. \/ OffersTools /\ pc' = "tools" /\ iteration' = iteration + 1 /\ limit' = limit
          \/ pc' = "dsml" /\ iteration' = 0 /\ limit' = MaxContinuation
          \/ pc' = "reply"
      BY <1>3 DEF Ask, Calls, EndOfToolRound, EnterDsml
    <2> QED
      BY <2>1, <2>2 DEF OffersTools, CallsInv, CallsBounded, TypeOK
  <1>4. CASE ParseDsml
    <2>1. /\ pc = "dsml" /\ pc' \in {"dsmlTools", "reply"}
          /\ UNCHANGED <<calls, iteration, limit>>
      BY <1>4 DEF ParseDsml, LeaveDsml, Calls
    <2> QED
      BY <2>1 DEF CallsInv, CallsBounded
  <1>5. CASE Synthesis
    <2>1. /\ pc = "synthesis" /\ calls' = calls + 1
          /\ \/ pc' = "reply"
             \/ pc' = "dsml" /\ iteration' = iteration + 1 /\ limit' = limit
      BY <1>5 DEF Synthesis, LeaveDsml
    <2> QED
      BY <2>1 DEF CallsInv, CallsBounded, TypeOK
  <1>6. CASE Finish
    BY <1>6 DEF Finish, CallsInv, CallsBounded
  <1>7. CASE TurnFails
    BY <1>7 DEF TurnFails, CallsInv, CallsBounded, TypeOK
  <1>8. CASE UNCHANGED vars
    BY <1>8 DEF vars, loopVars, CallsInv, CallsBounded
  <1> QED
    BY <1>1, <1>2, <1>3, <1>4, <1>5, <1>6, <1>7, <1>8 DEF Next, Over

\* The cost of a turn is bounded: a call for the question, one for each
\* iteration of the loop, one for each of the continuation.
THEOREM CallsAreBounded == Spec => []CallsBounded
  <1>1. CallsInv => CallsBounded
    BY DEF CallsInv
  <1> QED
    BY <1>1, TypeCorrect, CallsInit, CallsStep, PTL DEF Spec
-----------------------------------------------------------------------------
(* Late answers.                                                           *)

\* No answer is late before the last round of the DSML loop.
LateInv ==
  /\ pc \in {"start", "tools", "ask", "dsml"} => late = 0
  /\ pc = "start" => spent = 0
  /\ late > 0 => SizeCapHit
  /\ OverBudgetOnce

LEMMA LateStep == TypeOK /\ LateInv /\ [Next]_vars => LateInv'
  <1> SUFFICES ASSUME TypeOK, LateInv, [Next]_vars PROVE LateInv'
    OBVIOUS
  <1> USE OutputAssumption
  <1>1. CASE FirstCall
    <2>1. late' \in {late, late + 1} /\ spent' = spent /\ late = 0
      BY <1>1 DEF FirstCall, Calls, toolVars, LateInv
    <2>2. late' = late
      BY <1>1 DEF FirstCall, Calls, LateInv, SizeCapHit
    <2> QED
      BY <1>1, <2>1, <2>2 DEF FirstCall, LateInv, OverBudgetOnce, SizeCapHit
  <1>2. CASE Tool
    <2>1. spent' >= spent
      BY <1>2 DEF Tool, Execute, TypeOK
    <2>2. /\ late' = late
          /\ pc = "tools" => late = 0
          /\ pc' \in {"tools", "ask"} => pc = "tools"
          /\ pc' \in {"tools", "ask", "dsmlTools", "synthesis"}
      BY <1>2 DEF Tool, LateInv
    <2>3. spent \in Nat /\ spent' \in Nat
      BY <1>2 DEF Tool, Execute, TypeOK
    <2> QED
      BY <2>1, <2>2, <2>3 DEF LateInv, OverBudgetOnce, SizeCapHit
  <1>3. CASE Ask
    <2>1. late = 0 /\ late' = late /\ pc' \in {"tools", "dsml", "reply"}
      BY <1>3 DEF Ask, OffersTools, Calls, EndOfToolRound, EnterDsml, LateInv
    <2> QED
      BY <2>1 DEF LateInv, OverBudgetOnce
  <1>4. CASE ParseDsml
    <2>1. /\ late = 0 /\ spent' = spent /\ pc' \in {"dsmlTools", "reply"}
          /\ \/ late' = late
             \/ late' = late + 1 /\ SizeCapHit
      BY <1>4 DEF ParseDsml, LeaveDsml, Calls, LateInv
    <2> QED
      BY <2>1 DEF LateInv, OverBudgetOnce, SizeCapHit
  <1>5. CASE Synthesis
    <2>1. /\ late' = late /\ spent' = spent
          /\ \/ pc' = "reply"
             \/ pc' = "dsml" /\ ~SizeCapHit
      BY <1>5 DEF Synthesis, LeaveDsml, DsmlCap
    <2>2. late \in Nat
      BY DEF TypeOK
    <2> QED
      BY <2>1, <2>2 DEF LateInv, OverBudgetOnce, SizeCapHit
  <1>6. CASE Finish
    BY <1>6 DEF Finish, toolVars, LateInv, OverBudgetOnce, SizeCapHit
  <1>7. CASE TurnFails
    BY <1>7 DEF TurnFails, toolVars, LateInv, OverBudgetOnce, SizeCapHit
  <1>8. CASE UNCHANGED vars
    BY <1>8 DEF vars, toolVars, LateInv, OverBudgetOnce, SizeCapHit
  <1> QED
    BY <1>1, <1>2, <1>3, <1>4, <1>5, <1>6, <1>7, <1>8 DEF Next, Over

\* The cap on the output holds over both loops, but for one answer.
THEOREM OneLateAnswer == Spec => []OverBudgetOnce
  <1>1. Init => LateInv
    BY DEF Init, LateInv, OverBudgetOnce
  <1>2. LateInv => OverBudgetOnce
    BY DEF LateInv
  <1> QED
    BY <1>1, <1>2, TypeCorrect, LateStep, PTL DEF Spec
-----------------------------------------------------------------------------
(* The reply.                                                              *)

\* Nothing that was stripped bears a block or a tag, and nothing empty is returned.
THEOREM CleanReply == Spec => []ReplyIsClean
  <1>1. Init => ReplyIsClean
    BY DEF Init, ReplyIsClean
  <1>2. TypeOK /\ ReplyIsClean /\ [Next]_vars => ReplyIsClean'
    <2> SUFFICES ASSUME TypeOK, ReplyIsClean, [Next]_vars, pc' = "done"
                 PROVE  reply'.markup = "none" /\ ~IsEmpty(reply')
      BY DEF ReplyIsClean, IsEmpty
    <2>1. CASE Finish
      <3>1. StripDsml(reply).markup = "none" /\ Plain(TRUE).markup = "none"
        BY DEF StripDsml, Plain
      <3>2. ~IsEmpty(Plain(TRUE))
        BY DEF IsEmpty, Plain
      <3> QED
        BY <2>1, <3>1, <3>2 DEF Finish
    <2>2. CASE UNCHANGED vars
      BY <2>2 DEF vars, outVars, ReplyIsClean
    <2>3. CASE FirstCall \/ Tool \/ Ask \/ ParseDsml \/ Synthesis \/ TurnFails
      BY <2>3 DEF FirstCall, EnterDsml, Tool, Ask, EndOfToolRound, ParseDsml,
                  Synthesis, LeaveDsml, TurnFails
    <2> QED
      BY <2>1, <2>2, <2>3 DEF Next, Over
  <1> QED
    BY <1>1, <1>2, TypeCorrect, PTL DEF Spec
-----------------------------------------------------------------------------
(* The record of the turn.                                                 *)

\* The summary of the turn and the log of the loop, one after the other,
\* list the calls in order; so do the facts; outside of the loops nothing
\* waits to be added.
RecordInv ==
  /\ Len(summary) + Len(log) = executed
  /\ \A i \in 1 .. Len(summary) : summary[i] = i
  /\ \A i \in 1 .. Len(log) : log[i] = Len(summary) + i
  /\ stores = stored \cup found
  /\ pc \in {"start", "reply", "done"} => log = <<>> /\ found = {}

LEMMA FoldKeeps ==
  ASSUME TypeOK, RecordInv, Fold, log' = <<>>, found' = {},
         UNCHANGED <<executed, stores>>
  PROVE  RecordInv'
  <1>1. summary' = summary \o log /\ stored' = stored \cup found
    BY DEF Fold
  <1>2. /\ Len(summary') = Len(summary) + Len(log)
        /\ \A i \in 1 .. Len(summary') :
             summary'[i] = IF i <= Len(summary) THEN summary[i] ELSE log[i - Len(summary)]
    BY <1>1 DEF TypeOK
  <1>3. \A i \in 1 .. Len(summary') : summary'[i] = i
    <2> SUFFICES ASSUME NEW i \in 1 .. Len(summary') PROVE summary'[i] = i
      OBVIOUS
    <2>1. Len(summary) \in Nat /\ Len(log) \in Nat
      BY DEF TypeOK
    <2>2. CASE i <= Len(summary)
      BY <1>2, <2>1, <2>2 DEF RecordInv
    <2>3. CASE i > Len(summary)
      <3>1. i - Len(summary) \in 1 .. Len(log)
        BY <1>2, <2>1, <2>3
      <3>2. log[i - Len(summary)] = Len(summary) + (i - Len(summary))
        BY <3>1 DEF RecordInv
      <3>3. summary'[i] = log[i - Len(summary)]
        BY <1>2, <2>1, <2>3
      <3> QED
        BY <2>1, <3>2, <3>3
    <2> QED
      BY <2>1, <2>2, <2>3
  <1> QED
    BY <1>1, <1>2, <1>3 DEF RecordInv, TypeOK

LEMMA ExecuteKeeps ==
  ASSUME TypeOK, RecordInv, NEW size, NEW isStore \in BOOLEAN, Execute(size, isStore),
         pc' \notin {"start", "reply", "done"}, UNCHANGED outVars
  PROVE  RecordInv'
  <1>1. /\ Len(log') = Len(log) + 1 /\ log'[Len(log) + 1] = executed + 1
        /\ \A i \in 1 .. Len(log) : log'[i] = log[i]
    BY DEF Execute, TypeOK
  <1>2. \A i \in 1 .. Len(log') : log'[i] = Len(summary) + i
    <2> SUFFICES ASSUME NEW i \in 1 .. Len(log') PROVE log'[i] = Len(summary) + i
      OBVIOUS
    <2>1. Len(log) \in Nat /\ Len(summary) \in Nat
      BY DEF TypeOK
    <2>2. CASE i \in 1 .. Len(log)
      BY <1>1, <2>2 DEF RecordInv
    <2>3. CASE i = Len(log) + 1
      BY <1>1, <2>1, <2>3 DEF RecordInv
    <2> QED
      BY <1>1, <2>1, <2>2, <2>3
  <1>3. Len(summary') + Len(log') = executed' /\ UNCHANGED <<summary, stored>>
    <2>1. UNCHANGED <<summary, stored>> /\ executed' = executed + 1
      BY DEF Execute, outVars
    <2>2. Len(summary) \in Nat /\ Len(log) \in Nat /\ Len(summary) + Len(log) = executed
      BY DEF RecordInv, TypeOK
    <2> QED
      BY <1>1, <2>1, <2>2
  <1>4. stores' = stored' \cup found'
    BY <1>3 DEF RecordInv, Execute
  <1> QED
    BY <1>2, <1>3, <1>4 DEF RecordInv

LEMMA RecordStep == TypeOK /\ RecordInv /\ [Next]_vars => RecordInv'
  <1> SUFFICES ASSUME TypeOK, RecordInv, [Next]_vars PROVE RecordInv'
    OBVIOUS
  <1>1. CASE FirstCall
    BY <1>1 DEF FirstCall, EnterDsml, toolVars, RecordInv
  <1>2. CASE Tool
    <2>1. PICK size \in Sizes, isStore \in BOOLEAN : Execute(size, isStore)
      BY <1>2 DEF Tool
    <2>2. pc' \notin {"start", "reply", "done"} /\ UNCHANGED outVars
      BY <1>2 DEF Tool
    <2> QED
      BY <2>1, <2>2, ExecuteKeeps
  <1>3. CASE Ask
    <2>1. \/ Fold /\ log' = <<>> /\ found' = {}
          \/ UNCHANGED <<outVars, log, found>> /\ pc' = "tools"
      BY <1>3 DEF Ask, EndOfToolRound
    <2>2. UNCHANGED <<executed, stores>>
      BY <1>3 DEF Ask
    <2> QED
      BY <2>1, <2>2, FoldKeeps DEF RecordInv, outVars
  <1>4. CASE ParseDsml
    <2>1. \/ Fold /\ log' = <<>> /\ found' = {}
          \/ UNCHANGED <<outVars, log, found>> /\ pc' = "dsmlTools"
      BY <1>4 DEF ParseDsml, LeaveDsml
    <2>2. UNCHANGED <<executed, stores>>
      BY <1>4 DEF ParseDsml
    <2> QED
      BY <2>1, <2>2, FoldKeeps DEF RecordInv, outVars
  <1>5. CASE Synthesis
    <2>1. \/ Fold /\ log' = <<>> /\ found' = {}
          \/ UNCHANGED <<outVars, log, found>> /\ pc' = "dsml"
      BY <1>5 DEF Synthesis, LeaveDsml
    <2>2. UNCHANGED <<executed, stores>>
      BY <1>5 DEF Synthesis
    <2> QED
      BY <2>1, <2>2, FoldKeeps DEF RecordInv, outVars
  <1>6. CASE Finish
    BY <1>6 DEF Finish, toolVars, RecordInv
  <1>7. CASE TurnFails
    BY <1>7 DEF TurnFails, toolVars, outVars, RecordInv
  <1>8. CASE UNCHANGED vars
    BY <1>8 DEF vars, toolVars, outVars, RecordInv
  <1> QED
    BY <1>1, <1>2, <1>3, <1>4, <1>5, <1>6, <1>7, <1>8 DEF Next, Over

LEMMA RecordInit == Init => RecordInv
  BY DEF Init, RecordInv

\* The evidence of a turn names every tool call once, in order.
THEOREM EvidenceComplete == Spec => []SummaryComplete
  <1>1. TypeOK /\ RecordInv => SummaryComplete
    <2> SUFFICES ASSUME TypeOK, RecordInv, pc = "done"
                 PROVE  summary = [i \in 1 .. executed |-> i]
      BY DEF SummaryComplete
    <2>1. Len(summary) = executed /\ \A i \in 1 .. executed : summary[i] = i
      BY DEF RecordInv, TypeOK
    <2>2. summary = [i \in 1 .. Len(summary) |-> summary[i]]
      BY DEF TypeOK
    <2> QED
      BY <2>1, <2>2
  <1> QED
    BY <1>1, TypeCorrect, RecordInit, RecordStep, PTL DEF Spec

\* No fact that was stored goes unreported.
THEOREM FactsReported == Spec => []StoresReported
  <1>1. RecordInv => StoresReported
    BY DEF RecordInv, StoresReported
  <1> QED
    BY <1>1, TypeCorrect, RecordInit, RecordStep, PTL DEF Spec
-----------------------------------------------------------------------------
(* The bundles that the runs check.                                        *)

\* Both caps bound the turn, for any number of iterations and any sizes of
\* the tools' outputs.
THEOREM LoopIsBounded == Spec => []LoopBounded
  <1>1. TypeOK /\ CallsBounded /\ OverBudgetOnce => LoopBounded
    BY DEF LoopBounded
  <1> QED
    BY <1>1, TypeCorrect, CallsAreBounded, OneLateAnswer, PTL

\* When a turn replies, its record has every call in order and every fact
\* stored, over both loops.
THEOREM EvidenceIsKept == Spec => []EvidenceKept
  <1>1. SummaryComplete /\ StoresReported => EvidenceKept
    BY DEF EvidenceKept
  <1> QED
    BY <1>1, EvidenceComplete, FactsReported, PTL
-----------------------------------------------------------------------------
(* The files of the host.  HomeInv to ReadInv are what FilesWhole needs to be kept:
   it speaks of the files that have a path, and a step may give the path to another. *)

(* The halves a content is made of, 0 for the zeroes of a gap. *)
Halves == (Writers \cup {0}) \X (0 .. 2)
Bodies == Seq(Halves)

(* Where each part of the state lies. *)
FilesTypes ==
  /\ names \in [Spots -> Nat] /\ temps \in [Spots -> Nat] /\ data \in Seq(Bodies)
  /\ wpc \in [Writers -> {"start", "refused", "done", "error", "killed"} \cup Busy]
  /\ wfd \in [Writers -> Nat] /\ wdone \in [Writers -> 0 .. 2]
  /\ rpc \in [Readers -> {"start", "reads", "done", "error", "killed"}] /\ rfd \in [Readers -> Nat]
  /\ got \in [Readers -> Bodies] /\ wrote \in [Spots -> Seq(Writers)] /\ overlapped \subseteq Spots

Inodes == 1 .. Len(data)

Belongs(home) ==
  /\ \A p \in Spots : /\ names[p] # 0 => names[p] \in Inodes /\ home[names[p]] = p
                      /\ temps[p] # 0 => temps[p] \in Inodes /\ home[temps[p]] = p
  /\ \A w \in Writers : wpc[w] \in {"temp", "adds"} => wfd[w] \in Inodes /\ home[wfd[w]] = At[w]
  /\ \A r \in Readers : rpc[r] = "reads" => rfd[r] \in Inodes /\ home[rfd[r]] = At[r]
(* Every inode has a path of its own: no file, temporary file or open file of one
   path is that of another. *)
HomeInv == \E home \in [Inodes -> Spots] : Belongs(home)

(* A call that has not opened its file has written nothing, and only an append adds. *)
WritersInv ==
  /\ \A w \in Writers : wpc[w] \in {"start", "overwrite", "append"} => wdone[w] = 0 /\ \A x \in Inodes : Lacks(data[x], w)
  /\ \A w \in Writers : wpc[w] \in {"append", "adds"} => Mode[w] = "append"
  /\ \A w \in Writers : wpc[w] = "append" => names[At[w]] # 0

(* Where no overwrite met another write, an overwrite runs alone. *)
AloneInv ==
  \A v, w \in Writers : v # w /\ At[v] = At[w] /\ At[v] \notin overlapped /\ wpc[v] \in Busy /\ wpc[w] \in Busy =>
    wpc[v] \in {"append", "adds"}

(* A temporary file is neither the file that has the path nor open for reading. *)
ApartInv ==
  \A p \in Spots \ overlapped : temps[p] # 0 =>
    temps[p] # names[p] /\ \A r \in Readers : At[r] = p /\ rpc[r] = "reads" => rfd[r] # temps[p]

Filled(w) ==
  /\ wfd[w] = temps[At[w]] /\ Len(data[wfd[w]]) = wdone[w]
  /\ \A k \in 1 .. wdone[w] : data[wfd[w]][k] = <<w, k>>
(* An overwrite has written, into its own temporary file, what it counts. *)
TempInv == \A w \in Writers : wpc[w] = "temp" /\ At[w] \notin overlapped => Filled(w)

Part(text, w, n) ==
  \/ n = 0 /\ Lacks(text, w)
  \/ n = 1 /\ \E i \in 1 .. Len(text) : text[i] = <<w, 1>> /\ \A k \in 1 .. Len(text) : text[k][1] = w => k = i
  \/ n = 2 /\ Holds(text, w)

Adding(w) == wfd[w] = names[At[w]] /\ Part(data[wfd[w]], w, wdone[w])
(* An append has added, to the file at its path, what it counts, in order. *)
AddsInv == \A w \in Writers : wpc[w] = "adds" /\ At[w] \notin overlapped => Adding(w)

Named(p) ==
    /\ names[p] # 0 => Unmixed(data[names[p]]) /\ \A i \in 1 .. Len(wrote[p]) : Holds(data[names[p]], wrote[p][i])
    /\ wrote[p] # <<>> => names[p] # 0
    /\ \A i \in 1 .. Len(wrote[p]) : wpc[wrote[p][i]] = "done"
(* The file at a path is what FilesWhole says, and what it should hold is done. *)
NamedInv == \A p \in Spots \ overlapped : Named(p)

Seen(r) ==
    /\ rpc[r] = "start" => got[r] = <<>>
    /\ rpc[r] = "reads" => /\ Unmixed(data[rfd[r]]) /\ Len(got[r]) <= Len(data[rfd[r]])
                           /\ \A k \in 1 .. Len(got[r]) : got[r][k] = data[rfd[r]][k]
    /\ rpc[r] = "done" => Unmixed(got[r])
(* A reader has read the beginning of a content that is whole. *)
ReadInv == \A r \in Readers : At[r] \notin overlapped => Seen(r)

FilesInv == FilesTypes /\ HomeInv /\ WritersInv /\ AloneInv /\ ApartInv /\ TempInv /\ AddsInv /\ NamedInv /\ ReadInv

LEMMA PutAtEnd ==
  ASSUME NEW d \in Bodies, NEW h \in Halves
  PROVE  Put(d, h, Len(d) + 1) = Append(d, h) /\ Append(d, h) \in Bodies
<1>1. Len(d) \in Nat /\ Append(d, h) \in Bodies /\ Len(Append(d, h)) = Len(d) + 1
  BY DEF Bodies
<1>2. Put(d, h, Len(d) + 1) = [k \in 1 .. Len(d) + 1 |-> IF k = Len(d) + 1 THEN h ELSE IF k <= Len(d) THEN d[k] ELSE <<0, 0>>]
  BY <1>1 DEF Put
<1>3. Append(d, h) = [k \in 1 .. Len(d) + 1 |-> IF k = Len(d) + 1 THEN h ELSE IF k <= Len(d) THEN d[k] ELSE <<0, 0>>]
  <2>. DEFINE f == [k \in 1 .. Len(d) + 1 |-> IF k = Len(d) + 1 THEN h ELSE IF k <= Len(d) THEN d[k] ELSE <<0, 0>>]
  <2>1. f \in Bodies /\ Len(f) = Len(d) + 1
    <3>1. \A k \in 1 .. Len(d) : d[k] \in Halves
      BY ElementOfSeq DEF Bodies
    <3>2. f \in [1 .. Len(d) + 1 -> Halves]
      BY <1>1, <3>1
    <3>. QED
      BY <1>1, <3>2 DEF Bodies
  <2>2. \A k \in 1 .. Len(d) + 1 : f[k] = Append(d, h)[k]
    BY <1>1 DEF Bodies
  <2>. HIDE DEF f
  <2>3. f = Append(d, h)
    BY <1>1, <2>1, <2>2, SeqEqual DEF Bodies
  <2>. QED
    BY <2>3 DEF f
<1>. QED
  BY <1>1, <1>2, <1>3

LEMMA Appending ==
  ASSUME NEW d \in Bodies, NEW h \in Halves
  PROVE  /\ Append(d, h) \in Bodies /\ Len(d) \in Nat /\ Len(Append(d, h)) = Len(d) + 1
         /\ \A k \in 1 .. Len(d) : Append(d, h)[k] = d[k]
         /\ Append(d, h)[Len(d) + 1] = h
  BY DEF Bodies

LEMMA AppendLacks ==
  ASSUME NEW d \in Bodies, NEW h \in Halves, NEW w, h[1] # w, Lacks(d, w)
  PROVE  Lacks(Append(d, h), w)
<1>. DEFINE e == Append(d, h)
<1>1. /\ Len(d) \in Nat /\ Len(e) = Len(d) + 1
      /\ \A k \in 1 .. Len(d) : e[k] = d[k] 
      /\ e[Len(d) + 1] = h
  BY Appending
<1>. HIDE DEF e
<1>2. \A k \in 1 .. Len(e) : k \in 1 .. Len(d) \/ k = Len(d) + 1
  BY <1>1
<1>3. Lacks(e, w)
  BY <1>1, <1>2 DEF Lacks
<1>. QED
  BY <1>3 DEF e

LEMMA AppendHolds ==
  ASSUME NEW d \in Bodies, NEW h \in Halves, NEW w, h[1] # w, Holds(d, w)
  PROVE  Holds(Append(d, h), w)
<1>. DEFINE e == Append(d, h)
<1>1. /\ Len(d) \in Nat /\ Len(e) = Len(d) + 1
      /\ \A k \in 1 .. Len(d) : e[k] = d[k] 
      /\ e[Len(d) + 1] = h
  BY Appending
<1>. HIDE DEF e
<1>2. \A k \in 1 .. Len(e) : k \in 1 .. Len(d) \/ k = Len(d) + 1
  BY <1>1
<1>3. PICK i \in 1 .. Len(d), j \in 1 .. Len(d) :
        /\ i < j /\ d[i] = <<w, 1>> /\ d[j] = <<w, 2>>
        /\ \A k \in 1 .. Len(d) : d[k][1] = w => k \in {i, j}
  BY DEF Holds
<1>4. i \in 1 .. Len(e) /\ j \in 1 .. Len(e)
  BY <1>1
<1>5. e[i] = <<w, 1>> /\ e[j] = <<w, 2>> /\ \A k \in 1 .. Len(e) : e[k][1] = w => k \in {i, j}
  BY <1>1, <1>2, <1>3
<1>6. Holds(e, w)
  BY <1>3, <1>4, <1>5 DEF Holds
<1>. QED
  BY <1>6 DEF e

LEMMA AppendUnmixed ==
  ASSUME NEW d \in Bodies, NEW h \in Halves, h[1] \notin Overwriting, Unmixed(d)
  PROVE  Unmixed(Append(d, h))
<1>1. \A w \in Overwriting : h[1] # w
  OBVIOUS
<1>2. \A w \in Overwriting : Lacks(d, w) => Lacks(Append(d, h), w)
  BY <1>1, AppendLacks
<1>3. \A w \in Overwriting : Holds(d, w) => Holds(Append(d, h), w)
  BY <1>1, AppendHolds
<1>. QED
  BY <1>2, <1>3 DEF Unmixed

LEMMA PartStays ==
  ASSUME NEW d \in Bodies, NEW h \in Halves, NEW w, h[1] # w, NEW n, Part(d, w, n)
  PROVE  Part(Append(d, h), w, n)
<1>. DEFINE e == Append(d, h)
<1>1. /\ Len(d) \in Nat /\ Len(e) = Len(d) + 1
      /\ \A k \in 1 .. Len(d) : e[k] = d[k] 
      /\ e[Len(d) + 1] = h
  BY Appending
<1>4. CASE n = 1 /\ \E i \in 1 .. Len(d) : d[i] = <<w, 1>> /\ \A k \in 1 .. Len(d) : d[k][1] = w => k = i
  <2>. HIDE DEF e
  <2>1. \A k \in 1 .. Len(e) : k \in 1 .. Len(d) \/ k = Len(d) + 1
    BY <1>1
  <2>2. PICK i \in 1 .. Len(d) : d[i] = <<w, 1>> /\ \A k \in 1 .. Len(d) : d[k][1] = w => k = i
    BY <1>4
  <2>3. i \in 1 .. Len(e) /\ e[i] = <<w, 1>>
    BY <1>1, <2>2
  <2>4. \A k \in 1 .. Len(e) : e[k][1] = w => k = i
    BY <1>1, <2>1, <2>2
  <2>5. Part(e, w, n)
    BY <1>4, <2>3, <2>4 DEF Part
  <2>. QED
    BY <2>5 DEF e
<1>. QED
  BY <1>4, AppendLacks, AppendHolds DEF Part

LEMMA PartGrows ==
  ASSUME NEW d \in Bodies, NEW w \in Writers, NEW n \in 0 .. 1, Part(d, w, n)
  PROVE  Part(Append(d, <<w, n + 1>>), w, n + 1)
<1>. DEFINE h == <<w, n + 1>>
            e == Append(d, h)
<1>0. h \in Halves
  BY DEF Halves
<1>1. /\ Len(d) \in Nat /\ Len(e) = Len(d) + 1
      /\ \A k \in 1 .. Len(d) : e[k] = d[k] 
      /\ e[Len(d) + 1] = h
  BY <1>0, Appending
<1>5. e[Len(e)] = <<w, n + 1>>
  BY <1>1
<1>. HIDE DEF e
<1>2. /\ \A k \in 1 .. Len(e) : k \in 1 .. Len(d) \/ k = Len(e)
      /\ Len(e) \in 1 .. Len(e) /\ \A k \in 1 .. Len(d) : k \in 1 .. Len(e) /\ k < Len(e)
  BY <1>1
<1>3. CASE n = 0
  <2>1. \A k \in 1 .. Len(e) : e[k][1] = w => k = Len(e)
    BY <1>1, <1>2, <1>3 DEF Part, Lacks
  <2>2. Part(e, w, 1)
    BY <1>2, <1>3, <1>5, <2>1 DEF Part
  <2>. QED
    BY <1>3, <2>2 DEF e
<1>4. CASE n = 1
  <2>1. PICK i \in 1 .. Len(d) : d[i] = <<w, 1>> /\ \A k \in 1 .. Len(d) : d[k][1] = w => k = i
    BY <1>4 DEF Part
  <2>2. \A k \in 1 .. Len(e) : e[k][1] = w => k \in {i, Len(e)}
    BY <1>1, <1>2, <2>1
  <2>3. i < Len(e) /\ i \in 1 .. Len(e) /\ e[i] = <<w, 1>> /\ e[Len(e)] = <<w, 2>>
    BY <1>1, <1>2, <1>4, <1>5, <2>1
  <2>4. Holds(e, w)
    BY <1>2, <2>2, <2>3 DEF Holds
  <2>5. Part(e, w, 2)
    BY <2>4 DEF Part
  <2>. QED
    BY <1>4, <2>5 DEF e
<1>. QED
  BY <1>3, <1>4

LEMMA TwoHalves ==
  ASSUME NEW d \in Bodies, NEW w \in Writers, Len(d) = 2, \A k \in 1 .. 2 : d[k] = <<w, k>>
  PROVE  Holds(d, w) /\ Unmixed(d)
<1>1. 1 \in 1 .. Len(d) /\ 2 \in 1 .. Len(d) /\ d[1] = <<w, 1>> /\ d[2] = <<w, 2>> /\ \A k \in 1 .. Len(d) : k \in {1, 2}
  OBVIOUS
<1>2. Holds(d, w)
  BY <1>1 DEF Holds
<1>3. \A v : v # w => Lacks(d, v)
  BY <1>1 DEF Lacks
<1>. QED
  BY <1>2, <1>3 DEF Unmixed

LEMMA SameContent ==
  ASSUME NEW d \in Bodies, NEW e \in Bodies, Len(d) <= Len(e), ~(Len(d) < Len(e)),
         \A k \in 1 .. Len(d) : d[k] = e[k]
  PROVE  d = e
<1>1. Len(d) = Len(e)
  BY DEF Bodies
<1>. QED
  BY <1>1, SeqEqual DEF Bodies

LEMMA FilesBegin == FilesInit => FilesInv
<1>. SUFFICES ASSUME FilesInit PROVE FilesInv
  OBVIOUS
<1>1. FilesTypes
  BY HostFilesBounds, EmptySeq DEF FilesInit, FilesTypes, Bodies
<1>2. data = <<>> /\ Inodes = {}
  BY DEF FilesInit, Inodes
<1>3. HomeInv
  <2>1. Belongs([x \in {} |-> 0])
    BY DEF FilesInit, Belongs
  <2>2. [x \in {} |-> 0] \in [Inodes -> Spots]
    BY <1>2
  <2>. QED
    BY <2>1, <2>2 DEF HomeInv
<1>. QED
  BY <1>1, <1>2, <1>3
     DEF FilesInit, FilesInv, WritersInv, AloneInv, ApartInv, TempInv, AddsInv, NamedInv, Named, ReadInv, Seen, Unmixed, Busy

(* A write appends, where nothing overlaps; anywhere it brings in only its own halves. *)
LEMMA WriteEffect ==
  ASSUME FilesInv, NEW w \in Writers, WriteHalf(w)
  PROVE  /\ wfd[w] \in Inodes /\ Len(data') = Len(data) /\ wdone[w] \in 0 .. 1
         /\ data' \in Seq(Bodies) /\ \A y \in Inodes : y # wfd[w] => data'[y] = data[y]
         /\ \A v \in Writers : v # w /\ Lacks(data[wfd[w]], v) => Lacks(data'[wfd[w]], v)
         /\ At[w] \notin overlapped => data'[wfd[w]] = Append(data[wfd[w]], <<w, wdone[w] + 1>>)
<1>. DEFINE x == wfd[w]
            d == data[x]
            h == <<w, wdone[w] + 1>>
            at == IF wpc[w] = "adds" THEN Len(d) + 1 ELSE wdone[w] + 1
<1>1. x \in Inodes /\ wpc[w] \in {"temp", "adds"}
  BY DEF FilesInv, HomeInv, Belongs, WriteHalf
<1>2. wdone[w] \in 0 .. 1 /\ wdone' = [wdone EXCEPT ![w] = @ + 1] /\ data \in Seq(Bodies) /\ Len(data) \in Nat
  BY DEF FilesInv, FilesTypes, WriteHalf
<1>3. d \in Bodies /\ Len(d) \in Nat /\ h \in Halves /\ at \in Nat \ {0} /\ <<0, 0>> \in Halves
  <2>1. d \in Bodies
    BY <1>1, <1>2, ElementOfSeq DEF Inodes
  <2>2. Len(d) \in Nat
    BY <2>1 DEF Bodies
  <2>3. h \in Halves /\ <<0, 0>> \in Halves
    BY <1>2 DEF Halves
  <2>. HIDE DEF d
  <2>. QED
    BY <1>2, <2>1, <2>2, <2>3
<1>4. data' = [data EXCEPT ![x] = Put(d, h, at)]
  <2>1. wdone'[w] = wdone[w] + 1
    BY <1>2 DEF FilesInv, FilesTypes
  <2>. QED
    BY <2>1 DEF WriteHalf
<1>. DEFINE e == Put(d, h, at)
            n == IF at > Len(d) THEN at ELSE Len(d)
<1>5. /\ e = [k \in 1 .. n |-> IF k = at THEN h ELSE IF k <= Len(d) THEN d[k] ELSE <<0, 0>>]
      /\ n \in Nat
  BY <1>3 DEF Put
<1>6. e \in Bodies /\ Len(e) = n /\ \A k \in 1 .. n : e[k] = h \/ (k \in 1 .. Len(d) /\ e[k] = d[k]) \/ e[k] = <<0, 0>>
  <2>1. \A k \in 1 .. Len(d) : d[k] \in Halves
    BY <1>3, ElementOfSeq DEF Bodies
  <2>. HIDE DEF e, h, d, n, at
  <2>2. e \in [1 .. n -> Halves]
    BY <1>3, <1>5, <2>1
  <2>3. e \in Bodies /\ Len(e) = n
    BY <1>5, <2>2 DEF Bodies
  <2>. QED
    BY <1>5, <2>3
<1>7. \A v \in Writers : v # w /\ Lacks(d, v) => Lacks(e, v)
  <2>1. h[1] = w /\ <<0, 0>>[1] = 0 /\ 0 \notin Writers
    BY HostFilesBounds
  <2>. HIDE DEF e, h, d, n
  <2>. QED
    BY <1>6, <2>1 DEF Lacks
<1>8. At[w] \notin overlapped => e = Append(d, h)
  <2>1. At[w] \notin overlapped => at = Len(d) + 1
    <3>1. At[w] \notin overlapped /\ wpc[w] = "temp" => Len(d) = wdone[w]
      BY DEF FilesInv, TempInv, Filled
    <3>. QED
      BY <1>1, <3>1
  <2>. HIDE DEF h, d, at
  <2>. QED
    BY <1>3, <2>1, PutAtEnd
<1>9. data'[x] = e /\ data' \in Seq(Bodies) /\ Len(data') = Len(data) /\ \A y \in Inodes : y # x => data'[y] = data[y]
  <2>. HIDE DEF e, x
  <2>. QED
    BY <1>1, <1>2, <1>4, <1>6, ExceptSeq DEF Inodes, e
<1>. QED
  BY <1>1, <1>2, <1>7, <1>8, <1>9

(* The temporary file is new or emptied. *)
LEMMA OpenEffect ==
  ASSUME FilesInv, NEW w \in Writers, OpenTemp(w)
  PROVE  /\ At[w] \in Spots /\ temps' = [temps EXCEPT ![At[w]] = temps'[At[w]]]
         /\ temps'[At[w]] \in Nat \ {0} /\ temps'[At[w]] \in Inodes' /\ Inodes' = Inodes \cup {temps'[At[w]]}
         /\ IF temps[At[w]] # 0 THEN temps'[At[w]] = temps[At[w]] /\ temps[At[w]] \in Inodes
            ELSE temps'[At[w]] = Len(data) + 1 /\ temps'[At[w]] \notin Inodes
         /\ data' \in Seq(Bodies) /\ data'[temps'[At[w]]] = <<>> 
         /\ \A y \in Inodes : y # temps'[At[w]] => data'[y] = data[y]
         /\ wfd' = [wfd EXCEPT ![w] = temps'[At[w]]] /\ wpc' = [wpc EXCEPT ![w] = "temp"] /\ wpc[w] = "overwrite"
<1>. DEFINE p == At[w]
<1>1. p \in Spots /\ temps \in [Spots -> Nat] /\ data \in Seq(Bodies) /\ Len(data) \in Nat /\ <<>> \in Bodies
  BY HostFilesBounds DEF FilesInv, FilesTypes, Bodies
<1>2. /\ temps' = [temps EXCEPT ![p] = IF temps[p] = 0 THEN Len(data) + 1 ELSE temps[p]]
      /\ data' = IF temps[p] = 0 THEN Append(data, <<>>) ELSE [data EXCEPT ![temps[p]] = <<>>]
      /\ wfd' = [wfd EXCEPT ![w] = temps'[p]] /\ wpc' = [wpc EXCEPT ![w] = "temp"] /\ wpc[w] = "overwrite"
  BY DEF OpenTemp, To
<1>3. temps'[p] = IF temps[p] = 0 THEN Len(data) + 1 ELSE temps[p]
  BY <1>1, <1>2
<1>4. temps[p] # 0 => temps[p] \in Inodes
  BY <1>1 DEF FilesInv, HomeInv, Belongs
<1>. HIDE DEF p
<1>5. CASE temps[p] = 0
  <2>1. data' = Append(data, <<>>) /\ temps'[p] = Len(data) + 1
    BY <1>2, <1>3, <1>5
  <2>2. /\ data' \in Seq(Bodies) /\ Len(data') = Len(data) + 1 /\ data'[Len(data) + 1] = <<>>
        /\ \A y \in 1 .. Len(data) : data'[y] = data[y]
    BY <1>1, <2>1, AppendProperties
  <2>3. Inodes' = Inodes \cup {Len(data) + 1} /\ Len(data) + 1 \notin Inodes /\ Len(data) + 1 \in Nat \ {0}
    BY <1>1, <2>2 DEF Inodes
  <2>4. temps' = [temps EXCEPT ![p] = temps'[p]]
    BY <1>1, <1>2, <1>3
  <2>. QED
    BY <1>1, <1>2, <1>5, <2>1, <2>2, <2>3, <2>4 DEF Inodes, p
<1>6. CASE temps[p] # 0
  <2>1. data' = [data EXCEPT ![temps[p]] = <<>>] /\ temps'[p] = temps[p] /\ temps[p] \in Inodes
    BY <1>2, <1>3, <1>4, <1>6
  <2>2. /\ data' \in Seq(Bodies) /\ Len(data') = Len(data) /\ data'[temps[p]] = <<>>
        /\ \A y \in 1 .. Len(data) : y # temps[p] => data'[y] = data[y]
    BY <1>1, <2>1, ExceptSeq DEF Inodes
  <2>3. Inodes' = Inodes \cup {temps[p]} /\ temps[p] \in Nat \ {0}
    BY <1>1, <1>6, <2>1, <2>2 DEF Inodes
  <2>4. temps' = [temps EXCEPT ![p] = temps'[p]]
    BY <1>1, <1>2, <1>3
  <2>. QED
    BY <1>1, <1>2, <1>6, <2>1, <2>2, <2>3, <2>4 DEF Inodes, p
<1>. QED
  BY <1>5, <1>6

(* Nothing of another path is the inode x. *)
Away(x, p) ==
  /\ \A q \in Spots \ {p} : (names[q] # 0 => names[q] # x) /\ (temps[q] # 0 => temps[q] # x)
  /\ \A v \in Writers : At[v] # p /\ wpc[v] \in {"temp", "adds"} => wfd[v] # x
  /\ \A r \in Readers : At[r] # p /\ rpc[r] = "reads" => rfd[r] # x

LEMMA OthersAreAway ==
  ASSUME FilesInv, NEW p \in Spots, NEW x,
         \/ x \notin Inodes
         \/ \E v \in Writers : At[v] = p /\ wpc[v] \in {"temp", "adds"} /\ wfd[v] = x
         \/ x = temps[p] /\ x # 0
  PROVE  Away(x, p)
<1>1. PICK home \in [Inodes -> Spots] : Belongs(home)
  BY DEF FilesInv, HomeInv
<1>2. x \notin Inodes \/ home[x] = p
  BY <1>1 DEF Belongs
<1>. QED
  BY <1>1, <1>2 DEF Belongs, Away

LEMMA FilesTypesStep == FilesInv /\ [FilesNext]_filevars => FilesTypes'
<1>. SUFFICES ASSUME FilesInv, [FilesNext]_filevars PROVE FilesTypes'
  OBVIOUS
<1>. USE DEF Busy
<1>0. FilesTypes /\ \A c \in Writers \cup Readers : At[c] \in Spots
  BY HostFilesBounds DEF FilesInv
<1>1. ASSUME NEW w \in Writers, \E long, createDirs \in BOOLEAN : Refuse(w, long, createDirs) PROVE FilesTypes'
  BY <1>0, <1>1 DEF FilesTypes, Refuse, To, disk, reading
<1>2. ASSUME NEW w \in Writers, Decide(w) PROVE FilesTypes'
  BY <1>0, <1>2 DEF FilesTypes, Decide, To, reading
<1>3. ASSUME NEW w \in Writers, OpenAppend(w) PROVE FilesTypes'
  BY <1>0, <1>3 DEF FilesTypes, OpenAppend, To, disk, reading
<1>4. ASSUME NEW w \in Writers, OpenTemp(w) PROVE FilesTypes'
  <2>. DEFINE x == temps'[At[w]]
  <2>1. /\ temps' = [temps EXCEPT ![At[w]] = x] /\ x \in Nat /\ data' \in Seq(Bodies)
        /\ wfd' = [wfd EXCEPT ![w] = x] /\ wpc' = [wpc EXCEPT ![w] = "temp"]
    BY <1>4, OpenEffect
  <2>. HIDE DEF x
  <2>2. temps' \in [Spots -> Nat] /\ wfd' \in [Writers -> Nat]
    BY <1>0, <2>1 DEF FilesTypes
  <2>. QED
    BY <1>0, <1>4, <2>1, <2>2 DEF FilesTypes, OpenTemp, reading
<1>5. ASSUME NEW w \in Writers, WriteHalf(w) PROVE FilesTypes'
  <2>1. data' \in Seq(Bodies) /\ wdone[w] + 1 \in 0 .. 2
    BY <1>5, WriteEffect
  <2>. QED
    BY <1>0, <1>5, <2>1 DEF FilesTypes, WriteHalf, reading
<1>6. ASSUME NEW w \in Writers, Appended(w) PROVE FilesTypes'
  <2>1. wrote' \in [Spots -> Seq(Writers)]
    <3>1. Append(wrote[At[w]], w) \in Seq(Writers)
      BY <1>0, AppendProperties DEF FilesTypes
    <3>. QED
      BY <1>0, <1>6, <3>1 DEF FilesTypes, Appended
  <2>2. /\ wpc' = [wpc EXCEPT ![w] = "done"] /\ wfd' = [wfd EXCEPT ![w] = 0] /\ wdone' = [wdone EXCEPT ![w] = 0]
        /\ UNCHANGED <<names, temps, data, rpc, rfd, got, overlapped>>
    BY <1>6 DEF Appended, Ends, To, disk, reading
  <2>. QED
    BY <1>0, <2>1, <2>2 DEF FilesTypes
<1>7. ASSUME NEW w \in Writers, Replace(w) PROVE FilesTypes'
  <2>1. wrote' \in [Spots -> Seq(Writers)]
    <3>1. <<w>> \in Seq(Writers)
      OBVIOUS
    <3>. QED
      BY <1>0, <1>7, <3>1 DEF FilesTypes, Replace
  <2>2. names' \in [Spots -> Nat] /\ temps' \in [Spots -> Nat]
    BY <1>0, <1>7 DEF FilesTypes, Replace, Unlink
  <2>3. \E end \in {"error", "done"} : Ends(w, end)
    BY <1>7 DEF Replace
  <2>4. wpc' \in [Writers -> {"start", "refused", "done", "error", "killed"} \cup Busy] /\ wfd' \in [Writers -> Nat] /\ wdone' \in [Writers -> 0 .. 2]
    BY <1>0, <2>3 DEF FilesTypes, Ends, To
  <2>. QED
    BY <1>0, <1>7, <2>1, <2>2, <2>4 DEF FilesTypes, Replace, reading
<1>8. ASSUME NEW w \in Writers, WriteFails(w) PROVE FilesTypes'
  <2>1. temps' \in [Spots -> Nat]
    <3>1. temps' = temps \/ temps' = [temps EXCEPT ![At[w]] = 0]
      BY <1>8 DEF WriteFails, Unlink
    <3>2. temps \in [Spots -> Nat]
      BY <1>0 DEF FilesTypes
    <3>. QED
      BY <3>1, <3>2
  <2>. QED
    BY <1>0, <1>8, <2>1 DEF FilesTypes, WriteFails, Ends, To, reading
<1>9. ASSUME NEW r \in Readers, \E refused \in BOOLEAN : OpenRead(r, refused) PROVE FilesTypes'
  BY <1>0, <1>9 DEF FilesTypes, OpenRead, disk, writing
<1>10. ASSUME NEW r \in Readers, Read(r) PROVE FilesTypes'
  <2>. DEFINE text == data[rfd[r]]
  <2>1. rpc[r] = "reads" /\ text \in Bodies
    BY <1>10, ElementOfSeq DEF Read, FilesInv, HomeInv, Belongs, Inodes, FilesTypes
  <2>2. got' \in [Readers -> Bodies]
    <3>1. CASE Len(got[r]) < Len(text)
      <4>1. got' = [got EXCEPT ![r] = Append(got[r], text[Len(got[r]) + 1])]
        BY <1>10, <3>1 DEF Read
      <4>2. Append(got[r], text[Len(got[r]) + 1]) \in Bodies
        <5>1. got[r] \in Bodies /\ text \in Bodies
          BY <1>0, <2>1 DEF FilesTypes
        <5>. HIDE DEF text
        <5>2. Len(got[r]) + 1 \in 1 .. Len(text)
          BY <3>1, <5>1 DEF Bodies
        <5>3. text[Len(got[r]) + 1] \in Halves
          BY <5>1, <5>2, ElementOfSeq DEF Bodies
        <5>. QED
          BY <5>1, <5>3, AppendProperties DEF Bodies
      <4>. QED
        BY <1>0, <4>1, <4>2 DEF FilesTypes
    <3>2. CASE ~(Len(got[r]) < Len(text))
      BY <1>0, <1>10, <3>2 DEF Read, FilesTypes
    <3>. QED
      BY <3>1, <3>2
  <2>3. rpc' \in [Readers -> {"start", "reads", "done", "error", "killed"}] /\ rfd' \in [Readers -> Nat]
    BY <1>0, <1>10 DEF Read, FilesTypes
  <2>. QED
    BY <1>0, <1>10, <2>2, <2>3 DEF FilesTypes, Read, disk, writing
<1>11. CASE Kill
  BY <1>0, <1>11 DEF FilesTypes, Kill, disk
<1>12. CASE UNCHANGED filevars
  BY <1>0, <1>12 DEF FilesTypes, filevars
<1>. QED
  BY <1>1, <1>2, <1>3, <1>4, <1>5, <1>6, <1>7, <1>8, <1>9, <1>10, <1>11, <1>12 DEF FilesNext

LEMMA HomeStays ==
  ASSUME HomeInv, Len(data') = Len(data),
         \A p \in Spots : names'[p] \in {0, names[p], temps[p]} /\ temps'[p] \in {0, temps[p]},
         \A w \in Writers : wpc'[w] \in {"temp", "adds"} =>
           \/ wpc[w] \in {"temp", "adds"} /\ wfd'[w] = wfd[w]
           \/ At[w] \in Spots /\ wfd'[w] = names[At[w]] /\ wfd'[w] # 0,
         \A r \in Readers : rpc'[r] = "reads" =>
           \/ rpc[r] = "reads" /\ rfd'[r] = rfd[r]
           \/ At[r] \in Spots /\ rfd'[r] = names[At[r]] /\ rfd'[r] # 0
  PROVE  HomeInv'
<1>1. PICK home \in [Inodes -> Spots] : Belongs(home)
  BY DEF HomeInv
<1>2. Inodes' = Inodes
  BY DEF Inodes
<1>3. Belongs(home)'
  BY <1>1, <1>2 DEF Belongs
<1>. QED
  BY <1>2, <1>3 DEF HomeInv

LEMMA HomeStep == FilesInv /\ FilesTypes' /\ [FilesNext]_filevars => HomeInv'
<1>. SUFFICES ASSUME FilesInv, FilesTypes', [FilesNext]_filevars PROVE HomeInv'
  OBVIOUS
<1>. USE DEF Busy
<1>0. FilesTypes /\ HomeInv /\ \A c \in Writers \cup Readers : At[c] \in Spots
  BY HostFilesBounds DEF FilesInv
<1>1. ASSUME NEW w \in Writers, \E long, createDirs \in BOOLEAN : Refuse(w, long, createDirs) PROVE HomeInv'
  BY <1>0, <1>1, HomeStays DEF FilesTypes, Refuse, To, disk, reading
<1>2. ASSUME NEW w \in Writers, Decide(w) PROVE HomeInv'
  BY <1>0, <1>2, HomeStays DEF FilesTypes, Decide, To, reading
<1>3. ASSUME NEW w \in Writers, OpenAppend(w) PROVE HomeInv'
  <2>1. names[At[w]] # 0
    BY <1>3 DEF OpenAppend, FilesInv, WritersInv
  <2>. QED
    BY <1>0, <1>3, <2>1, HomeStays DEF FilesTypes, OpenAppend, To, disk, reading
<1>4. ASSUME NEW w \in Writers, OpenTemp(w) PROVE HomeInv'
  <2>. DEFINE x == temps'[At[w]]
  <2>0. PICK home \in [Inodes -> Spots] : Belongs(home)
    BY <1>0 DEF HomeInv
  <2>1. /\ At[w] \in Spots /\ temps' = [temps EXCEPT ![At[w]] = x]
        /\ x \in Nat \ {0} /\ x \in Inodes' /\ Inodes' = Inodes \cup {x}
        /\ (x \notin Inodes \/ home[x] = At[w])
        /\ wfd' = [wfd EXCEPT ![w] = x] /\ wpc' = [wpc EXCEPT ![w] = "temp"]
    BY <1>4, <2>0, OpenEffect DEF Belongs
  <2>2. UNCHANGED <<names, rpc, rfd>>
    BY <1>4 DEF OpenTemp, reading
  <2>. HIDE DEF x
  <2>3. \E home2 \in [Inodes' -> Spots] : home2[x] = At[w] /\ \A y \in Inodes : y \in Inodes' /\ home2[y] = home[y]
    <3>. DEFINE f == [y \in Inodes' |-> IF y = x THEN At[w] ELSE home[y]]
    <3>1. f \in [Inodes' -> Spots] /\ f[x] = At[w] /\ \A y \in Inodes : y \in Inodes' /\ f[y] = home[y]
      BY <2>0, <2>1
    <3>. QED
      BY <3>1
  <2>4. PICK home2 \in [Inodes' -> Spots] : home2[x] = At[w] /\ \A y \in Inodes : y \in Inodes' /\ home2[y] = home[y]
    BY <2>3
  <2>5. \A p \in Spots : temps'[p] = IF p = At[w] THEN x ELSE temps[p]
    BY <1>0, <2>1 DEF FilesTypes
  <2>6. \A v \in Writers : (v = w /\ wfd'[v] = x) \/ (v # w /\ wfd'[v] = wfd[v] /\ wpc'[v] = wpc[v])
    BY <1>0, <2>1 DEF FilesTypes
  <2>7. \A p \in Spots : /\ names'[p] # 0 => names'[p] \in Inodes' /\ home2[names'[p]] = p
                         /\ temps'[p] # 0 => temps'[p] \in Inodes' /\ home2[temps'[p]] = p
    <3>1. \A p \in Spots : (names[p] # 0 => names[p] \in Inodes /\ home[names[p]] = p)
                          /\ (temps[p] # 0 => temps[p] \in Inodes /\ home[temps[p]] = p)
      BY <2>0 DEF Belongs
    <3>2. x \in Inodes' /\ names' = names
      BY <2>1, <2>2
    <3>. QED
      BY <2>4, <2>5, <3>1, <3>2
  <2>8. \A v \in Writers : wpc'[v] \in {"temp", "adds"} => wfd'[v] \in Inodes' /\ home2[wfd'[v]] = At[v]
    <3>1. \A v \in Writers : wpc[v] \in {"temp", "adds"} => wfd[v] \in Inodes /\ home[wfd[v]] = At[v]
      BY <2>0 DEF Belongs
    <3>2. x \in Inodes'
      BY <2>1
    <3>. QED
      BY <2>4, <2>6, <3>1, <3>2
  <2>9. \A r \in Readers : rpc'[r] = "reads" => rfd'[r] \in Inodes' /\ home2[rfd'[r]] = At[r]
    BY <2>0, <2>2, <2>4 DEF Belongs
  <2>10. Belongs(home2)'
    BY <2>7, <2>8, <2>9 DEF Belongs
  <2>. QED
    BY <2>4, <2>10 DEF HomeInv
<1>5. ASSUME NEW w \in Writers, WriteHalf(w) PROVE HomeInv'
  <2>1. Len(data') = Len(data)
    BY <1>5, WriteEffect
  <2>. QED
    BY <1>0, <1>5, <2>1, HomeStays DEF WriteHalf, reading
<1>6. ASSUME NEW w \in Writers, Appended(w) PROVE HomeInv'
  BY <1>0, <1>6, HomeStays DEF FilesTypes, Appended, Ends, To, disk, reading
<1>7. ASSUME NEW w \in Writers, Replace(w) PROVE HomeInv'
  <2>1. \A p \in Spots : names'[p] \in {0, names[p], temps[p]} /\ temps'[p] \in {0, temps[p]}
    <3>1. temps' = [temps EXCEPT ![At[w]] = 0] /\ (names' = names \/ names' = [names EXCEPT ![At[w]] = temps[At[w]]])
      BY <1>7 DEF Replace, Unlink
    <3>2. temps \in [Spots -> Nat] /\ names \in [Spots -> Nat]
      BY <1>0 DEF FilesTypes
    <3>. QED
      BY <3>1, <3>2
  <2>2. \E end \in {"error", "done"} : Ends(w, end)
    BY <1>7 DEF Replace
  <2>3. \A v \in Writers : wpc'[v] \in {"temp", "adds"} => wpc[v] = wpc'[v] /\ wfd'[v] = wfd[v]
    BY <1>0, <2>2 DEF FilesTypes, Ends, To
  <2>. QED
    BY <1>0, <1>7, <2>1, <2>3, HomeStays DEF Replace, reading
<1>8. ASSUME NEW w \in Writers, WriteFails(w) PROVE HomeInv'
  <2>1. \A p \in Spots : temps'[p] \in {0, temps[p]}
    BY <1>0, <1>8 DEF FilesTypes, WriteFails, Unlink
  <2>2. \A v \in Writers : wpc'[v] \in {"temp", "adds"} => wpc[v] = wpc'[v] /\ wfd'[v] = wfd[v]
    BY <1>0, <1>8 DEF FilesTypes, WriteFails, Ends, To
  <2>. QED
    BY <1>0, <1>8, <2>1, <2>2, HomeStays DEF WriteFails, reading
<1>9. ASSUME NEW r \in Readers, \E refused \in BOOLEAN : OpenRead(r, refused) PROVE HomeInv'
  <2>1. \A u \in Readers : rpc'[u] = "reads" =>
           \/ rpc[u] = "reads" /\ rfd'[u] = rfd[u]
           \/ At[u] \in Spots /\ rfd'[u] = names[At[u]] /\ rfd'[u] # 0
    <3>1. CASE rpc' = [rpc EXCEPT ![r] = "error"] /\ rfd' = rfd
      BY <1>0, <3>1 DEF FilesTypes
    <3>2. CASE rpc' = [rpc EXCEPT ![r] = "reads"] /\ rfd' = [rfd EXCEPT ![r] = names[At[r]]] /\ names[At[r]] # 0
      BY <1>0, <3>2 DEF FilesTypes
    <3>. QED
      BY <1>9, <3>1, <3>2 DEF OpenRead
  <2>. QED
    BY <1>0, <1>9, <2>1, HomeStays DEF OpenRead, disk, writing
<1>10. ASSUME NEW r \in Readers, Read(r) PROVE HomeInv'
  BY <1>0, <1>10, HomeStays DEF FilesTypes, Read, disk, writing
<1>11. CASE Kill
  BY <1>0, <1>11, HomeStays DEF FilesTypes, Kill, disk
<1>12. CASE UNCHANGED filevars
  BY <1>0, <1>12, HomeStays DEF filevars
<1>. QED
  BY <1>1, <1>2, <1>3, <1>4, <1>5, <1>6, <1>7, <1>8, <1>9, <1>10, <1>11, <1>12 DEF FilesNext

LEMMA WritersStep == FilesInv /\ [FilesNext]_filevars => WritersInv'
<1>. SUFFICES ASSUME FilesInv, [FilesNext]_filevars PROVE WritersInv'
  OBVIOUS
<1>. USE DEF Busy
<1>0. FilesTypes /\ WritersInv /\ \A c \in Writers \cup Readers : At[c] \in Spots
  BY HostFilesBounds DEF FilesInv
<1>13. ASSUME data' = data, names' = names,
              \A w \in Writers : /\ wpc'[w] = wpc[w] \/ wpc'[w] \notin {"start", "overwrite", "append"} \/ wpc[w] = "start"
                                 /\ wpc'[w] \in {"start", "overwrite", "append"} => wdone'[w] = wdone[w]
                                 /\ wpc'[w] \in {"append", "adds"} => Mode[w] = "append"
                                 /\ wpc'[w] = "append" => names[At[w]] # 0
       PROVE  WritersInv'
  BY <1>0, <1>13 DEF WritersInv, Inodes
<1>1. ASSUME NEW w \in Writers, \E long, createDirs \in BOOLEAN : Refuse(w, long, createDirs) PROVE WritersInv'
  BY <1>0, <1>1 DEF WritersInv, Inodes, FilesTypes, Refuse, To, disk, reading
<1>2. ASSUME NEW w \in Writers, Decide(w) PROVE WritersInv'
  <2>1. /\ wpc[w] = "start" /\ UNCHANGED <<names, data, wdone>>
        /\ \E way \in {"append", "overwrite"} : /\ wpc' = [wpc EXCEPT ![w] = way]
                                                /\ way = "append" => Mode[w] = "append" /\ names[At[w]] # 0
    BY <1>2 DEF Decide, To
  <2>. QED
    BY <1>0, <2>1 DEF WritersInv, Inodes, FilesTypes
<1>3. ASSUME NEW w \in Writers, OpenAppend(w) PROVE WritersInv'
  BY <1>0, <1>3 DEF WritersInv, Inodes, FilesTypes, OpenAppend, To, disk, reading
<1>4. ASSUME NEW w \in Writers, OpenTemp(w) PROVE WritersInv'
  <2>. DEFINE x == temps'[At[w]]
  <2>1. /\ Inodes' = Inodes \cup {x} /\ data'[x] = <<>> /\ \A y \in Inodes : y # x => data'[y] = data[y]
        /\ wpc' = [wpc EXCEPT ![w] = "temp"]
    BY <1>4, OpenEffect
  <2>2. names' = names /\ wdone' = wdone
    BY <1>4 DEF OpenTemp
  <2>3. \A v : Lacks(<<>>, v)
    BY DEF Lacks
  <2>. HIDE DEF x
  <2>4. \A v : (\A y \in Inodes : Lacks(data[y], v)) => \A y \in Inodes' : Lacks(data'[y], v)
    BY <2>1, <2>3
  <2>5. \A v \in Writers : wpc'[v] # "temp" => wpc'[v] = wpc[v]
    BY <1>0, <2>1 DEF FilesTypes
  <2>6. \A v \in Writers : wpc'[v] \in {"start", "overwrite", "append"} => wdone'[v] = 0 /\ \A y \in Inodes' : Lacks(data'[y], v)
    BY <1>0, <2>2, <2>4, <2>5 DEF WritersInv
  <2>7. \A v \in Writers : wpc'[v] \in {"append", "adds"} => Mode[v] = "append"
    BY <1>0, <2>5 DEF WritersInv
  <2>8. \A v \in Writers : wpc'[v] = "append" => names'[At[v]] # 0
    BY <1>0, <2>2, <2>5 DEF WritersInv
  <2>. QED
    BY <2>6, <2>7, <2>8 DEF WritersInv
<1>5. ASSUME NEW w \in Writers, WriteHalf(w) PROVE WritersInv'
  <2>. DEFINE x == wfd[w]
  <2>1. /\ Inodes' = Inodes /\ \A y \in Inodes : y # x => data'[y] = data[y]
        /\ x \in Inodes /\ \A v \in Writers : v # w /\ Lacks(data[x], v) => Lacks(data'[x], v)
    BY <1>5, WriteEffect DEF Inodes
  <2>2. names' = names /\ wpc' = wpc /\ wdone' = [wdone EXCEPT ![w] = @ + 1] /\ wpc[w] \in {"temp", "adds"}
    BY <1>5 DEF WriteHalf
  <2>. HIDE DEF x
  <2>3. \A v \in Writers : v # w /\ (\A y \in Inodes : Lacks(data[y], v)) => \A y \in Inodes' : Lacks(data'[y], v)
    BY <2>1
  <2>. QED
    BY <1>0, <2>2, <2>3 DEF WritersInv, FilesTypes
<1>6. ASSUME NEW w \in Writers, Appended(w) PROVE WritersInv'
  BY <1>0, <1>6 DEF WritersInv, Inodes, FilesTypes, Appended, Ends, To, disk, reading
<1>7. ASSUME NEW w \in Writers, Replace(w) PROVE WritersInv'
  <2>1. \E end \in {"error", "done"} : Ends(w, end)
    BY <1>7 DEF Replace
  <2>2. \A v \in Writers : wpc'[v] \in {"start", "overwrite", "append", "adds"} => wpc[v] = wpc'[v] /\ wdone'[v] = wdone[v]
    BY <1>0, <2>1 DEF FilesTypes, Ends, To
  <2>3. \A p \in Spots : names[p] # 0 => names'[p] # 0
    <3>1. names' = names \/ (temps[At[w]] # 0 /\ names' = [names EXCEPT ![At[w]] = temps[At[w]]])
      BY <1>7 DEF Replace
    <3>. QED
      BY <1>0, <3>1 DEF FilesTypes
  <2>4. data' = data
    BY <1>7 DEF Replace
  <2>. QED
    BY <1>0, <2>2, <2>3, <2>4 DEF WritersInv, Inodes
<1>8. ASSUME NEW w \in Writers, WriteFails(w) PROVE WritersInv'
  BY <1>0, <1>8 DEF WritersInv, Inodes, FilesTypes, WriteFails, Unlink, Ends, To, reading
<1>9. ASSUME NEW r \in Readers, \E refused \in BOOLEAN : OpenRead(r, refused) PROVE WritersInv'
  BY <1>0, <1>9 DEF WritersInv, Inodes, OpenRead, disk, writing
<1>10. ASSUME NEW r \in Readers, Read(r) PROVE WritersInv'
  BY <1>0, <1>10 DEF WritersInv, Inodes, Read, disk, writing
<1>11. CASE Kill
  BY <1>0, <1>11 DEF WritersInv, Inodes, FilesTypes, Kill, disk
<1>12. CASE UNCHANGED filevars
  BY <1>0, <1>12 DEF WritersInv, Inodes, filevars
<1>. QED
  BY <1>1, <1>2, <1>3, <1>4, <1>5, <1>6, <1>7, <1>8, <1>9, <1>10, <1>11, <1>12 DEF FilesNext

LEMMA AloneStep == FilesInv /\ [FilesNext]_filevars => AloneInv'
<1>. SUFFICES ASSUME FilesInv, [FilesNext]_filevars PROVE AloneInv'
  OBVIOUS
<1>. USE DEF Busy
<1>0. FilesTypes /\ AloneInv /\ \A c \in Writers \cup Readers : At[c] \in Spots
  BY HostFilesBounds DEF FilesInv
<1>13. ASSUME overlapped' = overlapped,
              \A w \in Writers : wpc'[w] \in Busy => wpc[w] \in Busy /\ (wpc[w] \in {"append", "adds"} => wpc'[w] \in {"append", "adds"})
       PROVE  AloneInv'
  BY <1>0, <1>13 DEF AloneInv
<1>2. ASSUME NEW w \in Writers, Decide(w) PROVE AloneInv'
  <2>1. PICK way \in {"append", "overwrite"} :
          /\ wpc' = [wpc EXCEPT ![w] = way] /\ overlapped \subseteq overlapped'
          /\ \A v \in Writers \ {w} : At[v] = At[w] /\ wpc[v] \in Busy /\ At[w] \notin overlapped' =>
               {way, wpc[v]} \cap {"overwrite", "temp"} = {}
    BY <1>2 DEF Decide, To
  <2>2. \A v \in Writers : wpc'[v] = IF v = w THEN way ELSE wpc[v]
    BY <1>0, <2>1 DEF FilesTypes
  <2>3. \A v \in Writers \ {w} : At[v] = At[w] /\ wpc[v] \in Busy /\ At[w] \notin overlapped' =>
               way = "append" /\ wpc[v] \in {"append", "adds"}
    BY <2>1
  <2>. QED
    BY <1>0, <2>1, <2>2, <2>3 DEF AloneInv
<1>1. ASSUME NEW w \in Writers, \E long, createDirs \in BOOLEAN : Refuse(w, long, createDirs) PROVE AloneInv'
  BY <1>0, <1>1, <1>13 DEF FilesTypes, Refuse, To
<1>3. ASSUME NEW w \in Writers, OpenAppend(w) PROVE AloneInv'
  BY <1>0, <1>3, <1>13 DEF FilesTypes, OpenAppend, To
<1>4. ASSUME NEW w \in Writers, OpenTemp(w) PROVE AloneInv'
  BY <1>0, <1>4, <1>13 DEF FilesTypes, OpenTemp, To
<1>5. ASSUME NEW w \in Writers, WriteHalf(w) PROVE AloneInv'
  BY <1>0, <1>5, <1>13 DEF WriteHalf
<1>6. ASSUME NEW w \in Writers, Appended(w) PROVE AloneInv'
  BY <1>0, <1>6, <1>13 DEF FilesTypes, Appended, Ends, To
<1>7. ASSUME NEW w \in Writers, Replace(w) PROVE AloneInv'
  <2>1. overlapped' = overlapped /\ \E end \in {"error", "done"} : wpc' = [wpc EXCEPT ![w] = end]
    BY <1>7 DEF Replace, Ends, To
  <2>. QED
    BY <1>0, <2>1, <1>13 DEF FilesTypes
<1>8. ASSUME NEW w \in Writers, WriteFails(w) PROVE AloneInv'
  BY <1>0, <1>8, <1>13 DEF FilesTypes, WriteFails, Ends, To
<1>9. ASSUME NEW r \in Readers, \E refused \in BOOLEAN : OpenRead(r, refused) PROVE AloneInv'
  BY <1>0, <1>9, <1>13 DEF OpenRead, writing
<1>10. ASSUME NEW r \in Readers, Read(r) PROVE AloneInv'
  BY <1>0, <1>10, <1>13 DEF Read, writing
<1>11. CASE Kill
  BY <1>0, <1>11, <1>13 DEF FilesTypes, Kill
<1>12. CASE UNCHANGED filevars
  BY <1>0, <1>12, <1>13 DEF filevars
<1>. QED
  BY <1>1, <1>2, <1>3, <1>4, <1>5, <1>6, <1>7, <1>8, <1>9, <1>10, <1>11, <1>12 DEF FilesNext

LEMMA InodesOf ==
  ASSUME FilesInv
  PROVE  /\ \A p \in Spots : (names[p] # 0 => names[p] \in Inodes) /\ (temps[p] # 0 => temps[p] \in Inodes)
         /\ \A w \in Writers : wpc[w] \in {"temp", "adds"} => wfd[w] \in Inodes /\ wfd[w] # 0
         /\ \A r \in Readers : rpc[r] = "reads" => rfd[r] \in Inodes
         /\ \A x \in Inodes : data[x] \in Bodies /\ x # 0
<1>1. \A x \in Inodes : data[x] \in Bodies /\ x # 0
  BY ElementOfSeq DEF FilesInv, FilesTypes, Inodes
<1>. QED
  BY <1>1 DEF FilesInv, HomeInv, Belongs

(* It is none of the files that are named, read or being written. *)
LEMMA OpenApart ==
  ASSUME FilesInv, NEW w \in Writers, OpenTemp(w), NEW p \in Spots \ overlapped
  PROVE  /\ names[p] # 0 => data'[names[p]] = data[names[p]]
         /\ \A v \in Writers : v # w /\ At[v] = p /\ wpc[v] \in {"temp", "adds"} => At[w] # p /\ data'[wfd[v]] = data[wfd[v]]
         /\ \A r \in Readers : At[r] = p /\ rpc[r] = "reads" => data'[rfd[r]] = data[rfd[r]]
<1>. DEFINE x == temps'[At[w]]
<1>1. /\ At[w] \in Spots /\ (x \notin Inodes \/ (x = temps[At[w]] /\ x # 0)) /\ wpc[w] = "overwrite"
      /\ \A y \in Inodes : y # x => data'[y] = data[y]
  BY OpenEffect
<1>. HIDE DEF x
<1>2. Away(x, At[w])
  BY <1>1, OthersAreAway
<1>3. CASE At[w] = p
  <2>1. /\ names[p] # 0 => names[p] # x
        /\ \A r \in Readers : At[r] = p /\ rpc[r] = "reads" => rfd[r] # x
    BY <1>1, <1>3, InodesOf DEF FilesInv, ApartInv
  <2>2. \A v \in Writers : v # w /\ At[v] = p => wpc[v] \notin {"temp", "adds"}
    BY <1>1, <1>3 DEF FilesInv, AloneInv, Busy
  <2>. QED
    BY <1>1, <2>1, <2>2, InodesOf
<1>4. CASE At[w] # p
  BY <1>1, <1>2, <1>4, InodesOf DEF Away
<1>. QED
  BY <1>3, <1>4

(* A write changes no file that is named, read or written by another but by an
   append to it. *)
LEMMA WriteApart ==
  ASSUME FilesInv, NEW w \in Writers, WriteHalf(w), NEW p \in Spots \ overlapped
  PROVE  LET h == <<w, wdone[w] + 1>>
             Touched(x) == x = wfd[w] /\ Mode[w] = "append" /\ wpc[w] = "adds" /\ data'[x] = Append(data[x], h)
         IN  /\ names[p] # 0 => data'[names[p]] = data[names[p]] \/ Touched(names[p])
             /\ \A v \in Writers : v # w /\ At[v] = p /\ wpc[v] \in {"temp", "adds"} =>
                  data'[wfd[v]] = data[wfd[v]] \/ (wpc[v] = "adds" /\ Touched(wfd[v]))
             /\ \A r \in Readers : At[r] = p /\ rpc[r] = "reads" => data'[rfd[r]] = data[rfd[r]] \/ Touched(rfd[r])
<1>. DEFINE x == wfd[w]
            h == <<w, wdone[w] + 1>>
<1>1. /\ x \in Inodes /\ \A y \in Inodes : y # x => data'[y] = data[y]
      /\ At[w] \notin overlapped => data'[x] = Append(data[x], h)
  BY WriteEffect
<1>2. At[w] \in Spots /\ wpc[w] \in {"temp", "adds"}
  BY HostFilesBounds DEF WriteHalf
<1>3. Away(x, At[w])
  BY <1>2, OthersAreAway
<1>. HIDE DEF x, h
<1>4. CASE At[w] # p
  BY <1>1, <1>3, <1>4, InodesOf DEF Away
<1>5. CASE At[w] = p /\ wpc[w] = "temp"
  <2>1. x = temps[p] /\ x # 0
    BY <1>5, InodesOf DEF FilesInv, TempInv, Filled, x
  <2>2. /\ names[p] # 0 => names[p] # x
        /\ \A r \in Readers : At[r] = p /\ rpc[r] = "reads" => rfd[r] # x
    BY <2>1 DEF FilesInv, ApartInv
  <2>3. \A v \in Writers : v # w /\ At[v] = p => wpc[v] \notin {"temp", "adds"}
    BY <1>5 DEF FilesInv, AloneInv, Busy
  <2>. QED
    BY <1>1, <2>2, <2>3, InodesOf
<1>6. CASE At[w] = p /\ wpc[w] = "adds"
  <2>1. Mode[w] = "append" /\ data'[x] = Append(data[x], h)
    BY <1>1, <1>6 DEF FilesInv, WritersInv
  <2>2. \A v \in Writers : v # w /\ At[v] = p => wpc[v] # "temp"
    BY <1>6 DEF FilesInv, AloneInv, Busy
  <2>3. \A y \in Inodes : data'[y] = data[y] \/ (y = wfd[w] /\ data'[y] = Append(data[y], h))
    BY <1>1, <2>1 DEF x
  <2>. QED
    BY <1>6, <2>1, <2>2, <2>3, InodesOf DEF h
<1>. QED
  BY <1>2, <1>4, <1>5, <1>6

LEMMA ApartStep == FilesInv /\ [FilesNext]_filevars => ApartInv'
<1>. SUFFICES ASSUME FilesInv, [FilesNext]_filevars PROVE ApartInv'
  OBVIOUS
<1>0. FilesTypes /\ ApartInv /\ \A c \in Writers \cup Readers : At[c] \in Spots
  BY HostFilesBounds DEF FilesInv
<1>13. ASSUME overlapped \subseteq overlapped', names' = names, \A p \in Spots : temps'[p] \in {0, temps[p]},
              \A r \in Readers : rpc'[r] = "reads" => rpc[r] = "reads" /\ rfd'[r] = rfd[r]
       PROVE  ApartInv'
  BY <1>0, <1>13 DEF ApartInv
<1>1. ASSUME NEW w \in Writers, \E long, createDirs \in BOOLEAN : Refuse(w, long, createDirs) PROVE ApartInv'
  BY <1>1, <1>13 DEF Refuse, disk, reading
<1>2. ASSUME NEW w \in Writers, Decide(w) PROVE ApartInv'
  <2>1. overlapped \subseteq overlapped'
    BY <1>2 DEF Decide
  <2>. QED
    BY <1>2, <1>13, <2>1 DEF Decide, reading
<1>3. ASSUME NEW w \in Writers, OpenAppend(w) PROVE ApartInv'
  BY <1>3, <1>13 DEF OpenAppend, disk, reading
<1>4. ASSUME NEW w \in Writers, OpenTemp(w) PROVE ApartInv'
  <2>. DEFINE x == temps'[At[w]]
  <2>1. At[w] \in Spots /\ temps' = [temps EXCEPT ![At[w]] = x] /\ (x \notin Inodes \/ x = temps[At[w]])
    BY <1>4, OpenEffect
  <2>2. UNCHANGED <<names, rpc, rfd, overlapped>>
    BY <1>4 DEF OpenTemp, reading
  <2>. HIDE DEF x
  <2>3. \A p \in Spots : temps'[p] = IF p = At[w] THEN x ELSE temps[p]
    BY <1>0, <2>1 DEF FilesTypes
  <2>. QED
    BY <1>0, <2>1, <2>2, <2>3, InodesOf DEF ApartInv
<1>5. ASSUME NEW w \in Writers, WriteHalf(w) PROVE ApartInv'
  BY <1>5, <1>13 DEF WriteHalf, reading
<1>6. ASSUME NEW w \in Writers, Appended(w) PROVE ApartInv'
  BY <1>6, <1>13 DEF Appended, disk, reading
<1>7. ASSUME NEW w \in Writers, Replace(w) PROVE ApartInv'
  <2>1. /\ temps' = [temps EXCEPT ![At[w]] = 0] /\ (names' = names \/ names' = [names EXCEPT ![At[w]] = temps[At[w]]])
        /\ UNCHANGED <<rpc, rfd, overlapped>>
    BY <1>7 DEF Replace, Unlink, reading
  <2>2. temps \in [Spots -> Nat] /\ names \in [Spots -> Nat]
    BY <1>0 DEF FilesTypes
  <2>3. \A p \in Spots : temps'[p] # 0 => temps'[p] = temps[p] /\ names'[p] = names[p]
    BY <2>1, <2>2
  <2>. QED
    BY <1>0, <2>1, <2>3 DEF ApartInv
<1>8. ASSUME NEW w \in Writers, WriteFails(w) PROVE ApartInv'
  <2>1. temps' = temps \/ temps' = [temps EXCEPT ![At[w]] = 0]
    BY <1>8 DEF WriteFails, Unlink
  <2>2. temps \in [Spots -> Nat]
    BY <1>0 DEF FilesTypes
  <2>3. \A p \in Spots : temps'[p] \in {0, temps[p]}
    BY <2>1, <2>2
  <2>. QED
    BY <1>8, <1>13, <2>3 DEF WriteFails, reading
<1>9. ASSUME NEW r \in Readers, \E refused \in BOOLEAN : OpenRead(r, refused) PROVE ApartInv'
  <2>1. \A u \in Readers : rpc'[u] = "reads" =>
           (rpc[u] = "reads" /\ rfd'[u] = rfd[u]) \/ rfd'[u] = names[At[u]]
    BY <1>0, <1>9 DEF FilesTypes, OpenRead
  <2>2. UNCHANGED <<names, temps, overlapped>>
    BY <1>9 DEF OpenRead, disk, writing
  <2>. QED
    BY <1>0, <2>1, <2>2 DEF ApartInv
<1>10. ASSUME NEW r \in Readers, Read(r) PROVE ApartInv'
  BY <1>0, <1>10, <1>13 DEF FilesTypes, Read, disk, writing
<1>11. CASE Kill
  BY <1>0, <1>11, <1>13 DEF FilesTypes, Kill, disk
<1>12. CASE UNCHANGED filevars
  BY <1>12, <1>13 DEF filevars
<1>. QED
  BY <1>1, <1>2, <1>3, <1>4, <1>5, <1>6, <1>7, <1>8, <1>9, <1>10, <1>11, <1>12 DEF FilesNext

LEMMA TempStep == FilesInv /\ [FilesNext]_filevars => TempInv'
<1>. SUFFICES ASSUME FilesInv, [FilesNext]_filevars PROVE TempInv'
  OBVIOUS
<1>0. FilesTypes /\ TempInv /\ \A c \in Writers \cup Readers : At[c] \in Spots
  BY HostFilesBounds DEF FilesInv
<1>13. ASSUME overlapped \subseteq overlapped', UNCHANGED <<temps, data>>,
              \A w \in Writers : wpc'[w] = "temp" => wpc[w] = "temp" /\ wfd'[w] = wfd[w] /\ wdone'[w] = wdone[w]
       PROVE  TempInv'
  <2>. SUFFICES ASSUME NEW w \in Writers, wpc'[w] = "temp", At[w] \notin overlapped' PROVE Filled(w)'
    BY DEF TempInv
  <2>1. Filled(w) /\ wfd'[w] = wfd[w] /\ wdone'[w] = wdone[w]
    BY <1>0, <1>13 DEF TempInv
  <2>. QED
    BY <1>13, <2>1 DEF Filled
<1>14. ASSUME NEW w \in Writers, wpc[w] = "temp", NEW v \in Writers, v # w, At[v] = At[w], At[w] \notin overlapped PROVE wpc[v] \notin Busy
  BY <1>14 DEF FilesInv, AloneInv, Busy
<1>1. ASSUME NEW w \in Writers, \E long, createDirs \in BOOLEAN : Refuse(w, long, createDirs) PROVE TempInv'
  BY <1>0, <1>1, <1>13 DEF FilesTypes, Refuse, To, disk, reading
<1>2. ASSUME NEW w \in Writers, Decide(w) PROVE TempInv'
  <2>1. /\ overlapped \subseteq overlapped' /\ UNCHANGED <<temps, data, wfd, wdone>>
        /\ \E way \in {"append", "overwrite"} : wpc' = [wpc EXCEPT ![w] = way]
    BY <1>2 DEF Decide, To
  <2>. QED
    BY <1>0, <1>13, <2>1 DEF FilesTypes
<1>3. ASSUME NEW w \in Writers, OpenAppend(w) PROVE TempInv'
  BY <1>0, <1>3, <1>13 DEF FilesTypes, OpenAppend, To, disk, reading
<1>4. ASSUME NEW w \in Writers, OpenTemp(w) PROVE TempInv'
  <2>. DEFINE x == temps'[At[w]]
  <2>1. /\ At[w] \in Spots /\ temps' = [temps EXCEPT ![At[w]] = x] /\ data'[x] = <<>> /\ x \in Inodes'
        /\ wfd' = [wfd EXCEPT ![w] = x] /\ wpc' = [wpc EXCEPT ![w] = "temp"] /\ wpc[w] = "overwrite"
    BY <1>4, OpenEffect
  <2>2. wdone' = wdone /\ overlapped' = overlapped /\ wdone[w] = 0
    BY <1>4, <2>1 DEF OpenTemp, FilesInv, WritersInv
  <2>3. ASSUME NEW v \in Writers, v # w, wpc'[v] = "temp", At[v] \notin overlapped
        PROVE  wpc[v] = "temp" /\ wfd'[v] = wfd[v] /\ temps'[At[v]] = temps[At[v]] /\ data'[wfd[v]] = data[wfd[v]]
    <3>1. wpc[v] = "temp" /\ wfd'[v] = wfd[v]
      BY <1>0, <2>1, <2>3 DEF FilesTypes
    <3>2. At[v] # At[w] /\ data'[wfd[v]] = data[wfd[v]]
      BY <1>0, <1>4, <2>3, <3>1, OpenApart
    <3>. HIDE DEF x
    <3>. QED
      BY <1>0, <2>1, <3>1, <3>2 DEF FilesTypes
  <2>. HIDE DEF x
  <2>4. wfd'[w] = x /\ temps'[At[w]] = x /\ Len(data'[x]) = 0
    BY <1>0, <2>1 DEF FilesTypes
  <2>5. ASSUME NEW v \in Writers, wpc'[v] = "temp", At[v] \notin overlapped
        PROVE  Filled(v)'
    <3>1. CASE v = w
      <4>1. wdone'[w] = 0 /\ \A k \in 1 .. 0 : FALSE
        BY <2>2
      <4>. QED
        BY <2>4, <3>1, <4>1 DEF Filled
    <3>2. CASE v # w
      <4>1. wpc[v] = "temp" /\ wfd'[v] = wfd[v] /\ temps'[At[v]] = temps[At[v]] /\ data'[wfd[v]] = data[wfd[v]]
        BY <2>3, <2>5, <3>2
      <4>2. Filled(v)
        BY <1>0, <2>5, <4>1 DEF TempInv
      <4>. QED
        BY <2>2, <4>1, <4>2 DEF Filled
    <3>. QED
      BY <3>1, <3>2
  <2>. QED
    BY <2>2, <2>5 DEF TempInv
<1>5. ASSUME NEW w \in Writers, WriteHalf(w) PROVE TempInv'
  <2>1. UNCHANGED <<temps, wpc, wfd, overlapped>> /\ wdone' = [wdone EXCEPT ![w] = @ + 1]
    BY <1>5 DEF WriteHalf
  <2>2. \A v \in Writers : wdone'[v] = IF v = w THEN wdone[w] + 1 ELSE wdone[v]
    BY <1>0, <2>1 DEF FilesTypes
  <2>3. ASSUME NEW v \in Writers, wpc[v] = "temp", At[v] \notin overlapped
        PROVE  /\ Len(data'[wfd[v]]) = wdone'[v]
               /\ \A k \in 1 .. wdone'[v] : data'[wfd[v]][k] = <<v, k>>
    <3>1. CASE v # w
      <4>1. data'[wfd[v]] = data[wfd[v]]
        BY <1>0, <1>5, <2>3, <3>1, WriteApart
      <4>2. Filled(v)
        BY <1>0, <2>3 DEF TempInv
      <4>3. wdone'[v] = wdone[v]
        BY <2>2, <3>1
      <4>. QED
        BY <4>1, <4>2, <4>3 DEF Filled
    <3>2. CASE v = w
      <4>. DEFINE d == data[wfd[w]]
                  h == <<w, wdone[w] + 1>>
      <4>1. data'[wfd[w]] = Append(d, h) /\ d \in Bodies /\ h \in Halves /\ wdone[w] \in 0 .. 1
        <5>1. wdone[w] \in 0 .. 1 /\ wfd[w] \in Inodes /\ data'[wfd[w]] = Append(d, h)
          BY <1>5, <2>3, <3>2, WriteEffect
        <5>. QED
          BY <5>1, InodesOf DEF Halves
      <4>2. Len(d) = wdone[w] /\ \A k \in 1 .. wdone[w] : d[k] = <<w, k>>
        BY <1>0, <2>3, <3>2 DEF TempInv, Filled
      <4>. HIDE DEF d
      <4>3. Len(Append(d, h)) = wdone[w] + 1 /\ \A k \in 1 .. wdone[w] + 1 : Append(d, h)[k] = <<w, k>>
        <5>1. /\ Len(Append(d, h)) = Len(d) + 1 /\ \A k \in 1 .. Len(d) : Append(d, h)[k] = d[k]
              /\ Append(d, h)[Len(d) + 1] = h
          BY <4>1, Appending
        <5>. HIDE DEF h
        <5>2. \A k \in 1 .. wdone[w] + 1 : k \in 1 .. wdone[w] \/ k = wdone[w] + 1
          BY <4>1
        <5>. QED
          BY <4>2, <5>1, <5>2 DEF h
      <4>. QED
        BY <2>2, <3>2, <4>1, <4>3
    <3>. QED
      BY <3>1, <3>2
  <2>. SUFFICES ASSUME NEW v \in Writers, wpc'[v] = "temp", At[v] \notin overlapped' PROVE Filled(v)'
    BY DEF TempInv
  <2>4. wfd[v] = temps[At[v]]
    BY <1>0, <2>1 DEF TempInv, Filled
  <2>. QED
    BY <2>1, <2>3, <2>4 DEF Filled
<1>6. ASSUME NEW w \in Writers, Appended(w) PROVE TempInv'
  BY <1>0, <1>6, <1>13 DEF FilesTypes, Appended, Ends, To, disk, reading
<1>7. ASSUME NEW w \in Writers, Replace(w) PROVE TempInv'
  <2>1. /\ temps' = [temps EXCEPT ![At[w]] = 0] /\ wpc[w] = "temp" /\ UNCHANGED <<data, overlapped>>
        /\ \E end \in {"error", "done"} : Ends(w, end)
    BY <1>7 DEF Replace, Unlink
  <2>2. \A v \in Writers : wpc'[v] = "temp" => v # w /\ wpc[v] = "temp" /\ wfd'[v] = wfd[v] /\ wdone'[v] = wdone[v]
    BY <1>0, <2>1 DEF FilesTypes, Ends, To
  <2>3. \A v \in Writers : wpc'[v] = "temp" /\ At[v] \notin overlapped => temps'[At[v]] = temps[At[v]]
    BY <1>0, <1>14, <2>1, <2>2 DEF FilesTypes, Busy
  <2>. SUFFICES ASSUME NEW v \in Writers, wpc'[v] = "temp", At[v] \notin overlapped' PROVE Filled(v)'
    BY DEF TempInv
  <2>4. Filled(v) /\ wfd'[v] = wfd[v] /\ wdone'[v] = wdone[v] /\ temps'[At[v]] = temps[At[v]]
    BY <1>0, <2>1, <2>2, <2>3 DEF TempInv
  <2>. QED
    BY <2>1, <2>4 DEF Filled
<1>8. ASSUME NEW w \in Writers, WriteFails(w) PROVE TempInv'
  <2>1. /\ temps' = temps \/ (temps' = [temps EXCEPT ![At[w]] = 0] /\ wpc[w] \in Busy)
        /\ UNCHANGED <<data, overlapped>> /\ Ends(w, "error")
    BY <1>8 DEF WriteFails, Unlink, Busy
  <2>2. \A v \in Writers : wpc'[v] = "temp" => v # w /\ wpc[v] = "temp" /\ wfd'[v] = wfd[v] /\ wdone'[v] = wdone[v]
    BY <1>0, <2>1 DEF FilesTypes, Ends, To
  <2>3. \A v \in Writers : wpc'[v] = "temp" /\ At[v] \notin overlapped => temps'[At[v]] = temps[At[v]]
    <3>1. temps \in [Spots -> Nat]
      BY <1>0 DEF FilesTypes
    <3>. QED
      BY <1>0, <1>14, <2>1, <2>2, <3>1
  <2>. SUFFICES ASSUME NEW v \in Writers, wpc'[v] = "temp", At[v] \notin overlapped' PROVE Filled(v)'
    BY DEF TempInv
  <2>4. Filled(v) /\ wfd'[v] = wfd[v] /\ wdone'[v] = wdone[v] /\ temps'[At[v]] = temps[At[v]]
    BY <1>0, <2>1, <2>2, <2>3 DEF TempInv
  <2>. QED
    BY <2>1, <2>4 DEF Filled
<1>9. ASSUME NEW r \in Readers, \E refused \in BOOLEAN : OpenRead(r, refused) PROVE TempInv'
  BY <1>9, <1>13 DEF OpenRead, disk, writing
<1>10. ASSUME NEW r \in Readers, Read(r) PROVE TempInv'
  BY <1>10, <1>13 DEF Read, disk, writing
<1>11. CASE Kill
  BY <1>0, <1>11, <1>13 DEF FilesTypes, Kill, disk, Busy
<1>12. CASE UNCHANGED filevars
  BY <1>12, <1>13 DEF filevars
<1>. QED
  BY <1>1, <1>2, <1>3, <1>4, <1>5, <1>6, <1>7, <1>8, <1>9, <1>10, <1>11, <1>12 DEF FilesNext

LEMMA AddsStep == FilesInv /\ [FilesNext]_filevars => AddsInv'
<1>. SUFFICES ASSUME FilesInv, [FilesNext]_filevars PROVE AddsInv'
  OBVIOUS
<1>0. FilesTypes /\ AddsInv /\ \A c \in Writers \cup Readers : At[c] \in Spots
  BY HostFilesBounds DEF FilesInv
<1>13. ASSUME overlapped \subseteq overlapped', UNCHANGED data,
              \A w \in Writers : wpc'[w] = "adds" => /\ wpc[w] = "adds" /\ wfd'[w] = wfd[w] /\ wdone'[w] = wdone[w]
                                                     /\ At[w] \notin overlapped => names'[At[w]] = names[At[w]]
       PROVE  AddsInv'
  <2>. SUFFICES ASSUME NEW w \in Writers, wpc'[w] = "adds", At[w] \notin overlapped' PROVE Adding(w)'
    BY DEF AddsInv
  <2>1. At[w] \notin overlapped /\ wpc[w] = "adds" /\ wfd'[w] = wfd[w] /\ wdone'[w] = wdone[w] /\ names'[At[w]] = names[At[w]]
    BY <1>13
  <2>2. Adding(w)
    BY <1>0, <2>1 DEF AddsInv
  <2>3. data' = data
    BY <1>13
  <2>. QED
    BY <2>1, <2>2, <2>3 DEF Adding
<1>1. ASSUME NEW w \in Writers, \E long, createDirs \in BOOLEAN : Refuse(w, long, createDirs) PROVE AddsInv'
  BY <1>0, <1>1, <1>13 DEF FilesTypes, Refuse, To, disk, reading
<1>2. ASSUME NEW w \in Writers, Decide(w) PROVE AddsInv'
  <2>1. /\ overlapped \subseteq overlapped' /\ UNCHANGED <<names, data, wfd, wdone>>
        /\ \E way \in {"append", "overwrite"} : wpc' = [wpc EXCEPT ![w] = way]
    BY <1>2 DEF Decide, To
  <2>. QED
    BY <1>0, <1>13, <2>1 DEF FilesTypes
<1>3. ASSUME NEW w \in Writers, OpenAppend(w) PROVE AddsInv'
  <2>. SUFFICES ASSUME NEW v \in Writers, wpc'[v] = "adds", At[v] \notin overlapped' PROVE Adding(v)'
    BY DEF AddsInv
  <2>1. /\ wpc' = [wpc EXCEPT ![w] = "adds"] /\ wfd' = [wfd EXCEPT ![w] = names[At[w]]] /\ wpc[w] = "append"
        /\ UNCHANGED <<names, data, wdone, overlapped>>
    BY <1>3 DEF OpenAppend, To, disk
  <2>2. CASE v = w
    <3>1. wdone[w] = 0 /\ names[At[w]] \in Inodes /\ \A x \in Inodes : Lacks(data[x], w)
      BY <1>0, <2>1, InodesOf DEF FilesInv, WritersInv
    <3>2. wfd'[w] = names[At[w]] /\ Part(data[names[At[w]]], w, 0)
      BY <1>0, <2>1, <3>1 DEF FilesTypes, Part
    <3>. QED
      BY <2>1, <2>2, <3>1, <3>2 DEF Adding
  <2>3. CASE v # w
    <3>1. wpc[v] = "adds" /\ wfd'[v] = wfd[v]
      BY <1>0, <2>1, <2>3 DEF FilesTypes
    <3>2. Adding(v)
      BY <1>0, <2>1, <3>1 DEF AddsInv
    <3>. QED
      BY <2>1, <3>1, <3>2 DEF Adding
  <2>. QED
    BY <2>2, <2>3
<1>4. ASSUME NEW w \in Writers, OpenTemp(w) PROVE AddsInv'
  <2>. SUFFICES ASSUME NEW v \in Writers, wpc'[v] = "adds", At[v] \notin overlapped' PROVE Adding(v)'
    BY DEF AddsInv
  <2>1. /\ \E x : wfd' = [wfd EXCEPT ![w] = x]
        /\ wpc' = [wpc EXCEPT ![w] = "temp"] /\ UNCHANGED <<names, wdone, overlapped>>
    BY <1>4 DEF OpenTemp, To
  <2>2. v # w /\ wpc[v] = "adds" /\ wfd'[v] = wfd[v]
    BY <1>0, <2>1 DEF FilesTypes
  <2>3. Adding(v)
    BY <1>0, <2>1, <2>2 DEF AddsInv
  <2>4. data'[wfd[v]] = data[wfd[v]]
    BY <1>0, <1>4, <2>1, <2>2, OpenApart
  <2>. QED
    BY <2>1, <2>2, <2>3, <2>4 DEF Adding
<1>5. ASSUME NEW w \in Writers, WriteHalf(w) PROVE AddsInv'
  <2>. SUFFICES ASSUME NEW v \in Writers, wpc'[v] = "adds", At[v] \notin overlapped' PROVE Adding(v)'
    BY DEF AddsInv
  <2>. DEFINE h == <<w, wdone[w] + 1>>
              d == data[wfd[v]]
  <2>1. UNCHANGED <<names, wpc, wfd, overlapped>> /\ wdone' = [wdone EXCEPT ![w] = @ + 1]
    BY <1>5 DEF WriteHalf
  <2>2. wdone'[v] = IF v = w THEN wdone[w] + 1 ELSE wdone[v]
    BY <1>0, <2>1 DEF FilesTypes
  <2>3. Adding(v) /\ wpc[v] = "adds" /\ At[v] \in Spots \ overlapped
    BY <1>0, <2>1 DEF AddsInv
  <2>4. wdone[w] \in 0 .. 1 /\ d \in Bodies /\ h \in Halves
    <3>1. wdone[w] \in 0 .. 1
      BY <1>5, WriteEffect
    <3>. QED
      BY <2>3, <3>1, InodesOf DEF Halves
  <2>5. Part(d, v, wdone[v])
    BY <2>3 DEF Adding
  <2>6. CASE v = w
    <3>1. data'[wfd[v]] = Append(d, h)
      BY <1>5, <2>3, <2>6, WriteEffect
    <3>. HIDE DEF d
    <3>2. Part(Append(d, h), v, wdone[v] + 1)
      BY <2>4, <2>5, <2>6, PartGrows
    <3>. QED
      BY <2>1, <2>2, <2>3, <2>6, <3>1, <3>2 DEF Adding
  <2>7. CASE v # w
    <3>1. data'[wfd[v]] = d \/ data'[wfd[v]] = Append(d, h)
      BY <1>5, <2>3, <2>7, WriteApart
    <3>. HIDE DEF d
    <3>2. h[1] # v
      BY <2>7
    <3>. HIDE DEF h
    <3>3. Part(Append(d, h), v, wdone[v])
      BY <2>4, <2>5, <3>2, PartStays
    <3>. QED
      BY <2>1, <2>2, <2>3, <2>5, <2>7, <3>1, <3>3 DEF Adding
  <2>. QED
    BY <2>6, <2>7
<1>6. ASSUME NEW w \in Writers, Appended(w) PROVE AddsInv'
  BY <1>0, <1>6, <1>13 DEF FilesTypes, Appended, Ends, To, disk, reading
<1>7. ASSUME NEW w \in Writers, Replace(w) PROVE AddsInv'
  <2>1. /\ names' = names \/ names' = [names EXCEPT ![At[w]] = temps[At[w]]]
        /\ wpc[w] = "temp" /\ UNCHANGED <<data, overlapped>>
        /\ \E end \in {"error", "done"} : Ends(w, end)
    BY <1>7 DEF Replace, Unlink
  <2>2. \A v \in Writers : wpc'[v] = "adds" => v # w /\ wpc[v] = "adds" /\ wfd'[v] = wfd[v] /\ wdone'[v] = wdone[v]
    BY <1>0, <2>1 DEF FilesTypes, Ends, To
  <2>3. \A v \in Writers : wpc'[v] = "adds" /\ At[v] \notin overlapped => At[v] # At[w]
    BY <2>1, <2>2 DEF FilesInv, AloneInv, Busy
  <2>4. \A v \in Writers : wpc'[v] = "adds" /\ At[v] \notin overlapped => names'[At[v]] = names[At[v]]
    BY <1>0, <2>1, <2>3 DEF FilesTypes
  <2>. QED
    BY <1>13, <2>1, <2>2, <2>4
<1>8. ASSUME NEW w \in Writers, WriteFails(w) PROVE AddsInv'
  BY <1>0, <1>8, <1>13 DEF FilesTypes, WriteFails, Ends, To
<1>9. ASSUME NEW r \in Readers, \E refused \in BOOLEAN : OpenRead(r, refused) PROVE AddsInv'
  BY <1>9, <1>13 DEF OpenRead, disk, writing
<1>10. ASSUME NEW r \in Readers, Read(r) PROVE AddsInv'
  BY <1>10, <1>13 DEF Read, disk, writing
<1>11. CASE Kill
  BY <1>0, <1>11, <1>13 DEF FilesTypes, Kill, disk, Busy
<1>12. CASE UNCHANGED filevars
  BY <1>12, <1>13 DEF filevars
<1>. QED
  BY <1>1, <1>2, <1>3, <1>4, <1>5, <1>6, <1>7, <1>8, <1>9, <1>10, <1>11, <1>12 DEF FilesNext

LEMMA NamedStep == FilesInv /\ [FilesNext]_filevars => NamedInv'
<1>. SUFFICES ASSUME FilesInv, [FilesNext]_filevars PROVE NamedInv'
  OBVIOUS
<1>0. FilesTypes /\ NamedInv /\ \A c \in Writers \cup Readers : At[c] \in Spots
  BY HostFilesBounds DEF FilesInv
<1>13. ASSUME overlapped \subseteq overlapped', UNCHANGED <<names, data, wrote>>,
              \A w \in Writers : wpc[w] = "done" => wpc'[w] = "done"
       PROVE  NamedInv'
  <2>. SUFFICES ASSUME NEW p \in Spots \ overlapped' PROVE Named(p)'
    BY DEF NamedInv
  <2>1. Named(p) /\ wrote[p] \in Seq(Writers)
    BY <1>0, <1>13 DEF NamedInv, FilesTypes
  <2>2. \A i \in 1 .. Len(wrote[p]) : wrote[p][i] \in Writers
    BY <2>1, ElementOfSeq
  <2>3. names' = names /\ data' = data /\ wrote' = wrote
    BY <1>13
  <2>. QED
    BY <1>13, <2>1, <2>2, <2>3 DEF Named
<1>14. ASSUME NEW w \in Writers, NEW end, wpc' = [wpc EXCEPT ![w] = end], wpc[w] # "done" PROVE \A v \in Writers : wpc[v] = "done" => wpc'[v] = "done"
  BY <1>0, <1>14 DEF FilesTypes
<1>1. ASSUME NEW w \in Writers, \E long, createDirs \in BOOLEAN : Refuse(w, long, createDirs) PROVE NamedInv'
  BY <1>1, <1>13, <1>14 DEF Refuse, To, disk
<1>2. ASSUME NEW w \in Writers, Decide(w) PROVE NamedInv'
  <2>1. /\ overlapped \subseteq overlapped' /\ UNCHANGED <<names, data, wrote>> /\ wpc[w] = "start"
        /\ \E way \in {"append", "overwrite"} : wpc' = [wpc EXCEPT ![w] = way]
    BY <1>2 DEF Decide, To
  <2>. QED
    BY <1>13, <1>14, <2>1
<1>3. ASSUME NEW w \in Writers, OpenAppend(w) PROVE NamedInv'
  BY <1>3, <1>13, <1>14 DEF OpenAppend, To, disk
<1>4. ASSUME NEW w \in Writers, OpenTemp(w) PROVE NamedInv'
  <2>1. UNCHANGED <<names, wrote, overlapped>> /\ wpc[w] = "overwrite" /\ wpc' = [wpc EXCEPT ![w] = "temp"]
    BY <1>4 DEF OpenTemp, To
  <2>2. \A v \in Writers : wpc[v] = "done" => wpc'[v] = "done"
    BY <1>14, <2>1
  <2>. SUFFICES ASSUME NEW p \in Spots \ overlapped PROVE Named(p)'
    BY <2>1 DEF NamedInv
  <2>3. Named(p) /\ \A i \in 1 .. Len(wrote[p]) : wrote[p][i] \in Writers
    BY <1>0, ElementOfSeq DEF NamedInv, FilesTypes
  <2>4. names[p] # 0 => data'[names[p]] = data[names[p]]
    BY <1>4, OpenApart
  <2>. QED
    BY <2>1, <2>2, <2>3, <2>4 DEF Named
<1>5. ASSUME NEW w \in Writers, WriteHalf(w) PROVE NamedInv'
  <2>1. UNCHANGED <<names, wrote, wpc, overlapped>>
    BY <1>5 DEF WriteHalf
  <2>. SUFFICES ASSUME NEW p \in Spots \ overlapped PROVE Named(p)'
    BY <2>1 DEF NamedInv
  <2>2. Named(p)
    BY <1>0 DEF NamedInv
  <2>. DEFINE h == <<w, wdone[w] + 1>>
              d == data[names[p]]
  <2>3. ASSUME names[p] # 0 PROVE Unmixed(data'[names[p]]) /\ \A i \in 1 .. Len(wrote[p]) : Holds(data'[names[p]], wrote[p][i])
    <3>1. d \in Bodies /\ Unmixed(d) /\ \A i \in 1 .. Len(wrote[p]) : Holds(d, wrote[p][i])
      BY <2>2, <2>3, InodesOf DEF Named
    <3>2. CASE data'[names[p]] = d
      BY <3>1, <3>2
    <3>3. CASE Mode[w] = "append" /\ wpc[w] = "adds" /\ data'[names[p]] = Append(d, h)
      <4>1. h \in Halves /\ h[1] \notin Overwriting
        <5>1. wdone[w] \in 0 .. 1
          BY <1>5, WriteEffect
        <5>. QED
          BY <3>3, <5>1 DEF Halves, Overwriting
      <4>2. \A i \in 1 .. Len(wrote[p]) : h[1] # wrote[p][i]
        BY <2>2, <3>3 DEF Named
      <4>. HIDE DEF d, h
      <4>. QED
        BY <3>1, <3>3, <4>1, <4>2, AppendUnmixed, AppendHolds
    <3>. QED
      BY <1>5, <2>3, <3>2, <3>3, WriteApart
  <2>. QED
    BY <2>1, <2>2, <2>3 DEF Named
<1>6. ASSUME NEW w \in Writers, Appended(w) PROVE NamedInv'
  <2>1. /\ UNCHANGED <<names, data, overlapped>> /\ wpc[w] = "adds" /\ wdone[w] = 2
        /\ wpc' = [wpc EXCEPT ![w] = "done"] /\ wrote' = [wrote EXCEPT ![At[w]] = Append(@, w)]
    BY <1>6 DEF Appended, Ends, To, disk
  <2>2. \A v \in Writers : wpc[v] = "done" => wpc'[v] = "done"
    BY <1>14, <2>1
  <2>. SUFFICES ASSUME NEW p \in Spots \ overlapped PROVE Named(p)'
    BY <2>1 DEF NamedInv
  <2>3. Named(p) /\ wrote[p] \in Seq(Writers) /\ \A i \in 1 .. Len(wrote[p]) : wrote[p][i] \in Writers
    BY <1>0, ElementOfSeq DEF NamedInv, FilesTypes
  <2>4. CASE p # At[w]
    <3>1. wrote'[p] = wrote[p]
      BY <1>0, <2>1, <2>4 DEF FilesTypes
    <3>. QED
      BY <2>1, <2>2, <2>3, <3>1 DEF Named
  <2>5. CASE p = At[w]
    <3>1. wrote'[p] = Append(wrote[p], w) /\ wpc'[w] = "done"
      BY <1>0, <2>1, <2>5 DEF FilesTypes
    <3>2. /\ Len(wrote'[p]) = Len(wrote[p]) + 1 /\ Len(wrote[p]) \in Nat /\ wrote'[p][Len(wrote[p]) + 1] = w
          /\ \A i \in 1 .. Len(wrote[p]) : wrote'[p][i] = wrote[p][i]
      BY <2>3, <3>1
    <3>3. \A i \in 1 .. Len(wrote'[p]) : i \in 1 .. Len(wrote[p]) \/ wrote'[p][i] = w
      BY <3>2
    <3>4. Adding(w)
      BY <1>0, <2>1, <2>5 DEF FilesInv, AddsInv
    <3>5. names[p] # 0 /\ Holds(data[names[p]], w)
      BY <2>1, <2>5, <3>4, InodesOf DEF Adding, Part
    <3>6. \A i \in 1 .. Len(wrote'[p]) : Holds(data[names[p]], wrote'[p][i]) /\ wpc'[wrote'[p][i]] = "done"
      BY <2>2, <2>3, <3>1, <3>2, <3>3, <3>5 DEF Named
    <3>. QED
      BY <2>1, <2>3, <3>5, <3>6 DEF Named
  <2>. QED
    BY <2>4, <2>5
<1>7. ASSUME NEW w \in Writers, Replace(w) PROVE NamedInv'
  <2>1. wpc[w] = "temp" /\ wdone[w] = 2 /\ UNCHANGED <<data, overlapped>>
    BY <1>7 DEF Replace
  <2>2. CASE temps[At[w]] = 0
    BY <1>7, <1>13, <1>14, <2>1, <2>2 DEF Replace, Ends, To
  <2>3. CASE temps[At[w]] # 0
    <3>1. /\ names' = [names EXCEPT ![At[w]] = temps[At[w]]] /\ wpc' = [wpc EXCEPT ![w] = "done"]
          /\ wrote' = [wrote EXCEPT ![At[w]] = <<w>>]
      BY <1>7, <2>3 DEF Replace, Ends, To
    <3>2. \A v \in Writers : wpc[v] = "done" => wpc'[v] = "done"
      BY <1>14, <2>1, <3>1
    <3>. SUFFICES ASSUME NEW p \in Spots \ overlapped PROVE Named(p)'
      BY <2>1 DEF NamedInv
    <3>3. Named(p) /\ \A i \in 1 .. Len(wrote[p]) : wrote[p][i] \in Writers
      BY <1>0, ElementOfSeq DEF NamedInv, FilesTypes
    <3>4. CASE p # At[w]
      <4>1. wrote'[p] = wrote[p] /\ names'[p] = names[p]
        BY <1>0, <3>1, <3>4 DEF FilesTypes
      <4>. QED
        BY <2>1, <3>2, <3>3, <4>1 DEF Named
    <3>5. CASE p = At[w]
      <4>1. wrote'[p] = <<w>> /\ names'[p] = temps[p] /\ wpc'[w] = "done"
        BY <1>0, <3>1, <3>5 DEF FilesTypes
      <4>2. Filled(w) /\ data[temps[p]] \in Bodies
        BY <1>0, <2>1, <2>3, <3>5, InodesOf DEF FilesInv, TempInv
      <4>3. Len(data[temps[p]]) = 2 /\ \A k \in 1 .. 2 : data[temps[p]][k] = <<w, k>>
        BY <2>1, <3>5, <4>2 DEF Filled
      <4>4. Holds(data[temps[p]], w) /\ Unmixed(data[temps[p]])
        BY <4>2, <4>3, TwoHalves
      <4>5. Len(wrote'[p]) = 1 /\ wrote'[p][1] = w /\ \A i \in 1 .. Len(wrote'[p]) : wrote'[p][i] = w
        BY <4>1
      <4>. QED
        BY <2>1, <2>3, <3>5, <4>1, <4>4, <4>5 DEF Named
    <3>. QED
      BY <3>4, <3>5
  <2>. QED
    BY <2>2, <2>3
<1>8. ASSUME NEW w \in Writers, WriteFails(w) PROVE NamedInv'
  BY <1>8, <1>13, <1>14 DEF WriteFails, Ends, To
<1>9. ASSUME NEW r \in Readers, \E refused \in BOOLEAN : OpenRead(r, refused) PROVE NamedInv'
  BY <1>9, <1>13 DEF OpenRead, disk, writing
<1>10. ASSUME NEW r \in Readers, Read(r) PROVE NamedInv'
  BY <1>10, <1>13 DEF Read, disk, writing
<1>11. CASE Kill
  BY <1>0, <1>11, <1>13 DEF FilesTypes, Kill, disk, Busy
<1>12. CASE UNCHANGED filevars
  BY <1>12, <1>13 DEF filevars
<1>. QED
  BY <1>1, <1>2, <1>3, <1>4, <1>5, <1>6, <1>7, <1>8, <1>9, <1>10, <1>11, <1>12 DEF FilesNext

LEMMA SeenStep == FilesInv /\ [FilesNext]_filevars => ReadInv'
<1>. SUFFICES ASSUME FilesInv, [FilesNext]_filevars PROVE ReadInv'
  OBVIOUS
<1>0. FilesTypes /\ ReadInv /\ \A c \in Writers \cup Readers : At[c] \in Spots
  BY HostFilesBounds DEF FilesInv
<1>13. ASSUME overlapped \subseteq overlapped', UNCHANGED data, UNCHANGED reading
       PROVE  ReadInv'
  <2>. SUFFICES ASSUME NEW r \in Readers, At[r] \notin overlapped' PROVE Seen(r)'
    BY DEF ReadInv
  <2>1. Seen(r) /\ data' = data /\ rpc' = rpc /\ rfd' = rfd /\ got' = got
    BY <1>0, <1>13 DEF ReadInv, reading
  <2>. QED
    BY <2>1 DEF Seen
<1>1. ASSUME NEW w \in Writers, \E long, createDirs \in BOOLEAN : Refuse(w, long, createDirs) PROVE ReadInv'
  BY <1>1, <1>13 DEF Refuse, disk
<1>2. ASSUME NEW w \in Writers, Decide(w) PROVE ReadInv'
  <2>1. overlapped \subseteq overlapped' /\ UNCHANGED data /\ UNCHANGED reading
    BY <1>2 DEF Decide
  <2>. QED
    BY <1>13, <2>1
<1>3. ASSUME NEW w \in Writers, OpenAppend(w) PROVE ReadInv'
  BY <1>3, <1>13 DEF OpenAppend, disk
<1>4. ASSUME NEW w \in Writers, OpenTemp(w) PROVE ReadInv'
  <2>. SUFFICES ASSUME NEW r \in Readers, At[r] \notin overlapped' PROVE Seen(r)'
    BY DEF ReadInv
  <2>1. rpc' = rpc /\ rfd' = rfd /\ got' = got /\ overlapped' = overlapped
    BY <1>4 DEF OpenTemp, reading
  <2>2. Seen(r) /\ (rpc[r] = "reads" => data'[rfd[r]] = data[rfd[r]])
    BY <1>0, <1>4, <2>1, OpenApart DEF ReadInv
  <2>. QED
    BY <2>1, <2>2 DEF Seen
<1>5. ASSUME NEW w \in Writers, WriteHalf(w) PROVE ReadInv'
  <2>. SUFFICES ASSUME NEW r \in Readers, At[r] \notin overlapped' PROVE Seen(r)'
    BY DEF ReadInv
  <2>. DEFINE h == <<w, wdone[w] + 1>>
              d == data[rfd[r]]
  <2>1. rpc' = rpc /\ rfd' = rfd /\ got' = got /\ overlapped' = overlapped
    BY <1>5 DEF WriteHalf, reading
  <2>2. Seen(r)
    BY <1>0, <2>1 DEF ReadInv
  <2>3. CASE rpc[r] # "reads" \/ data'[rfd[r]] = d
    BY <2>1, <2>2, <2>3 DEF Seen
  <2>4. CASE rpc[r] = "reads" /\ Mode[w] = "append" /\ data'[rfd[r]] = Append(d, h)
    <3>1. h \in Halves /\ h[1] \notin Overwriting
      <4>1. wdone[w] \in 0 .. 1
        BY <1>5, WriteEffect
      <4>. QED
        BY <2>4, <4>1 DEF Halves, Overwriting
    <3>2. d \in Bodies /\ Unmixed(d) /\ Len(got[r]) <= Len(d) /\ \A k \in 1 .. Len(got[r]) : got[r][k] = d[k]
      BY <2>2, <2>4, InodesOf DEF Seen
    <3>3. Len(got[r]) \in Nat
      BY <1>0 DEF FilesTypes, Bodies
    <3>. HIDE DEF d, h
    <3>4. /\ Unmixed(Append(d, h)) /\ Len(d) \in Nat /\ Len(Append(d, h)) = Len(d) + 1
          /\ \A k \in 1 .. Len(d) : Append(d, h)[k] = d[k]
      BY <3>1, <3>2, AppendUnmixed, Appending
    <3>5. Len(got[r]) <= Len(Append(d, h)) /\ \A k \in 1 .. Len(got[r]) : got[r][k] = Append(d, h)[k]
      BY <3>2, <3>3, <3>4
    <3>. QED
      BY <2>1, <2>4, <3>4, <3>5 DEF Seen
  <2>. QED
    BY <1>0, <1>5, <2>1, <2>3, <2>4, WriteApart
<1>6. ASSUME NEW w \in Writers, Appended(w) PROVE ReadInv'
  BY <1>6, <1>13 DEF Appended, disk
<1>7. ASSUME NEW w \in Writers, Replace(w) PROVE ReadInv'
  BY <1>7, <1>13 DEF Replace
<1>8. ASSUME NEW w \in Writers, WriteFails(w) PROVE ReadInv'
  BY <1>8, <1>13 DEF WriteFails
<1>9. ASSUME NEW r \in Readers, \E refused \in BOOLEAN : OpenRead(r, refused) PROVE ReadInv'
  <2>. SUFFICES ASSUME NEW u \in Readers, At[u] \notin overlapped' PROVE Seen(u)'
    BY DEF ReadInv
  <2>1. UNCHANGED <<names, data, got, overlapped>> /\ rpc[r] = "start"
    BY <1>9 DEF OpenRead, disk, writing
  <2>2. Seen(u)
    BY <1>0, <2>1 DEF ReadInv
  <2>3. CASE rpc' = [rpc EXCEPT ![r] = "error"] /\ rfd' = rfd
    <3>1. rpc'[u] = "error" \/ rpc'[u] = rpc[u]
      BY <1>0, <2>3 DEF FilesTypes
    <3>. QED
      BY <2>1, <2>2, <2>3, <3>1 DEF Seen
  <2>4. CASE rpc' = [rpc EXCEPT ![r] = "reads"] /\ rfd' = [rfd EXCEPT ![r] = names[At[r]]] /\ names[At[r]] # 0
    <3>1. CASE u = r
      <4>1. rpc'[u] = "reads" /\ rfd'[u] = names[At[u]] /\ got'[u] = <<>>
        BY <1>0, <2>1, <2>2, <2>4, <3>1 DEF FilesTypes, Seen
      <4>2. Unmixed(data[names[At[u]]]) /\ data[names[At[u]]] \in Bodies
        BY <1>0, <2>1, <2>4, <3>1, InodesOf DEF FilesInv, NamedInv, Named
      <4>3. Len(data[names[At[u]]]) \in Nat
        BY <4>2 DEF Bodies
      <4>. QED
        BY <2>1, <4>1, <4>2, <4>3 DEF Seen
    <3>2. CASE u # r
      <4>1. rpc'[u] = rpc[u] /\ rfd'[u] = rfd[u]
        BY <1>0, <2>4, <3>2 DEF FilesTypes
      <4>. QED
        BY <2>1, <2>2, <4>1 DEF Seen
    <3>. QED
      BY <3>1, <3>2
  <2>. QED
    BY <1>9, <2>3, <2>4 DEF OpenRead
<1>10. ASSUME NEW r \in Readers, Read(r) PROVE ReadInv'
  <2>. SUFFICES ASSUME NEW u \in Readers, At[u] \notin overlapped' PROVE Seen(u)'
    BY DEF ReadInv
  <2>. DEFINE d == data[rfd[r]]
  <2>1. UNCHANGED <<data, overlapped>> /\ rpc[r] = "reads"
    BY <1>10 DEF Read, disk, writing
  <2>2. Seen(u) /\ d \in Bodies /\ got[r] \in Bodies /\ Len(d) \in Nat /\ Len(got[r]) \in Nat
    <3>1. d \in Bodies /\ got[r] \in Bodies
      BY <1>0, <2>1, InodesOf DEF FilesTypes
    <3>. QED
      BY <1>0, <2>1, <3>1 DEF ReadInv, Bodies
  <2>3. CASE u # r
    <3>1. rpc'[u] = rpc[u] /\ got'[u] = got[u] /\ rfd'[u] = rfd[u]
      BY <1>0, <1>10, <2>3 DEF FilesTypes, Read
    <3>. QED
      BY <2>1, <2>2, <3>1 DEF Seen
  <2>4. CASE u = r /\ Len(got[r]) < Len(d)
    <3>1. got' = [got EXCEPT ![r] = Append(got[r], d[Len(got[r]) + 1])] /\ rpc' = rpc
      BY <1>10, <2>4 DEF Read
    <3>2. rpc'[r] = "reads" /\ rfd'[r] = rfd[r] /\ got'[r] = Append(got[r], d[Len(got[r]) + 1])
      <4>1. rfd' = [rfd EXCEPT ![r] = IF rpc'[r] = "done" THEN 0 ELSE @]
        BY <1>10 DEF Read
      <4>. QED
        BY <1>0, <2>1, <3>1, <4>1 DEF FilesTypes
    <3>3. Unmixed(d) /\ \A k \in 1 .. Len(got[r]) : got[r][k] = d[k]
      BY <2>1, <2>2, <2>4 DEF Seen
    <3>4. d[Len(got[r]) + 1] \in Halves
      BY <2>2, <2>4, ElementOfSeq DEF Bodies
    <3>. HIDE DEF d
    <3>5. /\ Len(got'[r]) = Len(got[r]) + 1 /\ got'[r][Len(got[r]) + 1] = d[Len(got[r]) + 1]
          /\ \A k \in 1 .. Len(got[r]) : got'[r][k] = got[r][k]
      BY <2>2, <3>2, <3>4, Appending
    <3>6. \A k \in 1 .. Len(got'[r]) : k \in 1 .. Len(got[r]) \/ k = Len(got[r]) + 1
      BY <2>2, <3>5
    <3>7. Len(got'[r]) <= Len(d) /\ \A k \in 1 .. Len(got'[r]) : got'[r][k] = d[k]
      BY <2>2, <2>4, <3>3, <3>5, <3>6
    <3>. QED
      BY <2>1, <2>4, <3>2, <3>3, <3>7 DEF Seen, d
  <2>5. CASE u = r /\ ~(Len(got[r]) < Len(d))
    <3>1. got' = got /\ rpc' = [rpc EXCEPT ![r] = "done"]
      BY <1>10, <2>5 DEF Read
    <3>2. rpc'[r] = "done"
      BY <1>0, <3>1 DEF FilesTypes
    <3>3. Unmixed(d) /\ Len(got[r]) <= Len(d) /\ \A k \in 1 .. Len(got[r]) : got[r][k] = d[k]
      BY <2>1, <2>2, <2>5 DEF Seen
    <3>. HIDE DEF d
    <3>4. got[r] = d
      BY <2>2, <2>5, <3>3, SameContent
    <3>. QED
      BY <2>5, <3>1, <3>2, <3>3, <3>4 DEF Seen
  <2>. QED
    BY <2>3, <2>4, <2>5
<1>11. CASE Kill
  <2>. SUFFICES ASSUME NEW r \in Readers, At[r] \notin overlapped' PROVE Seen(r)'
    BY DEF ReadInv
  <2>1. UNCHANGED <<data, overlapped, rfd, got>> /\ rpc'[r] = IF rpc[r] = "reads" THEN "killed" ELSE rpc[r]
    BY <1>11 DEF Kill, disk
  <2>2. Seen(r)
    BY <1>0, <2>1 DEF ReadInv
  <2>. QED
    BY <2>1, <2>2 DEF Seen
<1>12. CASE UNCHANGED filevars
  BY <1>12, <1>13 DEF filevars, reading
<1>. QED
  BY <1>1, <1>2, <1>3, <1>4, <1>5, <1>6, <1>7, <1>8, <1>9, <1>10, <1>11, <1>12 DEF FilesNext

LEMMA FilesStep == FilesInv /\ [FilesNext]_filevars => FilesInv'
  BY FilesTypesStep, HomeStep, WritersStep, AloneStep, ApartStep, TempStep, AddsStep, NamedStep, SeenStep DEF FilesInv

LEMMA FilesInvIsWhole == FilesInv => FilesWhole
  BY DEF FilesInv, FilesWhole, NamedInv, Named, ReadInv, Seen

(* A path that no overwrite shared with another running write holds, whatever calls
   overlap, fail or end with the process, all of each write it has acknowledged, and of
   one overwrite all and of any other nothing; a reader of it sees no part of an
   overwrite, nor two of them (write_file.py, read_file.py). *)
THEOREM FilesAreWhole == FilesSpec => []FilesWhole
<1>1. FilesInit => FilesInv
  BY FilesBegin
<1>2. FilesInv /\ [FilesNext]_filevars => FilesInv'
  BY FilesStep
<1>3. FilesInv => FilesWhole
  BY FilesInvIsWhole
<1>. QED
  BY <1>1, <1>2, <1>3, PTL DEF FilesSpec
=============================================================================
