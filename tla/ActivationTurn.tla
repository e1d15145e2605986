---------------------------- MODULE ActivationTurn ----------------------------
(***************************************************************************)
(* The activation of a chat (memory/activation.py): one blob in Redis that *)
(* every turn of the orchestrator reads at its start and that two writers  *)
(* update: the turn itself, when it stored facts on its thread, and the    *)
(* prefetch task the turn leaves behind (orchestrator/prefetch.py), which  *)
(* may still be at work when later turns of the chat come and go.  The     *)
(* store rejects a write whose ts is older than the stored one.            *)
(*                                                                         *)
(* Turns of one chat follow each other (DagManager, ChatSerialized) and    *)
(* are numbered; the number of a turn stands for its origin time.  A fact  *)
(* is named by the turn that stored it with store_memory, a topic by the   *)
(* turn that broke the thread.                                             *)
(***************************************************************************)
EXTENDS Integers, FiniteSets, SequencesExt

CONSTANTS
  MaxTurns,    \* bound: turns of the chat
  MaxFacts,    \* bound: turns that store a fact
  Window,      \* ACTIVATION_LEXICAL_WINDOW
  ArchiveMax   \* TOPIC_ARCHIVE_MAX

ASSUME TurnsAssumption == MaxTurns \in Nat /\ MaxFacts \in Nat
ASSUME WindowAssumption == Window \in Nat \ {0}
ASSUME ArchiveAssumption == ArchiveMax \in Nat \ {0}

VARIABLES
  stored,  \* the blob in Redis
  facts,   \* the facts in the episodic memory
  turn,    \* the current or last turn
  pc,      \* where the turn is
  cur,     \* what the turn has read, classified and searched
  job,     \* job[t]: what the prefetch task of turn t was given
  bg,      \* bg[t]: the state of that task
  filed,   \* filed[t]: the topic turn t is archived under, 0 when it is not
  folded   \* the turns that reported an enriching refresh

vars == <<stored, facts, turn, pc, cur, job, bg, filed, folded>>

Turn == 1 .. MaxTurns
NoActivation == [ts |-> 0, topic |-> 0, merged |-> {}, recent |-> <<>>,
                 count |-> 0, archived |-> <<>>]
Cold == [state |-> "cold", emb |-> FALSE, topic |-> 0, act |-> NoActivation, l3 |-> {}]

Exists(act) == act.ts # 0

Init ==
  /\ stored = NoActivation /\ facts = {}
  /\ turn = 0 /\ pc = "idle" /\ cur = Cold
  /\ job = [t \in Turn |-> Cold] /\ bg = [t \in Turn |-> "none"]
  /\ filed = [t \in Turn |-> 0] /\ folded = {}

Newest(s, n) == IF Len(s) > n THEN SubSeq(s, Len(s) - n + 1, Len(s)) ELSE s
Topics(act) == ToSet(act.archived)
-----------------------------------------------------------------------------
(* The store.                                                              *)

\* Mutant: a plain SET.
CompareAndSetPlain(act) == act

\* _CAS_SET_SCRIPT: what is stored after a write of act.
CompareAndSet(act) == IF stored.ts > act.ts THEN stored ELSE act
-----------------------------------------------------------------------------
(* What update_activation writes.                                          *)

TrimRecent(recent, t) == Newest(Append(recent, t), Window)

\* What is left of the first n topics of s without topic x.
Sifted(s, x) ==
  LET left[n \in 0 .. Len(s)] ==
        IF n = 0 THEN <<>> ELSE IF s[n] = x THEN left[n - 1] ELSE Append(left[n - 1], s[n])
  IN  left

\* archive_current_topic: the topic moves to the end, with its last centroid.
ArchiveTopic(act) ==
  Newest(Append(Sifted(act.archived, act.topic)[Len(act.archived)], act.topic), ArchiveMax)

\* Mutant: a cold turn counts on from the thread it broke with.
NewCountOn(j) == j.act.count + 1

\* turn_count: a break starts a topic, or comes back to one, at one.
NewCount(j) == IF j.state = "cold" THEN 1 ELSE j.act.count + 1

\* archived_topics: a break archives the topic it leaves.
NewArchive(j) ==
  IF j.state = "cold" /\ Exists(j.act) THEN ArchiveTopic(j.act) ELSE j.act.archived

\* The blob turn t writes.  A warm turn keeps topic, centroid and results:
\* what its task searched is not used.  The others replace them.
Updated(t, j) ==
  [ts |-> t, topic |-> j.topic,
   merged |-> IF j.state = "warm" THEN j.act.merged ELSE j.l3,
   recent |-> TrimRecent(j.act.recent, t),
   count |-> NewCount(j), archived |-> NewArchive(j)]
-----------------------------------------------------------------------------
(* A turn.                                                                 *)

\* classify_turn: a thread breaks, or there is none, or nothing to compare.
States(emb) ==
  IF emb /\ Exists(stored) THEN {"cold", "warm", "drift"} ELSE {"cold"}

\* The topic the turn is filed under: that of the thread, one that is come
\* back to (find_topic_return), or a new one.
TopicsOf(emb, state) ==
  IF state # "cold" THEN {stored.topic}
  ELSE {turn + 1} \cup (IF emb THEN Topics(stored) ELSE {})

\* The activation is read and the query embedded, which may fail; a warm turn
\* is served the results the activation holds.
Begin ==
  /\ pc = "idle" /\ turn < MaxTurns
  /\ turn' = turn + 1
  /\ \E emb \in BOOLEAN : \E state \in States(emb) : \E topic \in TopicsOf(emb, state) :
       /\ cur' = [state |-> state, emb |-> emb, topic |-> topic, act |-> stored,
                  l3 |-> IF state = "warm" THEN stored.merged ELSE {}]
       /\ pc' = IF state = "warm" THEN "llm" ELSE "search"
  /\ UNCHANGED <<stored, facts, job, bg, filed, folded>>

\* What retrieve() may return: it depends on the query, and a cold search may
\* be answered by the session cache.
Found == SUBSET facts

\* A cold or a drifting turn searches before the model is called.
Search ==
  /\ pc = "search"
  /\ \E found \in Found : cur' = [cur EXCEPT !.l3 = found]
  /\ pc' = "llm"
  /\ UNCHANGED <<stored, facts, turn, job, bg, filed, folded>>

\* The turn leaves its prefetch task behind and returns its reply.
Spawn(c) ==
  /\ job' = [job EXCEPT ![turn] = c]
  /\ bg' = [bg EXCEPT ![turn] = "pending"]
  /\ pc' = "idle"

\* What the episodic memory may hold after the model's tool calls.
Stored == IF Cardinality(facts) < MaxFacts THEN {facts, facts \cup {turn}} ELSE {facts}

\* The model replies without storing anything, or stores only facts of other
\* threads.
ReplyPlain ==
  /\ pc = "llm"
  /\ facts' \in Stored
  /\ filed' = [filed EXCEPT ![turn] = cur.topic]
  /\ Spawn(cur)
  /\ UNCHANGED <<stored, turn, cur, folded>>

\* The model stored a fact of the thread the activation is about.
ReplyEnriching ==
  /\ pc = "llm" /\ Exists(cur.act)
  /\ facts' \in Stored \ {facts}
  /\ filed' = [filed EXCEPT ![turn] = cur.topic]
  /\ pc' = "refresh"
  /\ UNCHANGED <<stored, turn, cur, job, bg, folded>>

\* _enriching_refresh searches again, for the query of the thread and past
\* the cache, so that it finds the facts of the thread ...
RefreshSearch ==
  /\ pc = "refresh"
  /\ cur' = [cur EXCEPT !.act.merged = facts]
  /\ pc' = "fold"
  /\ UNCHANGED <<stored, facts, turn, job, bg, filed, folded>>

\* ... and writes the activation it read back, under the ts it was read with.
\* That the store may have rejected it goes unnoticed.
RefreshWrite ==
  /\ pc = "fold"
  /\ stored' = CompareAndSet(cur.act)
  /\ folded' = folded \cup {turn}
  /\ Spawn(cur)
  /\ UNCHANGED <<facts, turn, cur, filed>>

\* The turn raises: nothing is left behind but what was stored and archived.
TurnFails ==
  /\ pc # "idle"
  /\ pc' = "idle"
  /\ facts' \in IF pc = "llm" THEN Stored ELSE {facts}
  /\ UNCHANGED <<stored, turn, cur, job, bg, filed, folded>>
-----------------------------------------------------------------------------
(* The prefetch task of turn t.                                            *)

\* Without an embedding a cold turn leaves the activation alone.
Persist(t) ==
  /\ bg[t] = "pending"
  /\ stored' = IF job[t].emb THEN CompareAndSet(Updated(t, job[t])) ELSE stored
  /\ bg' = [bg EXCEPT ![t] = "done"]
  /\ UNCHANGED <<facts, turn, pc, cur, job, filed, folded>>

\* The task raises, which is logged, or is lost at shutdown.
PersistFails(t) ==
  /\ bg[t] = "pending"
  /\ bg' = [bg EXCEPT ![t] = "lost"]
  /\ UNCHANGED <<stored, facts, turn, pc, cur, job, filed, folded>>
-----------------------------------------------------------------------------
\* The chat is quiet: the bound is reached and no task is at work.
Quiescent ==
  /\ pc = "idle" /\ turn = MaxTurns
  /\ \A t \in Turn : bg[t] # "pending"
  /\ UNCHANGED vars

Next ==
  \/ Begin \/ Search \/ ReplyPlain \/ ReplyEnriching
  \/ RefreshSearch \/ RefreshWrite \/ TurnFails
  \/ \E t \in Turn : Persist(t) \/ PersistFails(t)
  \/ Quiescent

Spec == Init /\ [][Next]_vars
-----------------------------------------------------------------------------
(* Properties.                                                             *)

Activation ==
  [ts : 0 .. MaxTurns, topic : 0 .. MaxTurns, merged : SUBSET Turn,
   recent : Seq(Turn), count : 0 .. MaxTurns, archived : Seq(Turn)]

Work == [state : {"cold", "warm", "drift"}, emb : BOOLEAN, topic : 0 .. MaxTurns,
         act : Activation, l3 : SUBSET Turn]

\* Every variable stays within the values the code gives it.
TypeOK ==
  /\ stored \in Activation /\ facts \subseteq Turn
  /\ turn \in 0 .. MaxTurns
  /\ pc \in {"idle", "search", "llm", "refresh", "fold"}
  /\ cur \in Work /\ job \in [Turn -> Work]
  /\ bg \in [Turn -> {"none", "pending", "done", "lost"}]
  /\ filed \in [Turn -> 0 .. MaxTurns] /\ folded \subseteq Turn

\* An update that has landed is never undone by an older one, however late
\* the older prefetch task or refresh comes to its write.
NeverClobbered ==
  \A t \in Turn : bg[t] = "done" /\ job[t].emb => stored.ts >= t

\* The blob is the work of one turn: the turn whose time it bears asked its
\* newest query, and is archived under its topic.
BlobIsOneTurn ==
  Exists(stored) => /\ Last(stored.recent) = stored.ts
                    /\ filed[stored.ts] = stored.topic

\* turn_count, which drives the weight of the centroid, never exceeds the
\* number of turns filed under the topic.
CountWithinTopic ==
  Exists(stored) => stored.count <= Cardinality({t \in Turn : filed[t] = stored.topic})

\* No topic is archived twice along any chain of breaks and returns, so that
\* a return is recognised by the topic's last centroid only.
ArchivedDistinct == Cardinality(Topics(stored)) = Len(stored.archived)

\* Turn t read the activation when no older prefetch task was at work: none
\* is now, and what they wrote was there to be read.
ReadCalm(t) ==
  \A s \in 1 .. t - 1 :
    /\ bg[s] # "pending"
    /\ bg[s] = "done" /\ job[s].emb => job[t].act.ts >= s

\* The facts a warm turn folds in, when no older prefetch task is at work,
\* are served to the next turn of the thread, whether or not the turn's own
\* prefetch task has written by then.
WarmFoldServed ==
  \A t \in folded :
    /\ turn = t + 1 /\ pc = "llm" /\ cur.state = "warm"
    /\ job[t].state = "warm" /\ ReadCalm(t)
    => t \in cur.l3

\* The activation that the next turn builds on holds together and loses
\* nothing, over any chain of breaks, returns and overlapping writes.
ActivationSound ==
  /\ TypeOK
  /\ BlobIsOneTurn
  /\ CountWithinTopic
  /\ ArchivedDistinct
  /\ WarmFoldServed

\* orchestrator.py: on-thread facts are folded into the activation now so
\* that the next turn sees them.
NextTurnSees ==
  \A t \in folded :
    turn = t + 1 /\ pc = "llm" /\ cur.state = "warm" => t \in cur.l3
=============================================================================
