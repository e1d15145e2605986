------------------------------- MODULE BotRuntime -------------------------------
(***************************************************************************)
(* The bot's process from start to shutdown (telegram_interface/bot.py,    *)
(* _plugin_scanner.py): the warm-ups, the turns that share the lock of the *)
(* admin's chat, the poller of the coordination hub (_coord_poller.py)     *)
(* whose batches become turns too, and the drain of what finished turns    *)
(* have left in the background.                                            *)
(*                                                                         *)
(* The hub keeps messages in order and remembers up to which one a reader  *)
(* acknowledged.  A message is big when a digest has no room for another.  *)
(***************************************************************************)
EXTENDS Integers, FiniteSets

CONSTANTS
  MaxPosts,    \* bound: messages on the hub
  Batch,       \* _BATCH
  DigestMax,   \* _DIGEST_MAX, in small messages; a big one counts DigestMax
  MaxTurns,    \* bound: turns of the user and notices of workflows
  MaxStops,    \* bound: shutdowns of the process
  MaxFailures  \* bound: failing calls, dropped replies, crashes

ASSUME BRAssumption ==
  /\ MaxPosts \in Nat /\ Batch \in Nat \ {0} /\ DigestMax \in Nat \ {0} /\ MaxTurns \in Nat /\ MaxFailures \in Nat
  /\ MaxStops \in Nat

\* What is warmed up after the episodic store, side by side.
Warmups == {"BM25", "GLiNER", "CrossEncoder"}

VARIABLES
  admin,     \* whether an admin's chat is configured
  brPhase,   \* "store" | "warm" | "up" | "drain" | "down"
  warm,      \* warm-ups that are over
  posts,     \* messages on the hub so far
  big,       \* those that fill a digest
  acked,     \* the hub's mark: read up to here
  poller,    \* "off" | "asleep" | "waiting" | "turn" | "reply" | "ack"
  upto,      \* the last message of the poller's batch
  answer,     \* its turn's answer: "none" | "text" | "empty"
  lock,      \* who has the admin chat's lock: "free" | "user" | "notice" | "coord"
  turns,     \* turns of user and notices so far
  background, \* tasks that ended turns have left
  snapshot,  \* those that the drain in hand awaits
  lost,      \* history: tasks that a shutdown without failures cut off
  shown,     \* history: messages of the hub that the admin was shown
  unsent,    \* history: those whose answer Telegram refused
  stops, failures

conversation == <<lock, turns, background>>
hub == <<posts, big, acked>>
polling == <<poller, upto, answer>>
history == <<shown, unsent>>
lifecycle == <<admin, brPhase, warm, snapshot, lost, stops>>
brvars == <<lifecycle, hub, polling, conversation, history, failures>>

BRTypeOK ==
  /\ brPhase \in {"store", "warm", "up", "drain", "down"}
  /\ warm \subseteq Warmups /\ posts \in 0 .. MaxPosts /\ big \subseteq 1 .. posts /\ acked \in 0 .. posts
  /\ poller \in {"off", "asleep", "waiting", "turn", "reply", "ack"} /\ upto \in 0 .. posts
  /\ answer \in {"none", "text", "empty"} /\ lock \in {"free", "user", "notice", "coord"}
  /\ turns \in 0 .. MaxTurns /\ background \in Nat /\ snapshot \in 0 .. background /\ lost \in Nat
  /\ shown \subseteq 1 .. posts /\ unsent \subseteq 1 .. posts /\ failures \in 0 .. MaxFailures
  /\ admin \in BOOLEAN /\ stops \in 0 .. MaxStops

BRInit ==
  /\ brPhase = "store" /\ warm = {} /\ posts = 0 /\ big = {} /\ acked = 0 /\ poller = "off" /\ upto = 0
  /\ answer = "none" /\ lock = "free" /\ turns = 0 /\ background = 0 /\ snapshot = 0 /\ lost = 0
  /\ shown = {} /\ unsent = {} /\ stops = 0 /\ failures = 0 /\ admin \in BOOLEAN

Failing == failures < MaxFailures /\ failures' = failures + 1
MayFail == failures' = failures \/ Failing

--------------------------------------------------------------------------------
(* Start: the store first, the index and the models side by side, and only *)
(* then the scanner, the panel, the poller and the polling of Telegram.    *)

WarmStore ==
  /\ brPhase = "store" /\ brPhase' = "warm"
  /\ UNCHANGED <<admin, warm, snapshot, lost, stops, hub, polling, conversation, history, failures>>

\* A warm-up that fails is logged.
WarmUp(w) ==
  /\ brPhase = "warm" /\ w \notin warm /\ warm' = warm \cup {w} /\ MayFail
  /\ UNCHANGED <<admin, brPhase, snapshot, lost, stops, hub, polling, conversation, history>>

Started ==
  /\ brPhase = "warm" /\ warm = Warmups /\ brPhase' = "up" /\ poller' = "asleep"
  /\ UNCHANGED <<admin, warm, snapshot, lost, stops, hub, upto, answer, conversation, history, failures>>

--------------------------------------------------------------------------------
(* Turns of the admin's chat.  The loop of the library ends before the     *)
(* drain, the workflows and the poller do not.                             *)

LoopRuns == brPhase \in {"up", "drain"}

TakeLock(who) ==
  /\ lock = "free" /\ turns < MaxTurns /\ turns' = turns + 1 /\ lock' = who
  /\ who = "user" => brPhase = "up"
  /\ LoopRuns /\ UNCHANGED <<background, lifecycle, hub, polling, history, failures>>

\* A turn leaves a task that archives it.
TurnLeaves == background' = background + 1

TurnEnds(who) ==
  /\ LoopRuns /\ lock = who /\ lock' = "free"
  /\ \/ TurnLeaves /\ UNCHANGED failures
     \/ Failing /\ UNCHANGED background
  /\ UNCHANGED <<turns, lifecycle, hub, polling, history>>

\* A background task is over; the drain may be waiting for it.
BackgroundEnds ==
  /\ LoopRuns /\ background > 0 /\ background' = background - 1
  /\ \/ snapshot > 0 /\ snapshot' = snapshot - 1
     \/ snapshot < background /\ UNCHANGED snapshot
  /\ UNCHANGED <<lock, turns, admin, brPhase, warm, lost, stops, hub, polling, history, failures>>

--------------------------------------------------------------------------------
(* The poller.                                                             *)

Post(large) ==
  /\ posts < MaxPosts /\ posts' = posts + 1 /\ big' = IF large THEN big \cup {posts + 1} ELSE big
  /\ UNCHANGED <<acked, polling, lifecycle, conversation, history, failures>>

\* _fetch: of the unread messages at most Batch, then as many as the digest has
\* room for, one at least.
Weight(S) == Cardinality(S \ big) + DigestMax * Cardinality(S \cap big)

\* Mutant: the digest's limit holds for its first message too.
RoomStrict(last) == Weight(acked + 1 .. last) < DigestMax
Room(last) == last = acked + 1 \/ Weight(acked + 1 .. last) <= DigestMax
Fits(last) == last - acked <= Batch /\ Room(last)

\* Nothing is fetched while no supervisor is registered or the command fails.
Fetch ==
  /\ LoopRuns /\ poller = "asleep" /\ acked < posts
  /\ \/ /\ \E last \in acked + 1 .. posts :
             /\ Fits(last) /\ (\A more \in last + 1 .. posts : ~Fits(more)) /\ upto' = last
        /\ poller' = "waiting" /\ UNCHANGED failures
     \/ Failing /\ UNCHANGED <<poller, upto>>
  /\ UNCHANGED <<answer, lifecycle, hub, conversation, history>>

\* _on_coord_messages: without an admin nothing is done, and the batch is acked.
CoordTurn ==
  /\ LoopRuns /\ poller = "waiting"
  /\ IF admin THEN lock = "free" /\ lock' = "coord" /\ poller' = "turn" ELSE poller' = "ack" /\ UNCHANGED lock
  /\ UNCHANGED <<upto, answer, turns, background, lifecycle, hub, history, failures>>

\* orchestrator.run() answers, answers nothing, or raises; the lock is released.
CoordTurnEnds ==
  /\ LoopRuns /\ poller = "turn" /\ poller' = "reply" /\ lock' = "free"
  /\ \/ answer' = "text" /\ TurnLeaves /\ UNCHANGED failures
     \/ answer' = "empty" /\ Failing /\ (TurnLeaves \/ UNCHANGED background)
  /\ UNCHANGED <<upto, turns, lifecycle, hub, history>>

\* What is sent: the answer, or the digest itself when there is none.
Says(r) == r # "none"

\* A message Telegram refuses is logged, and the batch counts as delivered.
SendReply ==
  /\ LoopRuns /\ poller = "reply" /\ poller' = "ack" /\ answer' = "none"
  /\ \/ shown' = (IF Says(answer) THEN shown \cup (acked + 1 .. upto) ELSE shown) /\ UNCHANGED <<unsent, failures>>
     \/ Failing /\ unsent' = unsent \cup (acked + 1 .. upto) /\ UNCHANGED shown
  /\ UNCHANGED <<upto, lifecycle, hub, conversation>>

\* _ack; one that fails leaves the batch to be delivered again.
Ack ==
  /\ LoopRuns /\ poller = "ack" /\ poller' = "asleep"
  /\ (acked' = upto /\ UNCHANGED failures) \/ (Failing /\ UNCHANGED acked)
  /\ UNCHANGED <<posts, big, upto, answer, lifecycle, conversation, history>>

--------------------------------------------------------------------------------
(* Shutdown.                                                               *)

\* The library's loop stops once no handler runs; what the turns have left by
\* then is awaited, and only after that the poller is cancelled.
StopAsked ==
  /\ brPhase = "up" /\ lock # "user" /\ stops < MaxStops /\ stops' = stops + 1
  /\ brPhase' = "drain" /\ snapshot' = background
  /\ UNCHANGED <<admin, warm, lost, hub, polling, conversation, history, failures>>

\* What a new process begins with.
Ended ==
  /\ brPhase' = "down" /\ warm' = {} /\ poller' = "off" /\ answer' = "none" /\ lock' = "free"
  /\ background' = 0 /\ snapshot' = 0 /\ UNCHANGED <<admin, upto, turns, hub, history>>

Drained ==
  /\ brPhase = "drain" /\ snapshot = 0 /\ Ended /\ lost' = lost + background /\ UNCHANGED <<stops, failures>>

\* The drain times out, or the process crashes.
Crash == brPhase # "down" /\ Failing /\ Ended /\ UNCHANGED <<lost, stops>>

StartAgain ==
  /\ brPhase = "down" /\ brPhase' = "store"
  /\ UNCHANGED <<admin, warm, snapshot, lost, stops, hub, polling, conversation, history, failures>>

Poller == Fetch \/ CoordTurn \/ CoordTurnEnds \/ SendReply \/ Ack

BRNext ==
  \/ WarmStore \/ Started \/ (\E w \in Warmups : WarmUp(w)) \/ (\E b \in BOOLEAN : Post(b))
  \/ \E who \in {"user", "notice"} : TakeLock(who) \/ TurnEnds(who)
  \/ BackgroundEnds \/ Poller \/ StopAsked \/ Drained \/ Crash \/ StartAgain

\* The event loop runs what is ready: the poller after its sleep, a turn to its
\* end (every model call and tool has a timeout), whoever waits for the lock.
BRFairness == WF_brvars(Poller) /\ \A who \in {"user", "notice"} : WF_brvars(TurnEnds(who))

BRSpec == BRInit /\ [][BRNext]_brvars /\ BRFairness

--------------------------------------------------------------------------------
\* A message that was acknowledged on the hub has been shown to the admin, in
\* GOAT's words or as it is, or Telegram refused the reply that shows it:
\* whatever the turn about it came to, its reply has been tried.
CoordSeen == admin => 1 .. acked \subseteq shown \cup unsent

\* While the bot stays up it gets through the hub's messages, however large they
\* are and however many come at once.
CoordDrains == <>[](brPhase = "up") => <>[](acked = posts)

\* The messages of the hub are heard: each is sent to the admin before it is
\* acknowledged, whether or not Telegram takes it (CoordReaches), and all of them
\* in the end.
CoordHeard == []BRTypeOK /\ []CoordSeen /\ CoordDrains

\* bot.py:242: "the admin must always see that new coordination activity
\* happened".  A sending that Telegram refuses is logged, and the message is
\* acknowledged all the same.
CoordReaches == admin => 1 .. acked \subseteq shown

\* A shutdown in which nothing fails loses no task of a turn (bot.py: "drains
\* in-flight L3 archive writes on clean shutdown").
ShutdownLosesNothing == lost = 0
================================================================================
