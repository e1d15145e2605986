------------------------------- MODULE BotUpdates -------------------------------
(***************************************************************************)
(* What reaches the bot from Telegram, and the releases it installs:       *)
(* handle_message, handle_update, handle_rollback and handle_callback of   *)
(* telegram_interface/bot.py with their redelivery guard, and update and   *)
(* rollback from the command line (setup/updater.py, setup/rollback.py).   *)
(*                                                                         *)
(* Updates are numbered as Telegram numbers them.  Telegram offers an      *)
(* update until a later poll confirms it; the library fetches them into a  *)
(* queue in memory and hands them to the handlers one at a time.  A        *)
(* version stands for the code in the work tree, for the requirements      *)
(* installed and for what a process has loaded.                            *)
(***************************************************************************)
EXTENDS Integers

CONSTANTS
  MaxUpdates,  \* bound: updates that users send
  MaxVersion,  \* bound: versions published, from 1 on
  MaxKills,    \* bound: crashes of the bot
  MaxCli,      \* bound: updates and rollbacks from the command line
  MaxBreaks    \* bound: failing requests to Redis, git or pip

ASSUME BUAssumption ==
  /\ MaxUpdates \in Nat /\ MaxVersion \in Nat \ {0} /\ MaxKills \in Nat /\ MaxCli \in Nat /\ MaxBreaks \in Nat

\* The updates the handlers tell apart; a stranger's comes from another chat than
\* the admin's.
Kinds == {"message", "stranger", "update", "confirmUpdate", "rollback", "confirmRollback"}

VARIABLES
  sent, kind,  \* updates so far, and their kinds
  confirmed,   \* Telegram no longer offers the updates up to here
  fetched,     \* the process has them in memory up to here
  taken,       \* its handlers were given them up to here
  seen,        \* the dedupe keys in Redis
  entered,     \* history: how often an update's handler passed the guard
  buttons,     \* keyboards shown so far
  job,         \* the step an update in hand is at
  latest,      \* the newest version published
  tree, head, stash, \* the work tree: version, what HEAD is at, local files put away
  deps,        \* the version whose requirements are installed
  running,     \* the version the bot has loaded, 0 when it is down
  cli,         \* the step the command line is at
  overlap,     \* history: who began to install while the other was at it
  kills, clis, breaks

checkout == <<latest, tree, head, stash, deps>>
telegram == <<sent, kind, buttons>>
process == <<confirmed, fetched, taken, seen, entered, job, running>>
counts == <<kills, clis, breaks>>
buvars == <<telegram, process, checkout, cli, overlap, counts>>

Versions == 1 .. MaxVersion

BUTypeOK ==
  /\ confirmed \in 0 .. fetched /\ taken \in 0 .. fetched /\ fetched \in 0 .. sent /\ sent \in 0 .. MaxUpdates
  /\ kind \in [1 .. MaxUpdates -> Kinds] /\ seen \subseteq 1 .. MaxUpdates /\ entered \in [1 .. MaxUpdates -> Nat]
  /\ buttons \subseteq {"confirmUpdate", "confirmRollback"} /\ job \in {"none", "pull", "checkout", "pip", "exec"}
  /\ {latest, tree, deps} \subseteq Versions /\ head \in {"branch", "tag"} /\ stash \in {"empty", "kept"}
  /\ running \in {0} \cup Versions /\ cli \in {"none", "pip"} /\ overlap \subseteq {"bot", "shell"}
  /\ kills \in 0 .. MaxKills /\ clis \in 0 .. MaxCli /\ breaks \in 0 .. MaxBreaks

BUInit ==
  /\ sent = 0 /\ kind = [u \in 1 .. MaxUpdates |-> "message"] /\ buttons = {}
  /\ confirmed = 0 /\ fetched = 0 /\ taken = 0 /\ seen = {} /\ entered = [u \in 1 .. MaxUpdates |-> 0]
  /\ job = "none" /\ running = 1 /\ cli = "none" /\ overlap = {}
  /\ latest = 1 /\ tree = 1 /\ head = "branch" /\ stash = "empty" /\ deps = 1
  /\ kills = 0 /\ clis = 0 /\ breaks = 0

Break == breaks < MaxBreaks /\ breaks' = breaks + 1

--------------------------------------------------------------------------------
(* Telegram, the polling of the library, and the handlers.                 *)

Publish ==
  /\ latest < MaxVersion /\ latest' = latest + 1
  /\ UNCHANGED <<telegram, process, tree, head, stash, deps, cli, overlap, counts>>

SendUpdate(k) ==
  /\ sent < MaxUpdates /\ sent' = sent + 1 /\ kind' = [kind EXCEPT ![sent + 1] = k]
  /\ k \in {"confirmUpdate", "confirmRollback"} => k \in buttons
  /\ UNCHANGED <<buttons, process, checkout, cli, overlap, counts>>

\* A poll confirms what the one before it has fetched.
Poll ==
  /\ running # 0 /\ (fetched < sent \/ confirmed < fetched) /\ confirmed' = fetched /\ fetched' = sent
  /\ UNCHANGED <<telegram, taken, seen, entered, job, running, checkout, cli, overlap, counts>>

\* SET NX: the update was not seen before.
FirstTime(u) == u \notin seen

\* GitHub's newest release against the version the process has loaded, or the
\* one in the tree for a command started now.
Newer(version) == latest > version

\* /update shows its button when there is something newer; GitHub may not answer.
ShowsUpdate ==
  /\ job' = "none"
  /\ \/ Newer(running) /\ buttons' = buttons \cup {"confirmUpdate"}
     \/ UNCHANGED buttons

\* /rollback shows the tags, behind a second button that confirms the choice.
ShowsTags == job' = "none" /\ buttons' = buttons \cup {"confirmRollback"}

\* A button that confirms starts the installation.
Confirms(k) == job' = (IF k = "confirmUpdate" THEN "pull" ELSE "checkout") /\ UNCHANGED buttons

\* What the handler of an update does, behind the guard; the turn of a message
\* is another module's.
Handle(k) ==
  \/ k = "update" /\ ShowsUpdate
  \/ k = "rollback" /\ ShowsTags
  \/ k \in {"confirmUpdate", "confirmRollback"} /\ Confirms(k)
  \/ k = "message" /\ UNCHANGED <<job, buttons>>

\* The next update, when no handler is busy: strangers are ignored, so is one
\* that was handled before; a Redis that fails loses it.
TakeUpdate ==
  LET u == taken + 1 IN
  /\ running # 0 /\ job = "none" /\ taken < fetched /\ taken' = u
  /\ IF kind[u] # "stranger" /\ FirstTime(u)
     THEN \/ seen' = seen \cup {u} /\ entered' = [entered EXCEPT ![u] = @ + 1] /\ Handle(kind[u]) /\ UNCHANGED breaks
          \/ Break /\ UNCHANGED <<seen, entered, buttons, job>>
     ELSE UNCHANGED <<seen, entered, buttons, job, breaks>>
  /\ UNCHANGED <<sent, kind, confirmed, fetched, running, checkout, cli, overlap, kills, clis>>

--------------------------------------------------------------------------------
(* Installing a version, from the bot and from the command line.           *)

\* git pull --ff-only, which needs a branch; git checkout of a tag, after what is
\* local was stashed.
PullsTree == head = "branch" /\ tree' = latest /\ UNCHANGED <<latest, head, stash, deps>>
ChecksOut == \E v \in 1 .. latest : tree' = v /\ head' = "tag" /\ stash' = "kept" /\ UNCHANGED <<latest, deps>>
CheckoutFails == stash' = "kept" /\ UNCHANGED <<latest, tree, head, deps>>

\* History: who begins to install, and the step the other one is at.
Joins(who, other) == overlap' = IF other = "none" THEN overlap ELSE overlap \cup {who}

\* The update button: pull, and on to pip, or report the failure.
PullStep ==
  /\ job = "pull" /\ UNCHANGED <<telegram, confirmed, fetched, taken, seen, entered, running, cli, kills, clis>>
  /\ \/ PullsTree /\ job' = "pip" /\ Joins("bot", cli) /\ UNCHANGED breaks
     \/ head = "tag" /\ job' = "none" /\ UNCHANGED <<checkout, overlap, breaks>>
     \/ Break /\ job' = "none" /\ UNCHANGED <<checkout, overlap>>

\* The rollback button.
CheckoutStep ==
  /\ job = "checkout" /\ UNCHANGED <<telegram, confirmed, fetched, taken, seen, entered, running, cli, kills, clis>>
  /\ \/ ChecksOut /\ job' = "pip" /\ Joins("bot", cli) /\ UNCHANGED breaks
     \/ Break /\ CheckoutFails /\ job' = "none" /\ UNCHANGED overlap

\* pip install -r requirements.txt installs for the tree as it is now.
Installs == deps' = tree /\ UNCHANGED <<latest, tree, head, stash>>

\* Mutant: the return code of pip is not looked at.
AfterFailedPipGoesOn == "exec"

\* A pip that fails ends the installation.
AfterFailedPip == "none"

PipStep ==
  /\ job = "pip" /\ UNCHANGED <<telegram, confirmed, fetched, taken, seen, entered, running, cli, overlap, kills, clis>>
  /\ \/ Installs /\ job' = "exec" /\ UNCHANGED breaks
     \/ Break /\ job' = AfterFailedPip /\ UNCHANGED checkout

\* What a new process knows of the updates.
Fresh == fetched' = confirmed /\ taken' = confirmed /\ job' = "none"

\* os.execv: the same process, new code; what it had fetched is gone.
Exec ==
  /\ job = "exec" /\ running' = tree /\ Fresh
  /\ UNCHANGED <<telegram, confirmed, seen, entered, checkout, cli, overlap, counts>>

Kill ==
  /\ running # 0 /\ kills < MaxKills /\ kills' = kills + 1 /\ running' = 0 /\ Fresh
  /\ UNCHANGED <<telegram, confirmed, seen, entered, checkout, cli, overlap, clis, breaks>>

\* run.sh installs the requirements and starts the bot, or stops.
Boot ==
  /\ running = 0 /\ cli = "none" /\ Installs /\ running' = tree
  /\ UNCHANGED <<telegram, confirmed, fetched, taken, seen, entered, job, cli, overlap, counts>>

\* The command line, the bot running or not: install_update() when there is
\* something newer than the tree (what it restarts in the end is itself), and
\* rollback().
CliUpdate == Newer(tree) /\ PullsTree
CliRollback == ChecksOut

CliTree ==
  /\ cli = "none" /\ clis < MaxCli /\ clis' = clis + 1 /\ cli' = "pip" /\ (CliUpdate \/ CliRollback)
  /\ Joins("shell", job) /\ UNCHANGED <<telegram, process, kills, breaks>>

CliPip ==
  /\ cli = "pip" /\ cli' = "none" /\ UNCHANGED <<telegram, process, overlap, kills, clis>>
  /\ (Installs /\ UNCHANGED breaks) \/ (Break /\ UNCHANGED checkout)

BUNext ==
  \/ Publish \/ Poll \/ TakeUpdate \/ PullStep \/ CheckoutStep \/ PipStep \/ Exec \/ Kill \/ Boot \/ CliTree \/ CliPip
  \/ \E k \in Kinds : SendUpdate(k)

BUSpec == BUInit /\ [][BUNext]_buvars

--------------------------------------------------------------------------------
\* An update is handled at most once, however often it is delivered: across
\* crashes, and across the restart that the update button ends in, which would
\* else be pressed again by its own redelivery.
AtMostOnce == \A u \in 1 .. sent : entered[u] <= 1

\* Code that is started has its requirements installed, whatever failed before,
\* unless the shell and the bot installed at the same time.
StartsInstalled ==
  [][running' \notin {0, running} => deps' = running' \/ overlap # {}]_buvars

\* Neither a redelivered update nor a failed step of an installation does
\* harm across the restarts they bring about.
UpdatesSafe == []BUTypeOK /\ []AtMostOnce /\ StartsInstalled
================================================================================
