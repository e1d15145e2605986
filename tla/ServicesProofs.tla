---------------------------- MODULE ServicesProofs ----------------------------
(***************************************************************************)
(* Proofs about the services around the turns.  BotUpdates: an update is   *)
(* handled at most once, and code that is started has its requirements     *)
(* installed.  PluginHost: tools are fresh after a quiet scan and no edit  *)
(* takes them away.  BotRuntime: what is acknowledged on the hub has been  *)
(* seen.  Replies: a reply arrives whole, in its order.  Each for any      *)
(* number of updates, versions, edits, messages, crashes and failures, and *)
(* the last for blocks of any text.                                        *)
(***************************************************************************)
EXTENDS BotUpdates, PluginHost, BotRuntime, Replies, SequenceTheorems, WellFoundedInduction,
        NaturalsInduction, TLAPS

\* The guard's key outlives the process, so what was handled is known.
Guarded == \A u \in 1 .. MaxUpdates : entered[u] <= 1 /\ (entered[u] = 1 => u \in seen)

\* Between pip and the restart the tree is the one pip installed for, unless
\* somebody else has touched it.
Installed == job = "exec" => deps = tree \/ overlap # {}

\* The bot's own installation and the command line's are not under way together
\* unnoticed.
Noticed == job \in {"pip", "exec"} /\ cli # "none" => overlap # {}

UpdatesInv == BUTypeOK /\ Guarded /\ Installed /\ Noticed

LEMMA InitUpdates == BUInit => UpdatesInv
BY BUAssumption DEF BUInit, UpdatesInv, BUTypeOK, Guarded, Installed, Noticed, Versions, Kinds

\* The type invariant in parts, none of which a step touches whole.
TelegramOK ==
  /\ sent \in Nat /\ sent <= MaxUpdates /\ kind \in [1 .. MaxUpdates -> Kinds]
  /\ buttons \subseteq {"confirmUpdate", "confirmRollback"}
DeliveryOK ==
  /\ confirmed \in Nat /\ taken \in Nat /\ fetched \in Nat
  /\ confirmed <= fetched /\ taken <= fetched /\ fetched <= sent
GuardOK == seen \subseteq 1 .. MaxUpdates /\ entered \in [1 .. MaxUpdates -> Nat]
StepOK ==
  /\ job \in {"none", "pull", "checkout", "pip", "exec"} /\ cli \in {"none", "pip"}
  /\ overlap \subseteq {"bot", "shell"} /\ running \in {0} \cup Versions
CheckoutOK ==
  /\ latest \in Versions /\ tree \in Versions /\ deps \in Versions
  /\ head \in {"branch", "tag"} /\ stash \in {"empty", "kept"}
CountsOK == kills \in 0 .. MaxKills /\ clis \in 0 .. MaxCli /\ breaks \in 0 .. MaxBreaks

LEMMA TypeInParts ==
  BUTypeOK <=> TelegramOK /\ DeliveryOK /\ GuardOK /\ StepOK /\ CheckoutOK /\ CountsOK
<1>1. /\ sent \in 0 .. MaxUpdates <=> sent \in Nat /\ sent <= MaxUpdates
      /\ confirmed \in 0 .. fetched /\ taken \in 0 .. fetched /\ fetched \in 0 .. sent /\ sent \in 0 .. MaxUpdates
         <=> DeliveryOK /\ sent \in 0 .. MaxUpdates
  BY BUAssumption DEF DeliveryOK
<1>2. QED
  BY <1>1 DEF BUTypeOK, TelegramOK, GuardOK, StepOK, CheckoutOK, CountsOK

\* What the handler of an update may change.
LEMMA HandleEffect ==
  ASSUME TelegramOK, NEW k \in Kinds, Handle(k), job = "none"
  PROVE  /\ job' \in {"none", "pull", "checkout"}
         /\ buttons' \subseteq {"confirmUpdate", "confirmRollback"}
BY DEF Handle, ShowsUpdate, ShowsTags, Confirms, TelegramOK

\* Every step of an installation leaves tree and requirements at published
\* versions.
LEMMA CheckoutKept ==
  ASSUME CheckoutOK, PullsTree \/ ChecksOut \/ CheckoutFails \/ Installs \/ UNCHANGED checkout
  PROVE  CheckoutOK'
<1>1. CASE PullsTree
  BY <1>1 DEF PullsTree, CheckoutOK
<1>2. CASE ChecksOut
  BY <1>2, BUAssumption DEF ChecksOut, CheckoutOK, Versions
<1>3. CASE CheckoutFails
  BY <1>3 DEF CheckoutFails, CheckoutOK
<1>4. CASE Installs
  BY <1>4 DEF Installs, CheckoutOK
<1>5. CASE UNCHANGED checkout
  BY <1>5 DEF checkout, CheckoutOK
<1>6. QED
  BY <1>1, <1>2, <1>3, <1>4, <1>5

\* The invariant is kept by every step.
LEMMA StepUpdates == UpdatesInv /\ [BUNext]_buvars => UpdatesInv'
<1> SUFFICES ASSUME UpdatesInv, [BUNext]_buvars PROVE UpdatesInv'
  OBVIOUS
<1> DEFINE Parts == TelegramOK /\ DeliveryOK /\ GuardOK /\ StepOK /\ CheckoutOK /\ CountsOK
<1>0. Parts /\ Guarded /\ Installed /\ Noticed
  BY TypeInParts DEF UpdatesInv
<1>p. ASSUME Parts', Guarded', Installed', Noticed' PROVE UpdatesInv'
  <2>1. BUTypeOK'
    BY <1>p, TypeInParts, PTL
  <2>2. QED
    BY <1>p, <2>1 DEF UpdatesInv
<1> USE BUAssumption DEF telegram, process, counts
<1>1. CASE UNCHANGED buvars
  <2>1. TelegramOK'
    BY <1>0, <1>1 DEF buvars, checkout, TelegramOK
  <2>2. DeliveryOK'
    BY <1>0, <1>1 DEF buvars, checkout, DeliveryOK, TelegramOK
  <2>3. GuardOK' /\ Guarded'
    BY <1>0, <1>1 DEF buvars, checkout, GuardOK, Guarded
  <2>4. StepOK' /\ Installed' /\ Noticed'
    BY <1>0, <1>1 DEF buvars, checkout, StepOK, Installed, Noticed, CheckoutOK
  <2>5. CheckoutOK'
    BY <1>0, <1>1 DEF buvars, checkout, CheckoutOK
  <2>6. CountsOK'
    BY <1>0, <1>1 DEF buvars, checkout, CountsOK, Break
  <2>7. QED
    BY <1>p, <2>1, <2>2, <2>3, <2>4, <2>5, <2>6
<1>2. CASE Publish
  <2>1. TelegramOK'
    BY <1>0, <1>2 DEF Publish, TelegramOK
  <2>2. DeliveryOK'
    BY <1>0, <1>2 DEF Publish, DeliveryOK, TelegramOK
  <2>3. GuardOK' /\ Guarded'
    BY <1>0, <1>2 DEF Publish, GuardOK, Guarded
  <2>4. StepOK' /\ Installed' /\ Noticed'
    BY <1>0, <1>2 DEF Publish, StepOK, Installed, Noticed, CheckoutOK
  <2>5. CheckoutOK'
    BY <1>0, <1>2 DEF Publish, CheckoutOK, Versions
  <2>6. CountsOK'
    BY <1>0, <1>2 DEF Publish, CountsOK, Break
  <2>7. QED
    BY <1>p, <2>1, <2>2, <2>3, <2>4, <2>5, <2>6
<1>3. ASSUME NEW k \in Kinds, SendUpdate(k) PROVE UpdatesInv'
  <2>1. TelegramOK'
    <3>1. /\ sent < MaxUpdates /\ sent' = sent + 1 /\ kind' = [kind EXCEPT ![sent + 1] = k]
          /\ buttons' = buttons
      BY <1>3 DEF SendUpdate
    <3>2. sent + 1 \in 1 .. MaxUpdates
      BY <1>0, <3>1 DEF TelegramOK
    <3>3. kind' \in [1 .. MaxUpdates -> Kinds]
      BY <1>0, <3>1, <3>2 DEF TelegramOK
    <3>4. QED
      BY <1>0, <3>1, <3>2, <3>3 DEF TelegramOK
  <2>2. DeliveryOK'
    <3>1. sent' = sent + 1 /\ UNCHANGED <<confirmed, fetched, taken>>
      BY <1>3 DEF SendUpdate
    <3>2. QED
      BY <1>0, <3>1 DEF DeliveryOK, TelegramOK
  <2>3. GuardOK' /\ Guarded'
    BY <1>0, <1>3 DEF SendUpdate, checkout, GuardOK, Guarded
  <2>4. StepOK' /\ Installed' /\ Noticed'
    BY <1>0, <1>3 DEF SendUpdate, checkout, StepOK, Installed, Noticed, CheckoutOK
  <2>5. CheckoutOK'
    BY <1>0, <1>3 DEF SendUpdate, checkout, CheckoutOK
  <2>6. CountsOK'
    BY <1>0, <1>3 DEF SendUpdate, checkout, CountsOK, Break
  <2>7. QED
    BY <1>p, <2>1, <2>2, <2>3, <2>4, <2>5, <2>6
<1>4. CASE Poll
  <2>1. TelegramOK'
    BY <1>0, <1>4 DEF Poll, checkout, TelegramOK
  <2>2. DeliveryOK'
    <3>1. confirmed' = fetched /\ fetched' = sent /\ taken' = taken /\ sent' = sent
      BY <1>4 DEF Poll
    <3>2. QED
      BY <1>0, <3>1 DEF DeliveryOK, TelegramOK
  <2>3. GuardOK' /\ Guarded'
    BY <1>0, <1>4 DEF Poll, checkout, GuardOK, Guarded
  <2>4. StepOK' /\ Installed' /\ Noticed'
    BY <1>0, <1>4 DEF Poll, checkout, StepOK, Installed, Noticed, CheckoutOK
  <2>5. CheckoutOK'
    BY <1>0, <1>4 DEF Poll, checkout, CheckoutOK
  <2>6. CountsOK'
    BY <1>0, <1>4 DEF Poll, checkout, CountsOK, Break
  <2>7. QED
    BY <1>p, <2>1, <2>2, <2>3, <2>4, <2>5, <2>6
<1>5. CASE TakeUpdate
  <2> DEFINE u == taken + 1
  <2>1. u \in 1 .. MaxUpdates /\ u <= fetched /\ kind[u] \in Kinds /\ job = "none"
    <3>1. taken < fetched /\ job = "none"
      BY <1>5 DEF TakeUpdate
    <3>2. u \in 1 .. MaxUpdates /\ u <= fetched
      BY <1>0, <3>1 DEF TelegramOK, DeliveryOK
    <3>3. QED
      BY <1>0, <3>1, <3>2 DEF TelegramOK
  <2>2. UNCHANGED <<sent, kind, confirmed, fetched, running, cli, overlap, kills, clis, checkout>>
    BY <1>5 DEF TakeUpdate
  <2>3. /\ job' \in {"none", "pull", "checkout"}
        /\ buttons' \subseteq {"confirmUpdate", "confirmRollback"}
    BY <1>0, <1>5, <2>1, HandleEffect DEF TakeUpdate, TelegramOK
  <2>4. \/ seen' = seen \cup {u} /\ entered' = [entered EXCEPT ![u] = @ + 1] /\ u \notin seen
        \/ UNCHANGED <<seen, entered>>
    BY <1>5 DEF TakeUpdate, FirstTime
  <2> HIDE DEF u
  <2>5. GuardOK' /\ Guarded'
    <3>1. CASE UNCHANGED <<seen, entered>>
      BY <1>0, <3>1 DEF GuardOK, Guarded
    <3>2. CASE seen' = seen \cup {u} /\ entered' = [entered EXCEPT ![u] = @ + 1] /\ u \notin seen
      <4>1. entered[u] = 0
        BY <1>0, <2>1, <3>2 DEF Guarded, GuardOK
      <4>2. QED
        <5>1. seen' \subseteq 1 .. MaxUpdates /\ entered' \in [1 .. MaxUpdates -> Nat]
          <6>1. entered' = [entered EXCEPT ![u] = 1]
            BY <3>2, <4>1
          <6>2. entered' \in [1 .. MaxUpdates -> Nat]
            BY <1>0, <6>1 DEF GuardOK
          <6>3. seen' \subseteq 1 .. MaxUpdates
            BY <1>0, <2>1, <3>2 DEF GuardOK
          <6>4. QED
            BY <6>2, <6>3
        <5>2. ASSUME NEW v \in 1 .. MaxUpdates
              PROVE  entered'[v] <= 1 /\ (entered'[v] = 1 => v \in seen')
          BY <1>0, <2>1, <3>2, <4>1 DEF Guarded, GuardOK
        <5>3. QED
          BY <5>1, <5>2 DEF Guarded, GuardOK
    <3>3. QED
      BY <2>4, <3>1, <3>2
  <2>6. TelegramOK'
    BY <1>0, <2>2, <2>3 DEF TelegramOK
  <2>7. DeliveryOK'
    BY <1>0, <1>5, <2>1, <2>2 DEF TakeUpdate, DeliveryOK, u
  <2>8. StepOK' /\ Installed' /\ Noticed'
    BY <1>0, <2>2, <2>3 DEF StepOK, Installed, Noticed
  <2>9. CheckoutOK'
    BY <1>0, <2>2, CheckoutKept
  <2>10. CountsOK'
    BY <1>0, <1>5, <2>2 DEF TakeUpdate, Break, CountsOK
  <2>11. QED
    BY <1>p, <2>5, <2>6, <2>7, <2>8, <2>9, <2>10
<1>6. CASE PullStep
  <2>1. TelegramOK'
    BY <1>0, <1>6 DEF PullStep, Break, Joins, checkout, TelegramOK
  <2>2. DeliveryOK'
    BY <1>0, <1>6 DEF PullStep, Break, Joins, checkout, DeliveryOK, TelegramOK
  <2>3. GuardOK' /\ Guarded'
    BY <1>0, <1>6 DEF PullStep, Break, Joins, checkout, GuardOK, Guarded
  <2>4. StepOK' /\ Installed' /\ Noticed'
    BY <1>0, <1>6 DEF PullStep, Break, Joins, checkout, StepOK, Installed, Noticed, CheckoutOK
  <2>5. CheckoutOK'
    BY <1>0, <1>6, CheckoutKept DEF PullStep
  <2>6. CountsOK'
    BY <1>0, <1>6 DEF PullStep, Break, Joins, checkout, CountsOK
  <2>7. QED
    BY <1>p, <2>1, <2>2, <2>3, <2>4, <2>5, <2>6
<1>7. CASE CheckoutStep
  <2>1. TelegramOK'
    BY <1>0, <1>7 DEF CheckoutStep, Break, Joins, checkout, TelegramOK
  <2>2. DeliveryOK'
    BY <1>0, <1>7 DEF CheckoutStep, Break, Joins, checkout, DeliveryOK, TelegramOK
  <2>3. GuardOK' /\ Guarded'
    BY <1>0, <1>7 DEF CheckoutStep, Break, Joins, checkout, GuardOK, Guarded
  <2>4. StepOK' /\ Installed' /\ Noticed'
    BY <1>0, <1>7 DEF CheckoutStep, Break, Joins, checkout, StepOK, Installed, Noticed, CheckoutOK
  <2>5. CheckoutOK'
    BY <1>0, <1>7, CheckoutKept DEF CheckoutStep
  <2>6. CountsOK'
    BY <1>0, <1>7 DEF CheckoutStep, Break, Joins, checkout, CountsOK
  <2>7. QED
    BY <1>p, <2>1, <2>2, <2>3, <2>4, <2>5, <2>6
<1>8. CASE PipStep
  <2>1. TelegramOK'
    BY <1>0, <1>8 DEF PipStep, Break, Installs, AfterFailedPip, checkout, TelegramOK
  <2>2. DeliveryOK'
    BY <1>0, <1>8 DEF PipStep, Break, Installs, AfterFailedPip, checkout, DeliveryOK, TelegramOK
  <2>3. GuardOK' /\ Guarded'
    BY <1>0, <1>8 DEF PipStep, Break, Installs, AfterFailedPip, checkout, GuardOK, Guarded
  <2>4. StepOK' /\ Installed' /\ Noticed'
    BY <1>0, <1>8 DEF PipStep, Break, Installs, AfterFailedPip, checkout, StepOK, Installed, Noticed, CheckoutOK
  <2>5. CheckoutOK'
    BY <1>0, <1>8, CheckoutKept DEF PipStep
  <2>6. CountsOK'
    BY <1>0, <1>8 DEF PipStep, Break, Installs, AfterFailedPip, checkout, CountsOK
  <2>7. QED
    BY <1>p, <2>1, <2>2, <2>3, <2>4, <2>5, <2>6
<1>9. CASE Exec
  <2>1. TelegramOK'
    BY <1>0, <1>9 DEF Exec, Fresh, checkout, TelegramOK
  <2>2. DeliveryOK'
    <3>1. fetched' = confirmed /\ taken' = confirmed /\ UNCHANGED <<confirmed, sent>>
      BY <1>9 DEF Exec, Fresh
    <3>2. QED
      BY <1>0, <3>1 DEF DeliveryOK, TelegramOK
  <2>3. GuardOK' /\ Guarded'
    BY <1>0, <1>9 DEF Exec, Fresh, checkout, GuardOK, Guarded
  <2>4. StepOK' /\ Installed' /\ Noticed'
    BY <1>0, <1>9 DEF Exec, Fresh, checkout, StepOK, Installed, Noticed, CheckoutOK
  <2>5. CheckoutOK'
    BY <1>0, <1>9 DEF Exec, Fresh, checkout, CheckoutOK
  <2>6. CountsOK'
    BY <1>0, <1>9 DEF Exec, Fresh, checkout, CountsOK, Break
  <2>7. QED
    BY <1>p, <2>1, <2>2, <2>3, <2>4, <2>5, <2>6
<1>10. CASE Kill
  <2>1. TelegramOK'
    BY <1>0, <1>10 DEF Kill, Fresh, checkout, TelegramOK
  <2>2. DeliveryOK'
    <3>1. fetched' = confirmed /\ taken' = confirmed /\ UNCHANGED <<confirmed, sent>>
      BY <1>10 DEF Kill, Fresh
    <3>2. QED
      BY <1>0, <3>1 DEF DeliveryOK, TelegramOK
  <2>3. GuardOK' /\ Guarded'
    BY <1>0, <1>10 DEF Kill, Fresh, checkout, GuardOK, Guarded
  <2>4. StepOK' /\ Installed' /\ Noticed'
    BY <1>0, <1>10 DEF Kill, Fresh, checkout, StepOK, Installed, Noticed, CheckoutOK
  <2>5. CheckoutOK'
    BY <1>0, <1>10 DEF Kill, Fresh, checkout, CheckoutOK
  <2>6. CountsOK'
    BY <1>0, <1>10 DEF Kill, Fresh, checkout, CountsOK, Break
  <2>7. QED
    BY <1>p, <2>1, <2>2, <2>3, <2>4, <2>5, <2>6
<1>11. CASE Boot
  <2>1. TelegramOK'
    BY <1>0, <1>11 DEF Boot, Installs, checkout, TelegramOK
  <2>2. DeliveryOK'
    BY <1>0, <1>11 DEF Boot, Installs, checkout, DeliveryOK, TelegramOK
  <2>3. GuardOK' /\ Guarded'
    BY <1>0, <1>11 DEF Boot, Installs, checkout, GuardOK, Guarded
  <2>4. StepOK' /\ Installed' /\ Noticed'
    BY <1>0, <1>11 DEF Boot, Installs, checkout, StepOK, Installed, Noticed, CheckoutOK
  <2>5. CheckoutOK'
    BY <1>0, <1>11, CheckoutKept DEF Boot
  <2>6. CountsOK'
    BY <1>0, <1>11 DEF Boot, Installs, checkout, CountsOK, Break
  <2>7. QED
    BY <1>p, <2>1, <2>2, <2>3, <2>4, <2>5, <2>6
<1>12. CASE CliTree
  <2>1. TelegramOK'
    BY <1>0, <1>12 DEF CliTree, CliUpdate, CliRollback, PullsTree, ChecksOut, Joins, checkout, TelegramOK
  <2>2. DeliveryOK'
    BY <1>0, <1>12 DEF CliTree, CliUpdate, CliRollback, PullsTree, ChecksOut, Joins, checkout, DeliveryOK, TelegramOK
  <2>3. GuardOK' /\ Guarded'
    BY <1>0, <1>12 DEF CliTree, CliUpdate, CliRollback, PullsTree, ChecksOut, Joins, checkout, GuardOK, Guarded
  <2>4. StepOK' /\ Installed' /\ Noticed'
    BY <1>0, <1>12 DEF CliTree, CliUpdate, CliRollback, PullsTree, ChecksOut, Joins, checkout, StepOK, Installed, Noticed, CheckoutOK
  <2>5. CheckoutOK'
    BY <1>0, <1>12, CheckoutKept DEF CliTree, CliUpdate, CliRollback
  <2>6. CountsOK'
    BY <1>0, <1>12 DEF CliTree, CliUpdate, CliRollback, PullsTree, ChecksOut, Joins, checkout, CountsOK, Break
  <2>7. QED
    BY <1>p, <2>1, <2>2, <2>3, <2>4, <2>5, <2>6
<1>13. CASE CliPip
  <2>1. TelegramOK'
    BY <1>0, <1>13 DEF CliPip, Installs, Break, checkout, TelegramOK
  <2>2. DeliveryOK'
    BY <1>0, <1>13 DEF CliPip, Installs, Break, checkout, DeliveryOK, TelegramOK
  <2>3. GuardOK' /\ Guarded'
    BY <1>0, <1>13 DEF CliPip, Installs, Break, checkout, GuardOK, Guarded
  <2>4. StepOK' /\ Installed' /\ Noticed'
    BY <1>0, <1>13 DEF CliPip, Installs, Break, checkout, StepOK, Installed, Noticed, CheckoutOK
  <2>5. CheckoutOK'
    BY <1>0, <1>13, CheckoutKept DEF CliPip
  <2>6. CountsOK'
    BY <1>0, <1>13 DEF CliPip, Installs, Break, checkout, CountsOK
  <2>7. QED
    BY <1>p, <2>1, <2>2, <2>3, <2>4, <2>5, <2>6
<1>14. QED
  BY <1>1, <1>2, <1>3, <1>4, <1>5, <1>6, <1>7, <1>8, <1>9, <1>10, <1>11, <1>12, <1>13 DEF BUNext

\* Only Exec and Boot start a process.
LEMMA StepStarts ==
  ASSUME UpdatesInv, BUNext
  PROVE  running' \notin {0, running} => deps' = running' \/ overlap # {}
<1> USE DEF process
<1>1. CASE Exec
  BY <1>1 DEF Exec, checkout, UpdatesInv, Installed
<1>2. CASE Boot
  BY <1>2 DEF Boot, Installs
<1>3. CASE ~Exec /\ ~Boot
  BY <1>3 DEF BUNext, Publish, Poll, TakeUpdate, PullStep, CheckoutStep, PipStep, Kill, CliTree, CliPip, SendUpdate
<1>4. QED
  BY <1>1, <1>2, <1>3

\* Redelivered updates and half-done installations do no harm: every update is
\* handled at most once, and a process starts only with its requirements
\* installed.
THEOREM UpdatesAreSafe == BUSpec => UpdatesSafe
<1>1. UpdatesInv => BUTypeOK /\ AtMostOnce
  <2>1. UpdatesInv => \A u \in 1 .. sent : u \in 1 .. MaxUpdates
    BY BUAssumption, TypeInParts DEF UpdatesInv, TelegramOK
  <2>2. QED
    BY <2>1 DEF UpdatesInv, Guarded, AtMostOnce
<1>2. UpdatesInv /\ [BUNext]_buvars => [running' \notin {0, running} => deps' = running' \/ overlap # {}]_buvars
  BY StepStarts
<1>3. QED
  BY <1>1, <1>2, InitUpdates, StepUpdates, PTL DEF BUSpec, UpdatesSafe, StartsInstalled

-------------------------------------------------------------------------------
\* The plugin host.

\* The types of the plugin host but for its one Boolean, which is told apart.
PHTypes ==
  /\ edits \in 0 .. MaxEdits /\ disk \in [Plugins -> 0 .. MaxEdits] /\ kindOf \in [1 .. MaxEdits -> Edits]
  /\ modules \in [Plugins -> Mixtures] /\ imported \in [Plugins -> Mixtures]
  /\ goodTools \in [Plugins -> Mixtures] /\ tools = goodTools
  /\ mtimes \in [Plugins -> 0 .. MaxEdits] /\ todo \subseteq Plugins /\ at \in todo \cup {NoMod}
  /\ stat \in 0 .. MaxEdits /\ stale \subseteq Plugins

\* What was seen of a file is not newer than the last edit.
NotNewer == stat <= edits /\ \A p \in Plugins : disk[p] <= edits /\ mtimes[p] <= edits

\* The file is there and its present version loads and builds.
Good(p) == disk[p] # 0 /\ kindOf[disk[p]] = "good"

\* A module whose mtime is that of a good file is that file, whole: a broken
\* reload in between keeps its old mtime, an edit after the stat has a newer one.
Agreed ==
  \A p \in Plugins :
    p \notin stale /\ modules[p] # NoMod /\ mtimes[p] = disk[p] /\ Good(p) => modules[p] = [top |-> disk[p], build |-> disk[p]]

\* While nobody edits, a scan leaves every good file it has done loaded as it is.
QuietScan ==
  quiet =>
    /\ at # NoMod => stat = disk[at]
    /\ \A p \in Plugins : Good(p) => p \in todo \/ (modules[p] # NoMod /\ mtimes[p] = disk[p])

\* After a quiet scan the tools are those that the modules built.
Swapped ==
  todo = {} /\ quiet =>
    \A p \in Plugins : modules[p] # NoMod /\ modules[p].build # 0 /\ Builds(modules[p]) => tools[p] = modules[p]

\* A plugin with tools has a module with a build(), but for the time between the
\* loss of its file and the swap at the end of that scan.
Working ==
  \A p \in Plugins : tools[p] # NoMod =>
     \/ modules[p] # NoMod /\ modules[p].build # 0
     \/ modules[p] = NoMod /\ p \notin todo /\ todo # {}

\* The inductive invariant of the plugin host.
PHInv == PHTypes /\ NotNewer /\ Agreed /\ QuietScan /\ Swapped /\ Working

\* The one Boolean.
QuietTold == quiet \in BOOLEAN

\* No plugin is loaded before the first scan.
LEMMA PHStarts == PHInit => PHInv /\ QuietTold
<1>. SUFFICES ASSUME PHInit PROVE PHInv /\ QuietTold
  OBVIOUS
<1>1. PHTypes
  BY PHAssumption DEF PHInit, PHTypes, Mixtures, Edits
<1>2. NotNewer /\ Agreed /\ Working
  BY DEF PHInit, NotNewer, Agreed, Working
<1>3. quiet = FALSE
  BY DEF PHInit
<1>. QED
  BY <1>1, <1>2, <1>3 DEF PHInv, QuietScan, Swapped, QuietTold

\* A module that is there has a version of its statements and one of its build().
LEMMA MixtureParts == 
  ASSUME NEW m \in Mixtures, m # NoMod
  PROVE  m \in [top : 1 .. MaxEdits, build : 0 .. MaxEdits] /\ m.top \in 1 .. MaxEdits /\ m.build \in 0 .. MaxEdits
  BY DEF Mixtures

\* Executing a file leaves a module with a build() if there was one, and of a good
\* file the whole file.
LEMMA ExecutedMixes ==
  ASSUME PHTypes, NEW v \in 0 .. MaxEdits, NEW old \in Mixtures
  PROVE  /\ Executed(v, old) \in Mixtures
         /\ ~Raises(v) => Executed(v, old) # NoMod
         /\ old # NoMod => Executed(v, old) # NoMod /\ (old.build # 0 => Executed(v, old).build # 0)
         /\ v # 0 /\ kindOf[v] = "good" => ~Raises(v) /\ Executed(v, old) = [top |-> v, build |-> v]
<1>1. v = 0 \/ (v \in 1 .. MaxEdits /\ kindOf[v] \in Edits)
  BY PHAssumption DEF PHTypes
<1>2. CASE v = 0 \/ kindOf[v] = "syntax"
  BY <1>1, <1>2 DEF Executed, Raises
<1>3. CASE v # 0 /\ kindOf[v] # "syntax"
  <2>. DEFINE b == IF kindOf[v] \notin {"raises", "nobuild"} THEN v ELSE IF old = NoMod THEN 0 ELSE old.build
  <2>1. Executed(v, old) = [top |-> v, build |-> b]
    BY <1>3 DEF Executed
  <2>2. b \in 0 .. MaxEdits /\ (old # NoMod /\ old.build # 0 => b # 0)
    BY <1>1, <1>3, MixtureParts, PHAssumption
  <2>3. [top |-> v, build |-> b] \in Mixtures /\ [top |-> v, build |-> b] # NoMod
    BY <1>1, <1>3, <2>2, PHAssumption DEF Mixtures
  <2>4. kindOf[v] = "good" => ~Raises(v) /\ b = v
    BY <1>3 DEF Raises
  <2>. HIDE DEF b
  <2>. QED
    BY <1>3, <2>1, <2>2, <2>3, <2>4
<1>. QED
  BY <1>2, <1>3

\* What a load does to the plugin it loads, and that it leaves the others alone.
LEMMA LoadDoes ==
  ASSUME PHTypes, NEW p \in Plugins, Load(p)
  PROVE  /\ modules' \in [Plugins -> Mixtures] /\ imported' \in [Plugins -> Mixtures]
         /\ mtimes' \in [Plugins -> 0 .. MaxEdits] /\ stale' \subseteq Plugins
         /\ \A q \in Plugins : q # p => modules'[q] = modules[q] /\ mtimes'[q] = mtimes[q] /\ (q \in stale' <=> q \in stale)
         /\ mtimes'[p] \in {mtimes[p], stat}
         /\ modules[p] # NoMod /\ modules[p].build # 0 => modules'[p] # NoMod /\ modules'[p].build # 0
         /\ \/ p \in stale' /\ modules'[p] # NoMod /\ mtimes'[p] = stat
            \/ modules'[p] = Executed(disk[p], modules[p]) /\ modules'[p] # NoMod /\ mtimes'[p] = stat /\ ~Raises(disk[p])
            \/ Raises(disk[p]) /\ mtimes' = mtimes
            \/ UNCHANGED <<modules, mtimes, stale>> /\ modules[p] # NoMod /\ mtimes[p] = stat
<1>. USE DEF Read
<1>0. disk[p] \in 0 .. MaxEdits /\ modules[p] \in Mixtures /\ imported[p] \in Mixtures /\ stat \in 0 .. MaxEdits /\ NoMod \in Mixtures
  BY DEF PHTypes, Mixtures
<1>1. CASE modules[p] = NoMod /\ imported[p] # NoMod
  <2>1. modules' = [modules EXCEPT ![p] = imported[p]] /\ mtimes' = [mtimes EXCEPT ![p] = stat]
        /\ stale' = stale \cup {p} /\ UNCHANGED imported
    BY <1>1 DEF Load, Import
  <2>. QED
    BY <1>0, <1>1, <2>1 DEF PHTypes
<1>2. CASE modules[p] = NoMod /\ imported[p] = NoMod /\ Raises(disk[p])
  BY <1>0, <1>2 DEF Load, Import, PHTypes
<1>3. CASE modules[p] = NoMod /\ imported[p] = NoMod /\ ~Raises(disk[p])
  <2>1. Executed(disk[p], NoMod) \in Mixtures /\ Executed(disk[p], NoMod) # NoMod
    BY <1>0, <1>3, ExecutedMixes
  <2>2. modules' = [modules EXCEPT ![p] = Executed(disk[p], NoMod)] /\ imported' = [imported EXCEPT ![p] = modules'[p]]
        /\ mtimes' = [mtimes EXCEPT ![p] = stat] /\ UNCHANGED stale
    BY <1>3 DEF Load, Import
  <2>. QED
    BY <1>0, <1>3, <2>1, <2>2 DEF PHTypes
<1>4. CASE modules[p] # NoMod /\ mtimes[p] = stat
  BY <1>0, <1>4 DEF Load, PHTypes
<1>5. CASE modules[p] # NoMod /\ mtimes[p] # stat
  <2>1. Executed(disk[p], modules[p]) \in Mixtures /\ Executed(disk[p], modules[p]) # NoMod
        /\ (modules[p].build # 0 => Executed(disk[p], modules[p]).build # 0)
    BY <1>0, <1>5, ExecutedMixes
  <2>2. modules' = [modules EXCEPT ![p] = Executed(disk[p], modules[p])] /\ imported' = [imported EXCEPT ![p] = modules'[p]]
        /\ IF Raises(disk[p]) THEN UNCHANGED <<mtimes, stale>> ELSE mtimes' = [mtimes EXCEPT ![p] = stat] /\ stale' = stale \ {p}
    BY <1>5 DEF Load, Reload
  <2>. QED
    BY <1>0, <1>5, <2>1, <2>2 DEF PHTypes
<1>. QED
  BY <1>1, <1>2, <1>3, <1>4, <1>5

\* The swap at the end of a scan.
LEMMA SwapDoes ==
  ASSUME PHTypes, modules' \in [Plugins -> Mixtures], Swap
  PROVE  /\ goodTools' \in [Plugins -> Mixtures] /\ tools' = goodTools'
         /\ todo' # {} => tools' = tools
         /\ todo' = {} => \A p \in Plugins :
              /\ tools'[p] # NoMod => modules'[p] # NoMod /\ modules'[p].build # 0
              /\ modules'[p] # NoMod /\ modules'[p].build # 0 /\ Builds(modules'[p]) => tools'[p] = modules'[p]
              /\ tools[p] # NoMod /\ tools'[p] = NoMod => modules'[p] = NoMod \/ modules'[p].build = 0
<1>1. CASE todo' # {}
  BY <1>1 DEF Swap, PHTypes
<1>2. CASE todo' = {}
  <2>1. goodTools' = [p \in Plugins |-> GoodAfter(p, modules'[p])] /\ tools' = goodTools'
    BY <1>2 DEF Swap
  <2>2. \A p \in Plugins : GoodAfter(p, modules'[p]) \in Mixtures
    BY DEF GoodAfter, PHTypes, Mixtures
  <2>. QED
    BY <1>2, <2>1, <2>2 DEF GoodAfter, PHTypes
<1>. QED
  BY <1>1, <1>2

\* Every action keeps the types and the order of versions.
LEMMA PHTypesKept ==
  ASSUME PHInv, [PHNext]_phvars
  PROVE  PHTypes' /\ NotNewer'
<1>0. PHTypes /\ NotNewer /\ MaxEdits \in Nat
  BY PHAssumption DEF PHInv
<1>1. ASSUME NEW p \in Plugins, Edit(p) PROVE PHTypes' /\ NotNewer'
  <2>1. edits + 1 \in 1 .. MaxEdits /\ edits \in Nat
    BY <1>0, <1>1 DEF Edit, PHTypes
  <2>2. PICK k \in Edits : kindOf' = [kindOf EXCEPT ![edits + 1] = k]
    BY <1>1 DEF Edit
  <2>3. PHTypes'
    BY <1>0, <1>1, <2>1, <2>2 DEF Edit, PHTypes
  <2>4. \A q \in Plugins : disk[q] \in Nat /\ mtimes[q] \in Nat /\ disk'[q] \in {disk[q], edits + 1} /\ mtimes'[q] = mtimes[q]
    BY <1>0, <1>1 DEF Edit, PHTypes
  <2>5. stat \in Nat /\ stat' = stat /\ edits' = edits + 1
    BY <1>0, <1>1 DEF Edit, PHTypes
  <2>. QED
    BY <1>0, <2>1, <2>3, <2>4, <2>5 DEF NotNewer
<1>2. ASSUME NEW p \in Plugins, Unlink(p) PROVE PHTypes' /\ NotNewer'
  BY <1>0, <1>2 DEF Unlink, PHTypes, NotNewer
<1>3. CASE Scan
  <2>1. modules' \in [Plugins -> Mixtures] /\ mtimes' \in [Plugins -> 0 .. MaxEdits] /\ todo' \subseteq Plugins /\ Swap
    BY <1>0, <1>3 DEF Scan, PHTypes, Mixtures, Present
  <2>2. PHTypes'
    BY <1>0, <1>3, <2>1, SwapDoes DEF Scan, PHTypes
  <2>3. \A q \in Plugins : mtimes'[q] \in {mtimes[q], 0}
    BY <1>3 DEF Scan
  <2>. QED
    BY <1>0, <1>3, <2>2, <2>3 DEF Scan, NotNewer, PHTypes
<1>4. ASSUME NEW p \in Plugins, Stat(p) PROVE PHTypes' /\ NotNewer'
  <2>1. CASE disk[p] = 0
    <3>1. modules' \in [Plugins -> Mixtures] /\ Swap /\ todo' = todo \ {p} /\ UNCHANGED <<disk, kindOf, edits, modules, imported, mtimes, stale, at, stat>>
      BY <1>0, <1>4, <2>1 DEF Stat, PHTypes
    <3>2. at' = NoMod
      BY <1>4, <2>1 DEF Stat
    <3>. QED
      BY <1>0, <3>1, <3>2, SwapDoes DEF PHTypes, NotNewer
  <2>2. CASE disk[p] # 0
    BY <1>0, <1>4, <2>2 DEF Stat, PHTypes, NotNewer
  <2>. QED
    BY <2>1, <2>2
<1>5. ASSUME NEW p \in Plugins, Load(p) PROVE PHTypes' /\ NotNewer'
  <2>1. /\ modules' \in [Plugins -> Mixtures] /\ imported' \in [Plugins -> Mixtures]
        /\ mtimes' \in [Plugins -> 0 .. MaxEdits] /\ stale' \subseteq Plugins
        /\ \A q \in Plugins : mtimes'[q] \in {mtimes[q], stat}
    BY <1>0, <1>5, LoadDoes
  <2>2. Swap /\ todo' = todo \ {p} /\ at' = NoMod /\ UNCHANGED <<disk, kindOf, edits, stat>>
    BY <1>5 DEF Load
  <2>3. goodTools' \in [Plugins -> Mixtures] /\ tools' = goodTools'
    BY <1>0, <2>1, <2>2, SwapDoes
  <2>. QED
    BY <1>0, <2>1, <2>2, <2>3 DEF PHTypes, NotNewer
<1>6. CASE UNCHANGED phvars
  BY <1>0, <1>6 DEF phvars, PHTypes, NotNewer
<1>. QED
  BY <1>1, <1>2, <1>3, <1>4, <1>5, <1>6 DEF PHNext


\* Every action keeps modules and files agreed.
LEMMA AgreedKept ==
  ASSUME PHInv, [PHNext]_phvars
  PROVE  Agreed' /\ QuietScan'
<1>0. PHTypes /\ NotNewer /\ Agreed /\ QuietScan /\ edits \in Nat /\ \A p \in Plugins : disk[p] \in 0 .. MaxEdits /\ mtimes[p] # edits + 1
      /\ disk[p] # edits + 1
  <2>1. PHTypes /\ NotNewer /\ Agreed /\ QuietScan /\ edits \in Nat
    BY PHAssumption DEF PHInv, PHTypes
  <2>2. \A p \in Plugins : disk[p] \in Nat /\ mtimes[p] \in Nat /\ disk[p] <= edits /\ mtimes[p] <= edits
    BY <2>1, PHAssumption DEF PHTypes, NotNewer
  <2>. QED
    BY <2>1, <2>2 DEF PHTypes
<1>1. ASSUME NEW p \in Plugins, Edit(p) PROVE Agreed' /\ QuietScan'
  <2>1. PICK k \in Edits : kindOf' = [kindOf EXCEPT ![edits + 1] = k]
    BY <1>1 DEF Edit
  <2>2. disk' = [disk EXCEPT ![p] = edits + 1] /\ UNCHANGED <<modules, mtimes, stale>> /\ quiet' = FALSE
    BY <1>1 DEF Edit
  <2>3. disk'[p] = edits + 1 /\ \A q \in Plugins : q # p => disk'[q] = disk[q]
    BY <1>0, <2>2 DEF PHTypes
  <2>4. \A q \in Plugins : q # p => (Good(q)' <=> Good(q))
    BY <1>0, <2>1, <2>3 DEF Good, PHTypes
  <2>. QED
    BY <1>0, <2>2, <2>3, <2>4 DEF Agreed, QuietScan
<1>2. ASSUME NEW p \in Plugins, Unlink(p) PROVE Agreed' /\ QuietScan'
  <2>1. disk' = [disk EXCEPT ![p] = 0] /\ UNCHANGED <<kindOf, modules, mtimes, stale>> /\ quiet' = FALSE
    BY <1>2 DEF Unlink
  <2>. QED
    BY <1>0, <2>1 DEF Agreed, QuietScan, Good, PHTypes
<1>3. CASE Scan
  <2>1. \A q \in Plugins : disk[q] # 0 => q \in todo' /\ modules'[q] = modules[q] /\ mtimes'[q] = mtimes[q]
    BY <1>3 DEF Scan, Present
  <2>2. UNCHANGED <<disk, kindOf, stale, at>> /\ at = NoMod
    BY <1>0, <1>3 DEF Scan, PHTypes
  <2>. QED
    BY <1>0, <2>1, <2>2 DEF Agreed, QuietScan, Good
<1>4. ASSUME NEW p \in Plugins, Stat(p) PROVE Agreed' /\ QuietScan'
  <2>1. UNCHANGED <<disk, kindOf, modules, mtimes, stale, quiet>> /\ at = NoMod
    BY <1>4 DEF Stat
  <2>2. disk[p] = 0 => at' = at /\ todo' = todo \ {p}
    BY <1>4 DEF Stat
  <2>3. disk[p] # 0 => at' = p /\ stat' = disk[p] /\ todo' = todo
    BY <1>4 DEF Stat
  <2>. QED
    BY <1>0, <2>1, <2>2, <2>3 DEF Agreed, QuietScan, Good
<1>5. ASSUME NEW p \in Plugins, Load(p) PROVE Agreed' /\ QuietScan'
  <2>1. UNCHANGED <<disk, kindOf, quiet>> /\ at = p /\ at' = NoMod /\ todo' = todo \ {p} /\ p # NoMod
    BY <1>5, PHAssumption DEF Load
  <2>2. \A q \in Plugins : q # p => modules'[q] = modules[q] /\ mtimes'[q] = mtimes[q] /\ (q \in stale' <=> q \in stale)
    BY <1>0, <1>5, LoadDoes
  <2>3. /\ mtimes'[p] \in {mtimes[p], stat}
        /\ \/ p \in stale' /\ modules'[p] # NoMod /\ mtimes'[p] = stat
           \/ modules'[p] = Executed(disk[p], modules[p]) /\ modules'[p] # NoMod /\ mtimes'[p] = stat /\ ~Raises(disk[p])
           \/ Raises(disk[p]) /\ mtimes' = mtimes
           \/ UNCHANGED <<modules, mtimes, stale>> /\ modules[p] # NoMod /\ mtimes[p] = stat
    BY <1>0, <1>5, LoadDoes
  <2>4. Good(p) => ~Raises(disk[p]) /\ Executed(disk[p], modules[p]) = [top |-> disk[p], build |-> disk[p]]
    BY <1>0, ExecutedMixes DEF Good, PHTypes
  <2>5. \A q \in Plugins : Good(q)' <=> Good(q)
    BY <2>1 DEF Good
  <2>6. Agreed'
    BY <1>0, <2>1, <2>2, <2>3, <2>4, <2>5 DEF Agreed
  <2>7. ASSUME quiet' PROVE \A q \in Plugins : Good(q) => q \in todo' \/ (modules'[q] # NoMod /\ mtimes'[q] = disk[q])
    <3>1. quiet /\ stat = disk[p]
      BY <1>0, <2>1, <2>7 DEF QuietScan
    <3>2. Good(p) => modules'[p] # NoMod /\ mtimes'[p] = disk[p]
      BY <2>3, <2>4, <3>1
    <3>. QED
      BY <1>0, <2>1, <2>2, <3>1, <3>2 DEF QuietScan
  <2>. QED
    BY <2>1, <2>5, <2>6, <2>7 DEF QuietScan
<1>6. CASE UNCHANGED phvars
  BY <1>0, <1>6 DEF phvars, Agreed, QuietScan, Good
<1>. QED
  BY <1>1, <1>2, <1>3, <1>4, <1>5, <1>6 DEF PHNext

\* After the last file the tools are those of the modules, and nothing but the
\* loss of its module takes the tools of a plugin away.
LEMMA ToolsKept ==
  ASSUME PHInv, [PHNext]_phvars
  PROVE  /\ Swapped' /\ Working'
         /\ \A p \in Plugins : tools[p] # NoMod /\ tools'[p] = NoMod => modules'[p] = NoMod
<1>. DEFINE Kept == \A p \in Plugins : tools[p] # NoMod /\ tools'[p] = NoMod => modules'[p] = NoMod
<1>0. PHTypes /\ Swapped /\ Working
  BY DEF PHInv
<1>1. ASSUME quiet' = FALSE, UNCHANGED <<tools, modules, todo>> PROVE Swapped' /\ Working' /\ Kept
  BY <1>0, <1>1 DEF Swapped, Working
<1>2. ASSUME NEW p \in Plugins, Edit(p) \/ Unlink(p) PROVE Swapped' /\ Working' /\ Kept
  BY <1>1, <1>2 DEF Edit, Unlink
<1>3. ASSUME modules' \in [Plugins -> Mixtures], Swap, UNCHANGED kindOf,
             \A p \in Plugins : tools[p] # NoMod =>
               \/ modules'[p] # NoMod /\ modules'[p].build # 0
               \/ modules'[p] = NoMod /\ p \notin todo'
      PROVE  Swapped' /\ Working' /\ Kept
  <2>1. CASE todo' # {}
    <3>1. tools' = tools
      BY <1>0, <1>3, <2>1, SwapDoes
    <3>. QED
      BY <1>3, <2>1, <3>1 DEF Swapped, Working
  <2>2. CASE todo' = {}
    <3>1. \A p \in Plugins :
              /\ tools'[p] # NoMod => modules'[p] # NoMod /\ modules'[p].build # 0
              /\ modules'[p] # NoMod /\ modules'[p].build # 0 /\ Builds(modules'[p]) => tools'[p] = modules'[p]
              /\ tools[p] # NoMod /\ tools'[p] = NoMod => modules'[p] = NoMod \/ modules'[p].build = 0
      BY <1>0, <1>3, <2>2, SwapDoes
    <3>2. \A p \in Plugins : Builds(modules'[p]) <=> Builds(modules[p])'
      BY <1>3 DEF Builds
    <3>. QED
      BY <1>3, <2>2, <3>1, <3>2 DEF Swapped, Working
  <2>. QED
    BY <2>1, <2>2
<1>4. CASE Scan
  <2>1. modules' \in [Plugins -> Mixtures] /\ Swap /\ UNCHANGED kindOf /\ todo = {}
    BY <1>0, <1>4 DEF Scan, PHTypes, Mixtures
  <2>2. \A p \in Plugins : (modules'[p] = modules[p] /\ p \in todo') \/ (modules'[p] = NoMod /\ p \notin todo')
    BY <1>4 DEF Scan, Present
  <2>. QED
    BY <1>0, <1>3, <2>1, <2>2 DEF Working
<1>5. ASSUME NEW p \in Plugins, Stat(p) PROVE Swapped' /\ Working' /\ Kept
  <2>1. CASE disk[p] = 0
    <3>1. modules' = modules /\ modules' \in [Plugins -> Mixtures] /\ Swap /\ UNCHANGED kindOf /\ todo' = todo \ {p}
      BY <1>0, <1>5, <2>1 DEF Stat, PHTypes
    <3>. QED
      BY <1>0, <1>3, <3>1 DEF Working
  <2>2. CASE disk[p] # 0
    BY <1>0, <1>5, <2>2 DEF Stat, Swapped, Working, Builds
  <2>. QED
    BY <2>1, <2>2
<1>6. ASSUME NEW p \in Plugins, Load(p) PROVE Swapped' /\ Working' /\ Kept
  <2>1. Swap /\ UNCHANGED kindOf /\ todo' = todo \ {p} /\ p \in todo
    BY <1>0, <1>6, PHAssumption DEF Load, PHTypes
  <2>2. modules' \in [Plugins -> Mixtures] /\ (\A q \in Plugins : q # p => modules'[q] = modules[q])
        /\ (modules[p] # NoMod /\ modules[p].build # 0 => modules'[p] # NoMod /\ modules'[p].build # 0)
    BY <1>0, <1>6, LoadDoes
  <2>. QED
    BY <1>0, <1>3, <2>1, <2>2 DEF Working
<1>7. CASE UNCHANGED phvars
  BY <1>0, <1>7 DEF phvars, Swapped, Working, Builds
<1>. QED
  BY <1>2, <1>4, <1>5, <1>6, <1>7 DEF PHNext

\* The one Boolean stays one.
LEMMA QuietIsTruth == QuietTold /\ [PHNext]_phvars => QuietTold'
  BY Zenon DEF QuietTold, PHNext, phvars, Edit, Unlink, Scan, Stat, Load

\* The inductive invariant says what a scan promises.
LEMMA PHInvSuffices == PHInv /\ QuietTold => PHTypeOK /\ FreshAfterScan
<1>. SUFFICES ASSUME PHInv, quiet \in BOOLEAN PROVE PHTypeOK /\ FreshAfterScan
  BY DEF QuietTold
<1>1. PHTypes /\ Agreed /\ QuietScan /\ Swapped
  BY DEF PHInv
<1>2. \A f \in {modules, imported, goodTools, tools} : f \in [Plugins -> Mixtures]
  BY <1>1 DEF PHTypes
<1>3. PHTypeOK
  BY <1>1, <1>2 DEF PHTypeOK, PHTypes
<1>4. ASSUME NEW p \in Plugins, Scanned(p), p \notin stale PROVE Current(p)
  <2>1. todo = {} /\ quiet /\ Good(p) /\ disk[p] # 0 /\ kindOf[disk[p]] = "good"
    BY <1>4 DEF Scanned, Good
  <2>2. modules[p] # NoMod /\ mtimes[p] = disk[p]
    BY <1>1, <2>1 DEF QuietScan
  <2>3. modules[p] = [top |-> disk[p], build |-> disk[p]]
    BY <1>1, <1>4, <2>1, <2>2 DEF Agreed
  <2>4. modules[p].build = disk[p] /\ Builds(modules[p])
    BY <2>1, <2>3 DEF Builds
  <2>5. tools[p] = modules[p]
    BY <1>1, <2>1, <2>2, <2>4 DEF Swapped
  <2>. QED
    BY <2>3, <2>5 DEF Current
<1>. QED
  BY <1>3, <1>4 DEF FreshAfterScan

\* Whatever is edited, removed or broken, and whenever: after a scan that no edit
\* disturbed a good file has its own tools, whole, and no edit takes the tools of
\* a plugin away while it has a module (plugin_manager.py, _loader.py).
THEOREM PluginsAreSound == PHSpec => PluginsSound
<1>1. PHInv /\ [PHNext]_phvars => PHInv'
  BY PHTypesKept, AgreedKept, ToolsKept DEF PHInv
<1>2. PHInv /\ [PHNext]_phvars => [\A p \in Plugins : tools[p] # NoMod /\ tools'[p] = NoMod => modules'[p] = NoMod]_phvars
  BY ToolsKept
<1>3. PHSpec => []PHInv /\ []QuietTold
  BY <1>1, PHStarts, QuietIsTruth, PTL DEF PHSpec
<1>4. PHSpec => []PHTypeOK /\ []FreshAfterScan
  BY <1>3, PHInvSuffices, PTL
<1>5. PHSpec => WorkingToolsKept
  BY <1>2, <1>3, PTL DEF PHSpec, WorkingToolsKept
<1>. QED
  BY <1>4, <1>5 DEF PluginsSound

-------------------------------------------------------------------------------
\* The runtime and the coordination hub.

\* Whether an admin is configured is told once.
AdminTold == admin \in BOOLEAN

\* The types of the runtime but for its one Boolean.
BRTypes ==
  /\ brPhase \in {"store", "warm", "up", "drain", "down"}
  /\ warm \subseteq Warmups /\ posts \in 0 .. MaxPosts /\ big \subseteq 1 .. posts /\ acked \in 0 .. posts
  /\ poller \in {"off", "asleep", "waiting", "turn", "reply", "ack"} /\ upto \in 0 .. posts
  /\ answer \in {"none", "text", "empty"} /\ lock \in {"free", "user", "notice", "coord"}
  /\ turns \in 0 .. MaxTurns /\ background \in Nat /\ snapshot \in 0 .. background /\ lost \in Nat
  /\ shown \subseteq 1 .. posts /\ unsent \subseteq 1 .. posts /\ failures \in 0 .. MaxFailures
  /\ stops \in 0 .. MaxStops

\* A batch is not empty, its turn ends in an answer, and it is shown before it is
\* acknowledged.
Batched ==
  /\ poller \in {"waiting", "turn", "reply", "ack"} => acked < upto
  /\ poller = "reply" => answer # "none"
  /\ admin /\ poller = "ack" => acked + 1 .. upto \subseteq shown \cup unsent

\* The inductive invariant of the runtime.
BRInv == BRTypes /\ Batched /\ CoordSeen

\* Nothing is acknowledged before the bot starts.
LEMMA BRStarts == BRInit => BRInv /\ AdminTold
<1>. SUFFICES ASSUME BRInit PROVE BRInv /\ AdminTold
  OBVIOUS
<1>1. BRTypes
  BY BRAssumption DEF BRInit, BRTypes
<1>2. Batched /\ acked = 0 /\ AdminTold
  BY DEF BRInit, Batched, AdminTold
<1>3. CoordSeen
  BY <1>2 DEF CoordSeen
<1>. QED
  BY <1>1, <1>2, <1>3 DEF BRInv

\* Failures are counted up to their bound.
LEMMA FailureCounts ==
  ASSUME failures \in 0 .. MaxFailures, Failing \/ UNCHANGED failures
  PROVE  failures' \in 0 .. MaxFailures
  BY BRAssumption DEF Failing

\* No action tells the admin anew.
LEMMA AdminStays == AdminTold /\ [BRNext]_brvars => AdminTold' /\ UNCHANGED admin
<1>. USE DEF lifecycle
<1>1. BRNext => UNCHANGED admin
  BY DEF BRNext, Poller, WarmStore, Started, WarmUp, Post, TakeLock, TurnEnds, BackgroundEnds, Fetch, CoordTurn,
         CoordTurnEnds, SendReply, Ack, StopAsked, Drained, Crash, StartAgain, Ended
<1>2. UNCHANGED brvars => UNCHANGED admin
  BY DEF brvars
<1>. QED
  BY <1>1, <1>2 DEF AdminTold

\* Every action keeps the invariant.
LEMMA BRStep == BRInv /\ UNCHANGED admin /\ [BRNext]_brvars => BRInv'
<1>. SUFFICES ASSUME BRInv, UNCHANGED admin, [BRNext]_brvars PROVE BRInv'
  OBVIOUS
<1>. USE DEF lifecycle, hub, polling, conversation, history
<1>0. BRTypes /\ Batched /\ CoordSeen /\ posts \in Nat /\ acked \in Nat /\ upto \in Nat /\ acked <= posts /\ upto <= posts /\ background \in Nat /\ snapshot \in Nat /\ snapshot <= background
  BY BRAssumption DEF BRInv, BRTypes
<1>1. ASSUME UNCHANGED <<posts, big, acked, poller, upto, answer, shown, unsent>>, BRTypes' PROVE BRInv'
  BY <1>0, <1>1 DEF BRInv, Batched, CoordSeen
<1>2. CASE WarmStore \/ StartAgain
  BY <1>0, <1>1, <1>2 DEF WarmStore, StartAgain, BRTypes
<1>3. ASSUME NEW w \in Warmups, WarmUp(w) PROVE BRInv'
  BY <1>0, <1>1, <1>3, FailureCounts DEF WarmUp, BRTypes, MayFail
<1>4. CASE Started
  BY <1>0, <1>4 DEF Started, BRTypes, BRInv, Batched, CoordSeen
<1>5. ASSUME NEW b \in BOOLEAN, Post(b) PROVE BRInv'
  <2>1. posts' = posts + 1 /\ posts' \in 0 .. MaxPosts /\ 1 .. posts \subseteq 1 .. posts' /\ 0 .. posts \subseteq 0 .. posts'
    BY <1>0, <1>5, BRAssumption DEF Post
  <2>2. big' \subseteq 1 .. posts'
    BY <1>0, <1>5, <2>1 DEF Post, BRTypes
  <2>. QED
    BY <1>0, <1>5, <2>1, <2>2 DEF Post, BRTypes, BRInv, Batched, CoordSeen
<1>6. ASSUME NEW who \in {"user", "notice"}, TakeLock(who) \/ TurnEnds(who) PROVE BRInv'
  <2>1. turns' \in 0 .. MaxTurns
    BY <1>0, <1>6, BRAssumption DEF TakeLock, TurnEnds, BRTypes
  <2>2. background' \in {background, background + 1} /\ snapshot' = snapshot
    BY <1>6 DEF TakeLock, TurnEnds, TurnLeaves
  <2>3. background' \in Nat /\ snapshot' \in 0 .. background'
    BY <1>0, <2>2
  <2>4. failures' \in 0 .. MaxFailures
    BY <1>0, <1>6, FailureCounts DEF TakeLock, TurnEnds, BRTypes
  <2>. QED
    BY <1>0, <1>1, <1>6, <2>1, <2>3, <2>4 DEF TakeLock, TurnEnds, BRTypes
<1>7. CASE BackgroundEnds
  <2>1. background' \in Nat /\ snapshot' \in 0 .. background'
    BY <1>0, <1>7 DEF BackgroundEnds
  <2>. QED
    BY <1>0, <1>1, <1>7, <2>1 DEF BackgroundEnds, BRTypes
<1>8. CASE Fetch
  <2>1. failures' \in 0 .. MaxFailures
    BY <1>0, <1>8, FailureCounts DEF Fetch, BRTypes
  <2>2. \/ poller' = "waiting" /\ upto' \in acked + 1 .. posts
        \/ poller' = "asleep" /\ UNCHANGED upto
    BY <1>8 DEF Fetch
  <2>3. upto' \in 0 .. posts /\ (poller' = "waiting" => acked < upto')
    BY <1>0, <2>2 DEF BRTypes
  <2>. QED
    BY <1>0, <1>8, <2>1, <2>2, <2>3 DEF Fetch, BRTypes, BRInv, Batched, CoordSeen
<1>9. CASE CoordTurn
  BY <1>0, <1>9 DEF CoordTurn, BRTypes, BRInv, Batched, CoordSeen
<1>10. CASE CoordTurnEnds
  <2>1. failures' \in 0 .. MaxFailures
    BY <1>0, <1>10, FailureCounts DEF CoordTurnEnds, BRTypes
  <2>2. background' \in {background, background + 1} /\ snapshot' = snapshot
    BY <1>10 DEF CoordTurnEnds, TurnLeaves
  <2>3. background' \in Nat /\ snapshot' \in 0 .. background'
    BY <1>0, <2>2
  <2>. QED
    BY <1>0, <1>10, <2>1, <2>3 DEF CoordTurnEnds, BRTypes, BRInv, Batched, CoordSeen
<1>11. CASE SendReply
  <2>1. failures' \in 0 .. MaxFailures
    BY <1>0, <1>11, FailureCounts DEF SendReply, BRTypes
  <2>2. \/ shown' = shown \cup (acked + 1 .. upto) /\ unsent' = unsent
        \/ unsent' = unsent \cup (acked + 1 .. upto) /\ shown' = shown
    BY <1>0, <1>11 DEF SendReply, Says, Batched
  <2>3. acked + 1 .. upto \subseteq 1 .. posts
    BY <1>0
  <2>4. shown' \subseteq 1 .. posts /\ unsent' \subseteq 1 .. posts
    BY <1>0, <2>2, <2>3 DEF BRTypes
  <2>5. shown \cup unsent \subseteq shown' \cup unsent' /\ acked + 1 .. upto \subseteq shown' \cup unsent'
    BY <2>2
  <2>6. BRTypes'
    BY <1>0, <1>11, <2>1, <2>4 DEF SendReply, BRTypes
  <2>. QED
    BY <1>0, <1>11, <2>5, <2>6 DEF SendReply, BRInv, Batched, CoordSeen
<1>12. CASE Ack
  <2>1. failures' \in 0 .. MaxFailures
    BY <1>0, <1>12, FailureCounts DEF Ack, BRTypes
  <2>2. acked' \in {acked, upto} /\ acked' \in 0 .. posts
    BY <1>0, <1>12 DEF Ack, BRTypes
  <2>3. BRTypes'
    BY <1>0, <1>12, <2>1, <2>2 DEF Ack, BRTypes
  <2>4. 1 .. upto \subseteq (1 .. acked) \cup (acked + 1 .. upto)
    BY <1>0
  <2>5. CoordSeen'
    BY <1>0, <1>12, <2>2, <2>4 DEF Ack, Batched, CoordSeen
  <2>. QED
    BY <1>12, <2>3, <2>5 DEF Ack, BRInv, Batched
<1>13. CASE StopAsked
  <2>1. stops' \in 0 .. MaxStops
    BY <1>0, <1>13, BRAssumption DEF StopAsked, BRTypes
  <2>. QED
    BY <1>0, <1>1, <1>13, <2>1 DEF StopAsked, BRTypes
<1>14. ASSUME Ended, UNCHANGED stops, failures' \in 0 .. MaxFailures, lost' \in Nat PROVE BRInv'
  <2>1. BRTypes'
    BY <1>0, <1>14 DEF Ended, BRTypes
  <2>. QED
    BY <1>0, <1>14, <2>1 DEF Ended, BRInv, Batched, CoordSeen
<1>15. CASE Drained
  <2>1. failures' \in 0 .. MaxFailures /\ lost' \in Nat
    BY <1>0, <1>15 DEF Drained, BRTypes
  <2>. QED
    BY <1>14, <1>15, <2>1 DEF Drained
<1>16. CASE Crash
  <2>1. failures' \in 0 .. MaxFailures /\ lost' \in Nat
    BY <1>0, <1>16, FailureCounts DEF Crash, BRTypes
  <2>. QED
    BY <1>14, <1>16, <2>1 DEF Crash
<1>17. CASE UNCHANGED brvars
  BY <1>0, <1>1, <1>17 DEF brvars, BRTypes
<1>. QED
  BY <1>2, <1>3, <1>4, <1>5, <1>6, <1>7, <1>8, <1>9, <1>10, <1>11, <1>12, <1>13, <1>15, <1>16, <1>17 DEF BRNext, Poller

\* The invariant says that what was acknowledged was seen.
LEMMA BRInvSuffices == BRInv /\ AdminTold => BRTypeOK /\ CoordSeen
  BY DEF BRInv, BRTypes, AdminTold, BRTypeOK

\* Whatever fails, whoever holds the chat, and wherever the process stops or
\* crashes: no message of the hub is acknowledged that the admin has not been
\* shown, unless Telegram refused it (_coord_poller.py, bot.py).
THEOREM AdminHearsTheHub == BRSpec => []BRTypeOK /\ []CoordSeen
<1>1. BRInv /\ AdminTold /\ [BRNext]_brvars => BRInv' /\ AdminTold'
  BY BRStep, AdminStays
<1>. QED
  BY <1>1, BRStarts, BRInvSuffices, PTL DEF BRSpec

-------------------------------------------------------------------------------
(* A set of numbers that is not empty has a least one. *)
LEMMA LeastOf ==
  ASSUME NEW S, S \subseteq Nat, S # {}
  PROVE  \E i \in S : \A j \in S : i <= j
<1>1. PICK i \in S : \A j \in S : <<j, i>> \notin OpToRel(<, Nat)
  BY NatLessThanWellFounded, WFMin
<1>2. ASSUME NEW j \in S PROVE i <= j
  <2>1. ~(j < i) /\ i \in Nat /\ j \in Nat
    BY <1>1 DEF OpToRel
  <2>. QED
    BY <2>1
<1>. QED
  BY <1>2

(* How a sequence of sequences is strung together, one after the other: the
   least length for which there were no such function would be one more than a
   length for which there is. *)
Strings(g, s, n) == \A k \in 1 .. n : g[k] = IF k = 1 THEN s[1] ELSE g[k - 1] \o s[k]
LEMMA StringsExist ==
  ASSUME NEW s, NEW N \in Nat
  PROVE  \E g : Strings(g, s, N)
<1>. DEFINE bad == {n \in 0 .. N : ~\E g : Strings(g, s, n)}
<1>1. ASSUME bad # {} PROVE FALSE
  <2>1. bad \subseteq Nat
    OBVIOUS
  <2>2. PICK n \in bad : \A m \in bad : n <= m
    <3>. HIDE DEF bad
    <3>. QED
      BY <1>1, <2>1, LeastOf
  <2>3. n \in 0 .. N /\ n \in Nat
    BY <2>2
  <2>4. n # 0
    <3>1. Strings(<<>>, s, 0)
      BY DEF Strings
    <3>. QED
      BY <2>2, <3>1
  <2>5. n - 1 \in 0 .. N /\ ~(n <= n - 1)
    BY <2>3, <2>4
  <2>6. PICK g : Strings(g, s, n - 1)
    BY <2>2, <2>5
  <2>. DEFINE h == [k \in 1 .. n |-> IF k = n THEN (IF n = 1 THEN s[1] ELSE g[n - 1] \o s[n]) ELSE g[k]]
  <2>7. Strings(h, s, n)
    BY <2>3, <2>4, <2>6 DEF Strings
  <2>. QED
    BY <2>2, <2>7
<1>. QED
  BY <1>1

LEMMA FlattenString ==
  ASSUME NEW S, NEW s \in Seq(Seq(S)), s # <<>>
  PROVE  \E g : Strings(g, s, Len(s)) /\ FlattenSeq(s) = g[Len(s)]
<1>. DEFINE N == Len(s)
<1>1. N \in Nat /\ N # 0
  OBVIOUS
<1>2. PICK g : Strings(g, s, N)
  BY <1>1, StringsExist
<1>. DEFINE h == [i \in 1 .. N |-> g[i]]
<1>3. h = [i \in 1 .. N |-> IF i = 1 THEN s[i] ELSE h[i - 1] \o s[i]]
  BY <1>1, <1>2 DEF Strings
<1>. DEFINE flatten == CHOOSE f : f = [i \in 1 .. N |-> IF i = 1 THEN s[i] ELSE f[i - 1] \o s[i]]
<1>4. flatten = [i \in 1 .. N |-> IF i = 1 THEN s[i] ELSE flatten[i - 1] \o s[i]]
  <2>. HIDE DEF h
  <2>. QED
    BY <1>3
<1>5. FlattenSeq(s) = flatten[N]
  BY <1>1 DEF FlattenSeq
<1>6. Strings(flatten, s, N)
  <2>. HIDE DEF flatten
  <2>. QED
    BY <1>1, <1>4 DEF Strings
<1>. QED
  BY <1>5, <1>6

LEMMA FlattenNone == FlattenSeq(<<>>) = <<>>
  BY DEF FlattenSeq

(* One more sequence comes at the end. *)
LEMMA FlattenMore ==
  ASSUME NEW S, NEW s \in Seq(Seq(S)), NEW x \in Seq(S)
  PROVE  FlattenSeq(Append(s, x)) = FlattenSeq(s) \o x
<1>. DEFINE N == Len(s)
            t == Append(s, x)
<1>1. N \in Nat /\ t \in Seq(Seq(S)) /\ t # <<>> /\ Len(t) = N + 1 /\ t[N + 1] = x /\ \A i \in 1 .. N : t[i] = s[i]
  BY AppendProperties
<1>2. PICK f : Strings(f, t, N + 1) /\ FlattenSeq(t) = f[N + 1]
  <2>. HIDE DEF t
  <2>. QED
    BY <1>1, FlattenString
<1>3. CASE s = <<>>
  <2>1. N = 0 /\ f[1] = x
    BY <1>1, <1>2, <1>3 DEF Strings
  <2>2. <<>> \o x = x
    BY ConcatEmptySeq
  <2>. QED
    BY <1>2, <1>3, <2>1, <2>2, FlattenNone
<1>4. CASE s # <<>>
  <2>0. N # 0 /\ N \in 1 .. N
    BY <1>1, <1>4
  <2>1. PICK g : Strings(g, s, N) /\ FlattenSeq(s) = g[N]
    BY <1>4, FlattenString
  <2>. DEFINE bad == {n \in 1 .. N : f[n] # g[n]}
  <2>2. ASSUME bad # {} PROVE FALSE
    <3>1. bad \subseteq Nat
      BY <1>1
    <3>2. PICK n \in bad : \A m \in bad : n <= m
      <4>. HIDE DEF bad
      <4>. QED
        BY <2>2, <3>1, LeastOf
    <3>3. n \in 1 .. N /\ n \in 1 .. N + 1 /\ f[n] # g[n]
      BY <1>1, <3>2
    <3>4. n # 1
      BY <1>1, <1>2, <2>1, <3>3 DEF Strings
    <3>5. n - 1 \in 1 .. N /\ ~(n <= n - 1)
      BY <1>1, <3>3, <3>4
    <3>6. f[n - 1] = g[n - 1]
      BY <3>2, <3>5
    <3>7. f[n] = f[n - 1] \o s[n] /\ g[n] = g[n - 1] \o s[n]
      BY <1>1, <1>2, <2>1, <3>3, <3>4 DEF Strings
    <3>. QED
      BY <3>3, <3>6, <3>7
  <2>3. f[N] = g[N]
    BY <2>0, <2>2
  <2>4. f[N + 1] = f[N] \o x
    <3>1. N + 1 \in 1 .. N + 1 /\ N + 1 # 1 /\ (N + 1) - 1 = N
      BY <1>1, <2>0
    <3>2. t[N + 1] = x
      BY <1>1
    <3>. HIDE DEF t, N
    <3>3. f[N + 1] = f[(N + 1) - 1] \o t[N + 1]
      BY <1>2, <3>1 DEF Strings
    <3>. QED
      BY <3>1, <3>2, <3>3
  <2>. QED
    BY <1>2, <2>1, <2>3, <2>4
<1>. QED
  BY <1>3, <1>4

\* The first n sequences, and the next one.
LEMMA FirstAndNext ==
  ASSUME NEW S, NEW s \in Seq(S), NEW n \in 1 .. Len(s)
  PROVE  /\ SubSeq(s, 1, n) = Append(SubSeq(s, 1, n - 1), s[n])
         /\ SubSeq(s, 1, n - 1) \in Seq(S) /\ s[n] \in S
<1>1. s[n] \in S /\ n \in Nat /\ n - 1 \in Nat /\ 1 \in Int /\ \A i \in 1 .. n - 1 : s[i] \in S
  BY ElementOfSeq
<1>2. SubSeq(s, 1, n - 1) \in Seq(S)
  BY <1>1, SubSeqProperties
<1>3. 1 \in 1 .. Len(s) /\ n \in 1 .. Len(s)
  OBVIOUS
<1>4. SubSeq(s, 1, n) = SubSeq(s, 1, n - 1) \o <<s[n]>>
  BY <1>3, SubSeqRecursiveSecond
<1>. QED
  BY <1>1, <1>2, <1>4, AppendIsConcat

LEMMA FlattenIsSeq ==
  ASSUME NEW S, NEW s \in Seq(Seq(S))
  PROVE  FlattenSeq(s) \in Seq(S)
<1>. DEFINE bad == {n \in 0 .. Len(s) : FlattenSeq(SubSeq(s, 1, n)) \notin Seq(S)}
<1>1. ASSUME bad # {} PROVE FALSE
  <2>1. bad \subseteq Nat
    OBVIOUS
  <2>2. PICK n \in bad : \A m \in bad : n <= m
    <3>. HIDE DEF bad
    <3>. QED
      BY <1>1, <2>1, LeastOf
  <2>3. n \in 0 .. Len(s) /\ n \in Nat /\ FlattenSeq(SubSeq(s, 1, n)) \notin Seq(S)
    BY <2>2
  <2>4. n # 0
    <3>1. SubSeq(s, 1, 0) = <<>>
      BY SubSeqEmpty
    <3>2. FlattenSeq(SubSeq(s, 1, 0)) \in Seq(S)
      BY <3>1, FlattenNone, EmptySeq
    <3>. QED
      BY <2>3, <3>2
  <2>5. n \in 1 .. Len(s) /\ n - 1 \in 0 .. Len(s) /\ ~(n <= n - 1)
    BY <2>3, <2>4
  <2>6. FlattenSeq(SubSeq(s, 1, n - 1)) \in Seq(S)
    BY <2>2, <2>5
  <2>7. FlattenSeq(SubSeq(s, 1, n)) = FlattenSeq(SubSeq(s, 1, n - 1)) \o s[n] /\ s[n] \in Seq(S)
    BY <2>5, FirstAndNext, FlattenMore
  <2>. QED
    BY <2>3, <2>6, <2>7, ConcatProperties
<1>2. Len(s) \in 0 .. Len(s) /\ SubSeq(s, 1, Len(s)) = s
  BY SubSeqFull
<1>. QED
  BY <1>1, <1>2

LEMMA AppendToBoth ==
  ASSUME NEW T, NEW a \in Seq(T), NEW f \in Seq(T), NEW x \in T
  PROVE  a \o Append(f, x) = Append(a \o f, x)
<1>1. <<x>> \in Seq(T) /\ a \o f \in Seq(T)
  BY ConcatProperties
<1>2. Append(f, x) = f \o <<x>> /\ Append(a \o f, x) = (a \o f) \o <<x>>
  BY <1>1, AppendIsConcat
<1>. QED
  BY <1>1, <1>2, ConcatAssociative

LEMMA Associates == \A S : \A p, q, r \in Seq(S) : (p \o q) \o r = p \o (q \o r)
<1>. TAKE S
<1>. TAKE p, q, r \in Seq(S)
<1>. QED
  BY ConcatAssociative

LEMMA FlattenBoth ==
  ASSUME NEW S, NEW a \in Seq(Seq(S)), NEW f \in Seq(Seq(S)), NEW x \in Seq(S),
         FlattenSeq(a \o f) = FlattenSeq(a) \o FlattenSeq(f)
  PROVE  FlattenSeq(a \o Append(f, x)) = FlattenSeq(a) \o FlattenSeq(Append(f, x))
<1>. DEFINE p == FlattenSeq(a)
            q == FlattenSeq(f)
<1>1. a \o f \in Seq(Seq(S)) /\ p \in Seq(S) /\ q \in Seq(S)
  BY ConcatProperties, FlattenIsSeq
<1>2. a \o Append(f, x) = Append(a \o f, x)
  BY AppendToBoth
<1>3. FlattenSeq(Append(f, x)) = q \o x /\ FlattenSeq(Append(a \o f, x)) = FlattenSeq(a \o f) \o x
  BY <1>1, FlattenMore
<1>. HIDE DEF p, q
<1>5. (p \o q) \o x = p \o (q \o x)
  <2>1. p \in Seq(S) /\ q \in Seq(S)
    BY <1>1
  <2>2. \A r \in Seq(S) : (p \o q) \o r = p \o (q \o r)
    BY <2>1, Associates
  <2>. QED
    BY <2>2
<1>6. FlattenSeq(a \o Append(f, x)) = (p \o q) \o x
  BY <1>2, <1>3 DEF p, q
<1>. QED
  BY <1>3, <1>5, <1>6 DEF p

LEMMA FlattenTwo ==
  ASSUME NEW S, NEW a \in Seq(Seq(S)), NEW b \in Seq(Seq(S))
  PROVE  FlattenSeq(a \o b) = FlattenSeq(a) \o FlattenSeq(b)
<1>. DEFINE First(n) == SubSeq(b, 1, n)
            bad == {n \in 0 .. Len(b) : FlattenSeq(a \o First(n)) # FlattenSeq(a) \o FlattenSeq(First(n))}
<1>1. ASSUME bad # {} PROVE FALSE
  <2>1. bad \subseteq Nat
    OBVIOUS
  <2>2. PICK n \in bad : \A m \in bad : n <= m
    <3>. HIDE DEF bad
    <3>. QED
      BY <1>1, <2>1, LeastOf
  <2>3. n \in 0 .. Len(b) /\ n \in Nat /\ FlattenSeq(a \o First(n)) # FlattenSeq(a) \o FlattenSeq(First(n))
    BY <2>2
  <2>4. n # 0
    <3>1. First(0) = <<>>
      BY SubSeqEmpty
    <3>2. a \o <<>> = a /\ FlattenSeq(a) \o <<>> = FlattenSeq(a)
      BY FlattenIsSeq, ConcatEmptySeq
    <3>. QED
      BY <2>3, <3>1, <3>2, FlattenNone
  <2>5. n \in 1 .. Len(b) /\ n - 1 \in 0 .. Len(b) /\ ~(n <= n - 1)
    BY <2>3, <2>4
  <2>6. FlattenSeq(a \o First(n - 1)) = FlattenSeq(a) \o FlattenSeq(First(n - 1))
    BY <2>2, <2>5
  <2>7. First(n) = Append(First(n - 1), b[n]) /\ First(n - 1) \in Seq(Seq(S)) /\ b[n] \in Seq(S)
    BY <2>5, FirstAndNext
  <2>. HIDE DEF First
  <2>. QED
    BY <2>3, <2>6, <2>7, FlattenBoth
<1>2. Len(b) \in 0 .. Len(b) /\ First(Len(b)) = b
  BY SubSeqFull
<1>. QED
  BY <1>1, <1>2

-------------------------------------------------------------------------------
Char == Nat \X Nat
Marks(text) == [k \in DOMAIN text |-> IF text[k] = Newline THEN <<>> ELSE <<text[k]>>]

LEMMA MarksOf ==
  ASSUME NEW text \in Seq(Char)
  PROVE  Marks(text) \in Seq(Seq(Char)) /\ Len(Marks(text)) = Len(text) /\ Solid(text) = FlattenSeq(Marks(text))
<1>1. \A k \in 1 .. Len(text) : (IF text[k] = Newline THEN <<>> ELSE <<text[k]>>) \in Seq(Char)
  BY ElementOfSeq
<1>2. Marks(text) = [k \in 1 .. Len(text) |-> IF text[k] = Newline THEN <<>> ELSE <<text[k]>>] /\ Len(text) \in Nat
  BY DEF Marks
<1>3. Marks(text) \in [1 .. Len(text) -> Seq(Char)]
  BY <1>1, <1>2
<1>. QED
  BY <1>2, <1>3 DEF Solid, Marks

LEMMA SolidIsText == ASSUME NEW text \in Seq(Char) PROVE Solid(text) \in Seq(Char)
  BY MarksOf, FlattenIsSeq

LEMMA SolidTwo ==
  ASSUME NEW a \in Seq(Char), NEW b \in Seq(Char)
  PROVE  Solid(a \o b) = Solid(a) \o Solid(b)
<1>1. a \o b \in Seq(Char) /\ Len(a \o b) = Len(a) + Len(b)
  BY ConcatProperties
<1>2. Marks(a \o b) = Marks(a) \o Marks(b)
  <2>1. Marks(a \o b) \in Seq(Seq(Char)) /\ Marks(a) \in Seq(Seq(Char)) /\ Marks(b) \in Seq(Seq(Char))
    BY <1>1, MarksOf
  <2>2. Marks(a) \o Marks(b) \in Seq(Seq(Char)) /\ Len(Marks(a) \o Marks(b)) = Len(a) + Len(b) /\ Len(Marks(a \o b)) = Len(a) + Len(b)
    <3>. DEFINE T == Seq(Char)
    <3>1. Marks(a \o b) \in Seq(T) /\ Marks(a) \in Seq(T) /\ Marks(b) \in Seq(T)
      BY <2>1
    <3>2. Len(Marks(a)) = Len(a) /\ Len(Marks(b)) = Len(b) /\ Len(Marks(a \o b)) = Len(a \o b)
      BY <1>1, MarksOf
    <3>. HIDE DEF T
    <3>3. Marks(a) \o Marks(b) \in Seq(T) /\ Len(Marks(a) \o Marks(b)) = Len(Marks(a)) + Len(Marks(b))
      BY <3>1, ConcatProperties
    <3>. QED
      BY <1>1, <3>2, <3>3 DEF T
  <2>3. ASSUME NEW i \in 1 .. Len(a) + Len(b)
        PROVE  Marks(a \o b)[i] = (Marks(a) \o Marks(b))[i]
    <3>1. (a \o b)[i] = IF i <= Len(a) THEN a[i] ELSE b[i - Len(a)]
      BY ConcatProperties
    <3>2. (Marks(a) \o Marks(b))[i] = IF i <= Len(a) THEN Marks(a)[i] ELSE Marks(b)[i - Len(a)]
      BY <2>1, MarksOf, ConcatProperties
    <3>3. Marks(a \o b)[i] = IF (a \o b)[i] = Newline THEN <<>> ELSE <<(a \o b)[i]>>
      BY <1>1 DEF Marks
    <3>4. i <= Len(a) => Marks(a)[i] = IF a[i] = Newline THEN <<>> ELSE <<a[i]>>
      BY DEF Marks
    <3>5. ~(i <= Len(a)) => i - Len(a) \in 1 .. Len(b)
      OBVIOUS
    <3>6. ~(i <= Len(a)) => Marks(b)[i - Len(a)] = IF b[i - Len(a)] = Newline THEN <<>> ELSE <<b[i - Len(a)]>>
      BY <3>5 DEF Marks
    <3>. QED
      BY <3>1, <3>2, <3>3, <3>4, <3>6
  <2>. QED
    BY <2>1, <2>2, <2>3, SeqEqual
<1>3. Marks(a) \in Seq(Seq(Char)) /\ Marks(b) \in Seq(Seq(Char))
  BY MarksOf
<1>4. FlattenSeq(Marks(a) \o Marks(b)) = FlattenSeq(Marks(a)) \o FlattenSeq(Marks(b))
  BY <1>3, FlattenTwo
<1>. QED
  BY <1>1, <1>2, <1>4, MarksOf

LEMMA SolidOfOne == ASSUME NEW c \in Char PROVE Solid(<<c>>) = IF c = Newline THEN <<>> ELSE <<c>>
<1>. DEFINE m == IF c = Newline THEN <<>> ELSE <<c>>
<1>1. m \in Seq(Char)
  OBVIOUS
<1>2. Marks(<<c>>) = <<m>>
  BY DEF Marks
<1>3. FlattenSeq(Append(<<>>, m)) = FlattenSeq(<<>>) \o m /\ <<>> \o m = m /\ Append(<<>>, m) = <<m>>
  <2>1. FlattenSeq(Append(<<>>, m)) = FlattenSeq(<<>>) \o m
    <3>1. <<>> \in Seq(Seq(Char))
      BY EmptySeq
    <3>. HIDE DEF m
    <3>. QED
      BY <1>1, <3>1, FlattenMore
  <2>2. <<>> \o m = m
    BY <1>1, ConcatEmptySeq
  <2>. QED
    BY <2>1, <2>2
<1>4. Solid(<<c>>) = FlattenSeq(Marks(<<c>>))
  <2>1. <<c>> \in Seq(Char)
    OBVIOUS
  <2>. QED
    BY <2>1, MarksOf
<1>. QED
  BY <1>2, <1>3, <1>4, FlattenNone

LEMMA SolidOfNone == Solid(<<>>) = <<>>
  BY FlattenNone DEF Solid

(* Line breaks alone leave nothing. *)
LEMMA SolidOfBreaks ==
  ASSUME NEW text \in Seq(Char), \A k \in 1 .. Len(text) : text[k] = Newline
  PROVE  Solid(text) = <<>>
<1>. DEFINE bad == {n \in 0 .. Len(text) : Solid(SubSeq(text, 1, n)) # <<>>}
<1>1. ASSUME bad # {} PROVE FALSE
  <2>1. bad \subseteq Nat
    OBVIOUS
  <2>2. PICK n \in bad : \A m \in bad : n <= m
    <3>. HIDE DEF bad
    <3>. QED
      BY <1>1, <2>1, LeastOf
  <2>3. n \in 0 .. Len(text) /\ n \in Nat /\ Solid(SubSeq(text, 1, n)) # <<>>
    BY <2>2
  <2>4. n # 0
    <3>1. SubSeq(text, 1, 0) = <<>>
      BY SubSeqEmpty
    <3>. QED
      BY <2>3, <3>1, SolidOfNone
  <2>5. n \in 1 .. Len(text) /\ n - 1 \in 0 .. Len(text) /\ ~(n <= n - 1)
    BY <2>3, <2>4
  <2>6. Solid(SubSeq(text, 1, n - 1)) = <<>>
    BY <2>2, <2>5
  <2>7. SubSeq(text, 1, n) = Append(SubSeq(text, 1, n - 1), text[n]) /\ SubSeq(text, 1, n - 1) \in Seq(Char) /\ text[n] \in Char
    BY <2>5, FirstAndNext
  <2>8. Append(SubSeq(text, 1, n - 1), text[n]) = SubSeq(text, 1, n - 1) \o <<text[n]>> /\ <<text[n]>> \in Seq(Char)
    BY <2>7, AppendIsConcat
  <2>9. Solid(<<text[n]>>) = <<>>
    BY <2>5, <2>7, SolidOfOne
  <2>10. Solid(SubSeq(text, 1, n - 1) \o <<text[n]>>) = Solid(SubSeq(text, 1, n - 1)) \o Solid(<<text[n]>>)
    BY <2>7, <2>8, SolidTwo
  <2>11. <<>> \o <<>> = <<>>
    OBVIOUS
  <2>. QED
    BY <2>3, <2>6, <2>7, <2>8, <2>9, <2>10, <2>11
<1>2. Len(text) \in 0 .. Len(text) /\ SubSeq(text, 1, Len(text)) = text
  BY SubSeqFull
<1>. QED
  BY <1>1, <1>2

\* A text is its two parts.
LEMMA SolidParts ==
  ASSUME NEW text \in Seq(Char), NEW n \in 0 .. Len(text)
  PROVE  /\ SubSeq(text, 1, n) \in Seq(Char) /\ Len(SubSeq(text, 1, n)) = n
         /\ SubSeq(text, n + 1, Len(text)) \in Seq(Char) /\ Len(SubSeq(text, n + 1, Len(text))) = Len(text) - n
         /\ Solid(SubSeq(text, 1, n)) \o Solid(SubSeq(text, n + 1, Len(text))) = Solid(text)
<1>1. n \in Nat /\ n + 1 \in Nat /\ Len(text) \in Nat /\ 1 \in Int
  OBVIOUS
<1>2. SubSeq(text, 1, n) \in Seq(Char) /\ Len(SubSeq(text, 1, n)) = n
  <2>1. \A i \in 1 .. n : text[i] \in Char
    BY ElementOfSeq
  <2>. QED
    BY <1>1, <2>1, SubSeqProperties
<1>3. SubSeq(text, n + 1, Len(text)) \in Seq(Char) /\ Len(SubSeq(text, n + 1, Len(text))) = Len(text) - n
  <2>1. \A i \in n + 1 .. Len(text) : text[i] \in Char
    BY ElementOfSeq
  <2>. QED
    BY <1>1, <2>1, SubSeqProperties
<1>4. SubSeq(text, 1, n) \o SubSeq(text, n + 1, Len(text)) = text
  <2>1. 1 \in 1 .. Len(text) + 1 /\ n \in 1 - 1 .. Len(text) /\ Len(text) \in n .. Len(text)
    BY <1>1
  <2>2. SubSeq(text, 1, n) \o SubSeq(text, n + 1, Len(text)) = SubSeq(text, 1, Len(text))
    BY <2>1, ConcatAdjacentSubSeq
  <2>. QED
    BY <2>2, SubSeqFull
<1>5. Solid(SubSeq(text, 1, n) \o SubSeq(text, n + 1, Len(text))) = Solid(SubSeq(text, 1, n)) \o Solid(SubSeq(text, n + 1, Len(text)))
  BY <1>2, <1>3, SolidTwo
<1>. QED
  BY <1>2, <1>3, <1>4, <1>5

(* lstrip takes line breaks only. *)
LEMMA SkipKeeps ==
  ASSUME NEW text \in Seq(Char)
  PROVE  Skip(text) \in Seq(Char) /\ Len(Skip(text)) <= Len(text) /\ Solid(Skip(text)) = Solid(text)
<1>. DEFINE solid == {k \in DOMAIN text : text[k] # Newline}
<1>0. DOMAIN text = 1 .. Len(text) /\ Len(text) \in Nat
  OBVIOUS
<1>1. CASE solid = {}
  <2>1. Skip(text) = <<>>
    BY <1>1 DEF Skip
  <2>2. Solid(text) = <<>>
    BY <1>0, <1>1, SolidOfBreaks
  <2>. QED
    BY <1>0, <2>1, <2>2, SolidOfNone
<1>2. CASE solid # {}
  <2>. DEFINE first == CHOOSE k \in solid : \A j \in solid : k <= j
  <2>1. \E k \in solid : \A j \in solid : k <= j
    <3>1. solid \subseteq Nat
      BY <1>0
    <3>. HIDE DEF solid
    <3>. QED
      BY <1>2, <3>1, LeastOf
  <2>2. first \in solid /\ \A j \in solid : first <= j
    BY <2>1
  <2>3. Skip(text) = SubSeq(text, first, Len(text))
    BY <1>2 DEF Skip
  <2>. HIDE DEF first
  <2>4. first \in 1 .. Len(text) /\ first - 1 \in 0 .. Len(text) /\ (first - 1) + 1 = first
    BY <1>0, <2>2
  <2>5. /\ SubSeq(text, 1, first - 1) \in Seq(Char) /\ Len(SubSeq(text, 1, first - 1)) = first - 1
        /\ SubSeq(text, first, Len(text)) \in Seq(Char) /\ Len(SubSeq(text, first, Len(text))) = Len(text) - (first - 1)
        /\ Solid(SubSeq(text, 1, first - 1)) \o Solid(SubSeq(text, first, Len(text))) = Solid(text)
    BY <2>4, SolidParts
  <2>6. \A k \in 1 .. first - 1 : SubSeq(text, 1, first - 1)[k] = Newline
    <3>1. \A k \in 1 .. first - 1 : k \in 1 .. Len(text) /\ ~(first <= k)
      BY <2>4
    <3>2. \A k \in 1 .. first - 1 : text[k] = Newline
      BY <1>0, <2>2, <3>1
    <3>3. \A k \in 1 .. first - 1 : SubSeq(text, 1, first - 1)[k] = text[k]
      <4>1. \A i \in 1 .. first - 1 : text[i] \in Char
        BY <3>1, ElementOfSeq
      <4>2. 1 \in Int /\ first - 1 \in Int
        BY <2>4
      <4>3. \A i \in 1 .. (first - 1) - 1 + 1 : SubSeq(text, 1, first - 1)[i] = text[1 + i - 1]
        BY <4>1, <4>2, SubSeqProperties
      <4>. QED
        BY <2>4, <4>3
    <3>. QED
      BY <3>2, <3>3
  <2>7. Solid(SubSeq(text, 1, first - 1)) = <<>>
    BY <2>5, <2>6, SolidOfBreaks
  <2>8. <<>> \o Solid(SubSeq(text, first, Len(text))) = Solid(SubSeq(text, first, Len(text)))
    BY <2>5, SolidIsText, ConcatEmptySeq
  <2>9. Len(Skip(text)) <= Len(text)
    BY <1>0, <2>3, <2>4, <2>5
  <2>10. Solid(Skip(text)) = Solid(text)
    BY <2>3, <2>5, <2>7, <2>8
  <2>. QED
    BY <2>3, <2>5, <2>9, <2>10
<1>. QED
  BY <1>1, <1>2

-------------------------------------------------------------------------------
\* What arrives of several texts, one after the other.
SolidOf(texts) == Solid(FlattenSeq(texts))
Texts == Seq(Seq(Char))

LEMMA SolidOfTexts == ASSUME NEW texts \in Texts PROVE SolidOf(texts) \in Seq(Char)
  BY FlattenIsSeq, SolidIsText DEF SolidOf, Texts

LEMMA SolidOfNoTexts == SolidOf(<<>>) = <<>>
  BY FlattenNone, SolidOfNone DEF SolidOf

LEMMA SolidOfMore ==
  ASSUME NEW texts \in Texts, NEW text \in Seq(Char)
  PROVE  SolidOf(Append(texts, text)) = SolidOf(texts) \o Solid(text)
<1>1. FlattenSeq(texts) \in Seq(Char) /\ FlattenSeq(Append(texts, text)) = FlattenSeq(texts) \o text
  BY FlattenIsSeq, FlattenMore DEF Texts
<1>. QED
  BY <1>1, SolidTwo DEF SolidOf

LEMMA SolidOfBoth ==
  ASSUME NEW a \in Texts, NEW b \in Texts
  PROVE  SolidOf(a \o b) = SolidOf(a) \o SolidOf(b)
<1>1. FlattenSeq(a) \in Seq(Char) /\ FlattenSeq(b) \in Seq(Char) /\ FlattenSeq(a \o b) = FlattenSeq(a) \o FlattenSeq(b)
  BY FlattenIsSeq, FlattenTwo DEF Texts
<1>. QED
  BY <1>1, SolidTwo DEF SolidOf

LEMMA Regroup == \A p, q, r \in Seq(Char) : (p \o q) \o r = p \o (q \o r)
<1>. TAKE p, q, r \in Seq(Char)
<1>. QED
  BY ConcatAssociative

(* The cut lies within the text, and takes something. *)
LEMMA CutWithin ==
  ASSUME NEW text, NEW limit \in Nat \ {0}
  PROVE  CutAt(text, limit) \in 1 .. limit
<1>. DEFINE lineEnds == {k \in 1 .. limit : text[k] = Newline /\ k - 1 > limit \div 2}
            last == CHOOSE k \in lineEnds : \A j \in lineEnds : j <= k
<1>1. CutAt(text, limit) = IF lineEnds = {} THEN limit ELSE last - 1
  BY DEF CutAt
<1>2. ASSUME lineEnds # {} PROVE last \in lineEnds
  <2>. DEFINE back == {limit - k : k \in lineEnds}
  <2>1. back \subseteq Nat /\ back # {}
    BY <1>2
  <2>2. PICK i \in back : \A j \in back : i <= j
    <3>. HIDE DEF back
    <3>. QED
      BY <2>1, LeastOf
  <2>3. PICK k \in lineEnds : i = limit - k
    BY <2>2
  <2>4. \A j \in lineEnds : j <= k
    <3>. TAKE j \in lineEnds
    <3>1. limit - k <= limit - j
      BY <2>2, <2>3
    <3>2. j \in 1 .. limit /\ k \in 1 .. limit
      BY <2>3
    <3>. QED
      BY <3>1, <3>2
  <2>. HIDE DEF lineEnds
  <2>. QED
    BY <2>3, <2>4
<1>3. ASSUME NEW k \in lineEnds PROVE k - 1 \in 1 .. limit
  <2>1. k \in 1 .. limit /\ k - 1 > limit \div 2 /\ limit \div 2 \in Nat
    OBVIOUS
  <2>. QED
    BY <2>1
<1>. HIDE DEF lineEnds, last
<1>. QED
  BY <1>1, <1>2, <1>3

LEMMA PieceIsCutOff ==
  ASSUME NEW text \in Seq(Char), text # <<>>, NEW limit \in Nat \ {0}
  PROVE  /\ Piece(text, limit) \in Seq(Char) /\ Len(Piece(text, limit)) <= limit
         /\ Beyond(text, limit) \in Seq(Char) /\ Len(Beyond(text, limit)) <= Len(text) - 1
         /\ Solid(Piece(text, limit)) \o Solid(Beyond(text, limit)) = Solid(text)
<1>0. Len(text) \in Nat /\ Len(text) # 0
  OBVIOUS
<1>1. CASE Len(text) <= limit
  <2>1. Piece(text, limit) = text /\ Beyond(text, limit) = <<>>
    BY <1>1 DEF Piece, Beyond
  <2>2. Solid(text) \o <<>> = Solid(text)
    BY SolidIsText, ConcatEmptySeq
  <2>3. Len(<<>>) = 0 /\ <<>> \in Seq(Char)
    OBVIOUS
  <2>4. 0 <= Len(text) - 1
    BY <1>0
  <2>5. Solid(text) \o Solid(<<>>) = Solid(text)
    BY <2>2, SolidOfNone
  <2>. QED
    BY <1>1, <2>1, <2>3, <2>4, <2>5
<1>2. CASE ~(Len(text) <= limit)
  <2>. DEFINE cut == CutAt(text, limit)
              tail == SubSeq(text, cut + 1, Len(text))
  <2>1. cut \in 1 .. limit
    BY CutWithin
  <2>2. Piece(text, limit) = SubSeq(text, 1, cut) /\ Beyond(text, limit) = Skip(tail)
    BY <1>2 DEF Piece, Beyond
  <2>. HIDE DEF cut
  <2>3. cut \in 0 .. Len(text) /\ cut \in Nat /\ cut >= 1 /\ cut <= limit
    BY <1>0, <1>2, <2>1
  <2>4. /\ SubSeq(text, 1, cut) \in Seq(Char) /\ Len(SubSeq(text, 1, cut)) = cut
        /\ tail \in Seq(Char) /\ Len(tail) = Len(text) - cut
        /\ Solid(SubSeq(text, 1, cut)) \o Solid(tail) = Solid(text)
    BY <2>3, SolidParts
  <2>. HIDE DEF tail
  <2>5. Skip(tail) \in Seq(Char) /\ Len(Skip(tail)) <= Len(tail) /\ Solid(Skip(tail)) = Solid(tail)
    BY <2>4, SkipKeeps
  <2>6. Len(Skip(tail)) \in Nat
    BY <2>5
  <2>7. Len(Skip(tail)) <= Len(text) - 1
    BY <1>0, <2>3, <2>4, <2>5, <2>6
  <2>. QED
    BY <2>2, <2>3, <2>4, <2>5, <2>7
<1>. QED
  BY <1>1, <1>2

(* The rounds of the loop exist, for the reason StringsExist gives. *)
LEMMA CuttingBuilds ==
  ASSUME NEW text \in Seq(Char), NEW limit
  PROVE  \A n \in 0 .. Len(text) : Cutting(text, limit)[n] =
           IF n = 0 THEN [out |-> <<>>, left |-> text] ELSE CutOff(Cutting(text, limit)[n - 1], limit)
<1>. DEFINE N == Len(text)
            start == [out |-> <<>>, left |-> text]
            Proceeds(g, n) == \A k \in 0 .. n : g[k] = IF k = 0 THEN start ELSE CutOff(g[k - 1], limit)
            bad == {n \in 0 .. N : ~\E g : Proceeds(g, n)}
<1>0. N \in Nat
  OBVIOUS
<1>. HIDE DEF N, start
<1>1. ASSUME bad # {} PROVE FALSE
  <2>1. bad \subseteq Nat
    BY <1>0
  <2>2. PICK n \in bad : \A m \in bad : n <= m
    <3>. HIDE DEF bad
    <3>. QED
      BY <1>1, <2>1, LeastOf
  <2>3. n \in 0 .. N /\ n \in Nat
    BY <1>0, <2>2
  <2>4. n # 0
    <3>1. Proceeds([k \in 0 .. 0 |-> start], 0)
      OBVIOUS
    <3>. QED
      BY <2>2, <3>1
  <2>5. n - 1 \in 0 .. N /\ ~(n <= n - 1) /\ n - 1 \in Nat
    BY <1>0, <2>3, <2>4
  <2>6. PICK g : Proceeds(g, n - 1)
    BY <2>2, <2>5
  <2>. DEFINE h == [k \in 0 .. n |-> IF k = n THEN CutOff(g[n - 1], limit) ELSE g[k]]
  <2>7. Proceeds(h, n)
    BY <2>3, <2>4, <2>5, <2>6
  <2>. QED
    BY <2>2, <2>7
<1>2. PICK g : Proceeds(g, N)
  <2>1. N \in 0 .. N
    BY <1>0
  <2>. QED
    BY <1>1, <2>1
<1>. DEFINE h == [n \in 0 .. N |-> g[n]]
<1>3. h = [n \in 0 .. N |-> IF n = 0 THEN start ELSE CutOff(h[n - 1], limit)]
  BY <1>0, <1>2
<1>. HIDE DEF h
<1>4. Cutting(text, limit) = [n \in 0 .. N |-> IF n = 0 THEN start ELSE CutOff(Cutting(text, limit)[n - 1], limit)]
  BY <1>3 DEF Cutting, N, start
<1>. QED
  BY <1>4 DEF N, start

(* After n rounds the pieces and what is left are the text, and the rounds
   are enough. *)
CutSoFar(state, text, limit, n) ==
  /\ state = [out |-> state.out, left |-> state.left]
  /\ state.out \in Texts /\ \A i \in 1 .. Len(state.out) : Len(state.out[i]) <= limit
  /\ state.left \in Seq(Char) /\ Len(state.left) <= Len(text) - n
  /\ SolidOf(state.out) \o Solid(state.left) = Solid(text)

LEMMA CutGoesOn ==
  ASSUME NEW text \in Seq(Char), NEW limit \in Nat \ {0}, NEW n \in 1 .. Len(text), NEW state, CutSoFar(state, text, limit, n - 1)
  PROVE  CutSoFar(CutOff(state, limit), text, limit, n)
<1>. DEFINE out == state.out
            left == state.left
<1>0. /\ state = [out |-> out, left |-> left] /\ out \in Texts /\ left \in Seq(Char) /\ \A i \in 1 .. Len(out) : Len(out[i]) <= limit
      /\ Len(left) <= Len(text) - (n - 1) /\ SolidOf(out) \o Solid(left) = Solid(text) /\ Len(text) \in Nat /\ n \in Nat
  BY DEF CutSoFar
<1>1. CASE left = <<>>
  <2>1. CutOff(state, limit) = state
    BY <1>1 DEF CutOff
  <2>2. Len(left) = 0
    BY <1>1
  <2>3. Len(left) <= Len(text) - n
    BY <1>0, <2>2
  <2>. QED
    BY <1>0, <2>1, <2>3 DEF CutSoFar
<1>2. CASE left # <<>>
  <2>. DEFINE piece == Piece(left, limit)
              beyond == Beyond(left, limit)
  <2>1. CutOff(state, limit) = [out |-> Append(out, piece), left |-> beyond]
    BY <1>2 DEF CutOff
  <2>2. piece \in Seq(Char) /\ Len(piece) <= limit /\ beyond \in Seq(Char) /\ Len(beyond) <= Len(left) - 1
        /\ Solid(piece) \o Solid(beyond) = Solid(left)
    BY <1>0, <1>2, PieceIsCutOff
  <2>. HIDE DEF out, left, piece, beyond
  <2>3. SolidOf(Append(out, piece)) = SolidOf(out) \o Solid(piece)
    BY <1>0, <2>2, SolidOfMore
  <2>4. (SolidOf(out) \o Solid(piece)) \o Solid(beyond) = SolidOf(out) \o (Solid(piece) \o Solid(beyond))
    <3>. DEFINE p == SolidOf(out)
                q == Solid(piece)
                r == Solid(beyond)
    <3>1. p \in Seq(Char) /\ q \in Seq(Char) /\ r \in Seq(Char)
      BY <1>0, <2>2, SolidOfTexts, SolidIsText
    <3>. HIDE DEF p, q, r
    <3>2. (p \o q) \o r = p \o (q \o r)
      BY <3>1, Regroup
    <3>. QED
      BY <3>2 DEF p, q, r
  <2>5. Append(out, piece) \in Texts /\ \A i \in 1 .. Len(Append(out, piece)) : Len(Append(out, piece)[i]) <= limit
    <3>1. Append(out, piece) \in Texts /\ Len(Append(out, piece)) = Len(out) + 1 /\ Append(out, piece)[Len(out) + 1] = piece
          /\ \A i \in 1 .. Len(out) : Append(out, piece)[i] = out[i]
      BY <1>0, <2>2, AppendProperties DEF Texts
    <3>2. Len(out) \in Nat
      BY <1>0 DEF Texts
    <3>3. \A i \in 1 .. Len(out) + 1 : i \in 1 .. Len(out) \/ i = Len(out) + 1
      BY <3>2
    <3>. QED
      BY <1>0, <2>2, <3>1, <3>3
  <2>6. Len(beyond) <= Len(text) - n
    <3>1. Len(left) \in Nat /\ Len(beyond) \in Nat
      BY <1>0, <2>2
    <3>. QED
      BY <1>0, <2>2, <3>1
  <2>7. CutOff(state, limit).out = Append(out, piece) /\ CutOff(state, limit).left = beyond
    BY <2>1
  <2>8. SolidOf(Append(out, piece)) \o Solid(beyond) = Solid(text)
    BY <1>0, <2>2, <2>3, <2>4
  <2>. QED
    BY <2>1, <2>2, <2>5, <2>6, <2>7, <2>8 DEF CutSoFar
<1>. QED
  BY <1>1, <1>2

LEMMA PiecesAreTheText ==
  ASSUME NEW text \in Seq(Char), NEW limit \in Nat \ {0}
  PROVE  /\ Pieces(text, limit) \in Texts /\ SolidOf(Pieces(text, limit)) = Solid(text)
         /\ \A i \in 1 .. Len(Pieces(text, limit)) : Len(Pieces(text, limit)[i]) <= limit
<1>. DEFINE round(n) == Cutting(text, limit)[n]
            bad == {n \in 0 .. Len(text) : ~CutSoFar(round(n), text, limit, n)}
<1>1. ASSUME bad # {} PROVE FALSE
  <2>1. bad \subseteq Nat
    OBVIOUS
  <2>2. PICK n \in bad : \A m \in bad : n <= m
    <3>. HIDE DEF bad
    <3>. QED
      BY <1>1, <2>1, LeastOf
  <2>3. n \in 0 .. Len(text) /\ n \in Nat /\ ~CutSoFar(round(n), text, limit, n)
    BY <2>2
  <2>4. n # 0
    <3>1. 0 \in 0 .. Len(text)
      OBVIOUS
    <3>2. round(0) = [out |-> <<>>, left |-> text]
      BY <3>1, CuttingBuilds
    <3>. HIDE DEF round
    <3>3. <<>> \o Solid(text) = Solid(text)
      BY SolidIsText, ConcatEmptySeq
    <3>4. <<>> \in Texts /\ Len(<<>>) = 0 /\ Len(text) <= Len(text) - 0
      BY EmptySeq DEF Texts
    <3>5. round(0).out = <<>> /\ round(0).left = text
      BY <3>2
    <3>6. round(0) = [out |-> round(0).out, left |-> round(0).left]
      BY <3>2, <3>5
    <3>8. 1 .. Len(<<>>) = {} /\ \A i \in 1 .. Len(round(0).out) : Len(round(0).out[i]) <= limit
      BY <3>4, <3>5
    <3>7. CutSoFar(round(0), text, limit, 0)
      BY <3>8, <3>3, <3>4, <3>5, <3>6, SolidOfNoTexts DEF CutSoFar
    <3>. QED
      BY <2>3, <3>7 DEF round
  <2>5. n \in 1 .. Len(text) /\ n - 1 \in 0 .. Len(text) /\ ~(n <= n - 1)
    BY <2>3, <2>4
  <2>6. CutSoFar(round(n - 1), text, limit, n - 1)
    BY <2>2, <2>5
  <2>7. round(n) = CutOff(round(n - 1), limit)
    BY <2>3, <2>4, CuttingBuilds
  <2>. HIDE DEF round
  <2>. QED
    BY <2>3, <2>5, <2>6, <2>7, CutGoesOn
<1>2. CutSoFar(round(Len(text)), text, limit, Len(text))
  BY <1>1
<1>3. Pieces(text, limit) = round(Len(text)).out
  BY DEF Pieces
<1>. HIDE DEF round
<1>. DEFINE state == round(Len(text))
<1>4. /\ state.out \in Texts /\ \A i \in 1 .. Len(state.out) : Len(state.out[i]) <= limit
      /\ state.left \in Seq(Char) /\ Len(state.left) <= Len(text) - Len(text)
      /\ SolidOf(state.out) \o Solid(state.left) = Solid(text)
  BY <1>2 DEF CutSoFar
<1>. HIDE DEF state
<1>5. state.left = <<>>
  BY <1>4
<1>6. SolidOf(state.out) \o <<>> = SolidOf(state.out)
  BY <1>4, SolidOfTexts, ConcatEmptySeq
<1>. QED
  BY <1>3, <1>4, <1>5, <1>6, SolidOfNone DEF state

(* Lists of texts, each of which arrives like one text, arrive like those. *)
LEMMA SolidOfLists ==
  ASSUME NEW lists \in Seq(Texts), NEW texts \in Texts, Len(lists) = Len(texts),
         \A i \in 1 .. Len(texts) : SolidOf(lists[i]) = Solid(texts[i])
  PROVE  SolidOf(FlattenSeq(lists)) = SolidOf(texts)
<1>. DEFINE F(n) == FlattenSeq(SubSeq(lists, 1, n))
            T(n) == SubSeq(texts, 1, n)
            bad == {n \in 0 .. Len(texts) : SolidOf(F(n)) # SolidOf(T(n))}
<1>0. Len(texts) \in Nat
  BY DEF Texts
<1>1. ASSUME bad # {} PROVE FALSE
  <2>1. bad \subseteq Nat
    BY <1>0
  <2>2. PICK n \in bad : \A m \in bad : n <= m
    <3>. HIDE DEF bad
    <3>. QED
      BY <1>1, <2>1, LeastOf
  <2>3. n \in 0 .. Len(texts) /\ n \in Nat /\ SolidOf(F(n)) # SolidOf(T(n))
    BY <1>0, <2>2
  <2>4. n # 0
    <3>1. SubSeq(lists, 1, 0) = <<>> /\ SubSeq(texts, 1, 0) = <<>>
      BY SubSeqEmpty
    <3>. QED
      BY <2>3, <3>1, FlattenNone
  <2>5. n \in 1 .. Len(texts) /\ n - 1 \in 0 .. Len(texts) /\ ~(n <= n - 1)
    BY <1>0, <2>3, <2>4
  <2>6. SolidOf(F(n - 1)) = SolidOf(T(n - 1))
    BY <2>2, <2>5
  <2>7. T(n) = Append(T(n - 1), texts[n]) /\ T(n - 1) \in Texts /\ texts[n] \in Seq(Char)
    BY <2>5, FirstAndNext DEF Texts
  <2>8. /\ SubSeq(lists, 1, n) = Append(SubSeq(lists, 1, n - 1), lists[n])
        /\ SubSeq(lists, 1, n - 1) \in Seq(Texts) /\ lists[n] \in Texts
    BY <2>5, FirstAndNext
  <2>9. F(n) = F(n - 1) \o lists[n] /\ F(n - 1) \in Texts
    <3>. DEFINE before == SubSeq(lists, 1, n - 1)
                list == lists[n]
    <3>1. before \in Seq(Seq(Seq(Char))) /\ list \in Seq(Seq(Char))
      BY <2>8 DEF Texts
    <3>. HIDE DEF before, list
    <3>2. FlattenSeq(Append(before, list)) = FlattenSeq(before) \o list /\ FlattenSeq(before) \in Seq(Seq(Char))
      BY <3>1, FlattenMore, FlattenIsSeq
    <3>. QED
      BY <2>8, <3>2 DEF Texts, before, list
  <2>. HIDE DEF F, T
  <2>10. SolidOf(F(n)) = SolidOf(F(n - 1)) \o SolidOf(lists[n])
    BY <2>8, <2>9, SolidOfBoth
  <2>11. SolidOf(T(n)) = SolidOf(T(n - 1)) \o Solid(texts[n])
    BY <2>7, SolidOfMore
  <2>. QED
    BY <2>3, <2>5, <2>6, <2>10, <2>11
<1>2. Len(texts) \in 0 .. Len(texts) /\ SubSeq(texts, 1, Len(texts)) = texts /\ SubSeq(lists, 1, Len(texts)) = lists
  BY <1>0, SubSeqFull DEF Texts
<1>. QED
  BY <1>1, <1>2

-------------------------------------------------------------------------------
\* Messages, and the texts of them.
Letters == {m \in [text : Seq(Char), length : Nat] : Len(m.text) <= m.length}
TextsOf(msgs) == [i \in 1 .. Len(msgs) |-> msgs[i].text]
Carried(msgs) == SolidOf(TextsOf(msgs))

LEMMA LettersHave == \A m \in Letters : m.text \in Seq(Char) /\ m.length \in Nat /\ Len(m.text) <= m.length
  BY DEF Letters

LEMMA TextsOfLetters ==
  ASSUME NEW msgs \in Seq(Letters)
  PROVE  TextsOf(msgs) \in Texts /\ Len(TextsOf(msgs)) = Len(msgs) /\ \A i \in 1 .. Len(msgs) : TextsOf(msgs)[i] = msgs[i].text
<1>1. \A i \in 1 .. Len(msgs) : msgs[i].text \in Seq(Char)
  BY ElementOfSeq, LettersHave
<1>2. Len(msgs) \in Nat
  OBVIOUS
<1>3. TextsOf(msgs) \in [1 .. Len(msgs) -> Seq(Char)]
  BY <1>1 DEF TextsOf
<1>. QED
  BY <1>2, <1>3 DEF TextsOf, Texts

LEMMA CarriedByNone == Carried(<<>>) = <<>>
<1>1. TextsOf(<<>>) = <<>>
  BY DEF TextsOf
<1>. QED
  BY <1>1, SolidOfNoTexts DEF Carried

LEMMA CarriedByOne ==
  ASSUME NEW m \in Letters
  PROVE  Carried(<<m>>) = Solid(m.text)
<1>1. m.text \in Seq(Char) /\ <<m>> \in Seq(Letters) /\ <<>> \in Texts
  BY LettersHave, EmptySeq DEF Texts
<1>2. TextsOf(<<m>>) = Append(<<>>, m.text)
  BY DEF TextsOf
<1>3. SolidOf(Append(<<>>, m.text)) = SolidOf(<<>>) \o Solid(m.text)
  <2>. DEFINE none == <<>>
              text == m.text
  <2>. HIDE DEF none, text
  <2>1. SolidOf(Append(none, text)) = SolidOf(none) \o Solid(text)
    BY <1>1, SolidOfMore DEF none, text
  <2>. QED
    BY <2>1 DEF none, text
<1>4. <<>> \o Solid(m.text) = Solid(m.text)
  BY <1>1, SolidIsText, ConcatEmptySeq
<1>. QED
  BY <1>2, <1>3, <1>4, SolidOfNoTexts DEF Carried

LEMMA ConcatOver ==
  ASSUME NEW T, NEW p \in Seq(T), NEW q \in Seq(T), NEW m, NEW n, Len(p) = m, Len(q) = n
  PROVE  /\ p \o q \in Seq(T) /\ Len(p \o q) = m + n
         /\ \A i \in 1 .. m + n : (p \o q)[i] = IF i <= m THEN p[i] ELSE q[i - m]
  BY ConcatProperties

LEMMA FcnIsSeq ==
  ASSUME NEW T, NEW n \in Nat, NEW f \in [1 .. n -> T]
  PROVE  f \in Seq(T) /\ Len(f) = n
  OBVIOUS

LEMMA CarriedByBoth ==
  ASSUME NEW a \in Seq(Letters), NEW b \in Seq(Letters)
  PROVE  Carried(a \o b) = Carried(a) \o Carried(b)
<1>0. Len(a) \in Nat /\ Len(b) \in Nat
  OBVIOUS
<1>1. /\ a \o b \in Seq(Letters) /\ Len(a \o b) = Len(a) + Len(b)
      /\ \A i \in 1 .. Len(a) + Len(b) : (a \o b)[i] = IF i <= Len(a) THEN a[i] ELSE b[i - Len(a)]
  BY ConcatProperties
<1>2. /\ TextsOf(a) \in Texts /\ Len(TextsOf(a)) = Len(a) /\ \A i \in 1 .. Len(a) : TextsOf(a)[i] = a[i].text
      /\ TextsOf(b) \in Texts /\ Len(TextsOf(b)) = Len(b) /\ \A i \in 1 .. Len(b) : TextsOf(b)[i] = b[i].text
      /\ TextsOf(a \o b) \in Texts /\ Len(TextsOf(a \o b)) = Len(a) + Len(b)
      /\ \A i \in 1 .. Len(a) + Len(b) : TextsOf(a \o b)[i] = (a \o b)[i].text
  BY <1>1, TextsOfLetters
<1>3. TextsOf(a \o b) = TextsOf(a) \o TextsOf(b)
  <2>. DEFINE p == TextsOf(a)
              q == TextsOf(b)
              r == TextsOf(a \o b)
              T == Seq(Char)
  <2>1. p \in Seq(T) /\ q \in Seq(T) /\ r \in Seq(T)
    BY <1>2 DEF Texts
  <2>2. Len(p) = Len(a) /\ Len(q) = Len(b) /\ Len(r) = Len(a) + Len(b)
    BY <1>2
  <2>3. \A i \in 1 .. Len(a) + Len(b) : r[i] = IF i <= Len(a) THEN p[i] ELSE q[i - Len(a)]
    <3>. TAKE i \in 1 .. Len(a) + Len(b)
    <3>1. i <= Len(a) => i \in 1 .. Len(a)
      BY <1>0
    <3>2. ~(i <= Len(a)) => i - Len(a) \in 1 .. Len(b)
      BY <1>0
    <3>. QED
      BY <1>1, <1>2, <3>1, <3>2
  <2>. HIDE DEF p, q, r, T
  <2>4. /\ p \o q \in Seq(T) /\ Len(p \o q) = Len(a) + Len(b)
        /\ \A i \in 1 .. Len(a) + Len(b) : (p \o q)[i] = IF i <= Len(a) THEN p[i] ELSE q[i - Len(a)]
    <3>. DEFINE m == Len(a)
                n == Len(b)
    <3>1. Len(p) = m /\ Len(q) = n
      BY <2>2
    <3>. HIDE DEF m, n
    <3>2. /\ p \o q \in Seq(T) /\ Len(p \o q) = m + n
          /\ \A i \in 1 .. m + n : (p \o q)[i] = IF i <= m THEN p[i] ELSE q[i - m]
      BY <2>1, <3>1, ConcatOver
    <3>. QED
      BY <3>2 DEF m, n
  <2>5. r = p \o q
    BY <2>1, <2>2, <2>3, <2>4, SeqEqual
  <2>. QED
    BY <2>5 DEF p, q, r
<1>. QED
  BY <1>2, <1>3, SolidOfBoth DEF Carried

LEMMA CarriedIsText == ASSUME NEW msgs \in Seq(Letters) PROVE Carried(msgs) \in Seq(Char)
  BY TextsOfLetters, SolidOfTexts DEF Carried

\* Texts that Telegram takes.
Short(limit) == {t \in Seq(Char) : Len(t) <= limit}

LEMMA PiecesAreShort ==
  ASSUME NEW text \in Seq(Char), NEW limit \in Nat \ {0}
  PROVE  Pieces(text, limit) \in Seq(Short(limit))
<1>. DEFINE pieces == Pieces(text, limit)
<1>1. pieces \in Seq(Seq(Char)) /\ \A i \in 1 .. Len(pieces) : Len(pieces[i]) <= limit
  BY PiecesAreTheText DEF Texts
<1>. HIDE DEF pieces
<1>2. \A i \in 1 .. Len(pieces) : pieces[i] \in Short(limit)
  BY <1>1, ElementOfSeq DEF Short
<1>3. pieces \in [1 .. Len(pieces) -> Short(limit)] /\ Len(pieces) \in Nat
  BY <1>1, <1>2
<1>. QED
  BY <1>3 DEF pieces

(* What is left of a reply that Telegram rejected, as plain text. *)
LEMMA PlainIsTheRest ==
  ASSUME NEW msgs \in Seq(Letters), MaxLen \in Nat \ {0}
  PROVE  PlainOf(msgs) \in Seq(Short(MaxLen)) /\ SolidOf(PlainOf(msgs)) = Carried(msgs)
<1>. DEFINE lists == [i \in DOMAIN msgs |-> Pieces(msgs[i].text, MaxLen)]
            texts == TextsOf(msgs)
            S == Short(MaxLen)
<1>1. texts \in Texts /\ Len(texts) = Len(msgs) /\ \A i \in 1 .. Len(msgs) : texts[i] = msgs[i].text
  BY TextsOfLetters
<1>2. \A i \in 1 .. Len(msgs) : msgs[i].text \in Seq(Char)
  BY ElementOfSeq, LettersHave
<1>3. lists = [i \in 1 .. Len(msgs) |-> Pieces(msgs[i].text, MaxLen)] /\ Len(msgs) \in Nat
  OBVIOUS
<1>4. \A i \in 1 .. Len(msgs) : lists[i] \in Seq(S) /\ lists[i] \in Texts /\ SolidOf(lists[i]) = Solid(msgs[i].text)
  BY <1>2, <1>3, PiecesAreShort, PiecesAreTheText
<1>5. lists \in [1 .. Len(msgs) -> Seq(S)] /\ lists \in [1 .. Len(msgs) -> Texts]
  BY <1>3, <1>4
<1>6. PlainOf(msgs) = FlattenSeq(lists)
  BY DEF PlainOf
<1>. HIDE DEF lists, texts, S
<1>7. lists \in Seq(Seq(S)) /\ lists \in Seq(Texts) /\ Len(lists) = Len(msgs)
  <2>1. lists \in Seq(Seq(S)) /\ Len(lists) = Len(msgs)
    BY <1>3, <1>5, FcnIsSeq
  <2>2. lists \in Seq(Texts)
    BY <1>3, <1>5, FcnIsSeq
  <2>. QED
    BY <2>1, <2>2
<1>8. FlattenSeq(lists) \in Seq(S)
  BY <1>7, FlattenIsSeq
<1>9. SolidOf(FlattenSeq(lists)) = SolidOf(texts)
  BY <1>1, <1>4, <1>7, SolidOfLists
<1>. QED
  BY <1>6, <1>8, <1>9 DEF Carried, texts, S

-------------------------------------------------------------------------------
Block == [text : Seq(Char), extra : Nat, dense : BOOLEAN]

LEMMA BlockHas == ASSUME NEW block \in Block PROVE block.text \in Seq(Char) /\ block.extra \in Nat
  BY DEF Block

LEMMA LettersAre ==
  ASSUME NEW text \in Seq(Char), NEW length \in Nat, Len(text) <= length
  PROVE  Message(text, length) \in Letters /\ Message(text, length).text = text
  BY DEF Letters, Message

LEMMA HtmlCarries ==
  ASSUME NEW block \in Block
  PROVE  Html(block) \in Letters /\ Html(block).text = block.text
<1>1. Len(block.text) + block.extra \in Nat /\ Len(block.text) <= Len(block.text) + block.extra
  BY BlockHas
<1>. QED
  BY <1>1, BlockHas, LettersAre DEF Html

\* The two line breaks between blocks leave nothing.
LEMMA BreaksLeaveNothing ==
  ASSUME NEW text \in Seq(Char)
  PROVE  /\ <<Newline, Newline>> \in Seq(Char) /\ <<Newline, Newline>> \o text \in Seq(Char)
         /\ Solid(<<Newline, Newline>> \o text) = Solid(text)
<1>. DEFINE two == <<Newline, Newline>>
<1>1. two \in Seq(Char) /\ Len(two) = 2 /\ \A k \in 1 .. 2 : two[k] = Newline
  BY DEF Newline, Char
<1>. HIDE DEF two
<1>2. Solid(two) = <<>>
  BY <1>1, SolidOfBreaks
<1>3. two \o text \in Seq(Char) /\ Solid(two \o text) = Solid(two) \o Solid(text)
  BY <1>1, SolidTwo, ConcatProperties
<1>4. <<>> \o Solid(text) = Solid(text)
  BY SolidIsText, ConcatEmptySeq
<1>. QED
  BY <1>1, <1>2, <1>3, <1>4 DEF two

LEMMA LenOfBoth ==
  ASSUME NEW T, NEW p \in Seq(T), NEW q \in Seq(T)
  PROVE  p \o q \in Seq(T) /\ Len(p \o q) = Len(p) + Len(q)
  BY ConcatProperties

LEMMA JoinCarries ==
  ASSUME NEW m \in Letters, NEW n \in Letters
  PROVE  Join(m, n) \in Letters /\ Solid(Join(m, n).text) = Solid(m.text) \o Solid(n.text)
<1>. DEFINE a == m.text
            b == n.text
            two == <<Newline, Newline>>
            length == m.length + 2 + n.length
<1>1. a \in Seq(Char) /\ b \in Seq(Char) /\ m.length \in Nat /\ n.length \in Nat /\ Len(a) <= m.length /\ Len(b) <= n.length
  BY LettersHave
<1>2. two \in Seq(Char) /\ Len(two) = 2 /\ two \o b \in Seq(Char) /\ Solid(two \o b) = Solid(b)
  BY <1>1, BreaksLeaveNothing
<1>3. Join(m, n) = Message(a \o two \o b, length)
  BY DEF Join
<1>. HIDE DEF a, b, two
<1>4. (a \o two) \o b = a \o (two \o b)
  BY <1>1, <1>2, Regroup
<1>5. a \o two \in Seq(Char) /\ Len(a \o two) = Len(a) + Len(two)
  BY <1>1, <1>2, LenOfBoth
<1>6. (a \o two) \o b \in Seq(Char) /\ Len((a \o two) \o b) = Len(a \o two) + Len(b)
  BY <1>1, <1>5, LenOfBoth
<1>7. length \in Nat /\ Len((a \o two) \o b) <= length
  <2>1. Len(a) \in Nat /\ Len(b) \in Nat
    BY <1>1
  <2>. QED
    BY <1>1, <1>2, <1>5, <1>6, <2>1
<1>8. Solid(a \o (two \o b)) = Solid(a) \o Solid(b)
  BY <1>1, <1>2, SolidTwo
<1>9. Join(m, n) \in Letters /\ Join(m, n).text = (a \o two) \o b
  BY <1>3, <1>6, <1>7, LettersAre
<1>. QED
  BY <1>4, <1>8, <1>9 DEF a, b

LEMMA InPiecesCarry ==
  ASSUME NEW block \in Block, MaxLen - Slack \in Nat \ {0}
  PROVE  InPieces(block) \in Seq(Letters) /\ Carried(InPieces(block)) = Solid(block.text)
<1>. DEFINE pieces == Pieces(block.text, MaxLen - Slack)
            msgs == InPieces(block)
            N == Len(pieces)
<1>1. pieces \in Texts /\ SolidOf(pieces) = Solid(block.text)
  BY BlockHas, PiecesAreTheText
<1>2. msgs = [i \in 1 .. N |-> Escaped(pieces[i], block.dense)] /\ N \in Nat
  BY <1>1 DEF InPieces, Texts
<1>. HIDE DEF pieces, msgs
<1>3. \A i \in 1 .. N : pieces[i] \in Seq(Char)
  BY <1>1, ElementOfSeq DEF Texts
<1>4. ASSUME NEW i \in 1 .. N PROVE Escaped(pieces[i], block.dense) \in Letters /\ Escaped(pieces[i], block.dense).text = pieces[i]
  <2>. DEFINE piece == pieces[i]
  <2>1. piece \in Seq(Char)
    BY <1>3
  <2>. HIDE DEF piece
  <2>2. Len(piece) \in Nat /\ 2 * Len(piece) \in Nat /\ Len(piece) <= 2 * Len(piece) /\ Len(piece) <= Len(piece)
    BY <2>1
  <2>3. \/ Escaped(piece, block.dense) = Message(piece, 2 * Len(piece))
        \/ Escaped(piece, block.dense) = Message(piece, Len(piece))
    BY Zenon DEF Escaped
  <2>. QED
    BY <2>1, <2>2, <2>3, LettersAre DEF piece
<1>5. msgs \in [1 .. N -> Letters]
  BY <1>2, <1>4
<1>6. msgs \in Seq(Letters) /\ Len(msgs) = N
  BY <1>2, <1>5, FcnIsSeq
<1>7. TextsOf(msgs) = [i \in 1 .. N |-> pieces[i]]
  BY <1>2, <1>4, <1>6 DEF TextsOf
<1>8. [i \in 1 .. N |-> pieces[i]] = pieces
  BY <1>1 DEF N, Texts
<1>. QED
  BY <1>1, <1>6, <1>7, <1>8 DEF Carried, msgs

(* What has been packed carries what the blocks so far come to. *)
PackedSoFar(acc, text) ==
  /\ acc.out \in Seq(Letters)
  /\ acc.cur = <<>> \/ \E m \in Letters : acc.cur = <<m>>
  /\ Carried(acc.out) \o Carried(acc.cur) = text

LEMMA CurIsSeq ==
  ASSUME NEW cur, cur = <<>> \/ \E m \in Letters : cur = <<m>>
  PROVE  cur \in Seq(Letters)
<1>1. <<>> \in Seq(Letters)
  BY EmptySeq
<1>2. \A m \in Letters : <<m>> \in Seq(Letters)
  <2>. HIDE DEF Letters
  <2>. QED
    OBVIOUS
<1>. QED
  BY <1>1, <1>2

LEMMA JoinedCarries ==
  ASSUME NEW cur, cur = <<>> \/ \E m \in Letters : cur = <<m>>, NEW block \in Block
  PROVE  Joined(cur, block) \in Letters /\ Carried(<<Joined(cur, block)>>) = Carried(cur) \o Solid(block.text)
<1>1. Html(block) \in Letters /\ Html(block).text = block.text /\ Solid(block.text) \in Seq(Char)
  BY BlockHas, HtmlCarries, SolidIsText
<1>2. CASE cur = <<>>
  <2>1. Joined(cur, block) = Html(block)
    BY <1>2 DEF Joined
  <2>2. <<>> \o Solid(block.text) = Solid(block.text)
    BY <1>1, ConcatEmptySeq
  <2>. QED
    BY <1>1, <1>2, <2>1, <2>2, CarriedByNone, CarriedByOne
<1>3. CASE \E m \in Letters : cur = <<m>>
  <2>1. PICK m \in Letters : cur = <<m>>
    BY <1>3
  <2>2. Joined(cur, block) = Join(m, Html(block))
    BY <2>1 DEF Joined
  <2>3. Join(m, Html(block)) \in Letters /\ Solid(Join(m, Html(block)).text) = Solid(m.text) \o Solid(block.text)
    BY <1>1, JoinCarries
  <2>4. Carried(<<Join(m, Html(block))>>) = Solid(Join(m, Html(block)).text) /\ Carried(<<m>>) = Solid(m.text)
    BY <2>3, CarriedByOne
  <2>. QED
    BY <2>1, <2>2, <2>3, <2>4
<1>. QED
  BY <1>2, <1>3

LEMMA PackGoesOn ==
  ASSUME NEW acc, NEW text, PackedSoFar(acc, text), NEW block \in Block, MaxLen - Slack \in Nat \ {0}
  PROVE  PackedSoFar(Pack(acc, block), text \o Solid(block.text))
<1>. DEFINE out == acc.out
            cur == acc.cur
            more == Solid(block.text)
            next == Pack(acc, block)
<1>1. /\ out \in Seq(Letters) /\ cur \in Seq(Letters) /\ Carried(out) \o Carried(cur) = text
      /\ cur = <<>> \/ \E m \in Letters : cur = <<m>>
  BY CurIsSeq DEF PackedSoFar
<1>2. Carried(out) \in Seq(Char) /\ Carried(cur) \in Seq(Char) /\ more \in Seq(Char) /\ text \in Seq(Char)
  BY <1>1, CarriedIsText, BlockHas, SolidIsText, ConcatProperties
<1>3. out \o cur \in Seq(Letters) /\ Carried(out \o cur) = text
  BY <1>1, CarriedByBoth, ConcatProperties
<1>4. CASE Html(block).length > MaxLen
  <2>1. next.out = out \o cur \o InPieces(block) /\ next.cur = <<>>
    BY <1>4 DEF Pack
  <2>2. InPieces(block) \in Seq(Letters) /\ Carried(InPieces(block)) = more
    BY InPiecesCarry
  <2>. DEFINE before == out \o cur
              pieces == InPieces(block)
  <2>. HIDE DEF more, next, out, cur, before, pieces
  <2>3. before \o pieces \in Seq(Letters) /\ Carried(before \o pieces) = text \o more
    BY <1>3, <2>2, CarriedByBoth, ConcatProperties DEF before, pieces
  <2>4. (text \o more) \o <<>> = text \o more
    BY <1>2, ConcatProperties, ConcatEmptySeq
  <2>5. next.out = before \o pieces
    BY <2>1 DEF before, pieces
  <2>6. PackedSoFar(next, text \o more)
    BY <2>1, <2>3, <2>4, <2>5, CarriedByNone DEF PackedSoFar
  <2>. QED
    BY <2>6 DEF next, more
<1>5. CASE ~(Html(block).length > MaxLen) /\ Joined(cur, block).length > MaxLen
  <2>1. next.out = out \o cur /\ next.cur = <<Html(block)>>
    BY <1>5 DEF Pack
  <2>2. Html(block) \in Letters /\ Carried(<<Html(block)>>) = more
    BY HtmlCarries, CarriedByOne
  <2>. HIDE DEF more, next, out, cur
  <2>3. PackedSoFar(next, text \o more)
    BY <1>3, <2>1, <2>2 DEF PackedSoFar
  <2>. QED
    BY <2>3 DEF next, more
<1>6. CASE ~(Html(block).length > MaxLen) /\ ~(Joined(cur, block).length > MaxLen)
  <2>1. next.out = out /\ next.cur = <<Joined(cur, block)>>
    BY <1>6 DEF Pack
  <2>2. Joined(cur, block) \in Letters /\ Carried(<<Joined(cur, block)>>) = Carried(cur) \o more
    BY <1>1, JoinedCarries
  <2>3. Carried(out) \o (Carried(cur) \o more) = text \o more
    <3>. DEFINE p == Carried(out)
                q == Carried(cur)
    <3>. HIDE DEF p, q, more
    <3>1. (p \o q) \o more = p \o (q \o more)
      BY <1>2, Regroup DEF p, q
    <3>. QED
      BY <1>1, <3>1 DEF p, q
  <2>. HIDE DEF more, next, out, cur
  <2>4. PackedSoFar(next, text \o more)
    BY <1>1, <2>1, <2>2, <2>3 DEF PackedSoFar
  <2>. QED
    BY <2>4 DEF next, more
<1>. QED
  BY <1>4, <1>5, <1>6

(* The rounds of the packing exist, for the reason StringsExist gives. *)
LEMMA PackingBuilds ==
  ASSUME NEW blocks \in Seq(Block)
  PROVE  \A n \in 0 .. Len(blocks) : Packing(blocks)[n] =
           IF n = 0 THEN [out |-> <<>>, cur |-> <<>>] ELSE Pack(Packing(blocks)[n - 1], blocks[n])
<1>. DEFINE N == Len(blocks)
            start == [out |-> <<>>, cur |-> <<>>]
            Proceeds(g, n) == \A k \in 0 .. n : g[k] = IF k = 0 THEN start ELSE Pack(g[k - 1], blocks[k])
            bad == {n \in 0 .. N : ~\E g : Proceeds(g, n)}
<1>0. N \in Nat
  OBVIOUS
<1>. HIDE DEF N, start
<1>1. ASSUME bad # {} PROVE FALSE
  <2>1. bad \subseteq Nat
    BY <1>0
  <2>2. PICK n \in bad : \A m \in bad : n <= m
    <3>. HIDE DEF bad
    <3>. QED
      BY <1>1, <2>1, LeastOf
  <2>3. n \in 0 .. N /\ n \in Nat
    BY <1>0, <2>2
  <2>4. n # 0
    <3>1. Proceeds([k \in 0 .. 0 |-> start], 0)
      OBVIOUS
    <3>. QED
      BY <2>2, <3>1
  <2>5. n - 1 \in 0 .. N /\ ~(n <= n - 1) /\ n - 1 \in Nat
    BY <1>0, <2>3, <2>4
  <2>6. PICK g : Proceeds(g, n - 1)
    BY <2>2, <2>5
  <2>. DEFINE h == [k \in 0 .. n |-> IF k = n THEN Pack(g[n - 1], blocks[n]) ELSE g[k]]
  <2>7. Proceeds(h, n)
    BY <2>3, <2>4, <2>5, <2>6
  <2>. QED
    BY <2>2, <2>7
<1>2. PICK g : Proceeds(g, N)
  <2>1. N \in 0 .. N
    BY <1>0
  <2>. QED
    BY <1>1, <2>1
<1>. DEFINE h == [n \in 0 .. N |-> g[n]]
<1>3. h = [n \in 0 .. N |-> IF n = 0 THEN start ELSE Pack(h[n - 1], blocks[n])]
  BY <1>0, <1>2
<1>. HIDE DEF h
<1>4. Packing(blocks) = [n \in 0 .. N |-> IF n = 0 THEN start ELSE Pack(Packing(blocks)[n - 1], blocks[n])]
  BY <1>3 DEF Packing, N, start
<1>. QED
  BY <1>4 DEF N, start

\* The lines of a reply's text.
Lines(blocks) == [i \in 1 .. Len(blocks) |-> Line(blocks, i)]

LEMMA LinesAre ==
  ASSUME NEW blocks \in Seq(Block)
  PROVE  /\ Lines(blocks) \in Texts /\ Len(Lines(blocks)) = Len(blocks) /\ WholeText(blocks) = FlattenSeq(Lines(blocks))
         /\ \A i \in 1 .. Len(blocks) : Solid(Lines(blocks)[i]) = Solid(blocks[i].text)
<1>1. ASSUME NEW i \in 1 .. Len(blocks)
      PROVE  Line(blocks, i) \in Seq(Char) /\ Solid(Line(blocks, i)) = Solid(blocks[i].text)
  <2>1. blocks[i].text \in Seq(Char)
    BY ElementOfSeq, BlockHas
  <2>. QED
    BY <2>1, BreaksLeaveNothing DEF Line
<1>2. Lines(blocks) \in [1 .. Len(blocks) -> Seq(Char)] /\ Len(blocks) \in Nat
  BY <1>1 DEF Lines
<1>3. Lines(blocks) \in Texts /\ Len(Lines(blocks)) = Len(blocks)
  BY <1>2, FcnIsSeq DEF Texts
<1>4. DOMAIN blocks = 1 .. Len(blocks)
  OBVIOUS
<1>. QED
  BY <1>1, <1>3, <1>4 DEF Lines, WholeText

(* The messages packed carry the text of the reply. *)
LEMMA ChunksAreTheText ==
  ASSUME NEW blocks \in Seq(Block), MaxLen - Slack \in Nat \ {0}
  PROVE  Packed(blocks) \in Seq(Letters) /\ Carried(Packed(blocks)) = Solid(WholeText(blocks))
<1>. DEFINE lines == Lines(blocks)
            N == Len(blocks)
            round(n) == Packing(blocks)[n]
            First(n) == SubSeq(lines, 1, n)
            bad == {n \in 0 .. N : ~PackedSoFar(round(n), SolidOf(First(n)))}
<1>0. N \in Nat
  OBVIOUS
<1>1. lines \in Texts /\ Len(lines) = N /\ WholeText(blocks) = FlattenSeq(lines) /\ \A i \in 1 .. N : Solid(lines[i]) = Solid(blocks[i].text)
  BY LinesAre
<1>. HIDE DEF lines
<1>2. ASSUME bad # {} PROVE FALSE
  <2>1. bad \subseteq Nat
    BY <1>0
  <2>2. PICK n \in bad : \A m \in bad : n <= m
    <3>. HIDE DEF bad
    <3>. QED
      BY <1>2, <2>1, LeastOf
  <2>3. n \in 0 .. N /\ n \in Nat /\ ~PackedSoFar(round(n), SolidOf(First(n)))
    BY <1>0, <2>2
  <2>4. n # 0
    <3>1. 0 \in 0 .. N
      BY <1>0
    <3>2. round(0) = [out |-> <<>>, cur |-> <<>>]
      BY <3>1, PackingBuilds
    <3>3. First(0) = <<>>
      BY SubSeqEmpty
    <3>4. round(0).out = <<>> /\ round(0).cur = <<>>
      BY <3>2
    <3>. HIDE DEF round, First
    <3>5. <<>> \in Seq(Letters) /\ <<>> \o <<>> = <<>>
      BY EmptySeq
    <3>6. PackedSoFar(round(0), SolidOf(First(0)))
      BY <3>3, <3>4, <3>5, CarriedByNone, SolidOfNoTexts DEF PackedSoFar
    <3>. QED
      BY <2>3, <3>6 DEF round, First
  <2>5. n \in 1 .. N /\ n - 1 \in 0 .. N /\ ~(n <= n - 1)
    BY <1>0, <2>3, <2>4
  <2>6. PackedSoFar(round(n - 1), SolidOf(First(n - 1)))
    BY <2>2, <2>5
  <2>7. round(n) = Pack(round(n - 1), blocks[n]) /\ blocks[n] \in Block
    BY <2>3, <2>4, <2>5, PackingBuilds, ElementOfSeq
  <2>8. First(n) = Append(First(n - 1), lines[n]) /\ First(n - 1) \in Texts /\ lines[n] \in Seq(Char)
    BY <1>1, <2>5, FirstAndNext DEF Texts
  <2>. HIDE DEF round, First
  <2>9. SolidOf(First(n)) = SolidOf(First(n - 1)) \o Solid(blocks[n].text)
    BY <1>1, <2>5, <2>8, SolidOfMore
  <2>. QED
    BY <2>3, <2>6, <2>7, <2>9, PackGoesOn
<1>3. N \in 0 .. N
  BY <1>0
<1>4. First(N) = lines
  BY <1>1, SubSeqFull DEF Texts
<1>5. PackedSoFar(round(N), Solid(WholeText(blocks)))
  BY <1>1, <1>2, <1>3, <1>4 DEF SolidOf
<1>6. Packed(blocks) = round(N).out \o round(N).cur
  BY DEF Packed
<1>. DEFINE out == round(N).out
            cur == round(N).cur
<1>7. out \in Seq(Letters) /\ cur \in Seq(Letters) /\ Carried(out) \o Carried(cur) = Solid(WholeText(blocks))
  BY <1>5, CurIsSeq DEF PackedSoFar
<1>. HIDE DEF out, cur
<1>8. out \o cur \in Seq(Letters) /\ Carried(out \o cur) = Carried(out) \o Carried(cur)
  BY <1>7, CarriedByBoth, LenOfBoth
<1>. QED
  BY <1>6, <1>7, <1>8 DEF out, cur

-------------------------------------------------------------------------------
(* A text that renders to no block: its cut is one message, and a beginning of it. *)
LEMMA CutIsShown ==
  ASSUME NEW block \in Block
  PROVE  /\ CutShort(block) \in Letters /\ CutShort(block).text \in Seq(Char)
         /\ \E more \in Seq(Char) : CutShort(block).text \o more = block.text
<1>. DEFINE text == block.text
            fits == IF block.dense THEN MaxLen \div 2 ELSE MaxLen
<1>1. text \in Seq(Char) /\ Len(text) \in Nat /\ MaxLen \in Nat /\ block.dense \in BOOLEAN
  BY RepliesBounds DEF Block
<1>2. fits \in Nat /\ fits <= MaxLen
  BY <1>1
<1>3. CASE Len(text) <= fits
  <2>1. CutShort(block) = Escaped(text, block.dense)
    BY <1>3 DEF CutShort
  <2>2. Len(text) <= (IF block.dense THEN 2 * Len(text) ELSE Len(text))
        /\ (IF block.dense THEN 2 * Len(text) ELSE Len(text)) \in Nat
    BY <1>1
  <2>3. CutShort(block) \in Letters /\ CutShort(block).text = text
    BY <1>1, <2>1, <2>2, LettersAre DEF Escaped
  <2>4. text \o <<>> = text /\ <<>> \in Seq(Char)
    BY <1>1, ConcatEmptySeq, EmptySeq
  <2>. QED
    BY <1>1, <2>3, <2>4
<1>4. CASE ~(Len(text) <= fits)
  <2>. DEFINE first == SubSeq(text, 1, fits)
              more == SubSeq(text, fits + 1, Len(text))
  <2>1. CutShort(block) = Message(first, MaxLen)
    BY <1>4 DEF CutShort
  <2>. HIDE DEF fits, text
  <2>2. first \in Seq(Char) /\ more \in Seq(Char) /\ Len(first) = fits
    BY <1>1, <1>2, <1>4
  <2>3. first \o more = text
    <3>1. fits \in 0 .. Len(text) /\ Len(text) \in fits .. Len(text) /\ 1 \in 1 .. Len(text) + 1
          /\ fits \in (1 - 1) .. Len(text)
      BY <1>1, <1>2, <1>4
    <3>2. first \o more = SubSeq(text, 1, Len(text))
      BY <1>1, <3>1, ConcatAdjacentSubSeq
    <3>. QED
      BY <1>1, <3>2, SubSeqFull
  <2>. HIDE DEF first, more
  <2>4. CutShort(block) \in Letters /\ CutShort(block).text = first
    BY <1>1, <1>2, <2>1, <2>2, LettersAre
  <2>. QED
    BY <2>2, <2>3, <2>4 DEF text
<1>. QED
  BY <1>3, <1>4

\* The text of a reply of one block is that of the block.
LEMMA BareIsItsText ==
  ASSUME NEW blocks \in Seq(Block), Len(blocks) = 1
  PROVE  blocks[1] \in Block /\ Solid(WholeText(blocks)) = Solid(blocks[1].text)
<1>. DEFINE lines == Lines(blocks)
            text == blocks[1].text
<1>1. blocks[1] \in Block /\ text \in Seq(Char)
  BY ElementOfSeq, BlockHas
<1>2. lines \in Texts /\ Len(lines) = 1 /\ WholeText(blocks) = FlattenSeq(lines) /\ lines[1] = text
  BY LinesAre DEF Lines, Line
<1>3. <<>> \in Texts /\ Append(<<>>, text) \in Texts /\ Len(Append(<<>>, text)) = 1 /\ Append(<<>>, text)[1] = text
  BY <1>1, EmptySeq DEF Texts
<1>. HIDE DEF lines, text
<1>4. lines = Append(<<>>, text)
  <2>. DEFINE other == Append(<<>>, text)
  <2>1. other \in Texts /\ Len(other) = 1 /\ other[1] = text
    BY <1>3
  <2>. HIDE DEF other
  <2>2. \A i \in 1 .. Len(lines) : lines[i] = other[i]
    BY <1>2, <2>1
  <2>3. lines = other
    BY <1>2, <2>1, <2>2, SeqEqual DEF Texts
  <2>. QED
    BY <2>3 DEF other
<1>5. SolidOf(Append(<<>>, text)) = SolidOf(<<>>) \o Solid(text)
  BY <1>1, <1>3, SolidOfMore DEF text
<1>6. SolidOf(<<>>) \o Solid(text) = Solid(text)
  BY <1>1, SolidOfNoTexts, SolidIsText, ConcatEmptySeq DEF text
<1>. QED
  BY <1>1, <1>2, <1>4, <1>5, <1>6 DEF SolidOf, text

-------------------------------------------------------------------------------
(* What has arrived and what is still to come are what the reply comes to. *)
RepliesTyped ==
  /\ reply \in Seq(Block) /\ bare \in BOOLEAN /\ (bare => Len(reply) = 1)
  /\ messages \in Seq(Letters)
  /\ rest \in Seq(Short(MaxLen)) /\ delivered \in Seq(Short(MaxLen))
  /\ sending \in {"render", "html", "plain", "done", "lost"}
Towards(whole) ==
  /\ sending = "render" => delivered = <<>>
  /\ sending = "html" => Arrived \o Carried(messages) = whole
  /\ sending = "plain" => Arrived \o SolidOf(rest) = whole
  /\ sending = "done" => Arrived = whole
  /\ sending = "lost" => \E more \in Seq(Char) : Arrived \o more = whole
RepliesInv == RepliesTyped /\ \E text \in ComesTo : Towards(Solid(text))

(* All that a reply may come to is a beginning of its text. *)
LEMMA ComesToTexts ==
  ASSUME RepliesTyped, NEW text \in ComesTo
  PROVE  /\ Solid(text) \in Seq(Char) /\ Solid(WholeText(reply)) \in Seq(Char)
         /\ \E more \in Seq(Char) : Solid(text) \o more = Solid(WholeText(reply))
<1>. DEFINE whole == WholeText(reply)
            cut == CutShort(reply[1]).text
<1>1. reply \in Seq(Block) /\ (bare => Len(reply) = 1)
  BY DEF RepliesTyped
<1>2. Solid(whole) \in Seq(Char)
  BY <1>1, LinesAre, FlattenIsSeq, SolidIsText DEF Texts
<1>3. CASE text = whole
  <2>1. Solid(whole) \o <<>> = Solid(whole) /\ <<>> \in Seq(Char)
    BY <1>2, ConcatEmptySeq, EmptySeq
  <2>. HIDE DEF whole
  <2>. QED
    BY <1>2, <1>3, <2>1 DEF whole
<1>4. CASE bare /\ text = cut
  <2>1. reply[1] \in Block /\ Solid(whole) = Solid(reply[1].text)
    BY <1>1, <1>4, BareIsItsText
  <2>2. cut \in Seq(Char) /\ \E more \in Seq(Char) : cut \o more = reply[1].text
    BY <2>1, CutIsShown
  <2>3. PICK more \in Seq(Char) : cut \o more = reply[1].text
    BY <2>2
  <2>. HIDE DEF cut, whole
  <2>4. Solid(cut \o more) = Solid(cut) \o Solid(more) /\ Solid(cut) \in Seq(Char) /\ Solid(more) \in Seq(Char)
    BY <2>2, <2>3, SolidTwo, SolidIsText
  <2>5. Solid(cut) \o Solid(more) = Solid(whole)
    BY <2>1, <2>3, <2>4
  <2>. QED
    BY <1>2, <1>4, <2>4, <2>5 DEF whole
<1>5. text = whole \/ (bare /\ text = cut)
  BY DEF ComesTo
<1>. QED
  BY <1>3, <1>4, <1>5

LEMMA RepliesAreTyped ==
  ASSUME RepliesInit
  PROVE  reply \in Seq(Block) /\ bare \in BOOLEAN /\ (bare => Len(reply) = 1)
<1>1. PICK n \in 1 .. MostBlocks : \E blocks \in [1 .. n -> Blocks] :
         reply = Numbered(blocks) /\ bare \in {b \in BOOLEAN : b => n = 1}
  BY DEF RepliesInit
<1>2. PICK blocks \in [1 .. n -> Blocks] : reply = Numbered(blocks) /\ bare \in {b \in BOOLEAN : b => n = 1}
  BY <1>1
<1>3. n \in Nat
  BY RepliesBounds
<1>. DEFINE number(i) == [k \in DOMAIN blocks[i].text |-> IF blocks[i].text[k] = Newline THEN Newline ELSE <<i, k>>]
<1>4. ASSUME NEW i \in 1 .. n PROVE [blocks[i] EXCEPT !.text = number(i)] \in Block
  <2>1. blocks[i] \in [text : Seq(Nat \X Nat) \ {<<>>}, extra : Nat, dense : BOOLEAN]
    BY RepliesBounds
  <2>. DEFINE text == blocks[i].text
  <2>2. text \in Seq(Nat \X Nat)
    BY <2>1
  <2>3. DOMAIN text = 1 .. Len(text) /\ Len(text) \in Nat
    BY <2>2
  <2>4. Newline \in Char /\ \A k \in 1 .. Len(text) : <<i, k>> \in Char
    BY <1>3, <2>3 DEF Newline, Char
  <2>5. number(i) \in [1 .. Len(text) -> Char]
    BY <2>3, <2>4
  <2>. HIDE DEF text, number
  <2>6. number(i) \in Seq(Char)
    BY <2>3, <2>5, FcnIsSeq
  <2>. QED
    BY <2>1, <2>6 DEF Block
<1>5. reply = [i \in 1 .. n |-> [blocks[i] EXCEPT !.text = number(i)]]
  BY <1>2 DEF Numbered
<1>. HIDE DEF number
<1>6. reply \in [1 .. n -> Block]
  BY <1>4, <1>5
<1>7. reply \in Seq(Block) /\ Len(reply) = n
  BY <1>3, <1>6, FcnIsSeq
<1>. QED
  BY <1>2, <1>7

LEMMA Beginning ==
  ASSUME NEW T, NEW s \in Seq(T), NEW more \in Seq(T)
  PROVE  IsPrefix(s, s \o more)
<1>1. Len(s) \in Nat /\ Len(more) \in Nat /\ Len(s \o more) = Len(s) + Len(more)
  BY LenOfBoth
<1>2. SubSeq(s \o more, 1, Len(s)) = SubSeq(s, 1, Len(s))
  <2>1. CASE Len(s) = 0
    BY <2>1, SubSeqEmpty
  <2>2. CASE Len(s) # 0
    <3>1. 1 \in 1 .. Len(s) /\ Len(s) \in 1 .. Len(s)
      BY <1>1, <2>2
    <3>. QED
      BY <3>1, SubSeqOfConcat1
  <2>. QED
    BY <2>1, <2>2
<1>3. Len(s) <= Len(s \o more)
  BY <1>1
<1>. QED
  BY <1>2, <1>3 DEF IsPrefix

LEMMA FirstAndRest ==
  ASSUME NEW T, NEW s \in Seq(T), s # <<>>
  PROVE  s[1] \in T /\ Tail(s) \in Seq(T) /\ <<s[1]>> \in Seq(T) /\ s = <<s[1]>> \o Tail(s)
<1>1. s[1] \in T /\ Tail(s) \in Seq(T) /\ Len(Tail(s)) = Len(s) - 1 /\ \A i \in 1 .. Len(Tail(s)) : Tail(s)[i] = s[i + 1]
      /\ Len(s) \in Nat /\ Len(s) # 0
  BY HeadTailProperties
<1>. DEFINE first == <<s[1]>>
            tail == Tail(s)
<1>2. first \in Seq(T) /\ Len(first) = 1 /\ first[1] = s[1]
  BY <1>1
<1>. HIDE DEF first, tail
<1>3. /\ first \o tail \in Seq(T) /\ Len(first \o tail) = 1 + Len(tail)
      /\ \A i \in 1 .. 1 + Len(tail) : (first \o tail)[i] = IF i <= 1 THEN first[i] ELSE tail[i - 1]
  <2>. DEFINE m == 1
              n == Len(tail)
  <2>1. tail \in Seq(T) /\ Len(tail) = n /\ first \in Seq(T) /\ Len(first) = m
    BY <1>1, <1>2 DEF tail
  <2>. HIDE DEF m, n
  <2>2. /\ first \o tail \in Seq(T) /\ Len(first \o tail) = m + n
        /\ \A i \in 1 .. m + n : (first \o tail)[i] = IF i <= m THEN first[i] ELSE tail[i - m]
    BY <2>1, ConcatOver
  <2>. QED
    BY <2>2 DEF m, n
<1>4. \A i \in 1 .. Len(s) : (first \o tail)[i] = s[i]
  <2>. TAKE i \in 1 .. Len(s)
  <2>1. i \in 1 .. 1 + Len(tail)
    BY <1>1 DEF tail
  <2>2. CASE i = 1
    BY <1>2, <1>3, <2>1, <2>2
  <2>3. CASE i # 1
    <3>1. i - 1 \in 1 .. Len(tail) /\ ~(i <= 1) /\ i - 1 + 1 = i
      BY <1>1, <2>3 DEF tail
    <3>. QED
      BY <1>1, <1>3, <2>1, <3>1 DEF tail
  <2>. QED
    BY <2>2, <2>3
<1>5. Len(first \o tail) = Len(s)
  BY <1>1, <1>3 DEF tail
<1>6. s = first \o tail
  BY <1>3, <1>4, <1>5, SeqEqual
<1>. QED
  BY <1>1, <1>2, <1>6 DEF first, tail

LEMMA CarriedFirst ==
  ASSUME NEW msgs \in Seq(Letters), msgs # <<>>
  PROVE  /\ msgs[1] \in Letters /\ Tail(msgs) \in Seq(Letters)
         /\ Carried(msgs) = Solid(msgs[1].text) \o Carried(Tail(msgs))
<1>. DEFINE first == <<msgs[1]>>
            tail == Tail(msgs)
<1>1. msgs[1] \in Letters /\ tail \in Seq(Letters) /\ first \in Seq(Letters) /\ msgs = first \o tail
  BY FirstAndRest
<1>2. Carried(first) = Solid(msgs[1].text)
  BY <1>1, CarriedByOne
<1>. HIDE DEF first, tail
<1>3. Carried(first \o tail) = Carried(first) \o Carried(tail)
  BY <1>1, CarriedByBoth
<1>. QED
  BY <1>1, <1>2, <1>3 DEF tail

LEMMA ShortAreTexts == \A limit : \A texts \in Seq(Short(limit)) : texts \in Texts
<1>1. \A limit : Short(limit) \subseteq Seq(Char)
  BY DEF Short
<1>. QED
  BY <1>1 DEF Texts

LEMMA SolidOfFirst ==
  ASSUME NEW texts \in Seq(Short(MaxLen)), texts # <<>>
  PROVE  /\ texts[1] \in Short(MaxLen) /\ Tail(texts) \in Seq(Short(MaxLen))
         /\ SolidOf(texts) = Solid(texts[1]) \o SolidOf(Tail(texts))
<1>. DEFINE first == <<texts[1]>>
            tail == Tail(texts)
            none == <<>>
            text == texts[1]
<1>1. text \in Short(MaxLen) /\ tail \in Seq(Short(MaxLen)) /\ first \in Seq(Short(MaxLen)) /\ texts = first \o tail
  <2>. DEFINE T == Short(MaxLen)
  <2>. HIDE DEF T
  <2>1. texts \in Seq(T)
    BY DEF T
  <2>2. texts[1] \in T /\ Tail(texts) \in Seq(T) /\ <<texts[1]>> \in Seq(T) /\ texts = <<texts[1]>> \o Tail(texts)
    BY <2>1, FirstAndRest
  <2>. QED
    BY <2>2 DEF T
<1>2. tail \in Texts /\ first \in Texts /\ text \in Seq(Char)
  BY <1>1, ShortAreTexts DEF Short
<1>3. none \in Texts /\ first = Append(none, text) /\ SolidOf(none) = <<>>
  BY EmptySeq, SolidOfNoTexts DEF Texts
<1>. HIDE DEF first, tail, none, text
<1>4. SolidOf(first) = SolidOf(none) \o Solid(text)
  BY <1>2, <1>3, SolidOfMore
<1>5. <<>> \o Solid(text) = Solid(text)
  BY <1>2, SolidIsText, ConcatEmptySeq
<1>6. SolidOf(first \o tail) = SolidOf(first) \o SolidOf(tail)
  BY <1>2, SolidOfBoth
<1>. QED
  BY <1>1, <1>3, <1>4, <1>5, <1>6 DEF tail, text

LEMMA Limits == MaxLen \in Nat \ {0} /\ MaxLen - Slack \in Nat \ {0}
  BY RepliesBounds

LEMMA ArrivedIsText == ASSUME delivered \in Seq(Short(MaxLen)) PROVE Arrived \in Seq(Char) /\ Arrived = SolidOf(delivered)
  BY ShortAreTexts, SolidOfTexts DEF Arrived, SolidOf

LEMMA OneMoreArrives ==
  ASSUME delivered \in Seq(Short(MaxLen)), NEW text \in Short(MaxLen), delivered' = Append(delivered, text)
  PROVE  delivered' \in Seq(Short(MaxLen)) /\ Arrived' = Arrived \o Solid(text)
<1>1. delivered \in Texts /\ text \in Seq(Char)
  BY ShortAreTexts DEF Short
<1>2. SolidOf(Append(delivered, text)) = SolidOf(delivered) \o Solid(text)
  BY <1>1, SolidOfMore
<1>3. Append(delivered, text) \in Seq(Short(MaxLen))
  <2>. DEFINE T == Short(MaxLen)
  <2>. HIDE DEF T
  <2>1. delivered \in Seq(T) /\ text \in T
    BY DEF T
  <2>2. Append(delivered, text) \in Seq(T)
    BY <2>1, AppendProperties
  <2>. QED
    BY <2>2 DEF T
<1>. QED
  BY <1>2, <1>3 DEF Arrived, SolidOf

LEMMA RepliesBegin == RepliesInit => RepliesInv
<1>. SUFFICES ASSUME RepliesInit PROVE RepliesInv
  OBVIOUS
<1>1. reply \in Seq(Block) /\ bare \in BOOLEAN /\ (bare => Len(reply) = 1)
  BY RepliesAreTyped
<1>2. messages = <<>> /\ rest = <<>> /\ delivered = <<>> /\ sending = "render"
  BY DEF RepliesInit
<1>3. <<>> \in Seq(Letters) /\ <<>> \in Seq(Short(MaxLen))
  BY EmptySeq
<1>4. WholeText(reply) \in ComesTo /\ Towards(Solid(WholeText(reply)))
  BY <1>2 DEF ComesTo, Towards
<1>. QED
  BY <1>1, <1>2, <1>3, <1>4 DEF RepliesInv, RepliesTyped

LEMMA ComesToStays == ASSUME UNCHANGED <<reply, bare>> PROVE ComesTo' = ComesTo
  BY DEF ComesTo, WholeText, Line, CutShort, Escaped, Message

LEMMA RenderKeeps ==
  ASSUME RepliesInv, NEW fails \in BOOLEAN, Render(fails)
  PROVE  RepliesInv'
<1>9. PICK whole : whole = WholeText(reply)
  OBVIOUS
<1>10. PICK cut : cut = CutShort(reply[1])
  OBVIOUS
<1>1. /\ reply \in Seq(Block) /\ bare \in BOOLEAN /\ (bare => Len(reply) = 1)
      /\ messages \in Seq(Letters) /\ rest \in Seq(Short(MaxLen)) /\ delivered \in Seq(Short(MaxLen))
      /\ delivered = <<>> /\ reply' = reply /\ bare' = bare /\ delivered' = <<>>
  BY DEF RepliesInv, RepliesTyped, Towards, Render
<1>2. Arrived' = <<>>
  BY <1>1, SolidOfNoTexts DEF Arrived, SolidOf
<1>3. whole \in Seq(Char)
  <2>1. Lines(reply) \in Texts /\ WholeText(reply) = FlattenSeq(Lines(reply))
    BY <1>1, LinesAre
  <2>. QED
    BY <1>9, <2>1, FlattenIsSeq DEF Texts
<1>4. whole \in ComesTo' /\ (bare => cut.text \in ComesTo') /\ Solid(whole) \in Seq(Char)
  BY <1>1, <1>3, <1>9, <1>10, ComesToStays, SolidIsText DEF ComesTo
<1>5. <<>> \o Solid(whole) = Solid(whole)
  BY <1>4, ConcatEmptySeq
<1>6. CASE fails
  <2>1. sending' = "plain" /\ rest' = Pieces(whole, MaxLen) /\ messages' = messages
    BY <1>6, <1>9 DEF Render
  <2>2. rest' \in Seq(Short(MaxLen)) /\ SolidOf(rest') = Solid(whole)
    BY <1>3, <2>1, Limits, PiecesAreShort, PiecesAreTheText
  <2>3. Towards(Solid(whole))'
    BY <1>2, <1>5, <2>1, <2>2 DEF Towards
  <2>. QED
    BY <1>1, <1>4, <2>1, <2>2, <2>3 DEF RepliesInv, RepliesTyped
<1>7. CASE ~fails /\ ~bare
  <2>1. sending' = "html" /\ messages' = Packed(reply) /\ rest' = rest
    BY <1>7 DEF Render, ToChunks
  <2>2. messages' \in Seq(Letters) /\ Carried(messages') = Solid(whole)
    BY <1>1, <1>9, <2>1, Limits, ChunksAreTheText
  <2>3. Towards(Solid(whole))'
    BY <1>2, <1>5, <2>1, <2>2 DEF Towards
  <2>. QED
    BY <1>1, <1>4, <2>1, <2>2, <2>3 DEF RepliesInv, RepliesTyped
<1>8. CASE ~fails /\ bare
  <2>9. PICK text : text = cut.text
    OBVIOUS
  <2>1. sending' = "html" /\ messages' = <<cut>> /\ rest' = rest
    BY <1>8, <1>10 DEF Render, ToChunks
  <2>2. cut \in Letters /\ text \in Seq(Char)
    BY <1>1, <1>8, <1>10, <2>9, BareIsItsText, CutIsShown
  <2>3. messages' \in Seq(Letters) /\ Carried(messages') = Solid(text)
    BY <2>1, <2>2, <2>9, CarriedByOne
  <2>4. <<>> \o Solid(text) = Solid(text)
    BY <2>2, SolidIsText, ConcatEmptySeq
  <2>5. Towards(Solid(text))'
    BY <1>2, <2>1, <2>3, <2>4 DEF Towards
  <2>6. text \in ComesTo'
    BY <1>4, <1>8, <2>9
  <2>. QED
    BY <1>1, <2>1, <2>3, <2>5, <2>6 DEF RepliesInv, RepliesTyped
<1>. QED
  BY <1>1, <1>6, <1>7, <1>8

LEMMA ArrivedStays == ASSUME delivered' = delivered PROVE Arrived' = Arrived
  BY DEF Arrived

(* A step of the sending itself: the reply stays, and so does what it comes to. *)
LEMMA Onwards ==
  ASSUME UNCHANGED <<reply, bare>>, RepliesTyped', NEW text \in ComesTo, Towards(Solid(text))'
  PROVE  RepliesInv'
  BY ComesToStays DEF RepliesInv

LEMMA SendHtmlKeeps ==
  ASSUME RepliesTyped, NEW aim \in ComesTo, Towards(Solid(aim)), SendHtml
  PROVE  RepliesInv'
<1>. DEFINE text == messages[1].text
            tail == Tail(messages)
            whole == Solid(aim)
<1>1. /\ reply \in Seq(Block) /\ bare \in BOOLEAN /\ (bare => Len(reply) = 1) /\ messages \in Seq(Letters) /\ messages # <<>> /\ rest \in Seq(Short(MaxLen))
      /\ delivered \in Seq(Short(MaxLen)) /\ sending = "html" /\ Arrived \o Carried(messages) = whole
      /\ delivered' = Append(delivered, text) /\ messages' = tail /\ reply' = reply /\ bare' = bare /\ rest' = rest /\ sending' = sending
      /\ messages[1].length <= MaxLen
  BY DEF RepliesTyped, Towards, SendHtml
<1>2. messages[1] \in Letters /\ tail \in Seq(Letters) /\ Carried(messages) = Solid(text) \o Carried(tail)
  BY <1>1, CarriedFirst
<1>3. text \in Short(MaxLen)
  <2>1. text \in Seq(Char) /\ messages[1].length \in Nat /\ Len(text) <= messages[1].length
    BY <1>2, LettersHave
  <2>. DEFINE length == messages[1].length
  <2>. HIDE DEF text
  <2>2. Len(text) \in Nat /\ length \in Nat /\ MaxLen \in Nat /\ length <= MaxLen
    BY <1>1, <2>1, Limits
  <2>. HIDE DEF length
  <2>3. Len(text) <= length
    BY <2>1 DEF length
  <2>. QED
    BY <2>1, <2>2, <2>3 DEF Short
<1>4. delivered' \in Seq(Short(MaxLen)) /\ Arrived' = Arrived \o Solid(text)
  BY <1>1, <1>3, OneMoreArrives
<1>5. Arrived \in Seq(Char) /\ Solid(text) \in Seq(Char) /\ Carried(tail) \in Seq(Char)
  BY <1>1, <1>2, <1>3, ArrivedIsText, SolidIsText, CarriedIsText DEF Short
<1>6. Arrived' \o Carried(messages') = whole
  <2>. DEFINE first == Solid(text)
              more == Carried(tail)
              before == Arrived
              all == Carried(messages)
  <2>1. before \in Seq(Char) /\ first \in Seq(Char) /\ more \in Seq(Char)
    BY <1>5
  <2>2. all = first \o more /\ before \o all = whole
    BY <1>1, <1>2
  <2>. HIDE DEF first, more, before, all, whole
  <2>3. (before \o first) \o more = before \o (first \o more)
    BY <2>1, Regroup
  <2>4. (before \o first) \o more = whole
    BY <2>2, <2>3
  <2>. QED
    BY <1>1, <1>4, <2>4 DEF first, more, before
<1>7. RepliesTyped'
  BY <1>1, <1>2, <1>4 DEF RepliesTyped
<1>8. Towards(Solid(aim))'
  BY <1>1, <1>6 DEF Towards
<1>. QED
  BY <1>1, <1>7, <1>8, Onwards

LEMMA SendPlainKeeps ==
  ASSUME RepliesTyped, NEW aim \in ComesTo, Towards(Solid(aim)), SendPlain
  PROVE  RepliesInv'
<1>. DEFINE text == rest[1]
            tail == Tail(rest)
            whole == Solid(aim)
<1>1. /\ reply \in Seq(Block) /\ bare \in BOOLEAN /\ (bare => Len(reply) = 1) /\ messages \in Seq(Letters) /\ rest # <<>> /\ rest \in Seq(Short(MaxLen))
      /\ delivered \in Seq(Short(MaxLen)) /\ sending = "plain" /\ Arrived \o SolidOf(rest) = whole
      /\ delivered' = Append(delivered, text) /\ rest' = tail /\ reply' = reply /\ bare' = bare /\ messages' = messages /\ sending' = sending
  BY DEF RepliesTyped, Towards, SendPlain
<1>2. text \in Short(MaxLen) /\ tail \in Seq(Short(MaxLen)) /\ SolidOf(rest) = Solid(text) \o SolidOf(tail)
  BY <1>1, SolidOfFirst
<1>4. delivered' \in Seq(Short(MaxLen)) /\ Arrived' = Arrived \o Solid(text)
  BY <1>1, <1>2, OneMoreArrives
<1>5. Arrived \in Seq(Char) /\ Solid(text) \in Seq(Char) /\ SolidOf(tail) \in Seq(Char)
  BY <1>1, <1>2, ArrivedIsText, SolidIsText, SolidOfTexts, ShortAreTexts DEF Short
<1>6. Arrived' \o SolidOf(rest') = whole
  <2>. DEFINE first == Solid(text)
              more == SolidOf(tail)
              before == Arrived
              all == SolidOf(rest)
  <2>1. before \in Seq(Char) /\ first \in Seq(Char) /\ more \in Seq(Char)
    BY <1>5
  <2>2. all = first \o more /\ before \o all = whole
    BY <1>1, <1>2
  <2>. HIDE DEF first, more, before, all, whole
  <2>3. (before \o first) \o more = before \o (first \o more)
    BY <2>1, Regroup
  <2>4. (before \o first) \o more = whole
    BY <2>2, <2>3
  <2>. QED
    BY <1>1, <1>4, <2>4 DEF first, more, before
<1>7. RepliesTyped'
  BY <1>1, <1>2, <1>4 DEF RepliesTyped
<1>8. Towards(Solid(aim))'
  BY <1>1, <1>6 DEF Towards
<1>. QED
  BY <1>1, <1>7, <1>8, Onwards

LEMMA RejectHtmlKeeps ==
  ASSUME RepliesTyped, NEW aim \in ComesTo, Towards(Solid(aim)), RejectHtml
  PROVE  RepliesInv'
<1>1. /\ reply \in Seq(Block) /\ bare \in BOOLEAN /\ (bare => Len(reply) = 1) /\ messages \in Seq(Letters) /\ delivered \in Seq(Short(MaxLen))
      /\ Arrived \o Carried(messages) = Solid(aim)
      /\ rest' = PlainOf(messages) /\ messages' = <<>> /\ sending' = "plain" /\ reply' = reply /\ bare' = bare /\ delivered' = delivered
  BY DEF RepliesTyped, Towards, RejectHtml
<1>2. rest' \in Seq(Short(MaxLen)) /\ SolidOf(rest') = Carried(messages)
  BY <1>1, Limits, PlainIsTheRest
<1>3. Arrived' = Arrived /\ <<>> \in Seq(Letters)
  BY <1>1, ArrivedStays, EmptySeq
<1>7. RepliesTyped'
  BY <1>1, <1>2, <1>3 DEF RepliesTyped
<1>8. Towards(Solid(aim))'
  BY <1>1, <1>2, <1>3 DEF Towards
<1>. QED
  BY <1>1, <1>7, <1>8, Onwards

LEMMA SentKeeps ==
  ASSUME RepliesTyped, NEW aim \in ComesTo, Towards(Solid(aim)), Sent
  PROVE  RepliesInv'
<1>1. /\ reply \in Seq(Block) /\ bare \in BOOLEAN /\ (bare => Len(reply) = 1) /\ messages \in Seq(Letters) /\ delivered \in Seq(Short(MaxLen)) /\ rest \in Seq(Short(MaxLen))
      /\ sending' = "done" /\ reply' = reply /\ bare' = bare /\ messages' = messages /\ rest' = rest /\ delivered' = delivered
  BY DEF RepliesTyped, Towards, Sent
<1>2. Arrived' = Arrived
  BY <1>1, ArrivedStays
<1>3. Arrived \o <<>> = Arrived
  BY <1>1, ArrivedIsText, ConcatEmptySeq
<1>4. Arrived = Solid(aim)
  <2>1. CASE sending = "html" /\ messages = <<>>
    BY <1>3, <2>1, CarriedByNone DEF Towards
  <2>2. CASE sending = "plain" /\ rest = <<>>
    BY <1>3, <2>2, SolidOfNoTexts DEF Towards
  <2>. QED
    BY <2>1, <2>2 DEF Sent
<1>7. RepliesTyped'
  BY <1>1, <1>2, <1>4 DEF RepliesTyped
<1>8. Towards(Solid(aim))'
  BY <1>1, <1>2, <1>4 DEF Towards
<1>. QED
  BY <1>1, <1>7, <1>8, Onwards

LEMMA FailKeeps ==
  ASSUME RepliesTyped, NEW aim \in ComesTo, Towards(Solid(aim)), Fail
  PROVE  RepliesInv'
<1>1. /\ reply \in Seq(Block) /\ bare \in BOOLEAN /\ (bare => Len(reply) = 1) /\ messages \in Seq(Letters) /\ delivered \in Seq(Short(MaxLen)) /\ rest \in Seq(Short(MaxLen))
      /\ sending' = "lost" /\ reply' = reply /\ bare' = bare /\ messages' = messages /\ rest' = rest /\ delivered' = delivered
  BY DEF RepliesTyped, Towards, Fail
<1>2. Arrived' = Arrived
  BY <1>1, ArrivedStays
<1>3. \E more \in Seq(Char) : Arrived \o more = Solid(aim)
  <2>1. Carried(messages) \in Seq(Char) /\ SolidOf(rest) \in Seq(Char)
    BY <1>1, CarriedIsText, SolidOfTexts, ShortAreTexts
  <2>2. CASE sending = "html"
    BY <2>1, <2>2 DEF Towards
  <2>3. CASE sending = "plain"
    BY <2>1, <2>3 DEF Towards
  <2>. QED
    BY <2>2, <2>3 DEF Fail
<1>7. RepliesTyped'
  BY <1>1, <1>2, <1>3 DEF RepliesTyped
<1>8. Towards(Solid(aim))'
  BY <1>1, <1>2, <1>3 DEF Towards
<1>. QED
  BY <1>1, <1>7, <1>8, Onwards

LEMMA RepliesGoOn == RepliesInv /\ [RepliesNext]_replyvars => RepliesInv'
<1>. SUFFICES ASSUME RepliesInv, [RepliesNext]_replyvars PROVE RepliesInv'
  OBVIOUS
<1>8. PICK aim \in ComesTo : RepliesTyped /\ Towards(Solid(aim))
  BY DEF RepliesInv
<1>1. CASE \E fails \in BOOLEAN : Render(fails)
  BY <1>1, RenderKeeps
<1>2. CASE SendHtml
  BY <1>2, <1>8, SendHtmlKeeps
<1>3. CASE RejectHtml
  BY <1>3, <1>8, RejectHtmlKeeps
<1>4. CASE SendPlain
  BY <1>4, <1>8, SendPlainKeeps
<1>5. CASE Sent
  BY <1>5, <1>8, SentKeeps
<1>6. CASE Fail
  BY <1>6, <1>8, FailKeeps
<1>7. CASE UNCHANGED replyvars
  <2>1. UNCHANGED <<reply, bare>> /\ messages' = messages /\ rest' = rest /\ delivered' = delivered /\ sending' = sending
    BY <1>7 DEF replyvars
  <2>2. Arrived' = Arrived
    BY <2>1, ArrivedStays
  <2>3. RepliesTyped'
    BY <1>8, <2>1 DEF RepliesTyped
  <2>4. Towards(Solid(aim))'
    BY <1>8, <2>1, <2>2 DEF Towards
  <2>. QED
    BY <1>8, <2>1, <2>3, <2>4, Onwards
<1>. QED
  BY <1>1, <1>2, <1>3, <1>4, <1>5, <1>6, <1>7 DEF RepliesNext

LEMMA RepliesInvIsWhole == RepliesInv => RepliesWhole
<1>. SUFFICES ASSUME RepliesInv PROVE RepliesWhole
  OBVIOUS
<1>1. /\ RepliesTyped /\ messages \in Seq(Letters) /\ rest \in Seq(Short(MaxLen)) /\ delivered \in Seq(Short(MaxLen))
      /\ reply \in Seq(Block) /\ sending \in {"render", "html", "plain", "done", "lost"}
  BY DEF RepliesInv, RepliesTyped
<1>7. PICK aim \in ComesTo : Towards(Solid(aim))
  BY DEF RepliesInv
<1>8. PICK left \in Seq(Char) : Solid(aim) \o left = Solid(WholeText(reply))
  BY <1>1, ComesToTexts
<1>9. Solid(aim) \in Seq(Char) /\ Solid(WholeText(reply)) \in Seq(Char)
  BY <1>1, ComesToTexts
<1>2. \A i \in DOMAIN delivered : Len(delivered[i]) <= MaxLen
  <2>1. \A i \in 1 .. Len(delivered) : delivered[i] \in Short(MaxLen)
    BY <1>1, ElementOfSeq
  <2>2. DOMAIN delivered = 1 .. Len(delivered)
    BY <1>1
  <2>. QED
    BY <2>1, <2>2 DEF Short
<1>3. sending = "done" => Arrived = Solid(aim)
  BY <1>7 DEF Towards
<1>4. Arrived \in Seq(Char) /\ Arrived \o <<>> = Arrived /\ <<>> \in Seq(Char)
  BY <1>1, ArrivedIsText, ConcatEmptySeq, EmptySeq
<1>5. \E more \in Seq(Char) : Arrived \o more = Solid(aim)
  <2>1. CASE sending = "render"
    <3>1. Arrived = <<>>
      BY <1>7, <2>1, SolidOfNoTexts DEF Towards, Arrived, SolidOf
    <3>2. <<>> \o Solid(aim) = Solid(aim)
      BY <1>9, ConcatEmptySeq
    <3>. QED
      BY <1>9, <3>1, <3>2
  <2>2. CASE sending = "html"
    BY <1>1, <1>7, <2>2, CarriedIsText DEF Towards
  <2>3. CASE sending = "plain"
    BY <1>1, <1>7, <2>3, SolidOfTexts, ShortAreTexts DEF Towards
  <2>4. CASE sending = "done"
    BY <1>3, <1>4, <2>4
  <2>5. CASE sending = "lost"
    BY <1>7, <2>5 DEF Towards
  <2>. QED
    BY <1>1, <2>1, <2>2, <2>3, <2>4, <2>5
<1>6. IsPrefix(Arrived, Solid(WholeText(reply)))
  <2>1. PICK more \in Seq(Char) : Arrived \o more = Solid(aim)
    BY <1>5
  <2>2. (Arrived \o more) \o left = Arrived \o (more \o left)
    BY <1>4, <1>8, <2>1, Regroup
  <2>3. (Arrived \o more) \o left = Solid(WholeText(reply))
    BY <1>8, <2>1
  <2>4. more \o left \in Seq(Char)
    BY <1>8, <2>1, ConcatProperties
  <2>5. Arrived \o (more \o left) = Solid(WholeText(reply))
    BY <2>2, <2>3
  <2>. QED
    BY <1>4, <1>9, <2>4, <2>5, Beginning
<1>. QED
  BY <1>2, <1>3, <1>6 DEF RepliesWhole

(* However a reply is cut into messages, and whichever of them Telegram rejects
   or never gets, what has arrived is a beginning of the reply, in messages
   Telegram takes, and all of it once the sending is done; of a reply that
   renders to no block, at least what the cut at the limit leaves. *)
THEOREM RepliesArriveWhole == RepliesSpec => []RepliesWhole
<1>. QED
  BY RepliesBegin, RepliesGoOn, RepliesInvIsWhole, PTL DEF RepliesSpec
===============================================================================
