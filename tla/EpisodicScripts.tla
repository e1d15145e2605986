----------------------------- MODULE EpisodicScripts -----------------------------
(***************************************************************************)
(* The two scripts that rewrite the episodic collection:                   *)
(* scripts/repair_episodic.py (export, backup, drop, create, add back) and *)
(* scripts/dedupe_episodic.py (backup, delete all but the earliest of each *)
(* group of equal rows).  A script may be killed between any two steps and *)
(* started again, and the bot may still be storing rows.                   *)
(***************************************************************************)
EXTENDS Integers, FiniteSets

CONSTANTS Rows,       \* every row there may be, numbered
          Newcomers,  \* those the bot may store while a script runs
          KeyOf,      \* KeyOf[r]: chat and content of a row
          StampOf,    \* StampOf[r]: its timestamp and sequence number, as one number
          Batch,      \* BATCH: rows in one call
          MaxStarts   \* bound on how often a script is started

ASSUME ScriptsBounds ==
  Newcomers \subseteq Rows /\ StampOf \in [Rows -> Nat] /\ Batch \in Nat \ {0} /\ MaxStarts \in Nat

VARIABLES script,     \* the script that runs: repair, dedupe, none
          step,       \* where it is
          starts,     \* how often one was started
          path,       \* its backup file
          collection, \* the rows
          broken,     \* whether the index has lost an entry
          export,     \* the rows the script works on
          read,       \* history: every row some script has read
          todo,       \* those it still has to add or to delete
          backups,    \* the rows in each backup file
          rewritten,  \* the backup files that were written twice
          said        \* the exit of the last run that ended

scriptvars == <<script, step, starts, path, collection, broken, export, read, todo, backups, rewritten, said>>

Given == 0     \* --backup; any other file is a fresh temporary one

ScriptInit ==
  /\ collection \in SUBSET (Rows \ Newcomers) /\ broken \in BOOLEAN
  /\ script = "none" /\ step = "idle" /\ starts = 0 /\ path = Given /\ export = {} /\ read = {} /\ todo = {}
  /\ backups = [p \in {} |-> {}] /\ rewritten = {} /\ said = "nothing"

Exit(word) == said' = word /\ script' = "none" /\ step' = "idle"

\* main: a script starts on the collection as it is, or on a new one if there is none.
Start(name, p) ==
  /\ script = "none" /\ starts < MaxStarts
  /\ script' = name /\ step' = (IF name = "repair" THEN "probe" ELSE "export")
  /\ starts' = starts + 1 /\ path' = (IF p = Given THEN Given ELSE starts')
  /\ export' = {} /\ todo' = {}
  /\ said' = "nothing"
  /\ UNCHANGED <<collection, broken, read, backups, rewritten>>

\* _probe: what is not broken is not rebuilt.
Probe ==
  /\ script = "repair" /\ step = "probe"
  /\ IF broken THEN step' = "export" /\ UNCHANGED <<script, said>> ELSE Exit("clean")
  /\ UNCHANGED <<starts, path, collection, broken, export, read, todo, backups, rewritten>>

Groups(rows) == {{s \in rows : KeyOf[s] = KeyOf[r]} : r \in rows}
Keep(group) == CHOOSE r \in group : \A s \in group : StampOf[r] <= StampOf[s]

\* Mutant: the earliest goes too.
DuplicatesWithFirst(rows) == UNION {group : group \in {g \in Groups(rows) : Cardinality(g) > 1}}

\* _find_duplicate_groups: of each group of equal rows all but the earliest.
Duplicates(rows) == UNION {group \ {Keep(group)} : group \in Groups(rows)}

\* _export and _fetch_all.
Export ==
  /\ step = "export"
  /\ read' = read \cup collection
  /\ export' = (IF script = "repair" THEN collection ELSE Duplicates(collection))
  /\ IF script = "dedupe" /\ export' = {} THEN Exit("noDuplicates")
     ELSE step' = "backup" /\ UNCHANGED <<script, said>>
  /\ UNCHANGED <<starts, path, collection, broken, todo, backups, rewritten>>

\* The rows are counted once more, then written to the backup.
Backup ==
  /\ step = "backup"
  /\ IF script = "repair" /\ Cardinality(export) # Cardinality(collection)
     THEN Exit("aborted") /\ UNCHANGED <<backups, rewritten, todo>>
     ELSE /\ backups' = [p \in DOMAIN backups \cup {path} |-> IF p = path THEN export ELSE backups[p]]
          /\ rewritten' = rewritten \cup (DOMAIN backups \cap {path})
          /\ todo' = export
          /\ step' = (IF script = "repair" THEN "drop" ELSE "delete") /\ UNCHANGED <<script, said>>
  /\ UNCHANGED <<starts, path, collection, broken, export, read>>

\* _rebuild: the collection is dropped, created, and filled again batch by batch.
Drop ==
  /\ step = "drop"
  /\ collection' = {} /\ broken' = FALSE /\ step' = "add"
  /\ UNCHANGED <<script, starts, path, export, read, todo, backups, rewritten, said>>

\* A slice of BATCH rows, or what is left, in whatever order the collection gave them.
Slices ==
  IF Cardinality(todo) <= Batch THEN {todo} ELSE {slice \in SUBSET todo : Cardinality(slice) = Batch}

Add ==
  /\ step = "add" /\ todo # {}
  /\ \E slice \in Slices : collection' = collection \cup slice /\ todo' = todo \ slice
  /\ UNCHANGED <<script, step, starts, path, broken, export, read, backups, rewritten, said>>

\* The rows are counted and the index probed again.
Verify(again) ==
  /\ step = "add" /\ todo = {}
  /\ broken' = again
  /\ Exit(IF Cardinality(collection) # Cardinality(export) THEN "mismatch" ELSE IF again THEN "failed" ELSE "rebuilt")
  /\ UNCHANGED <<starts, path, collection, export, read, todo, backups, rewritten>>

DeleteBatch ==
  /\ step = "delete"
  /\ IF todo = {} THEN Exit("deleted") /\ UNCHANGED <<collection, todo>>
     ELSE /\ \E slice \in Slices : collection' = collection \ slice /\ todo' = todo \ slice
          /\ UNCHANGED <<script, step, said>>
  /\ UNCHANGED <<starts, path, broken, export, read, backups, rewritten>>

\* The process is killed.
Killed ==
  /\ script # "none"
  /\ script' = "none" /\ step' = "idle"
  /\ UNCHANGED <<starts, path, collection, broken, export, read, todo, backups, rewritten, said>>

\* EpisodicMemory.store of a bot that is still up; of a dropped collection its handle is no good.
BotStores(r) ==
  /\ r \in Newcomers \ collection /\ step \notin {"add"}
  /\ collection' = collection \cup {r}
  /\ UNCHANGED <<script, step, starts, path, broken, export, read, todo, backups, rewritten, said>>

ScriptNext ==
  \/ \E name \in {"repair", "dedupe"}, p \in {Given, 1} : Start(name, p)
  \/ Probe \/ Export \/ Backup \/ Drop \/ Add \/ DeleteBatch \/ Killed
  \/ \E again \in BOOLEAN : Verify(again)
  \/ \E r \in Newcomers : BotStores(r)

ScriptSpec == ScriptInit /\ [][ScriptNext]_scriptvars

--------------------------------------------------------------------------------
Saved == UNION {backups[p] : p \in DOMAIN backups}

(* Wherever a script is killed, and however often it is started again, a row
   that some script has read is in the collection or in a backup file, as long
   as no backup given by hand is written over; of equal rows the earliest is deleted by none;
   and a run that says it has rebuilt the collection has put back every row
   (repair_episodic.py:119-190, dedupe_episodic.py:64-148). *)
RowsSurvive ==
  /\ Given \notin rewritten => read \subseteq collection \cup Saved
  /\ step = "delete" => \A r \in export : \E s \in collection \ export : KeyOf[s] = KeyOf[r] /\ StampOf[s] <= StampOf[r]
  /\ said = "rebuilt" => export \subseteq collection
================================================================================
