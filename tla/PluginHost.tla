------------------------------- MODULE PluginHost -------------------------------
(***************************************************************************)
(* The hot-reloaded tool plugins: the loop of                              *)
(* telegram_interface/_plugin_scanner.py scans the plugin directory again  *)
(* and again (plugins/plugin_manager.py), and each scan reconciles the     *)
(* modules in memory with the files (plugins/_loader.py).                  *)
(*                                                                         *)
(* A file is edited by somebody else, at any moment, between the stat of a *)
(* scan and its import too.  Each edit has a version of its own, which is  *)
(* its mtime, and is of one of the kinds in Edits.  A module is the pair   *)
(* of the version its first statements come from and the version of its    *)
(* build(): Python executes a reload in the module's own namespace, so a   *)
(* reload that raises half way, or whose file defines no build(), leaves a *)
(* mixture.                                                                *)
(***************************************************************************)
EXTENDS Integers, FiniteSets

CONSTANTS
  Plugins,    \* names of plugin files
  MaxEdits,   \* bound: edits of the directory
  NoMod       \* a model value: no such module, no tools

ASSUME PHAssumption == MaxEdits \in Nat /\ NoMod \notin Plugins /\ NoMod \notin [top : Nat, build : Nat]

\* What an edit may leave in a file: a plugin that loads and builds, one that
\* does not compile, one that raises half way, one without a build(), one whose
\* build() raises or returns something else than tools.
Edits == {"good", "syntax", "raises", "nobuild", "badbuild"}

VARIABLES
  disk,      \* per plugin: its version, 0 when the file is absent
  kindOf,    \* per version: its kind
  edits,     \* versions so far
  modules,   \* PluginManager._modules: [top, build] or NoMod
  imported,  \* sys.modules, from which nothing is ever removed
  mtimes,    \* PluginManager._mtimes
  goodTools, \* PluginManager._good_tools: the module that built them, or NoMod
  tools,     \* PluginManager._tools: per plugin, the module that built its part
  todo,      \* files the scan in hand has still to look at
  at,        \* the file it has taken the stat of, or NoMod
  stat,      \* and its mtime
  stale,     \* history: plugins whose code was answered from sys.modules
  quiet      \* history: no edit since the last scan began

phvars == <<disk, kindOf, edits, modules, imported, mtimes, goodTools, tools, todo, at, stat, stale, quiet>>

Mixtures == {NoMod} \cup [top : 1 .. MaxEdits, build : 0 .. MaxEdits]

PHTypeOK ==
  /\ edits \in 0 .. MaxEdits /\ disk \in [Plugins -> 0 .. MaxEdits] /\ kindOf \in [1 .. MaxEdits -> Edits]
  /\ \A f \in {modules, imported, goodTools, tools} : f \in [Plugins -> Mixtures]
  /\ mtimes \in [Plugins -> 0 .. MaxEdits] /\ todo \subseteq Plugins /\ at \in todo \cup {NoMod}
  /\ stat \in 0 .. MaxEdits /\ stale \subseteq Plugins /\ quiet \in BOOLEAN

PHInit ==
  /\ disk = [p \in Plugins |-> 0] /\ mtimes = disk /\ edits = 0 /\ stat = 0 /\ at = NoMod
  /\ kindOf = [v \in 1 .. MaxEdits |-> "good"]
  /\ modules = [p \in Plugins |-> NoMod] /\ imported = modules /\ goodTools = modules /\ tools = modules
  /\ todo = {} /\ stale = {} /\ quiet = FALSE

--------------------------------------------------------------------------------
\* Somebody writes, or removes, a plugin file.
Edit(p) ==
  /\ edits < MaxEdits /\ edits' = edits + 1
  /\ disk' = [disk EXCEPT ![p] = edits + 1] /\ quiet' = FALSE
  /\ \E k \in Edits : kindOf' = [kindOf EXCEPT ![edits + 1] = k]
  /\ UNCHANGED <<modules, imported, mtimes, goodTools, tools, todo, at, stat, stale>>

Unlink(p) ==
  /\ disk[p] # 0 /\ disk' = [disk EXCEPT ![p] = 0] /\ quiet' = FALSE
  /\ UNCHANGED <<kindOf, edits, modules, imported, mtimes, goodTools, tools, todo, at, stat, stale>>

\* build() of a module fails when the version it comes from says so.
Builds(m) == kindOf[m.build] # "badbuild"

\* Mutant: a build that fails takes the tools away.
GoodAfterWiped(p, m) == IF m = NoMod \/ (m # NoMod /\ (m.build = 0 \/ ~Builds(m))) THEN NoMod ELSE m

\* What is kept as the good tools of a plugin whose module is m: none without a
\* module or a build(), the new ones, or, when build() fails, the last good ones.
GoodAfter(p, m) ==
  IF m = NoMod \/ (m # NoMod /\ m.build = 0) THEN NoMod ELSE IF Builds(m) THEN m ELSE goodTools[p]

\* After the last file scan() calls every build() and swaps the tool list.
Swap ==
  IF todo' = {} THEN /\ goodTools' = [p \in Plugins |-> GoodAfter(p, modules'[p])] /\ tools' = goodTools'
  ELSE UNCHANGED <<goodTools, tools>>

Present == {p \in Plugins : disk[p] # 0}

\* A scan begins, unless the last one saw the directory as it is; reconcile()
\* lists the files and drops what is gone.
Scan ==
  /\ todo = {} /\ ~quiet /\ quiet' = TRUE /\ todo' = Present
  /\ modules' = [p \in Plugins |-> IF p \in Present THEN modules[p] ELSE NoMod]
  /\ mtimes' = [p \in Plugins |-> IF p \in Present THEN mtimes[p] ELSE 0]
  /\ Swap /\ UNCHANGED <<disk, kindOf, edits, imported, at, stat, stale>>

\* The stat of a listed file; one that is gone by now is skipped.
Stat(p) ==
  /\ at = NoMod /\ p \in todo /\ UNCHANGED <<disk, kindOf, edits, modules, imported, mtimes, stale, quiet>>
  /\ IF disk[p] = 0 THEN todo' = todo \ {p} /\ Swap /\ UNCHANGED <<at, stat>>
     ELSE at' = p /\ stat' = disk[p] /\ UNCHANGED <<todo, goodTools, tools>>

\* What executing version v of a file leaves of a module that was old.
Executed(v, old) ==
  IF v = 0 \/ (v # 0 /\ kindOf[v] = "syntax") THEN old
  ELSE [top |-> v, build |-> IF kindOf[v] \notin {"raises", "nobuild"} THEN v
                             ELSE IF old = NoMod THEN 0 ELSE old.build]

\* The execution fails; so does that of a file that has gone meanwhile.
Raises(v) == v = 0 \/ (v # 0 /\ kindOf[v] \in {"syntax", "raises"})

\* The code a load executes, and the mtime that is kept with it.
Read(p) == [code |-> disk[p], mtime |-> stat]

\* importlib.import_module: a name Python has imported before is answered from
\* sys.modules, whatever the file says; a failed first import leaves nothing.
Import(p) ==
  IF imported[p] # NoMod
  THEN /\ modules' = [modules EXCEPT ![p] = imported[p]] /\ mtimes' = [mtimes EXCEPT ![p] = Read(p).mtime]
       /\ stale' = stale \cup {p} /\ UNCHANGED imported
  ELSE /\ UNCHANGED stale
       /\ IF Raises(Read(p).code) THEN UNCHANGED <<modules, imported, mtimes>>
          ELSE /\ modules' = [modules EXCEPT ![p] = Executed(Read(p).code, NoMod)]
               /\ imported' = [imported EXCEPT ![p] = modules'[p]] /\ mtimes' = [mtimes EXCEPT ![p] = Read(p).mtime]

\* importlib.reload: a failure leaves the old mtime, so the next scan tries again.
Reload(p) ==
  LET v == Read(p).code IN
  /\ modules' = [modules EXCEPT ![p] = Executed(v, @)] /\ imported' = [imported EXCEPT ![p] = modules'[p]]
  /\ IF Raises(v) THEN UNCHANGED <<mtimes, stale>>
     ELSE mtimes' = [mtimes EXCEPT ![p] = Read(p).mtime] /\ stale' = stale \ {p}

\* The file is imported when it is new and reloaded when its mtime has changed.
Load(p) ==
  /\ at = p /\ at' = NoMod /\ todo' = todo \ {p}
  /\ IF modules[p] = NoMod THEN Import(p)
     ELSE IF mtimes[p] # stat THEN Reload(p) ELSE UNCHANGED <<modules, imported, mtimes, stale>>
  /\ Swap /\ UNCHANGED <<disk, kindOf, edits, stat, quiet>>

PHNext == Scan \/ \E p \in Plugins : Edit(p) \/ Unlink(p) \/ Stat(p) \/ Load(p)

PHSpec == PHInit /\ [][PHNext]_phvars

--------------------------------------------------------------------------------
\* After a scan that no edit disturbed, the tools of a good file are those of its
\* present version, whole: no broken edit in between, no edit during an earlier
\* scan leaves an old version behind.  Not so for a file that was removed and
\* came back (_loader.py: "import new ones, reload changed ones (mtime-based)").
Scanned(p) == todo = {} /\ quiet /\ disk[p] # 0 /\ kindOf[disk[p]] = "good"
Current(p) == tools[p] = [top |-> disk[p], build |-> disk[p]]
FreshAfterScan == \A p \in Plugins : Scanned(p) /\ p \notin stale => Current(p)

\* A plugin that has tools keeps some until its file is gone: no edit, however
\* broken, and no order of edits and scans takes them away (plugin_manager.py:
\* "a broken edit never wipes a working tool").
WorkingToolsKept ==
  [][\A p \in Plugins : tools[p] # NoMod /\ tools'[p] = NoMod => modules'[p] = NoMod]_phvars

\* Editing a plugin under the running bot brings its new tools and never
\* costs the old ones.
PluginsSound == []PHTypeOK /\ []FreshAfterScan /\ WorkingToolsKept

\* The same as FreshAfterScan, for files that came back as well: a new file is
\* imported (_loader.py: "Drop removed, import new, reload changed").
NewFilesAreImported == \A p \in Plugins : Scanned(p) => Current(p)
================================================================================
