------------------------------- MODULE AgentNodes -------------------------------
(***************************************************************************)
(* workflow/agent_node.py and the tools that the nodes of one run share:   *)
(* concurrent tasks, often of one role, each with an agent whose tools are *)
(* bound to the task and to the run's workspace, over one mailbox, one     *)
(* memory in Redis and one file system.                                    *)
(***************************************************************************)
EXTENDS Agents, SequencesExt

CONSTANTS Nodes,      \* the tasks that run at once
          NodeRoles,  \* the roles they may have
          Keys,       \* a sequence of keys of the shared memory, in alphabetical order
          Shown,      \* how many entries memory_recent shows
          MaxUses,    \* bound on the calls of tools
          MaxSends    \* bound on the messages sent to the run

(* Paths by where they lie: in the run's workspace; beside it, in a directory
   whose name begins with the workspace's name; elsewhere in the project. *)
Paths == {"inside", "beside", "project"}
Below(root) == IF root = "sandbox" THEN {"inside"} ELSE Paths

ASSUME NodesBounds ==
  /\ NodeRoles \subseteq Roles /\ Nodes \cap NodeRoles = {}
  /\ DOMAIN Keys = 1..Len(Keys) /\ Range(Keys) \cap Paths = {}
  /\ Shown \in Nat \ {0} /\ MaxUses \in Nat /\ MaxSends \in Nat

VARIABLES handed,    \* what the runner hands the nodes: a "channel", a "workspace"
          noderole,
          heap,      \* the agent objects: the router's, one a role, and a fresh one a task
          started,   \* the tasks whose runner has its agent
          sent, inbox, took,  \* messages to the run: all, those waiting, those taken with the taker
          outbox,    \* updates to the orchestrator, newest first: the task named, the task that pushed
          entries,   \* wm:dag: who stored each key last
          files,     \* who wrote each path, and with what kind of tool
          creating,  \* a file_create between its look and its write
          shown,     \* what the last answer to each task shows: files and keys it named, files a pattern matched
          uses

nodevars == <<handed, noderole, heap, started, sent, inbox, took, outbox,
              entries, files, creating, shown, uses>>

NoAgent == [t \in {} |-> t]
Nobody == [by |-> "nobody", via |-> "nobody"]
User == [by |-> "user", via |-> "editor"]

NodesInit ==
  /\ handed \in SUBSET {"channel", "workspace"} /\ noderole \in [Nodes -> NodeRoles]
  /\ heap = [a \in Nodes \cup NodeRoles |-> NoAgent] /\ started = {}
  /\ sent = <<>> /\ inbox = <<>> /\ took = <<>> /\ outbox = <<>>
  /\ entries = [k \in Range(Keys) |-> "nobody"]
  /\ files = [p \in Paths |-> IF p = "inside" THEN Nobody ELSE User]
  /\ creating = [n \in Nodes |-> "-"] /\ shown = [n \in Nodes |-> [named |-> {}, matched |-> {}]] /\ uses = 0

--------------------------------------------------------------------------------
\* agent_node.py and routing.py: the agent of a task.

\* Tools in place of any the agent has of their names; a handler is bound to a root of paths and a task.
WithTools(agent, tools, root, task) ==
  [t \in DOMAIN agent \cup tools |-> IF t \in tools THEN [root |-> root, task |-> task] ELSE agent[t]]

\* routing.py, _instantiate: the tools that the class registers, rooted in the project.
Built(role) == WithTools(NoAgent, AgentOf[role].tools, "project", "-")

\* The file tools and the shell of make_file_tools.
Sandboxed(agent) == WithTools(agent, FileTools \cup {"shell"}, "sandbox", "-")

WithChannel(agent, n) == WithTools(agent, ChannelTools, "project", n)

\* Mutant: tasks of one role share the agent of the router.
AgentObjectOfRole(n) == noderole[n]

\* With a channel, an agent of the task's own; else the one that the router keeps for the role.
AgentObject(n) == IF "channel" \in handed THEN n ELSE noderole[n]

Equip(n) ==
  LET built == Built(noderole[n]) IN
  IF "channel" \in handed THEN WithChannel(IF "workspace" \in handed THEN Sandboxed(built) ELSE built, n)
  ELSE IF heap[noderole[n]] # NoAgent THEN heap[noderole[n]] ELSE built

Run(n) ==
  /\ n \notin started
  /\ started' = started \cup {n}
  /\ heap' = [heap EXCEPT ![AgentObject(n)] = Equip(n)]
  /\ UNCHANGED <<handed, noderole, sent, inbox, took, outbox, entries, files, creating, shown, uses>>

--------------------------------------------------------------------------------
\* The handlers, each called by a started task whose agent has the tool.

Agent(n) == heap[AgentObject(n)]

Uses(n, tool) ==
  /\ n \in started /\ tool \in DOMAIN Agent(n) /\ creating[n] = "-"
  /\ uses < MaxUses /\ uses' = uses + 1
  /\ UNCHANGED <<handed, noderole, heap, started, sent>>

Says(n, what) == shown' = [shown EXCEPT ![n] = [named |-> what, matched |-> {}]]
Matches(n, what) == shown' = [shown EXCEPT ![n] = [named |-> {}, matched |-> what]]

\* dag_tools: an update is tagged with the task the tool was built for.
PushUpdate(n) ==
  /\ Uses(n, "dag_push_update")
  /\ outbox' = <<[tag |-> Agent(n)["dag_push_update"].task, by |-> n]>> \o outbox
  /\ Says(n, {}) /\ UNCHANGED <<inbox, took, entries, files, creating>>

\* The list is pushed at its head and popped at its tail: the oldest message.
Oldest(queue) == Last(queue)

CheckInbox(n) ==
  /\ Uses(n, "dag_check_inbox")
  /\ IF inbox = <<>> THEN UNCHANGED <<inbox, took>>
     ELSE /\ took' = Append(took, [msg |-> Oldest(inbox), by |-> n])
          /\ inbox' = Front(inbox)
  /\ Says(n, {}) /\ UNCHANGED <<outbox, entries, files, creating>>

\* workflow_send, and the key's expiry when a run outlives it.
PushInbox ==
  /\ Len(sent) < MaxSends
  /\ sent' = Append(sent, Len(sent) + 1) /\ inbox' = <<Len(sent) + 1>> \o inbox
  /\ UNCHANGED <<handed, noderole, heap, started, took, outbox, entries, files, creating, shown, uses>>

ExpireInbox ==
  /\ inbox # <<>> /\ inbox' = <<>>
  /\ UNCHANGED <<handed, noderole, heap, started, sent, took, outbox, entries, files, creating, shown, uses>>

\* agent_dag_tools: the memory is one for all runs and keeps no order but that of the keys.
Stored == {k \in DOMAIN entries : entries[k] # "nobody"}

MemoryStore(n) ==
  /\ Uses(n, "memory_store") /\ \E k \in DOMAIN entries : entries' = [entries EXCEPT ![k] = n]
  /\ Says(n, {}) /\ UNCHANGED <<inbox, took, outbox, files, creating>>

MemoryGet(k) == {k} \cap Stored
MemoryRecent ==
  {Keys[i] : i \in {i \in DOMAIN Keys : Keys[i] \in Stored /\ Cardinality({j \in 1..i : Keys[j] \in Stored}) <= Shown}}
MemorySearch(ks) == ks \cap Stored

ReadMemory(n) ==
  /\ \/ Uses(n, "memory_get") /\ \E k \in DOMAIN entries : Says(n, MemoryGet(k))
     \/ Uses(n, "memory_recent") /\ Says(n, MemoryRecent)
     \/ Uses(n, "memory_search") /\ \E ks \in SUBSET DOMAIN entries : Says(n, MemorySearch(ks))
  /\ UNCHANGED <<inbox, took, outbox, entries, files, creating>>

\* agent_file_tools: a path must resolve to the root or below it.
Safe(root, p) == p \in Below(root)

There == {p \in Paths : files[p] # Nobody}

\* A file is read, or described, if it is there.
FileRead(p) == {p} \cap There
FileReadLines(p) == {p} \cap There
FileInfo(p) == {p} \cap There

\* A directory's entries, filtered by their names.
FileList(d) == {d} \cap There

(* The names, or the lines, of what rglob yields for a pattern: the pattern is
   not resolved as a path is, and may step up or match a link. *)
FileSearch(match) == match \cap There
FileGrep(match) == match \cap There

Root(n, tool) == Agent(n)[tool].root

\* A path outside the root is answered with an error, by every tool alike.
Guarded(n, tool, p, what) == IF Safe(Root(n, tool), p) THEN what ELSE {}

ReadFiles(n) ==
  /\ \E p \in Paths, match \in {{}, {"inside"}, Paths} :
       \/ Uses(n, "file_read") /\ Says(n, Guarded(n, "file_read", p, FileRead(p)))
       \/ Uses(n, "file_read_lines") /\ Says(n, Guarded(n, "file_read_lines", p, FileReadLines(p)))
       \/ Uses(n, "file_info") /\ Says(n, Guarded(n, "file_info", p, FileInfo(p)))
       \/ Uses(n, "file_list") /\ Says(n, Guarded(n, "file_list", p, FileList(p)))
       \/ Uses(n, "file_search") /\ Matches(n, Guarded(n, "file_search", p, FileSearch(match)))
       \/ Uses(n, "file_grep") /\ Matches(n, Guarded(n, "file_grep", p, FileGrep(match)))
  /\ UNCHANGED <<inbox, took, outbox, entries, files, creating>>

Write(n, p, kind) == files' = [files EXCEPT ![p] = [by |-> n, via |-> kind]]

FileWrite(n, p) ==
  /\ Uses(n, "file_write")
  /\ IF Safe(Root(n, "file_write"), p) THEN Write(n, p, "file") /\ Says(n, {})
     ELSE UNCHANGED files /\ Says(n, {})
  /\ UNCHANGED <<inbox, took, outbox, entries, creating>>

\* file_create looks, in its thread, and then writes: other threads run in between.
FileCreateLooks(n, p) ==
  /\ Uses(n, "file_create")
  /\ IF ~Safe(Root(n, "file_create"), p) THEN UNCHANGED creating /\ Says(n, {})
     ELSE IF files[p] # Nobody THEN UNCHANGED creating /\ Says(n, {})
     ELSE creating' = [creating EXCEPT ![n] = p] /\ UNCHANGED shown
  /\ UNCHANGED <<inbox, took, outbox, entries, files>>

FileCreateWrites(n) ==
  /\ creating[n] # "-"
  /\ Write(n, creating[n], "file") /\ Says(n, {}) /\ creating' = [creating EXCEPT ![n] = "-"]
  /\ UNCHANGED <<handed, noderole, heap, started, sent, inbox, took, outbox, entries, uses>>

\* The shell starts in the root, and its command goes where it likes.
Shell(n) ==
  /\ Uses(n, "shell")
  /\ UNCHANGED files \/ \E p \in Paths : Write(n, p, "shell")
  /\ Says(n, {}) /\ UNCHANGED <<inbox, took, outbox, entries, creating>>

NodesNext ==
  \/ PushInbox
  \/ ExpireInbox
  \/ \E n \in Nodes :
       \/ Run(n) \/ PushUpdate(n) \/ CheckInbox(n) \/ MemoryStore(n) \/ ReadMemory(n)
       \/ ReadFiles(n) \/ Shell(n) \/ FileCreateWrites(n)
       \/ \E p \in Paths : FileWrite(n, p) \/ FileCreateLooks(n, p)

NodesSpec == NodesInit /\ [][NodesNext]_nodevars

NodesTypeOK ==
  /\ started \subseteq Nodes /\ uses \in 0..MaxUses
  /\ \A n \in Nodes : creating[n] \in Paths \cup {"-"}
  /\ DOMAIN entries = Range(Keys) /\ DOMAIN files = Paths

--------------------------------------------------------------------------------
Boxed == {"channel", "workspace"} \subseteq handed

(* agent_node.py:63-88.  Tasks of one role run at once, and what one is given
   never shows at another: an update names the task that pushed it, the
   router's own agents have no task's tools, and in a run with a workspace no
   file tool writes a file outside it and none shows one outside that the task
   names.  What a pattern matches is another matter: SearchesStayInside. *)
TasksKeepApart ==
  /\ \A i \in DOMAIN outbox : outbox[i].tag = outbox[i].by
  /\ \A r \in NodeRoles : DOMAIN heap[r] \cap ChannelTools = {}
  /\ Boxed =>
       /\ \A p \in Paths \ {"inside"} : files[p].via # "file"
       /\ \A n \in Nodes : shown[n].named \cap Paths \subseteq {"inside"}

(* agent_file_tools.py:60: "Any path that resolves outside *workspace_root*
   returns an ERROR string".  Of file_search and file_grep only the directory
   is resolved, not what the pattern matches. *)
SearchesStayInside == Boxed => \A n \in Nodes : shown[n].matched \subseteq {"inside"}

(* dag_channel.py, push_inbox and pop_inbox.  However many tasks check it, a
   message to a run is taken at most once, the oldest first: what was taken and
   what waits come in the order of sending. *)
InboxInOrder ==
  LET line == [i \in DOMAIN took |-> took[i].msg] \o Reverse(inbox) IN
  \A i, j \in DOMAIN line : i < j => line[i] < line[j]

\* Tasks that run at once share agents, files and an inbox without harm.
NodesSound == NodesTypeOK /\ TasksKeepApart /\ InboxInOrder
================================================================================
