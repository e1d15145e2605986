--------------------------------- MODULE Agents ---------------------------------
(***************************************************************************)
(* The seven agents of agents/: the tools each registers when it is built  *)
(* and which of them its execute offers to the model.                      *)
(***************************************************************************)
EXTENDS FiniteSets, Sequences, Integers

FileTools == {"file_read", "file_read_lines", "file_write", "file_create",
              "file_list", "file_search", "file_grep", "file_info"}
MemoryTools == {"memory_recent", "memory_get", "memory_store", "memory_search"}
ChannelTools == {"dag_push_update", "dag_check_inbox"}

\* Tools that may be called without a single argument.
NothingRequired == {"file_list", "memory_recent", "dag_check_inbox"}

(* An agent: what it registers, and what its execute passes on to the chat:
   "all" it has, "none" of it, all "if" its model can call tools, or a refusal
   "unless" it can. *)
Planner    == [tools |-> {}, offers |-> "none"]
Critic     == [tools |-> {}, offers |-> "none"]
Summarizer == [tools |-> {}, offers |-> "none"]
Researcher == [tools |-> {"web_search", "fetch_url", "memory_search"}, offers |-> "if"]
Coder      == [tools |-> FileTools \cup {"shell", "validate_syntax"}, offers |-> "all"]
ToolCaller == [tools |-> FileTools \cup MemoryTools, offers |-> "unless"]
MemoryAgent == [tools |-> MemoryTools, offers |-> "all"]

\* workflow/routing.py: the agent of each role.
AgentOf == [planner |-> Planner, researcher |-> Researcher, coder |-> Coder, critic |-> Critic,
            summarizer |-> Summarizer, tool_caller |-> ToolCaller, memory |-> MemoryAgent]
Roles == DOMAIN AgentOf

\* What _chat may offer, of the tools the agent has now.
Offered(role, tools, calling) ==
  IF AgentOf[role].offers = "none" \/ (AgentOf[role].offers = "if" /\ ~calling) THEN {} ELSE tools

Refuses(role, calling) == AgentOf[role].offers = "unless" /\ ~calling
================================================================================
