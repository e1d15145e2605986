------------------------------- MODULE MCServices -------------------------------
(***************************************************************************)
(* Four parts of the bot's process that share no state, one beside the     *)
(* other: the updates of Telegram and the releases, the process with its   *)
(* poller, the plugins, and the model and the tools within a turn.  part   *)
(* says which of them a behaviour is of.                                   *)
(***************************************************************************)
EXTENDS ToolLoopProps, BotUpdates, BotRuntime, PluginHost

VARIABLE part

services == <<part, vars, buvars, brvars, phvars>>

ServicesInit ==
  /\ part \in {"loop", "updates", "runtime", "plugins"} /\ Init /\ BUInit /\ BRInit /\ PHInit
  /\ part # "runtime" => admin     \* one of the runtime's initial states will do

ServicesNext ==
  /\ UNCHANGED part
  /\ \/ part = "loop" /\ Next /\ UNCHANGED <<buvars, brvars, phvars>>
     \/ part = "updates" /\ BUNext /\ UNCHANGED <<vars, brvars, phvars>>
     \/ part = "runtime" /\ BRNext /\ UNCHANGED <<vars, buvars, phvars>>
     \/ part = "plugins" /\ PHNext /\ UNCHANGED <<vars, buvars, brvars>>

ServicesSpec == ServicesInit /\ [][ServicesNext]_services /\ BRFairness
================================================================================
