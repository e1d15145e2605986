---------------------------------- MODULE Setup ----------------------------------
(***************************************************************************)
(* The first start and the later ones (run.sh), the checks of the system   *)
(* (setup/checks.py) and the wizard that asks for providers, keys and      *)
(* services and writes .env and goat2.toml (setup/wizard.py).  It can be   *)
(* left at a question, and killed at any step; a file that is being        *)
(* written when it is killed stays cut.                                    *)
(***************************************************************************)
EXTENDS Integers, FiniteSets

CONSTANTS Providers,    \* the providers in providers.toml
          Keyed,        \* those that need a key
          Services,     \* the optional services in services.toml
          Enabled,      \* what goat2.default.toml enables
          MaxSessions   \* bound on the starts

ASSUME SetupBounds == Keyed \subseteq Providers /\ Enabled \subseteq Providers \cup Services /\ MaxSessions \in Nat

VARIABLES stage,      \* the question or the file the wizard is at; idle, complete, started
          by,         \* what was started: run.sh, or the wizard alone
          sessions,
          answers,    \* of this session
          env, toml,  \* the files
          envBackup, tomlBackup,
          stood       \* history: the two files as they were when the session began

setupvars == <<stage, by, sessions, answers, env, toml, envBackup, tomlBackup, stood>>

Absent == [is |-> "absent"]
Cut == [is |-> "cut"]
Env(keys, token) == [is |-> "whole", keys |-> keys, token |-> token]
Toml(default, enabled, chat) == [is |-> "whole", default |-> default, enabled |-> enabled, chat |-> chat]
NoAnswers == [providers |-> {}, keys |-> {}, default |-> "None", services |-> {}, token |-> FALSE, chat |-> FALSE]

SetupInit ==
  /\ stage = "idle" /\ by = "wizard" /\ sessions = 0 /\ answers = NoAnswers /\ stood = <<Absent, Absent>>
  /\ env = Absent /\ toml = Absent /\ envBackup = Absent /\ tomlBackup = Absent

Existing == env # Absent /\ toml # Absent
Files == <<env, toml, envBackup, tomlBackup>>

\* checks.py, run_all and print_results: Python, git and pip are required; Redis, ChromaDB, the disk are not.
Checks == {"python", "git", "pip", "redis", "chroma", "disk"}
Required == {"python", "git", "pip"}
Passed(good) == Required \subseteq good

Begin == stage' = "providers" /\ answers' = NoAnswers /\ stood' = <<env, toml>>
Nothing == UNCHANGED <<stage, answers, stood>>

(* run.sh: the wizard when a file is missing, else the bot.  The wizard imports
   setup.checks: it dies there unless the repository is on Python's path, as a
   PYTHONPATH or "-m setup.wizard" puts it. *)
RunSh(good, rooted) ==
  /\ stage = "idle" /\ sessions < MaxSessions /\ sessions' = sessions + 1 /\ by' = "runsh"
  /\ IF ~Passed(good) THEN Nothing
     ELSE IF Existing THEN stage' = "started" /\ UNCHANGED <<answers, stood>>
     ELSE IF rooted THEN Begin ELSE Nothing
  /\ UNCHANGED Files

\* The wizard alone: what is set up is not asked again, unless it is asked to.
Wizard(reconfigure, good, rooted) ==
  /\ stage = "idle" /\ sessions < MaxSessions /\ sessions' = sessions + 1 /\ by' = "wizard"
  /\ IF (~Existing \/ reconfigure) /\ Passed(good) /\ rooted THEN Begin ELSE Nothing
  /\ UNCHANGED Files

Form(question, next, filled) ==
  /\ stage = question /\ stage' = next /\ answers' = filled
  /\ UNCHANGED <<by, sessions, stood>> /\ UNCHANGED Files

\* Step 1: without a provider, or when it is left, the wizard ends.
SelectProviders(chosen) ==
  Form("providers", IF chosen = {} THEN "idle" ELSE "keys", [answers EXCEPT !.providers = chosen])

\* Step 2: keys that are left out can be added later; the default is asked for if there is a choice.
EnterKeys(given) ==
  /\ given \subseteq Keyed \cap answers.providers
  /\ Form("keys", IF Cardinality(answers.providers) > 1 THEN "default" ELSE "services",
            [answers EXCEPT !.keys = given, !.default = CHOOSE p \in answers.providers : TRUE])

\* A question that is left answers None, and that is what is written.
SelectDefault(p) ==
  /\ p \in answers.providers \cup {"None"}
  /\ Form("default", "services", [answers EXCEPT !.default = p])

SelectServices(chosen) == Form("services", "telegram", [answers EXCEPT !.services = chosen])

EnterTelegram(token, chat) == Form("telegram", "env", [answers EXCEPT !.token = token, !.chat = chat])

--------------------------------------------------------------------------------
\* _write_env: a copy of what there is; then the template with the keys of this session.
EnvOf(a) == Env(a.keys, a.token)

\* Mutant: the copy is of what has just been written.
CopyEnvLate ==
  /\ stage = "env"
  /\ env' = Cut /\ UNCHANGED envBackup
  /\ stage' = "writeEnv" /\ UNCHANGED <<by, sessions, answers, toml, tomlBackup, stood>>

CopyEnv ==
  /\ stage = "env"
  /\ envBackup' = (IF env # Absent THEN env ELSE envBackup)
  /\ env' = Cut
  /\ stage' = "writeEnv" /\ UNCHANGED <<by, sessions, answers, toml, tomlBackup, stood>>

WriteEnv ==
  /\ stage = "writeEnv"
  /\ env' = EnvOf(answers) /\ stage' = "toml"
  /\ UNCHANGED <<by, sessions, answers, toml, envBackup, tomlBackup, stood>>

\* _section_replace: a key under one section of the template, all other sections as they were.
SectionReplace(enabled, section, on) == IF on THEN enabled \cup {section} ELSE enabled \ {section}

\* _write_goat_toml: each provider and each service gets its own line, whatever the template has.
TomlOf(a) ==
  Toml(a.default, {s \in Enabled \cup Providers \cup Services :
                     s \in SectionReplace(Enabled, s, s \in a.providers \cup a.services)}, a.chat)

CopyToml ==
  /\ stage = "toml"
  /\ tomlBackup' = (IF toml # Absent THEN toml ELSE tomlBackup)
  /\ toml' = Cut
  /\ stage' = "writeToml" /\ UNCHANGED <<by, sessions, answers, env, envBackup, stood>>

WriteToml ==
  /\ stage = "writeToml"
  /\ toml' = TomlOf(answers) /\ stage' = "complete"
  /\ UNCHANGED <<by, sessions, answers, env, envBackup, tomlBackup, stood>>

\* run.sh goes on with the bot when the wizard has ended well.
Continue ==
  /\ stage = "complete" /\ by = "runsh"
  /\ stage' = "started" /\ UNCHANGED <<by, sessions, answers, stood>> /\ UNCHANGED Files

\* The wizard ends, the bot is stopped, or either is killed.
Leave ==
  /\ stage # "idle"
  /\ stage' = "idle" /\ UNCHANGED <<by, sessions, answers, stood>> /\ UNCHANGED Files

SetupNext ==
  \/ \E good \in {Checks, Required, Checks \ {"git"}}, rooted \in BOOLEAN :
       RunSh(good, rooted) \/ \E reconfigure \in BOOLEAN : Wizard(reconfigure, good, rooted)
  \/ \E chosen \in SUBSET Providers : SelectProviders(chosen) \/ EnterKeys(chosen)
  \/ \E p \in Providers \cup {"None"} : SelectDefault(p)
  \/ \E chosen \in SUBSET Services : SelectServices(chosen)
  \/ \E token, chat \in BOOLEAN : EnterTelegram(token, chat)
  \/ CopyEnv \/ WriteEnv \/ CopyToml \/ WriteToml \/ Continue \/ Leave

SetupSpec == SetupInit /\ [][SetupNext]_setupvars

--------------------------------------------------------------------------------
(* At whatever step a session is left, the .env and the goat2.toml that stood
   when it began are still there, in place or as the backup; a session that
   ends has written the two files from the same answers, with just the chosen
   providers and services enabled and keys of no other provider; and the bot is
   not started before both files exist (wizard.py:202-316, run.sh). *)
SetupKept ==
  /\ stood[1] \in {Absent, env, envBackup} /\ stood[2] \in {Absent, toml, tomlBackup}
  /\ stage = "complete" =>
       /\ env.keys = answers.keys /\ env.keys \subseteq toml.enabled
       /\ toml.enabled = answers.providers \cup answers.services
       /\ toml.default \in toml.enabled \cup {"None"}
  /\ stage = "started" => Existing
================================================================================
