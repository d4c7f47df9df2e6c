------------------------------- MODULE Setup -------------------------------
(***************************************************************************)
(* gocoon init and gocoon config generate (cmd/gocoon/main.go): commands   *)
(* that write the wallet, the TON configuration and the runner's           *)
(* configuration, file by file, into one directory.  A command may be      *)
(* killed, or a write may fail, at any step.  Paths are the default ones,   *)
(* so that every init writes its own TON configuration.                    *)
(***************************************************************************)
EXTENDS Integers, Sequences

CONSTANTS Commands,    \* the commands given over time; each names its own new key
          Forced,      \* the ones that are init --force
          Generators,  \* the ones that are config generate
          Concurrent   \* two commands may run at the same time

ASSUME SetupAssumption == Forced \subseteq Commands /\ Generators \subseteq Commands

VARIABLES
  stage,  \* per command: "idle", "preflight", "stat", "truncate", "write", "ok", "failed"
  at,     \* per command: the index of the output it is at
  key,    \* per command: the key its configuration names
  files   \* external: the directory

setupVars == <<stage, at, key, files>>

Absent == <<"absent">>
Torn == <<"torn">>           \* truncated, and not written to its end
Whole(k) == <<"whole", k>>
Seed == "seed"               \* the TON configuration, the same for every command

\* The order of the preflight checks, and that of the writes.
Checks == <<"wallet", "config", "ton">>
Outputs(c) == IF c \in Generators THEN <<"config">> ELSE <<"wallet", "ton", "config">>

Content(c, f) == Whole(IF f = "ton" THEN Seed ELSE key[c])

Active(c) == stage[c] \notin {"idle", "ok", "failed"}

SetupInit ==
  /\ stage = [c \in Commands |-> "idle"]
  /\ at = [c \in Commands |-> 1]
  /\ key = [c \in Commands |-> c]
  /\ files = [f \in {"wallet", "config", "ton"} |-> Absent]

----------------------------------------------------------------------------
To(c, where, i) == stage' = [stage EXCEPT ![c] = where] /\ at' = [at EXCEPT ![c] = i]

Start(c) ==
  /\ stage[c] = "idle"
  /\ Concurrent \/ \A d \in Commands : ~Active(d)
  /\ To(c, "preflight", 1)
  /\ UNCHANGED <<key, files>>

\* Mutant: the check looks for an old file and forgets to refuse it.
preflightOutputFile_None(c, f) == TRUE

preflightOutputFile(c, f) == c \in Forced \/ files[f] = Absent

Preflight(c) ==
  /\ stage[c] = "preflight" /\ c \notin Generators
  /\ IF ~preflightOutputFile(c, Checks[at[c]]) THEN To(c, "failed", 1)
     ELSE IF at[c] < Len(Checks) THEN To(c, "preflight", at[c] + 1)
     ELSE To(c, "stat", 1)
  /\ UNCHANGED <<key, files>>

\* The wallet is parsed: a torn one is refused.
cmdConfigGenerate(c) ==
  /\ stage[c] = "preflight" /\ c \in Generators
  /\ IF files["ton"] # Absent /\ files["wallet"][1] = "whole"
     THEN key' = [key EXCEPT ![c] = files["wallet"][2]] /\ To(c, "truncate", 1)
     ELSE To(c, "failed", 1) /\ UNCHANGED key
  /\ UNCHANGED files

\* writeOutputFile: the check once more, then os.WriteFile, which truncates
\* first.
Stat(c) ==
  /\ stage[c] = "stat"
  /\ To(c, IF preflightOutputFile(c, Outputs(c)[at[c]]) THEN "truncate" ELSE "failed", at[c])
  /\ UNCHANGED <<key, files>>

Truncate(c) ==
  /\ stage[c] = "truncate"
  /\ files' = [files EXCEPT ![Outputs(c)[at[c]]] = Torn]
  /\ To(c, "write", at[c])
  /\ UNCHANGED key

\* Mutant: success is told before the last file is complete.
Write_Early(c) ==
  /\ stage[c] = "write"
  /\ IF at[c] < Len(Outputs(c))
     THEN /\ files' = [files EXCEPT ![Outputs(c)[at[c]]] = Content(c, Outputs(c)[at[c]])]
          /\ To(c, "stat", at[c] + 1)
     ELSE To(c, "ok", at[c]) /\ UNCHANGED files
  /\ UNCHANGED key

Write(c) ==
  /\ stage[c] = "write"
  /\ files' = [files EXCEPT ![Outputs(c)[at[c]]] = Content(c, Outputs(c)[at[c]])]
  /\ IF at[c] < Len(Outputs(c)) THEN To(c, "stat", at[c] + 1) ELSE To(c, "ok", at[c])
  /\ UNCHANGED key

\* The command is killed, or one of its system calls fails.
Die(c) ==
  /\ Active(c)
  /\ To(c, "failed", at[c])
  /\ UNCHANGED <<key, files>>

SetupNext ==
  \E c \in Commands :
    Start(c) \/ Preflight(c) \/ cmdConfigGenerate(c) \/ Stat(c) \/ Truncate(c) \/ Write(c) \/ Die(c)

SetupSpec == SetupInit /\ [][SetupNext]_setupVars

----------------------------------------------------------------------------
(* Properties.                                                             *)

\* A command that reports success leaves a wallet and a configuration that hold
\* one key, whatever an earlier command left behind when it was killed.
SuccessMeansPair ==
  [][\A c \in Commands : stage'[c] = "ok" /\ stage[c] # "ok" =>
       /\ files'["wallet"][1] = "whole"
       /\ files'["config"] = files'["wallet"]
       /\ c \notin Generators => files'["ton"] = Whole(Seed)]_setupVars

\* "already exists; pass --force to overwrite": a wallet that holds a key is
\* replaced only while an init --force runs.
KeepsWallet ==
  [][files["wallet"][1] = "whole" /\ files'["wallet"] # files["wallet"]
       => \E c \in Forced : Active(c)]_setupVars
=============================================================================
