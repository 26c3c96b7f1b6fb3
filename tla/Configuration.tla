--------------------------- MODULE Configuration ---------------------------
(***************************************************************************)
(* Loading e2e.config.yaml (internal/config) and what a command line makes *)
(* of it.  A text of the file is the sequence of its pieces: a <<"text",   *)
(* x>>, or a <<"var", n>> for ${n}.  An environment of the process is a    *)
(* function from the names that are set to their values.                   *)
(***************************************************************************)
EXTENDS Integers, Sequences, TLC, Levels

Blank == << >>

\* The variables of the .env file yield to those that are set.
LoadDotEnv(env, dotEnv) == env @@ dotEnv

Missing(text, env) == {text[i][2] : i \in {j \in DOMAIN text : text[j][1] = "var"}} \ DOMAIN env

\* One pass: a value is not looked into again.
ResolveNonStrict(text, env) ==
  [i \in DOMAIN text |-> IF text[i][1] = "var" /\ text[i][2] \in DOMAIN env
                         THEN <<"text", env[text[i][2]]>> ELSE text[i]]

ResolveAll(texts, env) == [k \in DOMAIN texts |-> ResolveNonStrict(texts[k], env)]

\* Zero is what the file does not give; nothing refuses a negative number.
ApplyDefaults(d) ==
  [timeout |-> IF d.timeout = 0 THEN 30000 ELSE d.timeout,
   retryDelay |-> IF d.retryDelay = 0 THEN 1000 ELSE d.retryDelay,
   parallel |-> IF d.parallel = 0 THEN 1 ELSE d.parallel,
   retries |-> d.retries,
   strictResolve |-> d.strictResolve]

Refused == [ok |-> FALSE]

\* Only the base URL must resolve.
Load(file, envName, process) ==
  LET env == LoadDotEnv(process, file.dotEnv)
      chosen == file.environments[envName]
      level == ResolveLevel(file.declared)
  IN IF \/ file.version # "1.0"
        \/ envName \notin DOMAIN file.environments
        \/ Missing(chosen.baseUrl, env) # {}
        \/ ~level.ok
     THEN Refused
     ELSE [ok |-> TRUE,
           baseUrl |-> ResolveNonStrict(chosen.baseUrl, env),
           adapters |-> [a \in DOMAIN chosen.adapters |-> ResolveAll(chosen.adapters[a], env)],
           variables |-> ResolveAll(file.variables, env),
           defaults |-> ApplyDefaults(file.defaults),
           testDir |-> IF file.testDir = "" THEN "." ELSE file.testDir,
           compat |-> level.level]

\* Faulty variant of OverrideRetries: the default of the flag, -1, counts too.
OverrideAlways(retries, flags) == flags.retries

OverrideRetries(retries, flags) == IF flags.retries >= 0 THEN flags.retries ELSE retries

Override(defaults, flags) ==
  [defaults EXCEPT !.parallel = IF flags.parallel > 0 THEN flags.parallel ELSE @,
                   !.timeout = IF flags.timeout > 0 THEN flags.timeout ELSE @,
                   !.retries = OverrideRetries(@, flags)]

\* Of the command line: `--strict' counts when it is given, `--api-version' too.
Overridden(cfg, flags) ==
  [cfg EXCEPT !.defaults = [Override(@, flags) EXCEPT !.strictResolve =
                              IF flags.strict # "absent" THEN flags.strict = "true" ELSE @],
              !.compat = IF flags.apiVersion # "absent" THEN ParseAPIVersion(flags.apiVersion) ELSE @]

\* BuildRegistry: http needs a base URL, and the shell is always there.
Registered(cfg) ==
  (IF cfg.baseUrl = Blank THEN {} ELSE {"http"})
  \cup {"shell"}
  \cup (DOMAIN cfg.adapters \cap {"postgresql", "mongodb", "redis", "kafka", "eventhub"})
=============================================================================
