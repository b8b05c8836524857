------------------------- MODULE ProviderConfiguration -------------------------
(***************************************************************************)
(* The configuration file and the provider keys. Config commands           *)
(* (internal/command/config.go) load the file, edit their copy and replace *)
(* the file (internal/config/store.go), with no lock between. A wrapper    *)
(* (command/agent.go) resolves its model, finds or starts the daemon and   *)
(* hands it the model's key (daemon/provider_environment.go); the daemon   *)
(* reads the file and the keys again at every turn (service.go).           *)
(* A key is known by the wrapper in whose environment it is, and the name  *)
(* of the variable. The daemon's life is DaemonLifecycle's subject: here   *)
(* it is up or not. A generation is one life of a daemon.                  *)
(***************************************************************************)
EXTENDS Naturals, FiniteSets

CONSTANTS
  Names,            \* model names
  Variables,        \* environment variables that hold keys
  Inline,           \* the key source of a model whose key is in the file
  Editors,          \* config commands
  Wrappers,
  Environment,      \* the variables each wrapper's environment sets
  MaxEdits,         \* bound on the config commands that begin
  MaxGenerations,   \* bound on the daemons that are started
  None

Sources == Variables \cup {Inline}

ASSUME ConfigurationAssumption ==
  /\ Inline \notin Variables /\ None \notin Names \cup Sources \cup Wrappers \cup Editors
  /\ Environment \in [Wrappers -> SUBSET Variables]
  /\ MaxEdits \in Nat /\ MaxGenerations \in Nat

VARIABLES
  file,         \* the stored configuration, or None
  command,      \* of each editor: what it was asked to do, or None
  loaded,       \* the configuration it read, or None
  edits,        \* how many commands have begun
  wrapper,      \* of each wrapper: where it is, its model's source and its daemon
  turn,         \* the source its turn in flight has resolved to, or None
  used,         \* history: the variable and key its last turn used, and when, or None
  up,           \* a daemon is up,
  generation,   \* the number of daemons there have been,
  starter,      \* who started it, and
  overrides,    \* its ProviderEnvironment.overrides: variable -> wrapper, or None
  checked,      \* ProviderEnvironment requests past their check of the configuration
  synced        \* history: [generation, variable, wrapper] of every update

editorVars == <<command, loaded, edits>>
daemonVars == <<up, generation, starter, overrides>>
wrapperVars == <<wrapper, turn, used, checked, synced>>
vars == <<file, editorVars, daemonVars, wrapperVars>>

Config == [default: Names, models: [Names -> Sources \cup {None}]]
Has(config, name) == config.models[name] # None
Valid(config) == Has(config, config.default)

Commands == [op: {"init", "force", "add"}, name: Names, source: Sources]
            \cup [op: {"use", "remove"}, name: Names]
Updates == [generation: 1..MaxGenerations, variable: Variables, wrapper: Wrappers]
Away == [at |-> "away"]
Fallback(variable) ==
  IF starter # None /\ variable \in Environment[starter] THEN starter ELSE None

Init ==
  /\ file = None /\ command = [e \in Editors |-> None] /\ loaded = [e \in Editors |-> None] /\ edits = 0
  /\ wrapper = [w \in Wrappers |-> Away]
  /\ turn = [w \in Wrappers |-> None] /\ used = [w \in Wrappers |-> None]
  /\ up = FALSE /\ generation = 0 /\ starter = None /\ overrides = [v \in Variables |-> None]
  /\ checked = {} /\ synced = {}

(***************************************************************************)
(* Config commands. Begin: init looks whether there is a file, unless      *)
(* forced; the others load it and check their argument. A command that     *)
(* must not go on has ended, and does not appear.                          *)
(***************************************************************************)
MayBegin(c) ==
  CASE c.op = "init" -> file = None
    [] c.op = "force" -> TRUE
    [] c.op = "add" -> file # None
    [] c.op = "use" -> file # None /\ Has(file, c.name)
    [] c.op = "remove" -> file # None /\ Has(file, c.name) /\ file.default # c.name

Begin(e) ==
  /\ command[e] = None /\ edits < MaxEdits
  /\ \E c \in Commands :
       /\ MayBegin(c)
       /\ command' = [command EXCEPT ![e] = c]
       /\ loaded' = [loaded EXCEPT ![e] = IF c.op \in {"init", "force"} THEN None ELSE file]
  /\ edits' = edits + 1
  /\ UNCHANGED <<file, daemonVars, wrapperVars>>

(* add with a name that is taken makes a configuration that Save refuses.  *)
Refuses(config, c) == c.op = "add" /\ Has(config, c.name)
Edit(config, c) ==
  CASE c.op \in {"init", "force"} ->
         [default |-> c.name, models |-> [n \in Names |-> IF n = c.name THEN c.source ELSE None]]
    [] c.op = "add" -> [config EXCEPT !.models[c.name] = c.source]
    [] c.op = "use" -> [config EXCEPT !.default = c.name]
    [] c.op = "remove" -> [config EXCEPT !.models[c.name] = None]

(* Whatever it is called after, Save puts a whole valid configuration in   *)
(* place by a rename, or leaves the file alone.                            *)
Save(config) == Valid(config) /\ file' = config

Finish(e) ==
  /\ command[e] # None
  /\ \/ ~Refuses(loaded[e], command[e]) /\ Save(Edit(loaded[e], command[e]))
     \/ file' = file    \* refused, or failed before the rename
  /\ command' = [command EXCEPT ![e] = None] /\ loaded' = [loaded EXCEPT ![e] = None]
  /\ UNCHANGED <<edits, daemonVars, wrapperVars>>

(* A prompt that gets no answer, or an answer that makes no model.         *)
Abandon(e) ==
  /\ command[e] # None /\ command[e].op \in {"init", "force", "add"}
  /\ command' = [command EXCEPT ![e] = None] /\ loaded' = [loaded EXCEPT ![e] = None]
  /\ UNCHANGED <<file, edits, daemonVars, wrapperVars>>

(***************************************************************************)
(* Wrappers. runAgent loads the file, resolves its model with its own      *)
(* environment, and only then sees to the daemon.                          *)
(***************************************************************************)
Resolvable(config, name, getenv) ==
  Has(config, name) /\ (config.models[name] # Inline => getenv[config.models[name]] # None)

(* --model, given once, or the default.                                    *)
Selected(argument) == IF argument = None THEN file.default ELSE argument

Launch(w) ==
  /\ wrapper[w] = Away /\ file # None
  /\ \E argument \in Names \cup {None} : LET name == Selected(argument) IN
       /\ Resolvable(file, name, [v \in Variables |-> IF v \in Environment[w] THEN w ELSE None])
       /\ wrapper' = [wrapper EXCEPT ![w] =
            [at |-> "resolved", source |-> file.models[name], generation |-> 0]]
  /\ UNCHANGED <<file, editorVars, daemonVars, turn, used, checked, synced>>

(* Manager.Ensure: the wrapper's daemon is the one that is up, or a new    *)
(* one, which inherits the wrapper's environment.                          *)
Ensure_KeepsOverrides(w) ==
  /\ wrapper[w].at = "resolved"
  /\ \/ up /\ UNCHANGED daemonVars
     \/ /\ ~up /\ generation < MaxGenerations
        /\ up' = TRUE /\ generation' = generation + 1 /\ starter' = w
        /\ overrides' = overrides
  /\ wrapper' = [wrapper EXCEPT ![w].at = IF wrapper[w].source = Inline THEN "running" ELSE "syncing",
                                ![w].generation = generation']
  /\ UNCHANGED <<file, editorVars, turn, used, checked, synced>>
Ensure(w) ==
  /\ wrapper[w].at = "resolved"
  /\ \/ up /\ UNCHANGED daemonVars
     \/ /\ ~up /\ generation < MaxGenerations
        /\ up' = TRUE /\ generation' = generation + 1 /\ starter' = w
        /\ overrides' = [v \in Variables |-> None]
  /\ wrapper' = [wrapper EXCEPT ![w].at = IF wrapper[w].source = Inline THEN "running" ELSE "syncing",
                                ![w].generation = generation']
  /\ UNCHANGED <<file, editorVars, turn, used, checked, synced>>

Reaches(w) == up /\ wrapper[w].generation = generation
Leaves(w) == wrapper' = [wrapper EXCEPT ![w] = [at |-> "gone"]]

(* The daemon's handler checks that the configuration names the variable,  *)
(* and updates afterwards. The wrapper may have given up meanwhile, and    *)
(* the answer may be lost.                                                 *)
SyncCheck(w) ==
  /\ wrapper[w].at = "syncing" /\ Reaches(w) /\ ~\E r \in checked : r.wrapper = w
  /\ file # None /\ \E n \in Names : file.models[n] = wrapper[w].source
  /\ checked' = checked \cup
       {[generation |-> generation, variable |-> wrapper[w].source, wrapper |-> w]}
  /\ UNCHANGED <<file, editorVars, daemonVars, wrapper, turn, used, synced>>

Updated_Replaces(r) == [v \in Variables |-> IF v = r.variable THEN r.wrapper ELSE None]
Updated(r) == [overrides EXCEPT ![r.variable] = r.wrapper]

SyncUpdate(r) ==
  /\ r \in checked /\ up /\ r.generation = generation
  /\ overrides' = Updated(r) /\ synced' = synced \cup {r} /\ checked' = checked \ {r}
  /\ wrapper[r.wrapper].at \in {"syncing", "gone"}
  /\ \/ /\ wrapper[r.wrapper].at = "syncing"
        /\ wrapper' = [wrapper EXCEPT ![r.wrapper].at = "running"]
     \/ Leaves(r.wrapper)
  /\ UNCHANGED <<file, editorVars, up, generation, starter, turn, used>>

(* Ensure, the sync or building the launch fails.                          *)
Fail(w) ==
  /\ wrapper[w].at \in {"resolved", "syncing"} /\ Leaves(w)
  /\ UNCHANGED <<file, editorVars, daemonVars, turn, used, checked, synced>>

(* cursorcli.Run: cursor-agent ends, by itself or by a signal, and the turn *)
(* it was waiting for with it.                                             *)
Exit(w) ==
  /\ wrapper[w].at = "running" /\ Leaves(w)
  /\ turn' = [turn EXCEPT ![w] = None]
  /\ UNCHANGED <<file, editorVars, daemonVars, used, checked, synced>>

(***************************************************************************)
(* A turn in the daemon: the runner's ResolveModel loads the file, finds   *)
(* the model the request names, any model, and then looks the key up.      *)
(***************************************************************************)
TurnLoad(w) ==
  /\ wrapper[w].at = "running" /\ Reaches(w) /\ turn[w] = None
  /\ file # None
  /\ \E name \in Names : Has(file, name) /\ turn' = [turn EXCEPT ![w] = file.models[name]]
  /\ UNCHANGED <<file, editorVars, daemonVars, wrapper, used, checked, synced>>

Getenv(variable) ==
  IF overrides[variable] # None THEN overrides[variable] ELSE Fallback(variable)

(* A turn whose variable is unset fails.                                   *)
Accepted_Unset(key) == TRUE
Accepted(key) == key # None

TurnKey(w) ==
  /\ turn[w] # None /\ Reaches(w)
  /\ used' = [used EXCEPT ![w] =
       IF turn[w] = Inline \/ ~Accepted(Getenv(turn[w])) THEN None
       ELSE [variable |-> turn[w], key |-> Getenv(turn[w]), generation |-> generation,
             starter |-> starter, own |-> turn[w] = wrapper[w].source]]
  /\ turn' = [turn EXCEPT ![w] = None]
  /\ UNCHANGED <<file, editorVars, daemonVars, wrapper, checked, synced>>

(* The daemon ends: stop, idle exit or a crash. Its turns and requests end *)
(* with it; what it knew is lost with its memory, and shows in Ensure.     *)
Stop ==
  /\ up /\ up' = FALSE
  /\ turn' = [w \in Wrappers |-> None] /\ checked' = {}
  /\ UNCHANGED <<file, editorVars, generation, starter, overrides, wrapper, used, synced>>

Next ==
  \/ \E e \in Editors : Begin(e) \/ Finish(e) \/ Abandon(e)
  \/ \E w \in Wrappers : Launch(w) \/ Ensure(w) \/ SyncCheck(w) \/ Fail(w) \/ Exit(w)
                         \/ TurnLoad(w) \/ TurnKey(w)
  \/ \E r \in checked : SyncUpdate(r)
  \/ Stop

Spec == Init /\ [][Next]_vars

(***************************************************************************)
(* Properties.                                                             *)
(***************************************************************************)
Running == [at: {"resolved", "syncing", "running"}, source: Sources, generation: 0..MaxGenerations]
Uses == [variable: Variables, key: Wrappers, generation: 1..MaxGenerations, starter: Wrappers, own: BOOLEAN]

(* What is stored and what a command has loaded is valid, and a turn that  *)
(* goes on has a key.                                                      *)
TypeOK ==
  /\ file \in {c \in Config : Valid(c)} \cup {None}
  /\ command \in [Editors -> Commands \cup {None}]
  /\ loaded \in [Editors -> {c \in Config : Valid(c)} \cup {None}]
  /\ edits \in Nat
  /\ wrapper \in [Wrappers -> Running \cup {Away, [at |-> "gone"]}]
  /\ turn \in [Wrappers -> Sources \cup {None}] /\ used \in [Wrappers -> Uses \cup {None}]
  /\ up \in BOOLEAN /\ generation \in 0..MaxGenerations /\ starter \in Wrappers \cup {None}
  /\ overrides \in [Variables -> Wrappers \cup {None}]
  /\ checked \subseteq Updates /\ synced \subseteq Updates

(* A wrapper's turn that reads the variable the wrapper has handed over    *)
(* gets a key that some wrapper handed to this very daemon under that      *)
(* variable, its own if no other did: never what the daemon happens to     *)
(* have inherited, whatever the others synchronize                         *)
(* (ProviderEnvironment.Update, Getenv; docs/configuration.md, "Shared     *)
(* daemon credential scope": distinct names are independent).              *)
OwnKeyIsUsed ==
  \A w \in Wrappers : (used[w] # None /\ used[w].own) =>
    [generation |-> used[w].generation, variable |-> used[w].variable, wrapper |-> used[w].key] \in synced

(* A key that was handed to a daemon dies with it: a turn uses a key that  *)
(* this daemon was handed or that the wrapper which started it had in its  *)
(* environment (docs/configuration.md: stop revokes an override).          *)
StopRevokesKeys ==
  \A w \in Wrappers : used[w] # None =>
    LET u == used[w]
    IN \/ [generation |-> u.generation, variable |-> u.variable, wrapper |-> u.key] \in synced
       \/ u.key = u.starter /\ u.variable \in Environment[u.starter]

(* docs/configuration.md:135: "`config init` refuses to replace an existing *)
(* config unless `--force` is supplied deliberately."                      *)
InitReplacesNothing ==
  [][\A e \in Editors :
       (command[e] # None /\ command[e].op = "init" /\ command'[e] = None /\ file' # file) => file = None]_vars
================================================================================
