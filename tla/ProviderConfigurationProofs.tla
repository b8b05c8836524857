----------------------- MODULE ProviderConfigurationProofs -----------------------
(***************************************************************************)
(* Proofs about ProviderConfiguration. The inductive invariant says what   *)
(* TypeOK does not: an override of the daemon that is up was handed to it  *)
(* (OverrideInv); a wrapper that runs with this daemon has handed over its *)
(* own variable, so that the daemon has some override of it (HandedInv); a *)
(* request past its check is about the wrapper's own variable and daemon   *)
(* (CheckedInv); and a turn in flight is that of a running wrapper. A   *)
(* command that edits has loaded something.                                *)
(***************************************************************************)
EXTENDS ProviderConfiguration, TLAPS

Stored == {c \in Config : Valid(c)}
Gone == [at |-> "gone"]
Places == Running \cup {Away, Gone}

EditorInv ==
  \A e \in Editors : (command[e] # None /\ command[e].op \in {"add", "use", "remove"}) => loaded[e] # None
LifeInv ==
  /\ up => generation \in 1..MaxGenerations /\ starter \in Wrappers
  /\ \A w \in Wrappers : wrapper[w].at \in {"resolved", "syncing", "running"} =>
       /\ wrapper[w].generation <= generation
       /\ wrapper[w].at = "resolved" => wrapper[w].generation = 0
       /\ wrapper[w].at = "syncing" => wrapper[w].source # Inline
  /\ \A w \in Wrappers : turn[w] # None => wrapper[w].at = "running"
OverrideInv ==
  up => \A v \in Variables : overrides[v] # None =>
    [generation |-> generation, variable |-> v, wrapper |-> overrides[v]] \in synced
HandedInv ==
  \A w \in Wrappers :
    (up /\ wrapper[w].at = "running" /\ wrapper[w].generation = generation /\ wrapper[w].source # Inline)
      => overrides[wrapper[w].source] # None
CheckedInv ==
  \A r \in checked :
    /\ wrapper[r.wrapper].at \notin {"away", "resolved"}
    /\ wrapper[r.wrapper].at = "syncing" =>
         wrapper[r.wrapper].source = r.variable /\ wrapper[r.wrapper].generation = r.generation

IInv == TypeOK /\ EditorInv /\ LifeInv /\ OverrideInv /\ HandedInv /\ CheckedInv /\ OwnKeyIsUsed /\ StopRevokesKeys

(***************************************************************************)
(* Where a wrapper can be.                                                 *)
(***************************************************************************)
LEMMA Place == ASSUME NEW p \in Places
               PROVE  /\ p.at \in {"away", "gone", "resolved", "syncing", "running"}
                      /\ p.at \in {"resolved", "syncing", "running"} => p \in Running
                      /\ p.at = "away" => p = Away
                      /\ p.at = "gone" => p = Gone
BY DEF Places, Running, Away, Gone

LEMMA Launched == ASSUME NEW s \in Sources
                  PROVE  [at |-> "resolved", source |-> s, generation |-> 0] \in Running
BY ConfigurationAssumption DEF Running

(* A command's edit of a valid configuration is a configuration.           *)
LEMMA SavedIsStored == ASSUME TypeOK, EditorInv, NEW e \in Editors, Finish(e)
                       PROVE  file' \in Stored \cup {None}
<1>1. CASE file' = file
  BY <1>1 DEF TypeOK, Stored
<1>2. CASE ~Refuses(loaded[e], command[e]) /\ Save(Edit(loaded[e], command[e]))
  <2>1. command[e] \in Commands /\ loaded[e] \in Stored \cup {None}
    BY DEF TypeOK, Finish, Stored
  <2> DEFINE c == command[e]
             l == loaded[e]
  <2>2. c.op \in {"init", "force", "add", "use", "remove"} /\ c.name \in Names
    BY <2>1 DEF Commands
  <2>3. c.op \in {"init", "force", "add"} => c.source \in Sources
    BY <2>1 DEF Commands
  <2>4. c.op \in {"add", "use", "remove"} => l \in Config
    BY <2>1 DEF EditorInv, Stored, Finish
  <2> HIDE DEF c, l
  <2>5. Edit(l, c) \in Config
    <3>1. CASE c.op \in {"init", "force"}
      BY <3>1, <2>2, <2>3 DEF Edit, Config
    <3>2. CASE c.op = "add"
      BY <3>2, <2>2, <2>3, <2>4 DEF Edit, Config
    <3>3. CASE c.op = "use"
      BY <3>3, <2>2, <2>4 DEF Edit, Config
    <3>4. CASE c.op = "remove"
      BY <3>4, <2>2, <2>4 DEF Edit, Config
    <3> QED BY <2>2, <3>1, <3>2, <3>3, <3>4
  <2> QED BY <1>2, <2>5 DEF Save, Stored, c, l
<1> QED BY <1>1, <1>2 DEF Finish

(***************************************************************************)
(* The invariant holds at first, and every step keeps it.                  *)
(***************************************************************************)
LEMMA InitInv == Init => IInv
<1> SUFFICES ASSUME Init PROVE IInv
  OBVIOUS
<1>1. TypeOK
  <2>1. file \in Stored \cup {None} /\ edits \in Nat /\ up \in BOOLEAN /\ generation \in 0..MaxGenerations
    <3>1. file = None /\ edits = 0 /\ up = FALSE /\ generation = 0
      BY DEF Init
    <3>2. MaxGenerations \in Nat
      BY ConfigurationAssumption
    <3>3. generation \in 0..MaxGenerations
      BY <3>1, <3>2
    <3>4. file \in Stored \cup {None} /\ edits \in Nat
      BY <3>1
    <3>5. up \in BOOLEAN
      BY <3>1, Zenon
    <3> QED BY <3>3, <3>4, <3>5
  <2>2. /\ command \in [Editors -> Commands \cup {None}]
        /\ loaded \in [Editors -> Stored \cup {None}]
    BY DEF Init
  <2>3. wrapper \in [Wrappers -> Running \cup {Away, Gone}]
    BY DEF Init
  <2>4. /\ turn \in [Wrappers -> Sources \cup {None}] /\ used \in [Wrappers -> Uses \cup {None}]
        /\ starter \in Wrappers \cup {None} /\ overrides \in [Variables -> Wrappers \cup {None}]
        /\ checked \subseteq Updates /\ synced \subseteq Updates
    BY DEF Init
  <2> QED BY <2>1, <2>2, <2>3, <2>4 DEF TypeOK, Stored, Gone
<1>2. EditorInv /\ LifeInv
  BY DEF Init, EditorInv, LifeInv, Away
<1>3. OverrideInv /\ HandedInv /\ CheckedInv
  BY DEF Init, OverrideInv, HandedInv, CheckedInv
<1>4. OwnKeyIsUsed /\ StopRevokesKeys
  BY DEF Init, OwnKeyIsUsed, StopRevokesKeys
<1> QED BY <1>1, <1>2, <1>3, <1>4 DEF IInv

(* Commands disturb the file and the editors.                              *)
LEMMA CommandStep == ASSUME IInv, NEW e \in Editors, Begin(e) \/ Finish(e) \/ Abandon(e)
                     PROVE  IInv'
<1>1. UNCHANGED <<daemonVars, wrapperVars>>
  BY DEF Begin, Finish, Abandon
<1>2. TypeOK'
  <2>1. CASE Begin(e)
    <3>1. PICK c \in Commands :
            /\ MayBegin(c)
            /\ command' = [command EXCEPT ![e] = c]
            /\ loaded' = [loaded EXCEPT ![e] = IF c.op \in {"init", "force"} THEN None ELSE file]
      BY <2>1 DEF Begin
    <3>2. command' \in [Editors -> Commands \cup {None}]
      BY <3>1 DEF IInv, TypeOK
    <3>3. loaded' \in [Editors -> Stored \cup {None}]
      BY <3>1 DEF IInv, TypeOK, Stored
    <3>4. file' = file /\ edits' \in Nat
      BY <2>1 DEF Begin, IInv, TypeOK
    <3> QED BY <1>1, <3>2, <3>3, <3>4 DEF IInv, TypeOK, daemonVars, wrapperVars, Stored
  <2>2. CASE Finish(e)
    <3>1. file' \in Stored \cup {None}
      BY <2>2, SavedIsStored DEF IInv
    <3>2. /\ command' \in [Editors -> Commands \cup {None}]
          /\ loaded' \in [Editors -> Stored \cup {None}]
          /\ edits' \in Nat
      BY <2>2 DEF Finish, IInv, TypeOK, Stored
    <3> QED BY <1>1, <3>1, <3>2 DEF IInv, TypeOK, daemonVars, wrapperVars, Stored
  <2>3. CASE Abandon(e)
    <3>1. /\ command' \in [Editors -> Commands \cup {None}]
          /\ loaded' \in [Editors -> Stored \cup {None}]
          /\ UNCHANGED <<file, edits>>
      BY <2>3 DEF Abandon, IInv, TypeOK, Stored
    <3> QED BY <1>1, <3>1 DEF IInv, TypeOK, daemonVars, wrapperVars, Stored
  <2> QED BY <2>1, <2>2, <2>3
<1>3. EditorInv'
  <2>1. CASE Begin(e)
    BY <2>1 DEF Begin, MayBegin, IInv, EditorInv, TypeOK
  <2>2. CASE Finish(e)
    BY <2>2 DEF Finish, IInv, EditorInv, TypeOK
  <2>3. CASE Abandon(e)
    BY <2>3 DEF Abandon, IInv, EditorInv, TypeOK
  <2> QED BY <2>1, <2>2, <2>3
<1>4. LifeInv' /\ OverrideInv' /\ HandedInv' /\ CheckedInv' /\ OwnKeyIsUsed' /\ StopRevokesKeys'
  BY <1>1 DEF IInv, LifeInv, OverrideInv, HandedInv, CheckedInv, OwnKeyIsUsed, StopRevokesKeys, daemonVars, wrapperVars
<1> QED BY <1>2, <1>3, <1>4 DEF IInv

(* A wrapper that starts, sees to its daemon or leaves.                    *)
LEMMA LaunchStep == ASSUME IInv, NEW w \in Wrappers, Launch(w)
                    PROVE  IInv'
<1>1. PICK s \in Sources : wrapper' = [wrapper EXCEPT ![w] = [at |-> "resolved", source |-> s, generation |-> 0]]
  <2>2. file \in Config
    BY DEF Launch, IInv, TypeOK
  <2>1. PICK name \in Names : Has(file, name) /\ wrapper' = [wrapper EXCEPT ![w] =
            [at |-> "resolved", source |-> file.models[name], generation |-> 0]]
    <3>1. \A argument \in Names \cup {None} : Selected(argument) \in Names
      BY <2>2 DEF Selected, Config
    <3> QED BY <3>1 DEF Launch, Resolvable
  <2>3. file.models[name] \in Sources
    BY <2>1, <2>2 DEF Has, Config
  <2> QED BY <2>1, <2>3
<1>2. UNCHANGED <<file, editorVars, daemonVars, turn, used, checked, synced>>
  BY DEF Launch
<1>3. wrapper \in [Wrappers -> Places] /\ wrapper[w] = Away
  BY DEF Launch, IInv, TypeOK, Places, Gone
<1>4. wrapper' \in [Wrappers -> Places]
  BY <1>1, <1>3, Launched DEF Places
<1>5. TypeOK'
  BY <1>2, <1>4 DEF IInv, TypeOK, Places, Gone, editorVars, daemonVars
<1>6. EditorInv' /\ OverrideInv' /\ OwnKeyIsUsed' /\ StopRevokesKeys'
  BY <1>2 DEF IInv, EditorInv, OverrideInv, OwnKeyIsUsed, StopRevokesKeys, editorVars, daemonVars
<1>7. wrapper[w].at = "away" /\ wrapper'[w].at = "resolved" /\ wrapper'[w].generation = 0
  BY <1>1, <1>3 DEF Away
<1>8. \A x \in Wrappers : x # w => wrapper'[x] = wrapper[x]
  BY <1>1, <1>3
<1>9. LifeInv'
  <2>1. generation \in Nat
    BY DEF IInv, TypeOK
  <2> QED BY <1>2, <1>7, <1>8, <2>1 DEF IInv, LifeInv, daemonVars
<1>10. HandedInv' /\ CheckedInv'
  <2>1. \A r \in checked : r.wrapper \in Wrappers /\ r.wrapper # w
    BY <1>7 DEF IInv, TypeOK, CheckedInv, Updates
  <2> QED BY <1>2, <1>7, <1>8, <2>1 DEF IInv, HandedInv, CheckedInv, daemonVars
<1> QED BY <1>5, <1>6, <1>9, <1>10 DEF IInv

LEMMA EnsureStep == ASSUME IInv, NEW w \in Wrappers, Ensure(w)
                    PROVE  IInv'
<1>1. UNCHANGED <<file, editorVars, turn, used, checked, synced>>
  BY DEF Ensure
<1>2. wrapper \in [Wrappers -> Places] /\ wrapper[w].at = "resolved" /\ wrapper[w] \in Running
  BY Place DEF Ensure, IInv, TypeOK, Places, Gone
<1>3. generation \in Nat /\ MaxGenerations \in Nat
  BY ConfigurationAssumption DEF IInv, TypeOK
<1>4. /\ up' = TRUE /\ generation' \in 1..MaxGenerations /\ generation <= generation'
      /\ starter' \in Wrappers /\ overrides' \in [Variables -> Wrappers \cup {None}]
      /\ up => UNCHANGED daemonVars
      /\ ~up => generation' = generation + 1 /\ overrides' = [v \in Variables |-> None]
  BY <1>3 DEF Ensure, IInv, TypeOK, LifeInv, daemonVars
<1>5. /\ \A x \in Wrappers : x # w => wrapper'[x] = wrapper[x]
      /\ wrapper'[w].at = IF wrapper[w].source = Inline THEN "running" ELSE "syncing"
      /\ wrapper'[w].source = wrapper[w].source
      /\ wrapper'[w].generation = generation'
      /\ wrapper'[w] \in Running
      /\ wrapper' \in [Wrappers -> Places]
  <2> DEFINE p == IF wrapper[w].source = Inline THEN "running" ELSE "syncing"
  <2>1. wrapper' = [wrapper EXCEPT ![w].at = p, ![w].generation = generation']
    BY DEF Ensure
  <2>2. wrapper'[w] = [wrapper[w] EXCEPT !.at = p, !.generation = generation']
    BY <1>2, <2>1
  <2>3. wrapper[w] = [at |-> wrapper[w].at, source |-> wrapper[w].source, generation |-> wrapper[w].generation]
    BY <1>2 DEF Running
  <2>4. wrapper'[w] = [at |-> p, source |-> wrapper[w].source, generation |-> generation']
    BY <2>2, <2>3
  <2>5. wrapper'[w] \in Running
    BY <1>2, <1>4, <1>3, <2>4 DEF Running
  <2>6. \A x \in Wrappers : x # w => wrapper'[x] = wrapper[x]
    BY <1>2, <2>1
  <2>7. wrapper' \in [Wrappers -> Places]
    BY <1>2, <2>1, <2>5 DEF Places
  <2> QED BY <2>4, <2>5, <2>6, <2>7
<1>6. TypeOK'
  BY <1>1, <1>3, <1>4, <1>5 DEF IInv, TypeOK, Places, Gone, editorVars
<1>7. EditorInv' /\ OwnKeyIsUsed' /\ StopRevokesKeys'
  BY <1>1 DEF IInv, EditorInv, OwnKeyIsUsed, StopRevokesKeys, editorVars
<1>8. LifeInv'
  <2>1. \A x \in Wrappers : wrapper[x].at \in {"resolved", "syncing", "running"} => wrapper[x].generation \in Nat
    BY <1>2, Place, <1>3 DEF Running
  <2>2. turn[w] = None
    BY <1>2 DEF IInv, LifeInv
  <2> QED BY <1>1, <1>3, <1>4, <1>5, <2>1, <2>2 DEF IInv, LifeInv
<1>9. OverrideInv'
  BY <1>1, <1>4 DEF IInv, OverrideInv, daemonVars
<1>10. HandedInv'
  <2> SUFFICES ASSUME NEW x \in Wrappers, wrapper'[x].at = "running",
                      wrapper'[x].generation = generation', wrapper'[x].source # Inline
               PROVE  overrides'[wrapper'[x].source] # None
    BY DEF HandedInv
  <2>1. x # w /\ wrapper'[x] = wrapper[x]
    BY <1>5
  <2>2. up
    <3> SUFFICES ASSUME ~up PROVE FALSE
      OBVIOUS
    <3>1. wrapper[x].generation <= generation /\ wrapper[x].generation = generation + 1
      BY <2>1, <1>4 DEF IInv, LifeInv
    <3> QED BY <3>1, <1>3
  <2> QED BY <2>1, <2>2, <1>4 DEF IInv, HandedInv, daemonVars
<1>11. CheckedInv'
  <2>1. \A r \in checked : r.wrapper \in Wrappers /\ r.wrapper # w
    BY <1>2 DEF IInv, TypeOK, CheckedInv, Updates
  <2> QED BY <1>1, <1>5, <2>1 DEF IInv, CheckedInv
<1> QED BY <1>6, <1>7, <1>8, <1>9, <1>10, <1>11 DEF IInv

LEMMA LeaveStep == ASSUME IInv, NEW w \in Wrappers, Fail(w) \/ Exit(w)
                   PROVE  IInv'
<1>1. UNCHANGED <<file, editorVars, daemonVars, used, checked, synced>>
  BY DEF Fail, Exit
<1>2. /\ wrapper' \in [Wrappers -> Places] /\ wrapper'[w].at = "gone"
      /\ \A x \in Wrappers : x # w => wrapper'[x] = wrapper[x] /\ turn'[x] = turn[x]
      /\ turn' \in [Wrappers -> Sources \cup {None}] /\ turn'[w] = None
  BY DEF Fail, Exit, Leaves, IInv, LifeInv, TypeOK, Places, Gone
<1>3. TypeOK'
  BY <1>1, <1>2 DEF IInv, TypeOK, Places, Gone, editorVars, daemonVars
<1>4. EditorInv' /\ OverrideInv' /\ OwnKeyIsUsed' /\ StopRevokesKeys'
  BY <1>1 DEF IInv, EditorInv, OverrideInv, OwnKeyIsUsed, StopRevokesKeys, editorVars, daemonVars
<1>5. LifeInv' /\ HandedInv'
  BY <1>1, <1>2 DEF IInv, LifeInv, HandedInv, daemonVars
<1>6. CheckedInv'
  <2>1. \A r \in checked : r.wrapper \in Wrappers
    BY DEF IInv, TypeOK, Updates
  <2> QED BY <1>1, <1>2, <2>1 DEF IInv, CheckedInv
<1> QED BY <1>3, <1>4, <1>5, <1>6 DEF IInv

(* The daemon's check and update of a key.                                 *)
LEMMA CheckStep == ASSUME IInv, NEW w \in Wrappers, SyncCheck(w)
                   PROVE  IInv'
<1> DEFINE q == [generation |-> generation, variable |-> wrapper[w].source, wrapper |-> w]
<1>1. checked' = checked \cup {q} /\ UNCHANGED <<file, editorVars, daemonVars, wrapper, turn, used, synced>>
  BY DEF SyncCheck
<1>2. up /\ wrapper[w].generation = generation /\ wrapper[w].at = "syncing"
  BY DEF SyncCheck, Reaches
<1>3. wrapper[w].source \in Variables
  <2>1. wrapper[w] \in Running
    BY <1>2, Place DEF IInv, TypeOK, Places, Gone
  <2>2. wrapper[w].source \in Sources
    BY <2>1 DEF Running
  <2>3. wrapper[w].source # Inline
    BY <1>2 DEF IInv, LifeInv
  <2> QED BY <2>2, <2>3 DEF Sources
<1>4. q \in Updates
  BY <1>2, <1>3 DEF Updates, IInv, LifeInv
<1>5. TypeOK'
  BY <1>1, <1>4 DEF IInv, TypeOK, editorVars, daemonVars
<1>6. EditorInv' /\ LifeInv' /\ OverrideInv' /\ HandedInv' /\ OwnKeyIsUsed' /\ StopRevokesKeys'
  BY <1>1 DEF IInv, EditorInv, LifeInv, OverrideInv, HandedInv, OwnKeyIsUsed, StopRevokesKeys, editorVars, daemonVars
<1>7. CheckedInv'
  BY <1>1, <1>2 DEF IInv, CheckedInv
<1> QED BY <1>5, <1>6, <1>7 DEF IInv

LEMMA UpdateStep == ASSUME IInv, NEW r \in checked, SyncUpdate(r)
                    PROVE  IInv'
<1> DEFINE w == r.wrapper
<1>1. /\ r \in Updates /\ w \in Wrappers /\ r.variable \in Variables /\ r.generation = generation /\ up
      /\ r = [generation |-> generation, variable |-> r.variable, wrapper |-> w]
  BY DEF SyncUpdate, IInv, TypeOK, Updates
<1>2. /\ UNCHANGED <<file, editorVars, up, generation, starter, turn, used>>
      /\ synced' = synced \cup {r} /\ checked' = checked \ {r}
      /\ overrides' = [overrides EXCEPT ![r.variable] = w]
  BY DEF SyncUpdate, Updated
<1>3. wrapper \in [Wrappers -> Places] /\ wrapper[w].at \in {"syncing", "gone"}
  BY DEF SyncUpdate, IInv, TypeOK, Places, Gone
<1>4. /\ \A x \in Wrappers : x # w => wrapper'[x] = wrapper[x]
      /\ wrapper' \in [Wrappers -> Places]
      /\ \/ wrapper'[w].at = "gone"
         \/ /\ wrapper[w].at = "syncing" /\ wrapper'[w].at = "running"
            /\ wrapper'[w].source = wrapper[w].source /\ wrapper'[w].generation = wrapper[w].generation
  <2>1. CASE wrapper[w].at = "syncing" /\ wrapper' = [wrapper EXCEPT ![w].at = "running"]
    <3>1. wrapper[w] \in Running
      BY <1>1, <1>3, <2>1, Place
    <3>2. wrapper'[w] = [at |-> "running", source |-> wrapper[w].source, generation |-> wrapper[w].generation]
      <4>1. wrapper'[w] = [wrapper[w] EXCEPT !.at = "running"]
        BY <1>1, <1>3, <2>1
      <4>2. wrapper[w] = [at |-> wrapper[w].at, source |-> wrapper[w].source, generation |-> wrapper[w].generation]
        BY <3>1 DEF Running
      <4> QED BY <4>1, <4>2
    <3>3. wrapper'[w] \in Running
      BY <3>1, <3>2 DEF Running
    <3>4. \A x \in Wrappers : x # w => wrapper'[x] = wrapper[x]
      BY <1>1, <1>3, <2>1
    <3>5. wrapper' \in [Wrappers -> Places]
      BY <1>1, <1>3, <2>1, <3>3 DEF Places
    <3> QED BY <2>1, <3>2, <3>4, <3>5
  <2>2. CASE Leaves(w)
    BY <1>1, <1>3, <2>2 DEF Leaves, Places, Gone
  <2> QED BY <2>1, <2>2 DEF SyncUpdate
<1>5. overrides' \in [Variables -> Wrappers \cup {None}] /\ overrides'[r.variable] = w /\ w # None
  BY <1>1, <1>2, ConfigurationAssumption DEF IInv, TypeOK
<1>6. TypeOK'
  BY <1>1, <1>2, <1>4, <1>5 DEF IInv, TypeOK, Places, Gone, editorVars
<1>7. EditorInv' /\ OwnKeyIsUsed' /\ StopRevokesKeys'
  BY <1>2 DEF IInv, EditorInv, OwnKeyIsUsed, StopRevokesKeys, editorVars
<1>8. LifeInv'
  BY <1>1, <1>2, <1>3, <1>4 DEF IInv, LifeInv
<1>9. OverrideInv'
  <2> SUFFICES ASSUME NEW v \in Variables, overrides'[v] # None
               PROVE  [generation |-> generation, variable |-> v, wrapper |-> overrides'[v]] \in synced'
    BY <1>2 DEF OverrideInv
  <2>1. CASE v = r.variable
    BY <2>1, <1>1, <1>2, <1>5
  <2>2. CASE v # r.variable
    <3>1. overrides'[v] = overrides[v]
      BY <2>2, <1>2 DEF IInv, TypeOK
    <3> QED BY <3>1, <1>1, <1>2 DEF IInv, OverrideInv
  <2> QED BY <2>1, <2>2
<1>10. HandedInv'
  <2> SUFFICES ASSUME NEW x \in Wrappers, wrapper'[x].at = "running",
                      wrapper'[x].generation = generation, wrapper'[x].source # Inline
               PROVE  overrides'[wrapper'[x].source] # None
    BY <1>2 DEF HandedInv
  <2>1. CASE x = w
    BY <2>1, <1>1, <1>4, <1>5 DEF IInv, CheckedInv
  <2>2. CASE x # w
    <3>1. overrides[wrapper[x].source] # None /\ wrapper'[x] = wrapper[x]
      BY <2>2, <1>1, <1>4 DEF IInv, HandedInv
    <3>2. wrapper[x].source \in Variables
      <4>1. wrapper[x] \in Running
        BY <1>3, <3>1, Place
      <4> QED BY <4>1, <3>1 DEF Running, Sources
    <3> QED BY <3>1, <3>2, <1>2, <1>5 DEF IInv, TypeOK
  <2> QED BY <2>1, <2>2
<1>11. CheckedInv'
  <2>1. \A p \in checked : p.wrapper \in Wrappers
    BY DEF IInv, TypeOK, Updates
  <2> QED BY <1>2, <1>4, <2>1 DEF IInv, CheckedInv
<1> QED BY <1>6, <1>7, <1>8, <1>9, <1>10, <1>11 DEF IInv

(* A turn.                                                                 *)
LEMMA LoadStep == ASSUME IInv, NEW w \in Wrappers, TurnLoad(w)
                  PROVE  IInv'
<1>1. UNCHANGED <<file, editorVars, daemonVars, wrapper, used, checked, synced>> /\ wrapper[w].at = "running"
  BY DEF TurnLoad
<1>2. PICK s \in Sources : turn' = [turn EXCEPT ![w] = s]
  <2>1. PICK name \in Names : Has(file, name) /\ turn' = [turn EXCEPT ![w] = file.models[name]]
    BY DEF TurnLoad
  <2>2. file \in Config
    BY DEF TurnLoad, IInv, TypeOK
  <2>3. file.models[name] \in Sources
    BY <2>1, <2>2 DEF Has, Config
  <2> QED BY <2>1, <2>3
<1>3. TypeOK'
  BY <1>1, <1>2 DEF IInv, TypeOK, editorVars, daemonVars
<1>4. LifeInv'
  BY <1>1, <1>2 DEF IInv, LifeInv, TypeOK, daemonVars
<1>5. EditorInv' /\ OverrideInv' /\ HandedInv' /\ CheckedInv' /\ OwnKeyIsUsed' /\ StopRevokesKeys'
  BY <1>1 DEF IInv, EditorInv, OverrideInv, HandedInv, CheckedInv, OwnKeyIsUsed, StopRevokesKeys, editorVars, daemonVars
<1> QED BY <1>3, <1>4, <1>5 DEF IInv

LEMMA KeyStep == ASSUME IInv, NEW w \in Wrappers, TurnKey(w)
                 PROVE  IInv'
<1> DEFINE v == turn[w]
           key == Getenv(v)
           u == [variable |-> v, key |-> key, generation |-> generation, starter |-> starter,
                 own |-> turn[w] = wrapper[w].source]
<1>1. /\ UNCHANGED <<file, editorVars, daemonVars, wrapper, checked, synced>>
      /\ turn' = [turn EXCEPT ![w] = None]
      /\ used' = [used EXCEPT ![w] = IF v = Inline \/ ~Accepted(key) THEN None ELSE u]
      /\ v # None /\ up /\ wrapper[w].generation = generation
  BY DEF TurnKey, Reaches
<1>2. wrapper[w].at = "running" /\ v \in Sources
  BY <1>1 DEF IInv, LifeInv, TypeOK
<1>3. generation \in 1..MaxGenerations /\ starter \in Wrappers
  BY <1>1 DEF IInv, LifeInv
<1>4. ASSUME v # Inline, key # None
      PROVE  /\ v \in Variables /\ key \in Wrappers
             /\ \/ overrides[v] # None /\ [generation |-> generation, variable |-> v, wrapper |-> key] \in synced
                \/ key = starter /\ v \in Environment[starter] /\ overrides[v] = None
  <2>1. v \in Variables
    BY <1>2, <1>4 DEF Sources
  <2>2. CASE overrides[v] # None
    BY <2>1, <2>2, <1>1 DEF Getenv, IInv, OverrideInv, TypeOK
  <2>3. CASE overrides[v] = None
    BY <2>1, <2>3, <1>3, <1>4 DEF Getenv, Fallback
  <2> QED BY <2>1, <2>2, <2>3
<1>5. ASSUME v # Inline, key # None PROVE u \in Uses
  BY <1>3, <1>4, <1>5 DEF Uses
<1>6. used' \in [Wrappers -> Uses \cup {None}]
  <2> HIDE DEF u, v, key
  <2> QED BY <1>1, <1>5 DEF IInv, TypeOK, Accepted
<1>7. TypeOK'
  BY <1>1, <1>6 DEF IInv, TypeOK, editorVars, daemonVars
<1>8. LifeInv'
  BY <1>1 DEF IInv, LifeInv, TypeOK, daemonVars
<1>9. EditorInv' /\ OverrideInv' /\ HandedInv' /\ CheckedInv'
  BY <1>1 DEF IInv, EditorInv, OverrideInv, HandedInv, CheckedInv, editorVars, daemonVars
<1>10. \A x \in Wrappers : x # w => used'[x] = used[x]
  BY <1>1 DEF IInv, TypeOK
<1>11. used'[w] # None => v # Inline /\ key # None /\ used'[w] = u
  <2> HIDE DEF u, v, key
  <2> QED BY <1>1 DEF IInv, TypeOK, Accepted
<1>12. OwnKeyIsUsed'
  <2>1. ASSUME used'[w] # None, used'[w].own
        PROVE  [generation |-> generation, variable |-> v, wrapper |-> key] \in synced
    <3>1. v = wrapper[w].source /\ v # Inline /\ key # None
      <4>1. v # Inline /\ key # None /\ used'[w] = u
        BY <1>11, <2>1
      <4>2. u.own = (turn[w] = wrapper[w].source)
        BY Zenon
      <4>3. u.own
        BY <4>1, <2>1, Zenon
      <4>4. turn[w] = wrapper[w].source
        BY <4>2, <4>3, Zenon
      <4> QED BY <4>1, <4>4
    <3>2. overrides[v] # None
      BY <3>1, <1>1, <1>2 DEF IInv, HandedInv
    <3> QED BY <3>1, <3>2, <1>4
  <2> QED BY <1>1, <1>10, <1>11, <2>1 DEF IInv, OwnKeyIsUsed
<1>13. StopRevokesKeys'
  BY <1>1, <1>4, <1>10, <1>11 DEF IInv, StopRevokesKeys
<1> QED BY <1>7, <1>8, <1>9, <1>12, <1>13 DEF IInv

LEMMA StopStep == IInv /\ Stop => IInv'
<1> SUFFICES ASSUME IInv, Stop PROVE IInv'
  OBVIOUS
<1>1. /\ up' = FALSE /\ checked' = {} /\ turn' = [x \in Wrappers |-> None]
      /\ UNCHANGED <<file, editorVars, generation, starter, overrides, wrapper, used, synced>>
  BY DEF Stop
<1>2. TypeOK'
  BY <1>1 DEF IInv, TypeOK, editorVars
<1>3. EditorInv' /\ LifeInv' /\ OverrideInv' /\ HandedInv' /\ CheckedInv' /\ OwnKeyIsUsed' /\ StopRevokesKeys'
  BY <1>1 DEF IInv, EditorInv, LifeInv, OverrideInv, HandedInv, CheckedInv, OwnKeyIsUsed, StopRevokesKeys, editorVars
<1> QED BY <1>2, <1>3 DEF IInv

LEMMA StepInv == IInv /\ [Next]_vars => IInv'
<1> SUFFICES ASSUME IInv, [Next]_vars PROVE IInv'
  OBVIOUS
<1>1. CASE UNCHANGED vars
  BY <1>1 DEF IInv, TypeOK, EditorInv, LifeInv, OverrideInv, HandedInv, CheckedInv, OwnKeyIsUsed, StopRevokesKeys,
       vars, editorVars, daemonVars, wrapperVars
<1>2. CASE Next
  <2>1. ASSUME NEW e \in Editors, Begin(e) \/ Finish(e) \/ Abandon(e) PROVE IInv'
    BY <2>1, CommandStep
  <2>2. ASSUME NEW w \in Wrappers,
               Launch(w) \/ Ensure(w) \/ SyncCheck(w) \/ Fail(w) \/ Exit(w) \/ TurnLoad(w) \/ TurnKey(w)
        PROVE  IInv'
    BY <2>2, LaunchStep, EnsureStep, CheckStep, LeaveStep, LoadStep, KeyStep
  <2>3. ASSUME NEW r \in checked, SyncUpdate(r) PROVE IInv'
    BY <2>3, UpdateStep
  <2> QED BY <1>2, <2>1, <2>2, <2>3, StopStep DEF Next
<1> QED BY <1>1, <1>2

THEOREM Invariance == Spec => []IInv
BY InitInv, StepInv, PTL DEF Spec

(* The stored configuration and every loaded copy are valid, and every     *)
(* variable of the wrappers, the daemon and the turns has its type.        *)
THEOREM TypeCorrect == Spec => []TypeOK
BY Invariance, PTL DEF IInv

(* A turn that reads its wrapper's own variable gets a key some wrapper    *)
(* handed to this daemon (provider_environment.go).                        *)
THEOREM OwnKeys == Spec => []OwnKeyIsUsed
BY Invariance, PTL DEF IInv

(* No key outlives the daemon it was handed to.                            *)
THEOREM KeysDieWithTheDaemon == Spec => []StopRevokesKeys
BY Invariance, PTL DEF IInv

================================================================================
