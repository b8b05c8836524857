--------------------------- MODULE CertificateStore ---------------------------
(***************************************************************************)
(* certs.Manager.Ensure (internal/certs/manager.go): a CA certificate, its *)
(* key, a server certificate it signed and the key of that one, in four    *)
(* files that are replaced one after the other. What a file holds is told  *)
(* apart by the run of generate it comes from; 0 is a file that is missing *)
(* or cannot be parsed. The files outlive the process; step, written and   *)
(* material are in its memory.                                             *)
(***************************************************************************)
EXTENDS Naturals, Sequences

CONSTANT MaxGenerations   \* bound on the runs of generate

VARIABLES
  files,      \* of each file, the generation it holds
  latest,     \* generations made so far
  expiring,   \* those whose certificates are invalid within a day
  step,       \* where Ensure is
  written,    \* files written by this run of generate
  material    \* the generation in use: being written, or loaded

vars == <<files, latest, expiring, step, written, material>>

Files == {"ca", "caKey", "server", "serverKey"}
WriteOrder == <<"ca", "caKey", "server", "serverKey">>

TypeOK ==
  /\ latest \in 0..MaxGenerations
  /\ files \in [Files -> 0..latest]
  /\ expiring \subseteq 1..latest
  /\ step \in {"none", "load", "write", "sync", "validate", "done", "failed"}
  /\ written \in 0..4 /\ material \in 0..latest

Init ==
  /\ files = [f \in Files |-> 0] /\ latest = 0 /\ expiring = {}
  /\ step = "none" /\ written = 0 /\ material = 0

(* loadAndValidate: the files parse, the CA certificate and the CA key      *)
(* match, the server certificate and its key match, the CA signed the       *)
(* server certificate, and neither is about to expire.                      *)
Accepted_NoChain(g) ==
  /\ \A f \in Files : files[f] # 0
  /\ files["ca"] = files["caKey"]
  /\ files["server"] = files["serverKey"]
  /\ files["ca"] \notin expiring /\ files["server"] \notin expiring
  /\ g = files["server"]

Accepted(g) ==
  /\ \A f \in Files : files[f] # 0
  /\ files["ca"] = files["caKey"]
  /\ files["server"] = files["serverKey"]
  /\ files["server"] = files["ca"]
  /\ files["ca"] \notin expiring /\ files["server"] \notin expiring
  /\ g = files["server"]

Begin ==
  /\ step = "none" /\ step' = "load"
  /\ UNCHANGED <<files, latest, expiring, written, material>>

Forget ==
  /\ step' = "none" /\ written' = 0 /\ material' = 0
  /\ UNCHANGED <<files, latest, expiring>>

(* The set on disk is used if it is accepted, and replaced otherwise.       *)
Load ==
  /\ step = "load"
  /\ \E g \in 1..latest : Accepted(g) /\ material' = g
  /\ step' = "done"
  /\ UNCHANGED <<files, latest, expiring, written>>

Generate ==
  /\ step = "load"
  /\ ~\E g \in 1..latest : Accepted(g)
  /\ latest < MaxGenerations
  /\ latest' = latest + 1 /\ material' = latest'
  /\ step' = "write" /\ written' = 0
  /\ UNCHANGED <<files, expiring>>

(* writeAtomic, for the next file. *)
Put(f) == files' = [files EXCEPT ![f] = material]

WriteFile ==
  /\ step = "write"
  /\ Put(WriteOrder[written + 1])
  /\ written' = written + 1
  /\ step' = IF written' = 4 THEN "sync" ELSE "write"
  /\ UNCHANGED <<latest, expiring, material>>

Sync ==
  /\ step = "sync" /\ step' = "validate" /\ written' = 0
  /\ UNCHANGED <<files, latest, expiring, material>>

(* What was generated is validated against the time Ensure began.           *)
Validate ==
  /\ step = "validate"
  /\ step' = IF Accepted(material) THEN "done" ELSE "failed"
  /\ UNCHANGED <<files, latest, expiring, written, material>>

(* An error: of the directory, of the random source, or of a write, which   *)
(* may come after the file was replaced.                                    *)
Fail ==
  /\ step \in {"load", "write", "sync"}
  /\ \/ UNCHANGED files
     \/ step = "write" /\ Put(WriteOrder[written + 1])
  /\ step' = "failed"
  /\ UNCHANGED <<latest, expiring, written, material>>

Ensure == Load \/ Generate \/ WriteFile \/ Sync \/ Validate

-----------------------------------------------------------------------------
(* While no process writes them: a file is lost or damaged, time passes.    *)
Damage(f) ==
  /\ files' = [files EXCEPT ![f] = 0]
  /\ UNCHANGED <<latest, expiring, step, written, material>>

Age ==
  /\ expiring' = 1..latest
  /\ UNCHANGED <<files, latest, step, written, material>>
=============================================================================
