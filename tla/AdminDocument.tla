--------------------------- MODULE AdminDocument ---------------------------
(***************************************************************************)
(* The configuration document of the Admin (apps/admin/config_store.py) and  *)
(* the handlers of apps/admin/main.py that change it.  The document is one  *)
(* JSON file: each operation of the store loads all of it, changes one      *)
(* section and writes all of it back, in threads that share no lock.        *)
(***************************************************************************)
EXTENDS Integers, Sequences, FiniteSets

CONSTANTS
    Worker,             \* threads that serve requests
    Repo, Remote, Service, Key, Provider, BuiltinProvider,
    Anchor,             \* a catalog entry that no request deletes
    Job, BuiltinJob,
    MaxHandlers         \* requests served

None == "none"
NoRow == "absent"

AdminDocumentAssumption ==
    /\ BuiltinJob \subseteq Job /\ Anchor \in Service /\ None \notin Provider \cup BuiltinProvider
    /\ {"skills", "llm"} \cap Key = {} /\ MaxHandlers \in Nat

ASSUME AdminDocumentAssumption

VARIABLES
    doc,     \* the document last written
    file,    \* the file on disk: whole, empty (opened for writing), mangled
    serving, \* frame of each worker
    served   \* requests so far

documentVars == <<doc, file, serving, served>>

-----------------------------------------------------------------------------
(* A document.  A row of cron_jobs is abstracted to its handler, rows of the  *)
(* other tables to their names, settings to the keys that are set.            *)

Handlers == {"repo.sync_changed", "replay.default_flow", "custom"}
SettingKey == Key \cup {"skills", "llm"}

Document == [repos : SUBSET Repo, remotes : SUBSET Remote, catalog : SUBSET Service,
             env : SUBSET Key, settings : SUBSET SettingKey,
             providers : SUBSET Provider, default : Provider \cup BuiltinProvider \cup {None},
             jobs : [Job -> Handlers \cup {NoRow}]]

\* The handler of a builtin job is part of its identity.
BuiltinHandler == "repo.sync_changed"

EmptyDocument ==
    [repos |-> {}, remotes |-> {}, catalog |-> {}, env |-> {}, settings |-> {},
     providers |-> {}, default |-> None, jobs |-> [j \in Job |-> NoRow]]

\* _seed_builtin_cron_jobs: builtin jobs are always there, with their own handlers.
Seeded(d) ==
    [d EXCEPT !.jobs = [j \in Job |-> IF j \in BuiltinJob THEN BuiltinHandler ELSE d.jobs[j]]]

\* upsert_cron_job, for a job that exists as a builtin or not: then the rows are seeded again.
SavedJob(d, j, h) ==
    Seeded([d EXCEPT !.jobs[j] = IF j \in BuiltinJob /\ d.jobs[j] # NoRow THEN d.jobs[j] ELSE h])

DeletedJob(d, j) == Seeded([d EXCEPT !.jobs[j] = NoRow])

SavedRepo(d, n) == [d EXCEPT !.repos = @ \cup {n}]
DeletedRepo(d, n) == [d EXCEPT !.repos = @ \ {n}]
SavedRemote(d, n) == [d EXCEPT !.remotes = @ \cup {n}]
DeletedRemote(d, n) == [d EXCEPT !.remotes = @ \ {n}]
SavedService(d, n) == [d EXCEPT !.catalog = @ \cup {n}]
DeletedService(d, n) == [d EXCEPT !.catalog = @ \ {n}]
SavedSettings(d, ks) == [d EXCEPT !.settings = @ \cup ks]

\* An environment variable is written twice: in its table and among the settings.
SavedVariable(d, k) == [d EXCEPT !.env = @ \cup {k}, !.settings = @ \cup {k}]
DeletedVariable(d, k) == [d EXCEPT !.env = @ \ {k}, !.settings = @ \ {k}]

SavedProvider(d, p) == [d EXCEPT !.providers = @ \cup {p}]
DeletedProvider(d, p) ==
    [d EXCEPT !.providers = @ \ {p}, !.default = IF @ = p THEN None ELSE @]
SavedDefault(d, p) == [d EXCEPT !.default = p]

\* What one operation of the store makes of the document it loaded.
Changed(d, op) ==
    CASE op.kind = "save repo" -> SavedRepo(d, op.row)
      [] op.kind = "delete repo" -> DeletedRepo(d, op.row)
      [] op.kind = "save remote" -> SavedRemote(d, op.row)
      [] op.kind = "delete remote" -> DeletedRemote(d, op.row)
      [] op.kind = "save service" -> SavedService(d, op.row)
      [] op.kind = "delete service" -> DeletedService(d, op.row)
      [] op.kind = "save settings" -> SavedSettings(d, op.row)
      [] op.kind = "save variable" -> SavedVariable(d, op.row)
      [] op.kind = "delete variable" -> DeletedVariable(d, op.row)
      [] op.kind = "save provider" -> SavedProvider(d, op.row)
      [] op.kind = "delete provider" -> DeletedProvider(d, op.row)
      [] op.kind = "set default" -> SavedDefault(d, op.row)
      [] op.kind = "save job" -> SavedJob(d, op.row, "custom")
      [] op.kind = "delete job" -> DeletedJob(d, op.row)

\* delete_cron_job refuses jobs that are missing, and builtin ones.
Refused(d, op) == op.kind = "delete job" /\ (op.row \in BuiltinJob \/ d.jobs[op.row] = NoRow)

Op(kind, row) == [kind |-> kind, row |-> row]

-----------------------------------------------------------------------------
(* A worker: the operations its handler still has to do, and the document it   *)
(* holds, as loaded or as it is about to be written.                           *)

Idle == [pc |-> "idle", todo |-> <<>>, held |-> EmptyDocument]

Serve(w, ops) ==
    /\ serving[w].pc = "idle" /\ served < MaxHandlers
    /\ serving' = [serving EXCEPT ![w] = [Idle EXCEPT !.pc = "load", !.todo = ops]]
    /\ served' = served + 1
    /\ UNCHANGED <<doc, file>>

RegisterRepo(w) == \E n \in Repo : Serve(w, <<Op("save repo", n)>>)
SyncRepo(w) == \E n \in Repo : Serve(w, <<Op("save repo", n)>>)
ImportLocalRepo(w) == \E n \in Repo : Serve(w, <<Op("save repo", n), Op("save repo", n)>>)
UnregisterRepo(w) == \E n \in Repo : Serve(w, <<Op("delete repo", n)>>)
UpsertRemote(w) == file = "whole" /\ \E n \in Remote : Serve(w, <<Op("save remote", n)>>)
DeleteRemote(w) == \E n \in Remote : Serve(w, <<Op("delete remote", n)>>)
UpsertCatalog(w) == \E n \in Service \ {Anchor} : Serve(w, <<Op("save service", n)>>)
DeleteCatalog(w) == \E n \in Service \ {Anchor} : Serve(w, <<Op("delete service", n)>>)
UpdateSettings(w) == \E k \in SettingKey : Serve(w, <<Op("save settings", {k})>>)
UpsertVariable(w) == \E k \in Key : Serve(w, <<Op("save variable", k)>>)
DeleteVariable(w) == \E k \in Key : Serve(w, <<Op("delete variable", k)>>)

UpsertProvider(w) ==
    \E p \in Provider, ks \in {{}, {"llm"}} :
        Serve(w, <<Op("save provider", p), Op("save settings", ks)>>)

\* The provider is looked up in one load and made the default in another.
SetDefaultProvider(w) ==
    /\ file = "whole"
    /\ \E p \in doc.providers \cup BuiltinProvider : Serve(w, <<Op("set default", p)>>)

DeleteProvider(w) == \E p \in Provider : Serve(w, <<Op("delete provider", p)>>)

\* _persist_ai_provider_if_changed writes back all the settings it has read.
TestProvider(w) ==
    /\ file = "whole"
    /\ \E p \in doc.providers :
          Serve(w, <<Op("save provider", p), Op("save settings", doc.settings)>>)

CreateJob(w) == \E j \in Job : Serve(w, <<Op("save job", j)>>)

UpdateJob(w) ==
    /\ file = "whole"
    /\ \E j \in Job : Seeded(doc).jobs[j] # NoRow /\ Serve(w, <<Op("save job", j)>>)

DeleteJob(w) == \E j \in Job : Serve(w, <<Op("delete job", j)>>)

Request(w) ==
    \/ RegisterRepo(w) \/ SyncRepo(w) \/ ImportLocalRepo(w) \/ UnregisterRepo(w)
    \/ UpsertRemote(w) \/ DeleteRemote(w) \/ UpsertCatalog(w) \/ DeleteCatalog(w)
    \/ UpdateSettings(w) \/ UpsertVariable(w) \/ DeleteVariable(w)
    \/ UpsertProvider(w) \/ SetDefaultProvider(w) \/ DeleteProvider(w) \/ TestProvider(w)
    \/ CreateJob(w) \/ UpdateJob(w) \/ DeleteJob(w)

-----------------------------------------------------------------------------
(* One operation: load, and save what was made of it. *)

Become(w, frame) == serving' = [serving EXCEPT ![w] = frame]

\* Faulty: a file that cannot be parsed is taken for one that is not there.
Load_Reset(w) ==
    /\ serving[w].pc = "load"
    /\ LET d == IF file = "whole" THEN doc ELSE EmptyDocument IN
       Become(w, [serving[w] EXCEPT !.pc = IF Seeded(d) = d THEN "loaded" ELSE "seed",
                                    !.held = Seeded(d)])
    /\ UNCHANGED <<doc, file, served>>

\* A file that is not whole makes json.loads raise, and the request fails.
Load(w) ==
    /\ serving[w].pc = "load"
    /\ \/ /\ file = "whole"
          /\ Become(w, [serving[w] EXCEPT !.pc = IF Seeded(doc) = doc THEN "loaded" ELSE "seed",
                                          !.held = Seeded(doc)])
       \/ file # "whole" /\ Become(w, Idle)
    /\ UNCHANGED <<doc, file, served>>

\* load() found builtin jobs missing or changed: it saves before the operation goes on.
OpenSeed(w) ==
    /\ serving[w].pc = "seed"
    /\ file' = "empty"
    /\ Become(w, [serving[w] EXCEPT !.pc = "seeding"])
    /\ UNCHANGED <<doc, served>>

\* write_text: opening the file empties it ...
Open(w) ==
    /\ serving[w].pc = "loaded"
    /\ LET op == Head(serving[w].todo) IN
       \/ /\ Refused(serving[w].held, op)
          /\ Become(w, Idle) /\ UNCHANGED file
       \/ /\ ~Refused(serving[w].held, op)
          /\ file' = "empty"
          /\ Become(w, [serving[w] EXCEPT !.pc = "writing", !.held = Changed(@, op)])
    /\ UNCHANGED <<doc, served>>

Writing(w) == serving[w].pc \in {"seeding", "writing"}

\* ... and the text is written from its start.  Of two writers that both opened it, the
\* second leaves the end of a longer text behind: then nobody can parse the file.
Write(w) ==
    /\ Writing(w)
    /\ \/ file' = "whole" /\ doc' = serving[w].held
       \/ file # "empty" /\ file' = "mangled" /\ UNCHANGED doc
    /\ LET rest == Tail(serving[w].todo) IN
       Become(w, IF serving[w].pc = "seeding" THEN [serving[w] EXCEPT !.pc = "loaded"]
                 ELSE IF rest = <<>> THEN Idle
                 ELSE [Idle EXCEPT !.pc = "load", !.todo = rest])
    /\ UNCHANGED served

\* The Admin process stops: requests are lost, the file stays as it is.
Stop ==
    /\ \E w \in Worker : serving[w].pc # "idle"
    /\ serving' = [w \in Worker |-> Idle]
    /\ UNCHANGED <<doc, file, served>>

-----------------------------------------------------------------------------
\* A document written by an earlier release: the builtin job is missing or has another handler.
DocumentInit ==
    /\ \E h \in Handlers \cup {NoRow} :
          doc = [EmptyDocument EXCEPT !.catalog = {Anchor},
                                      !.jobs = [j \in Job |-> IF j \in BuiltinJob THEN h ELSE NoRow]]
    /\ file = "whole"
    /\ serving = [w \in Worker |-> Idle]
    /\ served = 0

DocumentNext ==
    \/ \E w \in Worker : Request(w) \/ Load(w) \/ OpenSeed(w) \/ Open(w) \/ Write(w)
    \/ Stop

DocumentSpec == DocumentInit /\ [][DocumentNext]_documentVars

-----------------------------------------------------------------------------
\* The document, the file and the workers have their types.
DocumentTypeOK ==
    /\ doc \in Document /\ file \in {"whole", "empty", "mangled"}
    /\ served \in 0 .. MaxHandlers
    /\ DOMAIN serving = Worker
    /\ \A w \in Worker :
          /\ serving[w].pc \in {"idle", "load", "seed", "seeding", "loaded", "writing"}
          /\ serving[w].held \in Document

\* Builtin jobs are there with their own handlers, variables are mirrored in the settings,
\* and what no request deletes is there.
Coherent(d) ==
    /\ \A j \in BuiltinJob : d.jobs[j] = BuiltinHandler
    /\ d.env \subseteq d.settings
    /\ Anchor \in d.catalog

\* Whatever requests overlap, and whichever saves are lost, overwritten or cut short: every
\* document that is written is coherent.  A request that finds half a file must fail, and
\* never take it for a missing one (config_store.py:240).
DocumentCoherent == [][doc' # doc => Coherent(doc')]_documentVars

=============================================================================
