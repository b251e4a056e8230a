------------------------------ MODULE RepoSync ------------------------------
(***************************************************************************)
(* Repository sync: rootseeker/code_index/repo_sync.py with its indexers,  *)
(* the two cron handlers of apps/scheduler/main.py and the repository      *)
(* handlers of apps/admin/main.py.                                         *)
(*                                                                         *)
(* Several services work on one directory of checkouts and on one set of   *)
(* indexes: the scheduler builds a service for each job, the Admin keeps   *)
(* one.  Nothing locks a checkout.  A thread is one call of a service; each *)
(* git command and each request to an index is a step of its own.          *)
(***************************************************************************)
EXTENDS Integers, FiniteSets, Sequences

CONSTANTS
    Repo,        \* names of repositories
    Scheduler,   \* threads that run the scheduler's jobs, in a loop
    Handler,     \* threads that serve requests of the Admin
    NoRepo,      \* an idle thread works on no repository
    Admin,       \* the service that the handlers share
    Jobs,        \* the handlers of the enabled jobs, in the scheduler's order
    MaxCommit, MaxFaults, MaxRequests, MaxRenames

Thread == Scheduler \cup Handler
Service == Scheduler \cup {Admin}
Commit == 1 .. MaxCommit

RepoAssumption ==
    /\ Scheduler \cap Handler = {}
    /\ Admin \notin Scheduler
    /\ NoRepo \notin Repo
    /\ Jobs \in Seq({"changed", "all"}) /\ Jobs # << >>
    /\ MaxCommit \in Nat \ {0}
    /\ {MaxFaults, MaxRequests, MaxRenames} \subseteq Nat

ASSUME RepoAssumption

VARIABLES
    imported,    \* repositories registered without a URL (import-local), chosen once
    head,        \* commit at the tip of the remote's branch
    trunk,       \* how often that branch was renamed: names the branch
    checkout,    \* the directory of a repository
    zoekt,       \* commit in the lexical index, 0 if none
    qdrant,      \* commits whose chunks are in the collection
    graph,       \* commit of the graph kept inside the checkout, 0 if none
    collection,  \* the collection: of the own vector size, or other (or missing)
    status,      \* per service: what its RepositoryRef says of a repository
    stored,      \* what the Admin's document says of a repository
    th,          \* frame of each thread
    faults, requests

env == <<imported, head, trunk>>
indexes == <<zoekt, qdrant, graph, collection>>
bounds == <<faults, requests>>
vars == <<env, checkout, indexes, status, stored, th, bounds>>

-----------------------------------------------------------------------------
(* Values.                                                                 *)

RepoSyncState == {"pending", "syncing", "indexing", "completed", "failed"}
RepoSyncStatus == [state : RepoSyncState, commit : Commit \cup {0}]
Unregistered == [state |-> "unregistered", commit |-> 0]
Pending == [state |-> "pending", commit |-> 0]

\* A directory: absent; debris (files, no .git); partial (a .git whose HEAD does
\* not resolve, left by a clone that "by" runs or ran); or a work tree with the
\* commit of HEAD, its branch, and the commit of origin/branch.
Dir(kind, c, b, o, t) == [kind |-> kind, commit |-> c, branch |-> b, origin |-> o, by |-> t]
NoThread == "nobody"
Absent == Dir("absent", 0, 0, 0, NoThread)
Debris == Dir("debris", 0, 0, 0, NoThread)
PartialClone(t) == Dir("partial", 0, 0, 0, t)
WorkTree(c, b, o) == Dir("tree", c, b, o, NoThread)
Directory == {Absent, Debris} \cup {PartialClone(t) : t \in Thread}
               \cup {WorkTree(c, b, o) : c \in Commit, b \in 0 .. MaxRenames, o \in Commit}

\* _is_usable_git_repo: HEAD resolves.
Usable(r) == checkout[r].kind = "tree"
\* What a scan of the files or an indexer finds in the directory.
Content(r) == checkout[r].commit

ServiceOf(t) == IF t \in Scheduler THEN t ELSE Admin
Registered(s) == {r \in Repo : status[s][r] # Unregistered}


Idle(j) == [pc |-> "idle", repo |-> NoRepo, todo |-> {}, index |-> FALSE, force |-> FALSE,
            live |-> FALSE, chunks |-> 0, ready |-> {}, held |-> Unregistered, job |-> j]
\* The statements of sync, has_remote_updates and of the handlers.
InSync == {"begin", "start", "clone", "cloning", "fetch", "reset", "hash", "scan", "zoekt",
           "wipe", "put", "graph", "finish"}
Pc == {"idle", "loop", "check", "compare", "get", "add", "upsert", "drop"} \cup InSync
\* "live": the RepositoryRef that the call holds is still the one in its service's
\* table.  "job": the job that the scheduler runs, or will run next.
Frame == [pc : Pc, repo : Repo \cup {NoRepo}, todo : SUBSET Repo, index : BOOLEAN, force : BOOLEAN,
          live : BOOLEAN, chunks : Commit \cup {0}, ready : SUBSET {"zoekt", "qdrant"},
          held : RepoSyncStatus \cup {Unregistered}, job : 1 .. Len(Jobs)]

Now(t) == th[t].repo
At(t, pc) == th[t].pc = pc
Goto(t, pc) == th' = [th EXCEPT ![t].pc = pc]
\* The step may go wrong; each time uses up one of the bounded faults.
Fault == faults < MaxFaults /\ faults' = faults + 1
NoFault == UNCHANGED faults
\* The call changes the RepositoryRef it holds, which may have left the table.
SetState(t, x) ==
    status' = IF th[t].live THEN [status EXCEPT ![ServiceOf(t)][Now(t)].state = x] ELSE status

\* sync returned, or failed with an exception that it catches: the scheduler
\* goes on with the next repository, the Admin persists the state.
Returned(t) == IF t \in Scheduler THEN "loop" ELSE "get"
Fail(t) == SetState(t, "failed") /\ Goto(t, Returned(t))

-----------------------------------------------------------------------------
(* The world: commits, a renamed branch.                                   *)

Advance(r) ==
    /\ head[r] < MaxCommit
    /\ head' = [head EXCEPT ![r] = @ + 1]
    /\ \/ r \notin imported /\ UNCHANGED checkout
       \/ r \in imported /\ Usable(r)
          /\ checkout' = [checkout EXCEPT ![r] = WorkTree(head[r] + 1, 0, head[r] + 1)]
    /\ UNCHANGED <<imported, trunk, indexes, status, stored, th, bounds>>

Rename(r) ==
    /\ r \notin imported /\ trunk[r] < MaxRenames
    /\ trunk' = [trunk EXCEPT ![r] = @ + 1]
    /\ UNCHANGED <<imported, head, checkout, indexes, status, stored, th, bounds>>

-----------------------------------------------------------------------------
(* The scheduler's jobs.                                                   *)

\* _build_repo_sync_service: a new service with what the Admin's document holds.
OpenJob(t) ==
    /\ t \in Scheduler /\ At(t, "idle")
    /\ status' = [status EXCEPT ![t] = stored]
    /\ th' = [th EXCEPT ![t].pc = "loop", ![t].todo = {r \in Repo : stored[r] # Unregistered},
                        ![t].index = TRUE, ![t].force = FALSE]
    /\ UNCHANGED <<env, checkout, indexes, stored, bounds>>

\* The next repository of sync_changed or of sync_all.
NextRepo(t) ==
    /\ At(t, "loop")
    /\ \E r \in th[t].todo :
          th' = [th EXCEPT ![t].todo = @ \ {r}, ![t].repo = r, ![t].chunks = 0,
                           ![t].pc = IF Jobs[th[t].job] = "changed" THEN "check" ELSE "begin"]
    /\ UNCHANGED <<env, checkout, indexes, status, stored, bounds>>

EndJob(t) ==
    /\ At(t, "loop") /\ th[t].todo = {}
    /\ th' = [th EXCEPT ![t] = Idle((@.job % Len(Jobs)) + 1)]
    /\ UNCHANGED <<env, checkout, indexes, status, stored, bounds>>

\* has_remote_updates: a checkout that is missing or corrupt needs a sync if there is a URL.
Check(t) ==
    /\ At(t, "check") /\ (~Usable(Now(t)) \/ Now(t) \in imported)
    /\ Goto(t, IF Now(t) \in imported THEN "loop" ELSE "begin")
    /\ UNCHANGED <<env, checkout, indexes, status, stored, bounds>>

\* Otherwise it fetches.  When the checkout's branch is gone it fetches the
\* remote's default branch, which leaves origin/<branch> of a clone that was made
\* with --single-branch undefined, and so finds no update.
CheckFetch(t) ==
    LET r == Now(t) IN
    /\ At(t, "check") /\ Usable(r) /\ r \notin imported
    /\ \/ Fault /\ Goto(t, "loop") /\ UNCHANGED checkout
       \/ /\ NoFault
          /\ \/ /\ checkout[r].branch = trunk[r]
                /\ checkout' = [checkout EXCEPT ![r].origin = head[r]]
                /\ Goto(t, "compare")
             \/ /\ checkout[r].branch # trunk[r]
                /\ Goto(t, "loop") /\ UNCHANGED checkout
    /\ UNCHANGED <<env, indexes, status, stored, requests>>

\* Compare HEAD with origin/<branch>; a checkout that has gone meanwhile is a failed check.
Compare(t) ==
    LET r == Now(t) IN
    /\ At(t, "compare")
    /\ Goto(t, IF Usable(r) /\ checkout[r].commit # checkout[r].origin THEN "begin" ELSE "loop")
    /\ UNCHANGED <<env, checkout, indexes, status, stored, bounds>>

-----------------------------------------------------------------------------
(* sync.                                                                   *)

\* A checkout that is to be cloned again, or that is corrupt, is removed first.
MustRemove(t) ==
    \/ checkout[Now(t)].kind = "partial"
    \/ th[t].force /\ checkout[Now(t)] # Absent

\* The graph is a directory of the checkout and goes with it.
Removed(t, d) ==
    /\ checkout' = [checkout EXCEPT ![Now(t)] = d]
    /\ graph' = [graph EXCEPT ![Now(t)] = 0]

\* Look the repository up, and clear the way.  A removal that fails half-way,
\* possibly with .git already gone, raises out of sync: the job or request ends.
Begin(t) ==
    /\ At(t, "begin")
    /\ \/ /\ Now(t) \notin Registered(ServiceOf(t))
          /\ Goto(t, Returned(t)) /\ NoFault /\ UNCHANGED <<checkout, graph>>
       \/ /\ Now(t) \in Registered(ServiceOf(t))
          /\ th' = [th EXCEPT ![t].pc = "start", ![t].live = TRUE]
          /\ NoFault
          /\ IF MustRemove(t) THEN Removed(t, Absent) ELSE UNCHANGED <<checkout, graph>>
       \/ /\ Now(t) \in Registered(ServiceOf(t)) /\ MustRemove(t)
          /\ Fault /\ Removed(t, Debris)
          /\ th' = [th EXCEPT ![t] = Idle(@.job)]
    /\ UNCHANGED <<env, zoekt, qdrant, collection, status, stored, requests>>

\* Without a URL only an existing checkout can be synced.
Start(t) ==
    /\ At(t, "start")
    /\ \/ Now(t) \in imported /\ ~Usable(Now(t)) /\ Goto(t, Returned(t)) /\ UNCHANGED status
       \/ Now(t) \in imported /\ Usable(Now(t)) /\ Goto(t, "hash") /\ SetState(t, "syncing")
       \/ Now(t) \notin imported /\ SetState(t, "syncing")
          /\ Goto(t, IF Usable(Now(t)) THEN "fetch" ELSE "clone")
    /\ UNCHANGED <<env, checkout, indexes, stored, bounds>>

\* git clone refuses a directory that is not empty; a clone that fails leaves none.
Clone(t) ==
    /\ At(t, "clone")
    /\ \/ checkout[Now(t)] # Absent /\ Fail(t) /\ NoFault /\ UNCHANGED checkout
       \/ checkout[Now(t)] = Absent /\ Fail(t) /\ Fault /\ UNCHANGED checkout
       \/ /\ checkout[Now(t)] = Absent
          /\ checkout' = [checkout EXCEPT ![Now(t)] = PartialClone(t)]
          /\ Goto(t, "cloning") /\ NoFault /\ UNCHANGED status
    /\ UNCHANGED <<env, indexes, stored, requests>>

\* Its end: on the configured branch, or on the default branch that was detected.
\* It fails if another thread removed the directory meanwhile.
EndClone(t) ==
    LET r == Now(t)
        own == checkout[r] = PartialClone(t)
    IN
    /\ At(t, "cloning")
    /\ \/ own /\ checkout' = [checkout EXCEPT ![r] = WorkTree(head[r], trunk[r], head[r])]
          /\ Goto(t, "hash") /\ NoFault /\ UNCHANGED status
       \/ own /\ checkout' = [checkout EXCEPT ![r] = Absent] /\ Fail(t) /\ Fault
       \/ ~own /\ Fail(t) /\ NoFault /\ UNCHANGED checkout
    /\ UNCHANGED <<env, indexes, stored, requests>>

\* _git_pull, first half.  A branch that is gone from the remote is "detected" as
\* the checkout's own branch, the one that has just failed: no retry.
Fetch(t) ==
    LET r == Now(t)
        reachable == Usable(r) /\ checkout[r].branch = trunk[r]
    IN
    /\ At(t, "fetch")
    /\ \/ ~reachable /\ Fail(t) /\ NoFault /\ UNCHANGED checkout
       \/ reachable /\ Fail(t) /\ Fault /\ UNCHANGED checkout
       \/ reachable /\ checkout' = [checkout EXCEPT ![r].origin = head[r]]
          /\ Goto(t, "reset") /\ NoFault /\ UNCHANGED status
    /\ UNCHANGED <<env, indexes, stored, requests>>

\* Faulty: Reset to FETCH_HEAD of nothing: the checkout goes to its first commit.
Reset_First(t) ==
    /\ At(t, "reset") /\ Usable(Now(t))
    /\ checkout' = [checkout EXCEPT ![Now(t)].commit = 1]
    /\ Goto(t, "hash")
    /\ UNCHANGED <<env, indexes, status, stored, bounds>>

\* git reset --hard origin/<branch>: whatever was fetched last, by whom.
Reset(t) ==
    LET r == Now(t) IN
    /\ At(t, "reset")
    /\ \/ ~Usable(r) /\ Fail(t) /\ NoFault /\ UNCHANGED checkout
       \/ Usable(r) /\ Fail(t) /\ Fault /\ UNCHANGED checkout
       \/ Usable(r) /\ checkout' = [checkout EXCEPT ![r].commit = checkout[r].origin]
          /\ Goto(t, "hash") /\ NoFault /\ UNCHANGED status
    /\ UNCHANGED <<env, indexes, stored, requests>>

\* Faulty: The commit is asked of the remote (ls-remote) and not of the checkout.
Synced_Remote(t) == [state |-> IF th[t].index THEN "indexing" ELSE "completed",
                     commit |-> head[Now(t)]]

\* What the status says once the checkout is up to date.
Synced(t) == [state |-> IF th[t].index THEN "indexing" ELSE "completed",
              commit |-> checkout[Now(t)].commit]

\* git rev-parse HEAD.
Hash(t) ==
    /\ At(t, "hash")
    /\ \/ ~Usable(Now(t)) /\ Fail(t)
       \/ /\ Usable(Now(t))
          /\ status' = IF th[t].live
                       THEN [status EXCEPT ![ServiceOf(t)][Now(t)] = Synced(t)] ELSE status
          /\ Goto(t, IF th[t].index THEN "scan" ELSE Returned(t))
    /\ UNCHANGED <<env, checkout, indexes, stored, bounds>>

-----------------------------------------------------------------------------
(* Indexing.                                                               *)

\* scan_code_files and chunk_code_files: the chunks of what the directory holds now;
\* a missing directory has none.
Scan(t) ==
    /\ At(t, "scan")
    /\ th' = [th EXCEPT ![t].pc = "zoekt", ![t].chunks = Content(Now(t)), ![t].ready = {}]
    /\ UNCHANGED <<env, checkout, indexes, status, stored, bounds>>

\* ZoektIndexer.index_repository reads the directory itself.
IndexZoekt(t) ==
    LET r == Now(t) IN
    /\ At(t, "zoekt")
    /\ \/ /\ checkout[r] = Absent
          /\ Goto(t, "wipe") /\ NoFault /\ UNCHANGED zoekt
       \/ Fault /\ Goto(t, "wipe") /\ UNCHANGED zoekt
       \/ /\ checkout[r] # Absent /\ NoFault
          /\ zoekt' = [zoekt EXCEPT ![r] = Content(r)]
          /\ th' = [th EXCEPT ![t].pc = "wipe", ![t].ready = @ \cup {"zoekt"}]
    /\ UNCHANGED <<env, checkout, qdrant, graph, collection, status, stored, requests>>

\* ensure_collection: a collection of another vector size is deleted, with the
\* points of every repository, and made anew.
Ensured == IF collection = "own" THEN qdrant ELSE [r \in Repo |-> {}]

\* Faulty: The points of older chunks are not deleted before the new ones are put.
Wipe_Kept(t) ==
    /\ At(t, "wipe") /\ collection' = "own" /\ qdrant' = Ensured /\ Goto(t, "put")
    /\ UNCHANGED <<env, checkout, zoekt, graph, status, stored, bounds>>

\* index_chunks up to the deletion of the old points: the collection and the
\* embeddings may fail, a failure of the deletion is ignored.
Wipe(t) ==
    /\ At(t, "wipe")
    /\ \/ /\ Fault /\ Goto(t, "graph")
          /\ \/ UNCHANGED <<qdrant, collection>>
             \/ collection' = "own" /\ qdrant' = Ensured
       \/ /\ collection' = "own" /\ Goto(t, "put")
          /\ \/ Fault /\ qdrant' = Ensured
             \/ NoFault /\ qdrant' = [Ensured EXCEPT ![Now(t)] = {}]
    /\ UNCHANGED <<env, checkout, zoekt, graph, status, stored, requests>>

\* The new points, in batches: a failure leaves those that were put before.
Put(t) ==
    LET r == Now(t)
        added == IF th[t].chunks = 0 THEN {} ELSE {th[t].chunks}
    IN
    /\ At(t, "put")
    /\ \/ /\ NoFault
          /\ qdrant' = [qdrant EXCEPT ![r] = @ \cup added]
          /\ th' = [th EXCEPT ![t].pc = "graph", ![t].ready = @ \cup {"qdrant"}]
       \/ /\ Fault /\ added # {} /\ Goto(t, "graph")
          /\ \E some \in SUBSET added : qdrant' = [qdrant EXCEPT ![r] = @ \cup some]
    /\ UNCHANGED <<env, checkout, zoekt, graph, collection, status, stored, requests>>

\* GitNexus analyses the directory in place; its failure is soft.
Analyze(t) ==
    LET r == Now(t) IN
    /\ At(t, "graph")
    /\ \/ Fault /\ UNCHANGED graph
       \/ NoFault /\ graph' = [graph EXCEPT ![r] = Content(r)]
    /\ Goto(t, "finish")
    /\ UNCHANGED <<env, checkout, zoekt, qdrant, collection, status, stored, requests>>

\* Faulty: The verdict is an IndexStatus and not a RepoSyncState.
Verdict_Index(t) == IF th[t].ready = {"zoekt", "qdrant"} THEN "ready" ELSE "failed"

\* The verdict: both hard indexes ready.
Verdict(t) == IF th[t].ready = {"zoekt", "qdrant"} THEN "completed" ELSE "failed"

Finish(t) ==
    /\ At(t, "finish")
    /\ SetState(t, Verdict(t)) /\ Goto(t, Returned(t))
    /\ UNCHANGED <<env, checkout, indexes, stored, bounds>>

-----------------------------------------------------------------------------
(* The Admin's handlers.                                                   *)

Request(t) == t \in Handler /\ At(t, "idle") /\ requests < MaxRequests
                /\ requests' = requests + 1

\* The RepositoryRef in the table is replaced or dropped: calls that hold the old one go on with it.
Orphaned(f, r) == [u \in Thread |->
    IF u \in Handler /\ f[u].repo = r THEN [f[u] EXCEPT !.live = FALSE] ELSE f[u]]

\* register_repo, import_local_repo: a new RepositoryRef, then the Admin's document;
\* an import may ask for a sync as well.
RegisterRepo(t, r) ==
    /\ Request(t)
    /\ status' = [status EXCEPT ![Admin][r] = Pending]
    /\ \E index \in {FALSE, (r \in imported)} :
          th' = [Orphaned(th, r) EXCEPT ![t].pc = "add", ![t].repo = r, ![t].held = Pending,
                                        ![t].index = index]
    /\ UNCHANGED <<env, checkout, indexes, stored, faults>>

Add(t) ==
    /\ At(t, "add")
    /\ stored' = [stored EXCEPT ![Now(t)] = th[t].held]
    /\ th' = [th EXCEPT ![t] = IF th[t].index THEN [@ EXCEPT !.pc = "begin"] ELSE Idle(@.job)]
    /\ UNCHANGED <<env, checkout, indexes, status, bounds>>

UnregisterRepo(t, r) ==
    /\ Request(t)
    /\ status' = [status EXCEPT ![Admin][r] = Unregistered]
    /\ th' = [Orphaned(th, r) EXCEPT ![t].pc = "drop", ![t].repo = r]
    /\ UNCHANGED <<env, checkout, indexes, stored, faults>>

Drop(t) ==
    /\ At(t, "drop")
    /\ stored' = [stored EXCEPT ![Now(t)] = Unregistered]
    /\ th' = [th EXCEPT ![t] = Idle(@.job)]
    /\ UNCHANGED <<env, checkout, indexes, status, bounds>>

SyncRepo(t, r) ==
    /\ Request(t)
    /\ \E index, force \in BOOLEAN :
          th' = [th EXCEPT ![t].pc = "begin", ![t].repo = r, ![t].index = index,
                           ![t].force = force]
    /\ UNCHANGED <<env, checkout, indexes, status, stored, faults>>

\* _persist_repo_state: read the RepositoryRef from the table, then save it.
Get(t) ==
    LET found == status[Admin][Now(t)] IN
    /\ At(t, "get")
    /\ th' = [th EXCEPT ![t] = IF found = Unregistered THEN Idle(@.job)
                               ELSE [@ EXCEPT !.pc = "upsert", !.held = found]]
    /\ UNCHANGED <<env, checkout, indexes, status, stored, bounds>>

Upsert(t) ==
    /\ At(t, "upsert")
    /\ stored' = [stored EXCEPT ![Now(t)] = th[t].held]
    /\ th' = [th EXCEPT ![t] = Idle(@.job)]
    /\ UNCHANGED <<env, checkout, indexes, status, bounds>>

-----------------------------------------------------------------------------
(* A process dies anywhere.  The scheduler's next job builds a new service; *)
(* the Admin's next process registers what its document holds.             *)

Crash(s) ==
    /\ Fault
    /\ \E t \in Thread : ServiceOf(t) = s /\ ~At(t, "idle")
    /\ th' = [t \in Thread |-> IF ServiceOf(t) = s THEN Idle(th[t].job) ELSE th[t]]
    /\ status' = [status EXCEPT ![s] = stored]
    /\ UNCHANGED <<env, checkout, indexes, stored, requests>>

-----------------------------------------------------------------------------
\* Repositories without a URL have been imported and hold a first commit.
Init ==
    /\ imported \in SUBSET Repo
    /\ head = [r \in Repo |-> 1]
    /\ trunk = [r \in Repo |-> 0]
    /\ checkout = [r \in Repo |-> IF r \in imported THEN WorkTree(1, 0, 1) ELSE Absent]
    /\ zoekt = [r \in Repo |-> 0]
    /\ qdrant = [r \in Repo |-> {}]
    /\ graph = [r \in Repo |-> 0]
    /\ collection \in {"other", "own"}
    /\ stored \in [Repo -> {Pending, Unregistered}]
    /\ status = [s \in Service |-> stored]
    /\ th = [t \in Thread |-> Idle(1)]
    /\ faults = 0 /\ requests = 0

SyncStep(t) ==
    \/ Begin(t) \/ Start(t) \/ Clone(t) \/ EndClone(t) \/ Fetch(t) \/ Reset(t) \/ Hash(t)
    \/ Scan(t) \/ IndexZoekt(t) \/ Wipe(t) \/ Put(t) \/ Analyze(t) \/ Finish(t)

JobStep(t) ==
    \/ OpenJob(t) \/ NextRepo(t) \/ EndJob(t) \/ Check(t) \/ CheckFetch(t) \/ Compare(t)

HandlerStep(t) == Add(t) \/ Get(t) \/ Upsert(t) \/ Drop(t)

Step(t) == SyncStep(t) \/ JobStep(t) \/ HandlerStep(t)

Next ==
    \/ \E t \in Thread : Step(t)
    \/ \E t \in Handler, r \in Repo : RegisterRepo(t, r) \/ UnregisterRepo(t, r) \/ SyncRepo(t, r)
    \/ \E s \in Service : Crash(s)
    \/ \E r \in Repo : Advance(r) \/ Rename(r)

\* Git and the indexes are called with timeouts or end by themselves, and the
\* scheduler's loop goes on for ever; requests and faults need not happen.
Spec == Init /\ [][Next]_vars /\ \A t \in Thread : WF_vars(Step(t))

-----------------------------------------------------------------------------
(* Properties.                                                             *)

\* The state has its shape: in particular a status is one of RepoSyncState.
TypeOK ==
    /\ imported \subseteq Repo
    /\ head \in [Repo -> Commit] /\ trunk \in [Repo -> 0 .. MaxRenames]
    /\ checkout \in [Repo -> Directory]
    /\ zoekt \in [Repo -> Commit \cup {0}] /\ graph \in [Repo -> Commit \cup {0}]
    /\ qdrant \in [Repo -> SUBSET Commit]
    /\ collection \in {"other", "own"}
    /\ stored \in [Repo -> RepoSyncStatus \cup {Unregistered}]
    /\ status \in [Service -> [Repo -> RepoSyncStatus \cup {Unregistered}]]
    /\ th \in [Thread -> Frame]
    /\ faults \in 0 .. MaxFaults /\ requests \in 0 .. MaxRequests

\* Every commit that something derived from a checkout names.
Derived(r) ==
    {zoekt[r], graph[r], stored[r].commit} \cup qdrant[r]
        \cup {status[s][r].commit : s \in Service}
        \cup {th[t].chunks : t \in {u \in Thread : Now(u) = r}}
        \cup {th[t].held.commit : t \in {u \in Thread : Now(u) = r}}

\* Although nothing locks a checkout and several services fetch, reset, remove and
\* clone it, no index, status or stored document is ever ahead of a usable checkout:
\* the analysis that reads files beside an index never finds the files the older ones.
NothingAheadOfCheckout ==
    \A r \in Repo : Usable(r) =>
        /\ checkout[r].commit <= checkout[r].origin
        /\ \A c \in Derived(r) : c <= checkout[r].commit

\* While no call of the Admin is at work on a repository, the Admin does not say that it is
\* syncing or indexing, whichever step failed; unless its document said so when it started,
\* because of two calls the one that ends first saves what the other has just set.
SettledStatus ==
    \A r \in Repo : status[Admin][r].state \in {"syncing", "indexing"} =>
        \/ \E t \in Handler : Now(t) = r /\ th[t].pc \in InSync
        \/ status[Admin][r] = stored[r]

\* Both: what the program believes of a repository is true of it.
IndexesHonest == NothingAheadOfCheckout /\ SettledStatus

\* The checkouts implement a mirror of their remotes.
Copy(r) == IF Usable(r) THEN checkout[r].commit ELSE 0
Remote == INSTANCE Mirror WITH source <- head, copy <- [r \in Repo |-> Copy(r)]
RefinesMirror == Remote!Spec

\* What a job can never repair: a clone of a branch that the remote renamed, files that
\* an interrupted removal left, an imported checkout that a forced clone removed, and a
\* repository that is no longer registered.
BeyondRepair(r) ==
    \/ Usable(r) /\ r \notin imported /\ checkout[r].branch # trunk[r]
    \/ checkout[r] = Debris
    \/ r \in imported /\ ~Usable(r)
    \/ stored[r] = Unregistered

\* Every other checkout ends at the remote's newest commit, through failures, crashes
\* and Admin requests, because the jobs come round again.
CheckoutCatchesUp ==
    \A r \in Repo : <>[](BeyondRepair(r) \/ checkout[r].commit = head[r])

\* And so do the indexes, provided that sync_all is among the jobs: in the end only
\* the newest commit can be found, and its chunks are there again and again (every
\* sync deletes them and puts them back).
IndexesCatchUp ==
    \A r \in Repo :
        /\ <>[](BeyondRepair(r) \/ (zoekt[r] = head[r] /\ qdrant[r] \subseteq {head[r]}))
        /\ []<>(BeyondRepair(r) \/ qdrant[r] = {head[r]})

\* Checkouts and indexes arrive at the newest commit.
CatchesUp == CheckoutCatchesUp /\ IndexesCatchUp
=============================================================================
