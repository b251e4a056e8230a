-------------------------- MODULE RepoSyncProofs --------------------------
(***************************************************************************)
(* Theorems about RepoSync, for any number of repositories, schedulers,    *)
(* requests, faults and commits: the types, that nothing derived from a    *)
(* checkout is ahead of it, and that the checkouts implement Mirror.       *)
(***************************************************************************)
EXTENDS RepoSync, TLAPS

-----------------------------------------------------------------------------
(* Frames and directories.                                                 *)

LEMMA IdleOK ==
    ASSUME NEW j \in 1 .. Len(Jobs)
    PROVE  Idle(j) \in Frame
BY DEF Idle, Frame, Pc, InSync

LEMMA FrameEdits ==
    ASSUME NEW f \in Frame, NEW p \in Pc
    PROVE  /\ [f EXCEPT !.pc = p] \in Frame
           /\ [f EXCEPT !.pc = p, !.live = TRUE] \in Frame
           /\ [f EXCEPT !.live = FALSE] \in Frame
           /\ \A T \in SUBSET Repo :
                  [f EXCEPT !.pc = p, !.todo = T, !.index = TRUE, !.force = FALSE] \in Frame
           /\ \A T \in SUBSET Repo, r \in Repo :
                  [f EXCEPT !.todo = T, !.repo = r, !.chunks = 0, !.pc = p] \in Frame
           /\ \A c \in Commit \cup {0} :
                  [f EXCEPT !.pc = p, !.chunks = c, !.ready = {}] \in Frame
           /\ \A i \in {"zoekt", "qdrant"} :
                  [f EXCEPT !.pc = p, !.ready = @ \cup {i}] \in Frame
           /\ \A r \in Repo, h \in RepoSyncStatus \cup {Unregistered}, i \in BOOLEAN :
                  [f EXCEPT !.pc = p, !.repo = r, !.held = h, !.index = i] \in Frame
           /\ \A r \in Repo : [f EXCEPT !.pc = p, !.repo = r] \in Frame
           /\ \A r \in Repo, i, g \in BOOLEAN :
                  [f EXCEPT !.pc = p, !.repo = r, !.index = i, !.force = g] \in Frame
           /\ \A h \in RepoSyncStatus \cup {Unregistered} :
                  [f EXCEPT !.pc = p, !.held = h] \in Frame
BY DEF Frame

\* A directory with a usable HEAD is a work tree; any other has no commit.
LEMMA Directories ==
    ASSUME NEW d \in Directory
    PROVE  /\ d.kind = "tree" => /\ d.commit \in Commit /\ d.origin \in Commit
                                 /\ d.branch \in 0 .. MaxRenames
                                 /\ d = WorkTree(d.commit, d.branch, d.origin)
           /\ d.kind # "tree" => d.commit = 0
           /\ d.commit \in Commit \cup {0}
BY DEF Directory, Absent, Debris, PartialClone, WorkTree, Dir

LEMMA MakeDirectory ==
    /\ Absent \in Directory /\ Debris \in Directory
    /\ Absent.kind # "tree" /\ Debris.kind # "tree" /\ Absent.commit = 0 /\ Debris.commit = 0
    /\ \A t \in Thread : PartialClone(t) \in Directory /\ PartialClone(t).kind # "tree"
    /\ \A c, o \in Commit, b \in 0 .. MaxRenames :
           /\ WorkTree(c, b, o) \in Directory
           /\ WorkTree(c, b, o).kind = "tree" /\ WorkTree(c, b, o).commit = c
           /\ WorkTree(c, b, o).origin = o
<1>1. Absent \in Directory /\ Debris \in Directory
  BY DEF Directory
<1>2. /\ Absent.kind # "tree" /\ Debris.kind # "tree" /\ Absent.commit = 0 /\ Debris.commit = 0
  BY DEF Absent, Debris, Dir
<1>3. \A t \in Thread : PartialClone(t) \in Directory
  BY DEF Directory
<1>4. \A t \in Thread : PartialClone(t).kind # "tree"
  BY DEF PartialClone, Dir
<1>5. \A c, o \in Commit, b \in 0 .. MaxRenames : WorkTree(c, b, o) \in Directory
  BY DEF Directory
<1>6. \A c, b, o : /\ WorkTree(c, b, o).kind = "tree" /\ WorkTree(c, b, o).commit = c
                   /\ WorkTree(c, b, o).origin = o
  BY DEF WorkTree, Dir
<1> QED
  BY <1>1, <1>2, <1>3, <1>4, <1>5, <1>6

LEMMA MoveTree ==
    ASSUME NEW d \in Directory, d.kind = "tree", NEW c \in Commit
    PROVE  /\ [d EXCEPT !.origin = c] \in Directory
           /\ [d EXCEPT !.commit = c] \in Directory
<1>1. /\ d.commit \in Commit /\ d.origin \in Commit /\ d.branch \in 0 .. MaxRenames
      /\ d = WorkTree(d.commit, d.branch, d.origin)
  BY Directories
<1>2. /\ [d EXCEPT !.origin = c] = WorkTree(d.commit, d.branch, c)
      /\ [d EXCEPT !.commit = c] = WorkTree(c, d.branch, d.origin)
  BY <1>1 DEF WorkTree, Dir
<1> QED
  BY <1>1, <1>2 DEF Directory

-----------------------------------------------------------------------------
(* The shape of a thread's frame: what its statement says of the rest.     *)

AtWork == InSync \ {"begin", "start"}

FrameShape(t, f) ==
    /\ t \in Scheduler =>
           f.pc \notin {"get", "add", "upsert", "drop"} /\ f.held = Unregistered
    /\ t \in Handler => f.pc \notin {"loop", "check", "compare"}
    /\ f.pc = "idle" => f.repo = NoRepo /\ f.chunks = 0 /\ f.held = Unregistered
    /\ f.pc \notin {"idle", "loop"} => f.repo \in Repo
    /\ f.pc \in {"clone", "cloning", "fetch", "reset", "compare"} => f.repo \notin imported

Shape == \A t \in Thread : FrameShape(t, th[t])

Bases ==
    /\ imported \subseteq Repo
    /\ head \in [Repo -> Commit] /\ trunk \in [Repo -> 0 .. MaxRenames]
    /\ zoekt \in [Repo -> Commit \cup {0}] /\ graph \in [Repo -> Commit \cup {0}]
    /\ qdrant \in [Repo -> SUBSET Commit]
    /\ collection \in {"other", "own"}
    /\ checkout \in [Repo -> Directory]
    /\ faults \in 0 .. MaxFaults /\ requests \in 0 .. MaxRequests

Said == RepoSyncStatus \cup {Unregistered}
Statuses == stored \in [Repo -> Said] /\ status \in [Service -> [Repo -> Said]]
Frames == th \in [Thread -> Frame]

LEMMA TypeParts == TypeOK <=> Bases /\ Statuses /\ Frames
BY DEF TypeOK, Bases, Statuses, Frames, Said

\* What the assumptions give.
LEMMA Setting ==
    /\ Thread = Scheduler \cup Handler /\ Service = Scheduler \cup {Admin}
    /\ Scheduler \cap Handler = {} /\ Admin \notin Scheduler /\ NoRepo \notin Repo
    /\ Jobs \in Seq({"changed", "all"}) /\ Len(Jobs) \in Nat /\ Len(Jobs) > 0
    /\ MaxCommit \in Nat /\ MaxCommit > 0 /\ Commit = 1 .. MaxCommit /\ Commit \subseteq Nat
    /\ MaxFaults \in Nat /\ MaxRequests \in Nat /\ MaxRenames \in Nat
    /\ \A t \in Thread : ServiceOf(t) \in Service
    /\ \A t \in Scheduler : ServiceOf(t) = t
    /\ \A t \in Handler : ServiceOf(t) = Admin
BY RepoAssumption DEF RepoAssumption, Thread, Service, Commit, ServiceOf

\* The statements of a sync, and those of a job or of a handler.
Statement ==
    /\ \A p \in {"idle", "loop", "check", "compare", "get", "add", "upsert", "drop"} : p \in Pc
    /\ \A p \in {"begin", "start", "clone", "cloning", "fetch", "reset", "hash", "scan", "zoekt",
                 "wipe", "put", "graph", "finish"} : p \in Pc

LEMMA Statements == Statement
BY DEF Statement, Pc, InSync

LEMMA ReturnedOK == \A t \in Thread : Returned(t) \in Pc
BY Statements DEF Statement, Returned

\* Frames keep their type.
LEMMA FramesOK ==
    ASSUME TypeOK, Shape, [Next]_vars
    PROVE  Frames'
<1> USE TypeParts, Setting, Statements, ReturnedOK DEF Statement
<1>0. /\ \A t \in Thread : th[t] \in Frame
      /\ \A t \in Thread : /\ th[t].job \in 1 .. Len(Jobs) /\ th[t].todo \in SUBSET Repo
                           /\ th[t].repo \in Repo \cup {NoRepo}
      /\ th \in [Thread -> Frame]
  BY DEF Frames, Frame
<1>1. ASSUME NEW t \in Thread, NEW p \in Pc, Goto(t, p) PROVE Frames'
  <2>1. [th[t] EXCEPT !.pc = p] \in Frame
    BY <1>0, FrameEdits
  <2> QED
    BY <1>0, <1>1, <2>1 DEF Goto, Frames
<1>2. ASSUME NEW t \in Thread, NEW f \in Frame, th' = [th EXCEPT ![t] = f] PROVE Frames'
  BY <1>0, <1>2 DEF Frames
<1>3. ASSUME NEW t \in Thread, Fail(t) PROVE Frames'
  BY <1>1, <1>3 DEF Fail
<1>4. \A t \in Thread : Idle(th[t].job) \in Frame
  BY <1>0, IdleOK
<1>5. ASSUME NEW t \in Thread, OpenJob(t) PROVE Frames'
  <2> DEFINE f == [th[t] EXCEPT !.pc = "loop", !.todo = {r \in Repo : stored[r] # Unregistered},
                                !.index = TRUE, !.force = FALSE]
  <2>1. f \in Frame
    BY <1>0, FrameEdits
  <2>2. th' = [th EXCEPT ![t] = f]
    BY <1>5, <1>0 DEF OpenJob
  <2> QED
    BY <1>2, <2>1, <2>2
<1>6. ASSUME NEW t \in Thread, NextRepo(t) PROVE Frames'
  <2>1. PICK r \in th[t].todo :
          th' = [th EXCEPT ![t].todo = @ \ {r}, ![t].repo = r, ![t].chunks = 0,
                           ![t].pc = IF Jobs[th[t].job] = "changed" THEN "check" ELSE "begin"]
    BY <1>6 DEF NextRepo
  <2> DEFINE p == IF Jobs[th[t].job] = "changed" THEN "check" ELSE "begin"
             f == [th[t] EXCEPT !.todo = th[t].todo \ {r}, !.repo = r, !.chunks = 0, !.pc = p]
  <2>2. p \in Pc /\ r \in Repo /\ th[t].todo \ {r} \in SUBSET Repo
    BY <1>0
  <2>3. f \in Frame
    BY <1>0, <2>2, FrameEdits
  <2>4. th' = [th EXCEPT ![t] = f]
    BY <2>1, <1>0
  <2> QED
    BY <1>2, <2>3, <2>4
<1>7. ASSUME NEW t \in Thread, EndJob(t) PROVE Frames'
  <2>1. (th[t].job % Len(Jobs)) + 1 \in 1 .. Len(Jobs)
    BY <1>0
  <2> QED
    BY <1>2, <1>7, <2>1, <1>0, IdleOK DEF EndJob
<1>8. ASSUME NEW t \in Thread, Check(t) \/ CheckFetch(t) \/ Compare(t) PROVE Frames'
  BY <1>1, <1>8 DEF Check, CheckFetch, Compare
<1>9. ASSUME NEW t \in Thread, Begin(t) PROVE Frames'
  <2> DEFINE f == [th[t] EXCEPT !.pc = "start", !.live = TRUE]
  <2>1. f \in Frame
    BY <1>0, FrameEdits
  <2>2. ASSUME th' = [th EXCEPT ![t].pc = "start", ![t].live = TRUE] PROVE Frames'
    <3>1. th' = [th EXCEPT ![t] = f]
      BY <2>2, <1>0
    <3> QED
      BY <1>2, <2>1, <3>1
  <2>3. ASSUME th' = [th EXCEPT ![t] = Idle(@.job)] PROVE Frames'
    BY <1>2, <1>4, <2>3, <1>0
  <2> QED
    BY <1>1, <1>9, <2>2, <2>3 DEF Begin
<1>10. ASSUME NEW t \in Thread,
              \/ Start(t) \/ Clone(t) \/ EndClone(t) \/ Fetch(t) \/ Reset(t) \/ Hash(t)
       PROVE  Frames'
  BY <1>1, <1>3, <1>10 DEF Start, Clone, EndClone, Fetch, Reset, Hash
<1>11. ASSUME NEW t \in Thread, Scan(t) PROVE Frames'
  <2> DEFINE f == [th[t] EXCEPT !.pc = "zoekt", !.chunks = Content(Now(t)), !.ready = {}]
  <2>0. checkout[Now(t)] \in Directory
    BY <1>11 DEF Scan, At, Now, Shape, FrameShape, Bases
  <2>1. Content(Now(t)) \in Commit \cup {0}
    BY <2>0, Directories DEF Content
  <2>2. f \in Frame
    BY <1>0, <2>1, FrameEdits
  <2>3. th' = [th EXCEPT ![t] = f]
    BY <1>11, <1>0 DEF Scan
  <2> QED
    BY <1>2, <2>2, <2>3
<1>12. ASSUME NEW t \in Thread, NEW p \in Pc, NEW i \in {"zoekt", "qdrant"},
              th' = [th EXCEPT ![t].pc = p, ![t].ready = @ \cup {i}]
       PROVE  Frames'
  <2> DEFINE f == [th[t] EXCEPT !.pc = p, !.ready = @ \cup {i}]
  <2>1. f \in Frame
    BY <1>0, FrameEdits
  <2>2. th' = [th EXCEPT ![t] = f]
    BY <1>12, <1>0
  <2> QED
    BY <1>2, <2>1, <2>2
<1>13. ASSUME NEW t \in Thread, IndexZoekt(t) \/ Wipe(t) \/ Put(t) \/ Analyze(t) \/ Finish(t)
       PROVE  Frames'
  BY <1>1, <1>12, <1>13 DEF IndexZoekt, Wipe, Put, Analyze, Finish
<1>14. ASSUME NEW t \in Handler, NEW r \in Repo, RegisterRepo(t, r) \/ UnregisterRepo(t, r)
       PROVE  Frames'
  <2>0. Pending \in RepoSyncStatus \cup {Unregistered}
    BY DEF Pending, RepoSyncStatus, RepoSyncState
  <2>1. Orphaned(th, r) \in [Thread -> Frame]
    BY <1>0, FrameEdits DEF Orphaned
  <2>2. ASSUME NEW i \in BOOLEAN,
               th' = [Orphaned(th, r) EXCEPT ![t].pc = "add", ![t].repo = r,
                                             ![t].held = Pending, ![t].index = i]
        PROVE  Frames'
    <3> DEFINE f == [Orphaned(th, r)[t] EXCEPT !.pc = "add", !.repo = r, !.held = Pending,
                                               !.index = i]
    <3>1. f \in Frame
      BY <2>0, <2>1, FrameEdits
    <3>2. th' = [Orphaned(th, r) EXCEPT ![t] = f]
      BY <2>2, <2>1
    <3> QED
      BY <3>1, <3>2, <2>1 DEF Frames
  <2>3. ASSUME th' = [Orphaned(th, r) EXCEPT ![t].pc = "drop", ![t].repo = r]
        PROVE  Frames'
    <3> DEFINE f == [Orphaned(th, r)[t] EXCEPT !.pc = "drop", !.repo = r]
    <3>1. f \in Frame
      BY <2>1, FrameEdits
    <3>2. th' = [Orphaned(th, r) EXCEPT ![t] = f]
      BY <2>3, <2>1
    <3> QED
      BY <3>1, <3>2, <2>1 DEF Frames
  <2>4. (r \in imported) \in BOOLEAN
    OBVIOUS
  <2> QED
    BY <1>14, <2>2, <2>3, <2>4 DEF RegisterRepo, UnregisterRepo
<1>15. ASSUME NEW t \in Handler, NEW r \in Repo, SyncRepo(t, r) PROVE Frames'
  <2>1. PICK i, g \in BOOLEAN :
          th' = [th EXCEPT ![t].pc = "begin", ![t].repo = r, ![t].index = i, ![t].force = g]
    BY <1>15 DEF SyncRepo
  <2> DEFINE f == [th[t] EXCEPT !.pc = "begin", !.repo = r, !.index = i, !.force = g]
  <2>2. f \in Frame
    BY <1>0, FrameEdits
  <2>3. th' = [th EXCEPT ![t] = f]
    BY <2>1, <1>0
  <2> QED
    BY <1>2, <2>2, <2>3
<1>16. ASSUME NEW t \in Thread, Add(t) \/ Upsert(t) \/ Drop(t) PROVE Frames'
  <2>1. [th[t] EXCEPT !.pc = "begin"] \in Frame /\ Idle(th[t].job) \in Frame
    BY <1>0, <1>4, FrameEdits
  <2> QED
    BY <1>2, <1>16, <2>1 DEF Add, Upsert, Drop
<1>17. ASSUME NEW t \in Thread, Get(t) PROVE Frames'
  <2> DEFINE h == status[Admin][Now(t)]
             f == [th[t] EXCEPT !.pc = "upsert", !.held = h]
  <2>1. h \in RepoSyncStatus \cup {Unregistered}
    BY <1>17 DEF Get, At, Now, Shape, FrameShape, Statuses, Said
  <2>2. f \in Frame
    BY <1>0, <2>1, FrameEdits
  <2> QED
    BY <1>2, <1>4, <1>17, <2>2 DEF Get
<1>18. ASSUME NEW s \in Service, Crash(s) PROVE Frames'
  BY <1>18, <1>0, <1>4 DEF Crash, Frames
<1>19. ASSUME NEW r \in Repo, Advance(r) \/ Rename(r) PROVE Frames'
  BY <1>19, <1>0 DEF Advance, Rename, Frames
<1>20. ASSUME UNCHANGED vars PROVE Frames'
  BY <1>20, <1>0 DEF vars, Frames
<1> QED
  BY <1>5, <1>6, <1>7, <1>8, <1>9, <1>10, <1>11, <1>13, <1>14, <1>15, <1>16, <1>17, <1>18, <1>19,
     <1>20 DEF Next, Step, SyncStep, JobStep, HandlerStep

LEMMA ImportedKept ==
    ASSUME [Next]_vars
    PROVE  imported' = imported
<1> USE DEF env
<1>1. ASSUME NEW t \in Thread, JobStep(t) PROVE imported' = imported
  BY <1>1 DEF JobStep, OpenJob, NextRepo, EndJob, Check, CheckFetch, Compare
<1>2. ASSUME NEW t \in Thread, Begin(t) \/ Start(t) \/ Clone(t) \/ EndClone(t) \/ Fetch(t)
      PROVE  imported' = imported
  BY <1>2 DEF Begin, Start, Clone, EndClone, Fetch
<1>3. ASSUME NEW t \in Thread, Reset(t) \/ Hash(t) \/ Scan(t) \/ IndexZoekt(t)
      PROVE  imported' = imported
  BY <1>3 DEF Reset, Hash, Scan, IndexZoekt
<1>4. ASSUME NEW t \in Thread, Wipe(t) \/ Put(t) \/ Analyze(t) \/ Finish(t)
      PROVE  imported' = imported
  BY <1>4 DEF Wipe, Put, Analyze, Finish
<1>5. ASSUME NEW t \in Thread, HandlerStep(t) PROVE imported' = imported
  BY <1>5 DEF HandlerStep, Add, Get, Upsert, Drop
<1>6. ASSUME NEW t \in Handler, NEW r \in Repo,
             RegisterRepo(t, r) \/ UnregisterRepo(t, r) \/ SyncRepo(t, r)
      PROVE  imported' = imported
  BY <1>6 DEF RegisterRepo, UnregisterRepo, SyncRepo
<1>7. ASSUME NEW s \in Service, Crash(s) PROVE imported' = imported
  BY <1>7 DEF Crash
<1>8. ASSUME NEW r \in Repo, Advance(r) \/ Rename(r) PROVE imported' = imported
  BY <1>8 DEF Advance, Rename
<1>9. ASSUME UNCHANGED vars PROVE imported' = imported
  BY <1>9 DEF vars
<1> QED
  BY <1>1, <1>2, <1>3, <1>4, <1>5, <1>6, <1>7, <1>8, <1>9 DEF Next, Step, SyncStep

\* A frame that has left the table is the same in all that the shape speaks of.
LEMMA OrphanedOK ==
    ASSUME Frames, NEW r \in Repo
    PROVE  /\ Orphaned(th, r) \in [Thread -> Frame]
           /\ \A u \in Thread :
                  /\ Orphaned(th, r)[u].pc = th[u].pc /\ Orphaned(th, r)[u].repo = th[u].repo
                  /\ Orphaned(th, r)[u].held = th[u].held
                  /\ Orphaned(th, r)[u].chunks = th[u].chunks
                  /\ Orphaned(th, r)[u].live = (th[u].live /\ ~(u \in Handler /\ th[u].repo = r))
<1>0. \A u \in Thread : th[u] \in Frame /\ [th[u] EXCEPT !.live = FALSE] \in Frame
  BY DEF Frames, Frame
<1>1. \A u \in Thread :
          /\ [th[u] EXCEPT !.live = FALSE].pc = th[u].pc
          /\ [th[u] EXCEPT !.live = FALSE].repo = th[u].repo
          /\ [th[u] EXCEPT !.live = FALSE].held = th[u].held
          /\ [th[u] EXCEPT !.live = FALSE].chunks = th[u].chunks
          /\ [th[u] EXCEPT !.live = FALSE].live = FALSE /\ th[u].live \in BOOLEAN
  BY <1>0 DEF Frame
<1>2. \A u \in Thread : Orphaned(th, r)[u] = IF u \in Handler /\ th[u].repo = r
                                             THEN [th[u] EXCEPT !.live = FALSE] ELSE th[u]
  BY DEF Orphaned
<1>3. Orphaned(th, r) \in [Thread -> Frame]
  BY <1>0 DEF Orphaned
<1> QED
  BY <1>1, <1>2, <1>3

\* The frames after a registration or an unregistration.
LEMMA RegisteredFrames ==
    ASSUME Frames, NEW t \in Handler, NEW r \in Repo, RegisterRepo(t, r) \/ UnregisterRepo(t, r)
    PROVE  /\ th'[t].pc \in {"add", "drop"} /\ th'[t].repo = r
           /\ th'[t].held \in {th[t].held, Pending}
           /\ th'[t].chunks = th[t].chunks
           /\ \A u \in Thread : u # t =>
                  /\ th'[u].pc = th[u].pc /\ th'[u].repo = th[u].repo
                  /\ th'[u].held = th[u].held /\ th'[u].chunks = th[u].chunks
                  /\ th'[u].live = (th[u].live /\ ~(u \in Handler /\ th[u].repo = r))
<1> DEFINE o == Orphaned(th, r)
<1>0. /\ t \in Thread /\ o \in [Thread -> Frame]
      /\ o[t].held = th[t].held /\ o[t].chunks = th[t].chunks
      /\ \A u \in Thread : /\ o[u].pc = th[u].pc /\ o[u].repo = th[u].repo /\ o[u].held = th[u].held
                           /\ o[u].chunks = th[u].chunks
                           /\ o[u].live = (th[u].live /\ ~(u \in Handler /\ th[u].repo = r))
  <2>1. t \in Thread
    BY Setting
  <2> QED
    BY <2>1, OrphanedOK
<1>h. o[t] \in Frame
  BY <1>0
<1> HIDE DEF o
<1>1. ASSUME NEW i \in BOOLEAN,
             th' = [o EXCEPT ![t].pc = "add", ![t].repo = r, ![t].held = Pending, ![t].index = i]
      PROVE  /\ th'[t].pc = "add" /\ th'[t].repo = r /\ th'[t].held = Pending
             /\ th'[t].chunks = o[t].chunks /\ \A u \in Thread : u # t => th'[u] = o[u]
  <2> DEFINE f == [o[t] EXCEPT !.pc = "add", !.repo = r, !.held = Pending, !.index = i]
  <2>1. th' = [o EXCEPT ![t] = f]
    BY <1>1, <1>0
  <2>2. f.pc = "add" /\ f.repo = r /\ f.held = Pending /\ f.chunks = o[t].chunks
    BY <1>h DEF Frame
  <2> QED
    BY <1>0, <2>1, <2>2
<1>2. ASSUME th' = [o EXCEPT ![t].pc = "drop", ![t].repo = r]
      PROVE  /\ th'[t].pc = "drop" /\ th'[t].repo = r /\ th'[t].held = o[t].held
             /\ th'[t].chunks = o[t].chunks /\ \A u \in Thread : u # t => th'[u] = o[u]
  <2> DEFINE f == [o[t] EXCEPT !.pc = "drop", !.repo = r]
  <2>1. th' = [o EXCEPT ![t] = f]
    BY <1>2, <1>0
  <2>2. f.pc = "drop" /\ f.repo = r /\ f.held = o[t].held /\ f.chunks = o[t].chunks
    BY <1>h DEF Frame
  <2> QED
    BY <1>0, <2>1, <2>2
<1>3. \/ \E i \in BOOLEAN : th' = [o EXCEPT ![t].pc = "add", ![t].repo = r,
                                            ![t].held = Pending, ![t].index = i]
      \/ th' = [o EXCEPT ![t].pc = "drop", ![t].repo = r]
  <2>1. ASSUME RegisterRepo(t, r)
        PROVE  \E i \in BOOLEAN : th' = [o EXCEPT ![t].pc = "add", ![t].repo = r,
                                                 ![t].held = Pending, ![t].index = i]
    <3>1. \E i \in {FALSE, (r \in imported)} :
             th' = [Orphaned(th, r) EXCEPT ![t].pc = "add", ![t].repo = r,
                                           ![t].held = Pending, ![t].index = i]
      BY <2>1, Zenon DEF RegisterRepo
    <3>2. {FALSE, (r \in imported)} \subseteq BOOLEAN
      OBVIOUS
    <3> QED
      BY <3>1, <3>2, Zenon DEF o
  <2>2. ASSUME UnregisterRepo(t, r)
        PROVE  th' = [o EXCEPT ![t].pc = "drop", ![t].repo = r]
    BY <2>2, Zenon DEF UnregisterRepo, o
  <2> QED
    BY <2>1, <2>2
<1> QED
  BY <1>0, <1>1, <1>2, <1>3

\* Every statement leaves a frame of its own thread that has the shape.
LEMMA ShapeOK ==
    ASSUME TypeOK, Shape, [Next]_vars
    PROVE  Shape'
<1> USE TypeParts, Setting, ImportedKept
<1>0. /\ th \in [Thread -> Frame]
      /\ \A t \in Thread : FrameShape(t, th[t])
      /\ \A t \in Thread : FrameShape(t, Idle(th[t].job))
  BY DEF Frames, Shape, FrameShape, Idle
<1>1. ASSUME NEW t \in Thread, \A u \in Thread : u # t => th'[u] = th[u],
             FrameShape(t, th'[t])
      PROVE  Shape'
  BY <1>0, <1>1 DEF Shape, FrameShape
<1>2. ASSUME NEW t \in Thread, OpenJob(t) \/ NextRepo(t) \/ EndJob(t) PROVE Shape'
  <2>1. \A u \in Thread : u # t => th'[u] = th[u]
    BY <1>2, <1>0 DEF OpenJob, NextRepo, EndJob
  <2>2. ASSUME OpenJob(t) PROVE FrameShape(t, th'[t])
    <3>1. t \in Scheduler /\ th[t].held = Unregistered
      BY <2>2, <1>0 DEF OpenJob, FrameShape
    <3>2. th[t] \in Frame
      BY <1>0
    <3>3. th'[t].pc = "loop" /\ th'[t].held = th[t].held
      BY <2>2, <1>0, <3>2 DEF OpenJob, Frame
    <3> QED
      BY <3>1, <3>3 DEF FrameShape
  <2>3. ASSUME NextRepo(t) PROVE FrameShape(t, th'[t])
    <3>1. th[t].todo \subseteq Repo
      BY <1>0 DEF Frame
    <3> QED
      BY <2>3, <3>1, <1>0 DEF NextRepo, FrameShape, At, Frame
  <2>4. ASSUME EndJob(t) PROVE FrameShape(t, th'[t])
    BY <2>4, <1>0 DEF EndJob, FrameShape, At, Idle
  <2> QED
    BY <1>1, <1>2, <2>1, <2>2, <2>3, <2>4
<1>3. ASSUME NEW t \in Thread, Check(t) \/ CheckFetch(t) \/ Compare(t) PROVE Shape'
  <2>1. \A u \in Thread : u # t => th'[u] = th[u]
    BY <1>3, <1>0 DEF Check, CheckFetch, Compare, Goto
  <2>2. ASSUME Check(t) PROVE FrameShape(t, th'[t])
    BY <2>2, <1>0 DEF Check, Goto, FrameShape, At, Frame, Now
  <2>3. ASSUME CheckFetch(t) PROVE FrameShape(t, th'[t])
    BY <2>3, <1>0 DEF CheckFetch, Goto, FrameShape, At, Frame, Now
  <2>4. ASSUME Compare(t) PROVE FrameShape(t, th'[t])
    BY <2>4, <1>0 DEF Compare, Goto, FrameShape, At, Frame, Now
  <2> QED
    BY <1>1, <1>3, <2>1, <2>2, <2>3, <2>4
<1>4. ASSUME NEW t \in Thread, Begin(t) \/ Start(t) PROVE Shape'
  <2>1. \A u \in Thread : u # t => th'[u] = th[u]
    BY <1>4, <1>0 DEF Begin, Start, Goto
  <2>2. ASSUME Begin(t) PROVE FrameShape(t, th'[t])
    BY <2>2, <1>0 DEF Begin, Goto, FrameShape, At, Frame, Now, Returned, Idle
  <2>3. ASSUME Start(t) PROVE FrameShape(t, th'[t])
    BY <2>3, <1>0 DEF Start, Goto, FrameShape, At, Frame, Now, Returned, Idle
  <2> QED
    BY <1>1, <1>4, <2>1, <2>2, <2>3
<1>5. ASSUME NEW t \in Thread, Clone(t) \/ EndClone(t) \/ Fetch(t) \/ Reset(t) \/ Hash(t)
      PROVE  Shape'
  <2>1. \A u \in Thread : u # t => th'[u] = th[u]
    BY <1>5, <1>0 DEF Clone, EndClone, Fetch, Reset, Hash, Goto, Fail
  <2>2. ASSUME Clone(t) PROVE FrameShape(t, th'[t])
    BY <2>2, <1>0 DEF Clone, Goto, FrameShape, At, Frame, Now, Fail, Returned
  <2>3. ASSUME EndClone(t) PROVE FrameShape(t, th'[t])
    BY <2>3, <1>0 DEF EndClone, Goto, FrameShape, At, Frame, Now, Fail, Returned
  <2>4. ASSUME Fetch(t) PROVE FrameShape(t, th'[t])
    <3>1. At(t, "fetch") /\ (Goto(t, "reset") \/ Goto(t, Returned(t)))
      BY <2>4 DEF Fetch, Fail
    <3>2. /\ th'[t] = [th[t] EXCEPT !.pc = "reset"] \/ th'[t] = [th[t] EXCEPT !.pc = Returned(t)]
          /\ th[t].pc = "fetch" /\ th[t] \in Frame
      BY <3>1, <1>0 DEF Goto, At
    <3> QED
      BY <3>2, <1>0 DEF FrameShape, Frame, Returned
  <2>5. ASSUME Reset(t) PROVE FrameShape(t, th'[t])
    BY <2>5, <1>0 DEF Reset, Goto, FrameShape, At, Frame, Now, Fail, Returned
  <2>6. ASSUME Hash(t) PROVE FrameShape(t, th'[t])
    BY <2>6, <1>0 DEF Hash, Goto, FrameShape, At, Frame, Now, Fail, Returned
  <2> QED
    BY <1>1, <1>5, <2>1, <2>2, <2>3, <2>4, <2>5, <2>6
<1>6. ASSUME NEW t \in Thread,
             Scan(t) \/ IndexZoekt(t) \/ Wipe(t) \/ Put(t) \/ Analyze(t) \/ Finish(t)
      PROVE  Shape'
  <2>1. \A u \in Thread : u # t => th'[u] = th[u]
    BY <1>6, <1>0 DEF Scan, IndexZoekt, Wipe, Put, Analyze, Finish, Goto
  <2>2. ASSUME Scan(t) PROVE FrameShape(t, th'[t])
    BY <2>2, <1>0 DEF Scan, Goto, FrameShape, At, Frame, Now, Returned
  <2>3. ASSUME IndexZoekt(t) PROVE FrameShape(t, th'[t])
    BY <2>3, <1>0 DEF IndexZoekt, Goto, FrameShape, At, Frame, Now, Returned
  <2>4. ASSUME Wipe(t) PROVE FrameShape(t, th'[t])
    BY <2>4, <1>0 DEF Wipe, Goto, FrameShape, At, Frame, Now, Returned
  <2>5. ASSUME Put(t) PROVE FrameShape(t, th'[t])
    <3>1. /\ \/ th' = [th EXCEPT ![t].pc = "graph", ![t].ready = @ \cup {"qdrant"}]
             \/ th' = [th EXCEPT ![t].pc = "graph"]
          /\ th[t].pc = "put"
      BY <2>5, Zenon DEF Put, Goto, At
    <3>2. \/ th'[t] = [th[t] EXCEPT !.pc = "graph", !.ready = @ \cup {"qdrant"}]
          \/ th'[t] = [th[t] EXCEPT !.pc = "graph"]
      BY <3>1, <1>0
    <3> QED
      BY <3>1, <3>2, <1>0 DEF FrameShape, Frame
  <2>6. ASSUME Analyze(t) PROVE FrameShape(t, th'[t])
    BY <2>6, <1>0 DEF Analyze, Goto, FrameShape, At, Frame, Now, Returned
  <2>7. ASSUME Finish(t) PROVE FrameShape(t, th'[t])
    BY <2>7, <1>0 DEF Finish, Goto, FrameShape, At, Frame, Now, Returned
  <2> QED
    BY <1>1, <1>6, <2>1, <2>2, <2>3, <2>4, <2>5, <2>6, <2>7
<1>7. ASSUME NEW t \in Handler, NEW r \in Repo, RegisterRepo(t, r) \/ UnregisterRepo(t, r)
      PROVE  Shape'
  BY <1>0, <1>7, RegisteredFrames DEF Shape, FrameShape
<1>8. ASSUME NEW t \in Handler, NEW r \in Repo, SyncRepo(t, r) PROVE Shape'
  <2>1. \A u \in Thread : u # t => th'[u] = th[u]
    BY <1>8, <1>0 DEF SyncRepo
  <2>2. th'[t].pc = "begin" /\ th'[t].repo = r
    BY <1>8, <1>0 DEF SyncRepo, Frame
  <2>3. FrameShape(t, th'[t])
    BY <2>2 DEF FrameShape
  <2> QED
    BY <1>1, <2>1, <2>3
<1>9. ASSUME NEW t \in Thread, Add(t) \/ Get(t) \/ Upsert(t) \/ Drop(t) PROVE Shape'
  <2>1. \A u \in Thread : u # t => th'[u] = th[u]
    BY <1>9, <1>0 DEF Add, Get, Upsert, Drop
  <2>2. FrameShape(t, th'[t])
    <3>1. ASSUME Add(t) \/ Get(t) PROVE FrameShape(t, th'[t])
      <4>1. t \in Handler /\ th[t].repo \in Repo
        BY <3>1, <1>0 DEF Add, Get, FrameShape, At
      <4>2. th'[t] = Idle(th[t].job) \/ (th'[t].pc \in {"begin", "upsert"} /\ th'[t].repo = th[t].repo)
        <5>1. /\ [th[t] EXCEPT !.pc = "begin"].pc = "begin"
              /\ [th[t] EXCEPT !.pc = "begin"].repo = th[t].repo
              /\ \A h : /\ [th[t] EXCEPT !.pc = "upsert", !.held = h].pc = "upsert"
                        /\ [th[t] EXCEPT !.pc = "upsert", !.held = h].repo = th[t].repo
          BY <1>0 DEF Frame
        <5>2. CASE Add(t)
          BY <5>2, <1>0, <5>1 DEF Add
        <5>3. CASE Get(t)
          BY <5>3, <1>0, <5>1 DEF Get
        <5> QED
          BY <3>1, <5>2, <5>3
      <4> QED
        BY <1>0, <4>1, <4>2 DEF FrameShape
    <3>2. ASSUME Upsert(t) \/ Drop(t) PROVE FrameShape(t, th'[t])
      BY <3>2, <1>0 DEF Upsert, Drop, FrameShape, At, Frame, Now, Idle
    <3> QED
      BY <1>9, <3>1, <3>2
  <2> QED
    BY <1>1, <2>1, <2>2
<1>10. ASSUME NEW s \in Service, Crash(s) PROVE Shape'
  BY <1>10, <1>0 DEF Crash, Shape, FrameShape
<1>11. ASSUME NEW r \in Repo, Advance(r) \/ Rename(r) PROVE Shape'
  BY <1>11, <1>0 DEF Advance, Rename, Shape, FrameShape
<1>12. ASSUME UNCHANGED vars PROVE Shape'
  BY <1>12, <1>0 DEF vars, Shape, FrameShape
<1> QED
  BY <1>2, <1>3, <1>4, <1>5, <1>6, <1>7, <1>8, <1>9, <1>10, <1>11, <1>12
     DEF Next, Step, SyncStep, JobStep, HandlerStep

-----------------------------------------------------------------------------
(* Types.                                                                  *)

\* What a status says after one of the writes to it.
LEMMA StatusWrites ==
    ASSUME Statuses, NEW s \in Service, NEW r \in Repo
    PROVE  /\ Pending \in Said /\ Unregistered \in Said
           /\ \A x \in RepoSyncState : status[s][r] # Unregistered =>
                  [status EXCEPT ![s][r].state = x] \in [Service -> [Repo -> Said]]
           /\ \A v \in Said : [status EXCEPT ![s][r] = v] \in [Service -> [Repo -> Said]]
<1>1. \A x \in RepoSyncState : status[s][r] # Unregistered =>
          [status[s][r] EXCEPT !.state = x] \in Said
  BY DEF Statuses, Said, RepoSyncStatus
<1>2. Pending \in Said /\ Unregistered \in Said
  BY DEF Said, RepoSyncStatus, RepoSyncState, Pending
<1>3. \A v \in Said : [status EXCEPT ![s][r] = v] \in [Service -> [Repo -> Said]]
  BY DEF Statuses
<1>4. \A x : [status EXCEPT ![s][r].state = x]
               = [status EXCEPT ![s][r] = [status[s][r] EXCEPT !.state = x]]
  BY DEF Statuses
<1> QED
  BY <1>1, <1>2, <1>3, <1>4

\* A call that has looked its repository up, and whose RepositoryRef is still in the table,
\* finds it registered: so SetState changes a status that there is.
InCall(t) == th[t].live /\ th[t].pc \in InSync \ {"begin"}
LiveRegistered == \A t \in Thread : InCall(t) => status[ServiceOf(t)][Now(t)] # Unregistered

\* No status goes, and commits stay: what SetState does to the statuses.
Kept == \A s \in Service, r \in Repo : /\ status[s][r] # Unregistered => status'[s][r] # Unregistered
                                       /\ status'[s][r].commit = status[s][r].commit

LEMMA SetStateOK ==
    ASSUME TypeOK, Shape, LiveRegistered, NEW t \in Thread, th[t].pc \in InSync \ {"begin"},
           NEW x \in RepoSyncState, SetState(t, x)
    PROVE  /\ status' \in [Service -> [Repo -> Said]] /\ Kept
           /\ \A s \in Service, r \in Repo :
                  IF th[t].live /\ s = ServiceOf(t) /\ r = Now(t)
                  THEN status'[s][r].state = x ELSE status'[s][r] = status[s][r]
<1> USE TypeParts, Setting
<1>0. Statuses /\ Now(t) \in Repo /\ ServiceOf(t) \in Service
  BY DEF Shape, FrameShape, Now, InSync
<1>1. CASE ~th[t].live
  BY <1>0, <1>1 DEF SetState, Statuses, Kept
<1>2. CASE th[t].live
  <2> DEFINE s0 == ServiceOf(t)
             r0 == Now(t)
             v == [status[s0][r0] EXCEPT !.state = x]
  <2>1. status[s0][r0] # Unregistered
    BY <1>2 DEF LiveRegistered, InCall
  <2>2. status[s0][r0] \in RepoSyncStatus
    BY <1>0, <2>1 DEF Statuses, Said
  <2>3. v \in RepoSyncStatus /\ v.state = x /\ v.commit = status[s0][r0].commit
    BY <2>2 DEF RepoSyncStatus
  <2>4. v # Unregistered
    BY <2>3 DEF RepoSyncStatus, RepoSyncState, Unregistered
  <2>5. status' = [status EXCEPT ![s0][r0] = v]
    BY <1>0, <1>2 DEF SetState, Statuses
  <2>6. v \in Said
    BY <2>3 DEF Said
  <2> HIDE DEF v
  <2>7. \A s \in Service, r \in Repo :
            status'[s][r] = IF s = s0 /\ r = r0 THEN v ELSE status[s][r]
    BY <1>0, <2>5 DEF Statuses
  <2>8. status' \in [Service -> [Repo -> Said]]
    BY <1>0, <2>5, <2>6 DEF Statuses
  <2> QED
    BY <1>2, <2>3, <2>4, <2>7, <2>8 DEF Kept
<1> QED
  BY <1>1, <1>2

LEMMA SyncedOK ==
    ASSUME TypeOK, NEW t \in Thread, Now(t) \in Repo, Usable(Now(t))
    PROVE  /\ Synced(t) \in RepoSyncStatus /\ Synced(t) # Unregistered
           /\ Synced(t).commit = checkout[Now(t)].commit
           /\ Synced(t).state = IF th[t].index THEN "indexing" ELSE "completed"
<1>1. checkout[Now(t)].commit \in Commit
  BY TypeParts, Directories DEF Bases, Usable
<1> QED
  BY <1>1 DEF Synced, RepoSyncStatus, RepoSyncState, Unregistered

\* Statuses keep their type, and calls in the table their status.
LEMMA StatusesOK ==
    ASSUME TypeOK, Shape, LiveRegistered, [Next]_vars
    PROVE  Statuses' /\ LiveRegistered'
<1> USE TypeParts, Setting
<1> DEFINE Kind == [Service -> [Repo -> Said]]
           Goal == Statuses' /\ LiveRegistered'
<1>0. /\ th \in [Thread -> Frame] /\ stored \in [Repo -> Said] /\ status \in Kind
      /\ \A t \in Thread : FrameShape(t, th[t])
      /\ \A t \in Thread : th[t].pc \in InSync => Now(t) \in Repo
  BY DEF Frames, Statuses, Shape, FrameShape, InSync, Now
<1>p. \A j : Idle(j).pc \notin InSync
  BY DEF Idle, InSync
\* A step of one thread that has been in its call all along, or that is in none afterwards.
<1>1. ASSUME NEW t \in Thread, \A u \in Thread : u # t => th'[u] = th[u],
             \/ th'[t].pc \notin InSync \ {"begin"}
             \/ InCall(t) /\ th'[t].repo = th[t].repo
             \/ ~th'[t].live,
             status' \in Kind,
             \A s \in Service, r \in Repo : status[s][r] # Unregistered => status'[s][r] # Unregistered,
             stored' \in [Repo -> Said]
      PROVE  Goal
  <2>1. \A u \in Thread : InCall(u)' =>
            InCall(u) /\ Now(u)' = Now(u) /\ status[ServiceOf(u)][Now(u)] # Unregistered
    BY <1>1 DEF InCall, Now, LiveRegistered
  <2>2. \A u \in Thread : InCall(u) => Now(u) \in Repo /\ ServiceOf(u) \in Service
    BY <1>0 DEF InCall
  <2> QED
    BY <1>1, <2>1, <2>2 DEF LiveRegistered, Statuses
<1>2. ASSUME NEW t \in Thread, NEW p \in Pc, Goto(t, p), th[t].pc \in InSync \ {"begin"},
             status' \in Kind, Kept, stored' = stored
      PROVE  Goal
  <2>1. /\ \A u \in Thread : u # t => th'[u] = th[u]
        /\ th'[t].live = th[t].live /\ th'[t].repo = th[t].repo
    BY <1>2, <1>0 DEF Goto, Frame
  <2>2. \A s \in Service, r \in Repo :
            status[s][r] # Unregistered => status'[s][r] # Unregistered
    BY <1>2 DEF Kept
  <2>3. \/ th'[t].pc \notin InSync \ {"begin"}
        \/ InCall(t) /\ th'[t].repo = th[t].repo
        \/ ~th'[t].live
    BY <1>2, <2>1 DEF InCall
  <2>4. stored' \in [Repo -> Said]
    BY <1>2, <1>0
  <2> HIDE DEF Goal
  <2> QED
    BY <1>1, <1>2, <2>1, <2>2, <2>3, <2>4
<1>3. ASSUME NEW t \in Thread, NEW x \in RepoSyncState, NEW p \in Pc, Goto(t, p),
             th[t].pc \in InSync \ {"begin"}, SetState(t, x), stored' = stored
      PROVE  Goal
  BY <1>2, <1>3, SetStateOK
<1>4. ASSUME NEW t \in Thread, Fail(t), th[t].pc \in InSync \ {"begin"}, stored' = stored
      PROVE  Goal
  BY <1>3, <1>4, ReturnedOK DEF Fail, RepoSyncState
<1>5. ASSUME NEW t \in Thread, OpenJob(t) PROVE Goal
  <2>1. /\ \A u \in Thread : u # t => th'[u] = th[u]
        /\ th'[t].pc = "loop" /\ t \in Scheduler
    <3> DEFINE f == [th[t] EXCEPT !.pc = "loop", !.todo = {r \in Repo : stored[r] # Unregistered},
                                  !.index = TRUE, !.force = FALSE]
    <3>1. th' = [th EXCEPT ![t] = f] /\ t \in Scheduler
      BY <1>5, <1>0 DEF OpenJob
    <3>2. f.pc = "loop"
      BY <1>0 DEF Frame
    <3> QED
      BY <3>1, <3>2, <1>0
  <2>2. status' = [status EXCEPT ![t] = stored] /\ stored' = stored
    BY <1>5 DEF OpenJob
  <2>3. \A u \in Thread : u # t => ServiceOf(u) # t
    BY <2>1
  <2>4. status' \in Kind
    BY <2>2, <1>0
  <2>5. \A u \in Thread : InCall(u)' => /\ u # t /\ InCall(u) /\ Now(u)' = Now(u)
                                        /\ ServiceOf(u) \in Service
    BY <2>1 DEF InCall, InSync, Now
  <2>6. LiveRegistered'
    BY <2>2, <2>3, <2>5, <1>0 DEF LiveRegistered
  <2> QED
    BY <2>2, <2>4, <2>6, <1>0 DEF Statuses
<1>6. ASSUME NEW t \in Thread,
             \/ NextRepo(t) \/ EndJob(t) \/ Check(t) \/ CheckFetch(t) \/ Compare(t)
             \/ Add(t) \/ Get(t) \/ Upsert(t) \/ Drop(t)
      PROVE  Goal
  <2>1. /\ \A u \in Thread : u # t => th'[u] = th[u]
        /\ status' = status
    BY <1>6, <1>0 DEF NextRepo, EndJob, Check, CheckFetch, Compare, Add, Get, Upsert, Drop, Goto
  <2>2. th'[t].pc \notin InSync \ {"begin"}
    <3>0. \A r, T, p : [th[t] EXCEPT !.todo = T, !.repo = r, !.chunks = 0, !.pc = p].pc = p
      BY <1>0 DEF Frame
    <3>1. ASSUME NextRepo(t) PROVE th'[t].pc \in {"check", "begin"}
      BY <3>1, <1>0, <3>0 DEF NextRepo
    <3>5. ASSUME EndJob(t) PROVE th'[t].pc \notin InSync \ {"begin"}
      BY <3>5, <1>0, <1>p DEF EndJob
    <3>2. ASSUME Check(t) \/ CheckFetch(t) \/ Compare(t)
          PROVE  th'[t].pc \notin InSync \ {"begin"}
      BY <3>2, <1>0 DEF Check, CheckFetch, Compare, Goto, Frame, InSync
    <3>3. ASSUME Add(t) \/ Upsert(t) \/ Drop(t) PROVE th'[t].pc \notin InSync \ {"begin"}
      BY <3>3, <1>0, <1>p DEF Add, Upsert, Drop, Frame, InSync
    <3>4. ASSUME Get(t) PROVE th'[t].pc \notin InSync \ {"begin"}
      BY <3>4, <1>0, <1>p DEF Get, Frame, InSync
    <3> QED
      BY <1>6, <3>1, <3>2, <3>3, <3>4, <3>5 DEF InSync
  <2>3. stored' \in [Repo -> Said]
    <3>1. Unregistered \in Said /\ th[t].held \in Said
      BY <1>0 DEF Frame, Said
    <3> QED
      BY <1>6, <1>0, <3>1 DEF NextRepo, EndJob, Check, CheckFetch, Compare, Add, Get, Upsert, Drop
  <2> QED
    BY <1>0, <1>1, <2>1, <2>2, <2>3
<1>7. ASSUME NEW t \in Thread, Begin(t) PROVE Goal
  <2>1. /\ \A u \in Thread : u # t => th'[u] = th[u]
        /\ status' = status /\ stored' = stored
    BY <1>7, <1>0 DEF Begin, Goto
  <2>2. \/ th'[t].pc \notin InSync
        \/ /\ th'[t].repo = th[t].repo
           /\ status[ServiceOf(t)][Now(t)] # Unregistered
    BY <1>7, <1>0, <1>p DEF Begin, Goto, Frame, InSync, Returned, Registered
  <2>3. \A u \in Thread : u # t => (InCall(u)' <=> InCall(u)) /\ Now(u)' = Now(u)
    BY <2>1 DEF InCall, Now
  <2>4. LiveRegistered'
    BY <2>1, <2>2, <2>3, <1>0 DEF LiveRegistered, InCall, Now
  <2> QED
    BY <2>1, <2>4, <1>0 DEF Statuses
<1>8. ASSUME NEW t \in Thread, Start(t) PROVE Goal
  <2>1. th[t].pc \in InSync \ {"begin"} /\ stored' = stored
    BY <1>8 DEF Start, At, InSync
  <2>2. PICK p \in Pc : Goto(t, p) /\ (UNCHANGED status \/ SetState(t, "syncing"))
    BY <1>8, ReturnedOK, Statements DEF Start, Statement
  <2>3. ASSUME UNCHANGED status PROVE Kept /\ status' \in Kind
    BY <2>3, <1>0 DEF Kept
  <2>4. "syncing" \in RepoSyncState
    BY DEF RepoSyncState
  <2> QED
    BY <1>2, <1>3, <2>1, <2>2, <2>3, <2>4
<1>9. ASSUME NEW t \in Thread, Clone(t) \/ EndClone(t) \/ Fetch(t) \/ Reset(t) PROVE Goal
  <2>1. th[t].pc \in InSync \ {"begin"} /\ stored' = stored
    BY <1>9 DEF Clone, EndClone, Fetch, Reset, At, InSync
  <2>2. Fail(t) \/ \E p \in Pc : Goto(t, p) /\ UNCHANGED status
    BY <1>9, Statements DEF Clone, EndClone, Fetch, Reset, Statement
  <2>3. ASSUME UNCHANGED status PROVE Kept /\ status' \in Kind
    BY <2>3, <1>0 DEF Kept
  <2> QED
    BY <1>2, <1>4, <2>1, <2>2, <2>3
<1>10. ASSUME NEW t \in Thread, Hash(t) PROVE Goal
  <2>1. th[t].pc \in InSync \ {"begin"} /\ stored' = stored /\ Now(t) \in Repo
    BY <1>10, <1>0 DEF Hash, At, InSync
  <2>2. CASE Fail(t)
    BY <1>4, <2>1, <2>2
  <2>3. CASE ~Fail(t)
    <3>1. Synced(t) \in Said /\ Synced(t) # Unregistered
      BY <1>10, <2>1, <2>3, SyncedOK DEF Hash, Said
    <3>2. PICK p \in Pc : Goto(t, p)
      BY <1>10, <2>3, ReturnedOK, Statements DEF Hash, Statement
    <3>3. /\ status' \in Kind
          /\ \A s \in Service, r \in Repo : status[s][r] # Unregistered => status'[s][r] # Unregistered
      BY <1>10, <1>0, <2>1, <2>3, <3>1 DEF Hash
    <3>4. /\ \A u \in Thread : u # t => th'[u] = th[u]
          /\ th'[t].live = th[t].live /\ th'[t].repo = th[t].repo
      BY <3>2, <1>0 DEF Goto, Frame
    <3> QED
      BY <1>0, <1>1, <2>1, <3>3, <3>4 DEF InCall
  <2> QED
    BY <2>2, <2>3
<1>11. ASSUME NEW t \in Thread,
              Scan(t) \/ IndexZoekt(t) \/ Wipe(t) \/ Put(t) \/ Analyze(t)
       PROVE  Goal
  <2>1. /\ \A u \in Thread : u # t => th'[u] = th[u]
        /\ status' = status /\ stored' = stored /\ th[t].pc \in InSync \ {"begin"}
    BY <1>11, <1>0 DEF Scan, IndexZoekt, Wipe, Put, Analyze, Goto, At, InSync
  <2>2. th'[t].live = th[t].live /\ th'[t].repo = th[t].repo
    BY <1>11, <1>0 DEF Scan, IndexZoekt, Wipe, Put, Analyze, Goto, Frame
  <2> QED
    BY <1>0, <1>1, <2>1, <2>2 DEF InCall
<1>12. ASSUME NEW t \in Thread, Finish(t) PROVE Goal
  <2>1. th[t].pc \in InSync \ {"begin"} /\ stored' = stored /\ Verdict(t) \in RepoSyncState
    BY <1>12 DEF Finish, At, InSync, Verdict, RepoSyncState
  <2> QED
    BY <1>3, <1>12, <2>1, ReturnedOK DEF Finish
<1>13. ASSUME NEW t \in Handler, NEW r \in Repo, RegisterRepo(t, r) \/ UnregisterRepo(t, r)
       PROVE  Goal
  <2>1. PICK v \in Said : status' = [status EXCEPT ![Admin][r] = v] /\ stored' = stored
    BY <1>13, StatusWrites, <1>0 DEF RegisterRepo, UnregisterRepo, Said, Statuses
  <2>2. status' \in Kind
    BY <2>1, <1>0
  <2>3. \A u \in Thread : InCall(u)' => /\ u # t /\ InCall(u) /\ Now(u)' = Now(u)
                                        /\ ~(u \in Handler /\ Now(u) = r)
    <3>1. /\ th'[t].pc \in {"add", "drop"}
          /\ \A u \in Thread : u # t =>
                 /\ th'[u].pc = th[u].pc /\ th'[u].repo = th[u].repo
                 /\ th'[u].live = (th[u].live /\ ~(u \in Handler /\ th[u].repo = r))
      BY <1>13, RegisteredFrames
    <3> QED
      BY <3>1 DEF InCall, Now, InSync
  <2>4. LiveRegistered'
    BY <2>1, <2>3, <1>0 DEF LiveRegistered, InCall
  <2> QED
    BY <2>1, <2>2, <2>4, <1>0 DEF Statuses
<1>14. ASSUME NEW t \in Handler, NEW r \in Repo, SyncRepo(t, r) PROVE Goal
  <2>1. /\ \A u \in Thread : u # t => th'[u] = th[u]
        /\ status' = status /\ stored' = stored /\ th'[t].pc = "begin"
    BY <1>14, <1>0 DEF SyncRepo, Frame
  <2> QED
    BY <1>0, <1>1, <2>1
<1>15. ASSUME NEW s \in Service, Crash(s) PROVE Goal
  <2>1. /\ status' = [status EXCEPT ![s] = stored] /\ stored' = stored
        /\ \A u \in Thread : IF ServiceOf(u) = s THEN th'[u] = Idle(th[u].job) ELSE th'[u] = th[u]
    BY <1>15, <1>0 DEF Crash
  <2>2. \A u \in Thread : InCall(u)' => ServiceOf(u) # s /\ InCall(u) /\ Now(u)' = Now(u)
    BY <2>1, <1>p DEF InCall, Now
  <2>3. LiveRegistered'
    BY <2>1, <2>2, <1>0 DEF LiveRegistered
  <2> QED
    BY <2>1, <2>3, <1>0 DEF Statuses
<1>16. ASSUME (\E r \in Repo : Advance(r) \/ Rename(r)) \/ UNCHANGED vars PROVE Goal
  BY <1>16, <1>0 DEF Advance, Rename, vars, LiveRegistered, InCall, Now, Statuses
<1> QED
  BY <1>5, <1>6, <1>7, <1>8, <1>9, <1>10, <1>11, <1>12, <1>13, <1>14, <1>15, <1>16
     DEF Next, Step, SyncStep, JobStep, HandlerStep

\* What a thread's step does to its repository's directory: nothing, or one of these.
Edited(r) ==
    \/ checkout' = checkout
    \/ \E d \in Directory : d.kind # "tree" /\ checkout' = [checkout EXCEPT ![r] = d]
    \/ Usable(r) /\ r \notin imported /\ checkout' = [checkout EXCEPT ![r].origin = head[r]]
    \/ Usable(r) /\ r \notin imported
         /\ checkout' = [checkout EXCEPT ![r].commit = checkout[r].origin]
    \/ r \notin imported /\ ~Usable(r)
         /\ checkout' = [checkout EXCEPT ![r] = WorkTree(head[r], trunk[r], head[r])]

LEMMA StepEdits ==
    ASSUME TypeOK, Shape, NEW t \in Thread, Step(t)
    PROVE  UNCHANGED <<head, trunk>> /\ (checkout' = checkout \/ (Now(t) \in Repo /\ Edited(Now(t))))
<1> USE TypeParts, Setting
<1> DEFINE r == Now(t)
           Goal == UNCHANGED <<head, trunk>> /\ (checkout' = checkout \/ (r \in Repo /\ Edited(r)))
<1>0. FrameShape(t, th[t])
  BY DEF Shape
<1>1. ASSUME JobStep(t) PROVE Goal
  <2>1. ASSUME CheckFetch(t) PROVE Goal
    BY <2>1, <1>0 DEF CheckFetch, FrameShape, At, Now, env, Edited
  <2> QED
    BY <1>1, <2>1 DEF JobStep, OpenJob, NextRepo, EndJob, Check, Compare, env
<1>2. ASSUME HandlerStep(t) PROVE Goal
  BY <1>2 DEF HandlerStep, Add, Get, Upsert, Drop, env
<1>3. ASSUME Begin(t) PROVE Goal
  <2>1. r \in Repo /\ UNCHANGED <<head, trunk>>
    BY <1>3, <1>0 DEF Begin, FrameShape, At, Now, env
  <2>2. checkout' = checkout \/ \E d \in {Absent, Debris} : checkout' = [checkout EXCEPT ![r] = d]
    BY <1>3 DEF Begin, Removed
  <2> QED
    BY <2>1, <2>2, MakeDirectory DEF Edited
<1>4. ASSUME Clone(t) \/ EndClone(t) PROVE Goal
  <2>1. r \in Repo /\ r \notin imported /\ UNCHANGED <<head, trunk>>
    BY <1>4, <1>0 DEF Clone, EndClone, FrameShape, At, Now, env
  <2>2. ASSUME checkout[r] = PartialClone(t) PROVE ~Usable(r)
    BY <2>2, MakeDirectory DEF Usable
  <2>3. \/ checkout' = checkout
        \/ \E d \in {Absent, PartialClone(t)} : checkout' = [checkout EXCEPT ![r] = d]
        \/ /\ checkout[r] = PartialClone(t)
           /\ checkout' = [checkout EXCEPT ![r] = WorkTree(head[r], trunk[r], head[r])]
    BY <1>4 DEF Clone, EndClone
  <2> QED
    BY <2>1, <2>2, <2>3, MakeDirectory DEF Edited
<1>5. ASSUME Fetch(t) \/ Reset(t) PROVE Goal
  BY <1>5, <1>0 DEF Fetch, Reset, FrameShape, At, Now, env, Edited
<1>6. ASSUME \/ Start(t) \/ Hash(t) \/ Scan(t) \/ IndexZoekt(t) \/ Wipe(t) \/ Put(t) \/ Analyze(t)
             \/ Finish(t)
      PROVE  Goal
  BY <1>6 DEF Start, Hash, Scan, IndexZoekt, Wipe, Put, Analyze, Finish, env
<1> QED
  BY <1>1, <1>2, <1>3, <1>4, <1>5, <1>6 DEF Step, SyncStep

\* Every directory stays one.
LEMMA EditedOK ==
    ASSUME TypeOK, NEW r \in Repo, Edited(r)
    PROVE  checkout' \in [Repo -> Directory]
<1> USE TypeParts, Setting DEF Bases
<1>1. /\ checkout[r] \in Directory /\ head[r] \in Commit /\ trunk[r] \in 0 .. MaxRenames
      /\ (Usable(r) => checkout[r].origin \in Commit)
  BY Directories DEF Usable
<1>2. ASSUME Usable(r), NEW c \in Commit
      PROVE  /\ [checkout EXCEPT ![r].origin = c] \in [Repo -> Directory]
             /\ [checkout EXCEPT ![r].commit = c] \in [Repo -> Directory]
  <2>1. /\ [checkout[r] EXCEPT !.origin = c] \in Directory
        /\ [checkout[r] EXCEPT !.commit = c] \in Directory
    BY <1>1, <1>2, MoveTree DEF Usable
  <2> QED
    BY <2>1
<1>3. WorkTree(head[r], trunk[r], head[r]) \in Directory
  BY <1>1, MakeDirectory
<1>4. \A d \in Directory : [checkout EXCEPT ![r] = d] \in [Repo -> Directory]
  OBVIOUS
<1>5. ASSUME Usable(r), \E c \in {head[r], checkout[r].origin} :
                             \/ checkout' = [checkout EXCEPT ![r].origin = c]
                             \/ checkout' = [checkout EXCEPT ![r].commit = c]
      PROVE  checkout' \in [Repo -> Directory]
  <2>1. PICK c \in {head[r], checkout[r].origin} :
               \/ checkout' = [checkout EXCEPT ![r].origin = c]
               \/ checkout' = [checkout EXCEPT ![r].commit = c]
    BY <1>5
  <2>2. c \in Commit
    BY <1>1, <1>5
  <2>3. /\ [checkout EXCEPT ![r].origin = c] \in [Repo -> Directory]
        /\ [checkout EXCEPT ![r].commit = c] \in [Repo -> Directory]
    BY <1>2, <1>5, <2>2
  <2> QED
    BY <2>1, <2>3
<1>6. ASSUME \E d \in Directory : checkout' = [checkout EXCEPT ![r] = d]
      PROVE  checkout' \in [Repo -> Directory]
  BY <1>4, <1>6
<1> QED
  BY <1>3, <1>5, <1>6 DEF Edited

\* Where new contents of the indexes come from: the directory, or the chunks of a call.
IndexesFrom ==
    /\ \A q \in Repo : zoekt'[q] \in {zoekt[q], Content(q)}
    /\ \A q \in Repo : graph'[q] \in {graph[q], 0, Content(q)}
    /\ \A q \in Repo : \A c \in qdrant'[q] :
           c \in qdrant[q] \/ \E t \in Thread : Now(t) = q /\ c = th[t].chunks
    /\ zoekt' \in [Repo -> Commit \cup {0}] /\ graph' \in [Repo -> Commit \cup {0}]
    /\ qdrant' \in [Repo -> SUBSET Commit] /\ collection' \in {"other", "own"}

LEMMA IndexesKept ==
    ASSUME TypeOK, UNCHANGED indexes PROVE IndexesFrom
BY TypeParts DEF Bases, IndexesFrom, indexes

LEMMA IndexEffects ==
    ASSUME TypeOK, Shape, NEW t \in Thread, SyncStep(t)
    PROVE  IndexesFrom
<1> USE TypeParts, Setting
<1> DEFINE r == Now(t)
<1>0. FrameShape(t, th[t])
  BY DEF Shape
<1>1. /\ zoekt \in [Repo -> Commit \cup {0}] /\ graph \in [Repo -> Commit \cup {0}]
      /\ qdrant \in [Repo -> SUBSET Commit] /\ collection \in {"other", "own"}
      /\ \A q \in Repo : Content(q) \in Commit \cup {0}
      /\ th[t].chunks \in Commit \cup {0}
  BY Directories DEF Bases, Content, Frames, Frame
<1>2. ASSUME \/ Start(t) \/ Clone(t) \/ EndClone(t) \/ Fetch(t) \/ Reset(t) \/ Hash(t) \/ Scan(t)
             \/ Finish(t)
      PROVE  UNCHANGED indexes
  BY <1>2 DEF Start, Clone, EndClone, Fetch, Reset, Hash, Scan, Finish
<1>3. ASSUME Begin(t) PROVE IndexesFrom
  <2>1. graph' \in {graph, [graph EXCEPT ![r] = 0]} /\ UNCHANGED <<zoekt, qdrant, collection>>
    BY <1>3 DEF Begin, Removed
  <2> QED
    BY <2>1, <1>1 DEF IndexesFrom
<1>4. ASSUME IndexZoekt(t) PROVE IndexesFrom
  <2>1. zoekt' \in {zoekt, [zoekt EXCEPT ![r] = Content(r)]} /\ UNCHANGED <<graph, qdrant, collection>>
    BY <1>4 DEF IndexZoekt
  <2> QED
    BY <2>1, <1>1 DEF IndexesFrom
<1>5. ASSUME Wipe(t) PROVE IndexesFrom
  <2>1. /\ qdrant' \in {qdrant, Ensured, [Ensured EXCEPT ![r] = {}]} /\ UNCHANGED <<graph, zoekt>>
        /\ collection' \in {collection, "own"}
    BY <1>5 DEF Wipe
  <2>2. Ensured \in [Repo -> SUBSET Commit] /\ \A q \in Repo : Ensured[q] \subseteq qdrant[q]
    BY <1>1 DEF Ensured
  <2>3. qdrant' \in [Repo -> SUBSET Commit] /\ \A q \in Repo : qdrant'[q] \subseteq qdrant[q]
    BY <2>1, <2>2, <1>1
  <2> QED
    BY <2>1, <2>3, <1>1 DEF IndexesFrom
<1>6. ASSUME Put(t) PROVE IndexesFrom
  <2>1. r \in Repo
    BY <1>6, <1>0 DEF Put, At, FrameShape, Now
  <2>2. PICK some : /\ some \subseteq (IF th[t].chunks = 0 THEN {} ELSE {th[t].chunks})
                    /\ qdrant' = [qdrant EXCEPT ![r] = @ \cup some]
                    /\ UNCHANGED <<zoekt, graph, collection>>
    BY <1>6 DEF Put
  <2>3. /\ \A c \in some : c = th[t].chunks
        /\ some \subseteq Commit
    BY <2>2, <1>1
  <2> QED
    BY <2>1, <2>2, <2>3, <1>1 DEF IndexesFrom
<1>7. ASSUME Analyze(t) PROVE IndexesFrom
  <2>1. graph' \in {graph, [graph EXCEPT ![r] = Content(r)]} /\ UNCHANGED <<zoekt, qdrant, collection>>
    BY <1>7 DEF Analyze
  <2> QED
    BY <2>1, <1>1 DEF IndexesFrom
<1> QED
  BY <1>2, <1>3, <1>4, <1>5, <1>6, <1>7, IndexesKept DEF SyncStep

\* Everything that is not a status or a frame keeps its type.
LEMMA BasesOK ==
    ASSUME TypeOK, Shape, [Next]_vars
    PROVE  Bases' /\ IndexesFrom
<1> USE TypeParts, Setting
<1> DEFINE Rest == /\ imported' = imported
                   /\ head' \in [Repo -> Commit] /\ trunk' \in [Repo -> 0 .. MaxRenames]
                   /\ checkout' \in [Repo -> Directory]
           Counts == faults' \in 0 .. MaxFaults /\ requests' \in 0 .. MaxRequests
<1>0. /\ head \in [Repo -> Commit] /\ trunk \in [Repo -> 0 .. MaxRenames]
      /\ checkout \in [Repo -> Directory] /\ imported \subseteq Repo
      /\ faults \in 0 .. MaxFaults /\ requests \in 0 .. MaxRequests
  BY DEF Bases
<1>f. Fault \/ NoFault \/ UNCHANGED bounds => faults' \in 0 .. MaxFaults
  BY <1>0 DEF Fault, NoFault, bounds
<1>1. ASSUME NEW t \in Thread, Step(t) PROVE Rest /\ Counts /\ IndexesFrom
  <2>1. Rest
    BY <1>0, <1>1, StepEdits, EditedOK, ImportedKept DEF Next
  <2>2. ASSUME JobStep(t) PROVE Counts /\ UNCHANGED indexes
    BY <2>2, <1>0, <1>f DEF JobStep, OpenJob, NextRepo, EndJob, Check, CheckFetch, Compare, bounds
  <2>3. ASSUME HandlerStep(t) PROVE Counts /\ UNCHANGED indexes
    BY <2>3, <1>0 DEF HandlerStep, Add, Get, Upsert, Drop, bounds
  <2>4. ASSUME SyncStep(t) PROVE Counts
    <3>1. requests' = requests
      BY <2>4 DEF SyncStep, Begin, Start, Clone, EndClone, Fetch, Reset, Hash, Scan, IndexZoekt,
                  Wipe, Put, Analyze, Finish, bounds
    <3>2. Fault \/ NoFault \/ UNCHANGED bounds
      BY <2>4 DEF SyncStep, Begin, Start, Clone, EndClone, Fetch, Reset, Hash, Scan, IndexZoekt,
                  Wipe, Put, Analyze, Finish
    <3> QED
      BY <3>1, <3>2, <1>0, <1>f
  <2> QED
    BY <1>1, <2>1, <2>2, <2>3, <2>4, IndexEffects, IndexesKept DEF Step
<1>2. ASSUME NEW t \in Handler, NEW r \in Repo,
             RegisterRepo(t, r) \/ UnregisterRepo(t, r) \/ SyncRepo(t, r)
      PROVE  Rest /\ Counts /\ IndexesFrom
  <2>1. Counts
    <3>1. requests < MaxRequests /\ requests' = requests + 1 /\ faults' = faults
      BY <1>2 DEF RegisterRepo, UnregisterRepo, SyncRepo, Request
    <3> QED
      BY <3>1, <1>0
  <2>2. UNCHANGED <<env, checkout, indexes>>
    BY <1>2 DEF RegisterRepo, UnregisterRepo, SyncRepo
  <2> QED
    BY <1>0, <2>1, <2>2, IndexesKept DEF env
<1>3. ASSUME NEW s \in Service, Crash(s) PROVE Rest /\ Counts /\ IndexesFrom
  BY <1>3, <1>0, <1>f, IndexesKept DEF Crash, env
<1>4. ASSUME NEW r \in Repo, Advance(r) PROVE Rest /\ Counts /\ IndexesFrom
  <2>1. head[r] + 1 \in Commit
    BY <1>4, <1>0 DEF Advance
  <2>2. WorkTree(head[r] + 1, 0, head[r] + 1) \in Directory
    BY <2>1, MakeDirectory
  <2> QED
    BY <1>4, <1>0, <2>1, <2>2, IndexesKept DEF Advance, bounds
<1>5. ASSUME NEW r \in Repo, Rename(r) PROVE Rest /\ Counts /\ IndexesFrom
  BY <1>5, <1>0, IndexesKept DEF Rename, bounds
<1>6. ASSUME UNCHANGED vars PROVE Rest /\ Counts /\ IndexesFrom
  BY <1>6, <1>0, IndexesKept DEF vars, env, bounds
<1>7. Rest /\ Counts /\ IndexesFrom
  BY <1>1, <1>2, <1>3, <1>4, <1>5, <1>6 DEF Next
<1> QED
  BY <1>0, <1>7 DEF Bases, IndexesFrom

Typed == TypeOK /\ Shape /\ LiveRegistered

LEMMA TypedInit == Init => Typed
<1> SUFFICES ASSUME Init PROVE Typed
  OBVIOUS
<1> USE Setting
<1>0. 1 \in Commit /\ 0 \in 0 .. MaxRenames /\ 0 \in 0 .. MaxFaults /\ 0 \in 0 .. MaxRequests
  OBVIOUS
<1>1. WorkTree(1, 0, 1) \in Directory /\ Absent \in Directory
  BY <1>0, MakeDirectory
<1>2. Pending \in Said /\ Unregistered \in Said
  BY DEF Said, RepoSyncStatus, RepoSyncState, Pending
<1>3. Bases
  BY <1>0, <1>1 DEF Init, Bases
<1>4. Statuses
  BY <1>2 DEF Init, Statuses
<1>5. Idle(1) \in Frame
  BY IdleOK
<1>6. Frames /\ Shape /\ LiveRegistered
  BY <1>5 DEF Init, Frames, Shape, FrameShape, LiveRegistered, InCall, Idle
<1> QED
  BY <1>3, <1>4, <1>6, TypeParts DEF Typed

LEMMA TypedStep == Typed /\ [Next]_vars => Typed'
<1> SUFFICES ASSUME Typed, [Next]_vars PROVE Typed'
  OBVIOUS
<1>1. TypeOK /\ Shape /\ LiveRegistered
  BY DEF Typed
<1>2. Bases' /\ Statuses' /\ Frames' /\ Shape' /\ LiveRegistered'
  BY <1>1, BasesOK, StatusesOK, FramesOK, ShapeOK
<1> QED
  BY <1>2 DEF Typed, TypeOK, Bases, Statuses, Frames, Said

\* The state has its shape whatever the services do beside each other: in particular every
\* status that is shown or stored is one of RepoSyncState.
THEOREM TypeCorrect == Spec => []TypeOK
<1>1. Typed => TypeOK
  BY DEF Typed
<1> QED
  BY <1>1, TypedInit, TypedStep, PTL DEF Spec

-----------------------------------------------------------------------------
(* Nothing is ahead of the checkout.                                       *)

\* What bounds everything derived from a checkout: its commit, or while there is no usable
\* one the commit that the next clone will give it.
Bound(r) == IF Usable(r) THEN checkout[r].commit ELSE head[r]

\* A work tree is between what it was and the remote; one without a remote is the newest.
TreesOrdered ==
    \A r \in Repo : Usable(r) =>
        /\ checkout[r].commit <= checkout[r].origin /\ checkout[r].origin <= head[r]
        /\ r \in imported => checkout[r].commit = head[r]

DerivedBounded ==
    /\ \A r \in Repo : zoekt[r] <= Bound(r) /\ graph[r] <= Bound(r)
    /\ \A r \in Repo : \A c \in qdrant[r] : c <= Bound(r)
    /\ \A r \in Repo : stored[r].commit <= Bound(r)
    /\ \A s \in Service, r \in Repo : status[s][r].commit <= Bound(r)
    /\ \A t \in Thread : Now(t) \in Repo => /\ th[t].chunks <= Bound(Now(t))
                                            /\ th[t].held.commit <= Bound(Now(t))

\* In other words: the directory is gone or unusable, or a work tree that has not lost a commit.
LEMMA EditKinds ==
    ASSUME TypeOK, NEW q \in Repo, Edited(q)
    PROVE  /\ \A r \in Repo : r # q => checkout'[r] = checkout[r]
           /\ \/ checkout' = checkout
              \/ ~Usable(q)'
              \/ /\ Usable(q)' /\ q \notin imported
                 /\ \/ /\ Usable(q) /\ checkout'[q].commit = checkout[q].commit
                       /\ checkout'[q].origin = head[q]
                    \/ /\ Usable(q) /\ checkout'[q].commit = checkout[q].origin
                       /\ checkout'[q].origin = checkout[q].origin
                    \/ ~Usable(q) /\ checkout'[q].commit = head[q] /\ checkout'[q].origin = head[q]
<1> USE TypeParts, Setting
<1>0. /\ head \in [Repo -> Commit] /\ checkout \in [Repo -> Directory]
      /\ trunk \in [Repo -> 0 .. MaxRenames]
  BY DEF Bases
<1>1. \A r \in Repo : r # q => checkout'[r] = checkout[r]
  BY <1>0 DEF Edited
<1>2. ASSUME NEW d \in Directory, d.kind # "tree", checkout' = [checkout EXCEPT ![q] = d]
      PROVE  ~Usable(q)'
  BY <1>0, <1>2 DEF Usable
<1>3. ASSUME Usable(q), checkout' = [checkout EXCEPT ![q].origin = head[q]]
      PROVE  Usable(q)' /\ checkout'[q].commit = checkout[q].commit /\ checkout'[q].origin = head[q]
  <2>1. checkout[q] \in Directory
    BY <1>0
  <2>2. checkout[q] = WorkTree(checkout[q].commit, checkout[q].branch, checkout[q].origin)
    BY <1>3, <2>1, Directories DEF Usable
  <2> QED
    BY <1>0, <1>3, <2>2 DEF Usable, WorkTree, Dir
<1>4. ASSUME Usable(q), checkout' = [checkout EXCEPT ![q].commit = checkout[q].origin]
      PROVE  /\ Usable(q)' /\ checkout'[q].commit = checkout[q].origin
             /\ checkout'[q].origin = checkout[q].origin
  <2>1. checkout[q] \in Directory
    BY <1>0
  <2>2. checkout[q] = WorkTree(checkout[q].commit, checkout[q].branch, checkout[q].origin)
    BY <1>4, <2>1, Directories DEF Usable
  <2> QED
    BY <1>0, <1>4, <2>2 DEF Usable, WorkTree, Dir
<1>5. ASSUME checkout' = [checkout EXCEPT ![q] = WorkTree(head[q], trunk[q], head[q])]
      PROVE  Usable(q)' /\ checkout'[q].commit = head[q] /\ checkout'[q].origin = head[q]
  BY <1>0, <1>5, MakeDirectory DEF Usable
<1>6. CASE \E d \in Directory : d.kind # "tree" /\ checkout' = [checkout EXCEPT ![q] = d]
  BY <1>1, <1>2, <1>6
<1>7. CASE Usable(q) /\ q \notin imported /\ checkout' = [checkout EXCEPT ![q].origin = head[q]]
  BY <1>1, <1>3, <1>7
<1>8. CASE /\ Usable(q) /\ q \notin imported
           /\ checkout' = [checkout EXCEPT ![q].commit = checkout[q].origin]
  BY <1>1, <1>4, <1>8
<1>9. CASE /\ q \notin imported /\ ~Usable(q)
           /\ checkout' = [checkout EXCEPT ![q] = WorkTree(head[q], trunk[q], head[q])]
  BY <1>1, <1>5, <1>9
<1> QED
  BY <1>1, <1>6, <1>7, <1>8, <1>9 DEF Edited

\* Work trees only move forward, and the bound with them.
LEMMA Forward ==
    ASSUME Typed, TreesOrdered, [Next]_vars
    PROVE  TreesOrdered' /\ \A r \in Repo : Bound(r) <= Bound(r)'
<1> USE Setting
<1> DEFINE Goal == TreesOrdered' /\ \A r \in Repo : Bound(r) <= Bound(r)'
<1>0. /\ TypeOK /\ Shape
      /\ head \in [Repo -> Commit] /\ checkout \in [Repo -> Directory]
      /\ trunk \in [Repo -> 0 .. MaxRenames]
      /\ \A r \in Repo : head[r] \in Nat
      /\ \A r \in Repo : Usable(r) => checkout[r].commit \in Nat /\ checkout[r].origin \in Nat
  BY TypeParts, Directories DEF Typed, Bases, Usable
<1>k. imported' = imported
  BY ImportedKept
<1>b. \A r \in Repo : Bound(r) \in Nat
  BY <1>0 DEF Bound
\* Only one repository matters.
<1>m. ASSUME NEW q \in Repo,
             \A r \in Repo : r # q => checkout'[r] = checkout[r] /\ head'[r] = head[r],
             Bound(q) <= Bound(q)',
             Usable(q)' => /\ checkout'[q].commit <= checkout'[q].origin
                           /\ checkout'[q].origin <= head'[q]
                           /\ q \in imported => checkout'[q].commit = head'[q]
      PROVE  Goal
  <2>1. \A r \in Repo : r # q => Bound(r)' = Bound(r) /\ (Usable(r)' <=> Usable(r))
    BY <1>m DEF Bound, Usable
  <2>2. \A r \in Repo : Bound(r) <= Bound(r)'
    BY <1>b, <1>m, <2>1
  <2>3. TreesOrdered'
    BY <1>k, <1>m, <2>1 DEF TreesOrdered
  <2> QED
    BY <2>2, <2>3
<1>1. ASSUME UNCHANGED <<head, checkout>> PROVE Goal
  <2>1. \A r \in Repo : Bound(r)' = Bound(r) /\ (Usable(r)' <=> Usable(r))
    BY <1>1 DEF Bound, Usable
  <2> QED
    BY <1>1, <1>b, <1>k, <2>1 DEF TreesOrdered
<1>2. ASSUME NEW q \in Repo, head' = head, Edited(q) PROVE Goal
  <2>1. \A r \in Repo : r # q => checkout'[r] = checkout[r]
    BY <1>0, <1>2, EditKinds
  <2>2. \A r \in Repo : r # q => /\ Usable(r)' <=> Usable(r)
                                 /\ Bound(r)' = Bound(r)
    BY <1>2, <2>1 DEF Usable, Bound
  <2>7. CASE checkout' = checkout
    BY <1>1, <1>2, <2>7
  <2>8. CASE ~Usable(q)'
    <3>1. Bound(q) <= Bound(q)'
      BY <1>0, <1>2, <2>8 DEF Bound, TreesOrdered
    <3> QED
      BY <1>2, <1>m, <2>1, <2>8, <3>1
  <2>9. CASE /\ Usable(q)' /\ q \notin imported
             /\ \/ /\ Usable(q) /\ checkout'[q].commit = checkout[q].commit
                   /\ checkout'[q].origin = head[q]
                \/ /\ Usable(q) /\ checkout'[q].commit = checkout[q].origin
                   /\ checkout'[q].origin = checkout[q].origin
                \/ ~Usable(q) /\ checkout'[q].commit = head[q] /\ checkout'[q].origin = head[q]
    <3>1. Bound(q) <= Bound(q)'
      BY <1>0, <1>2, <2>9 DEF Bound, TreesOrdered
    <3>2. checkout'[q].commit <= checkout'[q].origin /\ checkout'[q].origin <= head[q]
      BY <1>0, <2>9 DEF TreesOrdered
    <3> QED
      BY <1>2, <1>m, <2>1, <2>9, <3>1, <3>2
  <2> QED
    BY <1>0, <1>2, <2>7, <2>8, <2>9, EditKinds
<1>3. ASSUME NEW t \in Thread, Step(t) PROVE Goal
  BY <1>0, <1>1, <1>2, <1>3, StepEdits
<1>4. ASSUME NEW q \in Repo, Advance(q) PROVE Goal
  <2>1. head'[q] = head[q] + 1 /\ \A r \in Repo : r # q => head'[r] = head[r]
    BY <1>0, <1>4 DEF Advance
  <2>2. CASE q \notin imported
    <3>1. checkout' = checkout
      BY <1>4, <2>2 DEF Advance
    <3>2. Usable(q)' <=> Usable(q)
      BY <3>1 DEF Usable
    <3>3. Bound(q) <= Bound(q)'
      BY <1>0, <2>1, <3>1, <3>2 DEF Bound
    <3>4. Usable(q) => checkout[q].origin <= head[q] + 1
      BY <1>0 DEF TreesOrdered
    <3>5. Usable(q)' => /\ checkout'[q].commit <= checkout'[q].origin
                        /\ checkout'[q].origin <= head'[q]
      BY <2>1, <3>1, <3>2, <3>4 DEF TreesOrdered
    <3> QED
      BY <1>m, <2>1, <2>2, <3>1, <3>3, <3>5
  <2>3. CASE q \in imported
    <3>1. /\ Usable(q)' /\ checkout'[q].commit = head[q] + 1 /\ checkout'[q].origin = head[q] + 1
          /\ \A r \in Repo : r # q => checkout'[r] = checkout[r]
      <4>1. /\ Usable(q)
            /\ checkout' = [checkout EXCEPT ![q] = WorkTree(head[q] + 1, 0, head[q] + 1)]
        BY <1>4, <2>3 DEF Advance
      <4>2. /\ WorkTree(head[q] + 1, 0, head[q] + 1).kind = "tree"
            /\ WorkTree(head[q] + 1, 0, head[q] + 1).commit = head[q] + 1
            /\ WorkTree(head[q] + 1, 0, head[q] + 1).origin = head[q] + 1
        BY DEF WorkTree, Dir
      <4> QED
        BY <1>0, <4>1, <4>2 DEF Usable
    <3>2. Bound(q) <= Bound(q)'
      BY <1>0, <2>1, <3>1 DEF TreesOrdered, Bound
    <3> QED
      BY <1>0, <1>m, <2>1, <3>1, <3>2
  <2> QED
    BY <2>2, <2>3
<1>5. ASSUME \/ \E t \in Handler, r \in Repo : RegisterRepo(t, r) \/ UnregisterRepo(t, r) \/ SyncRepo(t, r)
             \/ \E s \in Service : Crash(s)
             \/ \E r \in Repo : Rename(r)
             \/ UNCHANGED vars
      PROVE  Goal
  <2>1. checkout' = checkout /\ head' = head
    <3>1. CASE \E t \in Handler, r \in Repo : RegisterRepo(t, r) \/ UnregisterRepo(t, r) \/ SyncRepo(t, r)
      <4>1. PICK t \in Handler, r \in Repo : RegisterRepo(t, r) \/ UnregisterRepo(t, r) \/ SyncRepo(t, r)
        BY <3>1
      <4>2. CASE RegisterRepo(t, r)
        BY <4>2, Zenon DEF RegisterRepo, env
      <4>3. CASE UnregisterRepo(t, r)
        BY <4>3, Zenon DEF UnregisterRepo, env
      <4>4. CASE SyncRepo(t, r)
        BY <4>4, Zenon DEF SyncRepo, env
      <4> QED
        BY <4>1, <4>2, <4>3, <4>4
    <3>2. CASE (\E s \in Service : Crash(s)) \/ UNCHANGED vars
      BY <3>2 DEF Crash, vars, env
    <3>3. CASE \E r \in Repo : Rename(r)
      BY <3>3 DEF Rename
    <3> QED
      BY <1>5, <3>1, <3>2, <3>3
  <2> QED
    BY <1>1, <2>1
<1> QED
  BY <1>3, <1>4, <1>5 DEF Next

\* Where the commits that statuses, the document and the frames name come from.
CommitsFrom ==
    /\ \A r \in Repo :
           \/ stored'[r].commit \in {0, stored[r].commit}
           \/ \E t \in Thread : Now(t) = r /\ stored'[r].commit = th[t].held.commit
    /\ \A s \in Service, r \in Repo :
           status'[s][r].commit \in {0, status[s][r].commit, stored[r].commit, Content(r)}
    /\ \A t \in Thread : Now(t)' \in Repo =>
           /\ \/ th'[t].chunks \in {0, Content(Now(t)')}
              \/ Now(t)' = Now(t) /\ th'[t].chunks = th[t].chunks
           /\ \/ th'[t].held.commit \in {0, status[Admin][Now(t)'].commit}
              \/ Now(t)' = Now(t) /\ th'[t].held = th[t].held

LEMMA CommitsOK ==
    ASSUME Typed, [Next]_vars
    PROVE  CommitsFrom
<1> USE TypeParts, Setting
<1> DEFINE Docs == \A r \in Repo :
                      \/ stored'[r].commit \in {0, stored[r].commit}
                      \/ \E t \in Thread : Now(t) = r /\ stored'[r].commit = th[t].held.commit
           Says == \A s \in Service, r \in Repo :
                      status'[s][r].commit \in {0, status[s][r].commit, stored[r].commit, Content(r)}
           Held(t) == Now(t)' \in Repo =>
                      /\ \/ th'[t].chunks \in {0, Content(Now(t)')}
                         \/ Now(t)' = Now(t) /\ th'[t].chunks = th[t].chunks
                      /\ \/ th'[t].held.commit \in {0, status[Admin][Now(t)'].commit}
                         \/ Now(t)' = Now(t) /\ th'[t].held = th[t].held
           Others(t) == \A u \in Thread : u # t => th'[u] = th[u]
           Same(t) == Now(t)' = Now(t) /\ th'[t].chunks = th[t].chunks /\ th'[t].held = th[t].held
<1>0. /\ TypeOK /\ Shape /\ LiveRegistered
      /\ th \in [Thread -> Frame] /\ stored \in [Repo -> Said] /\ status \in [Service -> [Repo -> Said]]
      /\ \A t \in Thread : FrameShape(t, th[t])
  BY DEF Typed, Frames, Statuses, Shape
<1>z. /\ Unregistered.commit = 0 /\ Pending.commit = 0
      /\ \A j : Idle(j).repo = NoRepo
  BY DEF Unregistered, Pending, Idle
<1>1. ASSUME NEW t \in Thread, Others(t), Same(t) \/ Now(t)' \notin Repo \/ Held(t)
      PROVE  \A u \in Thread : Held(u)
  <2>1. \A u \in Thread : u # t => Same(u)
    BY <1>1 DEF Now
  <2> QED
    BY <1>1, <2>1
<1>2. ASSUME NEW t \in Thread, NEW p \in Pc, Goto(t, p) PROVE \A u \in Thread : Held(u)
  <2>1. Others(t) /\ Same(t)
    BY <1>2, <1>0 DEF Goto, Frame, Now
  <2> QED
    BY <1>1, <2>1
<1>3. ASSUME NEW t \in Thread, Fail(t) PROVE \A u \in Thread : Held(u)
  BY <1>2, <1>3, ReturnedOK DEF Fail
<1>4. UNCHANGED stored => Docs
  OBVIOUS
<1>5. UNCHANGED status => Says
  OBVIOUS
<1>6. ASSUME NEW t \in Thread, NEW x \in RepoSyncState, th[t].pc \in InSync \ {"begin"}, SetState(t, x)
      PROVE  Says
  BY <1>0, <1>6, SetStateOK DEF Kept
<1>7. ASSUME NEW t \in Thread, Fail(t), th[t].pc \in InSync \ {"begin"} PROVE Says
  BY <1>6, <1>7 DEF Fail, RepoSyncState
<1> HIDE DEF Docs, Says, Held
<1>8. ASSUME NEW t \in Thread, OpenJob(t) PROVE CommitsFrom
  <2>1. status' = [status EXCEPT ![t] = stored] /\ stored' = stored
    BY <1>8 DEF OpenJob
  <2>2. Says
    BY <2>1, <1>0 DEF Says
  <2>3. Others(t) /\ Same(t)
    <3> DEFINE f == [th[t] EXCEPT !.pc = "loop", !.todo = {r \in Repo : stored[r] # Unregistered},
                                  !.index = TRUE, !.force = FALSE]
    <3>1. th' = [th EXCEPT ![t] = f]
      BY <1>8, <1>0 DEF OpenJob
    <3>2. f.repo = th[t].repo /\ f.chunks = th[t].chunks /\ f.held = th[t].held
      BY <1>0 DEF Frame
    <3> QED
      BY <3>1, <3>2, <1>0 DEF Now
  <2> QED
    BY <1>1, <1>4, <2>1, <2>2, <2>3 DEF CommitsFrom, Docs, Says, Held
<1>9. ASSUME NEW t \in Thread, NextRepo(t) PROVE CommitsFrom
  <2>1. PICK r \in th[t].todo :
          th' = [th EXCEPT ![t].todo = @ \ {r}, ![t].repo = r, ![t].chunks = 0,
                           ![t].pc = IF Jobs[th[t].job] = "changed" THEN "check" ELSE "begin"]
    BY <1>9 DEF NextRepo
  <2> DEFINE p == IF Jobs[th[t].job] = "changed" THEN "check" ELSE "begin"
             f == [th[t] EXCEPT !.todo = th[t].todo \ {r}, !.repo = r, !.chunks = 0, !.pc = p]
  <2>2. th' = [th EXCEPT ![t] = f]
    BY <2>1, <1>0
  <2>3. f.chunks = 0 /\ f.held = th[t].held
    BY <1>0 DEF Frame
  <2>4. t \in Scheduler /\ th[t].held = Unregistered
    BY <1>9, <1>0 DEF NextRepo, At, FrameShape
  <2>5. Others(t) /\ Held(t)
    BY <2>2, <2>3, <2>4, <1>0, <1>z DEF Held
  <2>6. UNCHANGED <<stored, status>>
    BY <1>9 DEF NextRepo
  <2> QED
    BY <1>1, <1>4, <1>5, <2>5, <2>6 DEF CommitsFrom, Docs, Says, Held
<1>10. ASSUME NEW t \in Thread, EndJob(t) PROVE CommitsFrom
  <2>1. Others(t) /\ Now(t)' \notin Repo /\ UNCHANGED <<stored, status>>
    BY <1>10, <1>0, <1>z DEF EndJob, Now
  <2> QED
    BY <1>1, <1>4, <1>5, <2>1 DEF CommitsFrom, Docs, Says, Held
<1>11. ASSUME NEW t \in Thread, Check(t) \/ CheckFetch(t) \/ Compare(t) PROVE CommitsFrom
  <2>1. UNCHANGED <<stored, status>> /\ \E p \in Pc : Goto(t, p)
    BY <1>11, Statements DEF Check, CheckFetch, Compare, Statement
  <2> QED
    BY <1>2, <1>4, <1>5, <2>1 DEF CommitsFrom, Docs, Says, Held
<1>12. ASSUME NEW t \in Thread, Begin(t) PROVE CommitsFrom
  <2>1. UNCHANGED <<stored, status>>
    BY <1>12 DEF Begin
  <2>2. ASSUME th' = [th EXCEPT ![t].pc = "start", ![t].live = TRUE] PROVE Others(t) /\ Same(t)
    BY <2>2, <1>0 DEF Frame, Now
  <2>3. ASSUME th' = [th EXCEPT ![t] = Idle(@.job)] PROVE Others(t) /\ Now(t)' \notin Repo
    BY <2>3, <1>0, <1>z DEF Now
  <2>4. \A u \in Thread : Held(u)
    BY <1>12, <1>1, <1>2, <2>2, <2>3, ReturnedOK DEF Begin
  <2> QED
    BY <1>4, <1>5, <2>1, <2>4 DEF CommitsFrom, Docs, Says, Held
<1>13. ASSUME NEW t \in Thread, Start(t) \/ Finish(t) PROVE CommitsFrom
  <2>1. th[t].pc \in InSync \ {"begin"} /\ stored' = stored
    BY <1>13 DEF Start, Finish, At, InSync
  <2>2. \E p \in Pc : Goto(t, p)
    BY <1>13, ReturnedOK, Statements DEF Start, Finish, Statement
  <2>3. UNCHANGED status \/ \E x \in RepoSyncState : SetState(t, x)
    BY <1>13 DEF Start, Finish, Verdict, RepoSyncState
  <2> QED
    BY <1>2, <1>4, <1>5, <1>6, <2>1, <2>2, <2>3 DEF CommitsFrom, Docs, Says, Held
<1>14. ASSUME NEW t \in Thread, Clone(t) \/ EndClone(t) \/ Fetch(t) \/ Reset(t) PROVE CommitsFrom
  <2>1. th[t].pc \in InSync \ {"begin"} /\ stored' = stored
    BY <1>14 DEF Clone, EndClone, Fetch, Reset, At, InSync
  <2>2. Fail(t) \/ (UNCHANGED status /\ \E p \in Pc : Goto(t, p))
    BY <1>14, Statements DEF Clone, EndClone, Fetch, Reset, Statement
  <2> QED
    BY <1>2, <1>3, <1>4, <1>5, <1>7, <2>1, <2>2 DEF CommitsFrom, Docs, Says, Held
<1>15. ASSUME NEW t \in Thread, Hash(t) PROVE CommitsFrom
  <2>1. /\ th[t].pc \in InSync \ {"begin"} /\ stored' = stored /\ Now(t) \in Repo
    BY <1>15, <1>0 DEF Hash, At, InSync, FrameShape, Now
  <2>2. CASE Fail(t)
    BY <1>3, <1>4, <1>7, <2>1, <2>2 DEF CommitsFrom, Docs, Says, Held
  <2>3. CASE ~Fail(t)
    <3>1. Usable(Now(t)) /\ \E p \in Pc : Goto(t, p)
      BY <1>15, <2>3, ReturnedOK, Statements DEF Hash, Statement
    <3>2. status' = status \/ status' = [status EXCEPT ![ServiceOf(t)][Now(t)] = Synced(t)]
      BY <1>15, <2>3 DEF Hash
    <3>3. Synced(t).commit = Content(Now(t))
      BY <1>0, <2>1, <3>1, SyncedOK DEF Content
    <3>4. Says
      BY <1>0, <2>1, <3>2, <3>3 DEF Says
    <3> QED
      BY <1>2, <1>4, <2>1, <3>1, <3>4 DEF CommitsFrom, Docs, Says, Held
  <2> QED
    BY <2>2, <2>3
<1>16. ASSUME NEW t \in Thread, Scan(t) PROVE CommitsFrom
  <2>1. Others(t) /\ Now(t)' = Now(t) /\ th'[t].chunks = Content(Now(t)) /\ th'[t].held = th[t].held
    BY <1>16, <1>0 DEF Scan, Frame, Now
  <2>2. Held(t)
    BY <2>1 DEF Held
  <2>3. UNCHANGED <<stored, status>>
    BY <1>16 DEF Scan
  <2> QED
    BY <1>1, <1>4, <1>5, <2>1, <2>2, <2>3 DEF CommitsFrom, Docs, Says, Held
<1>17. ASSUME NEW t \in Thread, IndexZoekt(t) \/ Wipe(t) \/ Put(t) \/ Analyze(t) PROVE CommitsFrom
  <2>1. Others(t) /\ Same(t) /\ UNCHANGED <<stored, status>>
    BY <1>17, <1>0 DEF IndexZoekt, Wipe, Put, Analyze, Goto, Frame, Now
  <2> QED
    BY <1>1, <1>4, <1>5, <2>1 DEF CommitsFrom, Docs, Says, Held
<1>18. ASSUME NEW t \in Thread, Add(t) \/ Upsert(t) \/ Drop(t) PROVE CommitsFrom
  <2>1. UNCHANGED status /\ Others(t) /\ (Same(t) \/ Now(t)' \notin Repo)
    BY <1>18, <1>0, <1>z DEF Add, Upsert, Drop, Frame, Now
  <2>2. \E v \in {th[t].held, Unregistered} : stored' = [stored EXCEPT ![Now(t)] = v]
    BY <1>18 DEF Add, Upsert, Drop
  <2>3. Docs
    BY <2>2, <1>0, <1>z DEF Docs
  <2> QED
    BY <1>1, <1>5, <2>1, <2>3 DEF CommitsFrom, Docs, Says, Held
<1>19. ASSUME NEW t \in Thread, Get(t) PROVE CommitsFrom
  <2>1. UNCHANGED <<status, stored>>
    BY <1>19 DEF Get
  <2>2. ASSUME th' = [th EXCEPT ![t] = [@ EXCEPT !.pc = "upsert", !.held = status[Admin][Now(t)]]]
        PROVE  Others(t) /\ Held(t)
    <3> DEFINE f == [th[t] EXCEPT !.pc = "upsert", !.held = status[Admin][Now(t)]]
    <3>1. th' = [th EXCEPT ![t] = f]
      BY <2>2, <1>0
    <3>2. f.repo = th[t].repo /\ f.chunks = th[t].chunks /\ f.held = status[Admin][Now(t)]
      BY <1>0 DEF Frame
    <3> QED
      BY <3>1, <3>2, <1>0 DEF Held, Now
  <2>3. ASSUME th' = [th EXCEPT ![t] = Idle(@.job)] PROVE Others(t) /\ Now(t)' \notin Repo
    BY <2>3, <1>0, <1>z DEF Now
  <2>4. \/ th' = [th EXCEPT ![t] = [@ EXCEPT !.pc = "upsert", !.held = status[Admin][Now(t)]]]
        \/ th' = [th EXCEPT ![t] = Idle(@.job)]
    BY <1>19, <1>0 DEF Get
  <2> QED
    BY <1>1, <1>4, <1>5, <2>1, <2>2, <2>3, <2>4 DEF CommitsFrom, Docs, Says, Held
<1>20. ASSUME NEW t \in Handler, NEW r \in Repo, RegisterRepo(t, r) \/ UnregisterRepo(t, r)
       PROVE  CommitsFrom
  <2>1. stored' = stored /\ \E v \in {Pending, Unregistered} : status' = [status EXCEPT ![Admin][r] = v]
    BY <1>20 DEF RegisterRepo, UnregisterRepo
  <2>2. Says
    BY <2>1, <1>0, <1>z DEF Says
  <2>3. th[t].pc = "idle" /\ th[t].chunks = 0 /\ th[t].held = Unregistered
    BY <1>20, <1>0 DEF RegisterRepo, UnregisterRepo, Request, At, FrameShape
  <2>4. \A u \in Thread : Held(u)
    <3>1. /\ th'[t].held \in {th[t].held, Pending} /\ th'[t].chunks = th[t].chunks
          /\ \A u \in Thread : u # t => /\ th'[u].repo = th[u].repo /\ th'[u].held = th[u].held
                                        /\ th'[u].chunks = th[u].chunks
      BY <1>0, <1>20, RegisteredFrames
    <3>2. Held(t)
      BY <1>z, <2>3, <3>1 DEF Held
    <3>3. \A u \in Thread : u # t => Held(u)
      BY <3>1 DEF Held, Now
    <3> QED
      BY <3>2, <3>3
  <2> QED
    BY <1>4, <2>1, <2>2, <2>4 DEF CommitsFrom, Docs, Says, Held
<1>21. ASSUME NEW t \in Handler, NEW r \in Repo, SyncRepo(t, r) PROVE CommitsFrom
  <2>1. th[t].pc = "idle" /\ th[t].chunks = 0 /\ th[t].held = Unregistered
    BY <1>21, <1>0 DEF SyncRepo, Request, At, FrameShape
  <2>2. Others(t) /\ th'[t].chunks = th[t].chunks /\ th'[t].held = th[t].held
    BY <1>21, <1>0 DEF SyncRepo, Frame
  <2>3. Held(t) /\ UNCHANGED <<status, stored>>
    BY <1>21, <1>z, <2>1, <2>2 DEF Held, SyncRepo
  <2> QED
    BY <1>1, <1>4, <1>5, <2>2, <2>3 DEF CommitsFrom, Docs, Says, Held
<1>22. ASSUME NEW s \in Service, Crash(s) PROVE CommitsFrom
  <2>1. /\ status' = [status EXCEPT ![s] = stored] /\ stored' = stored
        /\ \A u \in Thread : th'[u] \in {Idle(th[u].job), th[u]}
    BY <1>22 DEF Crash
  <2>2. Says
    BY <2>1, <1>0 DEF Says
  <2>3. \A u \in Thread : Held(u)
    BY <2>1, <1>z DEF Held, Now
  <2> QED
    BY <1>4, <2>1, <2>2, <2>3 DEF CommitsFrom, Docs, Says, Held
<1>23. ASSUME (\E r \in Repo : Advance(r) \/ Rename(r)) \/ UNCHANGED vars PROVE CommitsFrom
  <2>1. UNCHANGED <<th, stored, status>>
    BY <1>23 DEF Advance, Rename, vars
  <2> QED
    BY <1>4, <1>5, <2>1 DEF CommitsFrom, Docs, Says, Now
<1> QED
  BY <1>8, <1>9, <1>10, <1>11, <1>12, <1>13, <1>14, <1>15, <1>16, <1>17, <1>18, <1>19, <1>20, <1>21,
     <1>22, <1>23 DEF Next, Step, SyncStep, JobStep, HandlerStep

LEMMA DerivedStep ==
    ASSUME Typed, TreesOrdered, DerivedBounded, [Next]_vars
    PROVE  DerivedBounded'
<1> USE Setting, TypeParts
<1>1. IndexesFrom /\ CommitsFrom /\ Typed'
  BY BasesOK, CommitsOK, TypedStep DEF Typed
<1>2. \A r \in Repo : Bound(r) <= Bound(r)'
  BY Forward
<1>3. /\ \A r \in Repo : checkout[r] \in Directory /\ head[r] \in Nat
      /\ \A r \in Repo : zoekt[r] \in Nat /\ graph[r] \in Nat /\ qdrant[r] \subseteq Nat
      /\ \A t \in Thread : th[t].chunks \in Nat
  BY DEF Typed, Bases, Frames, Frame
<1>4. \A r \in Repo : Bound(r) \in Nat /\ Content(r) \in Nat /\ Content(r) <= Bound(r)
  BY <1>3, Directories DEF Bound, Content, Usable
<1>5. \A r \in Repo : Bound(r)' \in Nat
  <2>1. \A r \in Repo : checkout'[r] \in Directory /\ head'[r] \in Nat
    BY <1>1 DEF Typed, TypeOK
  <2> QED
    BY <2>1, Directories DEF Bound, Usable
<1>6. \A v \in Said : v.commit \in Nat
  BY DEF Said, RepoSyncStatus, Unregistered
<1>7. /\ \A r \in Repo : stored[r].commit \in Nat
      /\ \A s \in Service, r \in Repo : status[s][r].commit \in Nat
      /\ \A t \in Thread : th[t].held.commit \in Nat
  BY <1>6 DEF Typed, Statuses, Frames, Frame, Said
<1> DEFINE Old == \A r \in Repo : \A c \in Nat : c <= Bound(r) => c <= Bound(r)'
<1>8. Old /\ \A r \in Repo : 0 <= Bound(r)' /\ Content(r) <= Bound(r)'
  BY <1>2, <1>4, <1>5
<1> HIDE DEF Old
<1>9. \A r \in Repo : zoekt'[r] <= Bound(r)' /\ graph'[r] <= Bound(r)'
  BY <1>1, <1>3, <1>8 DEF IndexesFrom, DerivedBounded, Old
<1>10. \A r \in Repo : \A c \in qdrant'[r] : c <= Bound(r)'
  BY <1>1, <1>3, <1>8 DEF IndexesFrom, DerivedBounded, Old
<1>11. \A r \in Repo : stored'[r].commit <= Bound(r)'
  BY <1>1, <1>7, <1>8 DEF CommitsFrom, DerivedBounded, Old
<1>12. \A s \in Service, r \in Repo : status'[s][r].commit <= Bound(r)'
  BY <1>1, <1>7, <1>8 DEF CommitsFrom, DerivedBounded, Old
<1>13. ASSUME NEW t \in Thread, NEW q \in Repo, Now(t)' = q
       PROVE  th'[t].chunks <= Bound(q)' /\ th'[t].held.commit <= Bound(q)'
  <2>1. /\ th'[t].chunks \in {0, Content(q)} \/ (Now(t) = q /\ th'[t].chunks = th[t].chunks)
        /\ \/ th'[t].held.commit \in {0, status[Admin][q].commit}
           \/ Now(t) = q /\ th'[t].held.commit = th[t].held.commit
    BY <1>1, <1>13 DEF CommitsFrom
  <2>2. /\ status[Admin][q].commit <= Bound(q)
        /\ Now(t) = q => th[t].chunks <= Bound(q) /\ th[t].held.commit <= Bound(q)
    BY DEF DerivedBounded
  <2> QED
    BY <1>3, <1>7, <1>8, <2>1, <2>2 DEF Old
<1>14. \A t \in Thread : Now(t)' \in Repo =>
          /\ th'[t].chunks <= Bound(Now(t))' /\ th'[t].held.commit <= Bound(Now(t))'
  BY <1>13 DEF Bound, Usable
<1> QED
  BY <1>9, <1>10, <1>11, <1>12, <1>14 DEF DerivedBounded

-----------------------------------------------------------------------------
(* Settled statuses.                                                       *)

InProgress == {"syncing", "indexing"}
Works(t, r) == t \in Handler /\ Now(t) = r /\ th[t].live /\ th[t].pc \in AtWork

\* A status says that a call is in progress because a call of the Admin that is past its
\* beginning said so; or because the Admin started with it, and then whatever call is about
\* to save the status of this repository has read just that.
Progress(r) ==
    \/ \E t \in Handler : Works(t, r)
    \/ /\ status[Admin][r] = stored[r]
       /\ \A t \in Handler : Now(t) = r => /\ th[t].pc \notin {"add", "drop"}
                                           /\ th[t].pc = "upsert" => th[t].held = stored[r]
Settled == \A r \in Repo : status[Admin][r].state \in InProgress => Progress(r)

LEMMA SettledOK ==
    ASSUME Typed, Settled, [Next]_vars
    PROVE  Settled'
<1> USE TypeParts, Setting
<1>0. /\ TypeOK /\ Shape /\ LiveRegistered
      /\ th \in [Thread -> Frame] /\ stored \in [Repo -> Said] /\ status \in [Service -> [Repo -> Said]]
      /\ \A t \in Thread : FrameShape(t, th[t])
      /\ \A t \in Handler : th[t].live \in BOOLEAN
  BY DEF Typed, Frames, Statuses, Shape, Frame
<1>i. \A j : Idle(j).repo = NoRepo
  BY DEF Idle
\* The statuses of the Admin and the document stay, and no handler leaves its work or
\* gets to one of the statements that save.
<1>1. ASSUME \A r \in Repo : status'[Admin][r] = status[Admin][r], stored' = stored,
             \A t \in Handler :
                \/ th'[t] = th[t]
                \/ Now(t)' \notin Repo /\ th[t].pc \notin AtWork
                \/ /\ th'[t].live = th[t].live /\ Now(t)' = Now(t)
                   /\ th'[t].pc \notin {"add", "drop", "upsert"}
                   /\ th[t].pc \in AtWork => th'[t].pc \in AtWork
                \/ th[t].pc \notin AtWork /\ th'[t].pc \notin {"add", "drop", "upsert"}
                \/ ~th[t].live /\ th'[t].pc \notin {"add", "drop", "upsert"}
      PROVE  Settled'
  <2>1. \A t \in Handler, r \in Repo : Works(t, r) => Works(t, r)'
    BY <1>1 DEF Works, Now
  <2>2. \A t \in Handler, r \in Repo : Now(t)' = r /\ th'[t].pc \in {"add", "drop", "upsert"} =>
            th'[t] = th[t] /\ Now(t) = r
    BY <1>1 DEF Now
  <2> QED
    BY <1>1, <2>1, <2>2 DEF Settled, Progress
\* A step of one handler that sets the status of its repository to something final.
<1>2. ASSUME NEW t \in Handler, NEW q \in Repo, stored' = stored,
             \A u \in Thread : u # t => th'[u] = th[u],
             \A r \in Repo : r # q => status'[Admin][r] = status[Admin][r],
             status'[Admin][q].state \notin InProgress,
             Now(t) = q, Now(t)' = q, th'[t].pc \notin {"add", "drop", "upsert"}
      PROVE  Settled'
  <2>1. \A u \in Handler, r \in Repo : r # q /\ Works(u, r) => Works(u, r)'
    BY <1>2 DEF Works, Now
  <2>2. \A u \in Handler, r \in Repo : r # q /\ Now(u)' = r => th'[u] = th[u] /\ Now(u) = r
    BY <1>2 DEF Now
  <2> QED
    BY <1>2, <2>1, <2>2 DEF Settled, Progress
\* One that sets it to something else, and works on.
<1>3. ASSUME NEW t \in Handler, NEW q \in Repo, stored' = stored,
             \A u \in Thread : u # t => th'[u] = th[u],
             \A r \in Repo : r # q => status'[Admin][r] = status[Admin][r],
             Now(t) = q, Works(t, q)'
      PROVE  Settled'
  <2>1. \A u \in Handler, r \in Repo : r # q /\ Works(u, r) => Works(u, r)'
    BY <1>3 DEF Works, Now
  <2>2. \A u \in Handler, r \in Repo : r # q /\ Now(u)' = r => th'[u] = th[u] /\ Now(u) = r
    BY <1>3 DEF Works, Now
  <2> QED
    BY <1>3, <2>1, <2>2 DEF Settled, Progress
\* A step that a handler takes without touching a status.
<1>4. ASSUME NEW t \in Handler, NEW p \in Pc, Goto(t, p), UNCHANGED <<status, stored>>,
             p \notin {"add", "drop", "upsert"},
             p \in AtWork \/ th[t].pc \notin AtWork \/ ~th[t].live
      PROVE  Settled'
  <2>1. /\ \A u \in Thread : u # t => th'[u] = th[u]
        /\ th'[t].pc = p /\ th'[t].live = th[t].live /\ Now(t)' = Now(t)
    BY <1>0, <1>4 DEF Goto, Frame, Now
  <2> QED
    BY <1>1, <1>4, <2>1
<1>5. ASSUME NEW t \in Handler, NEW x \in RepoSyncState, NEW p \in Pc, Goto(t, p), SetState(t, x),
             stored' = stored, th[t].pc \in InSync \ {"begin"}, p \notin {"add", "drop", "upsert"},
             x \notin InProgress \/ p \in AtWork, p \in AtWork \/ p = "get"
      PROVE  Settled'
  <2>1. /\ \A u \in Thread : u # t => th'[u] = th[u]
        /\ th'[t].pc = p /\ th'[t].live = th[t].live /\ Now(t)' = Now(t)
    BY <1>0, <1>5 DEF Goto, Frame, Now
  <2>2. Now(t) \in Repo
    BY <1>0, <1>5 DEF FrameShape, InSync, Now
  <2>3. CASE ~th[t].live
    <3>1. status' = status
      BY <1>5, <2>3 DEF SetState
    <3> QED
      BY <1>4, <1>5, <2>3, <3>1
  <2>4. CASE th[t].live
    <3>1. /\ status'[Admin][Now(t)].state = x
          /\ \A r \in Repo : r # Now(t) => status'[Admin][r] = status[Admin][r]
      BY <1>0, <1>5, <2>2, <2>4, SetStateOK
    <3>2. p \in AtWork => Works(t, Now(t))'
      BY <2>1, <2>2, <2>4 DEF Works
    <3> QED
      BY <1>2, <1>3, <1>5, <2>1, <2>2, <3>1, <3>2
  <2> QED
    BY <1>0, <2>3, <2>4
<1>6. ASSUME NEW t \in Handler, Fail(t), stored' = stored, th[t].pc \in InSync \ {"begin"}
      PROVE  Settled'
  <2>1. Returned(t) = "get" /\ "get" \in Pc
    BY Statements DEF Returned, Statement
  <2>2. "failed" \in RepoSyncState /\ "failed" \notin InProgress
    BY DEF RepoSyncState, InProgress
  <2> QED
    BY <1>5, <1>6, <2>1, <2>2 DEF Fail
<1>w. \A p \in {"clone", "cloning", "fetch", "reset", "hash", "scan", "zoekt", "wipe", "put", "graph",
                "finish"} : p \in AtWork /\ p \in Pc
  BY Statements DEF AtWork, InSync, Statement
<1>7. ASSUME NEW t \in Scheduler, Step(t) PROVE Settled'
  <2>1. \A u \in Handler : th'[u] = th[u]
    BY <1>7, <1>0 DEF Step, SyncStep, JobStep, HandlerStep, OpenJob, NextRepo, EndJob, Check,
       CheckFetch, Compare, Begin, Start, Clone, EndClone, Fetch, Reset, Hash, Scan, IndexZoekt, Wipe,
       Put, Analyze, Finish, Add, Get, Upsert, Drop, Goto, Fail
  <2>2. stored' = stored
    <3>1. ~HandlerStep(t)
      BY <1>7, <1>0 DEF HandlerStep, Add, Get, Upsert, Drop, At, FrameShape
    <3> QED
      BY <1>7, <3>1 DEF Step, SyncStep, JobStep, OpenJob, NextRepo, EndJob, Check, CheckFetch, Compare,
         Begin, Start, Clone, EndClone, Fetch, Reset, Hash, Scan, IndexZoekt, Wipe, Put, Analyze,
         Finish
  <2>3. \A r \in Repo : status'[Admin][r] = status[Admin][r]
    <3>1. \A x : SetState(t, x) => \A r \in Repo : status'[Admin][r] = status[Admin][r]
      BY <1>0 DEF SetState
    <3>2. \A v : status' = [status EXCEPT ![ServiceOf(t)][Now(t)] = v]
                    => \A r \in Repo : status'[Admin][r] = status[Admin][r]
      BY <1>0
    <3>3. Fail(t) => \E x : SetState(t, x)
      BY DEF Fail
    <3>4. \/ status' = status \/ \E x : SetState(t, x)
          \/ \E v : status' = [status EXCEPT ![ServiceOf(t)][Now(t)] = v]
          \/ status' = [status EXCEPT ![t] = stored]
      <4>1. ASSUME SyncStep(t)
            PROVE  \/ status' = status \/ \E x : SetState(t, x)
                   \/ \E v : status' = [status EXCEPT ![ServiceOf(t)][Now(t)] = v]
        BY <4>1, <3>3 DEF SyncStep, Begin, Start, Clone, EndClone, Fetch, Reset, Hash, Scan,
                          IndexZoekt, Wipe, Put, Analyze, Finish
      <4>2. ASSUME JobStep(t) \/ HandlerStep(t)
            PROVE  status' = status \/ status' = [status EXCEPT ![t] = stored]
        BY <4>2 DEF JobStep, HandlerStep, OpenJob, NextRepo, EndJob, Check, CheckFetch, Compare, Add,
                    Get, Upsert, Drop
      <4> QED
        BY <1>7, <4>1, <4>2 DEF Step
    <3> QED
      BY <1>0, <3>1, <3>2, <3>4
  <2> QED
    BY <1>1, <2>1, <2>2, <2>3
<1>8. ASSUME NEW t \in Handler, JobStep(t) PROVE Settled'
  BY <1>8, <1>0 DEF JobStep, OpenJob, NextRepo, EndJob, Check, CheckFetch, Compare, At, FrameShape
<1>9. ASSUME NEW t \in Handler, Begin(t) PROVE Settled'
  <2>1. /\ \A u \in Thread : u # t => th'[u] = th[u]
        /\ UNCHANGED <<status, stored>> /\ th[t].pc = "begin"
    BY <1>9, <1>0 DEF Begin, Goto, At
  <2>2. th'[t].pc \in {"start", "get", "idle"}
    BY <1>9, <1>0 DEF Begin, Goto, Returned, Frame, Idle
  <2> QED
    BY <1>1, <2>1, <2>2 DEF AtWork, InSync
<1>10. ASSUME NEW t \in Handler, Start(t) PROVE Settled'
  <2>1. th[t].pc = "start" /\ stored' = stored /\ th[t].pc \notin AtWork
        /\ th[t].pc \in InSync \ {"begin"}
    BY <1>10 DEF Start, At, AtWork, InSync
  <2>2. \/ Goto(t, "get") /\ UNCHANGED status
        \/ \E p \in {"hash", "fetch", "clone"} : Goto(t, p) /\ SetState(t, "syncing")
    BY <1>10 DEF Start, Returned
  <2>3. "syncing" \in RepoSyncState /\ "get" \in Pc
    BY Statements DEF RepoSyncState, Statement
  <2> QED
    BY <1>4, <1>5, <1>w, <2>1, <2>2, <2>3 DEF InSync
<1>11. ASSUME NEW t \in Handler, Clone(t) \/ EndClone(t) \/ Fetch(t) \/ Reset(t) PROVE Settled'
  <2>1. th[t].pc \in InSync \ {"begin"} /\ stored' = stored
    BY <1>11 DEF Clone, EndClone, Fetch, Reset, At, InSync
  <2>2. Fail(t) \/ (UNCHANGED status /\ \E p \in {"cloning", "hash", "reset"} : Goto(t, p))
    BY <1>11 DEF Clone, EndClone, Fetch, Reset
  <2> QED
    BY <1>4, <1>6, <1>w, <2>1, <2>2 DEF InSync
<1>12. ASSUME NEW t \in Handler, Hash(t) PROVE Settled'
  <2>1. /\ th[t].pc = "hash" /\ th[t].pc \in InSync \ {"begin"} /\ stored' = stored
        /\ Now(t) \in Repo
    BY <1>12, <1>0 DEF Hash, At, InSync, FrameShape, Now
  <2>2. CASE Fail(t)
    BY <1>6, <2>1, <2>2
  <2>3. CASE ~Fail(t)
    <3>1. /\ Usable(Now(t)) /\ Goto(t, IF th[t].index THEN "scan" ELSE "get")
          /\ status' = IF th[t].live THEN [status EXCEPT ![Admin][Now(t)] = Synced(t)] ELSE status
      BY <1>12, <2>3 DEF Hash, Returned
    <3>2. /\ \A u \in Thread : u # t => th'[u] = th[u]
          /\ th'[t].pc = (IF th[t].index THEN "scan" ELSE "get")
          /\ th'[t].live = th[t].live /\ Now(t)' = Now(t)
      BY <1>0, <3>1 DEF Goto, Frame, Now
    <3>3. Synced(t).state = IF th[t].index THEN "indexing" ELSE "completed"
      BY <1>0, <2>1, <3>1, SyncedOK
    <3>4. CASE ~th[t].live
      BY <1>1, <2>1, <3>1, <3>2, <3>4
    <3>5. CASE th[t].live
      <4>1. /\ status'[Admin][Now(t)] = Synced(t)
            /\ \A r \in Repo : r # Now(t) => status'[Admin][r] = status[Admin][r]
        BY <1>0, <2>1, <3>1, <3>5
      <4>2. CASE th[t].index
        <5>1. Works(t, Now(t))'
          BY <1>w, <3>2, <3>5, <4>2 DEF Works
        <5> QED
          BY <1>3, <2>1, <3>2, <4>1, <5>1
      <4>3. CASE ~th[t].index
        BY <1>2, <2>1, <3>2, <3>3, <4>1, <4>3 DEF InProgress
      <4> QED
        BY <4>2, <4>3
    <3> QED
      BY <1>0, <3>4, <3>5
  <2> QED
    BY <2>2, <2>3
<1>13. ASSUME NEW t \in Handler, Scan(t) \/ IndexZoekt(t) \/ Wipe(t) \/ Put(t) \/ Analyze(t)
       PROVE  Settled'
  <2>1. \A u \in Thread : u # t => th'[u] = th[u]
    BY <1>13, <1>0 DEF Scan, IndexZoekt, Wipe, Put, Analyze, Goto
  <2>2. th'[t].live = th[t].live /\ Now(t)' = Now(t)
    BY <1>13, <1>0 DEF Scan, IndexZoekt, Wipe, Put, Analyze, Goto, Frame, Now
  <2>3. th'[t].pc \in {"zoekt", "wipe", "put", "graph", "finish"}
    BY <1>13, <1>0 DEF Scan, IndexZoekt, Wipe, Put, Analyze, Goto, Frame
  <2>4. UNCHANGED <<status, stored>>
    BY <1>13 DEF Scan, IndexZoekt, Wipe, Put, Analyze
  <2> QED
    BY <1>1, <1>w, <2>1, <2>2, <2>3, <2>4
<1>14. ASSUME NEW t \in Handler, Finish(t) PROVE Settled'
  <2>1. /\ th[t].pc \in InSync \ {"begin"} /\ stored' = stored
        /\ Verdict(t) \in RepoSyncState /\ Verdict(t) \notin InProgress
        /\ SetState(t, Verdict(t)) /\ Goto(t, "get") /\ "get" \in Pc
    BY <1>14, Statements DEF Finish, At, InSync, Verdict, RepoSyncState, InProgress, Returned, Statement
  <2> QED
    BY <1>5, <2>1
<1>15. ASSUME NEW t \in Handler, Add(t) \/ Drop(t) PROVE Settled'
  <2>1. /\ \A u \in Thread : u # t => th'[u] = th[u]
        /\ status' = status /\ th[t].pc \in {"add", "drop"}
        /\ \A r \in Repo : r # Now(t) => stored'[r] = stored[r]
    BY <1>15, <1>0 DEF Add, Drop, At
  <2>2. th'[t].pc \in {"begin", "idle"}
    BY <1>15, <1>0 DEF Add, Drop, Frame, Idle
  <2>3. \A u \in Handler, r \in Repo : Works(u, r) => Works(u, r)'
    BY <2>1 DEF Works, AtWork, InSync, Now
  <2>4. \A r \in Repo : status[Admin][r].state \in InProgress /\ Now(t) = r
            => \E u \in Handler : Works(u, r)
    BY <2>1 DEF Settled, Progress
  <2> QED
    BY <2>1, <2>2, <2>3, <2>4 DEF Settled, Progress, Now
<1>16. ASSUME NEW t \in Handler, Upsert(t) PROVE Settled'
  <2>1. /\ \A u \in Thread : u # t => th'[u] = th[u]
        /\ status' = status /\ th[t].pc = "upsert"
        /\ stored' = [stored EXCEPT ![Now(t)] = th[t].held]
        /\ Now(t)' = NoRepo
    BY <1>16, <1>0, <1>i DEF Upsert, At, Now
  <2>2. \A u \in Handler, r \in Repo : Works(u, r) => Works(u, r)'
    BY <2>1 DEF Works, AtWork, InSync, Now
  <2>3. \A r \in Repo : Now(t) # r \/ th[t].held = stored[r] => stored'[r] = stored[r]
    BY <2>1, <1>0
  <2> QED
    BY <2>1, <2>2, <2>3 DEF Settled, Progress, Now
<1>17. ASSUME NEW t \in Handler, Get(t) PROVE Settled'
  <2>1. /\ \A u \in Thread : u # t => th'[u] = th[u]
        /\ UNCHANGED <<status, stored>> /\ th[t].pc = "get"
    BY <1>17, <1>0 DEF Get, At
  <2>2. \/ Now(t)' = NoRepo
        \/ Now(t)' = Now(t) /\ th'[t].pc = "upsert" /\ th'[t].held = status[Admin][Now(t)]
    BY <1>17, <1>0, <1>i DEF Get, Frame, Now
  <2>3. \A u \in Handler, r \in Repo : Works(u, r) => Works(u, r)'
    BY <2>1 DEF Works, AtWork, InSync, Now
  <2> QED
    BY <2>1, <2>2, <2>3 DEF Settled, Progress, Now
<1>18. ASSUME NEW t \in Handler, NEW q \in Repo, RegisterRepo(t, q) \/ UnregisterRepo(t, q)
       PROVE  Settled'
  <2>1. /\ stored' = stored
        /\ \E v \in {Pending, Unregistered} : status' = [status EXCEPT ![Admin][q] = v]
        /\ th[t].pc = "idle"
    BY <1>18 DEF RegisterRepo, UnregisterRepo, Request, At
  <2>2. /\ th'[t].repo = q
        /\ \A u \in Thread : u # t =>
               /\ th'[u].pc = th[u].pc /\ th'[u].repo = th[u].repo /\ th'[u].held = th[u].held
               /\ th'[u].live = (th[u].live /\ ~(u \in Handler /\ th[u].repo = q))
    BY <1>0, <1>18, RegisteredFrames
  <2>3. /\ status'[Admin][q].state \notin InProgress
        /\ \A r \in Repo : r # q => status'[Admin][r] = status[Admin][r]
    BY <1>0, <2>1 DEF Pending, Unregistered, InProgress
  <2>4. \A u \in Handler, r \in Repo : r # q /\ Works(u, r) => Works(u, r)'
    BY <2>1, <2>2 DEF Works, AtWork, InSync, Now
  <2> QED
    BY <2>1, <2>2, <2>3, <2>4 DEF Settled, Progress, Now
<1>19. ASSUME NEW t \in Handler, NEW q \in Repo, SyncRepo(t, q) PROVE Settled'
  <2>1. /\ \A u \in Thread : u # t => th'[u] = th[u]
        /\ UNCHANGED <<status, stored>> /\ th[t].pc = "idle" /\ th'[t].pc = "begin"
    BY <1>19, <1>0 DEF SyncRepo, Request, At, Frame
  <2> QED
    BY <1>1, <2>1 DEF AtWork, InSync
<1>20. ASSUME NEW s \in Service, Crash(s) PROVE Settled'
  <2>1. /\ status' = [status EXCEPT ![s] = stored] /\ stored' = stored
        /\ \A u \in Thread : th'[u] = IF ServiceOf(u) = s THEN Idle(th[u].job) ELSE th[u]
    BY <1>20 DEF Crash
  <2>2. CASE s = Admin
    <3>1. \A u \in Handler : Now(u)' = NoRepo
      BY <1>i, <2>1, <2>2 DEF Now
    <3> QED
      BY <1>0, <2>1, <2>2, <3>1 DEF Settled, Progress
  <2>3. CASE s # Admin
    BY <1>0, <1>1, <2>1, <2>3
  <2> QED
    BY <2>2, <2>3
<1>21. ASSUME (\E r \in Repo : Advance(r) \/ Rename(r)) \/ UNCHANGED vars PROVE Settled'
  <2>1. UNCHANGED <<th, stored, status>>
    BY <1>21 DEF Advance, Rename, vars
  <2> QED
    BY <1>1, <2>1
<1> QED
  BY <1>7, <1>8, <1>9, <1>10, <1>11, <1>12, <1>13, <1>14, <1>15, <1>16, <1>17, <1>18, <1>19, <1>20,
     <1>21 DEF Next, Step, SyncStep, HandlerStep

-----------------------------------------------------------------------------
(* The invariant.                                                          *)

IInv == Typed /\ TreesOrdered /\ DerivedBounded /\ Settled

LEMMA Starts == Init => IInv
<1> SUFFICES ASSUME Init PROVE IInv
  OBVIOUS
<1> USE Setting
<1>1. Typed
  BY TypedInit
<1>2. \A r \in Repo : Usable(r) => checkout[r] = WorkTree(1, 0, 1)
  <2>1. Absent.kind # "tree"
    BY DEF Absent, Dir
  <2> QED
    BY <2>1 DEF Init, Usable
<1>3. WorkTree(1, 0, 1).commit = 1 /\ WorkTree(1, 0, 1).origin = 1
  BY DEF WorkTree, Dir
<1>4. TreesOrdered
  BY <1>2, <1>3 DEF Init, TreesOrdered
<1>5. \A r \in Repo : Bound(r) = 1
  BY <1>2, <1>3 DEF Init, Bound
<1>6. Pending.commit = 0 /\ Unregistered.commit = 0
      /\ Pending.state \notin InProgress /\ Unregistered.state \notin InProgress
  BY DEF Pending, Unregistered, InProgress
<1>7. \A r \in Repo : /\ stored[r] \in {Pending, Unregistered}
                      /\ \A s \in Service : status[s][r] = stored[r]
  BY DEF Init
<1>8. \A t \in Thread : Now(t) = NoRepo
  BY DEF Init, Now, Idle
<1>9. DerivedBounded
  BY <1>5, <1>6, <1>7, <1>8 DEF DerivedBounded, Init
<1>10. Settled
  BY <1>6, <1>7 DEF Settled
<1> QED
  BY <1>1, <1>4, <1>9, <1>10 DEF IInv

LEMMA Goes == IInv /\ [Next]_vars => IInv'
BY TypedStep, Forward, DerivedStep, SettledOK DEF IInv

\* Although nothing locks a checkout, no index, status or document is ever ahead of it, and
\* the Admin never goes on saying that a call is in progress which has ended: for any number
\* of schedulers, handlers, repositories, commits, failures and crashes.
THEOREM IndexesAreHonest == Spec => []IndexesHonest
<1>1. ASSUME IInv PROVE IndexesHonest
  <2>1. ASSUME NEW r \in Repo, Usable(r), NEW c \in Derived(r)
        PROVE  c <= checkout[r].commit
    <3>1. Bound(r) = checkout[r].commit
      BY <2>1 DEF Bound
    <3>2. \A t \in Thread : Now(t) = r => th[t].chunks <= Bound(r) /\ th[t].held.commit <= Bound(r)
      BY <1>1 DEF IInv, DerivedBounded
    <3> QED
      BY <1>1, <2>1, <3>1, <3>2 DEF IInv, DerivedBounded, Derived
  <2>2. NothingAheadOfCheckout
    BY <1>1, <2>1 DEF NothingAheadOfCheckout, IInv, TreesOrdered
  <2>3. SettledStatus
    BY <1>1 DEF SettledStatus, IInv, Settled, Progress, InProgress, Works, AtWork
  <2> QED
    BY <2>2, <2>3 DEF IndexesHonest
<1> QED
  BY <1>1, Starts, Goes, PTL DEF Spec

-----------------------------------------------------------------------------
(* The checkouts implement the mirror.                                     *)

Copies == [r \in Repo |-> Copy(r)]

LEMMA MirrorInit == Init => Remote!Init
<1> SUFFICES ASSUME Init PROVE Remote!Init
  OBVIOUS
<1>1. WorkTree(1, 0, 1).commit = 1
  BY DEF WorkTree, Dir
<1>2. Absent.kind # "tree"
  BY DEF Absent, Dir
<1>3. \A r \in Repo : Copy(r) \in {0, 1}
  BY <1>1, <1>2 DEF Init, Copy, Usable
<1> QED
  BY <1>3 DEF Init, Remote!Init

\* A step that leaves every checkout and every remote alone stutters; one that changes a
\* single copy loses it or moves it forward.
LEMMA MirrorUpdate ==
    ASSUME IInv, head' = head, NEW q \in Repo, Edited(q)
    PROVE  [Remote!Next]_<<head, Copies>>
<1> USE Setting
<1>0. /\ TypeOK
      /\ \A r \in Repo : head[r] \in Nat /\ head[r] > 0
      /\ Usable(q) => /\ checkout[q].commit \in Nat /\ checkout[q].commit > 0
                      /\ checkout[q].origin \in Nat
                      /\ checkout[q].commit <= checkout[q].origin /\ checkout[q].origin <= head[q]
  BY TypeParts, Directories DEF IInv, Typed, TreesOrdered, Bases, Usable
<1>1. \A r \in Repo : r # q => Copy(r)' = Copy(r)
  <2>1. \A r \in Repo : r # q => checkout'[r] = checkout[r]
    BY <1>0, EditKinds
  <2> QED
    BY <2>1 DEF Copy, Usable
<1>2. ASSUME NEW c, Copy(q)' = c PROVE Copies' = [Copies EXCEPT ![q] = c]
  BY <1>1, <1>2 DEF Copies
<1>3. CASE checkout' = checkout
  <2>1. \A r \in Repo : Copy(r)' = Copy(r)
    BY <1>3 DEF Copy, Usable
  <2> QED
    BY <2>1 DEF Copies
<1>4. CASE ~Usable(q)'
  <2>1. Copies' = [Copies EXCEPT ![q] = 0]
    BY <1>2, <1>4 DEF Copy
  <2> QED
    BY <2>1 DEF Copies, Remote!Next, Remote!Lose
<1>5. CASE /\ Usable(q)'
           /\ \/ /\ Usable(q) /\ checkout'[q].commit = checkout[q].commit
              \/ /\ Usable(q) /\ checkout'[q].commit = checkout[q].origin
              \/ ~Usable(q) /\ checkout'[q].commit = head[q]
  <2> DEFINE c == checkout'[q].commit
  <2>1. Copies' = [Copies EXCEPT ![q] = c]
    BY <1>2, <1>5 DEF Copy
  <2>2. c \in Copy(q) .. head[q] /\ c > 0
    BY <1>0, <1>5 DEF Copy
  <2>3. Copies[q] = Copy(q)
    BY DEF Copies
  <2>4. Remote!Update(q)
    BY <2>1, <2>2, <2>3 DEF Copies, Remote!Update
  <2> QED
    BY <2>4 DEF Remote!Next
<1> QED
  BY <1>0, <1>3, <1>4, <1>5, EditKinds

LEMMA MirrorStep == IInv /\ [Next]_vars => [Remote!Next]_<<head, Copies>>
<1> SUFFICES ASSUME IInv, [Next]_vars PROVE [Remote!Next]_<<head, Copies>>
  OBVIOUS
<1> USE Setting
<1>0. TypeOK /\ Shape /\ head \in [Repo -> Commit] /\ checkout \in [Repo -> Directory]
  BY TypeParts DEF IInv, Typed, Bases
<1>1. ASSUME UNCHANGED <<head, checkout>> PROVE [Remote!Next]_<<head, Copies>>
  <2>1. \A r \in Repo : Copy(r)' = Copy(r)
    BY <1>1 DEF Copy, Usable
  <2> QED
    BY <1>1, <2>1 DEF Copies
<1>2. ASSUME NEW t \in Thread, Step(t) PROVE [Remote!Next]_<<head, Copies>>
  BY <1>0, <1>1, <1>2, StepEdits, MirrorUpdate
<1>3. ASSUME NEW q \in Repo, Advance(q) PROVE [Remote!Next]_<<head, Copies>>
  <2>1. head' = [head EXCEPT ![q] = @ + 1]
    BY <1>3 DEF Advance
  <2>2. CASE q \notin imported
    <3>1. checkout' = checkout
      BY <1>3, <2>2 DEF Advance
    <3>2. \A r \in Repo : Copy(r)' = Copy(r)
      BY <3>1 DEF Copy, Usable
    <3>3. Remote!Grow(q)
      BY <2>1, <3>2 DEF Remote!Grow
    <3> QED
      BY <3>3 DEF Remote!Next
  <2>3. CASE q \in imported
    <3>1. /\ Usable(q)
          /\ checkout' = [checkout EXCEPT ![q] = WorkTree(head[q] + 1, 0, head[q] + 1)]
      BY <1>3, <2>3 DEF Advance
    <3>2. /\ WorkTree(head[q] + 1, 0, head[q] + 1).kind = "tree"
          /\ WorkTree(head[q] + 1, 0, head[q] + 1).commit = head[q] + 1
      BY DEF WorkTree, Dir
    <3>3. Copy(q) = head[q] /\ Copy(q)' = head[q] + 1
      BY <1>0, <2>3, <3>1, <3>2 DEF IInv, TreesOrdered, Copy, Usable
    <3>4. \A r \in Repo : r # q => Copy(r)' = Copy(r)
      BY <1>0, <3>1 DEF Copy, Usable
    <3>5. Copies[q] = head[q] /\ Copies' = [Copies EXCEPT ![q] = @ + 1]
      BY <3>3, <3>4 DEF Copies
    <3>6. Remote!Commit(q)
      BY <2>1, <3>5 DEF Copies, Remote!Commit
    <3> QED
      BY <3>6 DEF Remote!Next
  <2> QED
    BY <2>2, <2>3
<1>4. ASSUME \/ \E t \in Handler, r \in Repo : RegisterRepo(t, r) \/ UnregisterRepo(t, r) \/ SyncRepo(t, r)
             \/ \E s \in Service : Crash(s)
             \/ \E r \in Repo : Rename(r)
             \/ UNCHANGED vars
      PROVE  [Remote!Next]_<<head, Copies>>
  <2>1. checkout' = checkout /\ head' = head
    <3>1. CASE \E t \in Handler, r \in Repo : RegisterRepo(t, r) \/ UnregisterRepo(t, r) \/ SyncRepo(t, r)
      <4>1. PICK t \in Handler, r \in Repo : RegisterRepo(t, r) \/ UnregisterRepo(t, r) \/ SyncRepo(t, r)
        BY <3>1
      <4>2. CASE RegisterRepo(t, r)
        BY <4>2, Zenon DEF RegisterRepo, env
      <4>3. CASE UnregisterRepo(t, r)
        BY <4>3, Zenon DEF UnregisterRepo, env
      <4>4. CASE SyncRepo(t, r)
        BY <4>4, Zenon DEF SyncRepo, env
      <4> QED
        BY <4>1, <4>2, <4>3, <4>4
    <3>2. CASE (\E s \in Service : Crash(s)) \/ UNCHANGED vars
      BY <3>2 DEF Crash, vars, env
    <3>3. CASE \E r \in Repo : Rename(r)
      BY <3>3 DEF Rename
    <3> QED
      BY <1>4, <3>1, <3>2, <3>3
  <2> QED
    BY <1>1, <2>1
<1> QED
  BY <1>2, <1>3, <1>4 DEF Next

\* The checkouts implement a mirror of the remotes: whatever services sync, remove and clone
\* them, a checkout only shows commits of its remote and never goes back while it is there.
THEOREM CheckoutsImplementMirror == Spec => RefinesMirror
<1>1. Copies = [r \in Repo |-> Copy(r)]
  BY DEF Copies
<1>2. IInv /\ [Next]_vars => [Remote!Next]_<<head, [r \in Repo |-> Copy(r)]>>
  BY MirrorStep DEF Copies
<1> QED
  BY <1>2, MirrorInit, Starts, Goes, PTL DEF Spec, RefinesMirror, Remote!Spec
=============================================================================
