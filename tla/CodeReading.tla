---------------------------- MODULE CodeReading ----------------------------
(***************************************************************************)
(* Reading a source file for an incident: the file service of Zoekt, else  *)
(* the clone of a repository that Zoekt lists, else the file of a search   *)
(* hit.  The list is kept, and repositories are indexed, dropped and       *)
(* synced meanwhile.                                                       *)
(***************************************************************************)
EXTENDS Integers

CONSTANTS
    Repo,
    Path,
    Alike,        \* pairs of paths that agree in file name and package
    MaxMoves      \* changes of the index and of the clones

ReadingAssumption ==
    Alike \subseteq Path \X Path /\ MaxMoves \in Nat

ASSUME ReadingAssumption

VARIABLES
    configured,  \* whether an endpoint is set
    serves,      \* whether this version of Zoekt has /api/file
    indexed,     \* repositories in the index
    clone,       \* repository -> the files of its clone
    kept,        \* the list the adapter keeps: [known, repos]
    read,        \* the read under way
    moves

readingVars == <<configured, serves, indexed, clone, kept, read, moves>>

-----------------------------------------------------------------------------
(* Which file. *)

AnyRepo == "any"
NoFile == <<>>
NoList == [known |-> FALSE, repos |-> {}]
ListOf(repos) == [known |-> TRUE, repos |-> repos]

\* The list that is kept, else the server's, which may not answer.
FetchIndexList == IF kept.known THEN {kept} ELSE {ListOf(indexed), NoList}

\* In a clone: the path itself, else one that agrees with it.
ReadFromRoot(r, p) ==
    IF p \in clone[r] THEN {<<r, p>>}
    ELSE {<<r, q>> : q \in {x \in clone[r] : <<x, p>> \in Alike}}

\* Faulty: the repository that was asked for has no precedence.
ReadFromList_AnyOrder(list, p, r) == UNION {ReadFromRoot(s, p) : s \in list.repos}

\* The repository asked for comes before the others.
ReadFromList(list, p, r) ==
    IF r \in list.repos /\ ReadFromRoot(r, p) # {} THEN ReadFromRoot(r, p)
    ELSE UNION {ReadFromRoot(s, p) : s \in list.repos}

\* A search for the name finds files of the index; the ones that agree with the path go first,
\* and the one that is read may be another.
FilesOfIndex(p) == {h \in indexed \X Path : h[2] \in clone[h[1]]}
RankedHits(p, r) ==
    LET near == {h \in FilesOfIndex(p) : h[2] = p \/ <<h[2], p>> \in Alike}
    IN  IF near # {} THEN near ELSE FilesOfIndex(p)

-----------------------------------------------------------------------------
(* Reads. *)

NoRead == [pc |-> "idle", path |-> NoFile, repo |-> AnyRepo, list |-> NoList, file |-> NoFile,
           held |-> FALSE, from |-> "none"]

\* Without an endpoint the answer says so.
ReadFile(p, r) ==
    /\ read.pc \in {"idle", "done"}
    /\ read' = [NoRead EXCEPT !.pc = IF configured THEN "http" ELSE "done", !.path = p, !.repo = r,
                    !.held = r \in Repo /\ (~kept.known \/ r \in kept.repos) /\ r \in indexed
                             /\ p \in clone[r]]
    /\ UNCHANGED <<configured, serves, indexed, clone, kept, moves>>

\* Only an answer of status 200 ends the read here.
ReadHttp ==
    /\ read.pc = "http"
    /\ \/ /\ serves /\ read.repo \in indexed /\ read.path \in clone[read.repo]
          /\ read' = [read EXCEPT !.pc = "done", !.file = <<read.repo, read.path>>, !.from = "server"]
       \/ read' = [read EXCEPT !.pc = "list"]
    /\ UNCHANGED <<configured, serves, indexed, clone, kept, moves>>

Found(files, from, otherwise) ==
    \/ /\ files # {}
       /\ \E f \in files : read' = [read EXCEPT !.pc = "done", !.file = f, !.from = from]
    \/ /\ files = {}
       /\ read' = [read EXCEPT !.pc = otherwise]

ReadIndexList ==
    /\ read.pc = "list"
    /\ \E list \in FetchIndexList :
          /\ kept' = list
          /\ Found(ReadFromList(list, read.path, read.repo), "list", "search")
    /\ UNCHANGED <<configured, serves, indexed, clone, moves>>

\* The file of a hit is read through the list again; a search that fails has no hits.
ReadSearchHit ==
    /\ read.pc = "search"
    /\ \E hits \in {RankedHits(read.path, read.repo), {}}, list \in FetchIndexList :
          /\ kept' = list
          /\ Found(UNION {ReadFromList(list, h[2], h[1]) : h \in hits}, "search", "done")
    /\ UNCHANGED <<configured, serves, indexed, clone, moves>>

\* The status of the index is always asked of the server, and its list kept.
GetIndexStatus ==
    /\ read.pc \in {"idle", "done"} /\ configured
    /\ kept' \in {ListOf(indexed), kept}
    /\ UNCHANGED <<configured, serves, indexed, clone, read, moves>>

Close ==
    /\ read.pc \in {"idle", "done"}
    /\ kept' = NoList /\ configured' = FALSE
    /\ UNCHANGED <<serves, indexed, clone, read, moves>>

-----------------------------------------------------------------------------
Moved == moves < MaxMoves /\ moves' = moves + 1 /\ read' = [read EXCEPT !.held = FALSE]

IndexMoves(r) ==
    /\ Moved
    /\ indexed' = IF r \in indexed THEN indexed \ {r} ELSE indexed \cup {r}
    /\ UNCHANGED <<configured, serves, clone, kept>>

CloneMoves(r) ==
    /\ Moved
    /\ \E files \in SUBSET Path : clone' = [clone EXCEPT ![r] = files]
    /\ UNCHANGED <<configured, serves, indexed, kept>>

ReadingInit ==
    /\ configured \in BOOLEAN /\ serves \in BOOLEAN
    /\ indexed \in SUBSET Repo /\ clone \in [Repo -> SUBSET Path]
    /\ kept = NoList /\ read = NoRead /\ moves = 0

ReadingNext ==
    \/ \E p \in Path, r \in Repo \cup {AnyRepo} : ReadFile(p, r)
    \/ ReadHttp \/ ReadIndexList \/ ReadSearchHit \/ GetIndexStatus \/ Close
    \/ \E r \in Repo : IndexMoves(r) \/ CloneMoves(r)

ReadingSpec == ReadingInit /\ [][ReadingNext]_readingVars

-----------------------------------------------------------------------------
\* Index, clones and reads have their types.
ReadingTypeOK ==
    /\ indexed \subseteq Repo /\ clone \in [Repo -> SUBSET Path] /\ kept.repos \subseteq Repo
    /\ read.pc \in {"idle", "http", "list", "search", "done"}
    /\ read.from \in {"none", "server", "list", "search"}

\* A file that the repository asked for has all along, and that the list in use names, is read
\* from there and not from a namesake elsewhere (zoekt_adapter.py:476).
OwnFileFirst ==
    read.pc = "done" /\ read.held /\ read.from = "list" => read.file = <<read.repo, read.path>>

=============================================================================
