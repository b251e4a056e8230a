------------------------------- MODULE Mirror -------------------------------
(***************************************************************************)
(* What a set of mirrored repositories promises, whoever updates them and  *)
(* in whatever order: a copy only ever shows a commit of its source, never *)
(* goes back while it is there, and may be lost and made again.  The       *)
(* checkouts that rootseeker/code_index/repo_sync.py keeps are shown to    *)
(* implement it.                                                           *)
(***************************************************************************)
EXTENDS Naturals

CONSTANT Repo

VARIABLES
    source,   \* newest commit of the remote
    copy      \* commit of the copy, 0 while there is none

Init ==
    /\ source = [r \in Repo |-> 1]
    /\ copy \in [Repo -> {0, 1}]

\* The remote gets a commit; copies do not change.
Grow(r) ==
    /\ source' = [source EXCEPT ![r] = @ + 1]
    /\ UNCHANGED copy

\* A commit made in the copy itself, of a source that is nowhere else.
Commit(r) ==
    /\ copy[r] = source[r]
    /\ source' = [source EXCEPT ![r] = @ + 1]
    /\ copy' = [copy EXCEPT ![r] = @ + 1]

\* The copy is made, or moves forward, to a commit that the source has had.
Update(r) ==
    /\ \E c \in copy[r] .. source[r] : c > 0 /\ copy' = [copy EXCEPT ![r] = c]
    /\ UNCHANGED source

Lose(r) ==
    /\ copy' = [copy EXCEPT ![r] = 0]
    /\ UNCHANGED source

Next == \E r \in Repo : Grow(r) \/ Commit(r) \/ Update(r) \/ Lose(r)

Spec == Init /\ [][Next]_<<source, copy>>

=============================================================================
