---------------------------- MODULE CallerLookup ----------------------------
(***************************************************************************)
(* Who calls a method: the knowledge graph of GitNexus is asked through    *)
(* its command line, candidate by candidate, first within a repository and *)
(* then in all of them; text search in Zoekt is the fallback.  The adapter *)
(* keeps the list of repositories it has once read, and repositories are   *)
(* indexed, renamed and removed meanwhile.                                 *)
(***************************************************************************)
EXTENDS Integers, Sequences, FiniteSets, SequencesExt

CONSTANTS
    Group, Service, \* a repository is called "group__tail"; a service, "tail"
    Hits,           \* what a text search may return: sequences of the set Hit
    Limit,          \* callers returned at most
    MaxChanges,     \* changes of the graph's registry
    MaxLookups

NoGroup == "none"
RepoName == [group : Group \cup {NoGroup}, tail : Service]
NoRepo == [group |-> NoGroup, tail |-> "none"]

\* A line that mentions the method: its definition, a call in a method that is known or not.
Hit == [definition : BOOLEAN, repo : {"r1", "r2"}, caller : {"callee", "runtime", "other", "unknown"},
        score : 1 .. 2]

LookupAssumption ==
    /\ Hits \subseteq Seq(Hit) /\ NoGroup \notin Group /\ "none" \notin Service
    /\ Limit \in Nat \ {0} /\ MaxChanges \in Nat /\ MaxLookups \in Nat

ASSUME LookupAssumption

VARIABLES
    registered,   \* repositories in the graph
    names,        \* the list the adapter has kept; an empty one is read again
    graph,        \* whether GitNexus can be called at all
    lookup,       \* the lookup under way
    changes, lookups

lookupVars == <<registered, names, graph, lookup, changes, lookups>>

-----------------------------------------------------------------------------
(* Names. *)

\* The name itself, else one that ends with the service's name.
MatchRepo(r, available) ==
    IF r \in available THEN r
    ELSE IF r.group = NoGroup /\ \E n \in available : n.tail = r.tail
         THEN CHOOSE n \in available : n.tail = r.tail
         ELSE r

\* Faulty: a list that was read once is good for ever.
Listed_Once(kept, now, refresh) == IF kept # {} THEN {kept} ELSE {now, {}}

\* The list that is kept unless it is empty or a fresh one is called for; listing may fail.
Listed(kept, now, refresh) == IF kept # {} /\ ~refresh THEN {kept} ELSE {now, {}}

CanonicalRepo(r, available) == IF r = NoRepo THEN NoRepo ELSE MatchRepo(r, available)

\* "Class.method" is tried as it is, then the method, then the class.
Candidates == <<"qualified", "method", "class">>
SymbolCandidates(symbol) == IF symbol = "qualified" THEN Candidates ELSE <<symbol>>

-----------------------------------------------------------------------------
(* One call of the command line, or of the service that stands for it.     *)

\* missing: it does not know the repository; usable: there are relations; named: about the
\* class asked for; callers: some can be read from it.
Answer == [ok : BOOLEAN, missing : BOOLEAN, usable : BOOLEAN, named : BOOLEAN, callers : BOOLEAN]
NoAnswer == [ok |-> FALSE, missing |-> FALSE, usable |-> FALSE, named |-> TRUE, callers |-> FALSE]
Missing == [NoAnswer EXCEPT !.missing = TRUE]
Ambiguous == [NoAnswer EXCEPT !.ok = TRUE]

\* Exit codes and exceptions all become answers that are not ok.
Parsed == {a \in Answer : a.ok /\ ~a.missing /\ (a.usable \/ (a.named /\ ~a.callers))}
RunCli == {NoAnswer} \cup Parsed
RunHttp == {NoAnswer} \cup Parsed

\* Several symbols of the name: the best of them is asked for by its id, if that goes well.
ResolveAmbiguous(a) == IF a = Ambiguous THEN {a} \cup {b \in RunCli : b.ok} ELSE {a}

Answers(repo) ==
    IF repo # NoRepo /\ repo \notin registered THEN {Missing}
    ELSE UNION {ResolveAmbiguous(a) : a \in RunCli \cup RunHttp}

\* A symbol without a class is any class's.
ResultMatches(a, symbol) == a.named \/ symbol = "method"
Convinces(a, symbol) == a.usable /\ ResultMatches(a, symbol)

-----------------------------------------------------------------------------
(* The lookup.                                                              *)

Idle == [pc |-> "idle", tool |-> "callers", asked |-> NoRepo, symbol |-> "qualified", op |-> "impact",
         start |-> NoRepo, repo |-> NoRepo, candidate |-> 1, within |-> TRUE, held |-> NoAnswer,
         answer |-> NoAnswer, steady |-> TRUE, result |-> <<>>, source |-> "none"]

\* A tool is asked: about a symbol, within a repository or in all.  What cannot ask the graph,
\* or is told not to, goes to the text search.
Ask(tool, asked, prefer) ==
    /\ lookup.pc \in {"idle", "done"} /\ lookups < MaxLookups
    /\ lookups' = lookups + 1
    /\ lookup' = [Idle EXCEPT !.tool = tool, !.asked = asked,
          !.op = IF tool = "context" THEN "context" ELSE "impact",
          !.pc = IF graph /\ prefer THEN "name"
                 ELSE IF tool = "callers" THEN "search" ELSE "done"]
    /\ UNCHANGED <<registered, names, graph, changes>>

\* impact and context start with the repository under the name the list has for it.
Name ==
    /\ lookup.pc = "name"
    /\ \E list \in Listed(names, registered, FALSE) :
          LET r == CanonicalRepo(lookup.asked, list)
          IN  /\ names' = IF lookup.asked = NoRepo THEN names ELSE list
              /\ lookup' = [lookup EXCEPT !.pc = "call", !.start = r, !.repo = r, !.candidate = 1,
                                          !.within = TRUE]
    /\ UNCHANGED <<registered, graph, changes, lookups>>

\* What a refused repository is looked up by again: context goes by the name it was asked for
\* with, impact by the one it had found.
RenewedName(list) ==
    IF lookup.op = "context" THEN CanonicalRepo(lookup.asked, list)
    ELSE CanonicalRepo(lookup.start, list)

\* With the callers: ends, or goes on with the context of the symbol, or with the next symbol.
NextSymbol(l) ==
    CASE l.symbol = "qualified" -> [l EXCEPT !.pc = "name", !.op = "impact", !.candidate = 1, !.symbol = "method"]
      [] l.symbol = "method" -> [l EXCEPT !.pc = "name", !.op = "impact", !.candidate = 1, !.symbol = "class"]
      [] OTHER -> [l EXCEPT !.pc = "search"]

CallersForSymbol(l, a) ==
    IF a.ok /\ a.callers THEN [l EXCEPT !.pc = "done", !.answer = a, !.source = "gitnexus"]
    ELSE IF a.ok /\ l.op = "impact" THEN [l EXCEPT !.pc = "name", !.op = "context", !.answer = a]
    ELSE NextSymbol([l EXCEPT !.answer = a])

Answered(l, a) ==
    IF l.tool = "callers" THEN CallersForSymbol(l, a)
    ELSE [l EXCEPT !.pc = "done", !.answer = a]

\* After the last candidate: all repositories are asked, unless they were, and their answer
\* counts only if it convinces.
EndOfPass(l, a) ==
    IF Convinces(a, l.symbol) THEN Answered(l, a)
    ELSE IF l.within /\ l.start # NoRepo
         THEN [l EXCEPT !.pc = "call", !.within = FALSE, !.held = a, !.repo = NoRepo, !.candidate = 1]
         ELSE Answered(l, IF l.within THEN a ELSE l.held)

Judged(l, a) ==
    IF ~Convinces(a, l.symbol) /\ l.candidate < Len(SymbolCandidates(l.symbol))
    THEN [l EXCEPT !.pc = "call", !.candidate = @ + 1]
    ELSE EndOfPass(l, a)

\* A call; when the repository is not known, the list is read again and a new name tried once.
Call ==
    /\ lookup.pc = "call"
    /\ \E a \in Answers(lookup.repo) :
          \/ /\ ~a.missing
             /\ lookup' = Judged(lookup, a) /\ UNCHANGED names
          \/ /\ a.missing
             /\ \E list \in Listed(names, registered, TRUE) :
                   LET r == RenewedName(list)
                       l == [lookup EXCEPT !.steady = @ /\ list # {}]
                   IN  /\ names' = list
                       /\ lookup' = IF r # lookup.repo
                                    THEN [l EXCEPT !.pc = "again", !.repo = r]
                                    ELSE Judged(l, a)
    /\ UNCHANGED <<registered, graph, changes, lookups>>

Again ==
    /\ lookup.pc = "again"
    /\ \E a \in Answers(lookup.repo) : lookup' = Judged(lookup, a)
    /\ UNCHANGED <<registered, names, graph, changes, lookups>>

-----------------------------------------------------------------------------
(* The text search. *)

\* Definitions are left out, lines whose method cannot be told, and the callee's own.
CallerFromHit(hit) == ~hit.definition /\ hit.caller \notin {"unknown", "callee"}
Signature(hit) == <<hit.repo, hit.caller>>
Distinct(hits) ==
    LET callers == SelectSeq(hits, CallerFromHit)
        Keep(kept, hit) == IF \E i \in DOMAIN kept : Signature(kept[i]) = Signature(hit)
                           THEN kept ELSE Append(kept, hit)
    IN  FoldLeft(Keep, <<>>, callers)

\* The caller the stack trace names comes first, then the higher score.
RuntimeMatch(hit) == hit.caller = "runtime"
Ahead(g, h) ==
    \/ RuntimeMatch(g) /\ ~RuntimeMatch(h)
    \/ RuntimeMatch(g) = RuntimeMatch(h) /\ g.score > h.score
Ranked(hits) == SortSeq(hits, Ahead)

StaticCallers(hits) == LET all == Ranked(Distinct(hits)) IN SubSeq(all, 1, IF Len(all) < Limit THEN Len(all) ELSE Limit)

\* Without an answer of Zoekt there are no hits.
Search ==
    /\ lookup.pc = "search"
    /\ \E hits \in Hits \cup {<<>>} :
          lookup' = [lookup EXCEPT !.pc = "done", !.source = "zoekt", !.held = NoAnswer,
                        !.result = [hits |-> hits, callers |-> StaticCallers(hits)]]
    /\ UNCHANGED <<registered, names, graph, changes, lookups>>

-----------------------------------------------------------------------------
\* Syncs index repositories, under a new name or the same, and remove them.
RegisterGraph(r) ==
    /\ changes < MaxChanges /\ r \notin registered
    /\ registered' = registered \cup {r}
    /\ changes' = changes + 1
    /\ lookup' = [lookup EXCEPT !.steady = FALSE]
    /\ UNCHANGED <<names, graph, lookups>>

RemoveGraph(r) ==
    /\ changes < MaxChanges /\ r \in registered
    /\ registered' = registered \ {r}
    /\ changes' = changes + 1
    /\ lookup' = [lookup EXCEPT !.steady = FALSE]
    /\ UNCHANGED <<names, graph, lookups>>

Grouped == {r \in RepoName : r.group # NoGroup}

LookupInit ==
    /\ registered \in SUBSET Grouped
    /\ names = {} /\ graph \in BOOLEAN
    /\ lookup = Idle /\ changes = 0 /\ lookups = 0

LookupNext ==
    \/ \E tool \in {"callers", "impact", "context"}, asked \in RepoName \cup {NoRepo}, prefer \in BOOLEAN :
          Ask(tool, asked, prefer)
    \/ Name \/ Call \/ Again \/ Search
    \/ \E r \in Grouped : RegisterGraph(r) \/ RemoveGraph(r)

LookupSpec == LookupInit /\ [][LookupNext]_lookupVars

-----------------------------------------------------------------------------
LookupTypeOK ==
    /\ registered \subseteq Grouped /\ names \subseteq Grouped /\ graph \in BOOLEAN
    /\ changes \in 0 .. MaxChanges /\ lookups \in 0 .. MaxLookups
    /\ lookup.pc \in {"idle", "name", "call", "again", "search", "done"}
    /\ lookup.tool \in {"callers", "impact", "context"} /\ lookup.op \in {"impact", "context"}
    /\ {lookup.asked, lookup.start, lookup.repo} \subseteq RepoName \cup {NoRepo}
    /\ lookup.candidate \in DOMAIN SymbolCandidates(lookup.symbol)
    /\ {lookup.held, lookup.answer} \subseteq Answer
    /\ lookup.source \in {"none", "gitnexus", "zoekt"}

\* However old the list is that the adapter keeps, a question about a symbol in a service that
\* the graph has under some name is not turned down because the repository is unknown
\* (gitnexus_adapter.py:124).
ContextFollowsRename ==
    lookup.pc = "done" /\ lookup.tool = "context" /\ lookup.steady
        /\ CanonicalRepo(lookup.asked, registered) \in registered
    => ~lookup.answer.missing

=============================================================================
