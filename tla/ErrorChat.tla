----------------------------- MODULE ErrorChat -----------------------------
(***************************************************************************)
(* The error chat of Admin.  A submission runs the flow, is kept in the    *)
(* history with its analysis pending, and the same thread then asks the    *)
(* model in the background and writes the analysis into the history.  The  *)
(* history can be cleared meanwhile.  The file history is loaded, changed  *)
(* and saved without a lock; the SQL ones are changed row by row.          *)
(***************************************************************************)
EXTENDS Integers

CONSTANTS
    Chatter,      \* threads that serve submissions
    MaxChats,     \* submissions
    MaxFlaws      \* crashes, failed writes and changes of the configuration

ChatAssumption == MaxChats \in Nat /\ MaxFlaws \in Nat

ASSUME ChatAssumption

VARIABLES
    kind,        \* "file" or "sql"
    history,      \* submission -> its analysis in the history, or "absent"
    chat,        \* thread -> what it is doing
    chats,       \* submissions so far
    ready,       \* whether a provider of models is configured
    abandoned,   \* submissions whose analysis died with its thread
    cleared,     \* submissions that were in the history when it was cleared
    flaws

chatVars == <<kind, history, chat, chats, ready, abandoned, cleared, flaws>>

Chat == 1 .. MaxChats
Analysis == {"absent", "pending", "settled"}
EmptyHistory == [i \in Chat |-> "absent"]
IdleChat == [pc |-> "idle", id |-> 0, analysis |-> "absent", copy |-> EmptyHistory]

-----------------------------------------------------------------------------
(* Histories. *)

\* Every row of the SQL history; the whole document of the file.
ListItems(items) == {i \in Chat : items[i] # "absent"}

Appended(items, i, analysis) == [items EXCEPT ![i] = analysis]

\* Faulty: an item that is not there is put back.
Updated_Upsert(items, i) == [items EXCEPT ![i] = "settled"]

\* An item that is not there is left alone.
Updated(items, i) == IF i \in ListItems(items) THEN [items EXCEPT ![i] = "settled"] ELSE items

Goto(t, step) == chat' = [chat EXCEPT ![t].pc = step]

-----------------------------------------------------------------------------
(* A submission. *)

\* With a provider the analysis is pending; without, it is skipped at once.
FirstAnalysis(provider) == IF provider THEN "pending" ELSE "settled"

\* The flow runs, and its case, report and evidence are read back; without them the submission
\* is refused.
SubmitErrorChat(t) ==
    /\ chat[t].pc = "idle" /\ chats < MaxChats
    /\ chats' = chats + 1
    /\ \/ chat' = [chat EXCEPT ![t] = [IdleChat EXCEPT !.pc = "append", !.id = chats + 1,
                                           !.analysis = FirstAnalysis(ready)]]
       \/ UNCHANGED chat
    /\ UNCHANGED <<kind, history, ready, abandoned, cleared, flaws>>

\* Answered: what is pending goes on in the background.
AfterAppend(t) ==
    [chat EXCEPT ![t].pc = IF chat[t].analysis = "pending" THEN "analyse" ELSE "idle"]

SqlAppend(t) ==
    /\ chat[t].pc = "append" /\ kind = "sql"
    /\ history' = Appended(history, chat[t].id, chat[t].analysis)
    /\ chat' = AfterAppend(t)
    /\ UNCHANGED <<kind, chats, ready, abandoned, cleared, flaws>>

FileLoad(t) ==
    /\ chat[t].pc \in {"append", "update"} /\ kind = "file"
    /\ chat' = [chat EXCEPT ![t].copy = history,
                            ![t].pc = IF @ = "append" THEN "save" ELSE "resave"]
    /\ UNCHANGED <<kind, history, chats, ready, abandoned, cleared, flaws>>

FileAppend(t) ==
    /\ chat[t].pc = "save"
    /\ history' = Appended(chat[t].copy, chat[t].id, chat[t].analysis)
    /\ chat' = AfterAppend(t)
    /\ UNCHANGED <<kind, chats, ready, abandoned, cleared, flaws>>

\* An analysis ends with an answer, with what went wrong, or because the provider is gone; each
\* is written down.
RunLlmAnalysis(provider) == TRUE

AnalyseInBackground(t) ==
    /\ chat[t].pc = "analyse"
    /\ IF RunLlmAnalysis(ready) THEN Goto(t, "update") ELSE Goto(t, "idle")
    /\ UNCHANGED <<kind, history, chats, ready, abandoned, cleared, flaws>>

SqlUpdate(t) ==
    /\ chat[t].pc = "update" /\ kind = "sql"
    /\ history' = Updated(history, chat[t].id)
    /\ Goto(t, "idle")
    /\ UNCHANGED <<kind, chats, ready, abandoned, cleared, flaws>>

FileUpdate(t) ==
    /\ chat[t].pc = "resave"
    /\ history' = IF chat[t].id \in ListItems(chat[t].copy) THEN Updated(chat[t].copy, chat[t].id)
                 ELSE history
    /\ Goto(t, "idle")
    /\ UNCHANGED <<kind, chats, ready, abandoned, cleared, flaws>>

ClearErrorChat ==
    /\ ListItems(history) # {}
    /\ history' = EmptyHistory
    /\ cleared' = cleared \cup ListItems(history)
    /\ UNCHANGED <<kind, chat, chats, ready, abandoned, flaws>>

-----------------------------------------------------------------------------
(* What goes wrong. *)

Flawed == flaws < MaxFlaws /\ flaws' = flaws + 1

ProviderChanges ==
    /\ Flawed /\ ready' = ~ready
    /\ UNCHANGED <<kind, history, chat, chats, abandoned, cleared>>

\* A write fails: the submission is refused, or the analysis is lost.
WriteFails(t) ==
    /\ Flawed /\ chat[t].pc \in {"append", "update"}
    /\ abandoned' = abandoned \cup {chat[t].id}
    /\ Goto(t, "idle")
    /\ UNCHANGED <<kind, history, chats, ready, cleared>>

\* Threads die; the history stays.
AdminRestarts ==
    /\ Flawed
    /\ abandoned' = abandoned \cup {chat[t].id : t \in {u \in Chatter : chat[u].pc # "idle"}}
    /\ chat' = [t \in Chatter |-> IdleChat]
    /\ UNCHANGED <<kind, history, chats, ready, cleared>>

ChatInit ==
    /\ kind \in {"file", "sql"} /\ ready \in BOOLEAN
    /\ history = EmptyHistory /\ chat = [t \in Chatter |-> IdleChat]
    /\ chats = 0 /\ abandoned = {} /\ cleared = {} /\ flaws = 0

ChatNext ==
    \/ \E t \in Chatter :
          \/ SubmitErrorChat(t) \/ SqlAppend(t) \/ FileLoad(t) \/ FileAppend(t)
          \/ AnalyseInBackground(t) \/ SqlUpdate(t) \/ FileUpdate(t) \/ WriteFails(t)
    \/ ClearErrorChat \/ ProviderChanges \/ AdminRestarts

-----------------------------------------------------------------------------
ChatSpec == ChatInit /\ [][ChatNext]_chatVars

ChatTypeOK ==
    /\ kind \in {"file", "sql"} /\ ready \in BOOLEAN
    /\ history \in [Chat -> Analysis]
    /\ chat \in [Chatter -> [pc : {"idle", "append", "save", "analyse", "update", "resave"},
                            id : 0 .. MaxChats, analysis : Analysis, copy : [Chat -> Analysis]]]
    /\ chats \in 0 .. MaxChats /\ flaws \in 0 .. MaxFlaws
    /\ abandoned \subseteq Chat /\ cleared \subseteq Chat

\* What a reader of a SQL history sees as still being analysed is: a thread is at it, unless the
\* thread died or could not write (submit_error_chat hands the pending item to the background
\* task, whose every way out writes an analysis down).
PendingBacked ==
    kind = "sql" =>
        \A i \in Chat : history[i] = "pending" =>
            \/ i \in abandoned
            \/ \E t \in Chatter : chat[t].id = i /\ chat[t].pc \in {"analyse", "update"}

\* What was cleared from a SQL history stays cleared, also when its analysis ends afterwards
\* (update looks the row up and leaves one that is gone alone).
ClearedStaysCleared ==
    kind = "sql" => \A i \in cleared : history[i] = "absent"

\* A SQL history is honest about what is being analysed and about what was cleared.
HistoryHonest == PendingBacked /\ ClearedStaysCleared

=============================================================================
