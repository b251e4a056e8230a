---------------------------- MODULE McpDiscovery ----------------------------
(***************************************************************************)
(* The file of MCP servers (rootseeker/storage/mcp_servers.py), the Admin   *)
(* handlers that edit it, and the jobs that discover the tools of a server  *)
(* in a pool of threads (apps/admin/main.py).  Tools are abstracted to the  *)
(* command they were discovered with.  A load or a save of the file is one  *)
(* step; what happens between them is not.                                  *)
(***************************************************************************)
EXTENDS Integers, Sequences, FiniteSets

CONSTANTS
    Server, Title, Command,
    Editor,     \* threads that serve Admin requests
    PoolThread, \* threads of the discovery pool (max_workers)
    MaxJobs     \* discovery jobs ever scheduled

Blank == "none"

McpDiscoveryAssumption ==
    Blank \notin Command /\ Editor \cap PoolThread = {} /\ MaxJobs \in Nat

ASSUME McpDiscoveryAssumption

VARIABLES
    rows,      \* the file: a row for each server, or none
    jobQueue,  \* servers whose discovery waits for a thread of the pool
    scheduled, \* jobs so far
    pool,      \* what each thread of the pool is doing, and the row it read
    editing,   \* what each handler is doing, and the row it read
    overlapped \* servers of which a row was saved while another actor held an older one,
               \* and which no discovery has had for itself since

discoveryVars == <<rows, jobQueue, scheduled, pool, editing, overlapped>>

-----------------------------------------------------------------------------
Status == {"discovering", "ready", "failed"}
Row == [title : Title, command : Command, tools : Command \cup {Blank},
        status : Status, error : BOOLEAN]

\* No row: the server is not in the file.
Missing == [title |-> Blank, command |-> Blank, tools |-> Blank, status |-> "missing", error |-> FALSE]
Present(s) == rows[s] # Missing

Rest == [pc |-> "idle", server |-> Blank, row |-> Missing]
Enter(thread, pc, s) == [thread EXCEPT !.pc = pc, !.server = s, !.row = rows[s]]

\* Actors other than the one that saves which hold a row of this server.
Holders(s) == {t \in PoolThread : pool[t].server = s} \cup {e \in Editor : editing[e].server = s}
Noted(s, actor) == overlapped' = IF Holders(s) \ {actor} = {} THEN overlapped ELSE overlapped \cup {s}

\* upsert_server refuses a name that another server has.
Clash(s, row) == \E t \in Server \ {s} : Present(t) /\ rows[t].title = row.title

\* _normalize_server_payload: an empty error does not replace the one that is stored.
Normalized(s, row) == [row EXCEPT !.error = @ \/ (Present(s) /\ rows[s].error)]

Upsert(s, row) == rows' = [rows EXCEPT ![s] = Normalized(s, row)]

Schedule(s) ==
    /\ scheduled < MaxJobs
    /\ scheduled' = scheduled + 1
    /\ jobQueue' = Append(jobQueue, s)

-----------------------------------------------------------------------------
(* Handlers of the Admin. *)

\* A new server gets an id of its own: the name of another server would be taken for that one.
CreateServer(e) ==
    /\ editing[e].pc = "idle"
    /\ \E s \in Server, n \in Title, c \in Command :
          LET row == [title |-> n, command |-> c, tools |-> Blank, status |-> "discovering",
                      error |-> FALSE] IN
          \E t \in IF Clash(s, row) THEN {u \in Server : Present(u) /\ rows[u].title = n} ELSE {s} :
             /\ t = s => ~Present(s)
             /\ Upsert(t, row) /\ Noted(t, e) /\ Schedule(t)
    /\ UNCHANGED <<pool, editing>>

ReadServer(e) ==
    /\ editing[e].pc = "idle"
    /\ \E s \in Server : Present(s) /\
          editing' = [editing EXCEPT ![e] = Enter(@, "read", s)]
    /\ UNCHANGED <<rows, jobQueue, scheduled, pool, overlapped>>

Leave(e) == editing' = [editing EXCEPT ![e] = Rest]

\* Faulty: the row stays ready until its discovery begins.
Edited_Kept(row, c) == [row EXCEPT !.command = c]

Edited(row, c) ==
    [row EXCEPT !.command = c, !.tools = Blank, !.status = "discovering", !.error = FALSE]

\* An edit of what the process is started with drops the tools and has them discovered again.
EditCommand(e) ==
    /\ editing[e].pc = "read"
    /\ \E c \in Command :
          LET s == editing[e].server
              row == Edited(editing[e].row, c) IN
          \/ ~Clash(s, row) /\ Upsert(s, row) /\ Noted(s, e) /\ Schedule(s)
          \/ Clash(s, row) /\ UNCHANGED <<rows, jobQueue, scheduled, overlapped>>
    /\ Leave(e) /\ UNCHANGED pool

\* Any other edit saves the row as it was read, with the new name.
Rename(e) ==
    /\ editing[e].pc = "read"
    /\ \E n \in Title :
          LET s == editing[e].server
              row == [editing[e].row EXCEPT !.title = n] IN
          \/ ~Clash(s, row) /\ Upsert(s, row) /\ Noted(s, e)
          \/ Clash(s, row) /\ UNCHANGED <<rows, overlapped>>
    /\ Leave(e) /\ UNCHANGED <<jobQueue, scheduled, pool>>

SyncTools(e) ==
    /\ editing[e].pc = "read"
    /\ LET s == editing[e].server
           row == [editing[e].row EXCEPT !.status = "discovering", !.error = FALSE] IN
       /\ ~Clash(s, row)
       /\ Upsert(s, row) /\ Noted(s, e) /\ Schedule(s)
    /\ Leave(e) /\ UNCHANGED pool

DeleteServer(e) ==
    /\ editing[e].pc = "read"
    /\ rows' = [rows EXCEPT ![editing[e].server] = Missing]
    /\ Noted(editing[e].server, e)
    /\ Leave(e) /\ UNCHANGED <<jobQueue, scheduled, pool>>

-----------------------------------------------------------------------------
(* A discovery job. *)

Step(t, pc) == pool' = [pool EXCEPT ![t].pc = pc]
Done(t) == pool' = [pool EXCEPT ![t] = Rest]

StartJob(t) ==
    /\ pool[t].pc = "idle" /\ jobQueue # <<>>
    /\ jobQueue' = Tail(jobQueue)
    /\ LET s == Head(jobQueue) IN
       IF Present(s) THEN pool' = [pool EXCEPT ![t] = Enter(@, "mark", s)] ELSE UNCHANGED pool
    /\ UNCHANGED <<rows, scheduled, editing, overlapped>>

\* The row is saved as it was read, so this may undo an edit or a deletion.
MarkDiscovering(t) ==
    /\ pool[t].pc = "mark"
    /\ LET s == pool[t].server
           row == [pool[t].row EXCEPT !.status = "discovering", !.error = FALSE] IN
       \/ ~Clash(s, row) /\ Upsert(s, row) /\ Noted(s, t) /\ Step(t, "discover")
       \/ Clash(s, row) /\ Done(t) /\ UNCHANGED <<rows, overlapped>>
    /\ UNCHANGED <<jobQueue, scheduled, editing>>

\* store.get_server(server_id) or server: the row as it is now, else the one read before.
Latest(t) == IF Present(pool[t].server) THEN rows[pool[t].server] ELSE pool[t].row

\* The tools are those of the command that was read; the rest is the row as it is now.
Discovered(t, found) ==
    IF found
    THEN [Latest(t) EXCEPT !.tools = pool[t].row.command, !.status = "ready", !.error = FALSE]
    ELSE [Latest(t) EXCEPT !.status = "failed", !.error = TRUE]

\* Nobody has saved the server since this job marked it, and nobody is about to.
Undisturbed(t) ==
    /\ Holders(pool[t].server) = {t}
    /\ [rows[pool[t].server] EXCEPT !.error = FALSE] =
          [pool[t].row EXCEPT !.status = "discovering", !.error = FALSE]

SaveDiscovery(t) ==
    /\ pool[t].pc = "discover"
    /\ \E found \in BOOLEAN :
          LET s == pool[t].server
              row == Discovered(t, found) IN
          \/ /\ ~Clash(s, row) /\ Upsert(s, row)
             /\ IF Undisturbed(t) THEN overlapped' = overlapped \ {s} ELSE Noted(s, t)
          \/ Clash(s, row) /\ UNCHANGED <<rows, overlapped>>
    /\ Done(t)
    /\ UNCHANGED <<jobQueue, scheduled, editing>>

\* The Admin stops: its jobs are lost, and nothing schedules them again.
DiscoveryRestart ==
    /\ scheduled > 0
    /\ pool' = [t \in PoolThread |-> Rest]
    /\ editing' = [e \in Editor |-> Rest]
    /\ jobQueue' = <<>>
    /\ overlapped' = overlapped \cup {s \in Server : Holders(s) # {} \/
                                        \E i \in 1 .. Len(jobQueue) : jobQueue[i] = s}
    /\ UNCHANGED <<rows, scheduled>>

-----------------------------------------------------------------------------
DiscoveryInit ==
    /\ rows = [s \in Server |-> Missing]
    /\ jobQueue = <<>> /\ scheduled = 0
    /\ pool = [t \in PoolThread |-> Rest]
    /\ editing = [e \in Editor |-> Rest]
    /\ overlapped = {}

DiscoveryNext ==
    \/ \E e \in Editor :
          \/ CreateServer(e) \/ ReadServer(e) \/ EditCommand(e) \/ Rename(e)
          \/ SyncTools(e) \/ DeleteServer(e)
    \/ \E t \in PoolThread : StartJob(t) \/ MarkDiscovering(t) \/ SaveDiscovery(t)
    \/ DiscoveryRestart

DiscoverySpec == DiscoveryInit /\ [][DiscoveryNext]_discoveryVars

-----------------------------------------------------------------------------
\* Rows, jobs and handlers have their types.
DiscoveryTypeOK ==
    /\ rows \in [Server -> Row \cup {Missing}]
    /\ jobQueue \in Seq(Server) /\ scheduled \in 0 .. MaxJobs
    /\ \A t \in PoolThread :
          /\ pool[t].pc \in {"idle", "mark", "discover"}
          /\ pool[t].pc # "idle" => pool[t].server \in Server /\ pool[t].row \in Row
    /\ \A e \in Editor : editing[e].pc \in {"idle", "read"}
    /\ overlapped \subseteq Server

\* A server that is ready has the tools of the command it is started with, unless, since the
\* last discovery that had the server for itself, an actor saved a row of it while another
\* one held an older row (main.py:667-689).  No two servers share a name.
DiscoveryHonest ==
    /\ \A s \in Server \ overlapped :
          Present(s) /\ rows[s].status = "ready" => rows[s].tools = rows[s].command
    /\ \A s, t \in Server : Present(s) /\ Present(t) /\ rows[s].title = rows[t].title => s = t

=============================================================================
