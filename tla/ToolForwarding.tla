--------------------------- MODULE ToolForwarding ---------------------------
(***************************************************************************)
(* A builtin tool called in a process whose adapter is "composite" does    *)
(* its work there; in a process whose adapter is "http" it becomes a       *)
(* request to a REST route of the API, which calls the same tool by its    *)
(* own gateway.  On the way the arguments go through what the adapter      *)
(* sends, what the route takes and what the handler reads.  The API        *)
(* answers only while its event loop is free: a flow it runs itself, which *)
(* may be the very one that called the tool, keeps the loop to itself.     *)
(*                                                                         *)
(* Arguments are the names of the fields that were given.                  *)
(***************************************************************************)
EXTENDS FiniteSets

VARIABLES
    adapter,   \* internal_adapter_kind of the calling process
    own,       \* whether the API called is the calling process itself
    busy,      \* whether a flow has the API's event loop
    call,      \* the tool call in the calling process
    served     \* the request in the API

forwardingVars == <<adapter, own, busy, call, served>>

Catalog == {"catalog.resolve_service", "catalog.get_log_sources"}
ByName == {"repo.get", "repo.unregister", "repo.index_status"}
Position == {"lsp.definition", "lsp.hover"}
Tool ==
    Catalog \cup ByName \cup Position \cup
    {"log.query_by_trace_id", "log.query_by_template", "trace.get_chain",
     "code.search", "code.semantic_search", "code.read", "code.find_callers",
     "graph.impact", "graph.context", "graph.query", "graph.cypher", "graph.trace",
     "graph.list_repos", "graph.detect_changes", "index.get_status", "notify.send",
     "repo.register", "repo.sync", "repo.list", "repo.sync_all", "repo.sync_changed",
     "repo.semantic_search", "lsp.references", "lsp.symbols"}

-----------------------------------------------------------------------------
(* The tools. *)

GraphFields(tool) ==
    CASE tool = "graph.impact" -> {"symbol", "direction", "repo", "file", "uid", "kind"}
      [] tool = "graph.context" -> {"symbol", "repo", "file", "uid"}
      [] tool = "graph.query" -> {"search_query", "query", "repo"}
      [] tool = "graph.cypher" -> {"query", "repo"}
      [] tool = "graph.trace" -> {"source", "from", "target", "to", "repo"}
      [] tool = "graph.list_repos" -> {"limit", "offset"}
      [] tool = "graph.detect_changes" -> {"repo"}

RepoFields(tool) ==
    CASE tool = "repo.register" -> {"name", "url", "branch", "local_path", "metadata"}
      [] tool = "repo.sync" -> {"name", "trigger_index", "force_reclone"}
      [] tool = "repo.list" -> {"state"}
      [] tool \in ByName -> {"name"}
      [] tool = "repo.sync_all" -> {"trigger_index", "force_gitnexus"}
      [] tool = "repo.sync_changed" -> {"trigger_index"}
      [] tool = "repo.semantic_search" -> {"query", "repo_name", "limit"}

LspFields(tool) ==
    CASE tool = "lsp.references" -> {"symbol", "file_path", "root_path"}
      [] tool \in Position -> {"file_path", "line", "character", "root_path"}
      [] tool = "lsp.symbols" -> {"file_path", "root_path"}

GraphTool == {tool \in Tool : tool \in {"graph.impact", "graph.context", "graph.query",
                 "graph.cypher", "graph.trace", "graph.list_repos", "graph.detect_changes"}}
LspTool == Position \cup {"lsp.references", "lsp.symbols"}
RepoTool == ByName \cup {"repo.register", "repo.sync", "repo.list", "repo.sync_all",
                         "repo.sync_changed", "repo.semantic_search"}

\* What the tool looks at among its arguments.
Fields(tool) ==
    CASE tool \in Catalog -> {"tenant", "environment", "service_name"}
      [] tool = "log.query_by_trace_id" -> {"trace_id", "service_name"}
      [] tool = "log.query_by_template" -> {"template_id", "service_name"}
      [] tool = "trace.get_chain" -> {"trace_id"}
      [] tool = "code.search" -> {"query"}
      [] tool = "code.semantic_search" -> {"query", "repo_name", "limit"}
      [] tool = "code.read" -> {"path", "repo", "start_line", "end_line", "focus_line", "methods"}
      [] tool = "code.find_callers" ->
            {"symbol", "call_chain", "class_name", "method_name", "file_path", "line", "repo",
             "service_name", "max_depth", "limit", "prefer_graph"}
      [] tool = "index.get_status" -> {}
      [] tool = "notify.send" -> {"channel", "message", "context"}
      [] tool \in GraphTool -> GraphFields(tool)
      [] tool \in RepoTool -> RepoFields(tool)
      [] tool \in LspTool -> LspFields(tool)

\* The fields a tool cannot do without.
Required(tool) ==
    CASE tool \in Catalog -> {"tenant", "environment", "service_name"}
      [] tool \in {"log.query_by_trace_id", "trace.get_chain"} -> {"trace_id"}
      [] tool = "log.query_by_template" -> {"template_id"}
      [] tool \in {"code.search", "code.semantic_search", "repo.semantic_search",
                   "graph.cypher"} -> {"query"}
      [] tool = "code.read" -> {"path"}
      [] tool \in {"graph.impact", "graph.context", "lsp.references"} -> {"symbol"}
      [] tool = "notify.send" -> {"channel", "message"}
      [] tool \in ByName \cup {"repo.sync", "repo.register"} -> {"name"}
      [] tool \in Position -> {"file_path", "line", "character"}
      [] tool = "lsp.symbols" -> {"file_path"}
      [] OTHER -> {}

-----------------------------------------------------------------------------
(* The way of the arguments. *)

\* Faulty: a read is sent without the lines and methods it asked for.
Sent_PathOnly(tool, args) == IF tool = "code.read" THEN args \cap {"path", "repo"} ELSE args

\* What the adapter puts into its request.
Sent(tool, args) ==
    CASE tool \in {"repo.sync_all", "repo.sync_changed"} -> args \cap {"trigger_index"}
      [] tool = "repo.sync" -> args \cap {"name", "trigger_index", "force_reclone"}
      [] tool \in ByName -> args \cap {"name"}
      [] OTHER -> args

\* What the route has no field for.  List and changes are posted as a body and looked for in the
\* query, so nothing of them is found.
Unknown(tool) ==
    CASE tool = "code.find_callers" -> {"symbol"}
      [] tool = "graph.trace" -> {"from", "to"}
      [] tool = "graph.list_repos" -> {"limit", "offset"}
      [] tool = "graph.detect_changes" -> {"repo"}
      [] tool = "repo.register" -> {"local_path"}
      [] tool = "lsp.references" -> {"file_path", "root_path"}
      [] tool \in LspTool -> {"root_path"}
      [] OTHER -> {}

\* What the route fills in with a default that is not the tool's.
Defaulted(tool) == IF tool = "code.find_callers" THEN {"max_depth", "limit"} ELSE {}

\* What the route insists on.
Demanded(tool) ==
    CASE tool = "graph.trace" -> {"source", "target"}
      [] tool = "repo.register" -> {"name", "url"}
      [] OTHER -> Required(tool)

Passed(tool, args) == (args \ Unknown(tool)) \cup Defaulted(tool)

\* The tools whose arguments may be others when they arrive over HTTP; no other is expected to.
Lossy == LspTool \cup {"code.find_callers", "graph.trace", "graph.list_repos",
                       "graph.detect_changes", "repo.register", "repo.sync_all"}

\* Tools whose route turns a negative answer into an error.
ErrorOnNegative ==
    ByName \cup {"repo.register", "code.semantic_search", "repo.semantic_search"}

-----------------------------------------------------------------------------
NoCall == [pc |-> "idle", tool |-> "index.get_status", args |-> {}]
NoRequest == [pc |-> "none", args |-> {}]

InvokeTool ==
    /\ call.pc = "idle"
    /\ \E tool \in Tool : \E more \in SUBSET (Fields(tool) \ Required(tool)) :
          call' = [pc |-> "adapter", tool |-> tool, args |-> Required(tool) \cup more]
    /\ busy' = (own \/ busy)
    /\ UNCHANGED <<adapter, own, served>>

\* The composite adapter does the work here, and a negative answer is an answer.
CallComposite ==
    /\ call.pc = "adapter" /\ adapter = "composite"
    /\ \E end \in {"ok", "failed"} : call' = [call EXCEPT !.pc = end]
    /\ UNCHANGED <<adapter, own, busy, served>>

Post ==
    /\ call.pc = "adapter" /\ adapter = "http"
    /\ call' = [call EXCEPT !.pc = "waiting"]
    /\ served' = [pc |-> "received", args |-> Sent(call.tool, call.args)]
    /\ UNCHANGED <<adapter, own, busy>>

\* The route checks the request and calls its own gateway.
ServeRoute ==
    /\ served.pc = "received" /\ ~busy
    /\ LET args == Passed(call.tool, served.args)
       IN  IF Demanded(call.tool) \subseteq args
           THEN \E answer \in {"answered", "negative", "error"} :
                   served' = [args |-> args,
                       pc |-> IF answer = "negative" /\ call.tool \in ErrorOnNegative
                              THEN "error" ELSE IF answer = "negative" THEN "answered" ELSE answer]
           ELSE served' = [served EXCEPT !.pc = "refused"]
    /\ UNCHANGED <<adapter, own, busy, call>>

Response ==
    /\ call.pc = "waiting" /\ served.pc \in {"answered", "error", "refused"}
    /\ call' = [call EXCEPT !.pc = IF served.pc = "answered" THEN "ok" ELSE "failed"]
    /\ UNCHANGED <<adapter, own, busy, served>>

\* After seconds for most routes, minutes for callers and graph.  The call fails here; the API
\* goes on with the request.
Timeout ==
    /\ call.pc = "waiting"
    /\ call' = [call EXCEPT !.pc = "failed"]
    /\ UNCHANGED <<adapter, own, busy, served>>

\* The flow that called goes on to its end.
CallerEnds ==
    /\ own /\ busy /\ call.pc \in {"ok", "failed"}
    /\ busy' = FALSE
    /\ UNCHANGED <<adapter, own, call, served>>

\* Flows of others in the API.
OtherFlow ==
    /\ ~own /\ busy' = ~busy
    /\ UNCHANGED <<adapter, own, call, served>>

ForwardingInit ==
    /\ adapter \in {"composite", "http"} /\ own \in BOOLEAN /\ busy = FALSE
    /\ call = NoCall /\ served = NoRequest

ForwardingNext ==
    \/ InvokeTool \/ CallComposite \/ Post \/ ServeRoute \/ Response \/ Timeout
    \/ CallerEnds \/ OtherFlow

ForwardingSpec == ForwardingInit /\ [][ForwardingNext]_forwardingVars

-----------------------------------------------------------------------------
ForwardingTypeOK ==
    /\ adapter \in {"composite", "http"} /\ own \in BOOLEAN /\ busy \in BOOLEAN
    /\ call.pc \in {"idle", "adapter", "waiting", "ok", "failed"} /\ call.tool \in Tool
    /\ served.pc \in {"none", "received", "answered", "error", "refused"}
    /\ call.args \subseteq Fields(call.tool) /\ served.args \subseteq Fields(call.tool)

\* A tool works with the same arguments wherever it is called, but for the tools listed as lossy
\* (HttpInternalToolAdapter against the routes of the API); and the flow that calls a tool of its
\* own process by HTTP gets no answer, since it keeps the loop that would give it.
SameArguments ==
    /\ served.pc \in {"answered", "error"} /\ call.tool \notin Lossy => served.args = call.args
    /\ own /\ adapter = "http" => call.pc # "ok"

=============================================================================
