------------------------------ MODULE MCAdmin ------------------------------
(***************************************************************************)
(* The parts of the Admin side by side.  They share no variable, so their  *)
(* interleavings reach nothing that one of them alone does not reach: each *)
(* behaviour moves one part and leaves the others as they started.         *)
(***************************************************************************)
EXTENDS AdminDocument, AdminAccess, McpDiscovery, Playbooks, Notices, ErrorChat

VARIABLE part

documents == <<documentVars, accessVars>>
others == <<noticeVars, chatVars>>
MCAdminVars == <<documents, discoveryVars, playbookVars, others, part>>

MCInit ==
    /\ part \in {"document", "access", "discovery", "playbooks", "notices", "chat"}
    /\ DocumentInit /\ AccessInit /\ DiscoveryInit /\ PlaybooksInit
    /\ NoticesInit /\ ChatInit
    /\ part = "document" \/ Seeded(doc) = doc
    /\ part = "playbooks" \/ \A s \in External : disk[s] = NoPackage
    /\ part = "notices" \/ (storeKind = "file" /\ ~envTarget)
    /\ part = "chat" \/ (kind = "file" /\ ~ready)

MovesDocument ==
    /\ part = "document" /\ DocumentNext
    /\ UNCHANGED <<accessVars, discoveryVars, playbookVars, others, part>>
MovesAccess ==
    /\ part = "access" /\ AccessNext
    /\ UNCHANGED <<documentVars, discoveryVars, playbookVars, others, part>>
MovesDiscovery ==
    /\ part = "discovery" /\ DiscoveryNext
    /\ UNCHANGED <<documents, playbookVars, others, part>>
MovesPlaybooks ==
    /\ part = "playbooks" /\ PlaybooksNext
    /\ UNCHANGED <<documents, discoveryVars, others, part>>
MovesNotices ==
    /\ part = "notices" /\ NoticesNext
    /\ UNCHANGED <<documents, discoveryVars, playbookVars, chatVars, part>>
MovesChat ==
    /\ part = "chat" /\ ChatNext
    /\ UNCHANGED <<documents, discoveryVars, playbookVars, noticeVars, part>>
MCNext ==
    \/ MovesDocument \/ MovesAccess \/ MovesDiscovery \/ MovesPlaybooks
    \/ MovesNotices \/ MovesChat

MCSpec == MCInit /\ [][MCNext]_MCAdminVars

\* The state of every part has its type.
TypeOK ==
    /\ DocumentTypeOK /\ AccessTypeOK /\ DiscoveryTypeOK /\ PlaybooksTypeOK
    /\ NoticesTypeOK /\ ChatTypeOK

=============================================================================
