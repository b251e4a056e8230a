------------------------------ MODULE Notices ------------------------------
(***************************************************************************)
(* Notification channels and message templates, the Admin requests that    *)
(* edit them, and the dispatch of a notification to the enabled channels.  *)
(* The stores keep them in one file, in SQLite or in MySQL: a request      *)
(* reads, then writes, and others run in between.                          *)
(***************************************************************************)
EXTENDS Integers, Sequences, FiniteSets, SequencesExt

CONSTANTS
    ChannelEditor,        \* Admin requests that may overlap
    ChannelName,
    MaxChannels,   \* channels ever created: each gets an id of its own
    MaxTemplates,  \* custom templates ever created
    MaxEdits,      \* requests ever made
    MaxNotices     \* notifications ever sent

System == 0   \* id of the template that is always there
Fresh == -1   \* the id a request for something new does not name
ChannelId == 1 .. MaxChannels
TemplateId == {System} \cup 1 .. MaxTemplates
ChannelRow == [name : ChannelName, enabled : BOOLEAN, template : TemplateId]

NoticesAssumption ==
    MaxChannels \in Nat /\ MaxTemplates \in Nat /\ MaxEdits \in Nat /\ MaxNotices \in Nat

ASSUME NoticesAssumption

VARIABLES
    storeKind,   \* "file", "sqlite" or "mysql"
    envTarget,   \* whether the environment names an endpoint
    channels,    \* rows of the channel store: id -> row
    broadcast,   \* setting broadcast_enabled
    templates,   \* ids in the template store
    made,        \* how many channels, templates, edits and notices there have been
    edit,        \* what each request is doing
    notice       \* the notification under way

noticeVars == <<storeKind, envTarget, channels, broadcast, templates, made, edit, notice>>

-----------------------------------------------------------------------------
(* The stores. *)

With(f, x, y) == [z \in DOMAIN f \cup {x} |-> IF z = x THEN y ELSE f[z]]
Without(f, gone) == [z \in DOMAIN f \ gone |-> f[z]]
NamedIn(rows, name) == {c \in DOMAIN rows : rows[c].name = name}

\* REPLACE: the row, and every row it clashes with by id or by its unique name, makes place.
Replaced(rows, c, row) == With(Without(rows, NamedIn(rows, row.name)), c, row)

\* Faulty: the file store does not look for the name elsewhere.
FileRefuses_Never(rows, c, row) == FALSE

\* The file store has no constraint: it looks for the name among the rows it has loaded.
FileRefuses(rows, c, row) == NamedIn(rows, row.name) \ {c} # {}

FileUpsert(held, c, row) == channels' = With(held.channels, c, row) /\ broadcast' = held.broadcast
SqliteUpsert(c, row) == channels' = Replaced(channels, c, row) /\ UNCHANGED broadcast
MysqlUpsert(c, row) == channels' = Replaced(channels, c, row) /\ UNCHANGED broadcast

\* The id of the request, else of the row that has its name already, else a new one.
NormalizedId(held, c, row) ==
    IF c # Fresh THEN c
    ELSE IF NamedIn(held.channels, row.name) # {}
         THEN CHOOSE d \in NamedIn(held.channels, row.name) : TRUE
         ELSE made.channels + 1

FileDelete(held, c) == channels' = Without(held.channels, {c}) /\ broadcast' = held.broadcast
SqliteDelete(c) == channels' = Without(channels, {c}) /\ UNCHANGED broadcast
MysqlDelete(c) == channels' = Without(channels, {c}) /\ UNCHANGED broadcast

FileSettings(held, flag) == broadcast' = flag /\ channels' = held.channels
SqliteSettings(flag) == broadcast' = flag /\ UNCHANGED channels
MysqlSettings(flag) == broadcast' = flag /\ UNCHANGED channels

\* Templates: whoever opens the store puts the system template back if it is not there.
Ensured(ts) == ts \cup {System}
FileTemplateSaved(held, t) == templates' = Ensured(held.templates) \cup {t}
SqliteTemplateSaved(t) == templates' = Ensured(templates) \cup {t}
MysqlTemplateSaved(t) == templates' = Ensured(templates) \cup {t}
FileTemplateDeleted(held, t) == templates' = Ensured(held.templates \ {t})
SqliteTemplateDeleted(t) == templates' = Ensured(templates \ {t})
MysqlTemplateDeleted(t) == templates' = Ensured(templates \ {t})

-----------------------------------------------------------------------------
(* Requests: the handler looks the row up, the store loads, then writes. *)

Nothing == [channels |-> <<>>, broadcast |-> TRUE, templates |-> {System}]
NoEdit == [pc |-> "none", id |-> Fresh, row |-> <<>>, held |-> Nothing]
EndEdit(e) == edit' = [edit EXCEPT ![e] = NoEdit]
Tallied(field) == made' = [made EXCEPT ![field] = @ + 1]
Asks(e, pc, c, row) ==
    /\ edit[e].pc = "none" /\ made.edits < MaxEdits
    /\ edit' = [edit EXCEPT ![e] = [NoEdit EXCEPT !.pc = pc, !.id = c, !.row = row]]
    /\ Tallied("edits")
    /\ UNCHANGED <<storeKind, envTarget, channels, broadcast, templates, notice>>

\* A new channel has no id yet; a name that is taken turns the request into an update of that row.
CreateChannel(e) ==
    \E n \in ChannelName, t \in templates :
        Asks(e, "load", Fresh, [name |-> n, enabled |-> TRUE, template |-> t])

\* The handler reads the row and lays the fields of the request over it.
UpdateChannel(e) ==
    \E c \in DOMAIN channels : \E n \in ChannelName :
        Asks(e, "load", c, [channels[c] EXCEPT !.name = n])

PatchChannel(e) ==
    \E c \in DOMAIN channels : Asks(e, "load", c, [channels[c] EXCEPT !.enabled = ~@])

DeleteChannel(e) == \E c \in DOMAIN channels : Asks(e, "loadDelete", c, <<>>)
UpdateBroadcast(e) == Asks(e, "loadSettings", Fresh, <<>>)
CreateTemplate(e) == Asks(e, "loadTemplate", Fresh, <<>>)
UpdateTemplate(e) == \E t \in templates : Asks(e, "loadTemplate", t, <<>>)
DeleteTemplate(e) == \E t \in templates \ {System} : Asks(e, "loadUntemplate", t, <<>>)

Waiting == {"load", "loadDelete", "loadSettings", "loadTemplate", "loadUntemplate"}
WriteStep(pc) == CASE pc = "load" -> "write" [] pc = "loadDelete" -> "delete"
                 [] pc = "loadSettings" -> "settings" [] pc = "loadTemplate" -> "template"
                 [] OTHER -> "untemplate"

\* What the store read at the start of its operation: all of it for the file, the row for SQL.
LoadStore(e) ==
    /\ edit[e].pc \in Waiting
    /\ edit' = [edit EXCEPT ![e].pc = WriteStep(@), ![e].held =
          [channels |-> channels, broadcast |-> broadcast, templates |-> templates]]
    /\ UNCHANGED <<storeKind, envTarget, channels, broadcast, templates, made, notice>>

WriteChannel(e) ==
    /\ edit[e].pc = "write"
    /\ LET held == edit[e].held
           row == edit[e].row
           c == NormalizedId(held, edit[e].id, row)
       IN  /\ c \in ChannelId
           /\ \/ /\ storeKind = "file" /\ FileRefuses(held.channels, c, row)
                 /\ UNCHANGED <<channels, broadcast, made>>
              \/ /\ storeKind = "file" /\ ~FileRefuses(held.channels, c, row)
                 /\ FileUpsert(held, c, row)
                 /\ made' = [made EXCEPT !.channels = IF c > @ THEN c ELSE @]
              \/ /\ \/ storeKind = "sqlite" /\ SqliteUpsert(c, row)
                    \/ storeKind = "mysql" /\ MysqlUpsert(c, row)
                 /\ made' = [made EXCEPT !.channels = IF c > @ THEN c ELSE @]
    /\ EndEdit(e)
    /\ UNCHANGED <<storeKind, envTarget, templates, notice>>

RemoveChannel(e) ==
    /\ edit[e].pc = "delete"
    /\ \/ storeKind = "file" /\ FileDelete(edit[e].held, edit[e].id)
       \/ storeKind = "sqlite" /\ SqliteDelete(edit[e].id)
       \/ storeKind = "mysql" /\ MysqlDelete(edit[e].id)
    /\ EndEdit(e)
    /\ UNCHANGED <<storeKind, envTarget, templates, made, notice>>

WriteSettings(e) ==
    /\ edit[e].pc = "settings"
    /\ \E flag \in BOOLEAN :
          \/ storeKind = "file" /\ FileSettings(edit[e].held, flag)
          \/ storeKind = "sqlite" /\ SqliteSettings(flag)
          \/ storeKind = "mysql" /\ MysqlSettings(flag)
    /\ EndEdit(e)
    /\ UNCHANGED <<storeKind, envTarget, templates, made, notice>>

\* A new template whose name is taken updates the one that has it, the system's too.
WriteTemplate(e) ==
    /\ edit[e].pc = "template"
    /\ \E t \in IF edit[e].id = Fresh THEN edit[e].held.templates \cup {made.templates + 1}
                ELSE {edit[e].id} :
          /\ t \in TemplateId
          /\ made' = [made EXCEPT !.templates = IF t > @ THEN t ELSE @]
          /\ \/ storeKind = "file" /\ FileTemplateSaved(edit[e].held, t)
             \/ storeKind = "sqlite" /\ SqliteTemplateSaved(t)
             \/ storeKind = "mysql" /\ MysqlTemplateSaved(t)
    /\ EndEdit(e)
    /\ UNCHANGED <<storeKind, envTarget, channels, broadcast, notice>>

RemoveTemplate(e) ==
    /\ edit[e].pc = "untemplate"
    /\ \/ storeKind = "file" /\ FileTemplateDeleted(edit[e].held, edit[e].id)
       \/ storeKind = "sqlite" /\ SqliteTemplateDeleted(edit[e].id)
       \/ storeKind = "mysql" /\ MysqlTemplateDeleted(edit[e].id)
    /\ EndEdit(e)
    /\ UNCHANGED <<storeKind, envTarget, channels, broadcast, made, notice>>

-----------------------------------------------------------------------------
(* The dispatch: the setting, then the channels, then one message each.    *)

\* What an endpoint answers, and what each adapter calls success.
EndpointReply == [status : {"2xx", "other"}, code : {"zero", "other", "none"}]
WebhookAccepts(r) == r.status = "2xx"
FeishuAccepts(r) == r.code = "zero"
DingTalkAccepts(r) == r.code = "zero"
WeChatWorkAccepts(r) == r.code = "zero"
SlackAccepts(r) == r.status = "2xx" /\ r.code = "none"
DiscordAccepts(r) == r.status = "2xx"
Accepts(r) == {WebhookAccepts(r), FeishuAccepts(r), DingTalkAccepts(r), WeChatWorkAccepts(r),
               SlackAccepts(r), DiscordAccepts(r)}

NoNotice == [pc |-> "none", todo |-> <<>>, listed |-> {}, sent |-> {}, failed |-> {}, used |-> {}]
Now(pc) == notice' = [notice EXCEPT !.pc = pc]

\* The setting is read before the channels: without broadcast, the endpoint of the environment.
Dispatch ==
    /\ notice.pc \in {"none", "done", "raised", "skipped", "env"} /\ made.notices < MaxNotices
    /\ notice' = [NoNotice EXCEPT !.pc = IF broadcast THEN "list"
                                         ELSE IF envTarget THEN "env" ELSE "skipped"]
    /\ Tallied("notices")
    /\ UNCHANGED <<storeKind, envTarget, channels, broadcast, templates, edit>>

Enabled(rows) == {c \in DOMAIN rows : rows[c].enabled}

ListTargets ==
    /\ notice.pc = "list"
    /\ \/ /\ Enabled(channels) = {} /\ Now("skipped")
       \/ /\ Enabled(channels) # {}
          /\ notice' = [notice EXCEPT !.pc = "send",
                            !.todo = SetToSeq({<<c, channels[c].template>> : c \in Enabled(channels)}),
                            !.listed = Enabled(channels)]
    /\ UNCHANGED <<storeKind, envTarget, channels, broadcast, templates, made, edit>>

\* The template named by the channel, or the system's when it is gone by now.
ResolvedTemplate(t) == IF t \in Ensured(templates) THEN t ELSE System

\* A failure is recorded and the next channel tried.
Send(r) ==
    /\ notice.pc = "send" /\ notice.todo # <<>>
    /\ LET c == Head(notice.todo)[1]
           t == ResolvedTemplate(Head(notice.todo)[2])
       IN  \E accepted \in Accepts(r) : notice' = [notice EXCEPT
              !.todo = Tail(@), !.used = @ \cup {t},
              !.sent = IF accepted THEN @ \cup {c} ELSE @,
              !.failed = IF accepted THEN @ ELSE @ \cup {c}]
    /\ UNCHANGED <<storeKind, envTarget, channels, broadcast, templates, made, edit>>

\* What the webhook adapter does not catch (an endpoint that is no URL) ends the broadcast.
SendRaises ==
    /\ notice.pc = "send" /\ notice.todo # <<>>
    /\ Now("raised")
    /\ UNCHANGED <<storeKind, envTarget, channels, broadcast, templates, made, edit>>

Finish ==
    /\ notice.pc = "send" /\ notice.todo = <<>>
    /\ Now("done")
    /\ UNCHANGED <<storeKind, envTarget, channels, broadcast, templates, made, edit>>

-----------------------------------------------------------------------------
NoticesInit ==
    /\ storeKind \in {"file", "sqlite", "mysql"} /\ envTarget \in BOOLEAN
    /\ channels = <<>> /\ broadcast = TRUE /\ templates = {System}
    /\ made = [channels |-> 0, templates |-> 0, edits |-> 0, notices |-> 0]
    /\ edit = [e \in ChannelEditor |-> NoEdit]
    /\ notice = NoNotice

NoticesNext ==
    \/ \E e \in ChannelEditor :
          \/ CreateChannel(e) \/ UpdateChannel(e) \/ PatchChannel(e) \/ DeleteChannel(e)
          \/ UpdateBroadcast(e) \/ CreateTemplate(e) \/ UpdateTemplate(e) \/ DeleteTemplate(e) \/ LoadStore(e)
          \/ WriteChannel(e) \/ RemoveChannel(e) \/ WriteSettings(e)
          \/ WriteTemplate(e) \/ RemoveTemplate(e)
    \/ Dispatch \/ ListTargets \/ (\E r \in EndpointReply : Send(r)) \/ SendRaises \/ Finish

NoticesSpec == NoticesInit /\ [][NoticesNext]_noticeVars

-----------------------------------------------------------------------------
\* Rows, requests and the notification have their types; the system template is always there.
NoticesTypeOK ==
    /\ DOMAIN channels \subseteq 1 .. made.channels /\ made.channels \in 0 .. MaxChannels
    /\ \A c \in DOMAIN channels : channels[c] \in ChannelRow
    /\ broadcast \in BOOLEAN /\ templates \subseteq TemplateId /\ System \in templates
    /\ \A e \in ChannelEditor : DOMAIN edit[e].held.channels \subseteq ChannelId
    /\ notice.pc \in {"none", "list", "send", "done", "raised", "skipped", "env"}
    /\ notice.sent \cup notice.failed \subseteq notice.listed /\ notice.used \subseteq TemplateId

\* No two channels share a name, in a file that has no constraint as in the databases,
\* however the requests overlap (notification_channels.py:173).
ChannelNamesUnique ==
    \A c, d \in DOMAIN channels : channels[c].name = channels[d].name => c = d

\* A notification that ends without an error has tried every channel that was enabled when
\* they were listed, and none twice (notify_dispatch.py:96).
EveryChannelTried ==
    notice.pc = "done" => notice.sent \cup notice.failed = notice.listed /\ notice.sent \cap notice.failed = {}

\* Channels keep their names apart, and a notification reaches for each that was enabled.
ChannelsServed == ChannelNamesUnique /\ EveryChannelTried

=============================================================================
