---------------------------- MODULE ToolRequests ----------------------------
(***************************************************************************)
(* The handlers of the tools and resources that are not workflows: which   *)
(* inputs each checks, whether it wants confirm=true, and the requests it  *)
(* makes of oCIS, one after the other, through which function of           *)
(* internal/client.  Each request is an OcisCall, which RateLimitRetry     *)
(* shows Client.Do to implement: oCIS may act although the call fails, or  *)
(* after it.  The MCP client follows the annotations: when a call failed   *)
(* and the tool is annotated as idempotent or read-only, it calls again.   *)
(***************************************************************************)
EXTENDS ToolCatalog, Sequences, FiniteSets

CONSTANTS
  Tools,       \* the names of the tools called
  MaxTries,    \* bound: how often the MCP client calls
  Faults       \* "propstat": oCIS refuses a property of a PROPPATCH

(* What oCIS does with a request: "read" nothing, "set" a value (again the *)
(* same), "relate" two things it knows (again the same, and there is       *)
(* nothing to answer), "create" one more thing, "remove" one.              *)
Req(fn, does, uses) == [fn |-> fn, does |-> does, uses |-> uses]
Get(uses) == <<Req("GetJSON", "read", uses)>>
List(uses) == <<Req("ListJSON", "read", uses)>>
GetRaw == <<Req("GetRaw", "read", {})>>
Propfind(uses) == <<Req("Propfind", "read", uses)>>
SearchReport == <<Req("SearchReport", "read", {})>>
Create(uses) == <<Req("PostJSON", "create", uses)>>
Patch(uses) == <<Req("PatchJSON", "set", uses)>>
Relate(uses) == <<Req("PostJSONRaw", "relate", uses)>>
Delete(uses) == <<Req("Delete", "remove", uses)>>
Dav(fn, does, uses) == <<Req(fn, does, uses)>>

Tool(name, checks, steps) ==
  [name |-> name, checks |-> checks, steps |-> steps, confirm |-> FALSE]
Confirmed(name, checks, steps) ==
  [Tool(name, checks, steps) EXCEPT !.confirm = TRUE]

U == {"user_id"}
G == {"group_id"}
S == {"space_id"}
SI == S \cup {"item_id"}
SP == S \cup {"permission_id"}
Permission == SI \cup SP
\* The path is searched for "..", but may be empty: the root of the space.
SF == S \cup {"file_id"}

UserTools ==
  {Tool("list_users", {}, List({})), Tool("get_user", U, Get(U)),
   Tool("create_user", {}, Create({})), Tool("update_user", U, Patch(U)),
   Confirmed("delete_user", U, Delete(U)), Tool("get_me", {}, Get({}))}

GroupTools ==
  {Tool("list_groups", {}, List({})), Tool("get_group", G, Get(G)),
   Tool("create_group", {}, Create({})), Tool("update_group", G, Patch(G)),
   Confirmed("delete_group", G, Delete(G)),
   Tool("add_group_member", G \cup U, Relate(G \cup U)),
   Confirmed("remove_group_member", G \cup U, Delete(G \cup U))}

SpaceDirectory ==
  {Tool("list_spaces", {}, List({})), Tool("list_my_spaces", {}, List({})),
   Tool("get_space", S, Get(S)), Tool("create_space", {}, Create({})),
   Tool("update_space", S, Patch(S)), Tool("restore_space", S, Patch(S)),
   Confirmed("disable_space", S, Delete(S)),
   Confirmed("delete_space", S, Dav("DeleteWithHeaders", "remove", S))}

SpaceContent ==
  {Tool("invite_to_space", S, Create(S)),
   Tool("create_space_link", S, Create(S)),
   Tool("list_space_permissions", S, List(S)),
   Confirmed("empty_trashbin", S, Dav("WebDAVDelete", "remove", S)),
   Tool("set_space_image", S, Dav("Upload", "set", S)),
   Tool("set_space_readme", S, Dav("Upload", "set", S))}

FilePaths ==
  {Tool(n, S, Propfind(S)) : n \in {"list_files", "get_file_info"}}
  \cup {Tool("create_folder", S, Dav("Mkcol", "set", S)),
        Tool("upload_file", S, Dav("Upload", "create", S)),
        Tool("download_file", S, Dav("Download", "read", S)),
        Tool("move_file", S, Dav("Move", "create", S)),
        Tool("copy_file", S, Dav("Copy", "create", S)),
        Confirmed("delete_file", S, Dav("WebDAVDelete", "remove", S))}

FileItems ==
  {Tool("get_file_versions", SF, Propfind({"file_id"})),
   Tool("restore_file_version", SF,
        Dav("Copy", "create", {"file_id", "version_id"})),
   Tool("get_resource_by_id", S \cup {"resource_id"},
        Propfind(S \cup {"resource_id"})),
   Tool("tag_resource", S, Dav("Proppatch", "set", S)),
   Tool("untag_resource", S, Dav("Proppatch", "set", S)),
   Tool("get_resource_metadata", {"drive_id", "item_id"},
        Get({"drive_id", "item_id"}))}

SharesGiven ==
  {Tool("create_share", SI, Create(SI)), Tool("create_link", SI, Create(SI)),
   Tool("list_shares", SI, List(SI)),
   Tool("update_share", SP, Patch(Permission)),
   Tool("update_share_expiration", SP, Patch(Permission)),
   Confirmed("delete_share", SP, Delete(Permission))}

SharesReceived ==
  {Tool("list_shared_by_me", {}, List({})),
   Tool("list_received_shares", {}, List({})),
   Tool("accept_share", SP, Relate(Permission)),
   Confirmed("reject_share", SP, Delete(Permission)),
   Tool("get_sharing_roles", {}, Get({}))}

SearchTools ==
  {Tool("search", {"pattern"}, SearchReport),
   Tool("search_by_tag", {"tag"}, SearchReport)}

NotificationTools ==
  {Tool("list_notifications", {}, GetRaw),
   Confirmed("delete_notification", {"notification_id"},
             Delete({"notification_id"}))}

\* The settings service lists with POST.
SettingsTools ==
  {Tool("list_roles", {}, <<Req("PostJSON", "read", {})>>),
   Tool("assign_role", {"user_id", "role_id"}, Create({})),
   Tool("list_assignments", {}, Get({}) \o <<Req("PostJSON", "read", {})>>)}

AppTokenTools ==
  {Tool("list_app_tokens", {}, Get({})),
   Tool("create_app_token", {}, Create({})),
   Confirmed("delete_app_token", {"token"}, Delete({"token"}))}

AdminTools ==
  {Tool(n, {}, GetRaw) :
     n \in {"health_check", "get_version", "get_capabilities"}}
  \cup {Tool("get_config", {}, <<>>)}

OCMTools ==
  {Tool(n, {}, Get({})) :
     n \in {"ocm_list_providers", "ocm_list_shares", "ocm_list_received"}}
  \cup {Tool("ocm_create_share", {"resource_id", "grantee_id", "grantee_idp"},
             Create({}))}

EducationTools ==
  {Tool("list_education_schools", {}, List({})),
   Tool("list_education_users", {}, List({})),
   Tool("get_education_school", {"school_id"}, Get({"school_id"})),
   Tool("get_education_user", U, Get(U)),
   Tool("create_education_user", {"display_name", "username", "mail"},
        Create({}))}

\* Resources are read without input.
Resources ==
  {Tool("ocis://capabilities", {}, GetRaw), Tool("ocis://version", {}, GetRaw),
   Tool("ocis://sharing-roles", {}, Get({})),
   Tool("ocis://drive-types", {}, <<>>), Tool("ocis://auth-mode", {}, <<>>)}

Handlers ==
  UNION {UserTools, GroupTools, SpaceDirectory, SpaceContent, FilePaths,
         FileItems, SharesGiven, SharesReceived, SearchTools, NotificationTools,
         SettingsTools, AppTokenTools, AdminTools, OCMTools, EducationTools,
         Resources}

Handler(name) == CHOOSE h \in Handlers : h.name = name

Hint(name) ==
  IF \E t \in Registered(TRUE) : t.name = name
  THEN (CHOOSE t \in Registered(TRUE) : t.name = name).hint ELSE "read"

ASSUME RequestsAssumption ==
  /\ Names(Registered(TRUE)) = Names(Handlers \ Resources) \cup Names(Workflows)
  /\ Tools \subseteq Names(Handlers)
  /\ MaxTries \in Nat \ {0}
  /\ Faults \subseteq {"propstat"}

-----------------------------------------------------------------------------
VARIABLES
  tool, blank, confirm,   \* the call: its tool, the inputs left blank
  pc,                     \* "idle", "run", "wait", "told"
  try, step,
  intact,                 \* all answers of this try were what they should be
  told,                   \* what the MCP client was told: "error" or "ok"
  sent, applied, outcome  \* requests made; as in OcisCall

call == <<tool, blank, confirm>>
vars == <<tool, blank, confirm, pc, try, step, intact, told, sent, applied,
          outcome>>

Requests == (1..MaxTries) \X (1..2)
Ocis == INSTANCE OcisCall WITH Calls <- Requests

H == Handler(tool)
Now == H.steps[step]
Last == step >= Len(H.steps)

Inputs(h) == UNION ({h.checks} \cup {h.steps[i].uses : i \in DOMAIN h.steps})

Init ==
  /\ tool \in Tools /\ confirm \in BOOLEAN
  /\ blank \in SUBSET Inputs(H)
  /\ pc = "idle" /\ try = 1 /\ step = 1 /\ intact = TRUE /\ told = ""
  /\ sent = {}
  /\ Ocis!Init

Tell(how) == pc' = "told" /\ told' = how

Unconfirmed(h) == TRUE          \* mutation: confirm is not looked at
ConfirmGiven(h) == h.confirm => confirm

NotAllBlank(h) == h.checks = {} \/ h.checks \ blank # {}   \* mutation: one id is enough
Checked(h) == h.checks \cap blank = {}

Refuse ==
  /\ pc = "idle" /\ ~(ConfirmGiven(H) /\ Checked(H))
  /\ Tell("error")
  /\ UNCHANGED <<call, try, step, intact, sent, applied, outcome>>

Accept ==
  /\ pc = "idle" /\ ConfirmGiven(H) /\ Checked(H)
  /\ IF H.steps = <<>> THEN Tell("ok") ELSE pc' = "run" /\ UNCHANGED told
  /\ UNCHANGED <<call, try, step, intact, sent, applied, outcome>>

Send ==
  /\ pc = "run" /\ pc' = "wait"
  /\ sent' = sent \cup {<<try, step>>}
  /\ UNCHANGED <<call, try, step, intact, told, applied, outcome>>

\* oCIS acts, when it acts; reading leaves nothing to record.
Serve ==
  /\ \E r \in sent : Ocis!Apply(r)
  /\ UNCHANGED <<call, pc, try, step, intact, told, sent>>

EveryReader ==            \* mutation: PostJSONRaw decodes the answer, too
  {"GetJSON", "ListJSON", "PostJSON", "PatchJSON", "Propfind", "SearchReport",
   "GetRaw", "Download", "PostJSONRaw"}
\* Functions that fail unless the whole content comes (what GetRaw reads is
\* decoded by the tools).
Readers == EveryReader \ {"PostJSONRaw"}

\* What comes with a success, of requests that are answered with content.
Silent(r) ==
  \/ r.does \in {"remove", "relate"}
  \/ r.fn \in {"Mkcol", "Upload", "Move", "Copy", "Proppatch"}
Bodies(r) == IF Silent(r) THEN {"none"} ELSE {"whole", "cut"}
Succeeded(r, how, body) ==
  how = "ok" /\ (r.fn \in Readers => body = "whole")

\* health_check says in its reply that oCIS does not answer.
Verdict(ok) == IF ok \/ tool = "health_check" THEN "ok" ELSE "error"

Outcome(how) ==
  \/ Ocis!End(<<try, step>>, how)
  \/ /\ "propstat" \in Faults /\ Now.fn = "Proppatch" /\ how = "ok"
     /\ applied[<<try, step>>] = <<>>    \* 207, but a propstat says no
     /\ outcome' = [outcome EXCEPT ![<<try, step>>] = "ok"]
     /\ UNCHANGED applied

Finish ==
  /\ pc = "wait"
  /\ \E how \in Ocis!Outcomes \ {"open"}, body \in Bodies(Now) :
       /\ Outcome(how)
       /\ intact' = (intact /\ body # "cut")
       /\ IF Succeeded(Now, how, body) /\ ~Last
          THEN pc' = "run" /\ step' = step + 1 /\ UNCHANGED told
          ELSE Tell(Verdict(Succeeded(Now, how, body))) /\ UNCHANGED step
  /\ UNCHANGED <<call, try, sent>>

MutatingToo == {"read", "idempotent", "mutate"}   \* mutation: one helper for both
Repeatable == {"read", "idempotent"}

\* A call that was refused would be refused again.
Repeat ==
  /\ pc = "told" /\ told = "error" /\ <<try, 1>> \in sent
  /\ Hint(tool) \in Repeatable /\ try < MaxTries
  /\ try' = try + 1 /\ step' = 1 /\ intact' = TRUE /\ told' = "" /\ pc' = "run"
  /\ UNCHANGED <<call, sent, applied, outcome>>

Next == Refuse \/ Accept \/ Send \/ Serve \/ Finish \/ Repeat

Spec == Init /\ [][Next]_vars

-----------------------------------------------------------------------------
\* What oCIS did for a request, and for the call as a whole.
Did(does) ==
  {r \in Requests : applied[r] # <<>> /\ H.steps[r[2]].does = does}
Changed == UNION {Did(d) : d \in {"set", "relate", "create", "remove"}}

\* Nothing is removed without confirm=true, whatever way the handler takes, and
\* by no tool that is not annotated as destructive (CHANGELOG.md: "Destructive
\* operations require an explicit confirm=true").
ConfirmedBeforeRemoved ==
  Did("remove") # {} => confirm /\ Hint(tool) = "destroy"

\* A tool annotated as read-only leaves oCIS as it was.
ReadOnlyChangesNothing == Hint(tool) = "read" => Changed = {}

\* However often a client calls again after a lost, late or garbled answer, as
\* the annotations invite it to, no second thing is created or removed.
RepeatIsHarmless == Cardinality(Did("create") \cup Did("remove")) <= 1

\* The client is told "ok" only of a change that oCIS made, and "error" only if
\* a request failed or its answer was garbled: no function waits for content
\* where oCIS has none to send.  Not so for tags: Proppatch takes any 207 for
\* success, without reading whether the property in it was refused.
ReplyIsTrue ==
  /\ told = "ok" => \A i \in DOMAIN H.steps :
       H.steps[i].does # "read" /\ H.steps[i].fn # "Proppatch" =>
         <<try, i>> \in Changed
  /\ told = "error" /\ intact /\ sent # {} =>
       \E i \in DOMAIN H.steps : outcome[<<try, i>>] \in {"error", "limited", "failed"}

\* "ID validation": no request is made for an identifier that was left blank,
\* but for two: restore_file_version does not look at version_id, and update_,
\* delete_, accept_ and reject_share not at item_id.
IDsValidated ==
  \A r \in sent :
    H.steps[r[2]].uses \cap blank \subseteq {"version_id", "item_id"}
=============================================================================
