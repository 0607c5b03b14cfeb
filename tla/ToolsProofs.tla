----------------------------- MODULE ToolsProofs -----------------------------
(***************************************************************************)
(* Theorems about the tools: their handlers (ToolRequests), for any set of *)
(* tools and any number of tries, and what they make of the answers of     *)
(* oCIS (Answers), for answers of any length.                              *)
(*                                                                         *)
(* The first part reads the table of ToolRequests handler by handler,      *)
(* against the annotations in ToolCatalog; the second follows a call       *)
(* through its requests and repetitions and knows of the table only what   *)
(* the first found.  The third takes the answers: files, pages,            *)
(* Multi-Status answers and the drives of the wizard.                      *)
(***************************************************************************)
EXTENDS ToolRequests, Answers, FiniteSetTheorems, TLAPS

-----------------------------------------------------------------------------
(* The annotations, by name.                                               *)

Destroying ==
  {"delete_user", "delete_group", "remove_group_member", "disable_space",
   "delete_space", "empty_trashbin", "delete_file", "delete_share",
   "reject_share", "delete_notification", "delete_app_token"}
Mutating ==
  {"create_user", "create_group", "add_group_member", "create_space",
   "invite_to_space", "create_space_link", "upload_file", "move_file",
   "copy_file", "restore_file_version", "create_share", "create_link",
   "assign_role", "create_app_token", "ocm_create_share", "upload_and_share",
   "share_with_link", "create_project_space", "create_education_user"}
Idempotent ==
  {"update_user", "update_group", "update_space", "restore_space",
   "set_space_image", "set_space_readme", "create_folder", "tag_resource",
   "untag_resource", "update_share", "update_share_expiration", "accept_share"}
Changing == Destroying \cup Mutating \cup Idempotent

Annotated(t) ==
  /\ t.hint = "destroy" <=> t.name \in Destroying
  /\ t.hint = "mutate" <=> t.name \in Mutating
  /\ t.hint = "idempotent" <=> t.name \in Idempotent
  /\ t.hint \in {"read", "idempotent", "mutate", "destroy"}

LEMMA Added ==
  ASSUME NEW names, NEW field, NEW hint, NEW t \in Add(names, field, hint)
  PROVE  t.name \in names /\ t.hint = hint
BY DEF Add

LEMMA AddRead ==
  ASSUME NEW names, NEW field, NEW t \in Add(names, field, "read"),
         names \cap Changing = {}
  PROVE  Annotated(t)
BY Added DEF Annotated, Changing

LEMMA AddDestroy ==
  ASSUME NEW names, NEW field, NEW t \in Add(names, field, "destroy"),
         names \subseteq Destroying
  PROVE  Annotated(t)
<1>1. t.name \in Destroying /\ t.hint = "destroy"
  BY Added
<1>2. t.name \notin Mutating \cup Idempotent
  BY <1>1 DEF Destroying, Mutating, Idempotent
<1> QED BY <1>1, <1>2 DEF Annotated

LEMMA AddMutate ==
  ASSUME NEW names, NEW field, NEW t \in Add(names, field, "mutate"),
         names \subseteq Mutating
  PROVE  Annotated(t)
<1>1. t.name \in Mutating /\ t.hint = "mutate"
  BY Added
<1>2. t.name \notin Destroying \cup Idempotent
  BY <1>1 DEF Destroying, Mutating, Idempotent
<1> QED BY <1>1, <1>2 DEF Annotated

LEMMA AddIdempotent ==
  ASSUME NEW names, NEW field, NEW t \in Add(names, field, "idempotent"),
         names \subseteq Idempotent
  PROVE  Annotated(t)
<1>1. t.name \in Idempotent /\ t.hint = "idempotent"
  BY Added
<1>2. t.name \notin Destroying \cup Mutating
  BY <1>1 DEF Destroying, Mutating, Idempotent
<1> QED BY <1>1, <1>2 DEF Annotated

LEMMA Annotations ==
  ASSUME NEW t \in Registered(TRUE)
  PROVE  Annotated(t)
<1> USE AddRead, AddDestroy, AddMutate, AddIdempotent
<1> USE DEF Changing, Destroying, Mutating, Idempotent
<1>1. CASE t \in Users
  BY <1>1 DEF Users
<1>2. CASE t \in Groups
  BY <1>2 DEF Groups
<1>3. CASE t \in Spaces
  BY <1>3 DEF Spaces
<1>4. CASE t \in Files
  BY <1>4 DEF Files
<1>5. CASE t \in Shares
  BY <1>5 DEF Shares
<1>6. CASE t \in Search \cup Notifications \cup Settings
  BY <1>6 DEF Search, Notifications, Settings
<1>7. CASE t \in AppTokens \cup Admin \cup OCM
  BY <1>7 DEF AppTokens, Admin, OCM
<1>8. CASE t \in Workflows
  BY <1>8 DEF Workflows
<1>9. CASE t \in Education
  BY <1>9 DEF Education
<1> QED BY <1>1, <1>2, <1>3, <1>4, <1>5, <1>6, <1>7, <1>8, <1>9
        DEF Registered, Core

\* No name is registered twice with different annotations.
LEMMA HintOfRegistered ==
  ASSUME NEW name \in Names(Registered(TRUE))
  PROVE  /\ Hint(name) = "destroy" <=> name \in Destroying
         /\ Hint(name) = "mutate" <=> name \in Mutating
         /\ Hint(name) = "idempotent" <=> name \in Idempotent
         /\ Hint(name) \in {"read", "idempotent", "mutate", "destroy"}
<1> DEFINE t == CHOOSE t \in Registered(TRUE) : t.name = name
<1>1. \E x \in Registered(TRUE) : x.name = name
  BY DEF Names
<1>2. t \in Registered(TRUE) /\ t.name = name
  BY <1>1
<1>3. Hint(name) = t.hint
  BY <1>1, Zenon DEF Hint
<1> HIDE DEF t
<1> QED BY <1>2, <1>3, Annotations DEF Annotated

-----------------------------------------------------------------------------
(* The table of handlers.  A step fits its tool if what it does is what    *)
(* the annotation of the tool says, if it uses no input but those checked  *)
(* (and the two that are not), and if no function waits for content where  *)
(* oCIS sends none.                                                        *)

Unchecked == {"version_id", "item_id"}

Fits(name, checks, asks, r) ==
  /\ r.does \in {"read", "set", "relate", "create", "remove"}
  /\ r.does = "remove" => asks = TRUE /\ name \in Destroying
  /\ r.does = "create" => name \in Mutating
  /\ r.does # "read" => name \in Changing
  /\ r.uses \subseteq checks \cup Unchecked
  /\ Silent(r) => r.fn \notin Readers

\* A handler that makes two requests only reads.
Short(steps) ==
  \/ steps = <<>>
  \/ Len(steps) = 1 /\ DOMAIN steps = {1}
  \/ /\ Len(steps) = 2 /\ DOMAIN steps = {1, 2}
     /\ steps[1].does = "read" /\ steps[2].does = "read"

Sound(h) ==
  /\ Short(h.steps)
  /\ \A i \in DOMAIN h.steps : Fits(h.name, h.checks, h.confirm, h.steps[i])

LEMMA OneRequest ==
  ASSUME NEW name, NEW checks, NEW r, Fits(name, checks, FALSE, r)
  PROVE  Sound(Tool(name, checks, <<r>>))
<1> DEFINE h == Tool(name, checks, <<r>>)
<1>1. /\ h.name = name /\ h.checks = checks /\ h.confirm = FALSE
      /\ h.steps = <<r>>
  BY DEF Tool
<1>2. Len(<<r>>) = 1 /\ DOMAIN <<r>> = {1} /\ <<r>>[1] = r
  OBVIOUS
<1> QED BY <1>1, <1>2 DEF Sound, Short

LEMMA OneConfirmed ==
  ASSUME NEW name, NEW checks, NEW r, Fits(name, checks, TRUE, r)
  PROVE  Sound(Confirmed(name, checks, <<r>>))
<1> DEFINE h == Confirmed(name, checks, <<r>>)
<1>1. /\ h.name = name /\ h.checks = checks /\ h.confirm = TRUE
      /\ h.steps = <<r>>
  BY DEF Tool, Confirmed
<1>2. Len(<<r>>) = 1 /\ DOMAIN <<r>> = {1} /\ <<r>>[1] = r
  OBVIOUS
<1> QED BY <1>1, <1>2 DEF Sound, Short

LEMMA NoRequest ==
  ASSUME NEW name, NEW checks
  PROVE  Sound(Tool(name, checks, <<>>))
BY DEF Tool, Sound, Short

LEMMA ReadFits ==
  ASSUME NEW name, NEW checks, NEW fn, NEW uses,
         uses \subseteq checks \cup Unchecked,
         fn \notin {"Mkcol", "Upload", "Move", "Copy", "Proppatch"}
  PROVE  Fits(name, checks, FALSE, Req(fn, "read", uses))
BY DEF Fits, Req, Silent

LEMMA Reading ==
  ASSUME NEW name, NEW checks, NEW uses, uses \subseteq checks \cup Unchecked
  PROVE  /\ Sound(Tool(name, checks, Get(uses)))
         /\ Sound(Tool(name, checks, List(uses)))
         /\ Sound(Tool(name, checks, GetRaw))
         /\ Sound(Tool(name, checks, Propfind(uses)))
         /\ Sound(Tool(name, checks, SearchReport))
         /\ Sound(Tool(name, checks, Dav("Download", "read", uses)))
         /\ Sound(Tool(name, checks, <<Req("PostJSON", "read", uses)>>))
BY OneRequest, ReadFits DEF Get, List, GetRaw, Propfind, SearchReport, Dav

LEMMA Creating ==
  ASSUME NEW name \in Mutating, NEW checks, NEW uses,
         uses \subseteq checks \cup Unchecked
  PROVE  /\ Sound(Tool(name, checks, Create(uses)))
         /\ \A fn \in {"Upload", "Move", "Copy"} :
              Sound(Tool(name, checks, Dav(fn, "create", uses)))
<1>1. \A fn \in {"PostJSON", "Upload", "Move", "Copy"} :
        Fits(name, checks, FALSE, Req(fn, "create", uses))
  BY DEF Fits, Req, Silent, Readers, EveryReader, Changing
<1> QED BY <1>1, OneRequest DEF Create, Dav

LEMMA Setting ==
  ASSUME NEW name \in Changing, NEW checks, NEW uses,
         uses \subseteq checks \cup Unchecked
  PROVE  /\ Sound(Tool(name, checks, Patch(uses)))
         /\ Sound(Tool(name, checks, Relate(uses)))
         /\ \A fn \in {"Upload", "Mkcol", "Proppatch"} :
              Sound(Tool(name, checks, Dav(fn, "set", uses)))
<1>1. \A fn \in {"PatchJSON", "Upload", "Mkcol", "Proppatch"} :
        Fits(name, checks, FALSE, Req(fn, "set", uses))
  BY DEF Fits, Req, Silent, Readers, EveryReader
<1>2. Fits(name, checks, FALSE, Req("PostJSONRaw", "relate", uses))
  BY DEF Fits, Req, Silent, Readers, EveryReader
<1> QED BY <1>1, <1>2, OneRequest DEF Patch, Relate, Dav

LEMMA Removing ==
  ASSUME NEW name \in Destroying, NEW checks, NEW uses,
         uses \subseteq checks \cup Unchecked
  PROVE  /\ Sound(Confirmed(name, checks, Delete(uses)))
         /\ \A fn \in {"DeleteWithHeaders", "WebDAVDelete"} :
              Sound(Confirmed(name, checks, Dav(fn, "remove", uses)))
<1>1. \A fn \in {"Delete", "DeleteWithHeaders", "WebDAVDelete"} :
        Fits(name, checks, TRUE, Req(fn, "remove", uses))
  BY DEF Fits, Req, Silent, Readers, EveryReader, Changing
<1> QED BY <1>1, OneConfirmed DEF Delete, Dav

LEMMA UserToolsSound ==
  ASSUME NEW h \in UserTools
  PROVE  Sound(h)
BY Reading, Creating, Setting, Removing
   DEF UserTools, U, Mutating, Destroying, Idempotent, Changing, Unchecked

LEMMA GroupToolsSound ==
  ASSUME NEW h \in GroupTools
  PROVE  Sound(h)
<1>1. {"create_group"} \subseteq Mutating
  BY DEF Mutating
<1>2. {"update_group", "add_group_member"} \subseteq Changing
  BY DEF Changing, Mutating, Idempotent
<1>3. {"delete_group", "remove_group_member"} \subseteq Destroying
  BY DEF Destroying
<1> QED BY <1>1, <1>2, <1>3, Reading, Creating, Setting, Removing
    DEF GroupTools, G, U

LEMMA SpaceDirectorySound ==
  ASSUME NEW h \in SpaceDirectory
  PROVE  Sound(h)
BY Reading, Creating, Setting, Removing
   DEF SpaceDirectory, S, Mutating, Destroying, Idempotent, Changing, Unchecked

LEMMA SpaceContentSound ==
  ASSUME NEW h \in SpaceContent
  PROVE  Sound(h)
<1>1. {"invite_to_space", "create_space_link"} \subseteq Mutating
  BY DEF Mutating
<1>2. {"set_space_image", "set_space_readme"} \subseteq Changing
  BY DEF Changing, Mutating, Idempotent
<1>3. {"empty_trashbin"} \subseteq Destroying
  BY DEF Destroying
<1> QED BY <1>1, <1>2, <1>3, Reading, Creating, Setting, Removing
    DEF SpaceContent, S

LEMMA FilePathsSound ==
  ASSUME NEW h \in FilePaths
  PROVE  Sound(h)
<1>1. {"upload_file", "move_file", "copy_file"} \subseteq Mutating
  BY DEF Mutating
<1>2. {"create_folder"} \subseteq Changing
  BY DEF Changing, Mutating, Idempotent
<1>3. {"delete_file"} \subseteq Destroying
  BY DEF Destroying
<1> QED BY <1>1, <1>2, <1>3, Reading, Creating, Setting, Removing
    DEF FilePaths, S

LEMMA FileItemsSound ==
  ASSUME NEW h \in FileItems
  PROVE  Sound(h)
<1>1. {"restore_file_version"} \subseteq Mutating
  BY DEF Mutating
<1>2. {"tag_resource", "untag_resource"} \subseteq Changing
  BY DEF Changing, Mutating, Idempotent
<1>3. \A n \in {"tag_resource", "untag_resource"} :
        Sound(Tool(n, S, Dav("Proppatch", "set", S)))
  BY <1>2, Setting
<1>4. Sound(Tool("restore_file_version", SF,
                 Dav("Copy", "create", {"file_id", "version_id"})))
  BY <1>1, Creating DEF SF, Unchecked
<1> QED BY <1>3, <1>4, Reading DEF FileItems, S, SF

LEMMA SharesGivenSound ==
  ASSUME NEW h \in SharesGiven
  PROVE  Sound(h)
BY Reading, Creating, Setting, Removing
   DEF SharesGiven, S, SI, SP, Permission, Mutating, Destroying, Idempotent, Changing, Unchecked

LEMMA SharesReceivedSound ==
  ASSUME NEW h \in SharesReceived
  PROVE  Sound(h)
BY Reading, Creating, Setting, Removing
   DEF SharesReceived, S, SI, SP, Permission, Mutating, Destroying, Idempotent, Changing, Unchecked

LEMMA SearchToolsSound ==
  ASSUME NEW h \in SearchTools
  PROVE  Sound(h)
BY Reading, Creating, Setting, Removing
   DEF SearchTools, Mutating, Destroying, Idempotent, Changing, Unchecked

LEMMA NotificationToolsSound ==
  ASSUME NEW h \in NotificationTools
  PROVE  Sound(h)
BY Reading, Creating, Setting, Removing
   DEF NotificationTools, Mutating, Destroying, Idempotent, Changing, Unchecked

LEMMA AppTokenToolsSound ==
  ASSUME NEW h \in AppTokenTools
  PROVE  Sound(h)
BY Reading, Creating, Setting, Removing
   DEF AppTokenTools, Mutating, Destroying, Idempotent, Changing, Unchecked

LEMMA OCMToolsSound ==
  ASSUME NEW h \in OCMTools
  PROVE  Sound(h)
BY Reading, Creating, Setting, Removing
   DEF OCMTools, Mutating, Destroying, Idempotent, Changing, Unchecked

LEMMA EducationToolsSound ==
  ASSUME NEW h \in EducationTools
  PROVE  Sound(h)
BY Reading, Creating, Setting, Removing
   DEF EducationTools, U, Mutating, Destroying, Idempotent, Changing, Unchecked

LEMMA AssignmentsSound ==
  Sound(Tool("list_assignments", {}, Get({}) \o <<Req("PostJSON", "read", {})>>))
<1> DEFINE a == Req("GetJSON", "read", {})
           b == Req("PostJSON", "read", {})
           s == <<a>> \o <<b>>
<1>1. Fits("list_assignments", {}, FALSE, a) /\ Fits("list_assignments", {}, FALSE, b)
  BY ReadFits
<1>2. a.does = "read" /\ b.does = "read"
  BY DEF Req
<1> HIDE DEF a, b
<1>3. <<a>> \in Seq({a, b}) /\ <<b>> \in Seq({a, b})
  OBVIOUS
<1>4. Len(s) = 2 /\ s[1] = a /\ s[2] = b /\ DOMAIN s = {1, 2}
  BY <1>3
<1> HIDE DEF s
<1>5. Sound(Tool("list_assignments", {}, s))
  BY <1>1, <1>2, <1>4 DEF Sound, Tool, Short
<1> QED BY <1>5 DEF a, b, s, Get

LEMMA SettingsToolsSound ==
  ASSUME NEW h \in SettingsTools
  PROVE  Sound(h)
BY Reading, Creating, AssignmentsSound DEF SettingsTools, Mutating

LEMMA AdminToolsSound ==
  ASSUME NEW h \in AdminTools \cup Resources
  PROVE  /\ Sound(h)
         /\ \A i \in DOMAIN h.steps : h.steps[i].does = "read"
<1>1. Sound(h)
  BY Reading, NoRequest DEF AdminTools, Resources
<1>2. h.steps \in {<<>>, GetRaw, Get({})}
  BY DEF AdminTools, Resources, Tool
<1>3. \A i \in DOMAIN h.steps : h.steps[i].does = "read"
  BY <1>2 DEF GetRaw, Get, Req
<1> QED BY <1>1, <1>3

\* Every handler of the table is what its annotation says, and a handler that
\* changes anything is that of a registered tool.
LEMMA HandlersSound ==
  ASSUME NEW h \in Handlers
  PROVE  /\ Sound(h)
         /\ \A i \in DOMAIN h.steps :
              h.steps[i].does # "read" => h.name \in Names(Registered(TRUE))
<1>1. Sound(h)
  BY UserToolsSound, GroupToolsSound, SpaceDirectorySound, SpaceContentSound,
     FilePathsSound, FileItemsSound, SharesGivenSound, SharesReceivedSound,
     SearchToolsSound, NotificationToolsSound, AppTokenToolsSound, OCMToolsSound, EducationToolsSound,
     SettingsToolsSound, AdminToolsSound
     DEF Handlers
<1>2. CASE h \in Resources
  BY <1>1, <1>2, AdminToolsSound
<1>3. CASE h \notin Resources
  BY <1>1, <1>3, RequestsAssumption DEF Names
<1> QED BY <1>2, <1>3

LEMMA HandlerSound ==
  ASSUME NEW name \in Tools
  PROVE  /\ Handler(name).name = name
         /\ Sound(Handler(name))
         /\ \A i \in DOMAIN Handler(name).steps :
              Handler(name).steps[i].does # "read" =>
                name \in Names(Registered(TRUE))
<1>1. \E h \in Handlers : h.name = name
  BY RequestsAssumption DEF Names
<1>2. Handler(name) \in Handlers /\ Handler(name).name = name
  BY <1>1 DEF Handler
<1> QED BY <1>2, HandlersSound

-----------------------------------------------------------------------------
(* The inductive invariant: what a call knows about itself at any moment.  *)

Typed ==
  /\ tool \in Tools /\ confirm \in BOOLEAN /\ intact \in BOOLEAN
  /\ pc \in {"idle", "run", "wait", "told"} /\ told \in {"", "ok", "error"}
  /\ try \in 1..MaxTries /\ step \in 1..2
  /\ sent \in SUBSET Requests
  /\ applied \in [Requests -> {<<>>, <<"whole">>}]
  /\ outcome \in [Requests -> Ocis!Outcomes]

\* Where the call stands.
Placed ==
  /\ told = "" <=> pc # "told"
  /\ pc = "idle" => sent = {} /\ try = 1 /\ step = 1
  /\ pc \in {"run", "wait"} => step \in DOMAIN H.steps
  /\ \A r \in sent : r[1] <= try /\ r[2] \in DOMAIN H.steps
  /\ \A r \in Requests : applied[r] # <<>> => r \in sent

\* Who came past the checks came past all of them.
Admitted ==
  pc \in {"run", "wait"} \/ sent # {} => ConfirmGiven(H) /\ Checked(H)

\* Only what the annotations invite to repeat is repeated.
Repeated == try > 1 => Hint(tool) \in Repeatable

IInv == Typed /\ Placed /\ Admitted /\ Repeated /\ ReplyIsTrue

LEMMA TheHandler ==
  ASSUME tool \in Tools
  PROVE  /\ Short(H.steps)
         /\ \A i \in DOMAIN H.steps :
              /\ Fits(tool, H.checks, H.confirm, H.steps[i])
              /\ H.steps[i].does # "read" => tool \in Names(Registered(TRUE))
BY HandlerSound DEF H, Sound

LEMMA Steps ==
  ASSUME tool \in Tools
  PROVE  /\ Len(H.steps) \in 0..2
         /\ DOMAIN H.steps = 1..Len(H.steps)
         /\ DOMAIN H.steps \subseteq {1, 2}
BY TheHandler DEF Short

LEMMA Start ==
  ASSUME Init
  PROVE  IInv
<1>1. /\ tool \in Tools /\ confirm \in BOOLEAN /\ intact \in BOOLEAN
      /\ pc = "idle" /\ told = "" /\ sent = {}
  BY Zenon DEF Init
<1>2. try = 1 /\ step = 1
  BY Zenon DEF Init
<1>3. try \in 1..MaxTries /\ step \in 1..2 /\ ~(try > 1)
  BY <1>2, RequestsAssumption
<1>4. /\ applied = [r \in Requests |-> <<>>]
      /\ outcome = [r \in Requests |-> "open"]
  BY Zenon DEF Init, Ocis!Init
<1>5. /\ applied \in [Requests -> {<<>>, <<"whole">>}]
      /\ outcome \in [Requests -> Ocis!Outcomes]
  BY <1>4, Zenon DEF Ocis!Outcomes
<1>6. Typed
  BY <1>1, <1>3, <1>5 DEF Typed
<1>7. \A r \in Requests : applied[r] = <<>>
  BY <1>4, Zenon
<1>8. Placed
  BY <1>1, <1>2, <1>7 DEF Placed
<1>9. Admitted /\ Repeated /\ ReplyIsTrue
  BY <1>1, <1>3 DEF Admitted, Repeated, ReplyIsTrue
<1> QED BY <1>6, <1>8, <1>9 DEF IInv

LEMMA SameHandler ==
  ASSUME tool' = tool
  PROVE  H' = H
BY DEF H

LEMMA RefuseStep ==
  ASSUME IInv, Refuse
  PROVE  IInv'
<1> USE DEF IInv, Refuse, Tell, call
<1>1. H' = H
  BY SameHandler
<1>2. Typed'
  BY DEF Typed
<1>3. Placed'
  BY <1>1 DEF Placed
<1>4. Admitted' /\ Repeated'
  BY <1>1 DEF Admitted, Repeated, Placed
<1>5. ReplyIsTrue'
  BY DEF ReplyIsTrue, Placed
<1> QED BY <1>2, <1>3, <1>4, <1>5

LEMMA AcceptStep ==
  ASSUME IInv, Accept
  PROVE  IInv'
<1> USE DEF IInv, Accept, call
<1>1. H' = H
  BY SameHandler
<1>2. \/ H.steps = <<>> /\ pc' = "told" /\ told' = "ok"
      \/ H.steps # <<>> /\ pc' = "run" /\ told' = told
  BY DEF Tell
<1>3. told = "" /\ step = 1 /\ sent' = {}
  BY DEF Placed
<1>4. Typed'
  BY <1>2 DEF Typed
<1>5. Placed'
  <2>1. H.steps # <<>> => 1 \in DOMAIN H.steps
    BY TheHandler DEF Typed, Short
  <2> QED BY <1>1, <1>2, <1>3, <2>1 DEF Placed
<1>6. Admitted' /\ Repeated'
  BY <1>1 DEF Admitted, Repeated, ConfirmGiven, Checked
<1>7. ReplyIsTrue'
  <2>1. CASE H.steps = <<>>
    <3>1. told' = "ok" /\ DOMAIN H'.steps = {}
      BY <1>1, <1>2, <2>1
    <3> QED BY <3>1 DEF ReplyIsTrue
  <2>2. CASE H.steps # <<>>
    BY <1>2, <1>3, <2>2 DEF ReplyIsTrue
  <2> QED BY <2>1, <2>2
<1> QED BY <1>4, <1>5, <1>6, <1>7

LEMMA Bounded ==
  ASSUME Typed
  PROVE  /\ try \in 1..MaxTries /\ try \in Nat /\ MaxTries \in Nat
         /\ \A i \in {1, 2} : <<try, i>> \in Requests
         /\ \A r \in sent : r[1] \in Nat
<1>1. MaxTries \in Nat
  BY RequestsAssumption
<1>2. try \in 1..MaxTries
  BY Zenon DEF Typed
<1>3. try \in Nat
  BY <1>1, <1>2
<1>4. \A i \in {1, 2} : <<try, i>> \in Requests
  BY <1>2 DEF Requests
<1>5. \A r \in Requests : r[1] \in Nat
  BY <1>1 DEF Requests
<1>6. sent \subseteq Requests
  BY Zenon DEF Typed
<1> QED BY <1>1, <1>2, <1>3, <1>4, <1>5, <1>6

LEMMA SendStep ==
  ASSUME IInv, Send
  PROVE  IInv'
<1> USE DEF IInv, Send, call
<1>1. H' = H
  BY SameHandler
<1>2. step \in DOMAIN H.steps
  BY DEF Placed
<1>3. <<try, step>> \in Requests /\ try <= try
  <2>1. step \in {1, 2}
    BY <1>2, Steps DEF Typed
  <2> QED BY <2>1, Bounded
<1>4. Typed'
  BY <1>3 DEF Typed
<1>5. Placed'
  <2>1. <<try, step>>[1] = try /\ <<try, step>>[2] = step
    OBVIOUS
  <2> QED BY <1>1, <1>2, <1>3, <2>1 DEF Placed
<1>6. Admitted' /\ Repeated'
  BY <1>1 DEF Admitted, Repeated, ConfirmGiven, Checked
<1>7. told' = ""
  BY DEF Placed
<1>8. ReplyIsTrue'
  BY <1>7 DEF ReplyIsTrue
<1> QED BY <1>4, <1>5, <1>6, <1>8

\* What oCIS did stays done.
LEMMA StillChanged ==
  ASSUME H' = H, \A r \in Requests : applied[r] # <<>> => applied'[r] # <<>>
  PROVE  Changed \subseteq Changed'
BY DEF Changed, Did

LEMMA ServeStep ==
  ASSUME IInv, Serve
  PROVE  IInv'
<1> USE DEF IInv, call
<1>0. UNCHANGED <<call, pc, try, step, intact, told, sent>>
  BY DEF Serve
<1>1. H' = H
  BY <1>0, SameHandler
<1>2. PICK r \in sent : Ocis!Apply(r)
  BY DEF Serve
<1>3. /\ applied' = [applied EXCEPT ![r] = <<"whole">>] /\ outcome' = outcome
      /\ r \in Requests /\ applied \in [Requests -> {<<>>, <<"whole">>}]
  BY <1>2 DEF Ocis!Apply, Typed
<1>4. /\ applied' \in [Requests -> {<<>>, <<"whole">>}]
      /\ applied'[r] = <<"whole">>
      /\ \A q \in Requests : q # r => applied'[q] = applied[q]
  BY <1>3, Zenon
<1>5. Typed'
  BY <1>0, <1>3, <1>4 DEF Typed
<1>6. Placed'
  BY <1>0, <1>1, <1>2, <1>4 DEF Placed
<1>7. Admitted' /\ Repeated'
  BY <1>0, <1>1 DEF Admitted, Repeated, ConfirmGiven, Checked
<1>8. Changed \subseteq Changed'
  <2>1. <<"whole">> # <<>>
    OBVIOUS
  <2> QED BY <1>1, <1>4, <2>1, StillChanged
<1>9. ReplyIsTrue'
  BY <1>0, <1>1, <1>3, <1>8 DEF ReplyIsTrue
<1> QED BY <1>5, <1>6, <1>7, <1>9

LEMMA NextTry ==
  ASSUME Typed, try' = try + 1, try < MaxTries, step' = 1
  PROVE  /\ try' \in 1..MaxTries /\ step' \in 1..2
         /\ \A r \in sent : r[1] <= try => r[1] <= try'
<1>1. try' \in 1..MaxTries
  BY Bounded
<1>2. \A n \in Nat : n <= try => n <= try'
  BY Bounded
<1>3. step' \in 1..2
  OBVIOUS
<1> QED BY <1>1, <1>2, <1>3, Bounded

LEMMA RepeatStep ==
  ASSUME IInv, Repeat
  PROVE  IInv'
<1> USE DEF IInv, Repeat, call
<1>1. H' = H
  BY SameHandler
<1>2. try' = try + 1 /\ try < MaxTries /\ step' = 1
  BY Zenon
<1>3. Typed'
  <2>1. try' \in 1..MaxTries /\ step' \in 1..2
    BY <1>2, NextTry
  <2> QED BY <2>1 DEF Typed
<1>4. Placed'
  <2>1. 1 \in DOMAIN H.steps
    <3>1. <<try, 1>>[2] = 1
      OBVIOUS
    <3> QED BY <3>1 DEF Placed
  <2>2. \A r \in sent : r[1] <= try
    BY DEF Placed
  <2>3. \A r \in sent : r[1] <= try'
    BY <1>2, <2>2, NextTry
  <2> QED BY <1>1, <1>2, <2>1, <2>3 DEF Placed
<1>5. Admitted' /\ Repeated'
  BY <1>1 DEF Admitted, Repeated, ConfirmGiven, Checked
<1>6. ReplyIsTrue'
  BY DEF ReplyIsTrue
<1> QED BY <1>3, <1>4, <1>5, <1>6

\* The end of one request: what is learned about it, and where the call goes.
Ended(how, body) ==
  /\ how \in {"ok", "error", "limited", "failed"} /\ body \in Bodies(Now)
  /\ outcome' = [outcome EXCEPT ![<<try, step>>] = how]
  /\ how = "ok" => applied[<<try, step>>] # <<>> \/ Now.fn = "Proppatch"
  /\ intact' = (intact /\ body # "cut")
  /\ \/ pc' = "run" /\ step' = step + 1 /\ told' = told /\ ~Last
     \/ /\ pc' = "told" /\ step' = step
        /\ told' = Verdict(Succeeded(Now, how, body))
        /\ Succeeded(Now, how, body) => Last
  /\ UNCHANGED <<call, try, sent, applied>>

LEMMA FinishEnds ==
  ASSUME Finish
  PROVE  pc = "wait" /\ \E how, body : Ended(how, body)
<1>1. PICK how \in Ocis!Outcomes \ {"open"}, body \in Bodies(Now) :
        /\ Outcome(how)
        /\ intact' = (intact /\ body # "cut")
        /\ IF Succeeded(Now, how, body) /\ ~Last
           THEN pc' = "run" /\ step' = step + 1 /\ UNCHANGED told
           ELSE Tell(Verdict(Succeeded(Now, how, body))) /\ UNCHANGED step
  BY Zenon DEF Finish
<1>2. how \in {"ok", "error", "limited", "failed"}
  BY DEF Ocis!Outcomes
<1>3. /\ outcome' = [outcome EXCEPT ![<<try, step>>] = how]
      /\ how = "ok" => applied[<<try, step>>] # <<>> \/ Now.fn = "Proppatch"
      /\ UNCHANGED applied
  BY <1>1, Zenon DEF Outcome, Ocis!End
<1>4. \/ pc' = "run" /\ step' = step + 1 /\ told' = told /\ ~Last
      \/ /\ pc' = "told" /\ step' = step
         /\ told' = Verdict(Succeeded(Now, how, body))
         /\ Succeeded(Now, how, body) => Last
  BY <1>1, Zenon DEF Tell
<1>5. pc = "wait" /\ UNCHANGED <<call, try, sent>>
  BY Zenon DEF Finish
<1>6. Ended(how, body)
  BY <1>1, <1>2, <1>3, <1>4, <1>5, Zenon DEF Ended
<1> QED BY <1>5, <1>6

LEMMA NextRequest ==
  ASSUME tool \in Tools, step \in DOMAIN H.steps, ~Last
  PROVE  step + 1 \in DOMAIN H.steps
BY Steps DEF Last

LEMMA FinishTyped ==
  ASSUME IInv, NEW how, NEW body, Ended(how, body), pc = "wait"
  PROVE  Typed' /\ Placed' /\ Admitted' /\ Repeated'
<1>1. Typed /\ Placed /\ Admitted /\ Repeated /\ tool \in Tools
  BY DEF IInv, Typed
<1>2. /\ UNCHANGED <<tool, blank, confirm, try, sent, applied>>
      /\ outcome' = [outcome EXCEPT ![<<try, step>>] = how]
      /\ how \in {"ok", "error", "limited", "failed"}
      /\ intact' \in BOOLEAN
  BY Zenon DEF Ended, call
<1>3. H' = H
  BY <1>2, SameHandler
<1>4. step \in DOMAIN H.steps
  BY <1>1 DEF Placed
<1>5. Verdict(Succeeded(Now, how, body)) \in {"ok", "error"}
  BY DEF Verdict
<1>6. /\ pc' \in {"run", "told"} /\ told' \in {"", "ok", "error"}
      /\ told' = "" <=> pc' # "told"
  BY <1>1, <1>5 DEF Ended, Placed
<1>7. pc' = "run" => step' \in DOMAIN H.steps
  BY <1>1, <1>4, NextRequest DEF Ended
<1>8. step' \in {1, 2}
  BY <1>1, <1>4, <1>7, Steps DEF Ended
<1>9. step' \in 1..2
  BY <1>8
<1>10. Typed'
  <2>1. outcome' \in [Requests -> Ocis!Outcomes]
    BY <1>1, <1>2 DEF Typed, Ocis!Outcomes
  <2> QED BY <1>1, <1>2, <1>6, <1>9, <2>1 DEF Typed
<1>11. Placed'
  BY <1>1, <1>2, <1>3, <1>6, <1>7 DEF Placed
<1>12. Admitted' /\ Repeated'
  BY <1>1, <1>2, <1>3 DEF Admitted, Repeated, ConfirmGiven, Checked
<1> QED BY <1>10, <1>11, <1>12

LEMMA FinishReplies ==
  ASSUME IInv, NEW how, NEW body, Ended(how, body), pc = "wait"
  PROVE  ReplyIsTrue'
<1>1. Typed /\ Placed /\ tool \in Tools
  BY DEF IInv, Typed
<1>2. /\ UNCHANGED <<tool, try, sent, applied>>
      /\ outcome' = [outcome EXCEPT ![<<try, step>>] = how]
  BY Zenon DEF Ended, call
<1>3. H' = H
  BY <1>2, SameHandler
<1>4. step \in DOMAIN H.steps /\ step \in {1, 2}
  BY <1>1, Steps DEF Placed
<1>5. <<try, step>> \in Requests
  BY <1>1, <1>4, Bounded
<1>6. Fits(tool, H.checks, H.confirm, Now)
  BY <1>1, <1>4, TheHandler DEF Now
<1>7. CASE told' = ""
  BY <1>7 DEF ReplyIsTrue
<1>8. CASE told' = "ok"
  \* The only request of a tool that changes anything has succeeded.
  <2>1. SUFFICES ASSUME NEW i \in DOMAIN H.steps, H.steps[i].does # "read",
                        H.steps[i].fn # "Proppatch"
                 PROVE  <<try, i>> \in Changed'
    BY <1>2, <1>3, <1>8 DEF ReplyIsTrue
  <2>2. i = 1 /\ step = 1 /\ Now = H.steps[i]
    BY <1>1, <1>4, <2>1, TheHandler DEF Short, Now
  <2>3. tool # "health_check" /\ Now.does \in {"set", "relate", "create", "remove"}
    BY <1>6, <2>1, <2>2 DEF Fits, Changing, Mutating, Destroying, Idempotent
  <2>4. Succeeded(Now, how, body)
    BY <1>1, <1>8, <2>3 DEF Ended, Verdict, Placed
  <2>5. applied[<<try, i>>] # <<>>
    BY <2>1, <2>2, <2>4 DEF Ended, Succeeded
  <2>6. <<try, i>>[2] = i
    OBVIOUS
  <2> QED BY <1>2, <1>3, <1>5, <2>2, <2>3, <2>5, <2>6 DEF Changed, Did
<1>9. CASE told' = "error"
  <2>1. ~Succeeded(Now, how, body)
    BY <1>1, <1>9 DEF Ended, Verdict, Placed
  <2>2. CASE how = "ok"
    \* A failure to read what came: it was cut.
    <3>1. Now.fn \in Readers /\ body # "whole" /\ body \in Bodies(Now)
      BY <2>1, <2>2 DEF Succeeded, Ended
    <3>2. body = "cut"
      BY <1>6, <3>1 DEF Fits, Bodies
    <3>3. intact' = FALSE
      BY <3>2 DEF Ended
    <3> QED BY <1>9, <3>3 DEF ReplyIsTrue
  <2>3. CASE how # "ok"
    <3>1. outcome'[<<try, step>>] \in {"error", "limited", "failed"}
      BY <1>1, <1>2, <1>5, <2>3 DEF Ended, Typed
    <3> QED BY <1>2, <1>3, <1>4, <1>9, <3>1 DEF ReplyIsTrue
  <2> QED BY <2>2, <2>3
<1>10. Typed'
  BY FinishTyped
<1> QED BY <1>7, <1>8, <1>9, <1>10 DEF Typed

LEMMA FinishStep ==
  ASSUME IInv, Finish
  PROVE  IInv'
BY FinishEnds, FinishTyped, FinishReplies DEF IInv

LEMMA Inductive ==
  ASSUME IInv, [Next]_vars
  PROVE  IInv'
<1>1. CASE Next
  BY <1>1, RefuseStep, AcceptStep, SendStep, ServeStep, FinishStep, RepeatStep
     DEF Next
<1>2. CASE UNCHANGED vars
  <2>1. /\ UNCHANGED <<tool, blank, confirm, pc, try, step, intact>>
        /\ UNCHANGED <<told, sent, applied, outcome>>
    BY <1>2 DEF vars
  <2>2. H' = H
    BY <2>1, SameHandler
  <2>3. Typed' /\ Placed'
    BY <2>1, <2>2 DEF IInv, Typed, Placed
  <2>4. Admitted' /\ Repeated'
    BY <2>1, <2>2 DEF IInv, Admitted, Repeated, ConfirmGiven, Checked
  <2>5. Changed' = Changed
    BY <2>1, <2>2 DEF Changed, Did
  <2>6. ReplyIsTrue'
    BY <2>1, <2>2, <2>5 DEF IInv, ReplyIsTrue
  <2> QED BY <2>3, <2>4, <2>6 DEF IInv
<1> QED BY <1>1, <1>2

LEMMA Invariant == Spec => []IInv
BY Start, Inductive, PTL DEF Spec

-----------------------------------------------------------------------------
(* What follows from it.                                                   *)

LEMMA DoneByStep ==
  ASSUME IInv, NEW does \in {"set", "relate", "create", "remove"},
         NEW r \in Did(does)
  PROVE  /\ r \in sent /\ r \in Requests /\ r[2] \in DOMAIN H.steps
         /\ H.steps[r[2]].does = does
         /\ Fits(tool, H.checks, H.confirm, H.steps[r[2]])
         /\ tool \in Names(Registered(TRUE))
<1>1. /\ r \in sent /\ r \in Requests /\ r[2] \in DOMAIN H.steps
      /\ H.steps[r[2]].does = does
  BY DEF Did, IInv, Placed
<1>2. tool \in Tools
  BY DEF IInv, Typed
<1> QED BY <1>1, <1>2, TheHandler

\* A tool annotated as read-only leaves oCIS as it was, for any choice of tools
\* and any number of tries.
THEOREM ReadOnlyReads == Spec => []ReadOnlyChangesNothing
<1>1. ASSUME IInv
      PROVE  ReadOnlyChangesNothing
  <2>1. SUFFICES ASSUME NEW r \in Changed
                 PROVE  Hint(tool) # "read"
    BY DEF ReadOnlyChangesNothing
  <2>2. PICK does \in {"set", "relate", "create", "remove"} : r \in Did(does)
    BY DEF Changed
  <2>3. tool \in Names(Registered(TRUE)) /\ tool \in Changing
    BY <1>1, <2>2, DoneByStep DEF Fits
  <2> QED BY <2>3, HintOfRegistered DEF Changing
<1> QED BY <1>1, Invariant, PTL

\* Nothing is removed without confirm=true, nor by a tool that is not annotated
\* as destructive.
THEOREM RemovalIsConfirmed == Spec => []ConfirmedBeforeRemoved
<1>1. ASSUME IInv
      PROVE  ConfirmedBeforeRemoved
  <2>1. SUFFICES ASSUME NEW r \in Did("remove")
                 PROVE  confirm /\ Hint(tool) = "destroy"
    BY DEF ConfirmedBeforeRemoved
  <2>2. r \in sent /\ H.confirm = TRUE /\ tool \in Destroying
        /\ tool \in Names(Registered(TRUE))
    BY <1>1, DoneByStep DEF Fits
  <2>3. confirm
    BY <1>1, <2>2 DEF IInv, Admitted, ConfirmGiven
  <2>4. Hint(tool) = "destroy"
    BY <2>2, HintOfRegistered
  <2> QED BY <2>3, <2>4
<1> QED BY <1>1, Invariant, PTL

\* However often the annotations invite the client to call again, no second
\* thing is created or removed.
THEOREM RepeatingIsHarmless == Spec => []RepeatIsHarmless
<1>1. ASSUME IInv
      PROVE  RepeatIsHarmless
  <2> DEFINE D == Did("create") \cup Did("remove")
  <2>1. \A r \in D : r = <<1, 1>>
    <3>1. SUFFICES ASSUME NEW r \in D
                   PROVE  r = <<1, 1>>
      OBVIOUS
    <3>2. PICK does \in {"create", "remove"} : r \in Did(does)
      OBVIOUS
    <3>3. /\ r \in sent /\ r \in Requests /\ r[2] \in DOMAIN H.steps
          /\ H.steps[r[2]].does = does
          /\ Fits(tool, H.checks, H.confirm, H.steps[r[2]])
          /\ tool \in Names(Registered(TRUE))
      BY <1>1, <3>2, DoneByStep
    <3>4. tool \in Mutating \cup Destroying
      BY <3>2, <3>3 DEF Fits
    <3>5. Hint(tool) \notin Repeatable
      BY <3>3, <3>4, HintOfRegistered DEF Repeatable
    <3>6. ~(try > 1) /\ r[1] <= try
      BY <1>1, <3>3, <3>5 DEF IInv, Repeated, Placed
    <3>7. r[1] \in 1..MaxTries /\ r = <<r[1], r[2]>>
      BY <3>3 DEF Requests
    <3>8. r[1] = 1
      BY <1>1, <3>6, <3>7, Bounded DEF IInv
    <3>9. r[2] = 1
      <4>1. tool \in Tools
        BY <1>1 DEF IInv, Typed
      <4> QED BY <3>2, <3>3, <4>1, TheHandler DEF Short
    <3> QED BY <3>7, <3>8, <3>9
  <2>2. D \in SUBSET {<<1, 1>>}
    BY <2>1
  <2> HIDE DEF D
  <2>3. IsFiniteSet({<<1, 1>>}) /\ Cardinality({<<1, 1>>}) = 1
    BY FS_Singleton
  <2>4. Cardinality(D) <= 1
    BY <2>2, <2>3, FS_Subset
  <2> QED BY <2>4 DEF D, RepeatIsHarmless
<1> QED BY <1>1, Invariant, PTL

\* No request is made for an identifier that was left blank, but for the two
\* that no handler checks.
THEOREM IdentifiersAreChecked == Spec => []IDsValidated
<1>1. ASSUME IInv
      PROVE  IDsValidated
  <2>1. SUFFICES ASSUME NEW r \in sent
                 PROVE  H.steps[r[2]].uses \cap blank \subseteq {"version_id", "item_id"}
    BY DEF IDsValidated
  <2>2. r[2] \in DOMAIN H.steps /\ tool \in Tools /\ H.checks \cap blank = {}
    BY <1>1 DEF IInv, Placed, Admitted, Checked, Typed
  <2>3. H.steps[r[2]].uses \subseteq H.checks \cup Unchecked
    BY <2>2, TheHandler DEF Fits
  <2> QED BY <2>2, <2>3 DEF Unchecked
<1> QED BY <1>1, Invariant, PTL

\* "ok" is said only of a change that oCIS made, "error" only where a request
\* failed or its answer was cut.
THEOREM RepliesAreTrue == Spec => []ReplyIsTrue
<1>1. IInv => ReplyIsTrue
  BY DEF IInv
<1> QED BY <1>1, Invariant, PTL

-----------------------------------------------------------------------------
(* Each kind of answer is made by its own actions.                         *)

LEMMA AnswersStart ==
  ASSUME InitAnswers
  PROVE  asked.what = "nothing"
BY DEF InitAnswers, Nothing

LEMMA WhichAnswer ==
  ASSUME [NextAnswers]_answerVars
  PROVE  /\ asked'.what = "pages" => BeginReading \/ ReadPage \/ UNCHANGED answerVars
         /\ asked'.what = "dav" => ListDav \/ UNCHANGED answerVars
         /\ asked'.what = "file" => ShowFile \/ UNCHANGED answerVars
         /\ asked'.what = "spaces" =>
              AskSpaces \/ TakeDrive \/ PostLevels \/ UNCHANGED answerVars
<1>1. CASE BeginReading
  <2>1. asked'.what = "pages"
    BY <1>1 DEF BeginReading
  <2> QED BY <1>1, <2>1
<1>2. CASE ReadPage
  <2>1. asked'.what = "pages"
    BY <1>2, Zenon DEF ReadPage
  <2> QED BY <1>2, <2>1
<1>3. CASE ListDav
  <2>1. asked'.what = "dav"
    BY <1>3 DEF ListDav
  <2> QED BY <1>3, <2>1
<1>4. CASE ShowFile
  <2>1. asked'.what = "file"
    BY <1>4 DEF ShowFile
  <2> QED BY <1>4, <2>1
<1>5. CASE AskSpaces
  <2>1. asked'.what = "spaces"
    BY <1>5 DEF AskSpaces
  <2> QED BY <1>5, <2>1
<1>6. CASE TakeDrive
  <2>1. asked'.what = "spaces"
    BY <1>6, Zenon DEF TakeDrive
  <2> QED BY <1>6, <2>1
<1>7. CASE PostLevels
  <2>1. asked'.what = "spaces"
    BY <1>7, Zenon DEF PostLevels
  <2> QED BY <1>7, <2>1
<1> QED
  BY <1>1, <1>2, <1>3, <1>4, <1>5, <1>6, <1>7, Zenon DEF NextAnswers

-----------------------------------------------------------------------------
(* The contents of files.                                                  *)

LEMMA CutContents ==
  ASSUME NEW f \in StoredFiles, NEW shown \in {DownloadFile(f), FindAndDownload(f)},
         shown.text, ~shown.truncated
  PROVE  /\ shown.len = f.size
         /\ shown = DownloadFile(f) => f.bad = 0
<1>1. /\ f.size \in Nat /\ f.bad \in 0..MaxSize /\ f.bad <= f.size
  BY ContentsAssumption DEF StoredFiles, File
<1>2. MaxText \in Nat /\ MaxBody \in Nat /\ MaxSize \in Nat /\ MaxText < MaxBody
  BY ContentsAssumption
<1> DEFINE n == Received(f)
<1>3. n \in Nat /\ n <= f.size /\ (n <= MaxText => n = f.size)
  BY <1>1, <1>2 DEF Received, Smaller
<1> HIDE DEF n
<1>4. ~AsMetadata(n).text
  BY DEF AsMetadata
<1>5. shown = AsText(f, n) /\ (shown = DownloadFile(f) => Textual(f, n))
  <2>1. CASE f.text /\ Textual(f, n)
    BY <2>1, <1>4 DEF DownloadFile, FindAndDownload, n
  <2>2. CASE ~(f.text /\ Textual(f, n))
    <3>1. DownloadFile(f) = AsMetadata(n)
      BY <2>2 DEF DownloadFile, n, Textual
    <3>2. shown # DownloadFile(f)
      BY <3>1, <1>4
    <3>3. shown = FindAndDownload(f)
      BY <3>2
    <3> QED BY <3>2, <3>3, <1>4 DEF FindAndDownload, n
  <2> QED BY <2>1, <2>2
<1>6. shown.len = Smaller(n, MaxText) /\ ~(n > MaxText)
  BY <1>5 DEF AsText
<1>7. n <= MaxText
  BY <1>6, <1>2, <1>3
<1>8. shown.len = f.size /\ n = f.size
  BY <1>6, <1>7, <1>2, <1>3 DEF Smaller
<1>9. Textual(f, n) => f.bad = 0
  BY <1>8, <1>1, <1>2 DEF Textual, ValidUpTo
<1> QED BY <1>5, <1>8, <1>9

\* Nothing that Download or maxText cut short is shown as a whole file, and
\* download_file shows no whole file that is not UTF-8 (handleDownloadFile,
\* handleFindAndDownload).
THEOREM CutsAreTold == SpecAnswers => []CutIsTold
<1>1. InitAnswers => CutIsTold
  BY AnswersStart, Zenon DEF CutIsTold
<1>2. CutIsTold /\ [NextAnswers]_answerVars => CutIsTold'
  <2> SUFFICES ASSUME CutIsTold, [NextAnswers]_answerVars,
                      asked'.what = "file", reply'.text, ~reply'.truncated
               PROVE  /\ reply'.len = asked'.file.size
                      /\ asked'.tool = "download_file" => asked'.file.bad = 0
    BY Zenon DEF CutIsTold
  <2>1. CASE UNCHANGED answerVars
    BY <2>1, Zenon DEF CutIsTold, answerVars
  <2>2. CASE ShowFile
    <3>1. PICK f \in StoredFiles, t \in {"download_file", "find_and_download"} :
            /\ asked' = [what |-> "file", file |-> f, tool |-> t]
            /\ reply' = IF t = "download_file" THEN DownloadFile(f)
                        ELSE FindAndDownload(f)
      BY <2>2, Zenon DEF ShowFile
    <3>2. asked'.file = f /\ asked'.tool = t
      BY <3>1
    <3>3. /\ reply' \in {DownloadFile(f), FindAndDownload(f)}
          /\ t = "download_file" => reply' = DownloadFile(f)
      BY <3>1
    <3> QED BY <3>2, <3>3, CutContents
  <2> QED BY <2>1, <2>2, WhichAnswer, Zenon
<1> QED BY <1>1, <1>2, PTL DEF SpecAnswers

-----------------------------------------------------------------------------
(* The pages of a listing.                                                 *)

LEMMA LimitIsClamped ==
  ASSUME NEW lim \in Int
  PROVE  ValidateLimit(lim) \in 1..MaxLimit
BY PagesAssumption DEF ValidateLimit

\* What oCIS fetches is an interval: all that is left, or as many as asked for.
LEMMA FetchedInterval ==
  ASSUME NEW len \in Nat, NEW l \in Nat, NEW o \in Int
  PROVE  /\ IsFiniteSet(Fetched(len, l, o))
         /\ Cardinality(Fetched(len, l, o)) <= l
         /\ Cardinality(Fetched(len, l, o)) = l /\ l > 0 => Skipped(o) + l <= len
         /\ Cardinality(Fetched(len, l, o)) # l => len < Skipped(o) + l
<1> DEFINE last == IF len < Skipped(o) + l THEN len ELSE Skipped(o) + l
<1>1. Skipped(o) \in Nat /\ last \in Nat
  BY DEF Skipped
<1>2. Fetched(len, l, o) = (Skipped(o) + 1)..last
  BY <1>1 DEF Fetched
<1>3. /\ IsFiniteSet(Fetched(len, l, o))
      /\ Cardinality(Fetched(len, l, o)) =
           IF Skipped(o) + 1 > last THEN 0 ELSE last - (Skipped(o) + 1) + 1
  <2>1. Skipped(o) + 1 \in Int /\ last \in Int
    BY <1>1
  <2> HIDE DEF last
  <2> QED BY <2>1, <1>2, FS_Interval
<1> QED BY <1>1, <1>3

\* The state of a reading between two calls.
Progress(q, at) ==
  /\ at.offset \in Int /\ at.calls \in Nat /\ at.longest \in 0..MaxLimit
  /\ at.more \in BOOLEAN /\ at.lost \in BOOLEAN
  /\ at.calls = 0 => at.more /\ at.offset = q.offset
  /\ at.more /\ at.calls > 0 =>
       q.offset + at.calls <= at.offset /\ at.offset <= q.length
  /\ ~at.more /\ at.calls > 1 => at.calls <= q.length - q.offset + 1
  /\ \A i \in 1..q.length :
       q.offset < i /\ i <= at.offset /\ MaySee(q, i) => i \in at.seen
  /\ ~at.more /\ ~at.lost =>
       \A i \in 1..q.length : q.offset < i /\ MaySee(q, i) => i \in at.seen
  /\ q.kind = "spaces" /\ ~q.admin => at.seen \subseteq q.granted

LEMMA ProgressBegun ==
  ASSUME NEW q \in Query
  PROVE  Progress(q, Begun(q))
BY PagesAssumption DEF Progress, Begun, Query

LEMMA QueryFields ==
  ASSUME NEW q \in Query
  PROVE  /\ q.length \in Nat /\ q.limit \in Int /\ q.offset \in Int
         /\ q.admin \in BOOLEAN
BY DEF Query

\* What one page adds, with the number of its entries for its cardinality.
LEMMA PageStep ==
  ASSUME NEW len \in Nat, NEW first \in Int, NEW o \in Int, NEW c \in Nat,
         NEW l \in Nat \ {0}, NEW n \in 0..l,
         c = 0 => o = first,
         c > 0 => first + c <= o /\ o <= len,
         n = l => Skipped(o) + l <= len
  PROVE  /\ n = l => first + (c + 1) <= o + n /\ o + n <= len
         /\ c + 1 > 1 => c + 1 <= len - first + 1
BY DEF Skipped

LEMMA ProgressNext ==
  ASSUME NEW q \in Query, NEW at, Progress(q, at), at.more
  PROVE  Progress(q, NextPage(q, at))
<1> DEFINE l == ValidateLimit(q.limit)
           fetched == Fetched(q.length, l, at.offset)
           page == FilterGrantedDrives(q, fetched)
           n == Cardinality(page)
           next == NextPage(q, at)
<1>1. /\ q.length \in Nat /\ q.offset \in Int /\ l \in Nat \ {0} /\ l \in 1..MaxLimit
      /\ MaxLimit \in Nat
  BY QueryFields, LimitIsClamped, PagesAssumption
<1>2. /\ at.offset \in Int /\ at.calls \in Nat /\ at.longest \in 0..MaxLimit
      /\ at.lost \in BOOLEAN
      /\ at.calls = 0 => at.offset = q.offset
      /\ at.calls > 0 => q.offset + at.calls <= at.offset /\ at.offset <= q.length
      /\ \A i \in 1..q.length :
           q.offset < i /\ i <= at.offset /\ MaySee(q, i) => i \in at.seen
      /\ q.kind = "spaces" /\ ~q.admin => at.seen \subseteq q.granted
  BY DEF Progress
<1>3. /\ page \subseteq fetched
      /\ q.kind = "spaces" /\ ~q.admin => page \subseteq q.granted
      /\ \A i \in fetched : MaySee(q, i) => i \in page
  BY DEF FilterGrantedDrives, MaySee
<1>4. /\ next.offset = at.offset + n
      /\ next.seen = at.seen \cup page
      /\ next.more = (n = l)
      /\ next.lost = (at.lost \/ (Cardinality(fetched) = l /\ page # fetched))
      /\ next.longest = IF n > at.longest THEN n ELSE at.longest
      /\ next.calls = at.calls + 1
  BY DEF NextPage, NextOffset, HasMore
<1> HIDE DEF l, page, next
<1>5. /\ IsFiniteSet(fetched) /\ Cardinality(fetched) <= l
      /\ Cardinality(fetched) = l => Skipped(at.offset) + l <= q.length
      /\ Cardinality(fetched) # l => q.length < Skipped(at.offset) + l
      /\ Cardinality(fetched) \in Nat
  <2>1. q.length \in Nat /\ l \in Nat /\ l > 0 /\ at.offset \in Int
    BY <1>1, <1>2
  <2>2. /\ IsFiniteSet(fetched) /\ Cardinality(fetched) <= l
        /\ Cardinality(fetched) = l => Skipped(at.offset) + l <= q.length
        /\ Cardinality(fetched) # l => q.length < Skipped(at.offset) + l
    BY <2>1, FetchedInterval
  <2> QED BY <2>2, FS_CardinalityType
<1>6. \A i : i \in fetched <=> /\ i \in 1..q.length
                               /\ Skipped(at.offset) < i /\ i <= Skipped(at.offset) + l
  BY DEF Fetched
<1> HIDE DEF fetched
<1>7. n \in Nat /\ n <= Cardinality(fetched)
  BY <1>3, <1>5, FS_Subset, FS_CardinalityType
<1> HIDE DEF n
<1>8. n \in 0..l /\ (n = l => Skipped(at.offset) + l <= q.length)
  BY <1>5, <1>7, <1>1
<1>9. /\ n = l => q.offset + (at.calls + 1) <= at.offset + n /\ at.offset + n <= q.length
      /\ at.calls + 1 > 1 => at.calls + 1 <= q.length - q.offset + 1
  BY <1>1, <1>2, <1>8, PageStep
<1>10. ~next.lost /\ n # l => Cardinality(fetched) # l
  <2>1. page = fetched => n = Cardinality(fetched)
    BY DEF n
  <2> QED BY <2>1, <1>4
<1>11. ASSUME NEW i \in 1..q.length, q.offset < i, i <= at.offset + n, MaySee(q, i)
       PROVE  i \in next.seen
  <2>1. CASE i <= at.offset
    BY <2>1, <1>11, <1>2, <1>4
  <2>2. CASE at.offset < i
    <3>1. Skipped(at.offset) < i /\ i <= Skipped(at.offset) + l
      BY <2>2, <1>11, <1>8, <1>1, <1>2 DEF Skipped
    <3> QED BY <3>1, <1>3, <1>6, <1>11, <1>4
  <2> QED BY <2>1, <2>2, <1>2, <1>11
<1>12. ASSUME ~next.lost, n # l, NEW i \in 1..q.length, q.offset < i, MaySee(q, i)
       PROVE  i \in next.seen
  <2>1. CASE i <= at.offset
    BY <2>1, <1>12, <1>2, <1>4
  <2>2. CASE at.offset < i
    <3>1. q.length < Skipped(at.offset) + l
      BY <1>10, <1>12, <1>5
    <3>2. Skipped(at.offset) < i /\ i <= Skipped(at.offset) + l
      BY <2>2, <3>1, <1>1, <1>2 DEF Skipped
    <3> QED BY <3>2, <1>3, <1>6, <1>12, <1>4
  <2> QED BY <2>1, <2>2, <1>2, <1>12
<1>13. /\ next.offset \in Int /\ next.calls \in Nat /\ next.longest \in 0..MaxLimit
       /\ next.calls > 0
  BY <1>4, <1>2, <1>8, <1>1
<1>14. /\ next.more \in BOOLEAN /\ next.lost \in BOOLEAN /\ (next.more <=> n = l)
       /\ q.kind = "spaces" /\ ~q.admin => next.seen \subseteq q.granted
  BY <1>4, <1>3, <1>2, Zenon
<1>15. /\ next.more => q.offset + next.calls <= next.offset /\ next.offset <= q.length
       /\ next.calls > 1 => next.calls <= q.length - q.offset + 1
  BY <1>14, <1>9, <1>4
<1>16. next.calls # 0
  BY <1>13
<1>17. \A i \in 1..q.length :
         q.offset < i /\ i <= next.offset /\ MaySee(q, i) => i \in next.seen
  BY <1>11, <1>4
<1>18. ~next.more /\ ~next.lost =>
         \A i \in 1..q.length : q.offset < i /\ MaySee(q, i) => i \in next.seen
  BY <1>12, <1>14, Zenon
<1>19. Progress(q, next)
  BY <1>13, <1>14, <1>15, <1>16, <1>17, <1>18, Zenon DEF Progress
<1> QED BY <1>19 DEF next

ReadingInv ==
  asked.what = "pages" => asked.query \in Queries /\ Progress(asked.query, reply)

LEMMA ReadingInvariant == SpecAnswers => []ReadingInv
<1>1. InitAnswers => ReadingInv
  BY AnswersStart, Zenon DEF ReadingInv
<1>2. ReadingInv /\ [NextAnswers]_answerVars => ReadingInv'
  <2> SUFFICES ASSUME ReadingInv, [NextAnswers]_answerVars, asked'.what = "pages"
               PROVE  asked'.query \in Queries /\ Progress(asked'.query, reply')
    BY Zenon DEF ReadingInv
  <2>1. CASE UNCHANGED answerVars
    BY <2>1, Zenon DEF ReadingInv, answerVars
  <2>2. CASE BeginReading
    <3>1. PICK q \in Queries : asked' = [what |-> "pages", query |-> q] /\ reply' = Begun(q)
      BY <2>2, Zenon DEF BeginReading
    <3>2. q \in Query
      BY <3>1, AnswersAssumption
    <3>3. asked'.query = q
      BY <3>1
    <3> QED BY <3>1, <3>2, <3>3, ProgressBegun
  <2>3. CASE ReadPage
    <3>1. /\ asked.what = "pages" /\ reply.more /\ asked' = asked
          /\ reply' = NextPage(asked.query, reply)
      BY <2>3, Zenon DEF ReadPage
    <3>2. asked.query \in Queries /\ Progress(asked.query, reply)
      BY <3>1, Zenon DEF ReadingInv
    <3>3. asked.query \in Query
      BY <3>2, AnswersAssumption
    <3> QED BY <3>1, <3>2, <3>3, ProgressNext
  <2> QED BY <2>1, <2>2, <2>3, WhichAnswer, Zenon
<1> QED BY <1>1, <1>2, PTL DEF SpecAnswers

\* A listing of any length is read to its end, whatever limit and offset it is
\* asked for with, and of spaces every granted one is among what was read, unless
\* a full page lost one to the filter (handleListUsers, handleListSpaces,
\* handleSearch).
THEOREM ListingsAreRead == SpecAnswers => []ListingIsRead
<1>1. ReadingInv => ListingIsRead
  <2> SUFFICES ASSUME ReadingInv, asked.what = "pages"
               PROVE  ListingIsRead
    BY Zenon DEF ListingIsRead
  <2> DEFINE q == asked.query
  <2>1. q \in Query /\ Progress(q, reply)
    BY AnswersAssumption DEF ReadingInv
  <2>2. q.length \in Nat /\ q.offset \in Int /\ MaxLimit \in Nat
    BY <2>1, QueryFields, PagesAssumption
  <2> HIDE DEF q
  <2>3. /\ reply.calls <= 1 \/ reply.calls <= q.length - q.offset + 1
        /\ reply.longest <= MaxLimit
    BY <2>1, <2>2 DEF Progress
  <2>4. /\ ~reply.more /\ ~reply.lost =>
             \A i \in 1..q.length : q.offset < i /\ MaySee(q, i) => i \in reply.seen
        /\ q.kind = "spaces" /\ ~q.admin => reply.seen \subseteq q.granted
    BY <2>1 DEF Progress
  <2>5. \A i \in 1..q.length : i > q.offset => q.offset < i
    BY <2>2
  <2> QED BY <2>3, <2>4, <2>5, Zenon DEF ListingIsRead, q
<1> QED BY <1>1, ReadingInvariant, PTL

-----------------------------------------------------------------------------
(* The entries of a Multi-Status answer.                                   *)

LEMMA PairGroups ==
  ASSUME NEW a, NEW b, NEW r, r.groups = <<a, b>>
  PROVE  /\ Values(r) = (IF a.ok THEN a.props ELSE {}) \cup (IF b.ok THEN b.props ELSE {})
         /\ LastGroup(r) = IF b.ok THEN b.props ELSE {}
<1>1. DOMAIN r.groups = {1, 2} /\ r.groups[1] = a /\ r.groups[2] = b /\ Len(r.groups) = 2
  OBVIOUS
<1>2. LastGroup(r) = IF b.ok THEN b.props ELSE {}
  BY <1>1, Zenon DEF LastGroup
<1>3. \A x : x \in Values(r) <=>
          \E i \in {1, 2} : r.groups[i].ok /\ x \in r.groups[i].props
  BY <1>1, Zenon DEF Values
<1>4. \A x : x \in Values(r) <=> (a.ok /\ x \in a.props) \/ (b.ok /\ x \in b.props)
  BY <1>1, <1>3, Zenon
<1> QED BY <1>2, <1>4, Zenon

LEMMA OneGroup ==
  ASSUME NEW a, NEW r, r.groups = <<a>>, a.ok
  PROVE  Values(r) = a.props /\ LastGroup(r) = a.props
<1>1. DOMAIN r.groups = {1} /\ r.groups[1] = a /\ Len(r.groups) = 1
  OBVIOUS
<1>2. LastGroup(r) = a.props
  BY <1>1, Zenon DEF LastGroup
<1>3. \A x : x \in Values(r) <=> x \in a.props
  BY <1>1, Zenon DEF Values
<1> QED BY <1>2, <1>3, Zenon

\* In whatever order the groups come, a reader of 200 has the values oCIS has.
LEMMA ValuesAreGiven ==
  ASSUME NEW p, NEW has, NEW all, NEW k \in 1..3
  PROVE  /\ Values(Response(p, has, all, k)) = has
         /\ LastGroup(Response(p, has, all, k)) \subseteq has
         /\ Response(p, has, all, k).place = p
<1> DEFINE found == Group(TRUE, has)
           missing == Group(FALSE, all \ has)
           r == Response(p, has, all, k)
<1>1. found.ok /\ found.props = has /\ ~missing.ok
  BY DEF Group
<1>2. r.place = p /\ r.groups = Groupings(has, all)[k]
  BY DEF Response
<1>3. Groupings(has, all) = <<<<found, missing>>, <<missing, found>>, <<found>>>>
  BY Zenon DEF Groupings
<1> HIDE DEF found, missing, r
<1>4. Values(r) = has /\ LastGroup(r) \subseteq has
  <2>1. CASE k = 1
    <3>1. r.groups = <<found, missing>>
      BY <2>1, <1>2, <1>3
    <3>2. /\ Values(r) = (IF found.ok THEN found.props ELSE {})
                           \cup (IF missing.ok THEN missing.props ELSE {})
          /\ LastGroup(r) = IF missing.ok THEN missing.props ELSE {}
      BY <3>1, PairGroups, Zenon
    <3> QED BY <3>2, <1>1
  <2>2. CASE k = 2
    <3>1. r.groups = <<missing, found>>
      BY <2>2, <1>2, <1>3
    <3>2. /\ Values(r) = (IF missing.ok THEN missing.props ELSE {})
                           \cup (IF found.ok THEN found.props ELSE {})
          /\ LastGroup(r) = IF found.ok THEN found.props ELSE {}
      BY <3>1, PairGroups, Zenon
    <3> QED BY <3>2, <1>1
  <2>3. CASE k = 3
    <3>1. r.groups = <<found>>
      BY <2>3, <1>2, <1>3
    <3>2. Values(r) = found.props /\ LastGroup(r) = found.props
      BY <3>1, <1>1, OneGroup, Zenon
    <3> QED BY <3>2, <1>1
  <2> QED BY <2>1, <2>2, <2>3
<1> QED BY <1>2, <1>4 DEF r

\* What AnswerIsShown says of one entry.
EntryShown(kind, e, has) ==
  /\ e.props \subseteq {"name"} \cup has
  /\ ({"name"} \cup has) \ e.props \subseteq (IF kind = "search" THEN ForSearch ELSE {})

LEMMA EntriesAreShown ==
  ASSUME NEW kind \in {"list", "info", "search"}, NEW has \in SUBSET Asked(kind),
         NEW p, NEW k \in 1..3, NEW r, r = Response(p, has, Asked(kind), k)
  PROVE  /\ kind = "search" => /\ ToSearchResult(r).place = p
                               /\ EntryShown(kind, ToSearchResult(r), has)
         /\ kind # "search" => /\ ToFileInfo(r).place = p
                               /\ EntryShown(kind, ToFileInfo(r), has)
<1>1. Values(r) = has /\ LastGroup(r) \subseteq has /\ r.place = p
  BY ValuesAreGiven
<1>2. ASSUME kind = "search"
      PROVE  ToSearchResult(r).place = p /\ EntryShown(kind, ToSearchResult(r), has)
  <2>1. /\ ToSearchResult(r).place = p
        /\ ToSearchResult(r).props
             = ((has \cap Plain) \cup (LastGroup(r) \cap ForSearch)) \cup {"name"}
    BY <1>1 DEF ToSearchResult, Shown
  <2>2. has \subseteq Plain \cup ForSearch
    BY <1>2, Zenon DEF Asked
  <2>3. EntryShown(kind, ToSearchResult(r), has)
    BY <2>1, <2>2, <1>1, <1>2, Zenon DEF EntryShown
  <2> QED BY <2>1, <2>3, Zenon
<1>3. ASSUME kind # "search"
      PROVE  ToFileInfo(r).place = p /\ EntryShown(kind, ToFileInfo(r), has)
  <2>1. /\ ToFileInfo(r).place = p
        /\ ToFileInfo(r).props = (has \cap Plain) \cup {"name"}
    BY <1>1 DEF ToFileInfo, Shown
  <2>2. has \subseteq Plain
    BY <1>3, Zenon DEF Asked
  <2>3. EntryShown(kind, ToFileInfo(r), has)
    BY <2>1, <2>2, <1>3, Zenon DEF EntryShown
  <2> QED BY <2>1, <2>3, Zenon
<1> QED BY <1>2, <1>3, Zenon

\* The target comes first; a listing drops it.
LEMMA FirstDropped ==
  ASSUME NEW n \in Nat, NEW Elems, NEW below \in [1..n -> Elems], NEW target \in Elems
  PROVE  /\ <<target>> \o below # <<>>
         /\ Tail(<<target>> \o below) = below
OBVIOUS

\* The answer that ListDav makes up, and what becomes of it.
Below(kind, n, items, g) == [i \in 1..n |-> Response(i, items[i], Asked(kind), g[i])]
AnswerTo(kind, n, own, items, g) ==
  LET target == Response(0, own, Asked(kind), g[0])
  IN CASE kind = "list" -> <<target>> \o Below(kind, n, items, g)
       [] kind = "info" -> <<target>>
       [] kind = "search" -> Below(kind, n, items, g)

Told(kind, n, own, items, entries) ==
  /\ kind = "list" =>
       [i \in DOMAIN entries |-> entries[i].place] = [i \in DOMAIN items |-> i]
  /\ \A i \in DOMAIN entries :
       EntryShown(kind, entries[i],
                  IF entries[i].place = 0 THEN own ELSE items[entries[i].place])

\* Entries that are those of the resources below the target, in order.
LEMMA ToldInOrder ==
  ASSUME NEW kind, NEW n \in Nat, NEW own, NEW items, DOMAIN items = 1..n,
         NEW entries, DOMAIN entries = 1..n,
         \A i \in 1..n : entries[i].place = i /\ EntryShown(kind, entries[i], items[i])
  PROVE  Told(kind, n, own, items, entries)
<1>1. [i \in DOMAIN entries |-> entries[i].place] = [i \in DOMAIN items |-> i]
  OBVIOUS
<1>2. ASSUME NEW i \in DOMAIN entries
      PROVE  EntryShown(kind, entries[i],
                        IF entries[i].place = 0 THEN own ELSE items[entries[i].place])
  <2>1. entries[i].place = i /\ i # 0 /\ EntryShown(kind, entries[i], items[i])
    OBVIOUS
  <2>2. (IF entries[i].place = 0 THEN own ELSE items[entries[i].place]) = items[i]
    BY <2>1
  <2> QED BY <2>1, <2>2, Zenon
<1> QED BY <1>1, <1>2, Zenon DEF Told

LEMMA ListedEntries ==
  ASSUME NEW kind \in {"list", "info", "search"}, NEW n \in 0..MaxItems,
         NEW own \in SUBSET Asked(kind), NEW items \in [1..n -> SUBSET Asked(kind)],
         NEW g \in [0..n -> 1..3]
  PROVE  Told(kind, n, own, items, Entries(kind, AnswerTo(kind, n, own, items, g)))
<1> DEFINE target == Response(0, own, Asked(kind), g[0])
           below == Below(kind, n, items, g)
           answer == AnswerTo(kind, n, own, items, g)
           entries == Entries(kind, answer)
<1>1. n \in Nat
  BY AnswersAssumption
<1>2. DOMAIN below = 1..n /\ \A i \in 1..n :
        below[i] = Response(i, items[i], Asked(kind), g[i])
  BY DEF Below
<1>3. /\ \A i \in 1..n : items[i] \in SUBSET Asked(kind) /\ g[i] \in 1..3
      /\ g[0] \in 1..3
      /\ DOMAIN items = 1..n
  BY <1>1
<1>4. /\ kind = "list" => answer = <<target>> \o below
      /\ kind = "info" => answer = <<target>>
      /\ kind = "search" => answer = below
  BY Zenon DEF AnswerTo
<1>5. below = [i \in 1..n |-> below[i]]
  BY Zenon DEF Below
<1> HIDE DEF below, answer, entries
<1>6. CASE kind = "list"
  <2> DEFINE Elems == {below[i] : i \in 1..n} \cup {target}
  <2>1. below \in [1..n -> Elems] /\ target \in Elems
    BY <1>2, <1>5
  <2> HIDE DEF Elems, target
  <2>2. answer # <<>> /\ Tail(answer) = below
    BY <2>1, <1>1, <1>4, <1>6, FirstDropped
  <2>3. entries = [i \in DOMAIN below |-> ToFileInfo(below[i])]
    BY <2>2, <1>6, Zenon DEF Entries, Children, Each, entries
  <2>4. DOMAIN entries = 1..n /\ \A i \in 1..n : entries[i] = ToFileInfo(below[i])
    BY <2>3, <1>2, Zenon
  <2>5. ASSUME NEW i \in 1..n
        PROVE  entries[i].place = i /\ EntryShown(kind, entries[i], items[i])
    BY <2>4, <1>2, <1>3, <1>6, EntriesAreShown
  <2> QED BY <2>4, <2>5, <1>1, <1>3, ToldInOrder DEF entries, answer
<1>7. CASE kind = "info"
  <2>1. entries = <<ToFileInfo(target)>>
    <3>1. answer[1] = target
      BY <1>4, <1>7
    <3> QED BY <3>1, <1>7, Zenon DEF Entries, entries
  <2> HIDE DEF target
  <2>2. DOMAIN entries = {1} /\ entries[1] = ToFileInfo(target)
    BY <2>1
  <2>3. entries[1].place = 0 /\ EntryShown(kind, entries[1], own)
    BY <2>2, <1>3, <1>7, EntriesAreShown DEF target
  <2>4. \A i \in DOMAIN entries :
          EntryShown(kind, entries[i],
                     IF entries[i].place = 0 THEN own ELSE items[entries[i].place])
    BY <2>2, <2>3
  <2>5. kind # "list"
    BY <1>7
  <2> QED BY <2>4, <2>5, Zenon DEF Told, entries, answer
<1>8. CASE kind = "search"
  <2>1. entries = [i \in DOMAIN below |-> ToSearchResult(below[i])]
    BY <1>4, <1>8, Zenon DEF Entries, Each, entries
  <2>2. DOMAIN entries = 1..n /\ \A i \in 1..n : entries[i] = ToSearchResult(below[i])
    BY <2>1, <1>2, Zenon
  <2>3. ASSUME NEW i \in 1..n
        PROVE  entries[i].place = i /\ EntryShown(kind, entries[i], items[i])
    BY <2>2, <1>2, <1>3, <1>8, EntriesAreShown
  <2> QED BY <2>2, <2>3, <1>1, <1>3, ToldInOrder DEF entries, answer
<1> QED BY <1>6, <1>7, <1>8

\* Any number of resources, any properties of each, any order of the groups
\* (ToFileInfo, toSearchResults, handleListFiles).
THEOREM AnswersAreShown == SpecAnswers => []AnswerIsShown
<1>1. InitAnswers => AnswerIsShown
  BY AnswersStart, Zenon DEF AnswerIsShown
<1>2. AnswerIsShown /\ [NextAnswers]_answerVars => AnswerIsShown'
  <2> SUFFICES ASSUME AnswerIsShown, [NextAnswers]_answerVars, asked'.what = "dav"
               PROVE  AnswerIsShown'
    BY Zenon DEF AnswerIsShown
  <2>1. CASE UNCHANGED answerVars
    BY <2>1, Zenon DEF AnswerIsShown, answerVars
  <2>2. CASE ListDav
    <3>1. PICK kind \in {"list", "info", "search"}, n \in 0..MaxItems :
            \E own \in SUBSET Asked(kind), items \in [1..n -> SUBSET Asked(kind)],
               g \in [0..n -> 1..3] :
              /\ asked' = [what |-> "dav", kind |-> kind, items |-> items, own |-> own]
              /\ reply' = [entries |-> Entries(kind, AnswerTo(kind, n, own, items, g))]
      BY <2>2, Zenon DEF ListDav, AnswerTo, Below
    <3>2. PICK own \in SUBSET Asked(kind), items \in [1..n -> SUBSET Asked(kind)],
               g \in [0..n -> 1..3] :
            /\ asked' = [what |-> "dav", kind |-> kind, items |-> items, own |-> own]
            /\ reply' = [entries |-> Entries(kind, AnswerTo(kind, n, own, items, g))]
      BY <3>1, Zenon
    <3>3. /\ asked'.kind = kind /\ asked'.items = items /\ asked'.own = own
          /\ reply'.entries = Entries(kind, AnswerTo(kind, n, own, items, g))
      BY <3>2, Zenon
    <3>4. Told(kind, n, own, items, reply'.entries)
      BY <3>2, <3>3, ListedEntries, Zenon
    <3> QED BY <3>3, <3>4, Zenon DEF AnswerIsShown, Told, EntryShown
  <2> QED BY <2>1, <2>2, WhichAnswer, Zenon
<1> QED BY <1>1, <1>2, PTL DEF SpecAnswers

-----------------------------------------------------------------------------
(* The spaces of the wizard: their ceilings and levels.                    *)

LEMMA RolesMapped ==
  ASSUME NEW r \in Roles
  PROVE  /\ MapOcisRole(r) \in 1..3
         /\ MapOcisRole(r) = [viewer |-> 1, editor |-> 2, manager |-> 3, uuid |-> 1][r]
BY DEF Roles, MapOcisRole

LEMMA GreatestLevel ==
  ASSUME NEW Elems \in SUBSET (1..3)
  PROVE  /\ Elems = {} => Greatest(Elems) = 0
         /\ Elems # {} => Greatest(Elems) \in Elems
<1>1. CASE Elems = {}
  BY <1>1, Zenon DEF Greatest
<1>2. CASE Elems # {}
  <2>1. \E m \in Elems : \A n \in Elems : n <= m
    <3>1. CASE 3 \in Elems
      BY <3>1
    <3>2. CASE 3 \notin Elems /\ 2 \in Elems
      BY <3>2
    <3>3. CASE 3 \notin Elems /\ 2 \notin Elems
      <4>1. Elems \subseteq {1}
        BY <3>3
      <4>2. 1 \in Elems
        BY <4>1, <1>2, Zenon
      <4> QED BY <4>1, <4>2
    <3> QED BY <3>1, <3>2, <3>3
  <2>2. Greatest(Elems) = CHOOSE m \in Elems : \A n \in Elems : n <= m
    BY <1>2, Zenon DEF Greatest
  <2> QED BY <2>1, <2>2, <1>2, Zenon
<1> QED BY <1>1, <1>2

LEMMA DriveRoles ==
  ASSUME NEW d \in Drive
  PROVE  RolesOf(d) \subseteq Roles
BY DEF Drive, RolesOf, RootPermission

LEMMA CeilingIsLevel ==
  ASSUME NEW d \in Drive
  PROVE  Ceiling(d) \in 1..3
<1> DEFINE Elems == {MapOcisRole(r) : r \in RolesOf(d)}
<1>1. Elems \in SUBSET (1..3)
  BY DriveRoles, RolesMapped
<1>2. CeilingFromRoles(RolesOf(d)) = Greatest(Elems)
  BY Zenon DEF CeilingFromRoles
<1> HIDE DEF Elems
<1>3. CeilingFromRoles(RolesOf(d)) \in 0..3
  <2>1. Greatest(Elems) = 0 \/ Greatest(Elems) \in Elems
    BY <1>1, GreatestLevel, Zenon
  <2>2. CeilingFromRoles(RolesOf(d)) = 0 \/ CeilingFromRoles(RolesOf(d)) \in 1..3
    BY <1>1, <1>2, <2>1, Zenon
  <2> QED BY <2>2
<1>4. /\ Ceiling(d) \in {CeilingFromRoles(RolesOf(d)), 1, 3}
      /\ Ceiling(d) # 0
  BY DEF Ceiling
<1> QED BY <1>3, <1>4

\* With no roles but the caller's own, the ceiling is the level of that role.
LEMMA CeilingIsOwn ==
  ASSUME NEW d \in Drive, Listable(d), OwnOnly(d), d.type # "personal"
  PROVE  Ceiling(d) \in 1..MapOcisRole(d.own)
<1>1. d.own \in Roles /\ d.permissions \in SUBSET RootPermission
  BY DEF Drive
<1>2. RolesOf(d) \subseteq {d.own}
  BY <1>1, Zenon DEF Listable, OwnOnly, RolesOf
<1>3. MapOcisRole(d.own) \in 1..3
  BY <1>1, RolesMapped
<1> DEFINE Elems == {MapOcisRole(r) : r \in RolesOf(d)}
           c == CeilingFromRoles(RolesOf(d))
<1>4. Elems \subseteq {MapOcisRole(d.own)} /\ c = Greatest(Elems)
  BY <1>2, Zenon DEF CeilingFromRoles
<1>5. Ceiling(d) = IF c # 0 THEN c ELSE 1
  BY Zenon DEF Ceiling
<1> HIDE DEF Elems, c
<1>6. Elems \in SUBSET (1..3)
  BY <1>3, <1>4
<1>7. c = 0 \/ c = MapOcisRole(d.own)
  BY <1>4, <1>6, GreatestLevel, Zenon
<1> QED BY <1>3, <1>5, <1>7

LEMMA ChosenIsOffered ==
  ASSUME NEW ceiling \in 1..3, NEW want \in 0..3
  PROVE  Chosen(want, ceiling) \in LevelsOffered(ceiling)
BY DEF Chosen, ClampLevel, LevelsOffered

LEMMA WordsAreLevels ==
  /\ DOMAIN ParseLevel = {"nothing", "viewer", "editor", "owner"}
  /\ \A w \in DOMAIN ParseLevel : ParseLevel[w] \in 0..3
BY DEF ParseLevel

-----------------------------------------------------------------------------
(* The order of the spaces.                                                *)

Ordered(a, b) ==
  /\ Personal(b) => Personal(a)
  /\ Personal(a) = Personal(b) => a.name < b.name \/ (a.name = b.name /\ a.place < b.place)

LEMMA OrderOf ==
  ASSUME NEW spaces
  PROVE  InOrder(spaces) <=>
           \A i, j \in DOMAIN spaces : i < j => Ordered(spaces[i], spaces[j])
BY DEF InOrder, Ordered, Personal

\* Where Before holds, the older goes first; where it does not, last.
LEMMA BeforeIsOrdered ==
  ASSUME NEW a, NEW b, a.name \in Nat, b.name \in Nat, a.place \in Nat, b.place \in Nat,
         a.place < b.place
  PROVE  /\ Before(a, b) => Ordered(a, b)
         /\ ~Before(a, b) => Ordered(b, a)
BY DEF Before, Ordered, Personal

LEMMA BeforeIsClosed ==
  ASSUME NEW a, NEW b, NEW c, a.name \in Nat, b.name \in Nat, c.name \in Nat,
         Ordered(a, b), Before(b, c)
  PROVE  Before(a, c)
BY DEF Before, Ordered, Personal

LEMMA DownwardClosed ==
  ASSUME NEW k \in Nat, NEW D \in SUBSET (1..k),
         \A i \in D, j \in 1..k : j < i => j \in D
  PROVE  Cardinality(D) \in 0..k /\ D = 1..Cardinality(D)
<1>1. IsFiniteSet(1..k) /\ Cardinality(1..k) = k
  BY FS_Interval
<1>2. IsFiniteSet(D) /\ Cardinality(D) <= k /\ Cardinality(D) \in Nat
  BY <1>1, FS_Subset, FS_CardinalityType
<1> DEFINE n == Cardinality(D)
<1>3. ASSUME NEW i \in D
      PROVE  i <= n
  <2>1. i \in Nat /\ (1..i) \subseteq D
    OBVIOUS
  <2>2. Cardinality(1..i) = i
    BY <2>1, FS_Interval
  <2> QED BY <2>1, <2>2, <1>2, FS_Subset
<1>4. n \in Nat
  BY <1>2
<1>5. D \subseteq 1..n
  BY <1>3, <1>4
<1>6. IsFiniteSet(1..n) /\ Cardinality(1..n) = n
  BY <1>4, FS_Interval
<1>7. D = 1..n
  BY <1>5, <1>6, FS_Subset
<1> QED BY <1>7, <1>2

\* An ordered list of spaces, each from its own drive.
IsEntry(s, drives, n) ==
  /\ s.place \in 1..n /\ drives[s.place].type # "virtual"
  /\ s = Space(s.place, drives[s.place])
IsListing(spaces, drives, n) ==
  /\ Len(spaces) \in Nat /\ DOMAIN spaces = 1..Len(spaces)
  /\ \A i \in DOMAIN spaces : IsEntry(spaces[i], drives, n)
  /\ InOrder(spaces)
  /\ AllShown(spaces, drives, n)

LEMMA EntryFields ==
  ASSUME NEW i, NEW d \in Drive
  PROVE  /\ Space(i, d).place = i /\ Space(i, d).name \in Nat
         /\ Space(i, d).type = d.type /\ Space(i, d).own = d.own /\ d.own \in Roles
         /\ Space(i, d).ownOnly = OwnOnly(d) /\ Space(i, d).ceiling = Ceiling(d)
BY DEF Space, Drive

\* new is list with s after its first n spaces, where it belongs.
Insertion(new, list, k, n, s) ==
  /\ Len(new) = k + 1 /\ DOMAIN new = 1..k + 1
  /\ \A i \in 1..n : new[i] = list[i]
  /\ new[n + 1] = s
  /\ \A i \in n + 2..k + 1 : new[i] = list[i - 1]
Belongs(list, k, n, s) ==
  /\ \A i \in 1..k : i <= n => Ordered(list[i], s)
  /\ \A i \in 1..k : i > n => Ordered(s, list[i])
Older(list, k, s) ==
  /\ s.name \in Nat /\ s.place \in Nat
  /\ \A i \in 1..k : /\ list[i].name \in Nat /\ list[i].place \in Nat
                     /\ list[i].place < s.place

LEMMA Inserted ==
  ASSUME NEW k \in Nat, NEW n \in 0..k, NEW list, NEW s, NEW new,
         new = [i \in 1..k + 1 |->
                  IF i <= n THEN list[i] ELSE IF i = n + 1 THEN s ELSE list[i - 1]]
  PROVE  Insertion(new, list, k, n, s)
BY DEF Insertion

\* Where Place puts a space into an ordered list.
LEMMA PutInPlace ==
  ASSUME NEW list, NEW s, NEW k \in Nat, DOMAIN list = 1..k, Len(list) = k,
         Older(list, k, s), InOrder(list)
  PROVE  \E n \in 0..k : /\ Insertion(Place(list, s), list, k, n, s)
                         /\ Belongs(list, k, n, s)
<1> DEFINE D == {i \in 1..k : Before(list[i], s)}
           n == Cardinality(D)
<1>0. /\ s.name \in Nat /\ s.place \in Nat
      /\ \A i \in 1..k : /\ list[i].name \in Nat /\ list[i].place \in Nat
                         /\ list[i].place < s.place
  BY Zenon DEF Older
<1>1. \A i, j \in 1..k : i < j => Ordered(list[i], list[j])
  BY OrderOf, Zenon
<1>2. \A i, j \in 1..k : i < j /\ Before(list[j], s) => Before(list[i], s)
  BY <1>0, <1>1, BeforeIsClosed, Zenon
<1>3. \A i \in D, j \in 1..k : j < i => j \in D
  BY <1>2, Zenon
<1>4. D \in SUBSET (1..k)
  OBVIOUS
<1>5. Place(list, s) = [i \in 1..k + 1 |->
         IF i <= n THEN list[i] ELSE IF i = n + 1 THEN s ELSE list[i - 1]]
  BY Zenon DEF Place
<1>6. \A i \in 1..k : i \in D <=> Before(list[i], s)
  OBVIOUS
<1> HIDE DEF D
<1>7. n \in 0..k /\ D = 1..n
  BY <1>3, <1>4, DownwardClosed
<1> HIDE DEF n
<1>8. \A i \in 1..k : i <= n <=> Before(list[i], s)
  BY <1>6, <1>7
<1>9. \A i \in 1..k : /\ i <= n => Ordered(list[i], s)
                      /\ i > n => Ordered(s, list[i])
  <2> SUFFICES ASSUME NEW i \in 1..k
               PROVE  /\ i <= n => Ordered(list[i], s)
                      /\ i > n => Ordered(s, list[i])
    OBVIOUS
  <2>1. /\ Before(list[i], s) => Ordered(list[i], s)
        /\ ~Before(list[i], s) => Ordered(s, list[i])
    BY <1>0, BeforeIsOrdered, Zenon
  <2>2. i > n => ~(i <= n)
    BY <1>7
  <2> QED BY <2>1, <2>2, <1>8, Zenon
<1>10. Insertion(Place(list, s), list, k, n, s)
  BY <1>5, <1>7, Inserted, Zenon
<1>11. Belongs(list, k, n, s)
  BY <1>9, Zenon DEF Belongs
<1> QED BY <1>7, <1>10, <1>11, Zenon

LEMMA InsertedInOrder ==
  ASSUME NEW k \in Nat, NEW n \in 0..k, NEW list, DOMAIN list = 1..k, NEW s, NEW new,
         InOrder(list), Insertion(new, list, k, n, s), Belongs(list, k, n, s)
  PROVE  InOrder(new)
<1> USE DEF Insertion, Belongs
<1>1. \A i, j \in 1..k : i < j => Ordered(list[i], list[j])
  BY OrderOf, Zenon
<1>2. ASSUME NEW i \in 1..k + 1, NEW j \in 1..k + 1, i < j
      PROVE  Ordered(new[i], new[j])
  <2>1. CASE j <= n
    <3>1. /\ i \in 1..n /\ j \in 1..n /\ i \in 1..k /\ j \in 1..k
      BY <2>1, <1>2
    <3> QED BY <3>1, <1>1, <1>2, Zenon
  <2>2. CASE j = n + 1
    <3>1. i \in 1..n /\ i \in 1..k /\ i <= n
      BY <2>2, <1>2
    <3> QED BY <3>1, <2>2, Zenon
  <2>3. CASE j > n + 1
    <3>1. j \in n + 2..k + 1 /\ j - 1 \in 1..k /\ j - 1 > n
      BY <2>3
    <3>2. new[j] = list[j - 1]
      BY <3>1, Zenon
    <3>3. CASE i <= n
      <4>1. i \in 1..n /\ i \in 1..k /\ i < j - 1
        BY <3>3, <2>3
      <4> QED BY <4>1, <3>1, <3>2, <1>1, Zenon
    <3>4. CASE i = n + 1
      BY <3>4, <3>1, <3>2, Zenon
    <3>5. CASE i > n + 1
      <4>1. i \in n + 2..k + 1 /\ i - 1 \in 1..k /\ i - 1 < j - 1
        BY <3>5, <1>2
      <4>2. new[i] = list[i - 1]
        BY <4>1, Zenon
      <4> QED BY <4>1, <4>2, <3>1, <3>2, <1>1, Zenon
    <3> QED BY <3>3, <3>4, <3>5
  <2> QED BY <2>1, <2>2, <2>3
<1> QED BY <1>2, OrderOf, Zenon

\* new has the spaces of list and s, and no other.
OneMore(new, list, k, s) ==
  /\ \A i \in 1..k + 1 : new[i] = s \/ \E j \in 1..k : new[i] = list[j]
  /\ \E i \in 1..k + 1 : new[i] = s
  /\ \A j \in 1..k : \E i \in 1..k + 1 : new[i] = list[j]

LEMMA InsertedElements ==
  ASSUME NEW k \in Nat, NEW n \in 0..k, NEW list, NEW s, NEW new,
         Insertion(new, list, k, n, s)
  PROVE  OneMore(new, list, k, s)
<1> USE DEF Insertion
<1>1. ASSUME NEW i \in 1..k + 1
      PROVE  new[i] = s \/ \E j \in 1..k : new[i] = list[j]
  <2>1. CASE i <= n
    <3>1. i \in 1..n /\ i \in 1..k
      BY <2>1
    <3> QED BY <3>1, Zenon
  <2>2. CASE i = n + 1
    BY <2>2, Zenon
  <2>3. CASE i > n + 1
    <3>1. i \in n + 2..k + 1 /\ i - 1 \in 1..k
      BY <2>3
    <3> QED BY <3>1, Zenon
  <2> QED BY <2>1, <2>2, <2>3
<1>2. n + 1 \in 1..k + 1
  OBVIOUS
<1>3. ASSUME NEW j \in 1..k
      PROVE  \E i \in 1..k + 1 : new[i] = list[j]
  <2>1. CASE j <= n
    <3>1. j \in 1..n /\ j \in 1..k + 1
      BY <2>1
    <3> QED BY <3>1, Zenon
  <2>2. CASE j > n
    <3>1. j + 1 \in n + 2..k + 1 /\ j + 1 \in 1..k + 1 /\ (j + 1) - 1 = j
      BY <2>2
    <3>2. new[j + 1] = list[(j + 1) - 1]
      BY <3>1, Zenon
    <3> QED BY <3>1, <3>2
  <2> QED BY <2>1, <2>2
<1> QED BY <1>1, <1>2, <1>3, Zenon DEF OneMore

\* One more drive of the answer, left out if it is virtual.
LEMMA ListedKeeps ==
  ASSUME NEW drives \in DriveLists, NEW m \in Nat, m < Len(drives),
         NEW spaces, IsListing(spaces, drives, m)
  PROVE  IsListing(Listed(spaces, m + 1, drives[m + 1]), drives, m + 1)
<1> DEFINE d == drives[m + 1]
           s == Space(m + 1, d)
           k == Len(spaces)
<1>1. /\ DOMAIN drives = 1..Len(drives) /\ Len(drives) \in Nat
      /\ \A i \in DOMAIN drives : drives[i] \in Drive
  BY AnswersAssumption
<1>2. m + 1 \in DOMAIN drives /\ m + 1 \in Nat /\ m + 1 \in 1..m + 1 /\ d \in Drive
  BY <1>1
<1>3. /\ k \in Nat /\ DOMAIN spaces = 1..k /\ InOrder(spaces)
      /\ \A i \in 1..k : IsEntry(spaces[i], drives, m)
      /\ AllShown(spaces, drives, m)
  BY Zenon DEF IsListing
<1>4. \A i \in 1..m : i \in 1..m + 1 /\ i \in DOMAIN drives /\ i \in Nat /\ i < m + 1
  BY <1>1
<1> HIDE DEF k, d
<1>5. \A e : IsEntry(e, drives, m) => IsEntry(e, drives, m + 1)
  BY <1>4, Zenon DEF IsEntry
<1>6. \A p : p \in 1..m + 1 <=> p \in 1..m \/ p = m + 1
  OBVIOUS
<1>7. \A p : p \in {i \in 1..m + 1 : drives[i].type # "virtual"}
               <=> \/ p \in {i \in 1..m : drives[i].type # "virtual"}
                   \/ p = m + 1 /\ d.type # "virtual"
  BY <1>6, Zenon DEF d
<1>8. CASE d.type = "virtual"
  <2>1. Listed(spaces, m + 1, d) = spaces
    BY <1>8, Zenon DEF Listed
  <2>2. {i \in 1..m + 1 : drives[i].type # "virtual"}
          = {i \in 1..m : drives[i].type # "virtual"}
    BY <1>7, <1>8, Zenon
  <2>3. AllShown(spaces, drives, m + 1)
    BY <1>3, <2>2, Zenon DEF AllShown
  <2> QED BY <1>3, <1>5, <2>1, <2>3, Zenon DEF IsListing, d, k
<1>9. CASE d.type # "virtual"
  <2> DEFINE new == Listed(spaces, m + 1, d)
  <2>1. new = Place(spaces, s)
    BY <1>9, Zenon DEF Listed
  <2>2. s.name \in Nat /\ s.place = m + 1
    BY <1>2, EntryFields, Zenon
  <2>3. IsEntry(s, drives, m + 1)
    BY <1>2, <1>9, <2>2, Zenon DEF IsEntry, d
  <2>4. Older(spaces, k, s)
    <3>1. ASSUME NEW i \in 1..k
          PROVE  /\ spaces[i].name \in Nat /\ spaces[i].place \in Nat
                 /\ spaces[i].place < m + 1
      <4>1. /\ spaces[i].place \in 1..m
            /\ spaces[i] = Space(spaces[i].place, drives[spaces[i].place])
        BY <1>3, Zenon DEF IsEntry
      <4>2. drives[spaces[i].place] \in Drive
        BY <1>1, <1>4, <4>1, Zenon
      <4>3. Space(spaces[i].place, drives[spaces[i].place]).name \in Nat
        BY <4>2, EntryFields, Zenon
      <4> QED BY <4>1, <4>3, <1>4, Zenon
    <3> QED BY <3>1, <2>2, <1>2, Zenon DEF Older
  <2> HIDE DEF new, s
  <2>5. Len(spaces) = k
    BY DEF k
  <2>6. PICK n \in 0..k : Insertion(new, spaces, k, n, s) /\ Belongs(spaces, k, n, s)
    BY <1>3, <2>1, <2>4, <2>5, PutInPlace, Zenon
  <2>7. InOrder(new)
    BY <1>3, <2>6, InsertedInOrder, Zenon
  <2>8. OneMore(new, spaces, k, s)
    BY <1>3, <2>6, InsertedElements, Zenon
  <2>9. \A i \in 1..k + 1 : IsEntry(new[i], drives, m + 1)
    BY <2>8, <2>3, <1>3, <1>5, Zenon DEF OneMore
  <2>10. AllShown(new, drives, m + 1)
    <3>1. \A p : (\E i \in 1..k + 1 : new[i].place = p)
                   <=> (\E j \in 1..k : spaces[j].place = p) \/ p = m + 1
      BY <2>8, <2>2, Zenon DEF OneMore
    <3>2. \A p : (\E j \in 1..k : spaces[j].place = p)
                   <=> p \in {i \in 1..m : drives[i].type # "virtual"}
      BY <1>3, Zenon DEF AllShown
    <3>3. \A p : p \in {new[i].place : i \in DOMAIN new}
                   <=> \E i \in 1..k + 1 : new[i].place = p
      BY <2>6, Zenon DEF Insertion
    <3>4. \A p : p \in {new[i].place : i \in DOMAIN new}
                   <=> p \in {i \in 1..m + 1 : drives[i].type # "virtual"}
      BY <3>1, <3>2, <3>3, <1>7, <1>9, Zenon
    <3> QED BY <3>4, Zenon DEF AllShown
  <2>11. Len(new) \in Nat /\ DOMAIN new = 1..Len(new)
    BY <2>6, <1>3 DEF Insertion
  <2>12. \A i \in DOMAIN new : IsEntry(new[i], drives, m + 1)
    BY <2>9, <2>6, Zenon DEF Insertion
  <2> QED BY <2>7, <2>10, <2>11, <2>12, Zenon DEF IsListing, new, d
<1> QED BY <1>8, <1>9

\* The page while the drives are read, and the levels once the form is posted.
SpacesInv ==
  asked.what = "spaces" =>
    /\ asked.drives \in DriveLists
    /\ reply = [spaces |-> reply.spaces, taken |-> reply.taken, level |-> reply.level]
    /\ reply.taken \in 0..Len(asked.drives)
    /\ IsListing(reply.spaces, asked.drives, reply.taken)
    /\ reply.level # <<>> => reply.taken = Len(asked.drives)
    /\ \A i \in DOMAIN reply.level :
         reply.level[i] \in LevelsOffered(reply.spaces[i].ceiling)

LEMMA NoSpaces ==
  ASSUME NEW drives
  PROVE  IsListing(<<>>, drives, 0)
<1>1. Len(<<>>) = 0 /\ DOMAIN <<>> = {} /\ 1..0 = {} /\ 0 \in Nat
  OBVIOUS
<1>2. InOrder(<<>>)
  BY <1>1, Zenon DEF InOrder
<1>3. AllShown(<<>>, drives, 0)
  BY <1>1, Zenon DEF AllShown
<1> QED BY <1>1, <1>2, <1>3, Zenon DEF IsListing

FromDrive(s, d) ==
  /\ d \in Drive /\ Listable(d) /\ d.own \in Roles
  /\ s.type = d.type /\ s.own = d.own /\ s.ownOnly = OwnOnly(d)
  /\ s.ceiling = Ceiling(d) /\ Ceiling(d) \in 1..3

LEMMA ListingFields ==
  ASSUME NEW drives \in DriveLists, NEW n \in 0..Len(drives),
         NEW spaces, IsListing(spaces, drives, n), NEW i \in DOMAIN spaces
  PROVE  FromDrive(spaces[i], drives[spaces[i].place])
<1>1. /\ DOMAIN drives = 1..Len(drives) /\ Len(drives) \in Nat
      /\ \A j \in DOMAIN drives : drives[j] \in Drive /\ Listable(drives[j])
  BY AnswersAssumption
<1>2. /\ spaces[i].place \in 1..n
      /\ spaces[i] = Space(spaces[i].place, drives[spaces[i].place])
  BY Zenon DEF IsListing, IsEntry
<1>3. spaces[i].place \in DOMAIN drives
  BY <1>1, <1>2
<1> DEFINE s == spaces[i]
           d == drives[s.place]
<1>4. d \in Drive /\ Listable(d) /\ s = Space(s.place, d)
  BY <1>1, <1>2, <1>3, Zenon
<1> HIDE DEF s, d
<1>5. /\ s.type = d.type /\ s.own = d.own /\ d.own \in Roles
      /\ s.ownOnly = OwnOnly(d) /\ s.ceiling = Ceiling(d)
  <2>1. /\ Space(s.place, d).type = d.type /\ Space(s.place, d).own = d.own
        /\ Space(s.place, d).ownOnly = OwnOnly(d) /\ Space(s.place, d).ceiling = Ceiling(d)
        /\ d.own \in Roles
    BY <1>4, EntryFields, Zenon
  <2> QED BY <1>4, <2>1
<1>6. Ceiling(d) \in 1..3
  BY <1>4, CeilingIsLevel
<1> QED BY <1>4, <1>5, <1>6, Zenon DEF s, d, FromDrive

LEMMA PostedLevels ==
  ASSUME NEW spaces, NEW words \in Words(spaces), NEW i \in DOMAIN LevelsPOST(spaces, words),
         \A j \in DOMAIN spaces : spaces[j].ceiling \in 1..3
  PROVE  LevelsPOST(spaces, words)[i] \in LevelsOffered(spaces[i].ceiling)
<1> PICK selected \in SUBSET DOMAIN spaces : words \in [selected -> DOMAIN ParseLevel]
  BY Zenon DEF Words
<1>1. i \in DOMAIN spaces /\ i \in selected /\ i \in DOMAIN words
  BY DEF LevelsPOST
<1>2. words[i] \in DOMAIN ParseLevel
  BY <1>1, Zenon
<1>3. ParseLevel[words[i]] \in 0..3
  BY <1>2, WordsAreLevels, Zenon
<1>4. LevelsPOST(spaces, words)[i] = Chosen(ParseLevel[words[i]], spaces[i].ceiling)
  BY <1>1, Zenon DEF LevelsPOST
<1> QED BY <1>1, <1>3, <1>4, ChosenIsOffered

LEMMA SpacesInvariant == SpecAnswers => []SpacesInv
<1>1. InitAnswers => SpacesInv
  BY AnswersStart, Zenon DEF SpacesInv
<1>2. SpacesInv /\ [NextAnswers]_answerVars => SpacesInv'
  <2> SUFFICES ASSUME SpacesInv, [NextAnswers]_answerVars, asked'.what = "spaces"
               PROVE  SpacesInv'
    BY Zenon DEF SpacesInv
  <2>1. CASE UNCHANGED answerVars
    BY <2>1, Zenon DEF SpacesInv, answerVars
  <2>2. CASE AskSpaces
    <3>1. PICK drives \in DriveLists : asked' = [what |-> "spaces", drives |-> drives]
      BY <2>2, Zenon DEF AskSpaces
    <3>2. reply' = [spaces |-> <<>>, taken |-> 0, level |-> <<>>]
      BY <2>2, Zenon DEF AskSpaces
    <3>3. /\ asked'.drives = drives /\ reply'.spaces = <<>> /\ reply'.taken = 0
          /\ reply'.level = <<>> /\ DOMAIN <<>> = {}
      BY <3>1, <3>2
    <3>4. Len(drives) \in Nat
      BY <3>1, AnswersAssumption
    <3>5. 0 \in 0..Len(drives)
      BY <3>4
    <3> QED BY <3>1, <3>2, <3>3, <3>5, NoSpaces, Zenon DEF SpacesInv
  <2>3. CASE TakeDrive
    <3> DEFINE m == reply.taken
               drives == asked.drives
    <3>1. /\ asked.what = "spaces" /\ m < Len(drives) /\ asked' = asked
          /\ reply' = [reply EXCEPT !.taken = m + 1,
                                    !.spaces = Listed(@, m + 1, drives[m + 1])]
      BY <2>3, Zenon DEF TakeDrive
    <3>2. /\ drives \in DriveLists /\ m \in 0..Len(drives)
          /\ reply = [spaces |-> reply.spaces, taken |-> reply.taken, level |-> reply.level]
          /\ IsListing(reply.spaces, drives, m)
          /\ reply.level # <<>> => m = Len(drives)
      BY <3>1, Zenon DEF SpacesInv
    <3>3. Len(drives) \in Nat
      BY <3>2, AnswersAssumption
    <3>4. /\ reply'.taken = m + 1 /\ reply'.level = reply.level
          /\ reply'.spaces = Listed(reply.spaces, m + 1, drives[m + 1])
          /\ reply' = [spaces |-> reply'.spaces, taken |-> reply'.taken,
                       level |-> reply'.level]
      BY <3>1, <3>2
    <3> HIDE DEF m, drives
    <3>5. m \in Nat /\ m + 1 \in 0..Len(drives) /\ m # Len(drives)
      BY <3>1, <3>2, <3>3
    <3>6. reply.level = <<>>
      BY <3>2, <3>5, Zenon
    <3>7. IsListing(reply'.spaces, drives, m + 1)
      BY <3>1, <3>2, <3>4, <3>5, ListedKeeps, Zenon
    <3>8. DOMAIN reply'.level = {}
      BY <3>4, <3>6
    <3> QED BY <3>1, <3>2, <3>4, <3>5, <3>6, <3>7, <3>8, Zenon DEF SpacesInv, drives
  <2>4. CASE PostLevels
    <3>1. /\ asked.what = "spaces" /\ reply.taken = Len(asked.drives) /\ asked' = asked
          /\ \E words \in Words(reply.spaces) :
               reply' = [reply EXCEPT !.level = LevelsPOST(reply.spaces, words)]
      BY <2>4, Zenon DEF PostLevels
    <3>2. PICK words \in Words(reply.spaces) :
            reply' = [reply EXCEPT !.level = LevelsPOST(reply.spaces, words)]
      BY <3>1, Zenon
    <3>3. /\ asked.drives \in DriveLists /\ reply.taken \in 0..Len(asked.drives)
          /\ reply = [spaces |-> reply.spaces, taken |-> reply.taken, level |-> reply.level]
          /\ IsListing(reply.spaces, asked.drives, reply.taken)
      BY <3>1, Zenon DEF SpacesInv
    <3>4. /\ reply'.spaces = reply.spaces /\ reply'.taken = reply.taken
          /\ reply'.level = LevelsPOST(reply.spaces, words)
          /\ reply' = [spaces |-> reply'.spaces, taken |-> reply'.taken,
                       level |-> reply'.level]
      BY <3>2, <3>3
    <3>5. \A j \in DOMAIN reply.spaces : reply.spaces[j].ceiling \in 1..3
      <4> TAKE j \in DOMAIN reply.spaces
      <4>1. /\ reply.spaces[j].ceiling = Ceiling(asked.drives[reply.spaces[j].place])
            /\ Ceiling(asked.drives[reply.spaces[j].place]) \in 1..3
        BY <3>3, ListingFields, Zenon DEF FromDrive
      <4> QED BY <4>1, Zenon
    <3>6. \A i \in DOMAIN LevelsPOST(reply.spaces, words) :
            LevelsPOST(reply.spaces, words)[i] \in LevelsOffered(reply.spaces[i].ceiling)
      BY <3>2, <3>5, PostedLevels, Zenon
    <3> QED BY <3>1, <3>3, <3>4, <3>6, Zenon DEF SpacesInv
  <2> QED BY <2>1, <2>2, <2>3, <2>4, WhichAnswer, Zenon
<1> QED BY <1>1, <1>2, PTL DEF SpecAnswers

\* The wizard lists every drive of the answer but the virtual ones, in order, and
\* offers no level above the caller's own role where oCIS lists only that; no form
\* stores a level the page did not offer (AccessibleSpaces, LevelsPOST).
THEOREM LevelsAreOwn == SpecAnswers => []OfferedIsOwn
<1>1. SpacesInv => OfferedIsOwn
  <2> SUFFICES ASSUME SpacesInv, asked.what = "spaces"
               PROVE  OfferedIsOwn
    BY Zenon DEF OfferedIsOwn
  <2> DEFINE level(own) == [viewer |-> 1, editor |-> 2, manager |-> 3, uuid |-> 1][own]
  <2>1. /\ asked.drives \in DriveLists /\ reply.taken \in 0..Len(asked.drives)
        /\ IsListing(reply.spaces, asked.drives, reply.taken)
        /\ \A i \in DOMAIN reply.level :
             reply.level[i] \in LevelsOffered(reply.spaces[i].ceiling)
    BY Zenon DEF SpacesInv
  <2>2. ASSUME NEW i \in DOMAIN reply.spaces,
               ~Personal(reply.spaces[i]), reply.spaces[i].ownOnly
        PROVE  reply.spaces[i].ceiling \in 1..level(reply.spaces[i].own)
    <3> DEFINE s == reply.spaces[i]
               d == asked.drives[s.place]
    <3>1. /\ d \in Drive /\ Listable(d) /\ d.own \in Roles
          /\ s.type = d.type /\ s.own = d.own
          /\ s.ownOnly = OwnOnly(d) /\ s.ceiling = Ceiling(d)
      <4>1. FromDrive(s, d)
        BY <2>1, ListingFields, Zenon
      <4> QED BY <4>1, Zenon DEF FromDrive
    <3>3. OwnOnly(d) /\ d.type # "personal"
      BY <2>2, <3>1, Zenon DEF Personal
    <3>4. Ceiling(d) \in 1..MapOcisRole(d.own)
      BY <3>1, <3>3, CeilingIsOwn
    <3>5. MapOcisRole(d.own) = level(d.own)
      BY <3>1, RolesMapped, Zenon
    <3> QED BY <3>1, <3>4, <3>5, Zenon
  <2>3. InOrder(reply.spaces) /\ AllShown(reply.spaces, asked.drives, reply.taken)
    BY <2>1, Zenon DEF IsListing
  <2> QED BY <2>1, <2>2, <2>3, Zenon DEF OfferedIsOwn
<1> QED BY <1>1, SpacesInvariant, PTL

=============================================================================
