------------------------------ MODULE ToolGate ------------------------------
(***************************************************************************)
(* grantMiddleware: what an MCP client sees and may do under the grant     *)
(* that mcpBearer put into the context of its request.  tools/list is      *)
(* filtered by VisibleTools, tools/call is decided by Allow; both go back  *)
(* to ToolNeed and to the levels of the grant, but they decide separately. *)
(*                                                                         *)
(* A client session is modelled: it may list, call any registered tool     *)
(* with any input of its schema, and list again.  A space argument is      *)
(* Absent when the input has none; the two names a space may have in an    *)
(* input (space_id, drive_id) come from the catalog, no tool has both.     *)
(* Allow decides on that argument; where the requests of the handler go is *)
(* another matter, and kept apart.                                         *)
(***************************************************************************)
EXTENDS ToolCatalog, FiniteSets

CONSTANTS
  SpaceIds,   \* spaces an input may name
  Absent      \* the empty string: no space named

ASSUME GateAssumption == Absent \notin SpaceIds

\* A grant of the consent wizard: the spaces ticked, with their levels.
Grants == [admin : BOOLEAN,
           level : UNION {[S -> Levels] : S \in SUBSET SpaceIds}]

VARIABLES
  education,  \* the education tools are registered
  grant,      \* *grant.Grant of the session
  listed,     \* names of the last tools/list; {} before the first
  call        \* the last tools/call that reached its handler; {} before

vars == <<education, grant, listed, call>>

\* space is the argument Allow sees, reached the space in the paths of the
\* requests; Absent for a path with no space in it.
Calls == [tool : Core \cup Education, space : SpaceIds \cup {Absent},
          reached : SpaceIds \cup {Absent}]

TypeOK ==
  /\ education \in BOOLEAN
  /\ grant \in Grants
  /\ listed \subseteq Names(Registered(education))
  /\ call \subseteq Calls

Init ==
  /\ education \in BOOLEAN
  /\ grant \in Grants
  /\ listed = {}
  /\ call = {}

-----------------------------------------------------------------------------
BestLevel(g, space) ==      \* mutation: the best level of any space
  IF \E s \in DOMAIN g.level : g.level[s] > 0
  THEN CHOOSE l \in Levels : /\ \E s \in DOMAIN g.level : g.level[s] = l
                             /\ \A s \in DOMAIN g.level : g.level[s] <= l
  ELSE 0
SpaceLevel(g, space) == IF space \in DOMAIN g.level THEN g.level[space] ELSE 0

ManagerSuffices(g) ==       \* mutation: space admin implies instance admin
  g.admin \/ \E s \in DOMAIN g.level : g.level[s] = LevelAdmin
InstanceAdmin(g) == g.admin

SomeSpace(g, level) == \E s \in DOMAIN g.level : g.level[s] >= level

Allow(g, name, space) ==
  LET need == ToolNeed(name)
  IN \/ need.always
     \/ need.instance /\ InstanceAdmin(g)
     \/ need.space > 0 /\ space # Absent /\ SpaceLevel(g, space) >= need.space
     \/ need.any > 0 /\ SomeSpace(g, need.any)

AllowedWithoutId(g, names) ==      \* mutation: no second look
  {n \in names : Allow(g, n, Absent)}
AnyLevelLists(g, names) ==         \* mutation: a granted space, at any level
  {n \in names : \/ Allow(g, n, Absent)
                 \/ ToolNeed(n).space > 0 /\ SomeSpace(g, LevelRead)}
VisibleTools(g, names) ==
  {n \in names : \/ Allow(g, n, Absent)
                 \/ ToolNeed(n).space > 0 /\ SomeSpace(g, ToolNeed(n).space)}

\* What an input of the tool may name.
SpaceArgument(tool) ==
  CASE tool.field = "none" -> {Absent}
    [] tool.field = "optional" -> SpaceIds \cup {Absent}
    [] OTHER -> SpaceIds

\* The tools of files.go that address a resource by its id alone, which names
\* the space it is in: the versions of a file always (/dav/meta/{file_id}/v),
\* get_resource_by_id when the id is a full one (it holds a $ or a !).
AddressedById == {"get_file_versions", "restore_file_version", "get_resource_by_id"}

ItemAlone(tool, space) ==  \* mutation: drive_id left out of the items path
  IF tool.name \in AddressedById \cup {"get_resource_metadata"}
  THEN SpaceIds ELSE {space}
\* Where the requests may go: every other handler builds its paths from the
\* space of its input (davPath, permPath, "/graph/v1.0/drives/"+space).
Reached(tool, space) ==
  IF tool.name \in AddressedById THEN SpaceIds ELSE {space}

-----------------------------------------------------------------------------
ToolsList ==
  /\ listed' = VisibleTools(grant, Names(Registered(education)))
  /\ UNCHANGED <<education, grant, call>>

\* A refused call changes nothing; an allowed one reaches its handler.
ToolsCall ==
  \E tool \in Registered(education) : \E space \in SpaceArgument(tool) :
    /\ Allow(grant, tool.name, space)
    /\ \E s \in Reached(tool, space) :
         call' = {[tool |-> tool, space |-> space, reached |-> s]}
    /\ UNCHANGED <<education, grant, listed>>

Next == ToolsList \/ ToolsCall

Spec == Init /\ [][Next]_vars

-----------------------------------------------------------------------------
Callable(tool) == \E space \in SpaceArgument(tool) : Allow(grant, tool.name, space)

\* tools/list hides nothing the client could use: whatever a call reached, the
\* list taken under the same grant has it (VisibleTools against Allow).
NothingHidden == \A c \in call : listed # {} => c.tool.name \in listed

\* Every tool listed can be called with some input of its schema; but for two,
\* whose need is a space and whose input has none, so that they are listed and
\* every call is refused ("AnySpace: tool is not tied to one id", catalog.go).
ListedIsCallable ==
  \A tool \in Registered(education) : tool.name \in listed =>
    Callable(tool) \/ tool.name \in {"list_shared_by_me", "list_received_shares"}

\* A call that changes anything (its annotations say so) was made under a
\* grant of level write or admin for the space its input names, or of some
\* space when its need is not tied to one; otherwise under instance
\* administration.  The annotations are in internal/tools, the levels in
\* internal/grant.  It is about the argument, not about the space reached.
ChangesNeedWrite ==
  \A c \in call : c.tool.hint # "read" =>
    \/ grant.admin
    \/ \E s \in DOMAIN grant.level :
         /\ grant.level[s] >= LevelWrite
         /\ c.tool.name \notin AnyWriteTools => c.space = s

\* "Admin on a space means oCIS Manager.  It does not unlock
\* users/groups/roles": whatever the levels, a handler of users.go, groups.go,
\* settings.go or education.go is reached with instance administration only,
\* but for get_me.
DirectoryNeedsInstanceAdmin ==
  \A c \in call :
    c.tool \in (Users \cup Groups \cup Settings \cup Education)
      /\ c.tool.name # "get_me" => grant.admin

\* A call that is not always allowed has a space at level read or more behind
\* it, so that a grant with no space, or with spaces at level none (the wizard
\* stores both when its forms are submitted out of order), permits nothing
\* else; and the requests of the call go to such a space.  Two kinds of tools
\* are outside the second half: those not tied to one space (accept_share and
\* reject_share are among them, their space_id is a part of the path that Allow
\* does not look at), and the three addressed by an id, of which only the space
\* the input names is within the consent, not the one the id leads to.
InsideConsent ==
  \A c \in call : c.tool.name \notin AlwaysTools /\ ~grant.admin =>
    \E s \in DOMAIN grant.level :
      /\ grant.level[s] >= LevelRead
      /\ \/ c.tool.name \in AnyReadTools \cup AnyWriteTools
         \/ c.reached = s
         \/ /\ c.tool.name \in {"get_file_versions", "restore_file_version",
                                "get_resource_by_id"}
            /\ c.space = s
=============================================================================
