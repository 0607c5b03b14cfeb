--------------------------- MODULE ToolGateProofs ---------------------------
(***************************************************************************)
(* Theorems about the tool gate for any set of spaces.  The properties are *)
(* about the last call that reached a handler, so each is proved from the  *)
(* guard of ToolsCall and a lemma that compares the two tables of the      *)
(* catalog name by name.                                                   *)
(***************************************************************************)
EXTENDS ToolGate, TLAPS

Classified == AlwaysTools \cup SpaceReadTools \cup SpaceWriteTools
                \cup SpaceAdminTools \cup AnyReadTools \cup AnyWriteTools

\* A name in no class needs instance administration and nothing else helps.
LEMMA DefaultNeed ==
  ASSUME NEW name, name \notin Classified
  PROVE  ToolNeed(name) = [NoNeed EXCEPT !.instance = TRUE]
BY DEF ToolNeed, Classified

LEMMA DefaultAllow ==
  ASSUME NEW g, NEW space, NEW name, name \notin Classified, Allow(g, name, space)
  PROVE  g.admin
<1>1. /\ ~ToolNeed(name).always
      /\ ToolNeed(name).space = 0
      /\ ToolNeed(name).any = 0
  BY DefaultNeed DEF NoNeed
<1> QED BY <1>1 DEF Allow, InstanceAdmin

\* No registration of the user, group, settings and education tools has a
\* name the catalog classifies, but get_me.
LEMMA DirectoryUnclassified ==
  ASSUME NEW tool \in Users \cup Groups \cup Settings \cup Education,
         tool.name # "get_me"
  PROVE  tool.name \notin Classified
<1> DEFINE U == {"list_users", "get_user", "create_user", "update_user", "delete_user"}
           G == {"list_groups", "get_group", "create_group", "add_group_member",
                 "update_group", "delete_group", "remove_group_member"}
           S == {"list_roles", "list_assignments", "assign_role"}
           E == {"list_education_schools", "get_education_school",
                 "list_education_users", "get_education_user",
                 "create_education_user"}
<1>1. tool \in Users => tool.name \in U
  BY DEF Users, Add
<1>2. tool \in Groups => tool.name \in G
  BY DEF Groups, Add
<1>3. tool \in Settings => tool.name \in S
  BY DEF Settings, Add
<1>4. tool \in Education => tool.name \in E
  BY DEF Education, Add
<1>5. \A n \in U \cup G \cup S \cup E : n \notin Classified
  BY DEF Classified, AlwaysTools, SpaceReadTools, SpaceWriteTools,
         SpaceAdminTools, AnyReadTools, AnyWriteTools
<1> QED BY <1>1, <1>2, <1>3, <1>4, <1>5

-----------------------------------------------------------------------------
\* A call that reached its handler was allowed, and an allowed call is the
\* only thing a step adds.
CallAllowed ==
  \A c \in call : /\ c.tool \in Core \cup Education
                 /\ Allow(grant, c.tool.name, c.space)
                 /\ c.reached \in Reached(c.tool, c.space)

LEMMA CallAllowedInit == Init => CallAllowed
BY DEF Init, CallAllowed

LEMMA CallAllowedStep == CallAllowed /\ [Next]_vars => CallAllowed'
<1> SUFFICES ASSUME CallAllowed, [Next]_vars
             PROVE  CallAllowed'
  OBVIOUS
<1>1. CASE ToolsList
  BY <1>1 DEF ToolsList, CallAllowed
<1>2. CASE ToolsCall
  <2>1. PICK tool \in Registered(education) :
          \E space \in SpaceArgument(tool) :
            /\ Allow(grant, tool.name, space)
            /\ \E s \in Reached(tool, space) :
                 call' = {[tool |-> tool, space |-> space, reached |-> s]}
            /\ UNCHANGED <<education, grant, listed>>
    BY <1>2 DEF ToolsCall
  <2>2. PICK space \in SpaceArgument(tool) :
          /\ Allow(grant, tool.name, space)
          /\ \E s \in Reached(tool, space) :
               call' = {[tool |-> tool, space |-> space, reached |-> s]}
          /\ UNCHANGED <<education, grant, listed>>
    BY <2>1
  <2>2a. PICK s \in Reached(tool, space) :
           call' = {[tool |-> tool, space |-> space, reached |-> s]}
    BY <2>2
  <2>3. tool \in Core \cup Education
    BY <2>1 DEF Registered
  <2> SUFFICES ASSUME NEW c \in call'
               PROVE  /\ c.tool \in Core \cup Education
                      /\ Allow(grant', c.tool.name, c.space)
                      /\ c.reached \in Reached(c.tool, c.space)
    BY DEF CallAllowed
  <2>4. c.tool = tool /\ c.space = space /\ c.reached \in Reached(tool, space)
    BY <2>2a
  <2> QED BY <2>2, <2>3, <2>4
<1>3. CASE UNCHANGED vars
  BY <1>3 DEF vars, CallAllowed
<1> QED BY <1>1, <1>2, <1>3 DEF Next

LEMMA AlwaysCallAllowed == Spec => []CallAllowed
BY CallAllowedInit, CallAllowedStep, PTL DEF Spec

-----------------------------------------------------------------------------
LEMMA TypeInit == Init => TypeOK
BY DEF Init, TypeOK

LEMMA TypeStep == TypeOK /\ [Next]_vars => TypeOK'
<1> SUFFICES ASSUME TypeOK, [Next]_vars
             PROVE  TypeOK'
  OBVIOUS
<1>1. CASE ToolsList
  <2>1. listed' \subseteq Names(Registered(education))
    BY <1>1 DEF ToolsList, VisibleTools
  <2> QED BY <1>1, <2>1 DEF ToolsList, TypeOK
<1>2. CASE ToolsCall
  <2>1. \A tool : SpaceArgument(tool) \subseteq SpaceIds \cup {Absent}
    BY DEF SpaceArgument
  <2>2. Registered(education) \subseteq Core \cup Education
    BY DEF Registered
  <2>2a. \A tool : \A space \in SpaceArgument(tool) :
           Reached(tool, space) \subseteq SpaceIds \cup {Absent}
    BY <2>1 DEF Reached
  <2>3. call' \subseteq Calls
    BY <1>2, <2>1, <2>2, <2>2a DEF ToolsCall, Calls
  <2> QED BY <1>2, <2>3 DEF ToolsCall, TypeOK
<1>3. CASE UNCHANGED vars
  BY <1>3 DEF vars, TypeOK
<1> QED BY <1>1, <1>2, <1>3 DEF Next

\* The session's grant stays a grant of the wizard, and what was listed or
\* called stays within the registered tools and the inputs of their schemas.
THEOREM GateTypeCorrect == Spec => []TypeOK
BY TypeInit, TypeStep, PTL DEF Spec

-----------------------------------------------------------------------------
\* Whatever levels a grant has on however many spaces, the user, group,
\* settings and education handlers are reached only with instance
\* administration (Allow, ToolNeed, registerUsers, registerGroups, ...).
THEOREM DirectoryIsSeparate == Spec => []DirectoryNeedsInstanceAdmin
<1>1. CallAllowed => DirectoryNeedsInstanceAdmin
  <2> SUFFICES ASSUME CallAllowed, NEW c \in call,
                      c.tool \in (Users \cup Groups \cup Settings \cup Education),
                      c.tool.name # "get_me"
               PROVE  grant.admin
    BY DEF DirectoryNeedsInstanceAdmin
  <2>1. c.tool.name \notin Classified
    BY DirectoryUnclassified
  <2>2. Allow(grant, c.tool.name, c.space)
    BY DEF CallAllowed
  <2> QED BY <2>1, <2>2, DefaultAllow
<1> QED BY <1>1, AlwaysCallAllowed, PTL

\* The registrations with a hint other than "read" that need no instance
\* administration need level write or admin: first the registrations, file by
\* file, then the catalog, class by class.
LEMMA ReadHints ==
  ASSUME NEW names, NEW field, NEW t \in Add(names, field, "read")
  PROVE  t.hint = "read"
BY DEF Add

LEMMA AddedNames ==
  ASSUME NEW names, NEW field, NEW hint, NEW t \in Add(names, field, hint)
  PROVE  t.name \in names
BY DEF Add

\* Names that are reached with read access or with none at all.
Weak == AlwaysTools \cup SpaceReadTools \cup AnyReadTools

LEMMA ChangingNotWeak ==
  ASSUME NEW t \in Core \cup Education, t.hint # "read"
  PROVE  t.name \notin Weak
<1> USE AddedNames, ReadHints
<1>1. CASE t \in Users \cup Groups
  BY <1>1 DEF Users, Groups, Weak, AlwaysTools, SpaceReadTools, AnyReadTools
<1>2. CASE t \in Spaces
  BY <1>2 DEF Spaces, Weak, AlwaysTools, SpaceReadTools, AnyReadTools
<1>3. CASE t \in Files
  BY <1>3 DEF Files, Weak, AlwaysTools, SpaceReadTools, AnyReadTools
<1>4. CASE t \in Shares
  BY <1>4 DEF Shares, Weak, AlwaysTools, SpaceReadTools, AnyReadTools
<1>5. CASE t \in Search \cup Notifications \cup Settings \cup AppTokens \cup Admin
  BY <1>5 DEF Search, Notifications, Settings, AppTokens, Admin, Weak, AlwaysTools,
              SpaceReadTools, AnyReadTools
<1>6. CASE t \in OCM \cup Workflows \cup Education
  BY <1>6 DEF OCM, Workflows, Education, Weak, AlwaysTools, SpaceReadTools, AnyReadTools
<1> QED BY <1>1, <1>2, <1>3, <1>4, <1>5, <1>6 DEF Core

\* What the catalog asks for a name that is not weak.
LEMMA NeedOfChanging ==
  ASSUME NEW name, name \notin Weak
  PROVE  /\ ~ToolNeed(name).always
         /\ ToolNeed(name).space \in {0, LevelWrite, LevelAdmin}
         /\ ToolNeed(name).any \in {0, LevelWrite}
         /\ ToolNeed(name).any # 0 => name \in AnyWriteTools
<1>0. /\ name \notin AlwaysTools
      /\ name \notin SpaceReadTools
      /\ name \notin AnyReadTools
  BY DEF Weak
<1>1. CASE name \in SpaceWriteTools
  <2>1. name \notin SpaceAdminTools /\ name \notin AnyWriteTools
    BY <1>1 DEF SpaceWriteTools, SpaceAdminTools, AnyWriteTools
  <2>2. ToolNeed(name) = [NoNeed EXCEPT !.space = LevelWrite]
    BY <1>0, <1>1, <2>1 DEF ToolNeed
  <2> QED BY <2>2 DEF NoNeed
<1>2. CASE name \in SpaceAdminTools
  <2>1. name \notin SpaceWriteTools /\ name \notin AnyWriteTools
    BY <1>2 DEF SpaceWriteTools, SpaceAdminTools, AnyWriteTools
  <2>2. ToolNeed(name) = [NoNeed EXCEPT !.space = LevelAdmin]
    BY <1>0, <1>2, <2>1 DEF ToolNeed
  <2> QED BY <2>2 DEF NoNeed
<1>3. CASE name \in AnyWriteTools
  <2>1. name \notin SpaceWriteTools /\ name \notin SpaceAdminTools
    BY <1>3 DEF SpaceWriteTools, SpaceAdminTools, AnyWriteTools
  <2>2. ToolNeed(name) = [NoNeed EXCEPT !.any = LevelWrite]
    BY <1>0, <1>3, <2>1 DEF ToolNeed
  <2> QED BY <1>3, <2>2 DEF NoNeed
<1>4. CASE name \notin SpaceWriteTools \cup SpaceAdminTools \cup AnyWriteTools
  <2>1. name \notin Classified
    BY <1>0, <1>4 DEF Classified
  <2> QED BY <2>1, DefaultNeed DEF NoNeed
<1> QED BY <1>1, <1>2, <1>3, <1>4

\* Whatever grant the session has, a tool that changes something is reached
\* only with write access to the space its input names, or with write access
\* to some space, or with instance administration (Allow against annotations).
THEOREM ChangesAreConsented == Spec => []ChangesNeedWrite
<1>1. TypeOK /\ CallAllowed => ChangesNeedWrite
  <2> SUFFICES ASSUME TypeOK, CallAllowed, NEW c \in call, c.tool.hint # "read", ~grant.admin
               PROVE  \E s \in DOMAIN grant.level :
                        /\ grant.level[s] >= LevelWrite
                        /\ c.tool.name \notin AnyWriteTools => c.space = s
    BY DEF ChangesNeedWrite
  <2> DEFINE need == ToolNeed(c.tool.name)
  <2>1. c.tool \in Core \cup Education /\ Allow(grant, c.tool.name, c.space)
    BY DEF CallAllowed
  <2>2. /\ ~need.always
        /\ need.space \in {0, LevelWrite, LevelAdmin}
        /\ need.any \in {0, LevelWrite}
        /\ need.any # 0 => c.tool.name \in AnyWriteTools
    BY <2>1, ChangingNotWeak, NeedOfChanging
  <2>3. \/ need.space > 0 /\ SpaceLevel(grant, c.space) >= need.space
        \/ need.any > 0 /\ SomeSpace(grant, need.any)
    BY <2>1, <2>2 DEF Allow, InstanceAdmin
  <2>4. CASE need.space > 0 /\ SpaceLevel(grant, c.space) >= need.space
    <3>1. need.space \in {LevelWrite, LevelAdmin}
      BY <2>2, <2>4
    <3>2. c.space \in DOMAIN grant.level
      BY <2>4, <3>1 DEF SpaceLevel, LevelWrite, LevelAdmin
    <3>3. grant.level[c.space] >= need.space
      BY <2>4, <3>2 DEF SpaceLevel
    <3>4. grant.level[c.space] \in Levels
      BY <3>2 DEF TypeOK, Grants
    <3>5. grant.level[c.space] >= LevelWrite
      BY <3>1, <3>3, <3>4 DEF Levels, LevelWrite, LevelAdmin
    <3> QED BY <3>2, <3>5
  <2>5. CASE need.any > 0 /\ SomeSpace(grant, need.any)
    <3>1. need.any = LevelWrite /\ c.tool.name \in AnyWriteTools
      BY <2>2, <2>5
    <3> QED BY <2>5, <3>1 DEF SomeSpace
  <2> QED BY <2>3, <2>4, <2>5
<1> QED BY <1>1, GateTypeCorrect, AlwaysCallAllowed, PTL

-----------------------------------------------------------------------------
\* Only the two classes of tools not tied to one space are reached by any space.
LEMMA NeedOfAnyone ==
  ASSUME NEW name, name \notin AlwaysTools
  PROVE  /\ ~ToolNeed(name).always
         /\ ToolNeed(name).space \in Levels
         /\ ToolNeed(name).any \in Levels
         /\ ToolNeed(name).any # 0 => name \in AnyReadTools \cup AnyWriteTools
<1>1. ToolNeed(name).space \in Levels /\ ToolNeed(name).any \in Levels
  BY DEF ToolNeed, NoNeed, Levels, LevelRead, LevelWrite, LevelAdmin
<1>2. CASE name \in SpaceReadTools \cup SpaceWriteTools \cup SpaceAdminTools
  BY <1>1, <1>2 DEF ToolNeed, NoNeed
<1>3. CASE name \in AnyReadTools \cup AnyWriteTools
  BY <1>1, <1>3 DEF ToolNeed, NoNeed
<1>4. CASE name \notin Classified
  BY <1>1, <1>4, DefaultNeed DEF NoNeed
<1> QED BY <1>2, <1>3, <1>4 DEF Classified

\* Whatever a grant consents to, a call that is not always allowed is backed by
\* a space at level read or more, and its requests go to such a space, unless
\* the tool is not tied to one space or addresses a resource by its id: there
\* the argument is checked and the space the id leads to is not.
THEOREM ConsentBacksEveryCall == Spec => []InsideConsent
<1>1. TypeOK /\ CallAllowed => InsideConsent
  <2> SUFFICES ASSUME TypeOK, CallAllowed, NEW c \in call,
                      c.tool.name \notin AlwaysTools, ~grant.admin
               PROVE  \E s \in DOMAIN grant.level :
                        /\ grant.level[s] >= LevelRead
                        /\ \/ c.tool.name \in AnyReadTools \cup AnyWriteTools
                           \/ c.reached = s
                           \/ c.tool.name \in AddressedById /\ c.space = s
    BY DEF InsideConsent, AddressedById
  <2> DEFINE need == ToolNeed(c.tool.name)
  <2>1. /\ ~need.always
        /\ need.space \in Levels
        /\ need.any \in Levels
        /\ need.any # 0 => c.tool.name \in AnyReadTools \cup AnyWriteTools
    BY NeedOfAnyone
  <2>2. \A s \in DOMAIN grant.level : grant.level[s] \in Levels
    BY DEF TypeOK, Grants
  <2>3. Allow(grant, c.tool.name, c.space)
    BY DEF CallAllowed
  <2>4. CASE need.space > 0 /\ SpaceLevel(grant, c.space) >= need.space
    <3>1. c.space \in DOMAIN grant.level
      BY <2>1, <2>4 DEF SpaceLevel, Levels
    <3>2. grant.level[c.space] >= LevelRead
      BY <2>1, <2>2, <2>4, <3>1 DEF SpaceLevel, Levels, LevelRead
    <3>3. c.reached = c.space \/ c.tool.name \in AddressedById
      BY DEF CallAllowed, Reached
    <3> QED BY <3>1, <3>2, <3>3
  <2>5. CASE need.any > 0 /\ SomeSpace(grant, need.any)
    <3>1. PICK s \in DOMAIN grant.level : grant.level[s] >= need.any
      BY <2>5 DEF SomeSpace
    <3>2. grant.level[s] >= LevelRead
      BY <2>1, <2>2, <2>5, <3>1 DEF Levels, LevelRead
    <3>3. c.tool.name \in AnyReadTools \cup AnyWriteTools
      BY <2>1, <2>5 DEF Levels
    <3> QED BY <3>2, <3>3
  <2> QED BY <2>1, <2>3, <2>4, <2>5 DEF Allow, InstanceAdmin
<1> QED BY <1>1, GateTypeCorrect, AlwaysCallAllowed, PTL

-----------------------------------------------------------------------------
\* A list taken is the filtered catalogue, and a call is of a registered tool.
SeenUnderGrant ==
  /\ listed # {} => listed = VisibleTools(grant, Names(Registered(education)))
  /\ \A c \in call : c.tool \in Registered(education)

LEMMA SeenStep == SeenUnderGrant /\ [Next]_vars => SeenUnderGrant'
<1> SUFFICES ASSUME SeenUnderGrant, [Next]_vars
             PROVE  SeenUnderGrant'
  OBVIOUS
<1>1. CASE ToolsList
  BY <1>1 DEF ToolsList, SeenUnderGrant
<1>2. CASE ToolsCall
  BY <1>2 DEF ToolsCall, SeenUnderGrant
<1>3. CASE UNCHANGED vars
  BY <1>3 DEF vars, SeenUnderGrant
<1> QED BY <1>1, <1>2, <1>3 DEF Next

\* What Allow admits for some input, VisibleTools keeps.
LEMMA AllowedIsVisible ==
  ASSUME NEW g, NEW names, NEW name \in names, NEW space, Allow(g, name, space)
  PROVE  name \in VisibleTools(g, names)
<1> DEFINE need == ToolNeed(name)
<1>1. CASE need.space > 0 /\ SpaceLevel(g, space) >= need.space
  <2>1. need.space \in {LevelRead, LevelWrite, LevelAdmin}
    BY <1>1 DEF ToolNeed, NoNeed
  <2>2. space \in DOMAIN g.level
    BY <1>1, <2>1 DEF SpaceLevel, LevelRead, LevelWrite, LevelAdmin
  <2>3. SomeSpace(g, need.space)
    BY <1>1, <2>2 DEF SpaceLevel, SomeSpace
  <2> QED BY <1>1, <2>3 DEF VisibleTools
<1>2. CASE ~(need.space > 0 /\ SpaceLevel(g, space) >= need.space)
  <2>1. Allow(g, name, Absent)
    BY <1>2 DEF Allow
  <2> QED BY <2>1 DEF VisibleTools
<1> QED BY <1>1, <1>2

\* Whatever the grant, tools/list leaves out nothing a call of the session
\* has reached: VisibleTools repeats the decisions of Allow by other means.
THEOREM ListIsComplete == Spec => []NothingHidden
<1>1. Init => SeenUnderGrant
  BY DEF Init, SeenUnderGrant
<1>2. CallAllowed /\ SeenUnderGrant => NothingHidden
  <2> SUFFICES ASSUME CallAllowed, SeenUnderGrant, NEW c \in call, listed # {}
               PROVE  c.tool.name \in listed
    BY DEF NothingHidden
  <2>1. c.tool.name \in Names(Registered(education))
    BY DEF SeenUnderGrant, Names
  <2>2. Allow(grant, c.tool.name, c.space)
    BY DEF CallAllowed
  <2>3. c.tool.name \in VisibleTools(grant, Names(Registered(education)))
    BY <2>1, <2>2, AllowedIsVisible
  <2> QED BY <2>3 DEF SeenUnderGrant
<1> QED BY <1>1, <1>2, SeenStep, AlwaysCallAllowed, PTL DEF Spec

-----------------------------------------------------------------------------
\* Consenting to more never takes a call away: more spaces, higher levels or
\* the administration box only extend what Allow admits.
THEOREM AllowIsMonotone ==
  ASSUME NEW g \in Grants, NEW h \in Grants, NEW name, NEW space,
         g.admin => h.admin,
         DOMAIN g.level \subseteq DOMAIN h.level,
         \A s \in DOMAIN g.level : g.level[s] <= h.level[s],
         Allow(g, name, space)
  PROVE  Allow(h, name, space)
<1> DEFINE need == ToolNeed(name)
<1>0. need.space \in Levels /\ need.any \in Levels
  BY DEF ToolNeed, NoNeed, Levels, LevelRead, LevelWrite, LevelAdmin
<1>1. \A s \in DOMAIN g.level : g.level[s] \in Levels /\ h.level[s] \in Levels
  BY DEF Grants
<1>2. CASE need.always \/ (need.instance /\ g.admin)
  BY <1>2 DEF Allow, InstanceAdmin
<1>3. CASE need.space > 0 /\ space # Absent /\ SpaceLevel(g, space) >= need.space
  <2>1. space \in DOMAIN g.level
    BY <1>0, <1>3 DEF SpaceLevel, Levels
  <2>2. SpaceLevel(h, space) >= need.space
    BY <1>0, <1>1, <1>3, <2>1 DEF SpaceLevel, Levels
  <2> QED BY <1>3, <2>2 DEF Allow
<1>4. CASE need.any > 0 /\ SomeSpace(g, need.any)
  <2>1. PICK s \in DOMAIN g.level : g.level[s] >= need.any
    BY <1>4 DEF SomeSpace
  <2>2. s \in DOMAIN h.level /\ h.level[s] >= need.any
    BY <1>0, <1>1, <2>1 DEF Levels
  <2> QED BY <1>4, <2>2 DEF Allow, SomeSpace
<1> QED BY <1>2, <1>3, <1>4 DEF Allow, InstanceAdmin

-----------------------------------------------------------------------------
(* The names a space goes by in the inputs (internal/tools) against the    *)
(* needs of the catalog (internal/grant), registration by registration.    *)

SpaceTools == SpaceReadTools \cup SpaceWriteTools \cup SpaceAdminTools
Unnamable == {"list_shared_by_me", "list_received_shares"}

\* A need tied to a space comes with an input that names one, but for two
\* tools; and an input that must name a space with a need of a space.
FieldFits(t) ==
  /\ t.name \in SpaceTools => t.field # "none" \/ t.name \in Unnamable
  /\ t.field \notin {"none", "optional"} =>
       t.name \in SpaceTools \cup AnyReadTools \cup AnyWriteTools

LEMMA AddedField ==
  ASSUME NEW names, NEW field, NEW hint, NEW t \in Add(names, field, hint)
  PROVE  t.name \in names /\ t.field = field
BY DEF Add

LEMMA NoFieldFits ==
  ASSUME NEW names, NEW hint, NEW t \in Add(names, "none", hint),
         names \cap SpaceTools \subseteq Unnamable
  PROVE  FieldFits(t)
BY AddedField DEF FieldFits

LEMMA OptionalFits ==
  ASSUME NEW names, NEW hint, NEW t \in Add(names, "optional", hint)
  PROVE  FieldFits(t)
BY AddedField DEF FieldFits

LEMMA SpaceFieldFits ==
  ASSUME NEW names, NEW field \in {"space_id", "drive_id"}, NEW hint,
         NEW t \in Add(names, field, hint),
         names \subseteq SpaceTools \cup AnyReadTools \cup AnyWriteTools
  PROVE  FieldFits(t)
BY AddedField DEF FieldFits

LEMMA FieldsFit ==
  ASSUME NEW t \in Core \cup Education
  PROVE  FieldFits(t)
<1> USE NoFieldFits, OptionalFits, SpaceFieldFits
<1> USE DEF SpaceTools, SpaceReadTools, SpaceWriteTools, SpaceAdminTools,
            AnyReadTools, AnyWriteTools, Unnamable
<1>1. CASE t \in Users
  BY <1>1 DEF Users
<1>2. CASE t \in Groups
  BY <1>2 DEF Groups
<1>3. CASE t \in Spaces
  BY <1>3 DEF Spaces
<1>4. CASE t \in Files
  BY <1>4 DEF Files
<1>5. CASE t \in Shares
  BY <1>5 DEF Shares
<1>6. CASE t \in Search \cup Notifications \cup Settings
  BY <1>6 DEF Search, Notifications, Settings
<1>7. CASE t \in AppTokens \cup Admin \cup OCM
  BY <1>7 DEF AppTokens, Admin, OCM
<1>8. CASE t \in Workflows
  BY <1>8 DEF Workflows
<1>9. CASE t \in Education
  BY <1>9 DEF Education
<1> QED BY <1>1, <1>2, <1>3, <1>4, <1>5, <1>6, <1>7, <1>8, <1>9 DEF Core

\* What the catalog asks for the names of each kind.
LEMMA NeedOfSpaceTool ==
  ASSUME NEW name, name \in SpaceTools
  PROVE  /\ ToolNeed(name).any = 0
         /\ ~ToolNeed(name).always /\ ~ToolNeed(name).instance
<1>1. name \notin AlwaysTools \cup AnyReadTools \cup AnyWriteTools
  BY DEF SpaceTools, SpaceReadTools, SpaceWriteTools, SpaceAdminTools,
         AlwaysTools, AnyReadTools, AnyWriteTools
<1>2. \E l \in Levels : ToolNeed(name) = [NoNeed EXCEPT !.space = l]
  BY <1>1 DEF ToolNeed, SpaceTools, Levels, LevelRead, LevelWrite, LevelAdmin
<1> QED BY <1>2 DEF NoNeed

LEMMA NeedOfAnyTool ==
  ASSUME NEW name, name \in AnyReadTools \cup AnyWriteTools
  PROVE  ~ToolNeed(name).always /\ ~ToolNeed(name).instance
<1>1. name \notin AlwaysTools \cup SpaceReadTools \cup SpaceWriteTools \cup SpaceAdminTools
  BY DEF SpaceReadTools, SpaceWriteTools, SpaceAdminTools, AlwaysTools,
         AnyReadTools, AnyWriteTools
<1>2. \E l \in Levels : ToolNeed(name) = [NoNeed EXCEPT !.any = l]
  BY <1>1 DEF ToolNeed, Levels, LevelRead, LevelWrite, LevelAdmin
<1> QED BY <1>2 DEF NoNeed

LEMMA SpaceNeedIsSpaceTool ==
  ASSUME NEW name, ToolNeed(name).space > 0
  PROVE  name \in SpaceTools
BY DEF ToolNeed, NoNeed, SpaceTools

\* What VisibleTools keeps, Allow admits for some input of the tool.
LEMMA VisibleIsCallable ==
  ASSUME TypeOK, NEW tool \in Registered(education),
         tool.name \in VisibleTools(grant, Names(Registered(education))),
         tool.name \notin Unnamable
  PROVE  Callable(tool)
<1> DEFINE need == ToolNeed(tool.name)
<1>1. FieldFits(tool)
  BY FieldsFit DEF Registered
<1>2. CASE need.space > 0 /\ SomeSpace(grant, need.space)
  <2>1. PICK s \in DOMAIN grant.level : grant.level[s] >= need.space
    BY <1>2 DEF SomeSpace
  <2>2. s \in SpaceIds /\ s # Absent
    BY <2>1, GateAssumption DEF TypeOK, Grants
  <2>3. s \in SpaceArgument(tool)
    BY <1>1, <1>2, <2>2, SpaceNeedIsSpaceTool DEF FieldFits, SpaceArgument
  <2>4. Allow(grant, tool.name, s)
    BY <1>2, <2>1, <2>2 DEF Allow, SpaceLevel
  <2> QED BY <2>3, <2>4 DEF Callable
<1>3. CASE Allow(grant, tool.name, Absent)
  <2>1. \/ need.always
        \/ need.instance /\ InstanceAdmin(grant)
        \/ need.any > 0 /\ SomeSpace(grant, need.any)
    BY <1>3 DEF Allow
  <2>2. \A space : Allow(grant, tool.name, space)
    BY <2>1 DEF Allow
  <2>3. CASE tool.field \in {"none", "optional"}
    <3>1. Absent \in SpaceArgument(tool)
      BY <2>3 DEF SpaceArgument
    <3> QED BY <2>2, <3>1 DEF Callable
  <2>4. CASE tool.field \notin {"none", "optional"}
    <3>1. need.any > 0 /\ SomeSpace(grant, need.any)
      BY <1>1, <2>1, <2>4, NeedOfSpaceTool, NeedOfAnyTool DEF FieldFits
    <3>2. PICK s \in DOMAIN grant.level : TRUE
      BY <3>1 DEF SomeSpace
    <3>3. s \in SpaceArgument(tool)
      BY <2>4, <3>2 DEF SpaceArgument, TypeOK, Grants
    <3> QED BY <2>2, <3>3 DEF Callable
  <2> QED BY <2>3, <2>4
<1> QED BY <1>2, <1>3 DEF VisibleTools

\* Whatever the grant, every tool in the list can be called with some input of
\* its schema, but for the two whose need is a space their input cannot name:
\* the second look of VisibleTools promises no more than Allow keeps.
THEOREM ListIsHonest == Spec => []ListedIsCallable
<1>1. Init => SeenUnderGrant
  BY DEF Init, SeenUnderGrant
<1>2. TypeOK /\ SeenUnderGrant => ListedIsCallable
  BY VisibleIsCallable DEF SeenUnderGrant, ListedIsCallable, Unnamable
<1> QED BY <1>1, <1>2, SeenStep, GateTypeCorrect, PTL DEF Spec
=============================================================================
