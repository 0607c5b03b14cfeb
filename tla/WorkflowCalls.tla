--------------------------- MODULE WorkflowCalls ---------------------------
(***************************************************************************)
(* The composite tools of workflows.go: several requests to oCIS behind    *)
(* one call, without a rollback.  Calls run at the same time, other users  *)
(* change the same file between two requests, and any request may fail,    *)
(* with or without having had its effect (OcisCall).                       *)
(*                                                                         *)
(* All calls concern one path of one space; the spaces created are named   *)
(* by the call that created them.                                          *)
(***************************************************************************)
EXTENDS Naturals, FiniteSets

CONSTANTS
  Uploads, Creations, Downloads, Links, Overviews,   \* the calls of each tool
  Bare,           \* the creations that name no members, or no roles
  Faults,         \* "error": a request fails; "lost": its answer does not come
  Others,         \* what other users do: "write", "delete"
  MaxRunning,     \* bound: calls in one behaviour
  MaxItems        \* bound: items ever created at the path

Calls == Uploads \cup Creations \cup Downloads \cup Links \cup Overviews

ASSUME WorkflowsAssumption ==
  /\ Bare \subseteq Creations
  /\ Uploads \cap (Creations \cup Downloads \cup Links \cup Overviews) = {}
  /\ Creations \cap (Downloads \cup Links \cup Overviews) = {}
  /\ Downloads \cap (Links \cup Overviews) = {} /\ Links \cap Overviews = {}
  /\ Faults \subseteq {"error", "lost"} /\ Others \subseteq {"write", "delete"}
  /\ MaxRunning \in Nat /\ MaxItems \in Nat \ {0}

VARIABLES
  strict,    \* oCIS rejects a recipient without a type (8.1.0-rc.1 does)
  item,      \* the ID of what is at the path, 0: nothing
  items,     \* how many items there have been
  done,      \* what oCIS did for each call
  pc,        \* the next request of each call
  known,     \* what the handler knows of it, from answers
  got,       \* the ID or href an earlier answer gave
  told,      \* the reply: what it says, besides "error"
  wrote      \* history: the item the PUT of each call went to

ocis == <<item, items, done, wrote>>
vars == <<strict, item, items, done, pc, known, got, told, wrote>>

None == 0
Changes == {"put", "invite", "space", "members", "link"}
Reads == {"found", "content", "drive", "root", "perms"}
Points == {"idle", "end"} \cup Changes \cup Reads

TypeOK ==
  /\ strict \in BOOLEAN
  /\ items \in 0..MaxItems /\ item \in 0..items
  /\ done \in [Calls -> SUBSET Changes]
  /\ pc \in [Calls -> Points]
  /\ known \in [Calls -> SUBSET (Changes \cup Reads)]
  /\ got \in [Calls -> 0..MaxItems]
  /\ told \in [Calls -> SUBSET (Changes \cup Reads \cup {"error", "ok"})]
  /\ wrote \in [Calls -> 0..items]
  /\ \A c \in Calls : pc[c] = "invite" => got[c] # 0

Init ==
  /\ strict \in BOOLEAN
  /\ item \in {None, 1} /\ items = item
  /\ done = [c \in Calls |-> {}]
  /\ pc = [c \in Calls |-> "idle"] /\ known = [c \in Calls |-> {}]
  /\ got = [c \in Calls |-> 0] /\ told = [c \in Calls |-> {}]
  /\ wrote = [c \in Calls |-> None]

-----------------------------------------------------------------------------
\* The request a tool begins with.
First(c) ==
  CASE c \in Uploads -> "put"
    [] c \in Creations -> "space"
    [] c \in Downloads -> "found"
    [] c \in Links -> "link"
    [] c \in Overviews -> "drive"

Start(c) ==
  /\ Cardinality({x \in Calls : pc[x] # "idle"}) < MaxRunning
  /\ pc[c] = "idle" /\ pc' = [pc EXCEPT ![c] = First(c)]
  /\ UNCHANGED <<strict, ocis, known, got, told>>

\* What oCIS does for a request; FALSE when it refuses or does not find.
PutItem ==
  \/ item # None /\ UNCHANGED <<item, items>>
  \/ item = None /\ items < MaxItems /\ items' = items + 1 /\ item' = items'

\* The recipients of create_project_space carry no type.
Typed(c) == c \in Uploads
Acceptable(c) == Typed(c) \/ ~strict

Act(c, p) ==
  /\ done' = [done EXCEPT ![c] = @ \cup ({p} \cap Changes)]
  /\ IF p = "put" THEN PutItem /\ wrote' = [wrote EXCEPT ![c] = item']
                  ELSE UNCHANGED <<item, items, wrote>>
  /\ p \in {"found", "content"} => item # None
  /\ p \in {"invite", "members"} => Acceptable(c)
  /\ p = "invite" => got[c] = item
  /\ UNCHANGED strict

OnAnyway(c, p) ==       \* mutation: the error of the upload is overlooked
  CASE p = "root" -> "perms" [] p = "put" -> "found" [] OTHER -> "end"
\* Only get_space_overview goes on after a request that failed.
AfterError(c, p) == IF p = "root" THEN "perms" ELSE "end"

Hasty(c, p) ==          \* mutation: shared without looking up the ID
  IF p = "put" THEN "invite" ELSE "end"
AfterSuccess(c, p) ==
  CASE p = "put" -> "found"
    [] p = "found" -> IF c \in Uploads THEN "invite" ELSE "content"
    [] p = "space" -> IF c \in Bare THEN "end" ELSE "members"
    [] p = "drive" -> "root"
    [] p = "root" -> "perms"
    [] OTHER -> "end"

Silent(c, k) == k \ {"put"}       \* mutation: the error of step 3 as it is
\* What a reply says: the error texts name the steps before ("file uploaded
\* but ..."), as do the messages ("space created but ...").
Said(c, k) == k

\* The reply is an error unless the last request succeeded, or the failed one
\* was an invitation to a created space or a part of the overview.
Forgiven(p) == p \in {"members", "root", "perms"}
Reply(c, k, verdict) == told' = [told EXCEPT ![c] = Said(c, k) \cup {verdict}]

\* A request that succeeds.
Succeed(c) ==
  LET p == pc[c]  k == known[c] \cup {p}  q == AfterSuccess(c, p) IN
  /\ p \notin {"idle", "end"}
  /\ Act(c, p)
  /\ known' = [known EXCEPT ![c] = k]
  /\ got' = [got EXCEPT ![c] = IF p = "found" THEN item ELSE @]
  /\ pc' = [pc EXCEPT ![c] = q]
  /\ IF q = "end" THEN Reply(c, k, "ok") ELSE UNCHANGED told

\* A request that fails: refused, not found, in error, or without an answer
\* although oCIS acted.
Fail(c) ==
  LET p == pc[c]  q == AfterError(c, p) IN
  /\ p \notin {"idle", "end"}
  /\ \/ "error" \in Faults /\ UNCHANGED ocis
     \/ p \in {"found", "content"} /\ item = None /\ UNCHANGED ocis
     \/ p = "invite" /\ got[c] # item /\ UNCHANGED ocis
     \/ p \in {"invite", "members"} /\ ~Acceptable(c) /\ UNCHANGED ocis
     \/ "lost" \in Faults /\ Act(c, p)
  /\ pc' = [pc EXCEPT ![c] = q]
  /\ IF q = "end"
     THEN Reply(c, known[c], IF Forgiven(p) THEN "ok" ELSE "error")
     ELSE UNCHANGED told
  /\ UNCHANGED <<strict, known, got>>

OtherUser ==
  /\ \/ "write" \in Others /\ PutItem
     \/ "delete" \in Others /\ item # None /\ item' = None /\ UNCHANGED items
  /\ UNCHANGED <<strict, done, pc, known, got, told, wrote>>

Next == OtherUser \/ \E c \in Calls : Start(c) \/ Succeed(c) \/ Fail(c)

Spec == Init /\ [][Next]_vars

-----------------------------------------------------------------------------
\* What a reply says was changed was changed by this call; and a reply names all
\* changes oCIS confirmed to the call, also those of a call that stops half-way.
RepliesAreTrue ==
  \A c \in Calls : told[c] # {} =>
    /\ told[c] \cap Changes \subseteq done[c]
    /\ known[c] \cap Changes \subseteq told[c]

\* The item an upload_and_share invites to is the one its own upload wrote,
\* although it is looked up by its path in between, where other calls write:
\* unless another user deleted that item.  Then the item somebody else put at
\* the path is shared, and reported as "file uploaded and shared".  It is about
\* the item, whose content another writer may have replaced.
SharedIsUploaded ==
  \A c \in Uploads : "invite" \in done[c] =>
    \/ got[c] = wrote[c]
    \/ wrote[c] \notin {None, item}
=============================================================================
