---------------------------- MODULE SpaceCeilings ----------------------------
(***************************************************************************)
(* How the roles oCIS lists become the levels the wizard offers:           *)
(* oidc.AccessibleSpaces turns one answer of GET /me/drives into the space *)
(* list, drive by drive, and sorts it; the levels form is then parsed and  *)
(* clamped per space (handler.go 262-272).                                 *)
(*                                                                         *)
(* A role name is represented by the level it stands for, or "uuid" for a  *)
(* role id that names none.  oCIS, external, lists for a drive the roles   *)
(* effective for the caller and the permissions of its root, each with its *)
(* holder ("mine" or not); the code never reads the holder.                *)
(***************************************************************************)
EXTENDS Naturals, Sequences, FiniteSets

Roles == {"viewer", "editor", "manager", "uuid"}
RootPermission == [role : Roles, mine : BOOLEAN]
Drive == [type : {"personal", "project", "mountpoint", "virtual"}, name : Nat,
          own : Roles, effective : SUBSET Roles,
          permissions : SUBSET RootPermission]

(* The drives oCIS may list: a role it says is the caller's is the caller's *)
Listable(d) ==
    /\ d.effective \subseteq {d.own}
    /\ \A p \in d.permissions : p.mine => p.role = d.own
OwnOnly(d) == \A p \in d.permissions : p.mine

-----------------------------------------------------------------------------
MapOcisRole(role) ==
    CASE role = "manager" -> 3 [] role = "editor" -> 2 [] OTHER -> 1

Greatest(S) == IF S = {} THEN 0 ELSE CHOOSE m \in S : \A n \in S : n <= m
CeilingFromRoles(roles) == Greatest({MapOcisRole(r) : r \in roles})

RolesOf(d) == d.effective \cup {p.role : p \in d.permissions}

Ceiling(d) == LET c == CeilingFromRoles(RolesOf(d))
              IN IF c # 0 THEN c
                 ELSE IF d.type = "personal" THEN 3        \* its owner
                 ELSE 1

AnyLevel(want, ceiling) == want                           \* mutation
ClampLevel(want, ceiling) == IF want > ceiling THEN ceiling ELSE want
Chosen(want, ceiling) == LET l == ClampLevel(want, ceiling)
                         IN IF l = 0 THEN 1 ELSE l

LevelsOffered(ceiling) == {l \in 1..3 : l <= ceiling}

ParseLevel == [nothing |-> 0, viewer |-> 1, editor |-> 2, owner |-> 3]

Personal(s) == s.type = "personal"
Before(a, b) == IF Personal(a) # Personal(b) THEN Personal(a) ELSE a.name <= b.name

(* SliceStable: a space goes after those that are not greater *)
Place(list, s) ==
    LET n == Cardinality({i \in DOMAIN list : Before(list[i], s)})
    IN [i \in 1..Len(list) + 1 |->
          IF i <= n THEN list[i] ELSE IF i = n + 1 THEN s ELSE list[i - 1]]

Space(i, d) == [place |-> i, type |-> d.type, name |-> d.name, own |-> d.own,
                ownOnly |-> OwnOnly(d), ceiling |-> Ceiling(d)]

(* AccessibleSpaces: drive by drive in the order of the answer, virtual     *)
(* drives left out.  The list is kept sorted as it grows, which is the same *)
(* as sorting it at the end: the sort is stable.                            *)
Listed(spaces, i, d) ==
    IF d.type = "virtual" THEN spaces ELSE Place(spaces, Space(i, d))

(* LevelsPOST: for each space that was ticked (at least one) the form has a *)
(* level, in one of the words it accepts or none                            *)
Words(spaces) ==
    UNION {[selected -> DOMAIN ParseLevel] : selected \in (SUBSET DOMAIN spaces) \ {{}}}
LevelsPOST(spaces, words) ==
    [i \in DOMAIN words |-> Chosen(ParseLevel[words[i]], spaces[i].ceiling)]
=============================================================================
