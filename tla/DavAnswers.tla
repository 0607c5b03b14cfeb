----------------------------- MODULE DavAnswers -----------------------------
(***************************************************************************)
(* What the tools read from a 207 Multi-Status answer: list_files and      *)
(* get_file_versions (PROPFIND, depth 1), get_file_info (depth 0) and the  *)
(* searches (REPORT).  An answer has a response per resource, and each     *)
(* response groups the properties asked for by status: those the resource  *)
(* has under 200, with their values, and those it has not under another    *)
(* status, empty.  In which order the groups and the responses come is     *)
(* oCIS's choice, except that a PROPFIND begins with its target.           *)
(***************************************************************************)
EXTENDS Naturals, Sequences

(* Properties every reader keeps, and those only the searches ask for       *)
Plain == {"fileid", "name"}
ForSearch == {"spaceid", "score", "highlights"}
Asked(kind) == Plain \cup (IF kind = "search" THEN ForSearch ELSE {})

(* One response of oCIS, external: the place of its resource (0: the        *)
(* target) and its groups, in one of three ways.                            *)
Group(ok, props) == [ok |-> ok, props |-> props]
Groupings(has, asked) ==
    LET found == Group(TRUE, has)
        missing == Group(FALSE, asked \ has)
    IN <<<<found, missing>>, <<missing, found>>, <<found>>>>
Response(place, has, asked, g) ==
    [place |-> place, groups |-> Groupings(has, asked)[g]]

(* ToFileInfo: groups under another status than 200 are passed over; the    *)
(* name falls back to the last part of the href.                            *)
AnyStatus(r) == UNION {r.groups[i].props : i \in DOMAIN r.groups}   \* mutation
Values(r) == UNION {r.groups[i].props : i \in {j \in DOMAIN r.groups : r.groups[j].ok}}
Shown(r, props) == [place |-> r.place, props |-> props \cup {"name"}]
ToFileInfo(r) == Shown(r, Values(r) \cap Plain)

(* toSearchResults: every group, of any status, sets the three properties   *)
(* of a search anew.                                                        *)
LastGroup(r) == LET g == r.groups[Len(r.groups)] IN IF g.ok THEN g.props ELSE {}
ToSearchResult(r) == Shown(r, (Values(r) \cap Plain) \cup (LastGroup(r) \cap ForSearch))

Each(Op(_), responses) == [i \in DOMAIN responses |-> Op(responses[i])]
Children(responses) == IF responses = <<>> THEN <<>> ELSE Each(ToFileInfo, Tail(responses))

(* The entries of the reply of list_files, get_file_info and search         *)
Entries(kind, responses) ==
    CASE kind = "list" -> Children(responses)
      [] kind = "info" -> <<ToFileInfo(responses[1])>>
      [] kind = "search" -> Each(ToSearchResult, responses)
=============================================================================
