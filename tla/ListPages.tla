----------------------------- MODULE ListPages -----------------------------
(***************************************************************************)
(* The listing tools with limit and offset, and an MCP client that reads a *)
(* listing to its end: it asks again from next_offset while has_more is    *)
(* true.  Three kinds: list_users and list_groups ("plain"), search and    *)
(* search_by_tag ("search"), list_spaces and list_my_spaces, whose pages   *)
(* are filtered by the grant ("spaces").                                   *)
(*                                                                         *)
(* An entry of what oCIS has to list is known by its place, and a page is  *)
(* the set of its entries: no property is about their order.  A query is a *)
(* kind, the length of the listing, the granted spaces, whether the call   *)
(* has no grant or one with instance administration, the limit and the     *)
(* first offset.                                                           *)
(***************************************************************************)
EXTENDS Integers, FiniteSets

CONSTANTS DefaultLimit, MaxLimit   \* 50 and 200

ASSUME PagesAssumption == MaxLimit \in Nat /\ DefaultLimit \in 1..MaxLimit

Query == [kind : {"plain", "search", "spaces"}, length : Nat, granted : SUBSET Nat,
          admin : BOOLEAN, limit : Int, offset : Int]

ValidateLimit(l) ==
  CASE l <= 0 -> DefaultLimit [] l > MaxLimit -> MaxLimit [] OTHER -> l

\* oCIS skips and cuts; the offset is sent only if it is positive, to the search
\* service always (which takes a negative one for none).
Skipped(o) == IF o > 0 THEN o ELSE 0
Fetched(length, l, o) == {e \in 1..length : Skipped(o) < e /\ e <= Skipped(o) + l}

\* Only for spaces, and unless the call has no grant or the grant is all of it.
FilterGrantedDrives(q, drives) ==
  IF q.kind # "spaces" \/ q.admin THEN drives ELSE drives \cap q.granted

NeverMore(n, l) == FALSE        \* mutation: every page is the last one
HasMore(n, l) == n = l

NextOffset(o, n) == o + n

\* One call from the state of the reading, and the state after it; lost: the
\* filter took an entry from a full page, which then counts as the last one.
Begun(q) == [offset |-> q.offset, seen |-> {}, more |-> TRUE, lost |-> FALSE,
             longest |-> 0, calls |-> 0]
NextPage(q, at) ==
  LET l == ValidateLimit(q.limit)
      fetched == Fetched(q.length, l, at.offset)
      page == FilterGrantedDrives(q, fetched)
      n == Cardinality(page)
  IN [offset |-> NextOffset(at.offset, n),
      seen |-> at.seen \cup page,
      more |-> HasMore(n, l),
      lost |-> at.lost \/ (Cardinality(fetched) = l /\ page # fetched),
      longest |-> IF n > at.longest THEN n ELSE at.longest,
      calls |-> at.calls + 1]
=============================================================================
