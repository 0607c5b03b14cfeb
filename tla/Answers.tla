------------------------------ MODULE Answers ------------------------------
(***************************************************************************)
(* What the server makes of the answers of oCIS: the pages a client reads  *)
(* (ListPages), the entries of a Multi-Status answer (DavAnswers), the     *)
(* shown part of a file (FileContents), and the spaces and levels of the   *)
(* wizard (SpaceCeilings).  Each behaviour takes one answer through the    *)
(* code; a loop of the code or of the client is a step per turn.           *)
(***************************************************************************)
EXTENDS ListPages, DavAnswers, FileContents, SpaceCeilings

CONSTANTS
  Queries,      \* listings read and inputs of the first call
  MaxItems,     \* bound: resources in a Multi-Status answer
  DriveLists    \* answers to GET /me/drives

ASSUME AnswersAssumption ==
  /\ Queries \subseteq Query
  /\ MaxItems \in Nat
  /\ \A drives \in DriveLists :
       /\ drives \in Seq(Drive)
       /\ \A i \in DOMAIN drives : Listable(drives[i])

VARIABLES asked, reply
answerVars == <<asked, reply>>

Nothing == [what |-> "nothing"]

InitAnswers == asked = Nothing /\ reply = Nothing

BeginReading ==
  /\ asked = Nothing
  /\ \E q \in Queries :
       /\ asked' = [what |-> "pages", query |-> q]
       /\ reply' = Begun(q)

ReadPage ==
  /\ asked.what = "pages" /\ reply.more
  /\ reply' = NextPage(asked.query, reply)
  /\ UNCHANGED asked

\* A PROPFIND with depth 1 ("list") or 0 ("info") answers with its target
\* first, a search only with the matches.
ListDav ==
  /\ asked = Nothing
  /\ \E kind \in {"list", "info", "search"}, n \in 0..MaxItems :
     \E own \in SUBSET Asked(kind), items \in [1..n -> SUBSET Asked(kind)],
        g \in [0..n -> 1..3] :
       LET target == Response(0, own, Asked(kind), g[0])
           below == [i \in 1..n |-> Response(i, items[i], Asked(kind), g[i])]
           answer == CASE kind = "list" -> <<target>> \o below
                       [] kind = "info" -> <<target>>
                       [] kind = "search" -> below
       IN /\ asked' = [what |-> "dav", kind |-> kind, items |-> items, own |-> own]
          /\ reply' = [entries |-> Entries(kind, answer)]

ShowFile ==
  /\ asked = Nothing
  /\ \E f \in StoredFiles, tool \in {"download_file", "find_and_download"} :
       /\ asked' = [what |-> "file", file |-> f, tool |-> tool]
       /\ reply' = IF tool = "download_file" THEN DownloadFile(f) ELSE FindAndDownload(f)

\* The wizard: the drives oCIS lists, one by one, then the levels of the form.
AskSpaces ==
  /\ asked = Nothing
  /\ \E drives \in DriveLists : asked' = [what |-> "spaces", drives |-> drives]
  /\ reply' = [spaces |-> <<>>, taken |-> 0, level |-> <<>>]

TakeDrive ==
  /\ asked.what = "spaces" /\ reply.taken < Len(asked.drives)
  /\ LET i == reply.taken + 1
     IN reply' = [reply EXCEPT !.taken = i,
                               !.spaces = Listed(@, i, asked.drives[i])]
  /\ UNCHANGED asked

PostLevels ==
  /\ asked.what = "spaces" /\ reply.taken = Len(asked.drives) /\ reply.level = <<>>
  /\ \E words \in Words(reply.spaces) :
       reply' = [reply EXCEPT !.level = LevelsPOST(reply.spaces, words)]
  /\ UNCHANGED asked

NextAnswers ==
  \/ BeginReading \/ ReadPage
  \/ ListDav \/ ShowFile
  \/ AskSpaces \/ TakeDrive \/ PostLevels

SpecAnswers == InitAnswers /\ [][NextAnswers]_answerVars

-----------------------------------------------------------------------------
\* A client that follows next_offset comes to the end of a listing: every call
\* but the last takes it at least one entry further.  At the end it has seen every
\* entry from its first offset on that it may see and, of spaces, no other: no page
\* boundary, clamped limit or negative offset skips one, and no last page that
\* is short of the spaces another grant has.  Not so after a full page that lost
\* a space to the filter: it counts as the last one, whatever follows it.
MaySee(q, i) == q.kind = "spaces" /\ ~q.admin => i \in q.granted
ListingIsRead ==
  asked.what = "pages" =>
    LET q == asked.query IN
    /\ reply.calls <= 1 \/ reply.calls <= q.length - q.offset + 1
    /\ reply.longest <= MaxLimit
    /\ ~reply.more /\ ~reply.lost =>
         \A i \in 1..q.length : i > q.offset /\ MaySee(q, i) => i \in reply.seen
    /\ q.kind = "spaces" /\ ~q.admin => reply.seen \subseteq q.granted

\* A folder's listing has every entry of it once and not the folder itself, and
\* of every resource it shows what oCIS gave a value for, in whatever order the
\* groups of a Multi-Status answer come: a group of missing properties neither
\* adds an empty value nor hides one.  In a search result it may hide the score,
\* the space or the highlights: toSearchResults lets the last group win.
AnswerIsShown ==
  asked.what = "dav" =>
    /\ asked.kind = "list" =>
         [i \in DOMAIN reply.entries |-> reply.entries[i].place]
           = [i \in DOMAIN asked.items |-> i]
    /\ \A i \in DOMAIN reply.entries :
         LET e == reply.entries[i]
             given == {"name"} \cup
                        (IF e.place = 0 THEN asked.own ELSE asked.items[e.place])
         IN /\ e.props \subseteq given
            /\ given \ e.props
                 \subseteq (IF asked.kind = "search" THEN ForSearch ELSE {})

\* A file of which only the beginning is shown is never shown as if it were the
\* whole: the flag is set whichever of the two lengths cut it.  And what
\* download_file shows as the whole of a file is UTF-8.  It is about content that
\* is shown: of what is described as a binary file instead nothing is flagged,
\* and its size is that of the part Download received.
CutIsTold ==
  asked.what = "file" /\ reply.text /\ ~reply.truncated =>
    /\ reply.len = asked.file.size
    /\ asked.tool = "download_file" => asked.file.bad = 0

\* The page shows every space but the virtual ones, personal ones first, then by
\* name, and those that sort alike in the order of oCIS.
InOrder(spaces) ==
  \A i, j \in DOMAIN spaces : i < j =>
    LET a == spaces[i]  b == spaces[j]
    IN /\ Personal(b) => Personal(a)
       /\ Personal(a) = Personal(b) => \/ a.name < b.name
                                       \/ a.name = b.name /\ a.place < b.place
AllShown(spaces, drives, n) ==
  {spaces[i].place : i \in DOMAIN spaces} = {i \in 1..n : drives[i].type # "virtual"}

\* The wizard "offers only the levels the user already has" (CHANGELOG.md): of a
\* space that is not personal at most the level of the caller's own role, read for
\* a role the code does not know or when none is listed; and it stores no level it
\* did not offer, whatever words the form holds.  Not so if oCIS lists the
\* permissions of other members, whose roles count as the caller's.
OfferedIsOwn ==
  asked.what = "spaces" =>
    /\ InOrder(reply.spaces) /\ AllShown(reply.spaces, asked.drives, reply.taken)
    /\ \A i \in DOMAIN reply.spaces :
         LET s == reply.spaces[i]
             mine == [viewer |-> 1, editor |-> 2, manager |-> 3, uuid |-> 1][s.own]
         IN ~Personal(s) /\ s.ownOnly => s.ceiling \in 1..mine
    /\ \A i \in DOMAIN reply.level :
         reply.level[i] \in LevelsOffered(reply.spaces[i].ceiling)
=============================================================================
