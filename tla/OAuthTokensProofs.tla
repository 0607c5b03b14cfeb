------------------------- MODULE OAuthTokensProofs -------------------------
(***************************************************************************)
(* Proofs about OAuthTokens, for every set of requests, grants, clients    *)
(* and credentials and every lifetime.                                     *)
(***************************************************************************)
EXTENDS OAuthTokens, TLAPS

-----------------------------------------------------------------------------
(* Type correctness needs to know what a request has in hand at each       *)
(* program point.                                                          *)

HasCode(r) == /\ loc[r].item \in DOMAIN codes
              /\ loc[r].grant = codes[loc[r].item].grant
HasToken(r) == /\ loc[r].item \in DOMAIN refresh
               /\ loc[r].grant = refresh[loc[r].item].grant

AtPoint(r) ==
  /\ pc[r] = "mark" =>
       /\ loc[r].kind \in {"code", "refresh", "revoke"}
       /\ loc[r].kind = "code" => HasCode(r)
       /\ loc[r].kind # "code" => HasToken(r)
       /\ loc[r].client \in Clients
  /\ pc[r] = "check" => HasCode(r)
  /\ pc[r] \in {"grant", "put"} =>
       loc[r].grant \in Grants /\ loc[r].client \in Clients
  /\ pc[r] = "reply" => loc[r].item \in DOMAIN refresh
  /\ pc[r] \in {"putgrant", "putcode"} => loc[r].grant \in Grants

PointOK == \A r \in Reqs : AtPoint(r)

\* Rows are never deleted and keep the grant they name.
RowsKept ==
  /\ \A c \in DOMAIN codes :
       c \in DOMAIN codes' /\ codes'[c].grant = codes[c].grant
  /\ \A t \in DOMAIN refresh :
       t \in DOMAIN refresh' /\ refresh'[t].grant = refresh[t].grant

\* The step is one of request r.
StepOf(r) == \A q \in Reqs \ {r} : pc'[q] = pc[q] /\ loc'[q] = loc[q]

LEMMA PointFrame ==
  ASSUME PointOK, RowsKept, NEW r \in Reqs, StepOf(r), AtPoint(r)'
  PROVE  PointOK'
BY DEF PointOK, AtPoint, HasCode, HasToken, RowsKept, StepOf

LEMMA BlankType == Blank \in Local
BY DEF Blank, Local, Kinds, Form, NoForm

LEMMA TypeInit == Init => TypeOK /\ PointOK
BY BlankType, ConstantsAssumption
DEF Init, TypeOK, PointOK, AtPoint, NoForm, Form, Points

LEMMA TypeArrive ==
  ASSUME TypeOK, PointOK, NEW r \in Reqs,
         TokenCode(r) \/ TokenRefresh(r) \/ Revoke(r)
  PROVE  TypeOK' /\ PointOK'
<1>1. ASSUME NEW kind \in Kinds,
             NEW item \in Codes \cup Refreshes \cup {None},
             NEW form \in Form, Arrive(r, kind, item, form)
      PROVE  TypeOK' /\ PointOK'
  <2>1. TypeOK'
    BY <1>1, BlankType DEF Arrive, Goto, TypeOK, Local, Points, Blank
  <2>2. RowsKept /\ StepOf(r) /\ AtPoint(r)'
    BY <1>1 DEF Arrive, Goto, TypeOK, RowsKept, StepOf, AtPoint
  <2> QED BY <2>1, <2>2, PointFrame
<1>2. CASE TokenCode(r)
  BY <1>1, <1>2 DEF TokenCode, TypeOK, Form, Kinds
<1>3. CASE TokenRefresh(r)
  BY <1>1, <1>3 DEF TokenRefresh, TypeOK, Form, NoForm, Kinds
<1>4. CASE Revoke(r)
  BY <1>1, <1>4 DEF Revoke, TypeOK, Form, NoForm, Kinds
<1> QED BY <1>2, <1>3, <1>4

\* What the records of the module are made of.
LEMMA RowTypes ==
  ASSUME TypeOK
  PROVE  /\ \A c \in DOMAIN codes : /\ codes[c].grant \in Grants
                                   /\ codes[c].client \in Clients
                                   /\ codes[c].exp \in Nat
                                   /\ codes[c].used \in BOOLEAN
         /\ \A t \in DOMAIN refresh : /\ refresh[t].grant \in Grants
                                     /\ refresh[t].client \in Clients
                                     /\ refresh[t].exp \in Nat
                                     /\ refresh[t].revoked \in BOOLEAN
<1>1. \A c \in DOMAIN codes : codes[c] \in CodeRow
  BY DEF TypeOK
<1>2. \A t \in DOMAIN refresh : refresh[t] \in RefreshRow
  BY DEF TypeOK
<1> QED BY <1>1, <1>2 DEF CodeRow, RefreshRow

LEMMA RequestTypes ==
  ASSUME TypeOK, NEW r \in Reqs
  PROVE  /\ loc[r] \in Local
         /\ loc[r].item \in Codes \cup Refreshes \cup {None}
         /\ loc[r].form \in Form
         /\ loc[r].grant \in Grants \cup {None}
         /\ loc[r].client \in Clients \cup {None}
<1>1. loc[r] \in Local
  BY DEF TypeOK
<1> QED BY <1>1 DEF Local

LEMMA LocalExcept ==
  ASSUME NEW l \in Local, NEW i \in Codes \cup Refreshes \cup {None},
         NEW k \in Clients \cup {None}
  PROVE  /\ [l EXCEPT !.item = i] \in Local
         /\ [l EXCEPT !.item = i].item = i
         /\ [l EXCEPT !.client = k] \in Local
         /\ [l EXCEPT !.client = k].grant = l.grant
         /\ [l EXCEPT !.client = k].client = k
         /\ [l EXCEPT !.client = k].item = l.item
BY DEF Local

LEMMA ScannedType ==
  ASSUME NEW l \in Local, NEW row, row.grant \in Grants, row.client \in Clients
  PROVE  /\ Scanned(l, row) \in Local
         /\ Scanned(l, row).kind = l.kind
         /\ Scanned(l, row).item = l.item
         /\ Scanned(l, row).grant = row.grant
         /\ Scanned(l, row).client \in Clients
BY DEF Scanned, Local

\* Assigning the locals and the program point of one request.
LEMMA RequestStep ==
  ASSUME TypeOK, NEW r \in Reqs, NEW l \in Local, NEW p \in Points,
         pc' = [pc EXCEPT ![r] = p], loc' = [loc EXCEPT ![r] = l]
  PROVE  /\ pc' \in [Reqs -> Points] /\ pc'[r] = p
         /\ loc' \in [Reqs -> Local] /\ loc'[r] = l
         /\ StepOf(r)
BY DEF TypeOK, StepOf

\* A handler that returns and leaves the tables alone.
LEMMA TypeReturn ==
  ASSUME TypeOK, PointOK, NEW r \in Reqs, Return(r), mu' \in Reqs \cup {None},
         UNCHANGED <<now, grants, codes, refresh, known, uses, redeemer>>
  PROVE  TypeOK' /\ PointOK'
<1>1. /\ pc' \in [Reqs -> Points] /\ pc'[r] = "idle"
      /\ loc' \in [Reqs -> Local] /\ StepOf(r)
  BY RequestStep, BlankType DEF Return, Goto, Points
<1>2. TypeOK'
  BY <1>1 DEF TypeOK
<1>3. RowsKept /\ AtPoint(r)'
  BY <1>1 DEF RowsKept, AtPoint
<1> QED BY <1>1, <1>2, <1>3, PointFrame

LEMMA TypeSelect ==
  ASSUME TypeOK, PointOK, NEW r \in Reqs, SelectCode(r) \/ SelectRefresh(r)
  PROVE  TypeOK' /\ PointOK'
<1> DEFINE i == loc[r].item
           Got(table) == Scanned(loc[r], table[i])
<1>1. ASSUME NEW l \in Local, pc' = [pc EXCEPT ![r] = "mark"], mu' = r,
             loc' = [loc EXCEPT ![r] = l],
             UNCHANGED <<now, grants, codes, refresh, known, uses, redeemer>>
      PROVE  TypeOK' /\ pc'[r] = "mark" /\ loc'[r] = l /\ StepOf(r)
  <2>1. /\ pc' \in [Reqs -> Points] /\ pc'[r] = "mark"
        /\ loc' \in [Reqs -> Local] /\ loc'[r] = l /\ StepOf(r)
    BY <1>1, RequestStep DEF Points
  <2> QED BY <1>1, <2>1 DEF TypeOK
<1>2. CASE Return(r) /\ UNCHANGED <<now, grants, codes, refresh, mu, known,
                                     uses, redeemer>>
  BY <1>2, TypeReturn DEF TypeOK
<1>3. CASE /\ i \in DOMAIN codes /\ loc[r].kind = "code"
           /\ pc' = [pc EXCEPT ![r] = "mark"] /\ mu' = r
           /\ loc' = [loc EXCEPT ![r] = Got(codes)]
           /\ UNCHANGED <<now, grants, codes, refresh, known, uses, redeemer>>
  <2>1. /\ Got(codes) \in Local /\ Got(codes).kind = "code"
        /\ Got(codes).item = i /\ Got(codes).grant = codes[i].grant
        /\ Got(codes).client \in Clients
    <3>1. codes[i].grant \in Grants /\ codes[i].client \in Clients
      BY <1>3, RowTypes
    <3>2. loc[r] \in Local /\ i \in Codes \cup Refreshes \cup {None}
      BY RequestTypes
    <3> QED BY <1>3, <3>1, <3>2, ScannedType
  <2>2. TypeOK' /\ pc'[r] = "mark" /\ loc'[r] = Got(codes) /\ StepOf(r)
    BY <1>1, <1>3, <2>1
  <2>3. RowsKept /\ AtPoint(r)'
    BY <1>3, <2>1, <2>2 DEF RowsKept, AtPoint, HasCode
  <2> QED BY <2>2, <2>3, PointFrame
<1>4. CASE /\ i \in DOMAIN refresh /\ loc[r].kind \in {"refresh", "revoke"}
           /\ pc' = [pc EXCEPT ![r] = "mark"] /\ mu' = r
           /\ loc' = [loc EXCEPT ![r] = Got(refresh)]
           /\ UNCHANGED <<now, grants, codes, refresh, known, uses, redeemer>>
  <2>1. /\ Got(refresh) \in Local /\ Got(refresh).kind = loc[r].kind
        /\ Got(refresh).item = i /\ Got(refresh).grant = refresh[i].grant
        /\ Got(refresh).client \in Clients
    <3>1. refresh[i].grant \in Grants /\ refresh[i].client \in Clients
      BY <1>4, RowTypes
    <3>2. loc[r] \in Local /\ i \in Codes \cup Refreshes \cup {None}
      BY RequestTypes
    <3> QED BY <1>4, <3>1, <3>2, ScannedType
  <2>2. TypeOK' /\ pc'[r] = "mark" /\ loc'[r] = Got(refresh) /\ StepOf(r)
    BY <1>1, <1>4, <2>1
  <2>3. RowsKept /\ AtPoint(r)'
    BY <1>4, <2>1, <2>2 DEF RowsKept, AtPoint, HasToken
  <2> QED BY <2>2, <2>3, PointFrame
<1> QED BY <1>2, <1>3, <1>4 DEF SelectCode, SelectRefresh, Select, Goto

\* UPDATE changes the flag of one row.
LEMMA CodesMarked ==
  ASSUME TypeOK, NEW x, codes' \in Marked(codes, [codes EXCEPT ![x].used = TRUE])
  PROVE  /\ DOMAIN codes' = DOMAIN codes
         /\ codes' \in [DOMAIN codes -> CodeRow]
         /\ \A c \in DOMAIN codes :
              codes'[c] = codes[c] \/ codes'[c] = [codes[c] EXCEPT !.used = TRUE]
         /\ \A c \in DOMAIN codes : codes'[c].grant = codes[c].grant
<1>1. \A row \in CodeRow : /\ [row EXCEPT !.used = TRUE] \in CodeRow
                            /\ [row EXCEPT !.used = TRUE].grant = row.grant
  BY DEF CodeRow
<1>2. codes \in [DOMAIN codes -> CodeRow]
  BY DEF TypeOK
<1>3. CASE codes' = codes
  BY <1>2, <1>3
<1>4. CASE codes' = [codes EXCEPT ![x].used = TRUE]
  <2>1. \A c \in DOMAIN codes :
          codes'[c] = IF c = x THEN [codes[c] EXCEPT !.used = TRUE] ELSE codes[c]
    BY <1>4
  <2> QED BY <1>1, <1>2, <1>4, <2>1
<1> QED BY <1>3, <1>4 DEF Marked

LEMMA TokensMarked ==
  ASSUME TypeOK, NEW x,
         refresh' \in Marked(refresh, [refresh EXCEPT ![x].revoked = TRUE])
  PROVE  /\ DOMAIN refresh' = DOMAIN refresh
         /\ refresh' \in [DOMAIN refresh -> RefreshRow]
         /\ \A t \in DOMAIN refresh :
              \/ refresh'[t] = refresh[t]
              \/ refresh'[t] = [refresh[t] EXCEPT !.revoked = TRUE]
         /\ \A t \in DOMAIN refresh : refresh'[t].grant = refresh[t].grant
<1>1. \A row \in RefreshRow : /\ [row EXCEPT !.revoked = TRUE] \in RefreshRow
                               /\ [row EXCEPT !.revoked = TRUE].grant = row.grant
  BY DEF RefreshRow
<1>2. refresh \in [DOMAIN refresh -> RefreshRow]
  BY DEF TypeOK
<1>3. CASE refresh' = refresh
  BY <1>2, <1>3
<1>4. CASE refresh' = [refresh EXCEPT ![x].revoked = TRUE]
  <2>1. \A t \in DOMAIN refresh :
          refresh'[t] = IF t = x THEN [refresh[t] EXCEPT !.revoked = TRUE]
                                ELSE refresh[t]
    BY <1>4
  <2> QED BY <1>1, <1>2, <1>4, <2>1
<1> QED BY <1>3, <1>4 DEF Marked

LEMMA Counted ==
  ASSUME TypeOK, NEW x, Count(x)
  PROVE  uses' \in [Codes \cup Refreshes -> Nat]
<1> DEFINE S == Codes \cup Refreshes
<1>1. uses \in [S -> Nat]
  BY DEF TypeOK
<1>2. uses' = [y \in S |-> IF y = x THEN uses[y] + 1 ELSE uses[y]]
  BY <1>1 DEF Count
<1>3. \A y \in S : uses[y] \in Nat /\ uses[y] + 1 \in Nat
  BY <1>1
<1> HIDE DEF S
<1>4. uses' \in [S -> Nat]
  BY <1>2, <1>3
<1> QED BY <1>4 DEF S

LEMMA TypeMarkCode ==
  ASSUME TypeOK, PointOK, NEW r \in Reqs, MarkCode(r)
  PROVE  TypeOK' /\ PointOK'
<1>1. /\ pc' = [pc EXCEPT ![r] = "check"] /\ loc' = loc /\ mu' = None
      /\ pc[r] = "mark" /\ loc[r].kind = "code"
      /\ UNCHANGED <<now, grants, refresh, known>>
      /\ Count(loc[r].item)
      /\ redeemer' = [redeemer EXCEPT ![loc[r].grant] = loc[r].form]
      /\ codes' \in Marked(codes, [codes EXCEPT ![loc[r].item].used = TRUE])
  BY DEF MarkCode, Goto, Unlock
<1>2. /\ DOMAIN codes' = DOMAIN codes
      /\ codes' \in [DOMAIN codes -> CodeRow]
      /\ \A c \in DOMAIN codes : codes'[c].grant = codes[c].grant
  BY <1>1, CodesMarked
<1>3. pc' \in [Reqs -> Points] /\ pc'[r] = "check" /\ StepOf(r)
  BY <1>1 DEF TypeOK, Points, StepOf
<1>4. redeemer' \in [Grants -> Form] /\ uses' \in [Codes \cup Refreshes -> Nat]
  <2>1. loc[r].form \in Form /\ redeemer \in [Grants -> Form]
    BY RequestTypes DEF TypeOK
  <2> QED BY <1>1, <2>1, Counted
<1>5. TypeOK'
  BY <1>1, <1>2, <1>3, <1>4 DEF TypeOK
<1>6. HasCode(r)
  BY <1>1 DEF PointOK, AtPoint
<1>7. RowsKept /\ AtPoint(r)'
  BY <1>1, <1>2, <1>3, <1>6 DEF RowsKept, AtPoint, HasCode
<1> QED BY <1>3, <1>5, <1>7, PointFrame

LEMMA TypeMarkRefresh ==
  ASSUME TypeOK, PointOK, NEW r \in Reqs, MarkRefresh(r)
  PROVE  TypeOK' /\ PointOK'
<1>1. /\ mu' = None
      /\ pc[r] = "mark" /\ loc[r].kind \in {"refresh", "revoke"}
      /\ UNCHANGED <<now, grants, codes, known, redeemer>>
      /\ Count(loc[r].item)
      /\ refresh' \in Marked(refresh, [refresh EXCEPT ![loc[r].item].revoked = TRUE])
      /\ \/ pc' = [pc EXCEPT ![r] = "idle"] /\ loc' = [loc EXCEPT ![r] = Blank]
         \/ pc' = [pc EXCEPT ![r] = "grant"] /\ loc' = loc
  BY DEF MarkRefresh, Goto, Return, Unlock
<1>2. /\ DOMAIN refresh' = DOMAIN refresh
      /\ refresh' \in [DOMAIN refresh -> RefreshRow]
      /\ \A t \in DOMAIN refresh : refresh'[t].grant = refresh[t].grant
  BY <1>1, TokensMarked
<1>3. /\ pc' \in [Reqs -> Points] /\ loc' \in [Reqs -> Local] /\ StepOf(r)
      /\ \/ pc'[r] = "idle"
         \/ pc'[r] = "grant" /\ loc'[r] = loc[r]
  <2>1. pc \in [Reqs -> Points] /\ loc \in [Reqs -> Local]
    BY DEF TypeOK
  <2>2. CASE pc' = [pc EXCEPT ![r] = "idle"] /\ loc' = [loc EXCEPT ![r] = Blank]
    <3>1. "idle" \in Points
      BY DEF Points
    <3> QED BY <2>2, <3>1, BlankType, RequestStep
  <2>3. CASE pc' = [pc EXCEPT ![r] = "grant"] /\ loc' = loc
    BY <2>1, <2>3 DEF Points, StepOf
  <2> QED BY <1>1, <2>2, <2>3
<1>4. uses' \in [Codes \cup Refreshes -> Nat]
  BY <1>1, Counted
<1>5. TypeOK'
  BY <1>1, <1>2, <1>3, <1>4 DEF TypeOK
<1>6. HasToken(r) /\ loc[r].client \in Clients
  BY <1>1 DEF PointOK, AtPoint
<1>7. loc[r].grant \in Grants
  BY <1>6, RowTypes DEF HasToken
<1>8. RowsKept /\ AtPoint(r)'
  BY <1>1, <1>2, <1>3, <1>6, <1>7 DEF RowsKept, AtPoint
<1> QED BY <1>3, <1>5, <1>8, PointFrame

LEMMA TypeCheckCode ==
  ASSUME TypeOK, PointOK, NEW r \in Reqs, CheckCode(r)
  PROVE  TypeOK' /\ PointOK'
<1> DEFINE l == [loc[r] EXCEPT !.client = loc[r].form.client]
<1>1. CASE Return(r)
  BY <1>1, TypeReturn DEF CheckCode, TypeOK
<1>2. CASE /\ codes[loc[r].item].client = loc[r].form.client
           /\ Goto(r, "grant")
           /\ loc' = [loc EXCEPT ![r] = l]
  <2>1. UNCHANGED <<now, grants, codes, refresh, mu, known, uses, redeemer>>
    BY DEF CheckCode
  <2>2. HasCode(r)
    BY DEF CheckCode, PointOK, AtPoint
  <2>3. loc[r].grant \in Grants /\ loc[r].form.client \in Clients
    BY <1>2, <2>2, RowTypes DEF HasCode
  <2>4. /\ l \in Local
        /\ l.grant = loc[r].grant /\ l.client = loc[r].form.client
    <3>1. loc[r] \in Local /\ None \in Codes \cup Refreshes \cup {None}
      BY RequestTypes
    <3> QED BY <2>3, <3>1, LocalExcept
  <2> HIDE DEF l
  <2>5. /\ pc' \in [Reqs -> Points] /\ pc'[r] = "grant"
        /\ loc' \in [Reqs -> Local] /\ loc'[r] = l /\ StepOf(r)
    <3>1. "grant" \in Points
      BY DEF Points
    <3> QED BY <1>2, <2>4, <3>1, RequestStep DEF Goto
  <2>6. TypeOK'
    BY <2>1, <2>5 DEF TypeOK
  <2>7. RowsKept /\ AtPoint(r)'
    BY <2>1, <2>3, <2>4, <2>5 DEF RowsKept, AtPoint
  <2> QED BY <2>5, <2>6, <2>7, PointFrame
<1> QED BY <1>1, <1>2 DEF CheckCode

LEMMA TypeReadGrant ==
  ASSUME TypeOK, PointOK, NEW r \in Reqs, ReadGrant(r)
  PROVE  TypeOK' /\ PointOK'
<1>1. CASE Return(r)
  BY <1>1, TypeReturn DEF ReadGrant, TypeOK
<1>2. CASE Goto(r, "put") /\ UNCHANGED loc
  <2>1. UNCHANGED <<now, grants, codes, refresh, mu, known, uses, redeemer>>
    BY DEF ReadGrant
  <2>2. pc' \in [Reqs -> Points] /\ pc'[r] = "put" /\ StepOf(r)
    BY <1>2 DEF Goto, Points, TypeOK, StepOf
  <2>3. TypeOK'
    BY <1>2, <2>1, <2>2 DEF TypeOK
  <2>4. RowsKept /\ AtPoint(r)'
    BY <1>2, <2>1, <2>2 DEF ReadGrant, RowsKept, PointOK, AtPoint
  <2> QED BY <2>2, <2>3, <2>4, PointFrame
<1> QED BY <1>1, <1>2 DEF ReadGrant

LEMMA TypePutRefresh ==
  ASSUME TypeOK, PointOK, NEW r \in Reqs, PutRefresh(r)
  PROVE  TypeOK' /\ PointOK'
<1> DEFINE row == [grant |-> loc[r].grant, client |-> loc[r].client,
                   exp |-> now + RefreshTTL, revoked |-> FALSE]
<1>1. CASE Return(r) /\ UNCHANGED refresh
  BY <1>1, TypeReturn DEF PutRefresh, TypeOK
<1>2. ASSUME NEW t \in Refreshes \ DOMAIN refresh,
             refresh' = Insert(refresh, t, row),
             Goto(r, "reply"), loc' = [loc EXCEPT ![r] = [@ EXCEPT !.item = t]]
      PROVE  TypeOK' /\ PointOK'
  <2>1. UNCHANGED <<now, grants, codes, mu, known, uses, redeemer>>
    BY DEF PutRefresh
  <2>2. row \in RefreshRow
    <3>1. loc[r].grant \in Grants /\ loc[r].client \in Clients
      BY DEF PutRefresh, PointOK, AtPoint
    <3>2. now + RefreshTTL \in Nat
      BY ConstantsAssumption DEF TypeOK
    <3> QED BY <3>1, <3>2 DEF RefreshRow
  <2> HIDE DEF row
  <2>3. /\ DOMAIN refresh' = DOMAIN refresh \cup {t}
        /\ refresh' \in [DOMAIN refresh' -> RefreshRow]
        /\ \A s \in DOMAIN refresh : refresh'[s] = refresh[s]
    <3>1. refresh \in [DOMAIN refresh -> RefreshRow]
      BY DEF TypeOK
    <3> QED BY <1>2, <2>2, <3>1 DEF Insert
  <2>4. /\ pc' \in [Reqs -> Points] /\ pc'[r] = "reply"
        /\ loc' \in [Reqs -> Local] /\ loc'[r].item = t /\ StepOf(r)
    <3>1. "reply" \in Points
      BY DEF Points
    <3>2. /\ loc[r] \in Local /\ t \in Codes \cup Refreshes \cup {None}
          /\ None \in Clients \cup {None}
      BY RequestTypes
    <3>3. [loc[r] EXCEPT !.item = t] \in Local /\ [loc[r] EXCEPT !.item = t].item = t
      BY <3>2, LocalExcept
    <3> DEFINE l == [loc[r] EXCEPT !.item = t]
    <3>4. /\ pc' = [pc EXCEPT ![r] = "reply"] /\ loc' = [loc EXCEPT ![r] = l]
          /\ l \in Local /\ l.item = t
      BY <1>2, <3>3 DEF Goto
    <3> HIDE DEF l
    <3> QED BY <3>1, <3>4, RequestStep
  <2>5. TypeOK'
    BY <2>1, <2>3, <2>4 DEF TypeOK
  <2>6. RowsKept /\ AtPoint(r)'
    BY <2>1, <2>3, <2>4 DEF RowsKept, AtPoint
  <2> QED BY <2>4, <2>5, <2>6, PointFrame
<1> QED BY <1>1, <1>2 DEF PutRefresh

LEMMA TypeReply ==
  ASSUME TypeOK, PointOK, NEW r \in Reqs, Reply(r)
  PROVE  TypeOK' /\ PointOK'
<1>1. UNCHANGED <<now, grants, codes, refresh, mu, uses, redeemer>>
  BY DEF Reply
<1>2. /\ pc' \in [Reqs -> Points] /\ pc'[r] = "idle"
      /\ loc' \in [Reqs -> Local] /\ StepOf(r)
  <2>1. "idle" \in Points
    BY DEF Points
  <2> QED BY <2>1, BlankType, RequestStep DEF Reply, Return, Goto
<1>3. known' \subseteq Refreshes
  BY DEF Reply, TypeOK, PointOK, AtPoint
<1>4. TypeOK'
  BY <1>1, <1>2, <1>3 DEF TypeOK
<1>5. RowsKept /\ AtPoint(r)'
  BY <1>1, <1>2 DEF RowsKept, AtPoint
<1> QED BY <1>2, <1>4, <1>5, PointFrame

LEMMA TypeConfirm ==
  ASSUME TypeOK, PointOK, NEW r \in Reqs, Confirm(r)
  PROVE  TypeOK' /\ PointOK'
<1>1. PICK g \in Grants :
        loc' = [loc EXCEPT ![r] = [Blank EXCEPT !.kind = "confirm", !.grant = g]]
  BY DEF Confirm
<1>2. /\ pc' = [pc EXCEPT ![r] = "putgrant"]
      /\ UNCHANGED <<now, grants, codes, refresh, mu, known, uses, redeemer>>
  BY DEF Confirm, Goto
<1> DEFINE l == [Blank EXCEPT !.kind = "confirm", !.grant = g]
<1>3. l \in Local /\ l.grant = g
  BY DEF Blank, Local, Kinds, Form, NoForm
<1>4. loc' = [loc EXCEPT ![r] = l]
  BY <1>1
<1> HIDE DEF l
<1>5. "putgrant" \in Points
  BY DEF Points
<1>6. /\ pc' \in [Reqs -> Points] /\ pc'[r] = "putgrant"
      /\ loc' \in [Reqs -> Local] /\ loc'[r] = l /\ StepOf(r)
  BY <1>2, <1>3, <1>4, <1>5, RequestStep
<1>7. TypeOK'
  BY <1>2, <1>6 DEF TypeOK
<1>8. RowsKept /\ AtPoint(r)'
  BY <1>2, <1>3, <1>6 DEF RowsKept, AtPoint
<1> QED BY <1>6, <1>7, <1>8, PointFrame

LEMMA TypePutGrant ==
  ASSUME TypeOK, PointOK, NEW r \in Reqs, PutGrant(r)
  PROVE  TypeOK' /\ PointOK'
<1>1. CASE Return(r) /\ UNCHANGED grants
  BY <1>1, TypeReturn DEF PutGrant, TypeOK
<1>2. CASE /\ grants' = Insert(grants, loc[r].grant, "live")
           /\ Goto(r, "putcode") /\ UNCHANGED loc
  <2>1. UNCHANGED <<now, codes, refresh, mu, known, uses, redeemer>>
    BY DEF PutGrant
  <2>2. loc[r].grant \in Grants
    BY DEF PutGrant, PointOK, AtPoint
  <2>3. DOMAIN grants' \subseteq Grants /\ grants' \in [DOMAIN grants' -> {"live", "revoked"}]
    <3>1. grants \in [DOMAIN grants -> {"live", "revoked"}] /\ DOMAIN grants \subseteq Grants
      BY DEF TypeOK
    <3>2. "live" \in {"live", "revoked"}
      OBVIOUS
    <3> QED BY <1>2, <2>2, <3>1, <3>2 DEF Insert
  <2>4. pc' \in [Reqs -> Points] /\ pc'[r] = "putcode" /\ StepOf(r)
    BY <1>2 DEF Goto, Points, TypeOK, StepOf
  <2>5. TypeOK'
    BY <1>2, <2>1, <2>3, <2>4 DEF TypeOK
  <2>6. RowsKept /\ AtPoint(r)'
    BY <1>2, <2>1, <2>2, <2>4 DEF RowsKept, AtPoint
  <2> QED BY <2>4, <2>5, <2>6, PointFrame
<1> QED BY <1>1, <1>2 DEF PutGrant

LEMMA TypePutAuthCode ==
  ASSUME TypeOK, PointOK, NEW r \in Reqs, PutAuthCode(r)
  PROVE  TypeOK' /\ PointOK'
<1> DEFINE Row(k, u, h) ==
      [grant |-> loc[r].grant, client |-> k, redirect |-> u,
       challenge |-> h, exp |-> now + CodeTTL, used |-> FALSE]
<1>1. CASE UNCHANGED codes
  BY <1>1, TypeReturn DEF PutAuthCode, TypeOK
<1>2. ASSUME NEW c \in Codes \ DOMAIN codes, NEW k \in Clients,
             NEW u \in Redirects, NEW h \in Challenges,
             codes' = Insert(codes, c, Row(k, u, h))
      PROVE  TypeOK' /\ PointOK'
  <2>1. UNCHANGED <<now, grants, refresh, mu, known, uses, redeemer>>
    BY DEF PutAuthCode
  <2>2. Row(k, u, h) \in CodeRow
    <3>1. loc[r].grant \in Grants
      BY DEF PutAuthCode, PointOK, AtPoint
    <3>2. now + CodeTTL \in Nat
      BY ConstantsAssumption DEF TypeOK
    <3> QED BY <3>1, <3>2 DEF CodeRow
  <2> HIDE DEF Row
  <2>3. /\ DOMAIN codes' = DOMAIN codes \cup {c}
        /\ codes' \in [DOMAIN codes' -> CodeRow]
        /\ \A d \in DOMAIN codes : codes'[d] = codes[d]
    <3>1. codes \in [DOMAIN codes -> CodeRow]
      BY DEF TypeOK
    <3> QED BY <1>2, <2>2, <3>1 DEF Insert
  <2>4. /\ pc' \in [Reqs -> Points] /\ pc'[r] = "idle"
        /\ loc' \in [Reqs -> Local] /\ StepOf(r)
    <3>1. "idle" \in Points
      BY DEF Points
    <3> QED BY <3>1, BlankType, RequestStep DEF PutAuthCode, Return, Goto
  <2>5. TypeOK'
    BY <2>1, <2>3, <2>4 DEF TypeOK
  <2>6. RowsKept /\ AtPoint(r)'
    BY <2>1, <2>3, <2>4 DEF RowsKept, AtPoint
  <2> QED BY <2>4, <2>5, <2>6, PointFrame
<1> QED BY <1>1, <1>2 DEF PutAuthCode

\* The steps that are not a request's.
LEMMA TypeEnvironment ==
  ASSUME TypeOK, PointOK,
         \/ \E g \in Grants : RevokeGrant(g) \/ RewriteGrant(g)
         \/ Restart
         \/ Tick
  PROVE  TypeOK' /\ PointOK'
<1>1. ASSUME NEW g \in Grants, RevokeGrant(g) \/ RewriteGrant(g)
      PROVE  TypeOK' /\ PointOK'
  <2>1. DOMAIN grants' \subseteq Grants /\ grants' \in [DOMAIN grants' -> {"live", "revoked"}]
    BY <1>1 DEF RevokeGrant, RewriteGrant, TypeOK
  <2>2. UNCHANGED <<now, codes, refresh, mu, pc, loc, known, uses, redeemer>>
    BY <1>1 DEF RevokeGrant, RewriteGrant
  <2> QED BY <2>1, <2>2 DEF TypeOK, PointOK, AtPoint, HasCode, HasToken
<1>2. CASE Restart
  <2>1. /\ mu' = None
        /\ pc' \in [Reqs -> Points] /\ \A r \in Reqs : pc'[r] = "idle"
        /\ loc' \in [Reqs -> Local]
        /\ UNCHANGED <<now, grants, codes, refresh, known, uses, redeemer>>
    BY <1>2, BlankType DEF Restart, Points
  <2> QED BY <2>1 DEF TypeOK, PointOK, AtPoint
<1>3. CASE Tick
  <2>1. now' \in Nat
    BY <1>3 DEF Tick, TypeOK
  <2>2. UNCHANGED <<grants, codes, refresh, mu, pc, loc, known, uses, redeemer>>
    BY <1>3 DEF Tick
  <2> QED BY <2>1, <2>2 DEF TypeOK, PointOK, AtPoint, HasCode, HasToken
<1> QED BY <1>1, <1>2, <1>3

LEMMA TypeStep ==
  ASSUME TypeOK, PointOK, [Next]_vars
  PROVE  TypeOK' /\ PointOK'
<1>1. CASE UNCHANGED vars
  BY <1>1 DEF vars, TypeOK, PointOK, AtPoint, HasCode, HasToken
<1>2. CASE Next
  BY <1>2, TypeArrive, TypeSelect, TypeMarkCode, TypeMarkRefresh,
     TypeCheckCode, TypeReadGrant, TypePutRefresh, TypeReply, TypeConfirm,
     TypePutGrant, TypePutAuthCode, TypeEnvironment
  DEF Next, Consume, Proceed
<1> QED BY <1>1, <1>2

\* The tables and the locals of every request keep their types: no handler
\* stores a row without a grant and a client, whatever path led to it.
THEOREM TypeCorrect == Spec => []TypeOK
<1>1. Init => TypeOK /\ PointOK
  BY TypeInit
<1>2. TypeOK /\ PointOK /\ [Next]_vars => TypeOK' /\ PointOK'
  BY TypeStep
<1> QED BY <1>1, <1>2, PTL DEF Spec

-----------------------------------------------------------------------------
(* Token rotation is linear as long as no UPDATE of a consume is lost.     *)
(* OneLiveCredential is not inductive by itself: between the SELECT and    *)
(* the UPDATE the right is still in the row, and only the mutex says that  *)
(* a single request is about to take it; and a grant that is being         *)
(* confirmed must be one no credential names yet.                          *)

MutexOK == \A r \in Reqs : pc[r] = "mark" => mu = r

MarkOK ==
  \A r \in Reqs : pc[r] = "mark" =>
    /\ loc[r].kind = "code" => ~codes[loc[r].item].used
    /\ loc[r].kind # "code" => ~refresh[loc[r].item].revoked

UsesOK ==
  /\ \A c \in Codes :
       \/ uses[c] = 0
       \/ uses[c] = 1 /\ c \in DOMAIN codes /\ codes[c].used
  /\ \A t \in Refreshes :
       \/ uses[t] = 0
       \/ uses[t] = 1 /\ t \in DOMAIN refresh /\ refresh[t].revoked

Underway(r, g) == pc[r] \in {"check", "grant", "put", "putcode"} /\ loc[r].grant = g

GrantsOK ==
  /\ \A c \in DOMAIN codes : codes[c].grant \in DOMAIN grants
  /\ \A t \in DOMAIN refresh : refresh[t].grant \in DOMAIN grants
  /\ \A r \in Reqs : Underway(r, loc[r].grant) => loc[r].grant \in DOMAIN grants

Confirming(r, g) == pc[r] \in {"putgrant", "putcode"} /\ loc[r].grant = g

ConfirmOK ==
  /\ \A r \in Reqs : pc[r] = "putgrant" => loc[r].grant \notin DOMAIN grants
  /\ \A g \in Grants, q, r \in Reqs : Confirming(q, g) /\ Confirming(r, g) => q = r
  /\ \A g \in Grants, r \in Reqs : pc[r] = "putcode" /\ loc[r].grant = g =>
       /\ \A c \in DOMAIN codes : codes[c].grant # g
       /\ \A t \in DOMAIN refresh : refresh[t].grant # g
       /\ \A q \in Reqs : ~InFlight(q, g)

LinearInv == MutexOK /\ MarkOK /\ UsesOK /\ GrantsOK /\ ConfirmOK
               /\ OneLiveCredential

\* The part of LinearInv that only the tables and the requests decide.
TablesKept == UNCHANGED <<codes, refresh, uses>> /\ DOMAIN grants' = DOMAIN grants

\* A request moves on, or returns, without touching a credential.
LEMMA QuietStep ==
  ASSUME TypeOK, PointOK, LinearInv, NEW r \in Reqs, StepOf(r), TablesKept,
         mu' = mu, pc[r] # "mark",
         \/ pc'[r] \in {"idle", "select", "reply"}
         \/ /\ pc'[r] \in {"grant", "put"} /\ pc[r] \in {"check", "grant"}
            /\ loc'[r].grant = loc[r].grant
  PROVE  LinearInv'
<1> USE DEF StepOf, TablesKept
<1>1. \A q \in Reqs, g \in Grants : InFlight(q, g)' => InFlight(q, g)
  BY DEF InFlight
<1>2. MutexOK' /\ MarkOK' /\ UsesOK'
  BY DEF LinearInv, MutexOK, MarkOK, UsesOK
<1>3. GrantsOK'
  BY DEF LinearInv, GrantsOK, Underway
<1>4. ConfirmOK'
  BY <1>1 DEF LinearInv, ConfirmOK, Confirming
<1>5. OneLiveCredential'
  BY <1>1 DEF LinearInv, OneLiveCredential, InCode, InToken
<1> QED BY <1>2, <1>3, <1>4, <1>5 DEF LinearInv

LEMMA LinearInit == Init => LinearInv
BY ConstantsAssumption
DEF Init, LinearInv, MutexOK, MarkOK, UsesOK, GrantsOK, ConfirmOK,
    OneLiveCredential, Underway, Confirming, InCode, InToken, InFlight

\* A handler that returns without having consumed anything.
LEMMA LinearReturn ==
  ASSUME TypeOK, PointOK, LinearInv, NEW r \in Reqs, Return(r), TablesKept,
         mu' = mu, pc[r] # "mark"
  PROVE  LinearInv'
<1>1. StepOf(r) /\ pc'[r] = "idle"
  <2>1. "idle" \in Points
    BY DEF Points
  <2> QED BY <2>1, BlankType, RequestStep DEF Return, Goto
<1> QED BY <1>1, QuietStep

LEMMA LinearArrive ==
  ASSUME TypeOK, PointOK, LinearInv, NEW r \in Reqs,
         TokenCode(r) \/ TokenRefresh(r) \/ Revoke(r)
  PROVE  LinearInv'
<1>1. /\ pc' = [pc EXCEPT ![r] = "select"] /\ pc[r] = "idle"
      /\ \A q \in Reqs \ {r} : loc'[q] = loc[q]
      /\ TablesKept /\ mu' = mu
  BY DEF TokenCode, TokenRefresh, Revoke, Arrive, Goto, TablesKept, TypeOK
<1>2. StepOf(r) /\ pc'[r] = "select"
  BY <1>1 DEF TypeOK, StepOf
<1> QED BY <1>1, <1>2, QuietStep

LEMMA LinearSelect ==
  ASSUME TypeOK, PointOK, LinearInv, NEW r \in Reqs,
         SelectCode(r) \/ SelectRefresh(r)
  PROVE  LinearInv'
<1> DEFINE i == loc[r].item
<1>1. TablesKept /\ pc[r] = "select" /\ mu = None
  BY DEF SelectCode, SelectRefresh, Select, Unlocked, TablesKept
<1>2. CASE Return(r) /\ mu' = mu
  BY <1>1, <1>2, LinearReturn
<1>3. ASSUME pc' = [pc EXCEPT ![r] = "mark"], mu' = r,
             \/ /\ loc[r].kind = "code" /\ i \in DOMAIN codes /\ ~codes[i].used
                /\ loc' = [loc EXCEPT ![r] = Scanned(@, codes[i])]
             \/ /\ loc[r].kind # "code" /\ i \in DOMAIN refresh
                /\ ~refresh[i].revoked
                /\ loc' = [loc EXCEPT ![r] = Scanned(@, refresh[i])]
      PROVE  LinearInv'
  <2>1. pc'[r] = "mark" /\ StepOf(r)
    BY <1>3 DEF TypeOK, StepOf
  <2>2. loc'[r].kind = loc[r].kind /\ loc'[r].item = i
    <3>1. loc[r] \in Local
      BY RequestTypes
    <3>2. CASE /\ i \in DOMAIN codes
               /\ loc' = [loc EXCEPT ![r] = Scanned(@, codes[i])]
      <4>1. loc'[r] = Scanned(loc[r], codes[i])
        BY <3>2 DEF TypeOK
      <4>2. codes[i].grant \in Grants /\ codes[i].client \in Clients
        BY <3>2, RowTypes
      <4> QED BY <3>1, <4>1, <4>2, ScannedType
    <3>3. CASE /\ i \in DOMAIN refresh
               /\ loc' = [loc EXCEPT ![r] = Scanned(@, refresh[i])]
      <4>1. loc'[r] = Scanned(loc[r], refresh[i])
        BY <3>3 DEF TypeOK
      <4>2. refresh[i].grant \in Grants /\ refresh[i].client \in Clients
        BY <3>3, RowTypes
      <4> QED BY <3>1, <4>1, <4>2, ScannedType
    <3> QED BY <1>3, <3>2, <3>3
  <2>3. \A q \in Reqs : pc[q] # "mark"
    BY <1>1, ConstantsAssumption DEF LinearInv, MutexOK
  <2>4. \A q \in Reqs, g \in Grants : InFlight(q, g)' => InFlight(q, g)
    BY <2>1 DEF InFlight, StepOf
  <2>5. MutexOK'
    BY <1>3, <2>1, <2>3 DEF MutexOK, StepOf
  <2>6. MarkOK'
    BY <1>1, <1>3, <2>1, <2>2, <2>3 DEF MarkOK, StepOf, TablesKept
  <2>7. UsesOK'
    BY <1>1 DEF LinearInv, UsesOK, TablesKept
  <2>8. GrantsOK'
    BY <1>1, <2>1 DEF LinearInv, GrantsOK, Underway, StepOf, TablesKept
  <2>9. ConfirmOK'
    BY <1>1, <2>1, <2>4 DEF LinearInv, ConfirmOK, Confirming, StepOf, TablesKept
  <2>10. OneLiveCredential'
    BY <1>1, <2>4 DEF LinearInv, OneLiveCredential, InCode, InToken, TablesKept
  <2> QED BY <2>5, <2>6, <2>7, <2>8, <2>9, <2>10 DEF LinearInv
<1> QED BY <1>2, <1>3 DEF SelectCode, SelectRefresh, Select, Goto, Live,
                          Redeemable

\* The code leaves the table and the request has it: the mutex and the
\* SELECT made sure that nobody else has, whether in the table or in flight.
LEMMA LinearMarkCode ==
  ASSUME TypeOK, PointOK, LinearInv, "mark" \notin Faults,
         NEW r \in Reqs, MarkCode(r)
  PROVE  LinearInv'
<1> DEFINE c == loc[r].item
           g == loc[r].grant
<1>1. /\ pc[r] = "mark" /\ loc[r].kind = "code"
      /\ mu' = None /\ loc' = loc /\ UNCHANGED <<grants, refresh>>
      /\ codes' = [codes EXCEPT ![c].used = TRUE]
      /\ uses' = [uses EXCEPT ![c] = @ + 1]
  BY DEF MarkCode, Marked, Count, Unlock
<1>2. StepOf(r) /\ pc'[r] = "check"
  BY DEF MarkCode, Goto, TypeOK, StepOf
<1>3. /\ c \in DOMAIN codes /\ codes[c].grant = g /\ ~codes[c].used
      /\ c \in Codes /\ g \in Grants /\ g \in DOMAIN grants
  <2>1. c \in DOMAIN codes /\ codes[c].grant = g /\ ~codes[c].used
    BY <1>1 DEF PointOK, AtPoint, HasCode, LinearInv, MarkOK
  <2> QED BY <2>1, RowTypes DEF TypeOK, LinearInv, GrantsOK
<1>4. /\ DOMAIN codes' = DOMAIN codes
      /\ codes'[c].used
      /\ \A d \in DOMAIN codes : d # c => codes'[d] = codes[d]
      /\ \A d \in DOMAIN codes : codes'[d].grant = codes[d].grant
  <2>1. codes' = [d \in DOMAIN codes |->
                   IF d = c THEN [codes[d] EXCEPT !.used = TRUE] ELSE codes[d]]
    BY <1>1 DEF TypeOK
  <2>2. codes[c] \in CodeRow
    BY <1>3 DEF TypeOK
  <2>3. /\ [codes[c] EXCEPT !.used = TRUE].used
        /\ [codes[c] EXCEPT !.used = TRUE].grant = codes[c].grant
    BY <2>2 DEF CodeRow
  <2> QED BY <1>3, <2>1, <2>3
<1> HIDE DEF c, g
<1>5. \A q \in Reqs : pc'[q] # "mark"
  BY <1>1, <1>2 DEF LinearInv, MutexOK, StepOf
<1>6. MutexOK' /\ MarkOK'
  BY <1>5 DEF MutexOK, MarkOK
<1>7. UsesOK'
  <2>1. uses[c] = 0
    BY <1>3 DEF LinearInv, UsesOK
  <2>2. uses'[c] = 1 /\ \A x \in Codes \cup Refreshes : x # c => uses'[x] = uses[x]
    BY <1>1, <1>3, <2>1 DEF TypeOK
  <2>3. c \notin Refreshes
    BY <1>3, ConstantsAssumption
  <2> QED BY <1>1, <1>3, <1>4, <2>2, <2>3 DEF LinearInv, UsesOK
<1>8. GrantsOK'
  BY <1>1, <1>2, <1>3, <1>4 DEF g, LinearInv, GrantsOK, Underway, StepOf
<1>9. \A q \in Reqs, h \in Grants :
        InFlight(q, h)' => InFlight(q, h) \/ (q = r /\ h = g)
  BY <1>1, <1>2 DEF g, InFlight, StepOf
<1>10. InCode(c, g)
  BY <1>3 DEF InCode
<1>11. ConfirmOK'
  BY <1>1, <1>2, <1>3, <1>4, <1>9
  DEF LinearInv, ConfirmOK, Confirming, StepOf
<1>12. OneLiveCredential'
  <2>1. \A d \in Codes, h \in Grants : InCode(d, h)' => InCode(d, h) /\ d # c
    BY <1>4 DEF InCode
  <2>2. \A t \in Refreshes, h \in Grants : InToken(t, h)' <=> InToken(t, h)
    BY <1>1 DEF InToken
  <2> QED BY <1>3, <1>9, <1>10, <2>1, <2>2 DEF LinearInv, OneLiveCredential
<1> QED BY <1>6, <1>7, <1>8, <1>11, <1>12 DEF LinearInv

LEMMA LinearMarkRefresh ==
  ASSUME TypeOK, PointOK, LinearInv, "mark" \notin Faults,
         NEW r \in Reqs, MarkRefresh(r)
  PROVE  LinearInv'
<1> DEFINE t == loc[r].item
           g == loc[r].grant
<1>1. /\ pc[r] = "mark" /\ loc[r].kind \in {"refresh", "revoke"}
      /\ mu' = None /\ UNCHANGED <<grants, codes>>
      /\ refresh' = [refresh EXCEPT ![t].revoked = TRUE]
      /\ uses' = [uses EXCEPT ![t] = @ + 1]
      /\ \/ Return(r)
         \/ Goto(r, "grant") /\ loc' = loc
  BY DEF MarkRefresh, Marked, Count, Unlock
<1>2. StepOf(r) /\ \/ pc'[r] = "idle"
                   \/ pc'[r] = "grant" /\ loc'[r] = loc[r]
  BY <1>1 DEF Return, Goto, TypeOK, StepOf
<1>3. /\ t \in DOMAIN refresh /\ refresh[t].grant = g /\ ~refresh[t].revoked
      /\ t \in Refreshes /\ g \in Grants /\ g \in DOMAIN grants
  <2>1. t \in DOMAIN refresh /\ refresh[t].grant = g /\ ~refresh[t].revoked
    BY <1>1 DEF PointOK, AtPoint, HasToken, LinearInv, MarkOK
  <2> QED BY <2>1, RowTypes DEF TypeOK, LinearInv, GrantsOK
<1>4. /\ DOMAIN refresh' = DOMAIN refresh
      /\ refresh'[t].revoked
      /\ \A s \in DOMAIN refresh : s # t => refresh'[s] = refresh[s]
      /\ \A s \in DOMAIN refresh : refresh'[s].grant = refresh[s].grant
  <2>1. refresh' = [s \in DOMAIN refresh |->
                     IF s = t THEN [refresh[s] EXCEPT !.revoked = TRUE]
                              ELSE refresh[s]]
    BY <1>1 DEF TypeOK
  <2>2. refresh[t] \in RefreshRow
    BY <1>3 DEF TypeOK
  <2>3. /\ [refresh[t] EXCEPT !.revoked = TRUE].revoked
        /\ [refresh[t] EXCEPT !.revoked = TRUE].grant = refresh[t].grant
    BY <2>2 DEF RefreshRow
  <2> QED BY <1>3, <2>1, <2>3
<1> HIDE DEF t, g
<1>5. \A q \in Reqs : pc'[q] # "mark"
  BY <1>1, <1>2 DEF LinearInv, MutexOK, StepOf
<1>6. MutexOK' /\ MarkOK'
  BY <1>5 DEF MutexOK, MarkOK
<1>7. UsesOK'
  <2>1. uses[t] = 0
    BY <1>3 DEF LinearInv, UsesOK
  <2>2. uses'[t] = 1 /\ \A x \in Codes \cup Refreshes : x # t => uses'[x] = uses[x]
    BY <1>1, <1>3, <2>1 DEF TypeOK
  <2>3. t \notin Codes
    BY <1>3, ConstantsAssumption
  <2> QED BY <1>1, <1>3, <1>4, <2>2, <2>3 DEF LinearInv, UsesOK
<1>8. GrantsOK'
  BY <1>1, <1>2, <1>3, <1>4 DEF g, LinearInv, GrantsOK, Underway, StepOf
<1>9. \A q \in Reqs, h \in Grants :
        InFlight(q, h)' => InFlight(q, h) \/ (q = r /\ h = g)
  BY <1>1, <1>2 DEF g, InFlight, StepOf
<1>10. InToken(t, g)
  BY <1>3 DEF InToken
<1>11. ConfirmOK'
  BY <1>1, <1>2, <1>3, <1>4, <1>9
  DEF LinearInv, ConfirmOK, Confirming, StepOf
<1>12. OneLiveCredential'
  <2>1. \A s \in Refreshes, h \in Grants : InToken(s, h)' => InToken(s, h) /\ s # t
    BY <1>4 DEF InToken
  <2>2. \A d \in Codes, h \in Grants : InCode(d, h)' <=> InCode(d, h)
    BY <1>1 DEF InCode
  <2> QED BY <1>3, <1>9, <1>10, <2>1, <2>2 DEF LinearInv, OneLiveCredential
<1> QED BY <1>6, <1>7, <1>8, <1>11, <1>12 DEF LinearInv

LEMMA LinearCheckAndRead ==
  ASSUME TypeOK, PointOK, LinearInv, NEW r \in Reqs,
         CheckCode(r) \/ ReadGrant(r)
  PROVE  LinearInv'
<1>1. TablesKept /\ mu' = mu /\ pc[r] \in {"check", "grant"}
  BY DEF CheckCode, ReadGrant, TablesKept
<1>2. CASE Return(r)
  BY <1>1, <1>2, LinearReturn
<1>3. CASE Goto(r, "grant") /\ loc' = [loc EXCEPT ![r] =
                                        [@ EXCEPT !.client = loc[r].form.client]]
  <2>1. StepOf(r) /\ pc'[r] = "grant"
    BY <1>3 DEF Goto, TypeOK, StepOf
  <2>2. loc'[r].grant = loc[r].grant
    <3>1. loc[r] \in Local
      BY RequestTypes
    <3>2. loc'[r] = [loc[r] EXCEPT !.client = loc[r].form.client]
      BY <1>3 DEF TypeOK
    <3> QED BY <3>1, <3>2 DEF Local
  <2> QED BY <1>1, <2>1, <2>2, QuietStep
<1>4. CASE Goto(r, "put") /\ loc' = loc
  <2>1. StepOf(r) /\ pc'[r] = "put"
    BY <1>4 DEF Goto, TypeOK, StepOf
  <2> QED BY <1>1, <1>4, <2>1, QuietStep
<1> QED BY <1>2, <1>3, <1>4 DEF CheckCode, ReadGrant

\* The right comes back as a token no request or code of the grant rivals.
LEMMA LinearPutRefresh ==
  ASSUME TypeOK, PointOK, LinearInv, NEW r \in Reqs, PutRefresh(r)
  PROVE  LinearInv'
<1> DEFINE g == loc[r].grant
<1>1. /\ pc[r] = "put" /\ UNCHANGED <<grants, codes, mu, uses>>
  BY DEF PutRefresh
<1>2. CASE Return(r) /\ UNCHANGED refresh
  BY <1>1, <1>2, LinearReturn DEF TablesKept
<1>3. ASSUME NEW t \in Refreshes \ DOMAIN refresh,
             refresh' = Insert(refresh, t,
               [grant |-> g, client |-> loc[r].client,
                exp |-> now + RefreshTTL, revoked |-> FALSE]),
             Goto(r, "reply"), loc' = [loc EXCEPT ![r] = [@ EXCEPT !.item = t]]
      PROVE  LinearInv'
  <2>1. StepOf(r) /\ pc'[r] = "reply"
    BY <1>3 DEF Goto, TypeOK, StepOf
  <2>2. /\ DOMAIN refresh' = DOMAIN refresh \cup {t}
        /\ refresh'[t].grant = g
        /\ \A s \in DOMAIN refresh : refresh'[s] = refresh[s]
    BY <1>3 DEF Insert
  <2>3. g \in Grants /\ InFlight(r, g)
    BY <1>1 DEF PointOK, AtPoint, InFlight
  <2>4. g \in DOMAIN grants
    BY <1>1 DEF LinearInv, GrantsOK, Underway
  <2> HIDE DEF g
  <2>5. \A q \in Reqs, h \in Grants : InFlight(q, h)' => InFlight(q, h) /\ q # r
    BY <2>1 DEF InFlight, StepOf
  <2>6. MutexOK' /\ MarkOK'
    BY <1>1, <2>1, <2>2 DEF LinearInv, MutexOK, MarkOK, StepOf, PointOK, AtPoint,
                            HasToken
  <2>7. UsesOK'
    BY <1>1, <2>2 DEF LinearInv, UsesOK
  <2>8. GrantsOK'
    BY <1>1, <2>1, <2>2, <2>4 DEF LinearInv, GrantsOK, Underway, StepOf
  <2>9. ConfirmOK'
    BY <1>1, <2>1, <2>2, <2>3, <2>5
    DEF LinearInv, ConfirmOK, Confirming, StepOf
  <2>10. OneLiveCredential'
    <3>1. \A s \in Refreshes, h \in Grants :
            InToken(s, h)' => InToken(s, h) \/ (s = t /\ h = g)
      BY <2>2 DEF InToken
    <3>2. \A d \in Codes, h \in Grants : InCode(d, h)' <=> InCode(d, h)
      BY <1>1 DEF InCode
    <3> QED BY <2>3, <2>5, <3>1, <3>2 DEF LinearInv, OneLiveCredential
  <2> QED BY <2>6, <2>7, <2>8, <2>9, <2>10 DEF LinearInv
<1> QED BY <1>2, <1>3 DEF PutRefresh

LEMMA LinearReply ==
  ASSUME TypeOK, PointOK, LinearInv, NEW r \in Reqs, Reply(r)
  PROVE  LinearInv'
BY LinearReturn DEF Reply, TablesKept

\* A grant id that is being confirmed is in nobody else's hands.
LEMMA LinearConfirm ==
  ASSUME TypeOK, PointOK, LinearInv, NEW r \in Reqs, Confirm(r)
  PROVE  LinearInv'
<1>1. PICK g \in Grants \ DOMAIN grants :
        /\ \A q \in Reqs : pc[q] = "putgrant" => loc[q].grant # g
        /\ loc' = [loc EXCEPT ![r] = [Blank EXCEPT !.kind = "confirm",
                                                   !.grant = g]]
  BY DEF Confirm
<1>2. /\ TablesKept /\ mu' = mu /\ pc[r] = "idle" /\ grants' = grants
      /\ pc' = [pc EXCEPT ![r] = "putgrant"]
  BY DEF Confirm, TablesKept, Goto
<1>3. StepOf(r) /\ pc'[r] = "putgrant" /\ loc'[r].grant = g
  <2>1. [Blank EXCEPT !.kind = "confirm", !.grant = g].grant = g
    BY DEF Blank
  <2> QED BY <1>1, <1>2, <2>1 DEF TypeOK, StepOf
<1>4. \A q \in Reqs, h \in Grants : InFlight(q, h)' => InFlight(q, h)
  BY <1>3 DEF InFlight, StepOf
<1>5. MutexOK' /\ MarkOK' /\ UsesOK' /\ GrantsOK'
  BY <1>2, <1>3 DEF LinearInv, MutexOK, MarkOK, UsesOK, GrantsOK, Underway,
                    StepOf, TablesKept
<1>6. \A q \in Reqs : ~Confirming(q, g)
  BY <1>1 DEF LinearInv, GrantsOK, Underway, Confirming
<1>7. ConfirmOK'
  <2>1. \A q \in Reqs, h \in Grants :
          Confirming(q, h)' => Confirming(q, h) \/ (q = r /\ h = g)
    BY <1>3 DEF Confirming, StepOf
  <2>2. \A h \in Grants, p, q \in Reqs :
          Confirming(p, h)' /\ Confirming(q, h)' => p = q
    BY <1>2, <1>3, <1>6, <2>1 DEF LinearInv, ConfirmOK, Confirming
  <2>3. \A q \in Reqs : pc'[q] = "putgrant" => loc'[q].grant \notin DOMAIN grants'
    BY <1>1, <1>2, <1>3 DEF LinearInv, ConfirmOK, StepOf
  <2>4. \A q \in Reqs : pc'[q] = "putcode" => pc[q] = "putcode" /\ loc'[q] = loc[q]
    BY <1>3 DEF StepOf
  <2> QED BY <1>2, <1>4, <2>2, <2>3, <2>4
          DEF LinearInv, ConfirmOK, Confirming, TablesKept
<1>8. OneLiveCredential'
  BY <1>2, <1>4 DEF LinearInv, OneLiveCredential, InCode, InToken, TablesKept
<1> QED BY <1>5, <1>7, <1>8 DEF LinearInv

LEMMA LinearPutGrant ==
  ASSUME TypeOK, PointOK, LinearInv, NEW r \in Reqs, PutGrant(r)
  PROVE  LinearInv'
<1> DEFINE g == loc[r].grant
<1>1. pc[r] = "putgrant" /\ UNCHANGED <<codes, refresh, mu, uses>>
  BY DEF PutGrant
<1>2. CASE Return(r) /\ UNCHANGED grants
  BY <1>1, <1>2, LinearReturn DEF TablesKept
<1>3. CASE grants' = Insert(grants, g, "live") /\ Goto(r, "putcode") /\ loc' = loc
  <2>1. StepOf(r) /\ pc'[r] = "putcode"
    BY <1>3 DEF Goto, TypeOK, StepOf
  <2>2. DOMAIN grants' = DOMAIN grants \cup {g}
    BY <1>3 DEF Insert
  <2>3. g \in Grants /\ g \notin DOMAIN grants /\ Confirming(r, g)
    BY <1>1 DEF PointOK, AtPoint, LinearInv, ConfirmOK, Confirming
  <2>4. /\ \A c \in DOMAIN codes : codes[c].grant # g
        /\ \A t \in DOMAIN refresh : refresh[t].grant # g
        /\ \A q \in Reqs : ~InFlight(q, g)
    BY <2>3 DEF LinearInv, GrantsOK, Underway, InFlight
  <2>5. \A q \in Reqs, h \in Grants : InFlight(q, h)' => InFlight(q, h)
    BY <2>1 DEF InFlight, StepOf
  <2>6. MutexOK' /\ MarkOK' /\ UsesOK'
    BY <1>1, <2>1 DEF LinearInv, MutexOK, MarkOK, UsesOK, StepOf
  <2>7. GrantsOK'
    BY <1>1, <1>3, <2>1, <2>2 DEF LinearInv, GrantsOK, Underway, StepOf
  <2>8. ConfirmOK'
    <3>1. \A q \in Reqs, h \in Grants : Confirming(q, h)' <=> Confirming(q, h)
      BY <1>1, <1>3, <2>1 DEF Confirming, StepOf
    <3>2. \A q \in Reqs : pc'[q] = "putgrant" => loc'[q].grant \notin DOMAIN grants'
      BY <1>3, <2>1, <2>2, <2>3 DEF LinearInv, ConfirmOK, Confirming, StepOf
    <3>3. \A q \in Reqs : pc'[q] = "putcode" => q = r \/ pc[q] = "putcode"
      BY <2>1 DEF StepOf
    <3> QED BY <1>1, <1>3, <2>4, <2>5, <3>1, <3>2, <3>3
            DEF LinearInv, ConfirmOK, Confirming
  <2>9. OneLiveCredential'
    BY <1>1, <2>5 DEF LinearInv, OneLiveCredential, InCode, InToken
  <2> QED BY <2>6, <2>7, <2>8, <2>9 DEF LinearInv
<1> QED BY <1>2, <1>3 DEF PutGrant

\* The one code of a grant no credential names yet.
LEMMA LinearPutAuthCode ==
  ASSUME TypeOK, PointOK, LinearInv, NEW r \in Reqs, PutAuthCode(r)
  PROVE  LinearInv'
<1> DEFINE g == loc[r].grant
           Row(k, u, h) ==
             [grant |-> g, client |-> k, redirect |-> u,
              challenge |-> h, exp |-> now + CodeTTL, used |-> FALSE]
<1>1. /\ pc[r] = "putcode" /\ UNCHANGED <<grants, refresh, mu, uses>>
      /\ Return(r)
  BY DEF PutAuthCode
<1>2. CASE UNCHANGED codes
  BY <1>1, <1>2, LinearReturn DEF TablesKept
<1>3. ASSUME NEW c \in Codes \ DOMAIN codes, NEW k \in Clients,
             NEW u \in Redirects, NEW h \in Challenges,
             codes' = Insert(codes, c, Row(k, u, h))
      PROVE  LinearInv'
  <2>1. StepOf(r) /\ pc'[r] = "idle"
    <3>1. "idle" \in Points
      BY DEF Points
    <3> QED BY <1>1, <3>1, BlankType, RequestStep DEF Return, Goto
  <2>2. /\ DOMAIN codes' = DOMAIN codes \cup {c}
        /\ codes'[c].grant = g
        /\ \A d \in DOMAIN codes : codes'[d] = codes[d]
    BY <1>3 DEF Insert
  <2>3. /\ g \in Grants /\ g \in DOMAIN grants /\ Confirming(r, g)
        /\ \A d \in DOMAIN codes : codes[d].grant # g
        /\ \A t \in DOMAIN refresh : refresh[t].grant # g
        /\ \A q \in Reqs : ~InFlight(q, g)
    BY <1>1 DEF PointOK, AtPoint, LinearInv, GrantsOK, ConfirmOK, Underway,
                Confirming
  <2> HIDE DEF g
  <2>4. \A q \in Reqs, x \in Grants : InFlight(q, x)' => InFlight(q, x)
    BY <2>1 DEF InFlight, StepOf
  <2>5. MutexOK' /\ MarkOK'
    BY <1>1, <2>1, <2>2 DEF LinearInv, MutexOK, MarkOK, StepOf, PointOK, AtPoint,
                            HasCode
  <2>6. UsesOK'
    BY <1>1, <2>2 DEF LinearInv, UsesOK
  <2>7. GrantsOK'
    BY <1>1, <2>1, <2>2, <2>3 DEF LinearInv, GrantsOK, Underway, StepOf
  <2>8. ConfirmOK'
    <3>1. \A q \in Reqs, x \in Grants :
            Confirming(q, x)' => Confirming(q, x) /\ q # r
      BY <2>1 DEF Confirming, StepOf
    <3>2. \A q \in Reqs : pc'[q] = "putgrant" => loc'[q].grant \notin DOMAIN grants'
      BY <1>1, <2>1 DEF LinearInv, ConfirmOK, StepOf
    <3>3. \A q \in Reqs, x \in Grants :
            pc'[q] = "putcode" /\ loc'[q].grant = x =>
              q # r /\ pc[q] = "putcode" /\ loc[q].grant = x /\ x # g
      BY <2>1, <2>3 DEF LinearInv, ConfirmOK, Confirming, StepOf
    <3> QED BY <1>1, <2>2, <2>4, <3>1, <3>2, <3>3 DEF LinearInv, ConfirmOK
  <2>9. OneLiveCredential'
    <3>1. \A d \in Codes, x \in Grants :
            InCode(d, x)' => InCode(d, x) \/ (d = c /\ x = g)
      BY <2>2 DEF InCode
    <3>2. \A t \in Refreshes, x \in Grants : InToken(t, x)' <=> InToken(t, x)
      BY <1>1 DEF InToken
    <3>3. /\ \A d \in Codes : ~InCode(d, g)
          /\ \A t \in Refreshes : ~InToken(t, g)
      BY <2>3 DEF InCode, InToken
    <3> QED BY <2>3, <2>4, <3>1, <3>2, <3>3 DEF LinearInv, OneLiveCredential
  <2> QED BY <2>5, <2>6, <2>7, <2>8, <2>9 DEF LinearInv
<1> QED BY <1>2, <1>3 DEF PutAuthCode

LEMMA LinearEnvironment ==
  ASSUME TypeOK, PointOK, LinearInv,
         \/ \E g \in Grants : RevokeGrant(g) \/ RewriteGrant(g)
         \/ Restart
         \/ Tick
         \/ UNCHANGED vars
  PROVE  LinearInv'
<1> USE DEF LinearInv, MutexOK, MarkOK, UsesOK, GrantsOK, ConfirmOK, Underway,
            Confirming, OneLiveCredential, InCode, InToken, InFlight
<1>1. ASSUME NEW g \in Grants, RevokeGrant(g) \/ RewriteGrant(g)
      PROVE  LinearInv'
  <2>1. /\ DOMAIN grants' = DOMAIN grants
        /\ UNCHANGED <<codes, refresh, mu, pc, loc, uses>>
    BY <1>1 DEF RevokeGrant, RewriteGrant, TypeOK
  <2> QED BY <2>1
<1>2. CASE Restart
  <2>1. /\ \A r \in Reqs : pc'[r] = "idle"
        /\ UNCHANGED <<grants, codes, refresh, uses>>
    BY <1>2 DEF Restart
  <2> QED BY <2>1
<1>3. CASE Tick \/ UNCHANGED vars
  BY <1>3 DEF Tick, vars
<1> QED BY <1>1, <1>2, <1>3

LEMMA LinearStep ==
  ASSUME TypeOK, PointOK, LinearInv, "mark" \notin Faults, [Next]_vars
  PROVE  LinearInv'
<1>1. CASE UNCHANGED vars
  BY <1>1, LinearEnvironment
<1>2. CASE Next
  BY <1>2, LinearArrive, LinearSelect, LinearMarkCode, LinearMarkRefresh,
     LinearCheckAndRead, LinearPutRefresh, LinearReply, LinearConfirm,
     LinearPutGrant, LinearPutAuthCode, LinearEnvironment
  DEF Next, Consume, Proceed
<1> QED BY <1>1, <1>2

LEMMA SingleUseFromInv == LinearInv => SingleUse
BY DEF LinearInv, UsesOK, SingleUse

\* As long as the UPDATEs of the consumes succeed, a grant never has two live
\* credentials: whatever requests race, fail half way or are cut off by a
\* restart, token rotation does not fork.
THEOREM RotationNeverForks ==
  ASSUME "mark" \notin Faults
  PROVE  Spec => []OneLiveCredential
<1>1. Init => TypeOK /\ PointOK /\ LinearInv
  BY TypeInit, LinearInit
<1>2. TypeOK /\ PointOK /\ LinearInv /\ [Next]_vars =>
        TypeOK' /\ PointOK' /\ LinearInv'
  BY TypeStep, LinearStep
<1>3. LinearInv => OneLiveCredential
  BY DEF LinearInv
<1> QED BY <1>1, <1>2, <1>3, PTL DEF Spec

\* Under the same assumption a code or refresh token is accepted at most once.
THEOREM CredentialsAreSingleUse ==
  ASSUME "mark" \notin Faults
  PROVE  Spec => []SingleUse
<1>1. Init => TypeOK /\ PointOK /\ LinearInv
  BY TypeInit, LinearInit
<1>2. TypeOK /\ PointOK /\ LinearInv /\ [Next]_vars =>
        TypeOK' /\ PointOK' /\ LinearInv'
  BY TypeStep, LinearStep
<1> QED BY <1>1, <1>2, SingleUseFromInv, PTL DEF Spec

-----------------------------------------------------------------------------
(* Where every token comes from.  The invariant follows the client and the *)
(* form from the redeemed code through the handlers into the next token.   *)
(* It needs that a grant has one code (the wizard draws a fresh grant id   *)
(* for each) and, from LinearInv, that the history of a redeemed grant is  *)
(* not written again: its code is used.                                    *)

OneCode == \A c, d \in DOMAIN codes : codes[c].grant = codes[d].grant => c = d

Bound(g, k) == \E c \in DOMAIN codes :
  /\ codes[c].grant = g /\ codes[c].client = k
  /\ redeemer[g].client = k
  /\ redeemer[g].redirect = codes[c].redirect
  /\ S256(redeemer[g].verifier) = codes[c].challenge
  /\ uses[c] >= 1

Carries(r) ==
  /\ pc[r] = "mark" /\ loc[r].kind # "code" =>
       loc[r].client = refresh[loc[r].item].client
  /\ pc[r] = "check" =>
       redeemer[loc[r].grant] = loc[r].form /\ uses[loc[r].item] >= 1
  /\ pc[r] \in {"grant", "put"} => Bound(loc[r].grant, loc[r].client)

LineageInv ==
  /\ OneCode
  /\ \A t \in DOMAIN refresh : Bound(refresh[t].grant, refresh[t].client)
  /\ \A r \in Reqs : Carries(r)

\* What the history of a grant says stands while anything rests on it.
ColumnsKept ==
  /\ \A c \in DOMAIN codes :
       /\ c \in DOMAIN codes'
       /\ codes'[c].grant = codes[c].grant /\ codes'[c].client = codes[c].client
       /\ codes'[c].redirect = codes[c].redirect
       /\ codes'[c].challenge = codes[c].challenge
       /\ uses'[c] >= uses[c]
  /\ \A t \in DOMAIN refresh :
       /\ t \in DOMAIN refresh'
       /\ refresh'[t].grant = refresh[t].grant
       /\ refresh'[t].client = refresh[t].client

Unborn(g) == /\ \A t \in DOMAIN refresh : refresh[t].grant # g
             /\ \A r \in Reqs : ~InFlight(r, g)

LEMMA BoundKept ==
  ASSUME TypeOK, TypeOK', ColumnsKept
  PROVE  \A g \in Grants, k \in Clients :
           Bound(g, k) /\ redeemer'[g] = redeemer[g] => Bound(g, k)'
<1>1. ASSUME NEW c \in DOMAIN codes, uses[c] >= 1 PROVE uses'[c] >= 1
  <2>1. c \in Codes \cup Refreshes /\ uses[c] \in Nat /\ uses'[c] \in Nat
    BY DEF TypeOK
  <2> QED BY <1>1, <2>1 DEF ColumnsKept
<1> QED BY <1>1 DEF Bound, ColumnsKept

\* A step of one request that only writes the history of unborn grants.
LEMMA LineageFrame ==
  ASSUME TypeOK, PointOK, LineageInv, TypeOK', NEW r \in Reqs, StepOf(r),
         ColumnsKept, OneCode',
         \A g \in Grants : redeemer'[g] = redeemer[g] \/ Unborn(g),
         \A t \in DOMAIN refresh' \ DOMAIN refresh :
           Bound(refresh[t].grant, refresh[t].client)',
         Carries(r)'
  PROVE  LineageInv'
<1>1. \A t \in DOMAIN refresh : Bound(refresh[t].grant, refresh[t].client)'
  <2> SUFFICES ASSUME NEW t \in DOMAIN refresh
               PROVE  Bound(refresh[t].grant, refresh[t].client)'
    OBVIOUS
  <2> DEFINE g == refresh[t].grant
             k == refresh[t].client
  <2>1. g \in Grants /\ k \in Clients /\ ~Unborn(g) /\ Bound(g, k)
    BY RowTypes DEF Unborn, LineageInv
  <2>2. refresh'[t].grant = g /\ refresh'[t].client = k
    BY DEF ColumnsKept
  <2>3. redeemer'[g] = redeemer[g]
    BY <2>1
  <2> HIDE DEF g, k
  <2> QED BY <2>1, <2>2, <2>3, BoundKept DEF Bound
<1>2. \A q \in Reqs \ {r} : Carries(q)'
  <2> SUFFICES ASSUME NEW q \in Reqs \ {r} PROVE Carries(q)'
    OBVIOUS
  <2>1. Carries(q) /\ AtPoint(q) /\ pc'[q] = pc[q] /\ loc'[q] = loc[q]
    BY DEF LineageInv, PointOK, StepOf
  <2>2. pc[q] \in {"check", "grant", "put"} =>
          loc[q].grant \in Grants /\ redeemer'[loc[q].grant] = redeemer[loc[q].grant]
    <3>1. pc[q] \in {"check", "grant", "put"} => loc[q].grant \in Grants
      BY <2>1, RowTypes DEF AtPoint, HasCode
    <3> QED BY <3>1 DEF Unborn, InFlight
  <2>3. pc[q] \in {"grant", "put"} => Bound(loc[q].grant, loc[q].client)'
    <3> DEFINE g == loc[q].grant
               k == loc[q].client
    <3>1. CASE pc[q] \in {"grant", "put"}
      <4>1. g \in Grants /\ k \in Clients /\ Bound(g, k) /\ redeemer'[g] = redeemer[g]
        BY <2>1, <2>2, <3>1 DEF Carries, AtPoint
      <4>2. loc'[q].grant = g /\ loc'[q].client = k
        BY <2>1
      <4> HIDE DEF g, k
      <4> QED BY <4>1, <4>2, BoundKept DEF Bound
    <3> QED BY <3>1
  <2>4. pc[q] = "check" => uses'[loc[q].item] >= 1
    <3>1. CASE pc[q] = "check"
      <4>1. loc[q].item \in DOMAIN codes /\ uses[loc[q].item] >= 1
        BY <2>1, <3>1 DEF Carries, AtPoint, HasCode
      <4>2. loc[q].item \in Codes \cup Refreshes
        BY <4>1 DEF TypeOK
      <4>3. uses[loc[q].item] \in Nat /\ uses'[loc[q].item] \in Nat
        BY <4>2 DEF TypeOK
      <4> QED BY <4>1, <4>3 DEF ColumnsKept
    <3> QED BY <3>1
  <2>5. pc[q] = "mark" /\ loc[q].kind # "code" =>
          loc'[q].client = refresh'[loc'[q].item].client
    BY <2>1 DEF Carries, AtPoint, HasToken, ColumnsKept
  <2> QED BY <2>1, <2>2, <2>3, <2>4, <2>5 DEF Carries
<1>3. \A t \in DOMAIN refresh' : Bound(refresh[t].grant, refresh[t].client)'
  BY <1>1
<1> QED BY <1>2, <1>3 DEF LineageInv

\* Tables and history stay as they are.
HistoryKept == UNCHANGED <<codes, refresh, uses, redeemer>>

LEMMA LineageQuiet ==
  ASSUME TypeOK, PointOK, LineageInv, TypeOK', NEW r \in Reqs, StepOf(r),
         HistoryKept, Carries(r)'
  PROVE  LineageInv'
<1>1. ColumnsKept
  <2>1. \A c \in DOMAIN codes : uses[c] \in Nat
    BY DEF TypeOK
  <2> QED BY <2>1 DEF ColumnsKept, HistoryKept
<1>2. OneCode' /\ redeemer' = redeemer /\ DOMAIN refresh' = DOMAIN refresh
  BY DEF LineageInv, OneCode, HistoryKept
<1> QED BY <1>1, <1>2, LineageFrame

LEMMA LineageInit == Init => LineageInv
BY DEF Init, LineageInv, OneCode, Carries

LEMMA LineageReturn ==
  ASSUME TypeOK, PointOK, LineageInv, TypeOK', NEW r \in Reqs, Return(r),
         HistoryKept
  PROVE  LineageInv'
<1>1. StepOf(r) /\ pc'[r] = "idle"
  <2>1. "idle" \in Points
    BY DEF Points
  <2> QED BY <2>1, BlankType, RequestStep DEF Return, Goto
<1>2. Carries(r)'
  BY <1>1 DEF Carries
<1> QED BY <1>1, <1>2, LineageQuiet

LEMMA LineageArrive ==
  ASSUME TypeOK, PointOK, LineageInv, TypeOK', NEW r \in Reqs,
         TokenCode(r) \/ TokenRefresh(r) \/ Revoke(r) \/ Confirm(r)
  PROVE  LineageInv'
<1>1. /\ HistoryKept
      /\ pc' = [pc EXCEPT ![r] = "select"] \/ pc' = [pc EXCEPT ![r] = "putgrant"]
      /\ \A q \in Reqs \ {r} : loc'[q] = loc[q]
  BY DEF TokenCode, TokenRefresh, Revoke, Confirm, Arrive, Goto, HistoryKept, TypeOK
<1>2. StepOf(r) /\ pc'[r] \in {"select", "putgrant"}
  BY <1>1 DEF TypeOK, StepOf
<1>3. Carries(r)'
  BY <1>2 DEF Carries
<1> QED BY <1>1, <1>2, <1>3, LineageQuiet

\* The SELECT reads the client of the row it found.
LEMMA LineageSelect ==
  ASSUME TypeOK, PointOK, LineageInv, TypeOK', NEW r \in Reqs,
         SelectCode(r) \/ SelectRefresh(r)
  PROVE  LineageInv'
<1> DEFINE i == loc[r].item
<1>1. HistoryKept
  BY DEF SelectCode, SelectRefresh, Select, HistoryKept
<1>2. CASE Return(r)
  BY <1>1, <1>2, LineageReturn
<1>3. ASSUME pc' = [pc EXCEPT ![r] = "mark"],
             \/ /\ loc[r].kind = "code" /\ i \in DOMAIN codes
                /\ loc' = [loc EXCEPT ![r] = Scanned(@, codes[i])]
             \/ /\ loc[r].kind # "code" /\ i \in DOMAIN refresh
                /\ loc' = [loc EXCEPT ![r] = Scanned(@, refresh[i])]
      PROVE  LineageInv'
  <2>1. pc'[r] = "mark" /\ StepOf(r) /\ loc[r] \in Local
    BY <1>3, RequestTypes DEF TypeOK, StepOf
  <2>2. loc'[r].kind # "code" => loc'[r].client = refresh'[loc'[r].item].client
    <3>1. CASE /\ loc[r].kind = "code" /\ i \in DOMAIN codes
               /\ loc' = [loc EXCEPT ![r] = Scanned(@, codes[i])]
      <4>1. loc'[r] = Scanned(loc[r], codes[i])
        BY <3>1 DEF TypeOK
      <4>2. codes[i].grant \in Grants /\ codes[i].client \in Clients
        BY <3>1, RowTypes
      <4> QED BY <2>1, <3>1, <4>1, <4>2, ScannedType
    <3>2. CASE /\ i \in DOMAIN refresh
               /\ loc' = [loc EXCEPT ![r] = Scanned(@, refresh[i])]
      <4>1. loc'[r] = Scanned(loc[r], refresh[i])
        BY <3>2 DEF TypeOK
      <4>2. Scanned(loc[r], refresh[i]).client = refresh[i].client
        BY <2>1 DEF Scanned, Local
      <4>3. Scanned(loc[r], refresh[i]).item = i
        BY <2>1 DEF Scanned, Local
      <4> QED BY <1>1, <4>1, <4>2, <4>3 DEF HistoryKept
    <3> QED BY <1>3, <3>1, <3>2
  <2>3. Carries(r)'
    BY <2>1, <2>2 DEF Carries
  <2> QED BY <1>1, <2>1, <2>3, LineageQuiet
<1> QED BY <1>2, <1>3 DEF SelectCode, SelectRefresh, Select, Goto

\* The form is compared with the columns of the code before a grant is read.
LEMMA LineageCheckCode ==
  ASSUME TypeOK, PointOK, LineageInv, TypeOK', NEW r \in Reqs, CheckCode(r)
  PROVE  LineageInv'
<1> DEFINE c == loc[r].item
           g == loc[r].grant
           form == loc[r].form
<1>1. HistoryKept /\ pc[r] = "check"
  BY DEF CheckCode, HistoryKept
<1>2. CASE Return(r)
  BY <1>1, <1>2, LineageReturn
<1>3. ASSUME codes[c].client = form.client, codes[c].redirect = form.redirect,
             S256(form.verifier) = codes[c].challenge, Goto(r, "grant"),
             loc' = [loc EXCEPT ![r] = [@ EXCEPT !.client = form.client]]
      PROVE  LineageInv'
  <2>1. StepOf(r) /\ pc'[r] = "grant" /\ loc[r] \in Local
    BY <1>3, RequestTypes DEF Goto, TypeOK, StepOf
  <2>2. loc'[r].grant = g /\ loc'[r].client = form.client
    <3>1. loc'[r] = [loc[r] EXCEPT !.client = form.client]
      BY <1>3 DEF TypeOK
    <3> QED BY <2>1, <3>1 DEF Local
  <2>3. /\ c \in DOMAIN codes /\ codes[c].grant = g
        /\ redeemer[g] = form /\ uses[c] >= 1
    BY <1>1 DEF PointOK, AtPoint, HasCode, LineageInv, Carries
  <2> HIDE DEF c, g, form
  <2>4. Bound(g, form.client)
    BY <1>3, <2>3 DEF Bound
  <2>5. Carries(r)'
    BY <1>1, <2>1, <2>2, <2>4 DEF Carries, Bound, HistoryKept
  <2> QED BY <1>1, <2>1, <2>5, LineageQuiet
<1> QED BY <1>2, <1>3 DEF CheckCode, VerifyS256

LEMMA LineageReadGrant ==
  ASSUME TypeOK, PointOK, LineageInv, TypeOK', NEW r \in Reqs, ReadGrant(r)
  PROVE  LineageInv'
<1>1. HistoryKept /\ pc[r] = "grant"
  BY DEF ReadGrant, HistoryKept
<1>2. CASE Return(r)
  BY <1>1, <1>2, LineageReturn
<1>3. CASE Goto(r, "put") /\ loc' = loc
  <2>1. StepOf(r) /\ pc'[r] = "put"
    BY <1>3 DEF Goto, TypeOK, StepOf
  <2>2. Bound(loc[r].grant, loc[r].client)
    BY <1>1 DEF LineageInv, Carries
  <2>3. Carries(r)'
    BY <1>1, <1>3, <2>1, <2>2 DEF Carries, Bound, HistoryKept
  <2> QED BY <1>1, <2>1, <2>3, LineageQuiet
<1> QED BY <1>2, <1>3 DEF ReadGrant

\* The UPDATE of a consume leaves what a row is bound to.
LEMMA MarkKeepsColumns ==
  /\ \A row \in CodeRow :
       LET m == [row EXCEPT !.used = TRUE] IN
       /\ m.grant = row.grant /\ m.client = row.client /\ m.exp = row.exp
       /\ m.redirect = row.redirect /\ m.challenge = row.challenge /\ m.used
  /\ \A row \in RefreshRow :
       LET m == [row EXCEPT !.revoked = TRUE] IN
       /\ m.grant = row.grant /\ m.client = row.client /\ m.exp = row.exp
       /\ m.revoked
BY DEF CodeRow, RefreshRow

LEMMA CountGrows ==
  ASSUME TypeOK, NEW x, Count(x)
  PROVE  /\ \A y \in Codes \cup Refreshes : uses'[y] >= uses[y]
         /\ x \in Codes \cup Refreshes => uses'[x] >= 1
<1> DEFINE S == Codes \cup Refreshes
<1>1. uses \in [S -> Nat] /\ uses' = [uses EXCEPT ![x] = uses[x] + 1]
  BY DEF TypeOK, Count
<1> HIDE DEF S
<1>2. ASSUME NEW y \in S PROVE uses'[y] >= uses[y] /\ (y = x => uses'[y] >= 1)
  <2>1. uses[y] \in Nat /\ uses'[y] = IF y = x THEN uses[y] + 1 ELSE uses[y]
    BY <1>1
  <2> QED BY <2>1
<1> QED BY <1>2 DEF S

\* A code is redeemed before anything of its grant exists.
LEMMA LineageMarkCode ==
  ASSUME TypeOK, PointOK, LinearInv, LineageInv, TypeOK', "mark" \notin Faults,
         NEW r \in Reqs, MarkCode(r)
  PROVE  LineageInv'
<1> DEFINE c == loc[r].item
           g == loc[r].grant
<1>1. /\ pc[r] = "mark" /\ loc[r].kind = "code" /\ loc' = loc /\ refresh' = refresh
      /\ codes' \in Marked(codes, [codes EXCEPT ![c].used = TRUE])
      /\ Count(c)
      /\ redeemer' = [redeemer EXCEPT ![g] = loc[r].form]
  BY DEF MarkCode
<1>2. StepOf(r) /\ pc'[r] = "check"
  BY DEF MarkCode, Goto, TypeOK, StepOf
<1>3. /\ c \in DOMAIN codes /\ codes[c].grant = g /\ ~codes[c].used
      /\ c \in Codes /\ g \in Grants
  <2>1. c \in DOMAIN codes /\ codes[c].grant = g /\ ~codes[c].used
    BY <1>1 DEF PointOK, AtPoint, HasCode, LinearInv, MarkOK
  <2> QED BY <2>1, RowTypes DEF TypeOK
<1>4. ColumnsKept /\ OneCode'
  <2>1. /\ DOMAIN codes' = DOMAIN codes
        /\ \A d \in DOMAIN codes :
             codes'[d] = codes[d] \/ codes'[d] = [codes[d] EXCEPT !.used = TRUE]
    BY <1>1, CodesMarked
  <2>2. \A d \in DOMAIN codes :
          /\ codes'[d].grant = codes[d].grant /\ codes'[d].client = codes[d].client
          /\ codes'[d].redirect = codes[d].redirect
          /\ codes'[d].challenge = codes[d].challenge
    <3>1. \A d \in DOMAIN codes : codes[d] \in CodeRow
      BY DEF TypeOK
    <3> QED BY <2>1, <3>1, MarkKeepsColumns
  <2>3. \A d \in DOMAIN codes : uses'[d] >= uses[d]
    BY <1>1, CountGrows DEF TypeOK
  <2> QED BY <1>1, <2>1, <2>2, <2>3 DEF ColumnsKept, LineageInv, OneCode
<1>5. \A h \in Grants : redeemer'[h] = redeemer[h] \/ Unborn(h)
  <2>1. \A h \in Grants : h # g => redeemer'[h] = redeemer[h]
    BY <1>1 DEF TypeOK
  <2>2. uses[c] = 0
    BY <1>3 DEF LinearInv, UsesOK
  <2>3. ~\E k \in Clients : Bound(g, k)
    BY <1>3, <2>2 DEF Bound, LineageInv, OneCode
  <2>4. \A t \in DOMAIN refresh : refresh[t].grant # g
    BY <2>3, RowTypes DEF LineageInv
  <2>5. \A q \in Reqs : ~InFlight(q, g)
    BY <1>3 DEF LinearInv, OneLiveCredential, InCode
  <2> QED BY <2>1, <2>4, <2>5 DEF Unborn
<1>6. Carries(r)'
  <2>1. redeemer'[g] = loc[r].form
    BY <1>1, <1>3 DEF TypeOK
  <2>2. uses'[c] >= 1
    BY <1>1, <1>3, CountGrows
  <2> QED BY <1>1, <1>2, <2>1, <2>2 DEF Carries
<1> QED BY <1>1, <1>2, <1>4, <1>5, <1>6, LineageFrame

LEMMA LineageMarkRefresh ==
  ASSUME TypeOK, PointOK, LineageInv, TypeOK', NEW r \in Reqs, MarkRefresh(r)
  PROVE  LineageInv'
<1> DEFINE t == loc[r].item
<1>1. /\ pc[r] = "mark" /\ loc[r].kind # "code" /\ UNCHANGED <<codes, redeemer>>
      /\ refresh' \in Marked(refresh, [refresh EXCEPT ![t].revoked = TRUE])
      /\ Count(t)
      /\ \/ Return(r)
         \/ Goto(r, "grant") /\ loc' = loc
  BY DEF MarkRefresh
<1>2. StepOf(r) /\ \/ pc'[r] = "idle"
                   \/ pc'[r] = "grant" /\ loc'[r] = loc[r]
  BY <1>1 DEF Return, Goto, TypeOK, StepOf
<1>3. /\ DOMAIN refresh' = DOMAIN refresh
      /\ \A s \in DOMAIN refresh : /\ refresh'[s].grant = refresh[s].grant
                                   /\ refresh'[s].client = refresh[s].client
  <2>1. /\ DOMAIN refresh' = DOMAIN refresh
        /\ \A s \in DOMAIN refresh :
             \/ refresh'[s] = refresh[s]
             \/ refresh'[s] = [refresh[s] EXCEPT !.revoked = TRUE]
    BY <1>1, TokensMarked
  <2>2. \A s \in DOMAIN refresh : refresh[s] \in RefreshRow
    BY DEF TypeOK
  <2> QED BY <2>1, <2>2, MarkKeepsColumns
<1>4. ColumnsKept /\ OneCode'
  <2>1. \A d \in DOMAIN codes : uses'[d] >= uses[d]
    BY <1>1, CountGrows DEF TypeOK
  <2> QED BY <1>1, <1>3, <2>1 DEF ColumnsKept, LineageInv, OneCode
<1>5. Carries(r)'
  <2>1. /\ t \in DOMAIN refresh /\ loc[r].grant = refresh[t].grant
        /\ loc[r].client = refresh[t].client
    BY <1>1 DEF PointOK, AtPoint, HasToken, LineageInv, Carries
  <2>2. Bound(loc[r].grant, loc[r].client)
    BY <2>1 DEF LineageInv
  <2>3. \A d \in DOMAIN codes : uses[d] >= 1 => uses'[d] >= 1
    <3> SUFFICES ASSUME NEW d \in DOMAIN codes, uses[d] >= 1 PROVE uses'[d] >= 1
      OBVIOUS
    <3>1. d \in Codes \cup Refreshes /\ uses[d] \in Nat /\ uses'[d] \in Nat
      BY DEF TypeOK
    <3> QED BY <1>4, <3>1 DEF ColumnsKept
  <2> QED BY <1>1, <1>2, <2>2, <2>3 DEF Carries, Bound
<1>6. /\ \A g \in Grants : redeemer'[g] = redeemer[g]
      /\ DOMAIN refresh' \ DOMAIN refresh = {}
  BY <1>1, <1>3
<1> QED BY <1>2, <1>4, <1>5, <1>6, LineageFrame

LEMMA LineagePutRefresh ==
  ASSUME TypeOK, PointOK, LineageInv, TypeOK', NEW r \in Reqs, PutRefresh(r)
  PROVE  LineageInv'
<1> DEFINE g == loc[r].grant
           k == loc[r].client
<1>1. pc[r] = "put" /\ UNCHANGED <<codes, uses, redeemer>>
  BY DEF PutRefresh
<1>2. CASE Return(r) /\ UNCHANGED refresh
  BY <1>1, <1>2, LineageReturn DEF HistoryKept
<1>3. ASSUME NEW t \in Refreshes \ DOMAIN refresh,
             refresh' = Insert(refresh, t,
               [grant |-> g, client |-> k,
                exp |-> now + RefreshTTL, revoked |-> FALSE]),
             Goto(r, "reply"), loc' = [loc EXCEPT ![r] = [@ EXCEPT !.item = t]]
      PROVE  LineageInv'
  <2>1. StepOf(r) /\ pc'[r] = "reply"
    BY <1>3 DEF Goto, TypeOK, StepOf
  <2>2. /\ DOMAIN refresh' = DOMAIN refresh \cup {t}
        /\ refresh'[t].grant = g /\ refresh'[t].client = k
        /\ \A s \in DOMAIN refresh : refresh'[s] = refresh[s]
    BY <1>3 DEF Insert
  <2>3. Bound(g, k)
    BY <1>1 DEF LineageInv, Carries
  <2> HIDE DEF g, k
  <2>4. ColumnsKept /\ OneCode'
    <3>1. \A c \in DOMAIN codes : uses[c] \in Nat
      BY DEF TypeOK
    <3> QED BY <1>1, <2>2, <3>1 DEF ColumnsKept, LineageInv, OneCode
  <2>5. \A s \in DOMAIN refresh' \ DOMAIN refresh :
          Bound(refresh[s].grant, refresh[s].client)'
    BY <1>1, <2>2, <2>3 DEF Bound
  <2>6. Carries(r)'
    BY <2>1 DEF Carries
  <2> QED BY <1>1, <2>1, <2>4, <2>5, <2>6, LineageFrame
<1> QED BY <1>2, <1>3 DEF PutRefresh

\* The code of a grant is stored when nothing of the grant is.
LEMMA LineagePutAuthCode ==
  ASSUME TypeOK, PointOK, LinearInv, LineageInv, TypeOK',
         NEW r \in Reqs, PutAuthCode(r)
  PROVE  LineageInv'
<1> DEFINE g == loc[r].grant
           Row(k, u, h) ==
             [grant |-> g, client |-> k, redirect |-> u,
              challenge |-> h, exp |-> now + CodeTTL, used |-> FALSE]
<1>1. /\ pc[r] = "putcode" /\ UNCHANGED <<refresh, uses, redeemer>>
      /\ Return(r)
  BY DEF PutAuthCode
<1>2. CASE UNCHANGED codes
  BY <1>1, <1>2, LineageReturn DEF HistoryKept
<1>3. ASSUME NEW c \in Codes \ DOMAIN codes, NEW k \in Clients,
             NEW u \in Redirects, NEW h \in Challenges,
             codes' = Insert(codes, c, Row(k, u, h))
      PROVE  LineageInv'
  <2>1. StepOf(r) /\ pc'[r] = "idle"
    <3>1. "idle" \in Points
      BY DEF Points
    <3> QED BY <1>1, <3>1, BlankType, RequestStep DEF Return, Goto
  <2>2. /\ DOMAIN codes' = DOMAIN codes \cup {c}
        /\ codes'[c].grant = g
        /\ \A d \in DOMAIN codes : codes'[d] = codes[d]
    BY <1>3 DEF Insert
  <2>3. g \in Grants /\ \A d \in DOMAIN codes : codes[d].grant # g
    BY <1>1 DEF PointOK, AtPoint, LinearInv, ConfirmOK
  <2> HIDE DEF g
  <2>4. ColumnsKept
    <3>1. \A d \in DOMAIN codes : uses[d] \in Nat
      BY DEF TypeOK
    <3> QED BY <1>1, <2>2, <3>1 DEF ColumnsKept
  <2>5. OneCode'
    BY <2>2, <2>3 DEF LineageInv, OneCode
  <2>6. Carries(r)' /\ DOMAIN refresh' \ DOMAIN refresh = {} /\ redeemer' = redeemer
    BY <1>1, <2>1 DEF Carries
  <2> QED BY <2>1, <2>4, <2>5, <2>6, LineageFrame
<1> QED BY <1>2, <1>3 DEF PutAuthCode

LEMMA LineageReplyAndPutGrant ==
  ASSUME TypeOK, PointOK, LineageInv, TypeOK', NEW r \in Reqs,
         Reply(r) \/ PutGrant(r)
  PROVE  LineageInv'
<1>1. HistoryKept
  BY DEF Reply, PutGrant, HistoryKept
<1>2. CASE Return(r)
  BY <1>1, <1>2, LineageReturn
<1>3. CASE Goto(r, "putcode") /\ loc' = loc
  <2>1. StepOf(r) /\ pc'[r] = "putcode"
    BY <1>3 DEF Goto, TypeOK, StepOf
  <2>2. Carries(r)'
    BY <2>1 DEF Carries
  <2> QED BY <1>1, <2>1, <2>2, LineageQuiet
<1> QED BY <1>2, <1>3 DEF Reply, PutGrant

LEMMA LineageEnvironment ==
  ASSUME TypeOK, PointOK, LineageInv,
         \/ \E g \in Grants : RevokeGrant(g) \/ RewriteGrant(g)
         \/ Restart
         \/ Tick
         \/ UNCHANGED vars
  PROVE  LineageInv'
<1>1. HistoryKept
  BY DEF RevokeGrant, RewriteGrant, Restart, Tick, vars, HistoryKept
<1>2. OneCode' /\ \A t \in DOMAIN refresh' : Bound(refresh[t].grant, refresh[t].client)'
  BY <1>1 DEF LineageInv, OneCode, Bound, HistoryKept
<1>3. \A r \in Reqs : Carries(r)'
  <2>1. CASE Restart
    BY <2>1 DEF Restart, Carries
  <2>2. CASE UNCHANGED <<pc, loc>>
    BY <1>1, <2>2 DEF LineageInv, Carries, Bound, HistoryKept
  <2> QED BY <2>1, <2>2 DEF RevokeGrant, RewriteGrant, Tick, vars
<1> QED BY <1>2, <1>3 DEF LineageInv

LEMMA LineageStep ==
  ASSUME TypeOK, PointOK, LinearInv, LineageInv, TypeOK', "mark" \notin Faults,
         [Next]_vars
  PROVE  LineageInv'
<1>1. CASE UNCHANGED vars
  BY <1>1, LineageEnvironment
<1>2. CASE Next
  BY <1>2, LineageArrive, LineageSelect, LineageMarkCode, LineageMarkRefresh,
     LineageCheckCode, LineageReadGrant, LineagePutRefresh, LineagePutAuthCode,
     LineageReplyAndPutGrant, LineageEnvironment
  DEF Next, Consume, Proceed
<1> QED BY <1>1, <1>2

\* Everything above, for the theorems that need it all.
AllInv == TypeOK /\ PointOK /\ LinearInv /\ LineageInv

LEMMA AllInvariant ==
  ASSUME "mark" \notin Faults
  PROVE  Spec => []AllInv
<1>1. Init => AllInv
  BY TypeInit, LinearInit, LineageInit DEF AllInv
<1>2. AllInv /\ [Next]_vars => AllInv'
  BY TypeStep, LinearStep, LineageStep DEF AllInv
<1> QED BY <1>1, <1>2, PTL DEF Spec

\* As long as the UPDATEs of the consumes succeed, every refresh token,
\* however many rotations from the code, carries the grant and client of a code
\* that was redeemed with the client, redirect and PKCE verifier it was bound to
\* (tokenCode, tokenRefresh, issue).
THEOREM TokensKeepTheirLineage ==
  ASSUME "mark" \notin Faults
  PROVE  Spec => []LineageBound
<1>1. AllInv => LineageBound
  BY DEF AllInv, LineageInv, Bound, LineageBound
<1> QED BY <1>1, AllInvariant, PTL

-----------------------------------------------------------------------------
(* What is spent stays spent, even when an UPDATE is lost: a row of the    *)
(* grant only gets staler, and no request may take up the grant.           *)

\* A request either had the grant already, at the same point, or does not have
\* it, or has nothing left to do with it.
Idler(r, g) ==
  loc'[r].grant = g =>
    \/ pc'[r] \in {"idle", "reply"}
    \/ loc[r].grant = g /\ loc'[r].kind = loc[r].kind /\ pc'[r] = pc[r]

CodesStale(g) ==
  \A c \in DOMAIN codes' : codes'[c].grant = g =>
    /\ c \in DOMAIN codes /\ codes[c].grant = g /\ codes'[c].exp = codes[c].exp
    /\ codes[c].used => codes'[c].used

TokensStale(g) ==
  \A t \in DOMAIN refresh' : refresh'[t].grant = g =>
    /\ t \in DOMAIN refresh /\ refresh[t].grant = g
    /\ refresh'[t].exp = refresh[t].exp
    /\ refresh[t].revoked => refresh'[t].revoked

LEMMA SpentFrame ==
  ASSUME TypeOK, NEW g \in Grants, Spent(g), g \in DOMAIN grants',
         now' = now \/ now' = now + 1, CodesStale(g), TokensStale(g),
         \A r \in Reqs : Idler(r, g)
  PROVE  Spent(g)'
<1>1. \A c \in DOMAIN codes' : codes'[c].grant = g =>
        codes'[c].used \/ now' > codes'[c].exp
  <2> SUFFICES ASSUME NEW c \in DOMAIN codes', codes'[c].grant = g
               PROVE  codes'[c].used \/ now' > codes'[c].exp
    OBVIOUS
  <2>1. /\ c \in DOMAIN codes /\ codes[c].grant = g /\ codes'[c].exp = codes[c].exp
        /\ codes[c].used => codes'[c].used
    BY Zenon DEF CodesStale
  <2>2. codes[c].used \/ now > codes[c].exp
    BY <2>1, Zenon DEF Spent
  <2>3. codes[c].exp \in Nat /\ now \in Nat
    BY <2>1, RowTypes DEF TypeOK
  <2>4. now > codes[c].exp => now' > codes'[c].exp
    BY <2>1, <2>3
  <2> QED BY <2>1, <2>2, <2>4, Zenon
<1>2. \A t \in DOMAIN refresh' : refresh'[t].grant = g =>
        refresh'[t].revoked \/ now' > refresh'[t].exp
  <2> SUFFICES ASSUME NEW t \in DOMAIN refresh', refresh'[t].grant = g
               PROVE  refresh'[t].revoked \/ now' > refresh'[t].exp
    OBVIOUS
  <2>1. /\ t \in DOMAIN refresh /\ refresh[t].grant = g
        /\ refresh'[t].exp = refresh[t].exp
        /\ refresh[t].revoked => refresh'[t].revoked
    BY Zenon DEF TokensStale
  <2>2. refresh[t].revoked \/ now > refresh[t].exp
    BY <2>1, Zenon DEF Spent
  <2>3. refresh[t].exp \in Nat /\ now \in Nat
    BY <2>1, RowTypes DEF TypeOK
  <2>4. now > refresh[t].exp => now' > refresh'[t].exp
    BY <2>1, <2>3
  <2> QED BY <2>1, <2>2, <2>4, Zenon
<1>3. \A r \in Reqs : loc'[r].grant = g =>
        pc'[r] \in {"idle", "reply"} \/ (pc'[r] = "mark" /\ loc'[r].kind = "revoke")
  BY DEF Spent, Idler
<1> QED BY <1>1, <1>2, <1>3 DEF Spent

\* Nothing of the tables changes but grants, and the request is done or never
\* had the grant.
LEMMA SpentQuiet ==
  ASSUME TypeOK, NEW g \in Grants, Spent(g), NEW r \in Reqs, StepOf(r),
         DOMAIN grants \subseteq DOMAIN grants',
         UNCHANGED <<now, codes, refresh>>,
         pc'[r] \in {"idle", "reply"} \/ loc'[r].grant # g
  PROVE  Spent(g)'
<1>1. g \in DOMAIN grants' /\ CodesStale(g) /\ TokensStale(g)
  BY DEF Spent, CodesStale, TokensStale
<1>2. \A q \in Reqs : Idler(q, g)
  BY DEF Idler, StepOf
<1> QED BY <1>1, <1>2, SpentFrame

LEMMA ReturnStep ==
  ASSUME TypeOK, NEW r \in Reqs, Return(r)
  PROVE  StepOf(r) /\ pc'[r] = "idle"
<1>1. "idle" \in Points
  BY DEF Points
<1> QED BY <1>1, BlankType, RequestStep DEF Return, Goto

LEMMA SpentReturn ==
  ASSUME TypeOK, NEW g \in Grants, Spent(g), NEW r \in Reqs, Return(r),
         UNCHANGED <<now, grants, codes, refresh>>
  PROVE  Spent(g)'
BY ReturnStep, SpentQuiet

LEMMA SpentArrive ==
  ASSUME TypeOK, NEW g \in Grants, Spent(g), NEW r \in Reqs,
         TokenCode(r) \/ TokenRefresh(r) \/ Revoke(r)
  PROVE  Spent(g)'
<1> SUFFICES ASSUME NEW kind \in Kinds,
                    NEW item \in Codes \cup Refreshes \cup {None},
                    NEW form \in Form, Arrive(r, kind, item, form)
             PROVE  Spent(g)'
  BY DEF TokenCode, TokenRefresh, Revoke, TypeOK, Form, NoForm, Kinds
<1> DEFINE l == [Blank EXCEPT !.kind = kind, !.item = item, !.form = form]
<1>1. l \in Local /\ l.grant = None
  BY BlankType DEF Blank, Local
<1>2. /\ loc' = [loc EXCEPT ![r] = l] /\ pc' = [pc EXCEPT ![r] = "select"]
      /\ UNCHANGED <<now, grants, codes, refresh>>
  BY DEF Arrive, Goto
<1> HIDE DEF l
<1>3. "select" \in Points
  BY DEF Points
<1>4. StepOf(r) /\ loc'[r] = l
  BY <1>1, <1>2, <1>3, RequestStep
<1>5. loc'[r].grant # g
  BY <1>1, <1>4, ConstantsAssumption
<1> QED BY <1>2, <1>4, <1>5, SpentQuiet

\* A credential that is still accepted would not be spent.
LEMMA SpentSelect ==
  ASSUME TypeOK, NEW g \in Grants, Spent(g), NEW r \in Reqs,
         SelectCode(r) \/ SelectRefresh(r)
  PROVE  Spent(g)'
<1> DEFINE i == loc[r].item
<1>1. UNCHANGED <<now, grants, codes, refresh>>
  BY DEF SelectCode, SelectRefresh, Select
<1>2. CASE Return(r)
  BY <1>1, <1>2, SpentReturn
<1>3. ASSUME NEW row, row.grant \in Grants, row.client \in Clients, row.grant # g,
             pc' = [pc EXCEPT ![r] = "mark"],
             loc' = [loc EXCEPT ![r] = Scanned(loc[r], row)]
      PROVE  Spent(g)'
  <2> DEFINE l == Scanned(loc[r], row)
  <2>1. l \in Local /\ l.grant = row.grant
    BY <1>3, RequestTypes, ScannedType
  <2>2. loc' = [loc EXCEPT ![r] = l] /\ "mark" \in Points
    BY <1>3 DEF Points
  <2> HIDE DEF l
  <2>3. StepOf(r) /\ loc'[r] = l
    BY <1>3, <2>1, <2>2, RequestStep
  <2> QED BY <1>1, <1>3, <2>1, <2>3, SpentQuiet
<1>4. CASE /\ i \in DOMAIN codes /\ Redeemable(codes[i])
           /\ pc' = [pc EXCEPT ![r] = "mark"]
           /\ loc' = [loc EXCEPT ![r] = Scanned(loc[r], codes[i])]
  <2>1. codes[i].exp \in Nat /\ now \in Nat
    BY <1>4, RowTypes DEF TypeOK
  <2>2. ~codes[i].used /\ ~(now > codes[i].exp)
    BY <1>4, <2>1 DEF Redeemable
  <2>3. codes[i].grant # g
    BY <1>4, <2>2, Zenon DEF Spent
  <2> QED BY <1>3, <1>4, <2>3, RowTypes
<1>5. CASE /\ i \in DOMAIN refresh /\ Live(refresh[i])
           /\ pc' = [pc EXCEPT ![r] = "mark"]
           /\ loc' = [loc EXCEPT ![r] = Scanned(loc[r], refresh[i])]
  <2>1. refresh[i].exp \in Nat /\ now \in Nat
    BY <1>5, RowTypes DEF TypeOK
  <2>2. ~refresh[i].revoked /\ ~(now > refresh[i].exp)
    BY <1>5, <2>1 DEF Live
  <2>3. refresh[i].grant # g
    BY <1>5, <2>2, Zenon DEF Spent
  <2> QED BY <1>3, <1>5, <2>3, RowTypes
<1> QED BY <1>2, <1>4, <1>5 DEF SelectCode, SelectRefresh, Select, Goto

LEMMA SpentMarkCode ==
  ASSUME TypeOK, NEW g \in Grants, Spent(g), NEW r \in Reqs, MarkCode(r)
  PROVE  Spent(g)'
<1>1. /\ pc[r] = "mark" /\ loc[r].kind = "code" /\ loc' = loc
      /\ UNCHANGED <<now, grants, refresh>>
      /\ codes' \in Marked(codes, [codes EXCEPT ![loc[r].item].used = TRUE])
  BY DEF MarkCode
<1>2. StepOf(r)
  BY DEF MarkCode, Goto, TypeOK, StepOf
<1>3. loc[r].grant # g
  BY <1>1 DEF Spent
<1>4. CodesStale(g)
  <2>1. /\ DOMAIN codes' = DOMAIN codes
        /\ \A d \in DOMAIN codes :
             codes'[d] = codes[d] \/ codes'[d] = [codes[d] EXCEPT !.used = TRUE]
    BY <1>1, CodesMarked
  <2>2. \A d \in DOMAIN codes :
          /\ codes'[d].grant = codes[d].grant /\ codes'[d].exp = codes[d].exp
          /\ codes'[d] = codes[d] \/ codes'[d].used
    <3>1. \A d \in DOMAIN codes : codes[d] \in CodeRow
      BY DEF TypeOK
    <3> QED BY <2>1, <3>1, MarkKeepsColumns
  <2>3. \A d \in DOMAIN codes : codes[d].used => codes'[d].used
    BY <2>2, Zenon
  <2> QED BY <2>1, <2>2, <2>3 DEF CodesStale
<1>5. TokensStale(g) /\ \A q \in Reqs : Idler(q, g)
  BY <1>1, <1>2, <1>3 DEF TokensStale, Idler, StepOf
<1> QED BY <1>1, <1>4, <1>5, SpentFrame DEF Spent

LEMMA SpentMarkRefresh ==
  ASSUME TypeOK, NEW g \in Grants, Spent(g), NEW r \in Reqs, MarkRefresh(r)
  PROVE  Spent(g)'
<1>1. /\ pc[r] = "mark" /\ UNCHANGED <<now, grants, codes>>
      /\ refresh' \in Marked(refresh, [refresh EXCEPT ![loc[r].item].revoked = TRUE])
      /\ \/ Return(r)
         \/ loc[r].kind # "revoke" /\ Goto(r, "grant") /\ loc' = loc
  BY DEF MarkRefresh
<1>2. StepOf(r) /\ (pc'[r] = "idle" \/ loc'[r].grant # g)
  <2>1. CASE Return(r)
    BY <2>1, ReturnStep
  <2>2. CASE loc[r].kind # "revoke" /\ Goto(r, "grant") /\ loc' = loc
    BY <1>1, <2>2 DEF Goto, TypeOK, StepOf, Spent
  <2> QED BY <1>1, <2>1, <2>2
<1>3. TokensStale(g)
  <2>1. /\ DOMAIN refresh' = DOMAIN refresh
        /\ \A s \in DOMAIN refresh :
             \/ refresh'[s] = refresh[s]
             \/ refresh'[s] = [refresh[s] EXCEPT !.revoked = TRUE]
    BY <1>1, TokensMarked
  <2>2. \A s \in DOMAIN refresh :
          /\ refresh'[s].grant = refresh[s].grant /\ refresh'[s].exp = refresh[s].exp
          /\ refresh'[s] = refresh[s] \/ refresh'[s].revoked
    <3>1. \A s \in DOMAIN refresh : refresh[s] \in RefreshRow
      BY DEF TypeOK
    <3> QED BY <2>1, <3>1, MarkKeepsColumns
  <2>3. \A s \in DOMAIN refresh : refresh[s].revoked => refresh'[s].revoked
    BY <2>2, Zenon
  <2> QED BY <2>1, <2>2, <2>3 DEF TokensStale
<1>4. CodesStale(g) /\ \A q \in Reqs : Idler(q, g)
  BY <1>1, <1>2 DEF CodesStale, Idler, StepOf
<1> QED BY <1>1, <1>3, <1>4, SpentFrame DEF Spent

LEMMA SpentCheckAndRead ==
  ASSUME TypeOK, NEW g \in Grants, Spent(g), NEW r \in Reqs,
         CheckCode(r) \/ ReadGrant(r)
  PROVE  Spent(g)'
<1>1. pc[r] \in {"check", "grant"} /\ UNCHANGED <<now, grants, codes, refresh>>
  BY DEF CheckCode, ReadGrant
<1>2. CASE Return(r)
  BY <1>1, <1>2, SpentReturn
<1>3. loc[r].grant # g
  BY <1>1 DEF Spent
<1>4. CASE Goto(r, "grant") /\ loc' = [loc EXCEPT ![r] =
                                        [@ EXCEPT !.client = loc[r].form.client]]
  <2>1. StepOf(r)
    BY <1>4 DEF Goto, TypeOK, StepOf
  <2>2. loc'[r].grant = loc[r].grant
    <3>1. loc[r] \in Local
      BY RequestTypes
    <3>2. loc'[r] = [loc[r] EXCEPT !.client = loc[r].form.client]
      BY <1>4 DEF TypeOK
    <3> QED BY <3>1, <3>2 DEF Local
  <2> QED BY <1>1, <1>3, <2>1, <2>2, SpentQuiet
<1>5. CASE Goto(r, "put") /\ loc' = loc
  <2>1. StepOf(r)
    BY <1>5 DEF Goto, TypeOK, StepOf
  <2> QED BY <1>1, <1>3, <1>5, <2>1, SpentQuiet
<1> QED BY <1>2, <1>4, <1>5 DEF CheckCode, ReadGrant

LEMMA SpentPutRefresh ==
  ASSUME TypeOK, NEW g \in Grants, Spent(g), NEW r \in Reqs, PutRefresh(r)
  PROVE  Spent(g)'
<1> DEFINE h == loc[r].grant
<1>1. pc[r] = "put" /\ UNCHANGED <<now, grants, codes>> /\ h # g
  BY DEF PutRefresh, Spent
<1>2. CASE Return(r) /\ UNCHANGED refresh
  BY <1>1, <1>2, SpentReturn
<1>3. ASSUME NEW t \in Refreshes \ DOMAIN refresh,
             refresh' = Insert(refresh, t,
               [grant |-> h, client |-> loc[r].client,
                exp |-> now + RefreshTTL, revoked |-> FALSE]),
             Goto(r, "reply"), loc' = [loc EXCEPT ![r] = [@ EXCEPT !.item = t]]
      PROVE  Spent(g)'
  <2>1. StepOf(r) /\ pc'[r] = "reply"
    BY <1>3 DEF Goto, TypeOK, StepOf
  <2>2. /\ DOMAIN refresh' = DOMAIN refresh \cup {t} /\ refresh'[t].grant = h
        /\ \A s \in DOMAIN refresh : refresh'[s] = refresh[s]
    BY <1>3 DEF Insert
  <2> HIDE DEF h
  <2>3. TokensStale(g)
    BY <1>1, <2>2 DEF TokensStale
  <2>4. CodesStale(g) /\ \A q \in Reqs : Idler(q, g)
    BY <1>1, <2>1 DEF CodesStale, Idler, StepOf
  <2> QED BY <1>1, <2>3, <2>4, SpentFrame DEF Spent
<1> QED BY <1>2, <1>3 DEF PutRefresh

\* A new grant id is not that of a stored grant.
LEMMA SpentConfirming ==
  ASSUME TypeOK, NEW g \in Grants, Spent(g), NEW r \in Reqs,
         Confirm(r) \/ PutGrant(r)
  PROVE  Spent(g)'
<1>1. UNCHANGED <<now, codes, refresh>> /\ g \in DOMAIN grants
  BY DEF Confirm, PutGrant, Spent
<1>2. CASE Confirm(r)
  <2>1. PICK h \in Grants \ DOMAIN grants :
          loc' = [loc EXCEPT ![r] = [Blank EXCEPT !.kind = "confirm", !.grant = h]]
    BY <1>2 DEF Confirm
  <2>2. [Blank EXCEPT !.kind = "confirm", !.grant = h].grant = h
    BY DEF Blank
  <2>3. grants' = grants /\ StepOf(r) /\ loc'[r].grant = h
    BY <1>2, <2>1, <2>2 DEF Confirm, Goto, TypeOK, StepOf
  <2> QED BY <1>1, <2>3, SpentQuiet
<1>3. CASE PutGrant(r)
  <2>1. loc[r].grant # g
    BY <1>3 DEF PutGrant, Spent
  <2>2. CASE Return(r) /\ UNCHANGED grants
    BY <1>1, <2>2, SpentReturn
  <2>3. CASE /\ grants' = Insert(grants, loc[r].grant, "live")
             /\ Goto(r, "putcode") /\ loc' = loc
    <3>1. StepOf(r) /\ DOMAIN grants \subseteq DOMAIN grants'
      BY <2>3 DEF Goto, TypeOK, StepOf, Insert
    <3> QED BY <1>1, <2>1, <2>3, <3>1, SpentQuiet
  <2> QED BY <1>3, <2>2, <2>3 DEF PutGrant
<1> QED BY <1>2, <1>3

LEMMA SpentPutAuthCode ==
  ASSUME TypeOK, NEW g \in Grants, Spent(g), NEW r \in Reqs, PutAuthCode(r)
  PROVE  Spent(g)'
<1>1. /\ Return(r) /\ UNCHANGED <<now, grants, refresh>> /\ loc[r].grant # g
  BY DEF PutAuthCode, Spent
<1>2. StepOf(r) /\ pc'[r] = "idle"
  BY <1>1, ReturnStep
<1>3. CodesStale(g)
  <2>1. CASE codes' = codes
    BY <2>1 DEF CodesStale
  <2>2. ASSUME NEW c \in Codes \ DOMAIN codes, NEW row, row.grant = loc[r].grant,
               codes' = Insert(codes, c, row)
        PROVE  CodesStale(g)
    <3>1. /\ DOMAIN codes' = DOMAIN codes \cup {c} /\ codes'[c] = row
          /\ \A d \in DOMAIN codes : codes'[d] = codes[d]
      BY <2>2 DEF Insert
    <3> QED BY <1>1, <2>2, <3>1 DEF CodesStale
  <2> QED BY <2>1, <2>2 DEF PutAuthCode
<1>4. TokensStale(g) /\ \A q \in Reqs : Idler(q, g)
  BY <1>1, <1>2 DEF TokensStale, Idler, StepOf
<1> QED BY <1>1, <1>3, <1>4, SpentFrame DEF Spent

LEMMA SpentEnvironment ==
  ASSUME TypeOK, NEW g \in Grants, Spent(g),
         \/ \E h \in Grants : RevokeGrant(h) \/ RewriteGrant(h)
         \/ Restart
         \/ Tick
         \/ UNCHANGED vars
  PROVE  Spent(g)'
<1>1. /\ DOMAIN grants' = DOMAIN grants /\ UNCHANGED <<codes, refresh>>
      /\ now' = now \/ now' = now + 1
  BY DEF RevokeGrant, RewriteGrant, Restart, Tick, vars, TypeOK
<1>2. CodesStale(g) /\ TokensStale(g) /\ g \in DOMAIN grants'
  BY <1>1 DEF CodesStale, TokensStale, Spent
<1>3. \A r \in Reqs : Idler(r, g)
  BY DEF RevokeGrant, RewriteGrant, Restart, Tick, vars, Idler
<1> QED BY <1>1, <1>2, <1>3, SpentFrame

LEMMA SpentStep ==
  ASSUME TypeOK, [Next]_vars, NEW g \in Grants, Spent(g)
  PROVE  Spent(g)'
<1>1. CASE UNCHANGED vars
  BY <1>1, SpentEnvironment
<1>2. ASSUME NEW r \in Reqs, Reply(r) PROVE Spent(g)'
  BY <1>2, SpentReturn DEF Reply
<1>3. CASE Next
  BY <1>2, <1>3, SpentArrive, SpentSelect, SpentMarkCode, SpentMarkRefresh,
     SpentCheckAndRead, SpentPutRefresh, SpentConfirming, SpentPutAuthCode,
     SpentEnvironment
  DEF Next, Consume, Proceed
<1> QED BY <1>1, <1>3

\* Once every code and token of a stored grant is consumed or expired and no
\* request can still mint, nothing of the grant ever appears again: revocation,
\* expiry, a failed issue and a restart are final, also when the database loses
\* UPDATEs.
THEOREM SpentIsFinal == Spec => SpentStaysSpent
<1>1. Init => TypeOK /\ PointOK
  BY TypeInit
<1>2. TypeOK /\ PointOK /\ [Next]_vars => TypeOK' /\ PointOK'
  BY TypeStep
<1>3. TypeOK /\ [Next]_vars => [\A g \in Grants : Spent(g) => Spent(g)']_vars
  BY SpentStep
<1> QED BY <1>1, <1>2, <1>3, PTL DEF Spec, SpentStaysSpent

-----------------------------------------------------------------------------
(* The endpoint implements GrantCredential.  Because a grant has one live  *)
(* credential, Holder says where it is whichever CHOOSE takes.             *)

HoldersRight ==
  \A g \in Grants :
    /\ \A c \in Codes : InCode(c, g) => Holder(g) = <<"code", c>>
    /\ \A t \in Refreshes : InToken(t, g) => Holder(g) = <<"token", t>>
    /\ \A r \in Reqs : InFlight(r, g) => Holder(g) = <<"taken", None>>
    /\ ~Held(g) /\ HasRow(g) => Holder(g) = <<"gone", None>>
    /\ ~Held(g) /\ ~HasRow(g) => Holder(g) = <<"unissued", None>>

LEMMA HolderCases == OneLiveCredential => HoldersRight
<1> SUFFICES ASSUME OneLiveCredential, NEW g \in Grants
             PROVE
    /\ \A c \in Codes : InCode(c, g) => Holder(g) = <<"code", c>>
    /\ \A t \in Refreshes : InToken(t, g) => Holder(g) = <<"token", t>>
    /\ \A r \in Reqs : InFlight(r, g) => Holder(g) = <<"taken", None>>
    /\ ~Held(g) /\ HasRow(g) => Holder(g) = <<"gone", None>>
    /\ ~Held(g) /\ ~HasRow(g) => Holder(g) = <<"unissued", None>>
  BY DEF HoldersRight
<1> DEFINE inCode == \E c \in Codes : InCode(c, g)
           inToken == \E t \in Refreshes : InToken(t, g)
           inFlight == \E r \in Reqs : InFlight(r, g)
<1>0. /\ ~(inCode /\ inToken) /\ ~(inCode /\ inFlight) /\ ~(inToken /\ inFlight)
      /\ Held(g) <=> inCode \/ inToken \/ inFlight
  BY DEF OneLiveCredential, Held
<1>1. ASSUME NEW c \in Codes, InCode(c, g) PROVE Holder(g) = <<"code", c>>
  <2>1. (CHOOSE d \in Codes : InCode(d, g)) = c
    BY <1>1 DEF OneLiveCredential
  <2> QED BY <1>0, <1>1, <2>1 DEF Holder
<1>2. ASSUME NEW t \in Refreshes, InToken(t, g) PROVE Holder(g) = <<"token", t>>
  <2>1. (CHOOSE s \in Refreshes : InToken(s, g)) = t
    BY <1>2 DEF OneLiveCredential
  <2> QED BY <1>0, <1>2, <2>1 DEF Holder
<1>3. ASSUME NEW r \in Reqs, InFlight(r, g) PROVE Holder(g) = <<"taken", None>>
  BY <1>0, <1>3 DEF Holder
<1>4. CASE ~Held(g)
  BY <1>0, <1>4 DEF Holder
<1> QED BY <1>1, <1>2, <1>3, <1>4

LEMMA HolderNext == OneLiveCredential' => HoldersRight'
BY HolderCases, PTL

\* The step moves no baton of the grant.
SameBaton(g) ==
  /\ \A c \in Codes : InCode(c, g)' <=> InCode(c, g)
  /\ \A t \in Refreshes : InToken(t, g)' <=> InToken(t, g)
  /\ (\E r \in Reqs : InFlight(r, g))' <=> (\E r \in Reqs : InFlight(r, g))
  /\ HasRow(g)' <=> HasRow(g)

LEMMA SameHolder ==
  ASSUME OneLiveCredential, OneLiveCredential', NEW g \in Grants, SameBaton(g)
  PROVE  Holder(g)' = Holder(g)
<1>1. HoldersRight /\ HoldersRight'
  BY HolderCases, HolderNext
<1>2. CASE \E c \in Codes : InCode(c, g)
  BY <1>1, <1>2 DEF HoldersRight, SameBaton
<1>3. CASE \E t \in Refreshes : InToken(t, g)
  BY <1>1, <1>3 DEF HoldersRight, SameBaton
<1>4. CASE \E r \in Reqs : InFlight(r, g)
  BY <1>1, <1>4 DEF HoldersRight, SameBaton
<1>5. CASE ~Held(g)
  <2>1. ~Held(g)'
    BY <1>5 DEF Held, SameBaton
  <2> QED BY <1>1, <1>5, <2>1 DEF HoldersRight, SameBaton
<1> QED BY <1>2, <1>3, <1>4, <1>5 DEF Held

LEMMA BatonStutters ==
  ASSUME OneLiveCredential, OneLiveCredential', \A g \in Grants : SameBaton(g),
         DOMAIN codes' = DOMAIN codes, DOMAIN refresh' = DOMAIN refresh
  PROVE  UNCHANGED Abstract!vars
<1>1. \A g \in Grants : Holder(g)' = Holder(g)
  BY SameHolder
<1> QED BY <1>1 DEF Abstract!vars

LEMMA BatonPassed ==
  ASSUME OneLiveCredential, OneLiveCredential', NEW g \in Grants, NEW to,
         Holder(g)' = to, \A h \in Grants \ {g} : SameBaton(h)
  PROVE  Abstract!Pass(g, to)
<1>1. \A h \in Grants \ {g} : Holder(h)' = Holder(h)
  BY SameHolder
<1> QED BY <1>1 DEF Abstract!Pass

\* Requests that held batons are gone, and nothing else happened.
LEMMA BatonsDropped ==
  ASSUME OneLiveCredential, OneLiveCredential', UNCHANGED <<codes, refresh>>,
         NEW S \in SUBSET Grants, S # {},
         \A g \in S : HasRow(g) /\ \E r \in Reqs : InFlight(r, g),
         \A g \in S, r \in Reqs : ~InFlight(r, g)',
         \A g \in Grants \ S, r \in Reqs : InFlight(r, g)' <=> InFlight(r, g)
  PROVE  Abstract!Next
<1>1. HoldersRight /\ HoldersRight'
  BY HolderCases, HolderNext
<1>2. \A g \in Grants :
        /\ \A c \in Codes : InCode(c, g)' <=> InCode(c, g)
        /\ \A t \in Refreshes : InToken(t, g)' <=> InToken(t, g)
        /\ HasRow(g)' <=> HasRow(g)
  BY DEF InCode, InToken, HasRow
<1>3. \A g \in S : Holder(g) = <<"taken", None>>
  BY <1>1 DEF HoldersRight
<1>4. \A g \in S : Holder(g)' = <<"gone", None>>
  <2> SUFFICES ASSUME NEW g \in S PROVE Holder(g)' = <<"gone", None>>
    OBVIOUS
  <2>1. ~Held(g)' /\ HasRow(g)'
    BY <1>2 DEF Held, OneLiveCredential
  <2> QED BY <1>1, <2>1 DEF HoldersRight
<1>5. \A g \in Grants \ S : Holder(g)' = Holder(g)
  <2>1. \A g \in Grants \ S : SameBaton(g)
    BY <1>2 DEF SameBaton
  <2> QED BY <2>1, SameHolder
<1>6. Abstract!Drop(S)
  BY <1>3, <1>4, <1>5 DEF Abstract!Drop, Abstract!Taken, Abstract!Gone
<1> QED BY <1>6 DEF Abstract!Next

\* A request that keeps its hands off the tables and keeps what it has.
LEMMA BatonQuiet ==
  ASSUME OneLiveCredential, OneLiveCredential', UNCHANGED <<codes, refresh>>,
         \A r \in Reqs, g \in Grants : InFlight(r, g)' <=> InFlight(r, g)
  PROVE  UNCHANGED Abstract!vars
<1>1. \A g \in Grants : SameBaton(g)
  BY DEF SameBaton, InCode, InToken, HasRow
<1> QED BY <1>1, BatonStutters

\* A request that fails after its consume.
LEMMA BatonLost ==
  ASSUME AllInv, OneLiveCredential', UNCHANGED <<codes, refresh>>, NEW r \in Reqs,
         pc[r] \in {"check", "grant", "put"}, Return(r)
  PROVE  Abstract!Next
<1> DEFINE g == loc[r].grant
<1>1. StepOf(r) /\ pc'[r] = "idle"
  BY ReturnStep DEF AllInv
<1>2. g \in Grants /\ HasRow(g)
  <2>1. pc[r] = "check" => HasCode(r)
    BY DEF AllInv, PointOK, AtPoint
  <2>2. pc[r] # "check" => g \in Grants /\ Bound(g, loc[r].client)
    BY DEF AllInv, PointOK, AtPoint, LineageInv, Carries
  <2> QED BY <2>1, <2>2, RowTypes DEF AllInv, HasCode, HasRow, Bound
<1>3. InFlight(r, g)
  BY DEF InFlight
<1>4. OneLiveCredential
  BY DEF AllInv, LinearInv
<1> DEFINE S == {g}
<1>5. /\ \A h \in S, q \in Reqs : ~InFlight(q, h)'
      /\ \A h \in Grants \ S, q \in Reqs : InFlight(q, h)' <=> InFlight(q, h)
  BY <1>1, <1>2, <1>3, <1>4 DEF OneLiveCredential, InFlight, StepOf
<1> HIDE DEF g
<1> QED BY <1>2, <1>3, <1>4, <1>5, BatonsDropped

LEMMA BatonMarkCode ==
  ASSUME AllInv, AllInv', "mark" \notin Faults, NEW r \in Reqs, MarkCode(r)
  PROVE  Abstract!Next
<1>1. /\ pc[r] = "mark" /\ loc[r].kind = "code" /\ loc' = loc /\ refresh' = refresh
      /\ codes' = [codes EXCEPT ![loc[r].item].used = TRUE]
      /\ codes' \in Marked(codes, [codes EXCEPT ![loc[r].item].used = TRUE])
  BY DEF MarkCode, Marked
<1>2. StepOf(r) /\ pc'[r] = "check"
  BY DEF MarkCode, Goto, TypeOK, StepOf, AllInv
<1>3. PICK c \in Codes : /\ c = loc[r].item /\ c \in DOMAIN codes
                         /\ codes[c].grant = loc[r].grant /\ ~codes[c].used
  BY <1>1 DEF PointOK, AtPoint, HasCode, LinearInv, MarkOK, TypeOK, AllInv
<1>4. PICK g \in Grants : g = loc[r].grant
  BY <1>3, RowTypes DEF AllInv
<1>5. DOMAIN codes' = DOMAIN codes /\ \A d \in DOMAIN codes : codes'[d].grant = codes[d].grant
  BY <1>1, CodesMarked DEF AllInv
<1>6. \A d \in DOMAIN codes : d # c => codes'[d] = codes[d]
  BY <1>1, <1>3
<1>7. HoldersRight /\ HoldersRight' /\ OneLiveCredential /\ OneLiveCredential'
  BY HolderCases, HolderNext DEF AllInv, LinearInv
<1>8. Holder(g) = <<"code", c>>
  BY <1>3, <1>4, <1>7 DEF HoldersRight, InCode
<1>9. Holder(g)' = <<"taken", None>>
  <2>1. InFlight(r, g)'
    BY <1>1, <1>2, <1>4 DEF InFlight
  <2> QED BY <1>7, <2>1 DEF HoldersRight
<1>10. \A h \in Grants \ {g} : SameBaton(h)
  <2> SUFFICES ASSUME NEW h \in Grants \ {g} PROVE SameBaton(h)
    OBVIOUS
  <2>1. \A d \in Codes : InCode(d, h)' <=> InCode(d, h)
    BY <1>3, <1>4, <1>5, <1>6 DEF InCode
  <2>2. \A t \in Refreshes : InToken(t, h)' <=> InToken(t, h)
    BY <1>1 DEF InToken
  <2>3. \A q \in Reqs : InFlight(q, h)' <=> InFlight(q, h)
    BY <1>1, <1>2, <1>4 DEF InFlight, StepOf
  <2>4. HasRow(h)' <=> HasRow(h)
    BY <1>5 DEF HasRow
  <2> QED BY <2>1, <2>2, <2>3, <2>4 DEF SameBaton
<1>11. Abstract!Pass(g, <<"taken", None>>)
  BY <1>7, <1>9, <1>10, BatonPassed
<1>12. Abstract!Take(g)
  BY <1>1, <1>3, <1>5, <1>8, <1>11 DEF Abstract!Take, Abstract!Code, Abstract!Taken
<1> QED BY <1>12 DEF Abstract!Next

LEMMA BatonMarkRefresh ==
  ASSUME AllInv, AllInv', "mark" \notin Faults, NEW r \in Reqs, MarkRefresh(r)
  PROVE  Abstract!Next
<1>1. /\ pc[r] = "mark" /\ loc[r].kind \in {"refresh", "revoke"} /\ codes' = codes
      /\ refresh' = [refresh EXCEPT ![loc[r].item].revoked = TRUE]
      /\ refresh' \in Marked(refresh, [refresh EXCEPT ![loc[r].item].revoked = TRUE])
      /\ \/ Return(r)
         \/ Goto(r, "grant") /\ loc' = loc
  BY DEF MarkRefresh, Marked
<1>2. StepOf(r) /\ \/ pc'[r] = "idle"
                   \/ pc'[r] = "grant" /\ loc'[r] = loc[r]
  BY <1>1 DEF Return, Goto, TypeOK, StepOf, AllInv
<1>3. PICK t \in Refreshes : /\ t = loc[r].item /\ t \in DOMAIN refresh
                             /\ refresh[t].grant = loc[r].grant /\ ~refresh[t].revoked
  BY <1>1 DEF PointOK, AtPoint, HasToken, LinearInv, MarkOK, TypeOK, AllInv
<1>4. PICK g \in Grants : g = loc[r].grant
  BY <1>3, RowTypes DEF AllInv
<1>5. /\ DOMAIN refresh' = DOMAIN refresh
      /\ \A s \in DOMAIN refresh : refresh'[s].grant = refresh[s].grant
  BY <1>1, TokensMarked DEF AllInv
<1>6. refresh'[t].revoked /\ \A s \in DOMAIN refresh : s # t => refresh'[s] = refresh[s]
  <2>1. refresh[t] \in RefreshRow /\ refresh'[t] = [refresh[t] EXCEPT !.revoked = TRUE]
    BY <1>1, <1>3 DEF AllInv, TypeOK
  <2> QED BY <1>1, <1>3, <2>1, MarkKeepsColumns
<1>7. HoldersRight /\ HoldersRight' /\ OneLiveCredential /\ OneLiveCredential'
  BY HolderCases, HolderNext DEF AllInv, LinearInv
<1>8. InToken(t, g) /\ Holder(g) = <<"token", t>>
  BY <1>3, <1>4, <1>7 DEF HoldersRight, InToken
<1>9. \A h \in Grants \ {g} : SameBaton(h)
  <2> SUFFICES ASSUME NEW h \in Grants \ {g} PROVE SameBaton(h)
    OBVIOUS
  <2>1. \A d \in Codes : InCode(d, h)' <=> InCode(d, h)
    BY <1>1 DEF InCode
  <2>2. \A s \in Refreshes : InToken(s, h)' <=> InToken(s, h)
    BY <1>3, <1>4, <1>5, <1>6 DEF InToken
  <2>3. \A q \in Reqs : InFlight(q, h)' <=> InFlight(q, h)
    BY <1>1, <1>2, <1>4 DEF InFlight, StepOf
  <2>4. HasRow(h)' <=> HasRow(h)
    BY <1>1 DEF HasRow
  <2> QED BY <2>1, <2>2, <2>3, <2>4 DEF SameBaton
<1>10. CASE pc'[r] = "grant" /\ loc'[r] = loc[r]
  <2>1. Holder(g)' = <<"taken", None>>
    <3>1. InFlight(r, g)'
      BY <1>4, <1>10 DEF InFlight
    <3> QED BY <1>7, <3>1 DEF HoldersRight
  <2>2. Abstract!Pass(g, <<"taken", None>>)
    BY <1>7, <1>9, <2>1, BatonPassed
  <2>3. Abstract!Take(g)
    BY <1>1, <1>5, <1>8, <2>2 DEF Abstract!Take, Abstract!Token, Abstract!Taken
  <2> QED BY <2>3 DEF Abstract!Next
<1>11. CASE pc'[r] = "idle"
  <2>1. Holder(g)' = <<"gone", None>>
    <3>1. HasRow(g)'
      <4>1. Bound(g, refresh[t].client)
        BY <1>3, <1>4 DEF AllInv, LineageInv
      <4> QED BY <1>1, <4>1 DEF Bound, HasRow
    <3>2. \A d \in Codes : ~InCode(d, g)'
      BY <1>1, <1>7, <1>8 DEF OneLiveCredential, InCode
    <3>3. \A s \in Refreshes : ~InToken(s, g)'
      <4>1. \A s \in Refreshes : InToken(s, g)' => InToken(s, g) /\ s # t
        BY <1>5, <1>6 DEF InToken
      <4> QED BY <1>7, <1>8, <4>1 DEF OneLiveCredential
    <3>4. \A q \in Reqs : ~InFlight(q, g)'
      <4>1. \A q \in Reqs : InFlight(q, g)' => InFlight(q, g)
        BY <1>2, <1>11 DEF InFlight, StepOf
      <4> QED BY <1>7, <1>8, <4>1 DEF OneLiveCredential
    <3>5. ~Held(g)'
      BY <3>2, <3>3, <3>4 DEF Held
    <3> QED BY <1>7, <3>1, <3>5 DEF HoldersRight
  <2>2. Abstract!Pass(g, <<"gone", None>>)
    BY <1>7, <1>9, <2>1, BatonPassed
  <2>3. Abstract!Discard(g)
    BY <1>1, <1>5, <1>8, <2>2 DEF Abstract!Discard, Abstract!Token, Abstract!Gone
  <2> QED BY <2>3 DEF Abstract!Next
<1> QED BY <1>2, <1>10, <1>11

LEMMA BatonPutRefresh ==
  ASSUME AllInv, AllInv', NEW r \in Reqs, PutRefresh(r)
  PROVE  Abstract!Next
<1>1. pc[r] = "put" /\ codes' = codes
  BY DEF PutRefresh
<1>2. CASE Return(r) /\ UNCHANGED refresh
  BY <1>1, <1>2, BatonLost DEF AllInv, LinearInv
<1>3. ASSUME NEW t \in Refreshes \ DOMAIN refresh,
             refresh' = Insert(refresh, t,
               [grant |-> loc[r].grant, client |-> loc[r].client,
                exp |-> now + RefreshTTL, revoked |-> FALSE]),
             Goto(r, "reply"), loc' = [loc EXCEPT ![r] = [@ EXCEPT !.item = t]]
      PROVE  Abstract!Next
  <2>1. StepOf(r) /\ pc'[r] = "reply"
    BY <1>3 DEF Goto, TypeOK, StepOf, AllInv
  <2>2. PICK g \in Grants : g = loc[r].grant
    BY <1>1 DEF AllInv, PointOK, AtPoint
  <2>3. /\ DOMAIN refresh' = DOMAIN refresh \cup {t}
        /\ refresh'[t].grant = g /\ ~refresh'[t].revoked
        /\ \A s \in DOMAIN refresh : refresh'[s] = refresh[s]
    BY <1>3, <2>2 DEF Insert
  <2>4. HoldersRight /\ HoldersRight' /\ OneLiveCredential /\ OneLiveCredential'
    BY HolderCases, HolderNext DEF AllInv, LinearInv
  <2>5. Holder(g) = <<"taken", None>> /\ Holder(g)' = <<"token", t>>
    <3>1. InFlight(r, g) /\ InToken(t, g)'
      BY <1>1, <2>2, <2>3 DEF InFlight, InToken
    <3> QED BY <2>4, <3>1 DEF HoldersRight
  <2>6. \A h \in Grants \ {g} : SameBaton(h)
    <3> SUFFICES ASSUME NEW h \in Grants \ {g} PROVE SameBaton(h)
      OBVIOUS
    <3>1. \A d \in Codes : InCode(d, h)' <=> InCode(d, h)
      BY <1>1 DEF InCode
    <3>2. \A s \in Refreshes : InToken(s, h)' <=> InToken(s, h)
      BY <2>3 DEF InToken
    <3>3. \A q \in Reqs : InFlight(q, h)' <=> InFlight(q, h)
      BY <2>1, <2>2 DEF InFlight, StepOf
    <3>4. HasRow(h)' <=> HasRow(h)
      BY <1>1 DEF HasRow
    <3> QED BY <3>1, <3>2, <3>3, <3>4 DEF SameBaton
  <2>7. Abstract!Pass(g, <<"token", t>>)
    BY <2>4, <2>5, <2>6, BatonPassed
  <2>8. Abstract!Fresh(t)
    <3>1. t \notin DOMAIN codes
      BY <1>3, ConstantsAssumption DEF AllInv, TypeOK
    <3> QED BY <1>1, <1>3, <2>3, <3>1 DEF Abstract!Fresh
  <2>9. Abstract!Mint(g, t)
    BY <2>5, <2>7, <2>8 DEF Abstract!Mint, Abstract!Token, Abstract!Taken
  <2> QED BY <1>3, <2>9 DEF Abstract!Next
<1> QED BY <1>2, <1>3 DEF PutRefresh

LEMMA BatonPutAuthCode ==
  ASSUME AllInv, AllInv', NEW r \in Reqs, PutAuthCode(r)
  PROVE  Abstract!Next \/ UNCHANGED Abstract!vars
<1>1. pc[r] = "putcode" /\ refresh' = refresh /\ Return(r)
  BY DEF PutAuthCode
<1>2. StepOf(r) /\ pc'[r] = "idle"
  BY <1>1, ReturnStep DEF AllInv
<1>3. HoldersRight /\ HoldersRight' /\ OneLiveCredential /\ OneLiveCredential'
  BY HolderCases, HolderNext DEF AllInv, LinearInv
<1>4. \A q \in Reqs, h \in Grants : InFlight(q, h)' <=> InFlight(q, h)
  BY <1>1, <1>2 DEF InFlight, StepOf
<1>5. CASE codes' = codes
  BY <1>1, <1>3, <1>4, <1>5, BatonQuiet
<1>6. ASSUME NEW c \in Codes \ DOMAIN codes, NEW k \in Clients,
             NEW u \in Redirects, NEW x \in Challenges,
             codes' = Insert(codes, c,
               [grant |-> loc[r].grant, client |-> k, redirect |-> u,
                challenge |-> x, exp |-> now + CodeTTL, used |-> FALSE])
      PROVE  Abstract!Next
  <2>1. PICK g \in Grants : g = loc[r].grant
    BY <1>1 DEF AllInv, PointOK, AtPoint
  <2>2. /\ DOMAIN codes' = DOMAIN codes \cup {c}
        /\ codes'[c].grant = g /\ ~codes'[c].used
        /\ \A d \in DOMAIN codes : codes'[d] = codes[d]
    BY <1>6, <2>1 DEF Insert
  <2>3. ~Held(g) /\ ~HasRow(g)
    BY <1>1, <2>1 DEF AllInv, LinearInv, ConfirmOK, Held, HasRow, InCode, InToken
  <2>4. Holder(g) = <<"unissued", None>> /\ Holder(g)' = <<"code", c>>
    <3>1. InCode(c, g)'
      BY <2>2 DEF InCode
    <3> QED BY <1>3, <2>3, <3>1 DEF HoldersRight
  <2>5. \A h \in Grants \ {g} : SameBaton(h)
    <3> SUFFICES ASSUME NEW h \in Grants \ {g} PROVE SameBaton(h)
      OBVIOUS
    <3>1. \A d \in Codes : InCode(d, h)' <=> InCode(d, h)
      BY <2>2 DEF InCode
    <3>2. \A t \in Refreshes : InToken(t, h)' <=> InToken(t, h)
      BY <1>1 DEF InToken
    <3>3. HasRow(h)' <=> HasRow(h)
      BY <2>2 DEF HasRow
    <3> QED BY <1>4, <3>1, <3>2, <3>3 DEF SameBaton
  <2>6. Abstract!Pass(g, <<"code", c>>)
    BY <1>3, <2>4, <2>5, BatonPassed
  <2>7. Abstract!Fresh(c)
    <3>1. c \notin DOMAIN refresh
      BY <1>6, ConstantsAssumption DEF AllInv, TypeOK
    <3> QED BY <1>1, <1>6, <2>2, <3>1 DEF Abstract!Fresh
  <2>8. Abstract!Issue(g, c)
    BY <2>4, <2>6, <2>7 DEF Abstract!Issue, Abstract!Code, Abstract!Unissued
  <2> QED BY <1>6, <2>8 DEF Abstract!Next
<1> QED BY <1>5, <1>6 DEF PutAuthCode

LEMMA BatonCheckAndRead ==
  ASSUME AllInv, AllInv', NEW r \in Reqs, CheckCode(r) \/ ReadGrant(r)
  PROVE  Abstract!Next \/ UNCHANGED Abstract!vars
<1>1. UNCHANGED <<codes, refresh>> /\ pc[r] \in {"check", "grant"}
  BY DEF CheckCode, ReadGrant
<1>2. OneLiveCredential /\ OneLiveCredential' /\ TypeOK
  BY DEF AllInv, LinearInv
<1>3. CASE Return(r)
  BY <1>1, <1>2, <1>3, BatonLost
<1>4. ASSUME StepOf(r), pc'[r] \in {"grant", "put"}, loc'[r].grant = loc[r].grant
      PROVE  UNCHANGED Abstract!vars
  BY <1>1, <1>2, <1>4, BatonQuiet DEF InFlight, StepOf
<1>5. CASE Goto(r, "grant") /\ loc' = [loc EXCEPT ![r] =
                                        [@ EXCEPT !.client = loc[r].form.client]]
  <2>1. StepOf(r) /\ pc'[r] = "grant"
    BY <1>2, <1>5 DEF Goto, TypeOK, StepOf
  <2>2. loc'[r].grant = loc[r].grant
    <3>1. loc[r] \in Local
      BY <1>2, RequestTypes
    <3>2. loc'[r] = [loc[r] EXCEPT !.client = loc[r].form.client]
      BY <1>2, <1>5 DEF TypeOK
    <3> QED BY <3>1, <3>2 DEF Local
  <2> QED BY <1>4, <2>1, <2>2
<1>6. CASE Goto(r, "put") /\ loc' = loc
  <2>1. StepOf(r) /\ pc'[r] = "put"
    BY <1>2, <1>6 DEF Goto, TypeOK, StepOf
  <2> QED BY <1>4, <1>6, <2>1
<1> QED BY <1>3, <1>5, <1>6 DEF CheckCode, ReadGrant

\* A request that holds no baton before or after.
LEMMA BatonElsewhere ==
  ASSUME AllInv, AllInv', NEW r \in Reqs,
         \/ TokenCode(r) \/ TokenRefresh(r) \/ Revoke(r) \/ Confirm(r)
         \/ SelectCode(r) \/ SelectRefresh(r) \/ Reply(r) \/ PutGrant(r)
  PROVE  UNCHANGED Abstract!vars
<1>1. UNCHANGED <<codes, refresh>> /\ pc[r] \in {"idle", "select", "reply", "putgrant"}
  BY DEF TokenCode, TokenRefresh, Revoke, Confirm, Arrive, SelectCode,
         SelectRefresh, Select, Reply, PutGrant
<1>2. /\ \E p \in {"idle", "select", "mark", "putgrant", "putcode"} :
           pc' = [pc EXCEPT ![r] = p]
      /\ \A q \in Reqs \ {r} : loc'[q] = loc[q]
  BY DEF TokenCode, TokenRefresh, Revoke, Confirm, Arrive, SelectCode,
         SelectRefresh, Select, Reply, PutGrant, Return, Goto, AllInv, TypeOK
<1>3. StepOf(r) /\ pc'[r] \in {"idle", "select", "mark", "putgrant", "putcode"}
  BY <1>2 DEF AllInv, TypeOK, StepOf
<1>4. \A q \in Reqs, g \in Grants : InFlight(q, g)' <=> InFlight(q, g)
  BY <1>1, <1>3 DEF InFlight, StepOf
<1> QED BY <1>1, <1>4, BatonQuiet DEF AllInv, LinearInv

\* A restart drops every baton that a request holds.
LEMMA BatonRestart ==
  ASSUME AllInv, AllInv', Restart
  PROVE  Abstract!Next \/ UNCHANGED Abstract!vars
<1> DEFINE S == {g \in Grants : \E r \in Reqs : InFlight(r, g)}
<1>1. /\ UNCHANGED <<codes, refresh>> /\ \A q \in Reqs, g \in Grants : ~InFlight(q, g)'
      /\ OneLiveCredential /\ OneLiveCredential'
  BY DEF Restart, InFlight, AllInv, LinearInv
<1>2. ASSUME NEW r \in Reqs, NEW g \in Grants, InFlight(r, g) PROVE HasRow(g)
  <2>1. pc[r] = "check" => HasCode(r)
    BY DEF AllInv, PointOK, AtPoint
  <2>2. pc[r] \in {"grant", "put"} => Bound(g, loc[r].client)
    BY <1>2 DEF AllInv, LineageInv, Carries, InFlight
  <2> QED BY <1>2, <2>1, <2>2 DEF InFlight, HasCode, HasRow, Bound
<1>3. CASE S = {}
  <2>1. \A q \in Reqs, g \in Grants : InFlight(q, g)' <=> InFlight(q, g)
    BY <1>1, <1>3
  <2> QED BY <1>1, <2>1, BatonQuiet
<1>4. ASSUME NEW T \in SUBSET Grants, T = S, T # {} PROVE Abstract!Next
  <2>1. /\ \A g \in T : HasRow(g) /\ \E r \in Reqs : InFlight(r, g)
        /\ \A g \in T, r \in Reqs : ~InFlight(r, g)'
        /\ \A g \in Grants \ T, r \in Reqs : InFlight(r, g)' <=> InFlight(r, g)
    BY <1>1, <1>2, <1>4
  <2> QED BY <1>1, <1>4, <2>1, BatonsDropped
<1>5. S \in SUBSET Grants
  OBVIOUS
<1> HIDE DEF S
<1> QED BY <1>3, <1>4, <1>5

LEMMA BatonEnvironment ==
  ASSUME AllInv, AllInv',
         (\E g \in Grants : RevokeGrant(g) \/ RewriteGrant(g)) \/ Tick \/ UNCHANGED vars
  PROVE  UNCHANGED Abstract!vars
<1>1. UNCHANGED <<codes, refresh, pc, loc>>
  BY DEF RevokeGrant, RewriteGrant, Tick, vars
<1>2. \A q \in Reqs, g \in Grants : InFlight(q, g)' <=> InFlight(q, g)
  BY <1>1 DEF InFlight
<1> QED BY <1>1, <1>2, BatonQuiet DEF AllInv, LinearInv

LEMMA BatonStep ==
  ASSUME AllInv, AllInv', "mark" \notin Faults, [Next]_vars
  PROVE  [Abstract!Next]_(Abstract!vars)
<1>1. CASE UNCHANGED vars
  BY <1>1, BatonEnvironment
<1>2. CASE Next
  BY <1>2, BatonElsewhere, BatonMarkCode, BatonMarkRefresh, BatonCheckAndRead,
     BatonPutRefresh, BatonPutAuthCode, BatonRestart, BatonEnvironment
  DEF Next, Consume, Proceed
<1> QED BY <1>1, <1>2

LEMMA BatonInit == Init => Abstract!Init
<1> SUFFICES ASSUME Init PROVE Abstract!Init
  OBVIOUS
<1>1. HoldersRight
  BY LinearInit, HolderCases DEF LinearInv
<1>2. \A g \in Grants : ~Held(g) /\ ~HasRow(g)
  BY DEF Init, Held, HasRow, InCode, InToken, InFlight
<1>3. \A g \in Grants : Holder(g) = <<"unissued", None>>
  BY <1>1, <1>2 DEF HoldersRight
<1>4. DOMAIN codes \cup DOMAIN refresh = {}
  BY DEF Init
<1> QED BY <1>3, <1>4 DEF Abstract!Init, Abstract!Unissued

\* As long as the UPDATEs of the consumes succeed, the endpoint implements the
\* baton of GrantCredential: every step of a handler, of the store or of a
\* restart hands the right to the next token over as that specification says.
THEOREM EndpointImplementsBaton ==
  ASSUME "mark" \notin Faults
  PROVE  Spec => RefinesGrantCredential
<1>1. AllInv /\ AllInv' /\ [Next]_vars => [Abstract!Next]_(Abstract!vars)
  BY BatonStep
<1> QED BY <1>1, BatonInit, AllInvariant, PTL
        DEF Spec, RefinesGrantCredential, Abstract!Spec
=============================================================================
