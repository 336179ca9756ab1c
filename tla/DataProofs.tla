----------------------------- MODULE DataProofs -----------------------------
(***************************************************************************)
(* Proofs about the modules around the inventory: of Accounts, that an     *)
(* account keeps its promises under concurrent requests; of Admission,     *)
(* that the window and the throttle let in what they may; of               *)
(* ChangeDetection, that no change of an asset is swallowed or made up; of *)
(* AssetGraph, that every answer of a search is the best one; and of their *)
(* run together with the rebuilds.                                         *)
(***************************************************************************)
EXTENDS MCData, RebuildProofs

-----------------------------------------------------------------------------
(***************************************************************************)
(* Accounts: the inductive invariant.                                      *)
(***************************************************************************)
Users == [exists : BOOLEAN, verified : BOOLEAN, attempts : Nat, locked : BOOLEAN,
          mfa : BOOLEAN, secret : Makers \union {NoOne}]
Links == [use : {"reset", "verify"}, state : {"none", "valid", "used", "gone", "expired"}]
Places == {"new", "create", "delete", "count", "lock", "clear", "load", "revoke", "apply",
           "link", "mark", "done"}
NoToken == <<NoOne, "access">>
Tokens == Makers \X Kinds
Reqs == [pc : Places, saw : Users, token : Tokens \union {NoToken},
         link : Makers \union {NoOne}, late : BOOLEAN]

\* Wrong passwords that were counted.
Struck == {r \in Requests : call[r] = "wrong password" /\ req[r].pc \in {"lock", "done"}}

RecordsAre ==
    /\ mail \in BOOLEAN /\ call \in [Requests -> Calls] /\ lapses \in 0..MaxLapses
    /\ user \in Users /\ links \in [Makers -> Links] /\ req \in [Requests -> Reqs]
    /\ revoked \subseteq tokens /\ tokens \subseteq Tokens
    /\ broken \subseteq Requests /\ stale \subseteq Requests
    /\ effects \in [Makers -> SUBSET Requests]

\* The sum in the row counts the wrong passwords since the last fresh start.
CountsAre ==
    /\ strikes = user.attempts
    /\ user.attempts <= MaxAttempts + Cardinality(Struck)
    /\ WrongPasswordsLock

\* What a request that is at a place can be for.
CallIs(r) ==
    /\ ReqAt(r, "create") => call[r] = "register"
    /\ ReqAt(r, "delete") => call[r] \in {"forgot", "resend"}
    /\ ReqAt(r, "link") => call[r] \in {"register", "forgot", "resend"}
    /\ ReqAt(r, "count") \/ ReqAt(r, "lock") => call[r] = "wrong password"
    /\ ReqAt(r, "clear") => call[r] = "right password"
    /\ ReqAt(r, "mark") => call[r] \in {"reset", "verify"}
    /\ ReqAt(r, "load") => call[r] \in Inside
    /\ ReqAt(r, "revoke") => call[r] \in {"logout", "change", "code"}
    /\ ReqAt(r, "apply") => call[r] \in {"register", "reset", "verify", "change", "enable",
                                         "code", "disable"}
CallsAre == \A r \in Requests : CallIs(r)

\* A request has a link from the time it found one; a link keeps its use, and
\* a request that has not stored its own has none.
LinkIs(r) ==
    /\ ReqAt(r, "mark") => req[r].link # NoOne
    /\ req[r].link # NoOne =>
          /\ req[r].pc \in {"mark", "apply", "done"} /\ call[r] \in {"reset", "verify"}
          /\ links[req[r].link].use = LinkUse(call[r])
          /\ links[req[r].link].state # "none"
    /\ req[r].pc \in {"new", "create", "delete", "link"} => links[r].state = "none"
LinksAre ==
    /\ \A r \in Requests : LinkIs(r)
    /\ \A l \in Makers : \A q \in effects[l] : req[q].link = l /\ ReqAt(q, "done")

\* Requests that marked a link they had found valid: one, and then it is used.
Spent(l) == {r \in Requests \ stale : req[r].link = l /\ (ReqAt(r, "apply") \/ r \in effects[l])}
SpentOf(l) ==
    /\ \A q, r \in Spent(l) : q = r
    /\ Spent(l) # {} => links[l].state = "used"
    /\ links[l].state = "used" /\ effects[l] = {} =>
          \E r \in Requests : req[r].link = l /\ (ReqAt(r, "apply") \/ r \in broken)
    /\ \A k \in Makers : links[k].use = links[l].use
             /\ links[k].state = "valid" /\ links[l].state = "valid" /\ k # l =>
          k \in stale \union broken \/ l \in stale \union broken
SpentOnce == \A l \in Makers : SpentOf(l)

\* The link that was to verify the address is under way, valid, or expired.
WayIn ==
    user.exists /\ ~user.verified =>
       \/ \E l \in Makers : links[l].use = "verify" /\ links[l].state \in {"valid", "expired"}
       \/ \E r \in Requests : call[r] \in {"register", "resend", "verify"}
                              /\ req[r].pc \in {"link", "mark", "apply"}
       \/ broken # {}

\* Who has a token has verified the address; a code was checked against a secret.
SessionIs(r) ==
    /\ ReqAt(r, "new") => req[r].token = NoToken
    /\ ReqAt(r, "clear") => user.verified /\ user.exists
    /\ ReqAt(r, "load") \/ ReqAt(r, "revoke") => req[r].token \in tokens
    /\ ReqAt(r, "apply") /\ call[r] \in Inside => req[r].token \in tokens
    /\ ReqAt(r, "apply") /\ call[r] = "code" => req[r].saw.secret # NoOne
    /\ call[r] \in {"logout", "change"} /\ ReqAt(r, "done") /\ r \notin broken =>
          req[r].token = NoToken \/ req[r].token \in revoked
SessionsAre ==
    /\ tokens # {} => user.verified /\ user.exists
    /\ \A r \in Requests : SessionIs(r)

AInv == /\ RecordsAre /\ CountsAre /\ CallsAre /\ LinksAre /\ SpentOnce /\ WayIn /\ SessionsAre
        /\ SecondFactorIsWhole /\ OutIsOut

-----------------------------------------------------------------------------
(***************************************************************************)
(* What a request's step does to the requests.                             *)
(***************************************************************************)
\* The others stand; r goes to p and keeps what it has but for what is named.
GoesTo(r, p, saw, token, link, late) ==
    /\ \A q \in Requests : q # r => req'[q] = req[q]
    /\ req'[r].pc = p /\ req'[r].saw = saw /\ req'[r].token = token
    /\ req'[r].link = link /\ req'[r].late = late
Moves(r, p) == GoesTo(r, p, req[r].saw, req[r].token, req[r].link, req[r].late)

LEMMA GoMoves ==
    ASSUME RecordsAre, NEW r \in Requests, NEW p \in Places, Go(r, p)
    PROVE  Moves(r, p) /\ req' \in [Requests -> Reqs]
<1>1. req \in [Requests -> Reqs] /\ req[r] \in Reqs BY DEF RecordsAre
<1>2. req' = [req EXCEPT ![r].pc = p] BY DEF Go
<1>3. Moves(r, p) BY <1>1, <1>2 DEF Moves, GoesTo, Reqs
<1>4. req' \in [Requests -> Reqs] BY <1>1, <1>2 DEF Reqs
<1> QED BY <1>3, <1>4

LEMMA ReadUserMoves ==
    ASSUME RecordsAre, NEW r \in Requests, ReadUser(r)
    PROVE  /\ req' \in [Requests -> Reqs]
           /\ \E p \in Places :
                 /\ GoesTo(r, p, user, req[r].token, req[r].link, req[r].late)
                 /\ p \in {"create", "delete", "clear", "count", "done"}
                 /\ p = "create" => call[r] = "register"
                 /\ p = "delete" => call[r] \in {"forgot", "resend"}
                 /\ p = "delete" /\ call[r] = "resend" => user.exists /\ ~user.verified
                 /\ p = "count" => call[r] = "wrong password"
                 /\ p = "clear" => call[r] = "right password" /\ user.exists /\ user.verified
<1>1. req \in [Requests -> Reqs] /\ req[r] \in Reqs /\ user \in Users BY DEF RecordsAre
<1> DEFINE p == CASE call[r] = "register" -> IF user.exists THEN "done" ELSE "create"
                  [] call[r] = "forgot"   -> IF user.exists THEN "delete" ELSE "done"
                  [] call[r] = "resend"   -> IF user.exists /\ ~user.verified THEN "delete" ELSE "done"
                  [] OTHER -> IF ~user.exists \/ ~user.verified \/ user.locked THEN "done"
                              ELSE IF call[r] = "right password" THEN "clear" ELSE "count"
<1>2. call[r] \in {"register", "right password", "wrong password", "forgot", "resend"}
   BY DEF ReadUser
<1>3. req' = [req EXCEPT ![r].saw = user, ![r].pc = p] BY DEF ReadUser
<1>4. /\ p \in {"create", "delete", "clear", "count", "done"}
      /\ p = "create" => call[r] = "register"
      /\ p = "delete" => call[r] \in {"forgot", "resend"}
      /\ p = "delete" /\ call[r] = "resend" => user.exists /\ ~user.verified
      /\ p = "count" => call[r] = "wrong password"
      /\ p = "clear" => call[r] = "right password" /\ user.exists /\ user.verified
   BY <1>2
<1>5. p \in Places BY <1>4 DEF Places
<1> HIDE DEF p
<1>6. GoesTo(r, p, user, req[r].token, req[r].link, req[r].late) BY <1>1, <1>3 DEF GoesTo, Reqs
<1>7. req' \in [Requests -> Reqs] BY <1>1, <1>3, <1>5 DEF Reqs
<1> QED BY <1>4, <1>5, <1>6, <1>7

LEMMA CheckTokenMoves ==
    ASSUME RecordsAre, NEW r \in Requests, CheckToken(r)
    PROVE  /\ req' \in [Requests -> Reqs]
           /\ \/ Moves(r, "done") /\ Works
              \/ \E t \in tokens :
                    /\ GoesTo(r, "load", req[r].saw, t, req[r].link, t \in Ended)
                    /\ (t \notin revoked /\ Works) \/ (t \in revoked /\ Fails(r))
<1>1. req \in [Requests -> Reqs] /\ req[r] \in Reqs /\ tokens \subseteq Tokens BY DEF RecordsAre
<1>2. PICK t \in tokens :
         \/ t \in revoked /\ Reply(r) /\ Works
         \/ /\ (t \notin revoked /\ Works) \/ (t \in revoked /\ Fails(r))
            /\ req' = [req EXCEPT ![r].pc = "load", ![r].token = t, ![r].late = t \in Ended]
   BY DEF CheckToken
<1>3. CASE Reply(r) /\ Works BY <1>3, GoMoves DEF Reply, Places
<1>4. CASE /\ (t \notin revoked /\ Works) \/ (t \in revoked /\ Fails(r))
           /\ req' = [req EXCEPT ![r].pc = "load", ![r].token = t, ![r].late = t \in Ended]
   <2>1. GoesTo(r, "load", req[r].saw, t, req[r].link, t \in Ended) BY <1>1, <1>4 DEF GoesTo, Reqs
   <2>2. (t \in Ended) \in BOOLEAN OBVIOUS
   <2>3. t \in Tokens /\ "load" \in Places BY <1>1 DEF Places
   <2>4. req' \in [Requests -> Reqs] BY <1>1, <1>4, <2>2, <2>3 DEF Reqs
   <2> QED BY <1>4, <2>1, <2>4
<1> QED BY <1>2, <1>3, <1>4

LEMMA LoadUserMoves ==
    ASSUME RecordsAre, NEW r \in Requests, call[r] \in Inside, LoadUser(r)
    PROVE  /\ req' \in [Requests -> Reqs]
           /\ \E p \in {"revoke", "apply", "done"} :
                 /\ GoesTo(r, p, user, req[r].token, req[r].link, req[r].late)
                 /\ p = "done" => ~user.verified \/ call[r] = "code"
                 /\ p = "revoke" => call[r] \in {"logout", "code"}
                 /\ p = "apply" => call[r] # "logout"
                 /\ p = "apply" /\ call[r] = "code" => user.secret # NoOne
                 /\ p = "done" => tokens' = tokens
                 /\ tokens' = tokens \/ tokens' = tokens \union {<<r, "access">>, <<r, "refresh">>}
<1>1. req \in [Requests -> Reqs] /\ req[r] \in Reqs /\ user \in Users BY DEF RecordsAre
<1> DEFINE p == CASE ~user.verified -> "done"
                  [] call[r] = "logout" -> "revoke"
                  [] call[r] = "code" /\ user.secret = NoOne -> "done"
                  [] call[r] = "code" /\ req[r].token[2] = "pending" -> "revoke"
                  [] OTHER -> "apply"
<1>2. req' = [req EXCEPT ![r].saw = user, ![r].pc = p] BY DEF LoadUser
<1>3. /\ p \in {"revoke", "apply", "done"}
      /\ p = "done" => ~user.verified \/ call[r] = "code"
      /\ p = "revoke" => call[r] \in {"logout", "code"}
      /\ p = "apply" => call[r] # "logout"
      /\ p = "apply" /\ call[r] = "code" => user.secret # NoOne
   OBVIOUS
<1> HIDE DEF p
<1>4. GoesTo(r, p, user, req[r].token, req[r].link, req[r].late) BY <1>1, <1>2 DEF GoesTo, Reqs
<1>5. p \in Places BY <1>3 DEF Places
<1>6. req' \in [Requests -> Reqs] BY <1>1, <1>2, <1>5 DEF Reqs
<1>7. req'[r].pc = p BY <1>4 DEF GoesTo
<1>8. /\ p = "done" => tokens' = tokens
      /\ tokens' = tokens \/ tokens' = tokens \union {<<r, "access">>, <<r, "refresh">>}
   BY <1>7 DEF LoadUser
<1> QED BY <1>3, <1>4, <1>6, <1>8

LEMMA FindLinkMoves ==
    ASSUME RecordsAre, NEW r \in Requests, FindLink(r)
    PROVE  /\ req' \in [Requests -> Reqs]
           /\ \E l \in ValidLinks(LinkUse(call[r])) :
                 GoesTo(r, "mark", req[r].saw, req[r].token, l, req[r].late)
<1>1. req \in [Requests -> Reqs] /\ req[r] \in Reqs BY DEF RecordsAre
<1>2. PICK l \in ValidLinks(LinkUse(call[r])) :
         req' = [req EXCEPT ![r].pc = "mark", ![r].link = l] BY DEF FindLink
<1>3. l \in Makers /\ "mark" \in Places BY DEF ValidLinks, Places
<1>4. GoesTo(r, "mark", req[r].saw, req[r].token, l, req[r].late) BY <1>1, <1>2 DEF GoesTo, Reqs
<1>5. req' \in [Requests -> Reqs] BY <1>1, <1>2, <1>3 DEF Reqs
<1> QED BY <1>4, <1>5

\* A statement that fails is counted and its request remembered.
LEMMA Faults ==
    ASSUME AccountsAssumption, RecordsAre, NEW r \in Requests, Works \/ Fails(r)
    PROVE  /\ lapses' \in 0..MaxLapses /\ broken' \subseteq Requests
           /\ broken \subseteq broken' /\ broken' \subseteq broken \union {r}
<1>1. CASE Works BY <1>1 DEF Works, RecordsAre
<1>2. CASE Fails(r)
   <2>1. lapses' \in 0..MaxLapses BY <1>2 DEF Fails, RecordsAre, AccountsAssumption
   <2> QED BY <1>2, <2>1 DEF Fails, RecordsAre
<1> QED BY <1>1, <1>2

\* What all but a few steps leave typed: the row, the links, the sessions.
RestTyped ==
    /\ user' \in Users /\ links' \in [Makers -> Links] /\ tokens' \subseteq Tokens
    /\ revoked' \subseteq tokens' /\ stale' \subseteq Requests
    /\ effects' \in [Makers -> SUBSET Requests]

LEMMA RecordsStay ==
    ASSUME AccountsAssumption, RecordsAre, CallsAre, SessionsAre, NEW r \in Requests, RequestStep(r)
    PROVE  RecordsAre'
<1> USE DEF RecordsAre
<1>a. /\ r \in Makers /\ NoOne \notin Makers /\ {<<r, "access">>, <<r, "refresh">>, <<r, "pending">>} \subseteq Tokens
   BY DEF Makers, Tokens, Kinds, AccountsAssumption
<1>n. NoUser \in Users BY DEF NoUser, Users
<1>u. \A b \in BOOLEAN : [user EXCEPT !.attempts = 0, !.locked = b] \in Users BY DEF Users
<1> SUFFICES /\ Works \/ Fails(r)
             /\ mail' = mail /\ call' = call /\ req' \in [Requests -> Reqs] /\ RestTyped
   BY Faults DEF RestTyped
<1>1. CASE ReadUser(r)
   <2>1. req' \in [Requests -> Reqs] BY <1>1, ReadUserMoves
   <2> QED BY <1>1, <2>1 DEF ReadUser, RestTyped, Works
<1>2. CASE CheckToken(r)
   <2>1. req' \in [Requests -> Reqs] /\ (Works \/ Fails(r)) BY <1>2, CheckTokenMoves
   <2> QED BY <1>2, <2>1 DEF CheckToken, RestTyped
<1>3. CASE LoadUser(r)
   <2>0. call[r] \in Inside BY <1>3 DEF CallsAre, CallIs, LoadUser
   <2>1. /\ req' \in [Requests -> Reqs]
         /\ tokens' = tokens \/ tokens' = tokens \union {<<r, "access">>, <<r, "refresh">>}
      BY <1>3, <2>0, LoadUserMoves
   <2> QED BY <1>3, <2>1, <1>a DEF LoadUser, RestTyped, Works
<1>4. CASE Refresh(r)
   <2>1. req' \in [Requests -> Reqs] BY <1>4, GoMoves DEF Refresh, Reply, Places
   <2>2. /\ revoked' \subseteq tokens' /\ tokens' \subseteq Tokens /\ (Works \/ Fails(r))
      BY <1>4, <1>a DEF Refresh
   <2> QED BY <1>4, <2>1, <2>2 DEF Refresh, RestTyped
<1>5. CASE FindLink(r)
   <2>1. req' \in [Requests -> Reqs] BY <1>5, FindLinkMoves
   <2> QED BY <1>5, <2>1 DEF FindLink, RestTyped, Works
<1>6. CASE CountWrong(r)
   <2>1. req' \in [Requests -> Reqs] BY <1>6, GoMoves DEF CountWrong, Reply, Places
   <2>2. user' \in Users /\ (Works \/ Fails(r)) BY <1>6 DEF CountWrong, Users
   <2> QED BY <1>6, <2>1, <2>2 DEF CountWrong, RestTyped
<1>7. CASE Lock(r)
   <2>1. req' \in [Requests -> Reqs] BY <1>7, GoMoves DEF Lock, Reply, Places
   <2>2. user' \in Users /\ (Works \/ Fails(r)) BY <1>7, <1>u DEF Lock
   <2> QED BY <1>7, <2>1, <2>2 DEF Lock, RestTyped
<1>8. CASE Clear(r)
   <2>1. req' \in [Requests -> Reqs] BY <1>8, GoMoves DEF Clear, Reply, Places
   <2>2. user' \in Users /\ (Works \/ Fails(r)) BY <1>8, <1>u DEF Clear
   <2>3. tokens' \subseteq Tokens /\ tokens \subseteq tokens' BY <1>8, <1>a DEF Clear
   <2> QED BY <1>8, <2>1, <2>2, <2>3 DEF Clear, RestTyped
<1>9. CASE Revoke(r)
   <2>1. req' \in [Requests -> Reqs] BY <1>9, GoMoves DEF Revoke, Reply, Places
   <2>2. req[r].token \in tokens BY <1>9 DEF Revoke, SessionsAre, SessionIs
   <2>3. revoked' \subseteq tokens /\ (Works \/ Fails(r)) BY <1>9, <2>2 DEF Revoke
   <2> QED BY <1>9, <2>1, <2>3 DEF Revoke, RestTyped
<1>10. CASE CreateAccount(r)
   <2>1. req' \in [Requests -> Reqs] BY <1>10, GoMoves DEF CreateAccount, Reply, Places
   <2>2. user' \in Users /\ (Works \/ Fails(r)) BY <1>10, <1>n DEF CreateAccount, Users
   <2> QED BY <1>10, <2>1, <2>2 DEF CreateAccount, RestTyped
<1>11. CASE DeleteLinks(r)
   <2>1. req' \in [Requests -> Reqs] BY <1>11, GoMoves DEF DeleteLinks, Places
   <2>2. links' \in [Makers -> Links] /\ (Works \/ Fails(r)) BY <1>11 DEF DeleteLinks, Links
   <2> QED BY <1>11, <2>1, <2>2 DEF DeleteLinks, RestTyped
<1>12. CASE CreateLink(r)
   <2>1. req' \in [Requests -> Reqs] BY <1>12, GoMoves DEF CreateLink, Reply, Places
   <2>2. LinkUse(call[r]) \in {"reset", "verify"} BY DEF LinkUse
   <2>3. links' \in [Makers -> Links] BY <1>12, <2>2 DEF CreateLink, Links
   <2>4. stale' \subseteq Requests /\ (Works \/ Fails(r)) BY <1>12 DEF CreateLink, Outdated
   <2> QED BY <1>12, <2>1, <2>3, <2>4 DEF CreateLink, RestTyped
<1>13. CASE MarkUsed(r)
   <2>1. req' \in [Requests -> Reqs] BY <1>13, GoMoves DEF MarkUsed, Reply, Places
   <2>3. links' \in [Makers -> Links] BY <1>13 DEF MarkUsed, Links
   <2>4. stale' \subseteq Requests /\ (Works \/ Fails(r)) BY <1>13 DEF MarkUsed, Outdated
   <2> QED BY <1>13, <2>1, <2>3, <2>4 DEF MarkUsed, RestTyped
<1>14. CASE Apply(r)
   <2>1. req' \in [Requests -> Reqs] BY <1>14, GoMoves DEF Apply, Reply, Places
   <2>2. call[r] \in {"register", "reset", "verify", "change", "enable", "code", "disable"}
      BY <1>14 DEF CallsAre, CallIs, Apply
   <2>3. Updated(r) \in Users BY <1>a, <2>2 DEF Updated, Users
   <2>4. effects' \in [Makers -> SUBSET Requests] BY <1>14 DEF Apply
   <2>5. stale' \subseteq Requests /\ (Works \/ Fails(r)) /\ user' \in Users
      BY <1>14, <2>3 DEF Apply, Outdated
   <2> QED BY <1>14, <2>1, <2>4, <2>5 DEF Apply, RestTyped
<1> QED
   BY <1>1, <1>2, <1>3, <1>4, <1>5, <1>6, <1>7, <1>8, <1>9, <1>10, <1>11, <1>12, <1>13, <1>14
   DEF RequestStep

\* What a step leaves alone: the requests that do not take it.
LEMMA OthersStand ==
    ASSUME RecordsAre, CallsAre, NEW r \in Requests, RequestStep(r)
    PROVE  \A q \in Requests : q # r => req'[q] = req[q]
<1> USE DEF Moves, GoesTo
<1>0. \A p \in Places : Go(r, p) => Moves(r, p) BY GoMoves
<1>1. CASE ReadUser(r) BY <1>1, ReadUserMoves
<1>2. CASE CheckToken(r) BY <1>2, CheckTokenMoves
<1>3. CASE LoadUser(r)
   <2>1. call[r] \in Inside BY <1>3 DEF CallsAre, CallIs, LoadUser
   <2> QED BY <1>3, <2>1, LoadUserMoves
<1>4. CASE FindLink(r) BY <1>4, FindLinkMoves
<1>5. CASE Refresh(r) \/ CountWrong(r) \/ Lock(r) \/ Clear(r) \/ Revoke(r)
           \/ CreateAccount(r) \/ DeleteLinks(r) \/ CreateLink(r) \/ MarkUsed(r) \/ Apply(r)
   <2>1. \E p \in Places : Go(r, p)
      BY <1>5 DEF Refresh, CountWrong, Lock, Clear, Revoke, CreateAccount, DeleteLinks, CreateLink,
         MarkUsed, Apply, Reply, Places
   <2> QED BY <1>0, <2>1
<1> QED BY <1>1, <1>2, <1>3, <1>4, <1>5 DEF RequestStep

LEMMA CallsStay ==
    ASSUME RecordsAre, CallsAre, NEW r \in Requests, RequestStep(r)
    PROVE  CallsAre' /\ call' = call
<1>c. call' = call
   BY DEF RequestStep, ReadUser, CheckToken, LoadUser, Refresh, FindLink, CountWrong, Lock, Clear,
          Revoke, CreateAccount, DeleteLinks, CreateLink, MarkUsed, Apply
<1>r. CallIs(r) BY DEF CallsAre
<1>0. \A p \in Places : Go(r, p) => req'[r].pc = p BY GoMoves DEF Moves, GoesTo
<1>o. \A q \in Requests \ {r} : req'[q] = req[q] BY OthersStand
<1>q. \A q \in Requests \ {r} : CallIs(q)' BY <1>c, <1>o DEF CallsAre, CallIs, ReqAt
<1> SUFFICES CallIs(r)' BY <1>c, <1>q DEF CallsAre
<1>d. req'[r].pc = "done" => CallIs(r)' BY DEF CallIs, ReqAt
<1>e. Reply(r) => CallIs(r)' BY <1>0, <1>d DEF Reply, Places
<1>1. CASE ReadUser(r) BY <1>1, <1>c, ReadUserMoves DEF CallIs, ReqAt, GoesTo
<1>2. CASE CheckToken(r)
   <2>1. call[r] \in Inside BY <1>2 DEF CheckToken
   <2>2. req'[r].pc \in {"load", "done"} BY <1>2, CheckTokenMoves DEF Moves, GoesTo
   <2> QED BY <2>1, <2>2, <1>c DEF CallIs, ReqAt
<1>3. CASE LoadUser(r)
   <2>1. call[r] \in Inside BY <1>3, <1>r DEF CallIs, LoadUser
   <2>2. /\ req'[r].pc \in {"revoke", "apply", "done"}
         /\ req'[r].pc = "revoke" => call[r] \in {"logout", "code"}
         /\ req'[r].pc = "apply" => call[r] # "logout"
      BY <1>3, <2>1, LoadUserMoves DEF GoesTo
   <2> QED BY <2>1, <2>2, <1>c DEF CallIs, ReqAt, Inside
<1>4. CASE FindLink(r)
   <2>1. req'[r].pc = "mark" BY <1>4, FindLinkMoves DEF GoesTo
   <2> QED BY <1>4, <2>1, <1>c DEF CallIs, ReqAt, FindLink
<1>5. CASE Refresh(r) \/ Lock(r) \/ Clear(r) \/ Revoke(r) \/ CreateLink(r)
   BY <1>5, <1>e DEF Refresh, Lock, Clear, Revoke, CreateLink
<1>6. CASE CountWrong(r)
   <2>1. Go(r, "lock") \/ Go(r, "done") BY <1>6 DEF CountWrong, Reply
   <2>2. req'[r].pc \in {"lock", "done"} BY <1>0, <2>1 DEF Places
   <2> QED BY <1>6, <1>r, <1>c, <2>2 DEF CallIs, ReqAt, CountWrong
<1>7. CASE CreateAccount(r)
   <2>1. Go(r, "link") \/ Go(r, "apply") \/ Go(r, "done") BY <1>7 DEF CreateAccount, Reply
   <2>2. req'[r].pc \in {"link", "apply", "done"} BY <1>0, <2>1 DEF Places
   <2> QED BY <1>7, <1>r, <1>c, <2>2 DEF CallIs, ReqAt, CreateAccount
<1>8. CASE DeleteLinks(r)
   <2>1. req'[r].pc = "link" BY <1>8, <1>0 DEF DeleteLinks, Places
   <2> QED BY <1>8, <1>r, <1>c, <2>1 DEF CallIs, ReqAt, DeleteLinks
<1>9. CASE MarkUsed(r)
   <2>1. Go(r, "apply") \/ Go(r, "done") BY <1>9 DEF MarkUsed, Reply
   <2>2. req'[r].pc \in {"apply", "done"} BY <1>0, <2>1 DEF Places
   <2> QED BY <1>9, <1>r, <1>c, <2>2 DEF CallIs, ReqAt, MarkUsed
<1>10. CASE Apply(r)
   <2>1. Go(r, "done") \/ (call[r] = "change" /\ Go(r, "revoke")) BY <1>10 DEF Apply, Reply
   <2>2. req'[r].pc = "done" \/ (call[r] = "change" /\ req'[r].pc = "revoke") BY <1>0, <2>1 DEF Places
   <2> QED BY <1>10, <1>r, <1>c, <2>2 DEF CallIs, ReqAt, Apply
<1> QED
   BY <1>1, <1>2, <1>3, <1>4, <1>5, <1>6, <1>7, <1>8, <1>9, <1>10 DEF RequestStep

-----------------------------------------------------------------------------
(***************************************************************************)
(* Wrong passwords.                                                        *)
(***************************************************************************)
\* What was counted stays counted.
LEMMA StruckGrows ==
    ASSUME AccountsAssumption, RecordsAre, CallsAre, NEW r \in Requests, RequestStep(r)
    PROVE  /\ Struck \subseteq Struck' /\ IsFiniteSet(Struck')
           /\ Cardinality(Struck) \in Nat /\ Cardinality(Struck') \in Nat
           /\ Cardinality(Struck) <= Cardinality(Struck')
<1>0. \A p \in Places : Go(r, p) => req'[r].pc = p BY GoMoves DEF Moves, GoesTo
<1>1. req[r].pc # "done"
   BY DEF RequestStep, ReadUser, CheckToken, LoadUser, Refresh, FindLink, CountWrong, Lock, Clear,
          Revoke, CreateAccount, DeleteLinks, CreateLink, MarkUsed, Apply, ReqAt
<1>2. req[r].pc = "lock" => Reply(r)
   BY DEF RequestStep, ReadUser, CheckToken, LoadUser, Refresh, FindLink, CountWrong, Lock, Clear,
          Revoke, CreateAccount, DeleteLinks, CreateLink, MarkUsed, Apply, ReqAt
<1>3. Struck \subseteq Struck' BY <1>0, <1>1, <1>2, OthersStand, CallsStay DEF Struck, Reply, Places
<1>4. IsFiniteSet(Requests) /\ Struck \in SUBSET Requests /\ Struck' \in SUBSET Requests
   BY DEF AccountsAssumption, Struck
<1>5. IsFiniteSet(Struck) /\ IsFiniteSet(Struck') BY <1>4, FS_Subset
<1>6. Cardinality(Struck) <= Cardinality(Struck') BY <1>3, <1>5, FS_Subset
<1> QED BY <1>3, <1>5, <1>6, FS_CardinalityType

LEMMA CountsStay ==
    ASSUME AccountsAssumption, RecordsAre, CallsAre, CountsAre, NEW r \in Requests, RequestStep(r)
    PROVE  CountsAre'
<1>0. \A p \in Places : Go(r, p) => req'[r].pc = p BY GoMoves DEF Moves, GoesTo
<1>1. user \in Users /\ user.attempts \in Nat BY DEF RecordsAre, Users
<1>2. MaxAttempts \in Nat /\ MaxAttempts > 1 BY DEF AccountsAssumption
<1>3. /\ strikes = user.attempts /\ user.attempts <= MaxAttempts + Cardinality(Struck)
      /\ strikes >= MaxAttempts => (\E q \in Requests : ReqAt(q, "lock")) \/ broken # {}
   BY DEF CountsAre, WrongPasswordsLock
<1>4. /\ Cardinality(Struck) \in Nat /\ Cardinality(Struck') \in Nat
      /\ Cardinality(Struck) <= Cardinality(Struck')
   BY StruckGrows
<1>5. Works \/ Fails(r) => broken \subseteq broken' BY DEF Works, Fails
<1>6. Fails(r) => broken' # {} BY DEF Fails
<1>7. ASSUME strikes' = strikes, user'.attempts = user.attempts, Works \/ Fails(r),
             ~ReqAt(r, "lock") \/ Fails(r)
      PROVE  CountsAre'
   <2>1. user'.attempts <= MaxAttempts + Cardinality(Struck') BY <1>1, <1>2, <1>3, <1>4, <1>7
   <2>2. WrongPasswordsLock' BY <1>3, <1>5, <1>6, <1>7, OthersStand DEF WrongPasswordsLock, ReqAt
   <2> QED BY <1>3, <1>7, <2>1, <2>2 DEF CountsAre
<1>8. ASSUME strikes' = 0, user'.attempts = 0 PROVE CountsAre'
   BY <1>2, <1>4, <1>8 DEF CountsAre, WrongPasswordsLock
<1>9. CASE ReadUser(r) \/ LoadUser(r) \/ FindLink(r) \/ CheckToken(r) \/ Refresh(r) \/ Revoke(r)
           \/ DeleteLinks(r) \/ CreateLink(r) \/ MarkUsed(r)
   BY <1>9, <1>7 DEF ReadUser, LoadUser, FindLink, CheckToken, Refresh, Revoke, DeleteLinks, CreateLink,
      MarkUsed, Works, ReqAt
<1>10. CASE CountWrong(r)
   <2>1. CASE Fails(r) /\ Reply(r) /\ UNCHANGED <<user, strikes>> BY <2>1, <1>7
   <2>2. CASE /\ user' = [user EXCEPT !.attempts = @ + 1] /\ strikes' = strikes + 1
              /\ Go(r, IF user'.attempts >= MaxAttempts THEN "lock" ELSE "done") /\ Works
      <3>1. user'.attempts = user.attempts + 1 BY <2>2, <1>1 DEF Users
      <3>2. user'.attempts >= MaxAttempts => req'[r].pc = "lock" BY <2>2, <1>0 DEF Places
      <3>3. req'[r].pc \in {"lock", "done"} BY <2>2, <1>0 DEF Places
      <3>4. r \notin Struck /\ call[r] = "wrong password" BY <1>10 DEF CountWrong, ReqAt, Struck, CallsAre, CallIs
      <3>5. r \in Struck' BY <3>3, <3>4, CallsStay DEF Struck
      <3>6. Struck \union {r} \subseteq Struck' BY <3>5, StruckGrows
      <3>7. IsFiniteSet(Struck) BY FS_Subset DEF AccountsAssumption, Struck
      <3>8. Cardinality(Struck \union {r}) = Cardinality(Struck) + 1 BY <3>4, <3>7, FS_AddElement
      <3>9. Cardinality(Struck \union {r}) <= Cardinality(Struck') BY <3>6, StruckGrows, FS_Subset
      <3>10. user'.attempts <= MaxAttempts + Cardinality(Struck')
         BY <3>1, <3>8, <3>9, <1>1, <1>2, <1>3, <1>4
      <3>11. strikes' = user'.attempts BY <2>2, <3>1, <1>3
      <3>12. WrongPasswordsLock' BY <3>2, <3>11 DEF WrongPasswordsLock, ReqAt
      <3> QED BY <3>10, <3>11, <3>12 DEF CountsAre
   <2> QED BY <1>10, <2>1, <2>2 DEF CountWrong
<1>11. CASE Lock(r)
   <2>1. CASE Fails(r) /\ UNCHANGED <<user, strikes>> BY <2>1, <1>7
   <2>2. CASE user' = [user EXCEPT !.attempts = 0, !.locked = TRUE] /\ strikes' = 0
      BY <2>2, <1>1, <1>8 DEF Users
   <2> QED BY <1>11, <2>1, <2>2 DEF Lock
<1>12. CASE Clear(r)
   <2>1. CASE Fails(r) /\ UNCHANGED <<user, strikes>> BY <2>1, <1>7
   <2>2. CASE user' = [user EXCEPT !.attempts = 0, !.locked = FALSE] /\ strikes' = 0
      BY <2>2, <1>1, <1>8 DEF Users
   <2> QED BY <1>12, <2>1, <2>2 DEF Clear
<1>13. CASE CreateAccount(r)
   <2>1. CASE (Works \/ Fails(r)) /\ UNCHANGED <<user, strikes>>
      BY <2>1, <1>7, <1>13 DEF CreateAccount, ReqAt
   <2>2. CASE user' = [NoUser EXCEPT !.exists = TRUE] /\ strikes' = 0
      BY <2>2, <1>8 DEF NoUser
   <2> QED BY <1>13, <2>1, <2>2 DEF CreateAccount
<1>14. CASE Apply(r)
   <2>1. CASE Fails(r) /\ UNCHANGED <<user, strikes>> BY <2>1, <1>7
   <2>2. CASE user' = Updated(r) /\ Works /\ strikes' = IF call[r] = "reset" THEN 0 ELSE strikes
      <3>1. call[r] \in {"register", "reset", "verify", "change", "enable", "code", "disable"}
         BY <1>14 DEF CallsAre, CallIs, Apply
      <3>2. call[r] = "reset" => Updated(r).attempts = 0 BY <1>1 DEF Updated, Users
      <3>3. call[r] # "reset" => Updated(r).attempts = user.attempts BY <1>1, <3>1 DEF Updated, Users
      <3>4. ~ReqAt(r, "lock") BY <1>14 DEF Apply, ReqAt
      <3> QED BY <2>2, <3>2, <3>3, <3>4, <1>7, <1>8
   <2> QED BY <1>14, <2>1, <2>2 DEF Apply
<1> QED BY <1>9, <1>10, <1>11, <1>12, <1>13, <1>14 DEF RequestStep

-----------------------------------------------------------------------------
(***************************************************************************)
(* Links.                                                                  *)
(***************************************************************************)
\* A link keeps its use once it is there, and only r may store one for r.
LinksWear(r) ==
    \A l \in Makers :
       /\ links[l].state # "none" => links'[l].use = links[l].use /\ links'[l].state # "none"
       /\ links[l].state = "none" /\ l # r => links'[l] = links[l]

LEMMA LinksWearOut ==
    ASSUME RecordsAre, CallsAre, LinksAre, NEW r \in Requests, RequestStep(r)
    PROVE  LinksWear(r)
<1>1. links \in [Makers -> Links] /\ r \in Makers /\ req[r] \in Reqs BY DEF RecordsAre, Makers
<1>2. CASE UNCHANGED links BY <1>2 DEF LinksWear
<1>3. CASE DeleteLinks(r)
   <2>1. CASE links' = [l \in Makers |-> IF l \in ValidLinks(LinkUse(call[r]))
                                         THEN [links[l] EXCEPT !.state = "gone"] ELSE links[l]]
      BY <2>1, <1>1 DEF LinksWear, ValidLinks, Links
   <2> QED BY <1>2, <1>3, <2>1 DEF DeleteLinks
<1>4. CASE CreateLink(r)
   <2>1. links[r].state = "none" BY <1>4 DEF LinksAre, LinkIs, CreateLink, ReqAt
   <2>2. CASE links' = [links EXCEPT ![r] = [use |-> LinkUse(call[r]), state |-> "valid"]]
      BY <2>1, <2>2, <1>1 DEF LinksWear, Links
   <2> QED BY <1>2, <1>4, <2>2 DEF CreateLink
<1>5. CASE MarkUsed(r)
   <2>1. req[r].link # NoOne /\ links[req[r].link].state # "none"
      BY <1>5 DEF LinksAre, LinkIs, MarkUsed, ReqAt
   <2>2. CASE links' = [links EXCEPT ![req[r].link].state = IF @ = "gone" THEN @ ELSE "used"]
      BY <2>1, <2>2, <1>1 DEF LinksWear, Links
   <2> QED BY <1>2, <1>5, <2>2 DEF MarkUsed
<1> QED
   BY <1>2, <1>3, <1>4, <1>5
   DEF RequestStep, ReadUser, CheckToken, LoadUser, Refresh, FindLink, CountWrong, Lock, Clear,
       Revoke, CreateAccount, Apply

LEMMA LinksStay ==
    ASSUME AccountsAssumption, RecordsAre, CallsAre, LinksAre, NEW r \in Requests, RequestStep(r)
    PROVE  LinksAre'
<1>0. \A p \in Places : Go(r, p) => req'[r].pc = p /\ req'[r].link = req[r].link
   BY GoMoves DEF Moves, GoesTo
<1>1. /\ call' = call /\ \A q \in Requests : q # r => req'[q] = req[q]
   BY CallsStay, OthersStand
<1>2. LinksWear(r) BY LinksWearOut
<1>3. req \in [Requests -> Reqs] /\ \A q \in Requests : q \in Makers /\ req[q].link \in Makers \union {NoOne}
   BY DEF RecordsAre, Reqs, Makers
<1>4. NoOne \notin Makers BY DEF AccountsAssumption
<1>5. LinkIs(r) BY DEF LinksAre
<1>6. ASSUME NEW q \in Requests, q # r PROVE LinkIs(q)'
   <2>1. LinkIs(q) /\ q \in Makers /\ req[q].link \in Makers \union {NoOne} BY <1>3 DEF LinksAre
   <2>2. req'[q] = req[q] /\ call'[q] = call[q] BY <1>1, <1>6
   <2>3. links[q].state = "none" => links'[q].state = "none" BY <1>2, <1>6, <2>1 DEF LinksWear
   <2>4. links[req[q].link].state # "none" /\ req[q].link # NoOne =>
            links'[req[q].link].use = links[req[q].link].use /\ links'[req[q].link].state # "none"
      BY <1>2, <2>1 DEF LinksWear
   <2> QED BY <2>1, <2>2, <2>3, <2>4 DEF LinkIs, ReqAt
<1>7. LinkIs(r)'
   \* Only a link that was found is new to r, and only r stores its own.
   <2>1. req[r].link \in Makers \union {NoOne} BY <1>3
   <2>2. req[r].link # NoOne =>
            /\ req[r].pc \in {"mark", "apply", "done"} /\ call[r] \in {"reset", "verify"}
            /\ links'[req[r].link].use = LinkUse(call[r]) /\ links'[req[r].link].state # "none"
      BY <1>2, <1>5, <2>1 DEF LinkIs, LinksWear
   <2>a. ASSUME req'[r].link = req[r].link, req'[r].pc # "mark",
                req[r].link # NoOne => req'[r].pc \in {"apply", "done"},
                req'[r].pc \in {"new", "create", "delete", "link"} => links'[r].state = "none"
         PROVE  LinkIs(r)'
      BY <1>1, <2>2, <2>a DEF LinkIs, ReqAt
   <2>d. Reply(r) => LinkIs(r)' BY <1>0, <2>a DEF Reply, Places
   <2>3. CASE ReadUser(r)
      <3>1. req'[r].link = req[r].link /\ req'[r].pc \in {"create", "delete", "clear", "count", "done"}
         BY <2>3, ReadUserMoves DEF GoesTo
      <3>2. links' = links /\ req[r].pc = "new" BY <2>3 DEF ReadUser, ReqAt
      <3> QED BY <3>1, <3>2, <1>5, <2>a DEF LinkIs
   <2>4. CASE CheckToken(r)
      <3>1. req'[r].link = req[r].link /\ req'[r].pc \in {"load", "done"}
         BY <2>4, CheckTokenMoves DEF GoesTo, Moves
      <3>2. req[r].pc = "new" BY <2>4 DEF CheckToken, ReqAt
      <3> QED BY <3>1, <3>2, <2>2, <2>a
   <2>5. CASE LoadUser(r)
      <3>0. call[r] \in Inside BY <2>5 DEF CallsAre, CallIs, LoadUser
      <3>1. req'[r].link = req[r].link /\ req'[r].pc \in {"revoke", "apply", "done"}
         BY <2>5, <3>0, LoadUserMoves DEF GoesTo
      <3>2. req[r].pc = "load" BY <2>5 DEF LoadUser, ReqAt
      <3> QED BY <3>1, <3>2, <2>2, <2>a
   <2>6. CASE FindLink(r)
      <3>1. PICK l \in ValidLinks(LinkUse(call[r])) : req'[r].pc = "mark" /\ req'[r].link = l
         BY <2>6, FindLinkMoves DEF GoesTo
      <3>2. l \in Makers /\ links[l] = [use |-> LinkUse(call[r]), state |-> "valid"]
         BY <3>1 DEF ValidLinks
      <3>3. links' = links /\ call[r] \in {"reset", "verify"} BY <2>6 DEF FindLink
      <3> QED BY <3>1, <3>2, <3>3, <1>1, <1>4 DEF LinkIs, ReqAt
   <2>7. CASE Refresh(r) \/ Lock(r) \/ Clear(r) \/ Revoke(r) \/ CreateLink(r)
      BY <2>7, <2>d DEF Refresh, Lock, Clear, Revoke, CreateLink
   <2>8. CASE CountWrong(r)
      <3>1. Go(r, "lock") \/ Go(r, "done") BY <2>8 DEF CountWrong, Reply
      <3>2. req[r].pc = "count" BY <2>8 DEF CountWrong, ReqAt
      <3> QED BY <3>1, <3>2, <1>0, <2>2, <2>a DEF Places
   <2>9. CASE CreateAccount(r)
      <3>1. Go(r, "link") \/ Go(r, "apply") \/ Go(r, "done") BY <2>9 DEF CreateAccount, Reply
      <3>2. links' = links /\ req[r].pc = "create" BY <2>9 DEF CreateAccount, ReqAt
      <3> QED BY <3>1, <3>2, <1>0, <1>5, <2>a DEF Places, LinkIs
   <2>10. CASE DeleteLinks(r)
      <3>1. req'[r].pc = "link" /\ req'[r].link = req[r].link BY <2>10, <1>0 DEF DeleteLinks, Places
      <3>2. req[r].pc = "delete" /\ links[r].state = "none" BY <2>10, <1>5 DEF DeleteLinks, ReqAt, LinkIs
      <3>3. links'[r].state = "none" BY <2>10, <3>2, <1>3 DEF DeleteLinks, ValidLinks
      <3> QED BY <3>1, <3>2, <3>3, <2>2, <2>a
   <2>11. CASE MarkUsed(r)
      <3>1. Go(r, "apply") \/ Go(r, "done") BY <2>11 DEF MarkUsed, Reply
      <3> QED BY <3>1, <1>0, <2>a DEF Places
   <2>12. CASE Apply(r)
      <3>1. Go(r, "done") \/ (call[r] = "change" /\ Go(r, "revoke")) BY <2>12 DEF Apply, Reply
      <3> QED BY <3>1, <1>0, <2>2, <2>a DEF Places
   <2> QED
      BY <2>3, <2>4, <2>5, <2>6, <2>7, <2>8, <2>9, <2>10, <2>11, <2>12 DEF RequestStep
<1>8. ASSUME NEW l \in Makers, NEW q \in effects'[l] PROVE req'[q].link = l /\ ReqAt(q, "done")'
   <2>1. CASE q \in effects[l]
      <3>1. req[q].link = l /\ req[q].pc = "done" /\ q \in Requests BY <2>1 DEF LinksAre, ReqAt, RecordsAre
      <3>2. req[r].pc # "done"
         BY DEF RequestStep, ReadUser, CheckToken, LoadUser, Refresh, FindLink, CountWrong, Lock, Clear,
                Revoke, CreateAccount, DeleteLinks, CreateLink, MarkUsed, Apply, ReqAt
      <3> QED BY <3>1, <3>2, <1>1 DEF ReqAt
   <2>2. CASE q \notin effects[l]
      <3>1. Apply(r) /\ effects' = [k \in Makers |-> IF k = req[r].link THEN effects[k] \union {r} ELSE effects[k]]
         BY <2>2, <1>8 DEF RequestStep, ReadUser, CheckToken, LoadUser, Refresh, FindLink, CountWrong, Lock,
            Clear, Revoke, CreateAccount, DeleteLinks, CreateLink, MarkUsed, Apply
      <3>2. q = r /\ l = req[r].link BY <3>1, <2>2, <1>8
      <3>3. call[r] # "change" BY <3>2, <1>4, <1>5 DEF LinkIs
      <3>4. Go(r, "done") BY <3>1, <3>3 DEF Apply, Reply
      <3> QED BY <3>2, <3>4, <1>0 DEF Places, ReqAt
   <2> QED BY <2>1, <2>2
<1> QED BY <1>6, <1>7, <1>8 DEF LinksAre

\* Who is done takes no step.
LEMMA NotDone ==
    ASSUME NEW r \in Requests, RequestStep(r) PROVE req[r].pc # "done"
BY DEF RequestStep, ReadUser, CheckToken, LoadUser, Refresh, FindLink, CountWrong, Lock, Clear,
       Revoke, CreateAccount, DeleteLinks, CreateLink, MarkUsed, Apply, ReqAt

\* A step that spends no link and stores none.
LEMMA NothingSpent ==
    ASSUME AccountsAssumption, RecordsAre, CallsAre, LinksAre, SpentOnce,
           NEW r \in Requests, RequestStep(r),
           effects' = effects, broken \subseteq broken', stale \subseteq stale',
           \A l \in Makers : /\ links[l].state = "used" <=> links'[l].state = "used"
                             /\ links'[l].state = "valid" => links'[l] = links[l],
           req'[r].pc = "apply" => req'[r].link = NoOne,
           req[r].pc = "apply" => req'[r].link = req[r].link /\ r \in broken'
    PROVE  SpentOnce'
<1>1. \A q \in Requests : q # r => req'[q] = req[q] BY OthersStand
<1>2. NoOne \notin Makers BY DEF AccountsAssumption
<1> SUFFICES ASSUME NEW l \in Makers PROVE SpentOf(l)' BY DEF SpentOnce
<1>3. SpentOf(l) BY DEF SpentOnce
<1>4. Spent(l)' \subseteq Spent(l)
   <2> SUFFICES ASSUME NEW q \in Spent(l)' PROVE q \in Spent(l) OBVIOUS
   <2>1. q \in Requests \ stale' /\ req'[q].link = l /\ (req'[q].pc = "apply" \/ q \in effects[l])
      BY DEF Spent, ReqAt
   <2>2. CASE q # r BY <2>1, <2>2, <1>1 DEF Spent, ReqAt
   <2>3. CASE q = r
      <3>1. r \in effects[l] BY <2>1, <2>3, <1>2
      <3> QED BY <3>1, NotDone DEF LinksAre, ReqAt
   <2> QED BY <2>2, <2>3
<1>5. \A q, s \in Spent(l)' : q = s BY <1>3, <1>4 DEF SpentOf
<1>6. Spent(l)' # {} => links'[l].state = "used" BY <1>3, <1>4 DEF SpentOf
<1>7. ASSUME links'[l].state = "used", effects'[l] = {}
      PROVE  \E q \in Requests : req'[q].link = l /\ (ReqAt(q, "apply")' \/ q \in broken')
   <2>1. PICK q \in Requests : req[q].link = l /\ (ReqAt(q, "apply") \/ q \in broken)
      BY <1>3, <1>7 DEF SpentOf
   <2>2. CASE q # r BY <2>1, <2>2, <1>1 DEF ReqAt
   <2>3. CASE q = r /\ req[r].pc = "apply" BY <2>1, <2>3
   <2>4. CASE q = r /\ req[r].pc # "apply"
      <3>1. req[r].pc = "mark" BY <2>1, <2>4, <1>2, NotDone DEF LinksAre, LinkIs
      <3>2. MarkUsed(r)
         BY <3>1 DEF RequestStep, ReadUser, CheckToken, LoadUser, Refresh, FindLink, CountWrong, Lock,
            Clear, Revoke, CreateAccount, DeleteLinks, CreateLink, Apply, ReqAt
      <3>3. req'[r].link = l
         BY <2>1, <2>4, <3>2, GoMoves DEF MarkUsed, Reply, Places, Moves, GoesTo
      <3>4. r \in broken' BY <2>1, <2>4 DEF ReqAt
      <3> QED BY <3>3, <3>4
   <2> QED BY <2>2, <2>3, <2>4
<1>8. \A k \in Makers : links'[k].use = links'[l].use
         /\ links'[k].state = "valid" /\ links'[l].state = "valid" /\ k # l =>
      k \in stale' \union broken' \/ l \in stale' \union broken'
   BY <1>3 DEF SpentOf
<1> QED BY <1>5, <1>6, <1>7, <1>8 DEF SpentOf

LEMMA SpentStays ==
    ASSUME AccountsAssumption, RecordsAre, CallsAre, LinksAre, SpentOnce,
           NEW r \in Requests, RequestStep(r)
    PROVE  SpentOnce'
<1>0. \A p \in Places : Go(r, p) => req'[r].pc = p /\ req'[r].link = req[r].link
   BY GoMoves DEF Moves, GoesTo
<1>1. \A q \in Requests : q # r => req'[q] = req[q] BY OthersStand
<1>2. NoOne \notin Makers BY DEF AccountsAssumption
<1>3. links \in [Makers -> Links] /\ r \in Makers /\ req[r].link \in Makers \union {NoOne}
   BY DEF RecordsAre, Reqs, Makers
<1>4. Works \/ Fails(r) => broken \subseteq broken' BY DEF Works, Fails
<1>5. Fails(r) => r \in broken' BY DEF Fails
<1>6. LinkIs(r) BY DEF LinksAre
<1>7. CASE ReadUser(r) \/ CheckToken(r) \/ LoadUser(r)
   <2>1. UNCHANGED <<links, effects, stale>> /\ broken \subseteq broken' /\ req[r].pc \in {"new", "load"}
      BY <1>7, <1>4 DEF ReadUser, CheckToken, LoadUser, Works, ReqAt
   <2>2. req[r].link = NoOne BY <2>1, <1>6 DEF LinkIs
   <2>3. req'[r].link = req[r].link
      <3>1. LoadUser(r) => call[r] \in Inside BY DEF CallsAre, CallIs, LoadUser
      <3> QED BY <3>1, <1>7, ReadUserMoves, CheckTokenMoves, LoadUserMoves DEF GoesTo, Moves
   <2> QED BY <2>1, <2>2, <2>3, NothingSpent
<1>8. CASE FindLink(r)
   <2>1. UNCHANGED <<links, effects, stale, broken>> /\ req[r].pc = "new" BY <1>8 DEF FindLink, ReqAt
   <2>2. req'[r].pc = "mark" BY <1>8, FindLinkMoves DEF GoesTo
   <2> QED BY <2>1, <2>2, NothingSpent
<1>9. CASE Refresh(r) \/ CountWrong(r) \/ Lock(r) \/ Clear(r) \/ Revoke(r)
   <2>1. UNCHANGED <<links, effects, stale>> /\ broken \subseteq broken' /\ req[r].pc # "apply"
      BY <1>9, <1>4 DEF Refresh, CountWrong, Lock, Clear, Revoke, ReqAt
   <2>2. Go(r, "lock") \/ Go(r, "done")
      BY <1>9 DEF Refresh, CountWrong, Lock, Clear, Revoke, Reply
   <2>3. req'[r].pc \in {"lock", "done"} BY <2>2, <1>0 DEF Places
   <2> QED BY <2>1, <2>3, NothingSpent
<1>10. CASE CreateAccount(r)
   <2>1. UNCHANGED <<links, effects, stale>> /\ broken \subseteq broken' /\ req[r].pc = "create"
      BY <1>10, <1>4 DEF CreateAccount, ReqAt
   <2>2. Go(r, "link") \/ Go(r, "apply") \/ Go(r, "done") BY <1>10 DEF CreateAccount, Reply
   <2>3. req'[r].link = NoOne BY <2>1, <2>2, <1>0, <1>6 DEF Places, LinkIs
   <2> QED BY <2>1, <2>3, NothingSpent
<1>11. CASE DeleteLinks(r)
   <2>1. UNCHANGED <<effects, stale>> /\ broken \subseteq broken' /\ req[r].pc = "delete"
      BY <1>11, <1>4 DEF DeleteLinks, ReqAt
   <2>2. req'[r].pc = "link" BY <1>11, <1>0 DEF DeleteLinks, Places
   <2>3. \A l \in Makers : /\ links[l].state = "used" <=> links'[l].state = "used"
                           /\ links'[l].state = "valid" => links'[l] = links[l]
      <3>1. CASE UNCHANGED links BY <3>1
      <3>2. CASE links' = [l \in Makers |-> IF l \in ValidLinks(LinkUse(call[r]))
                                            THEN [links[l] EXCEPT !.state = "gone"] ELSE links[l]]
         BY <3>2, <1>3 DEF ValidLinks, Links
      <3> QED BY <3>1, <3>2, <1>11 DEF DeleteLinks
   <2> QED BY <2>1, <2>2, <2>3, NothingSpent
<1>12. CASE CreateLink(r)
   <2>1. /\ effects' = effects /\ broken \subseteq broken' /\ req[r].pc = "link"
         /\ req'[r].pc = "done" /\ req'[r].link = req[r].link
      BY <1>12, <1>4, <1>0 DEF CreateLink, ReqAt, Reply, Places
   <2>2. CASE UNCHANGED <<links, stale>> BY <2>1, <2>2, NothingSpent
   <2>3. CASE /\ links' = [links EXCEPT ![r] = [use |-> LinkUse(call[r]), state |-> "valid"]]
              /\ Outdated(r, ValidLinks(LinkUse(call[r])) # {}) /\ Works
      <3>1. /\ links'[r] = [use |-> LinkUse(call[r]), state |-> "valid"]
            /\ \A l \in Makers : l # r => links'[l] = links[l]
         BY <2>3, <1>3
      <3>2. links[r].state = "none" /\ req[r].link = NoOne BY <2>1, <1>6 DEF LinkIs
      <3>3. stale \subseteq stale' /\ stale' \subseteq stale \union {r} BY <2>3 DEF Outdated
      <3> SUFFICES ASSUME NEW l \in Makers PROVE SpentOf(l)' BY DEF SpentOnce
      <3>4. SpentOf(l) BY DEF SpentOnce
      <3>5. Spent(l)' \subseteq Spent(l) BY <2>1, <3>2, <3>3, <1>1 DEF Spent, ReqAt
      <3>6. Spent(l)' # {} => links'[l].state = "used" BY <3>1, <3>2, <3>4, <3>5 DEF SpentOf
      <3>7. links'[l].state = "used" /\ effects'[l] = {} =>
               \E q \in Requests : req'[q].link = l /\ (ReqAt(q, "apply")' \/ q \in broken')
         BY <2>1, <3>1, <3>2, <3>4, <1>1, <1>2 DEF SpentOf, ReqAt
      <3>8. ASSUME NEW k \in Makers, links'[k].use = links'[l].use,
                   links'[k].state = "valid", links'[l].state = "valid", k # l
            PROVE  k \in stale' \union broken' \/ l \in stale' \union broken'
         <4>1. CASE k # r /\ l # r BY <4>1, <3>1, <3>3, <3>4, <3>8, <2>1 DEF SpentOf
         <4>2. ASSUME NEW m \in Makers, m # r, links'[m].state = "valid", links'[m].use = links'[r].use
               PROVE  r \in stale'
            <5>1. links[m] \in Links /\ links[m].use = LinkUse(call[r]) /\ links[m].state = "valid"
               BY <4>2, <3>1, <1>3
            <5>2. links[m] = [use |-> LinkUse(call[r]), state |-> "valid"] BY <5>1 DEF Links
            <5>3. m \in ValidLinks(LinkUse(call[r])) BY <5>2 DEF ValidLinks
            <5> QED BY <5>3, <2>3 DEF Outdated
         <4> QED BY <4>1, <4>2, <3>8
      <3> QED BY <3>4, <3>5, <3>6, <3>7, <3>8 DEF SpentOf
   <2> QED BY <1>12, <2>2, <2>3 DEF CreateLink
<1>13. CASE MarkUsed(r)
   <2> DEFINE m == req[r].link
   <2>1. effects' = effects /\ broken \subseteq broken' /\ req[r].pc = "mark"
      BY <1>13, <1>4 DEF MarkUsed, ReqAt
   <2>2. m \in Makers /\ r \notin effects[m] BY <2>1, <1>3, <1>6 DEF LinksAre, LinkIs, ReqAt
   <2>3. CASE UNCHANGED <<links, stale>> /\ Reply(r)
      <3>1. req'[r].pc = "done" BY <2>3, <1>0 DEF Reply, Places
      <3> QED BY <2>1, <2>3, <3>1, NothingSpent
   <2>4. CASE /\ links' = [links EXCEPT ![m].state = IF @ = "gone" THEN @ ELSE "used"]
              /\ Outdated(r, links[m].state # "valid") /\ Go(r, "apply") /\ Works
      <3>1. /\ links'[m].use = links[m].use
            /\ links'[m].state = IF links[m].state = "gone" THEN "gone" ELSE "used"
            /\ \A l \in Makers : l # m => links'[l] = links[l]
         BY <2>2, <2>4, <1>3 DEF Links
      <3>2. req'[r].pc = "apply" /\ req'[r].link = m BY <2>4, <1>0 DEF Places
      <3>3. stale \subseteq stale' /\ stale' \subseteq stale \union {r} BY <2>4 DEF Outdated
      <3> HIDE DEF m
      <3> SUFFICES ASSUME NEW l \in Makers PROVE SpentOf(l)' BY DEF SpentOnce
      <3>4. SpentOf(l) BY DEF SpentOnce
      <3>5. \A k \in Makers : links'[k].use = links'[l].use
               /\ links'[k].state = "valid" /\ links'[l].state = "valid" /\ k # l =>
            k \in stale' \union broken' \/ l \in stale' \union broken'
         BY <2>1, <3>1, <3>3, <3>4 DEF SpentOf
      <3>6. Spent(l)' \subseteq Spent(l) \union {r} /\ (l # m => r \notin Spent(l)')
         BY <2>1, <2>2, <3>2, <3>3, <1>1, NotDone DEF Spent, ReqAt, LinksAre
      <3>7. r \in Spent(l)' => links[l].state = "valid" /\ l = m
         BY <2>4, <3>6 DEF Outdated, Spent, m
      <3>8. (\A q, s \in Spent(l)' : q = s) /\ (Spent(l)' # {} => links'[l].state = "used")
         BY <3>1, <3>4, <3>6, <3>7 DEF SpentOf
      <3>9. ASSUME links'[l].state = "used", effects'[l] = {}
            PROVE  \E q \in Requests : req'[q].link = l /\ (ReqAt(q, "apply")' \/ q \in broken')
         <4>1. CASE l = m BY <4>1, <3>2 DEF ReqAt
         <4>2. CASE l # m
            <5>1. PICK q \in Requests : req[q].link = l /\ (ReqAt(q, "apply") \/ q \in broken)
               BY <4>2, <2>1, <3>1, <3>4, <3>9 DEF SpentOf
            <5>2. q # r BY <5>1, <4>2 DEF m
            <5> QED BY <5>1, <5>2, <2>1, <1>1 DEF ReqAt
         <4> QED BY <4>1, <4>2
      <3> QED BY <3>5, <3>8, <3>9 DEF SpentOf
   <2> QED BY <1>13, <2>3, <2>4 DEF MarkUsed
<1>14. CASE Apply(r)
   <2> DEFINE m == req[r].link
   <2>1. links' = links /\ broken \subseteq broken' /\ req[r].pc = "apply" BY <1>14, <1>4 DEF Apply, ReqAt
   <2>2. req'[r].link = m /\ req'[r].pc \in {"done", "revoke"}
      <3>1. Go(r, "done") \/ Go(r, "revoke") BY <1>14 DEF Apply, Reply
      <3> QED BY <3>1, <1>0 DEF Places
   <2>3. CASE Fails(r) /\ UNCHANGED <<effects, stale>> BY <2>1, <2>2, <2>3, <1>5, NothingSpent
   <2>4. CASE /\ effects' = [l \in Makers |-> IF l = m THEN effects[l] \union {r} ELSE effects[l]]
              /\ Outdated(r, call[r] = "code" /\ user.secret # req[r].saw.secret)
      <3>1. stale \subseteq stale' BY <2>4 DEF Outdated
      <3> SUFFICES ASSUME NEW l \in Makers PROVE SpentOf(l)' BY DEF SpentOnce
      <3>2. SpentOf(l) BY DEF SpentOnce
      <3>3. effects'[l] = IF l = m THEN effects[l] \union {r} ELSE effects[l] BY <2>4
      <3>4. req[r].link = m OBVIOUS
      <3> HIDE DEF m
      <3>5. Spent(l)' \subseteq Spent(l)
         BY <2>1, <2>2, <3>1, <3>3, <3>4, <1>1, NotDone DEF Spent, ReqAt
      <3>6. (\A q, s \in Spent(l)' : q = s) /\ (Spent(l)' # {} => links'[l].state = "used")
         BY <2>1, <3>2, <3>5 DEF SpentOf
      <3>7. ASSUME links'[l].state = "used", effects'[l] = {}
            PROVE  \E q \in Requests : req'[q].link = l /\ (ReqAt(q, "apply")' \/ q \in broken')
         <4>1. l # m /\ effects[l] = {} BY <3>3, <3>7
         <4>2. PICK q \in Requests : req[q].link = l /\ (ReqAt(q, "apply") \/ q \in broken)
            BY <4>1, <2>1, <3>2, <3>7 DEF SpentOf
         <4>3. q # r BY <4>1, <4>2, <3>4
         <4> QED BY <4>2, <4>3, <2>1, <1>1 DEF ReqAt
      <3>8. \A k \in Makers : links'[k].use = links'[l].use
               /\ links'[k].state = "valid" /\ links'[l].state = "valid" /\ k # l =>
            k \in stale' \union broken' \/ l \in stale' \union broken'
         BY <2>1, <3>1, <3>2 DEF SpentOf
      <3> QED BY <3>6, <3>7, <3>8 DEF SpentOf
   <2> QED BY <1>14, <2>3, <2>4 DEF Apply
<1> QED
   BY <1>7, <1>8, <1>9, <1>10, <1>11, <1>12, <1>13, <1>14 DEF RequestStep

-----------------------------------------------------------------------------
(***************************************************************************)
(* The way in, and who is in.                                              *)
(***************************************************************************)
\* A step that takes no way in away.
LEMMA WayStands ==
    ASSUME RecordsAre, CallsAre, WayIn, NEW r \in Requests, RequestStep(r),
           user'.exists = user.exists, user'.verified = user.verified, broken \subseteq broken',
           \A l \in Makers : links[l].use = "verify" /\ links[l].state \in {"valid", "expired"} =>
              links'[l] = links[l],
           call[r] \in {"register", "resend", "verify"} /\ req[r].pc \in {"link", "mark", "apply"} =>
              broken' # {}
    PROVE  WayIn'
<1>1. call' = call /\ \A q \in Requests : q # r => req'[q] = req[q] BY OthersStand, CallsStay
<1> SUFFICES ASSUME user'.exists /\ ~user'.verified
             PROVE  \/ \E l \in Makers : links'[l].use = "verify" /\ links'[l].state \in {"valid", "expired"}
                    \/ \E q \in Requests : call'[q] \in {"register", "resend", "verify"}
                                           /\ req'[q].pc \in {"link", "mark", "apply"}
                    \/ broken' # {}
   BY DEF WayIn
<1>2. CASE \E l \in Makers : links[l].use = "verify" /\ links[l].state \in {"valid", "expired"}
   BY <1>2
<1>3. CASE \E q \in Requests : call[q] \in {"register", "resend", "verify"}
                               /\ req[q].pc \in {"link", "mark", "apply"}
   BY <1>1, <1>3
<1>4. CASE broken # {} BY <1>4
<1> QED BY <1>2, <1>3, <1>4 DEF WayIn

LEMMA WayStays ==
    ASSUME AccountsAssumption, RecordsAre, CallsAre, LinksAre, WayIn, NEW r \in Requests, RequestStep(r)
    PROVE  WayIn'
<1>0. \A p \in Places : Go(r, p) => req'[r].pc = p /\ req'[r].link = req[r].link
   BY GoMoves DEF Moves, GoesTo
<1>1. user \in Users /\ links \in [Makers -> Links] /\ r \in Makers BY DEF RecordsAre, Makers
<1>2. Works \/ Fails(r) => broken \subseteq broken' BY DEF Works, Fails
<1>3. Fails(r) => broken' # {} BY DEF Fails
<1>4. call' = call BY CallsStay
<1>w. call[r] \in {"register", "resend", "verify"} /\ req'[r].pc \in {"link", "mark", "apply"} => WayIn'
   BY <1>4 DEF WayIn
<1>5. CASE ReadUser(r) \/ CheckToken(r) \/ LoadUser(r) \/ FindLink(r) \/ Refresh(r) \/ Revoke(r)
   BY <1>5, <1>2, WayStands DEF ReadUser, CheckToken, LoadUser, FindLink, Refresh, Revoke, Works, ReqAt
<1>6. CASE CountWrong(r) \/ Lock(r) \/ Clear(r)
   <2>1. user'.exists = user.exists /\ user'.verified = user.verified
      BY <1>6, <1>1 DEF CountWrong, Lock, Clear, Users
   <2>2. req[r].pc \in {"count", "lock", "clear"} /\ links' = links /\ broken \subseteq broken'
      BY <1>6, <1>2 DEF CountWrong, Lock, Clear, ReqAt
   <2> QED BY <2>1, <2>2, WayStands
<1>7. CASE CreateAccount(r)
   <2>1. req[r].pc = "create" /\ links' = links /\ broken \subseteq broken' /\ call[r] = "register"
      BY <1>7, <1>2 DEF CreateAccount, ReqAt, CallsAre, CallIs
   <2>2. CASE UNCHANGED user BY <2>1, <2>2, WayStands
   <2>3. CASE Go(r, "link") \/ Go(r, "apply") BY <2>1, <2>3, <1>0, <1>w DEF Places
   <2> QED BY <1>7, <2>2, <2>3 DEF CreateAccount
<1>8. CASE DeleteLinks(r)
   <2>1. /\ req[r].pc = "delete" /\ user' = user /\ broken \subseteq broken' /\ req'[r].pc = "link"
         /\ call[r] \in {"forgot", "resend"}
      BY <1>8, <1>0, <1>2 DEF DeleteLinks, ReqAt, CallsAre, CallIs, Places
   <2>2. CASE call[r] = "resend" BY <2>1, <2>2, <1>w
   <2>3. CASE call[r] = "forgot"
      <3>1. \A l \in Makers : links[l].use = "verify" => links'[l] = links[l]
         BY <1>8, <2>3 DEF DeleteLinks, ValidLinks, LinkUse
      <3> QED BY <2>1, <2>3, <3>1, WayStands
   <2> QED BY <2>1, <2>2, <2>3
<1>9. CASE CreateLink(r)
   <2>1. /\ req[r].pc = "link" /\ user' = user /\ broken \subseteq broken'
         /\ call[r] \in {"register", "forgot", "resend"} /\ links[r].state = "none"
      BY <1>9, <1>2 DEF CreateLink, ReqAt, CallsAre, CallIs, LinksAre, LinkIs
   <2>2. CASE Fails(r) BY <2>2, <1>3 DEF WayIn
   <2>3. CASE links' = [links EXCEPT ![r] = [use |-> LinkUse(call[r]), state |-> "valid"]]
      <3>1. CASE call[r] = "forgot" BY <2>1, <2>3, <3>1, WayStands
      <3>2. CASE call[r] # "forgot"
         <4>1. links'[r].use = "verify" /\ links'[r].state = "valid"
            BY <2>1, <2>3, <3>2, <1>1 DEF LinkUse
         <4> QED BY <4>1, <1>1 DEF WayIn
      <3> QED BY <3>1, <3>2
   <2> QED BY <1>9, <2>2, <2>3 DEF CreateLink
<1>10. CASE MarkUsed(r)
   <2>1. /\ req[r].pc = "mark" /\ user' = user /\ broken \subseteq broken'
         /\ call[r] \in {"reset", "verify"} /\ links[req[r].link].use = LinkUse(call[r])
      BY <1>10, <1>2 DEF MarkUsed, ReqAt, CallsAre, CallIs, LinksAre, LinkIs
   <2>2. CASE Fails(r) BY <2>2, <1>3 DEF WayIn
   <2>3. CASE /\ links' = [links EXCEPT ![req[r].link].state = IF @ = "gone" THEN @ ELSE "used"]
              /\ Go(r, "apply")
      <3>1. CASE call[r] = "verify" BY <2>3, <3>1, <1>0, <1>w DEF Places
      <3>2. CASE call[r] = "reset"
         <4>1. \A l \in Makers : links[l].use = "verify" => links'[l] = links[l]
            BY <2>1, <2>3, <3>2, <1>1 DEF LinkUse
         <4> QED BY <2>1, <3>2, <4>1, WayStands
      <3> QED BY <2>1, <3>1, <3>2
   <2> QED BY <1>10, <2>2, <2>3 DEF MarkUsed
<1>11. CASE Apply(r)
   <2>1. /\ links' = links /\ broken \subseteq broken'
         /\ call[r] \in {"register", "reset", "verify", "change", "enable", "code", "disable"}
      BY <1>11, <1>2 DEF Apply, CallsAre, CallIs
   <2>2. CASE Fails(r) BY <2>2, <1>3 DEF WayIn
   <2>3. CASE user' = Updated(r)
      <3>1. CASE call[r] \in {"verify", "register"} BY <2>3, <3>1, <1>1 DEF Updated, WayIn, Users
      <3>2. CASE call[r] \notin {"verify", "register"}
         <4>1. user'.exists = user.exists /\ user'.verified = user.verified
            BY <2>1, <2>3, <3>2, <1>1 DEF Updated, Users
         <4> QED BY <2>1, <3>2, <4>1, WayStands
      <3> QED BY <3>1, <3>2
   <2> QED BY <1>11, <2>2, <2>3 DEF Apply
<1> QED
   BY <1>5, <1>6, <1>7, <1>8, <1>9, <1>10, <1>11 DEF RequestStep

\* Who has verified an address keeps it; tokens and revocations are not taken back.
LEMMA SessionsGrow ==
    ASSUME AccountsAssumption, RecordsAre, CallsAre, SessionsAre, NEW r \in Requests, RequestStep(r)
    PROVE  /\ user.verified /\ user.exists => user'.verified /\ user'.exists
           /\ tokens \subseteq tokens' /\ revoked \subseteq revoked' /\ broken \subseteq broken'
<1>1. user \in Users BY DEF RecordsAre
<1>2. /\ tokens \subseteq tokens' /\ revoked \subseteq revoked' /\ (Works \/ Fails(r))
   BY DEF RequestStep, ReadUser, CheckToken, LoadUser, Refresh, FindLink, CountWrong, Lock, Clear,
          Revoke, CreateAccount, DeleteLinks, CreateLink, MarkUsed, Apply, Works
<1>3. broken \subseteq broken' BY <1>2 DEF Works, Fails
<1>4. CASE CountWrong(r) \/ Lock(r) \/ Clear(r)
   BY <1>1, <1>2, <1>3, <1>4 DEF CountWrong, Lock, Clear, Users
<1>5. CASE Apply(r)
   <2>1. call[r] \in {"register", "reset", "verify", "change", "enable", "code", "disable"}
      BY <1>5 DEF Apply, CallsAre, CallIs
   <2>2. Updated(r).exists = user.exists /\ (user.verified => Updated(r).verified)
      BY <1>1, <2>1 DEF Updated, Users
   <2>3. user' = user \/ user' = Updated(r) BY <1>5 DEF Apply
   <2> QED BY <1>2, <1>3, <2>2, <2>3
<1>6. CASE CreateAccount(r) BY <1>1, <1>2, <1>3, <1>6 DEF CreateAccount
<1> QED
   BY <1>2, <1>3, <1>4, <1>5, <1>6
   DEF RequestStep, ReadUser, CheckToken, LoadUser, Refresh, FindLink, Revoke, DeleteLinks,
       CreateLink, MarkUsed

LEMMA SessionsStay ==
    ASSUME AccountsAssumption, RecordsAre, CallsAre, SessionsAre, NEW r \in Requests, RequestStep(r)
    PROVE  SessionsAre'
<1>0. \A p \in Places : Go(r, p) =>
         req'[r].pc = p /\ req'[r].token = req[r].token /\ req'[r].saw = req[r].saw
   BY GoMoves DEF Moves, GoesTo
<1>1. call' = call /\ \A q \in Requests : q # r => req'[q] = req[q] BY OthersStand, CallsStay
<1>2. /\ user.verified /\ user.exists => user'.verified /\ user'.exists
      /\ tokens \subseteq tokens' /\ revoked \subseteq revoked' /\ broken \subseteq broken'
   BY SessionsGrow
<1>3. SessionIs(r) /\ CallIs(r) /\ (tokens # {} => user.verified /\ user.exists)
   BY DEF SessionsAre, CallsAre
<1>4. ASSUME NEW q \in Requests, q # r PROVE SessionIs(q)'
   <2>1. SessionIs(q) /\ req'[q] = req[q] /\ call'[q] = call[q] BY <1>1, <1>4 DEF SessionsAre
   <2> QED BY <2>1, <1>2 DEF SessionIs, ReqAt
<1> SUFFICES (tokens' # {} => (tokens # {} \/ (user.verified /\ user.exists))) /\ SessionIs(r)'
   BY <1>2, <1>3, <1>4 DEF SessionsAre
\* At the end only a logout and a change of password owe a revocation.
<1>5. Reply(r) => req'[r].pc = "done" /\ req'[r].token = req[r].token BY <1>0 DEF Reply, Places
<1>6. req'[r].pc = "done" /\ (call[r] \notin {"logout", "change"} \/ r \in broken') => SessionIs(r)'
   BY <1>1 DEF SessionIs, ReqAt
<1>7. Fails(r) => r \in broken' BY DEF Fails
<1>8. CASE ReadUser(r)
   <2>1. /\ req'[r].pc \in {"create", "delete", "clear", "count", "done"}
         /\ req'[r].pc = "clear" => user.exists /\ user.verified
      BY <1>8, ReadUserMoves DEF GoesTo
   <2>2. tokens' = tokens /\ call[r] \notin {"logout", "change"} BY <1>8 DEF ReadUser
   <2>3. SessionIs(r)' BY <2>1, <2>2, <1>1, <1>2 DEF SessionIs, ReqAt
   <2> QED BY <2>2, <2>3
<1>9. CASE CheckToken(r)
   <2>1. tokens' = tokens /\ ReqAt(r, "new") BY <1>9 DEF CheckToken
   <2>2. req[r].token = NoToken BY <2>1, <1>3 DEF SessionIs
   <2>3. CASE Moves(r, "done") BY <2>1, <2>2, <2>3 DEF Moves, GoesTo, SessionIs, ReqAt
   <2>4. CASE req'[r].pc = "load" /\ req'[r].token \in tokens BY <2>1, <2>4 DEF SessionIs, ReqAt
   <2> QED BY <1>9, <2>1, <2>3, <2>4, CheckTokenMoves DEF GoesTo
<1>10. CASE LoadUser(r)
   <2>1. call[r] \in Inside /\ req[r].token \in tokens
      BY <1>10, <1>3 DEF CallIs, LoadUser, SessionIs
   <2>2. /\ req'[r].pc \in {"revoke", "apply", "done"}
         /\ req'[r].pc = "done" => ~user.verified \/ call[r] = "code"
         /\ req'[r].pc = "apply" /\ call[r] = "code" => user.secret # NoOne
         /\ req'[r].saw = user /\ req'[r].token = req[r].token
      BY <1>10, <2>1, LoadUserMoves DEF GoesTo
   <2>3. user.verified /\ req'[r].token \in tokens' BY <2>1, <2>2, <1>2, <1>3
   <2>4. SessionIs(r)' BY <2>1, <2>2, <2>3, <1>1 DEF SessionIs, ReqAt
   <2> QED BY <2>1, <2>4
<1>11. CASE Refresh(r)
   <2>1. tokens # {} /\ Reply(r) /\ call[r] = "refresh" BY <1>11 DEF Refresh
   <2> QED BY <2>1, <1>5, <1>6
<1>12. CASE FindLink(r)
   <2>1. req'[r].pc = "mark" BY <1>12, FindLinkMoves DEF GoesTo
   <2> QED BY <1>12, <2>1 DEF FindLink, SessionIs, ReqAt
<1>13. CASE CountWrong(r)
   <2>1. Go(r, "lock") \/ Go(r, "done") BY <1>13 DEF CountWrong, Reply
   <2>2. req'[r].pc \in {"lock", "done"} /\ call[r] = "wrong password" /\ tokens' = tokens
      BY <1>13, <2>1, <1>0, <1>3 DEF Places, CallIs, CountWrong
   <2> QED BY <2>2, <1>1 DEF SessionIs, ReqAt
<1>14. CASE Lock(r)
   <2>1. Reply(r) /\ call[r] = "wrong password" /\ tokens' = tokens BY <1>14, <1>3 DEF Lock, CallIs
   <2> QED BY <2>1, <1>5, <1>6
<1>15. CASE Clear(r)
   <2>1. Reply(r) /\ user.verified /\ user.exists BY <1>15, <1>3 DEF Clear, SessionIs
   <2>2. call[r] \notin {"logout", "change"} BY <1>15, <1>3 DEF Clear, CallIs
   <2> QED BY <2>1, <2>2, <1>5, <1>6
<1>16. CASE Revoke(r)
   <2>1. Reply(r) /\ tokens' = tokens BY <1>16 DEF Revoke
   <2>2. r \in broken' \/ req[r].token \in revoked' BY <1>16, <1>7 DEF Revoke
   <2>3. SessionIs(r)' BY <2>1, <2>2, <1>1, <1>5 DEF SessionIs, ReqAt
   <2> QED BY <2>1, <2>3
<1>17. CASE CreateAccount(r)
   <2>1. call[r] = "register" /\ tokens' = tokens BY <1>17, <1>3 DEF CreateAccount, CallIs
   <2>2. Go(r, "link") \/ Go(r, "apply") \/ Go(r, "done") BY <1>17 DEF CreateAccount, Reply
   <2>3. req'[r].pc \in {"link", "apply", "done"} BY <2>2, <1>0 DEF Places
   <2> QED BY <2>1, <2>3, <1>1 DEF SessionIs, ReqAt, Inside
<1>18. CASE DeleteLinks(r)
   <2>1. req'[r].pc = "link" /\ tokens' = tokens BY <1>18, <1>0 DEF DeleteLinks, Places
   <2> QED BY <2>1 DEF SessionIs, ReqAt
<1>19. CASE CreateLink(r)
   <2>1. Reply(r) /\ call[r] \in {"register", "forgot", "resend"} /\ tokens' = tokens
      BY <1>19, <1>3 DEF CreateLink, CallIs
   <2> QED BY <2>1, <1>5, <1>6
<1>20. CASE MarkUsed(r)
   <2>1. call[r] \in {"reset", "verify"} /\ tokens' = tokens BY <1>20, <1>3 DEF MarkUsed, CallIs
   <2>2. Go(r, "apply") \/ Go(r, "done") BY <1>20 DEF MarkUsed, Reply
   <2>3. req'[r].pc \in {"apply", "done"} BY <2>2, <1>0 DEF Places
   <2> QED BY <2>1, <2>3, <1>1 DEF SessionIs, ReqAt, Inside
<1>21. CASE Apply(r)
   <2>1. tokens' = tokens /\ ReqAt(r, "apply") /\ call[r] # "logout" BY <1>21, <1>3 DEF Apply, CallIs
   <2>2. CASE Fails(r) /\ Reply(r) BY <2>1, <2>2, <1>5, <1>6, <1>7
   <2>3. CASE Go(r, IF call[r] = "change" THEN "revoke" ELSE "done")
      <3>1. /\ req'[r].pc = IF call[r] = "change" THEN "revoke" ELSE "done"
            /\ req'[r].token = req[r].token
         BY <2>3, <1>0 DEF Places
      <3>2. call[r] = "change" => req[r].token \in tokens BY <2>1, <1>3 DEF SessionIs, Inside
      <3> QED BY <2>1, <3>1, <3>2, <1>1 DEF SessionIs, ReqAt
   <2> QED BY <1>21, <2>1, <2>2, <2>3 DEF Apply
<1> QED
   BY <1>8, <1>9, <1>10, <1>11, <1>12, <1>13, <1>14, <1>15, <1>16, <1>17, <1>18, <1>19, <1>20, <1>21
   DEF RequestStep

LEMMA FactorStays ==
    ASSUME AccountsAssumption, RecordsAre, CallsAre, SessionsAre, SecondFactorIsWhole,
           NEW r \in Requests, RequestStep(r)
    PROVE  SecondFactorIsWhole'
<1>1. call' = call BY CallsStay
<1>2. user \in Users /\ NoOne # r BY DEF RecordsAre, AccountsAssumption, Makers
<1>3. stale \subseteq stale'
   BY DEF RequestStep, ReadUser, CheckToken, LoadUser, Refresh, FindLink, CountWrong, Lock, Clear,
          Revoke, CreateAccount, DeleteLinks, CreateLink, MarkUsed, Apply, Outdated
<1>4. ASSUME user'.mfa = user.mfa, user'.secret = user.secret PROVE SecondFactorIsWhole'
   BY <1>1, <1>3, <1>4 DEF SecondFactorIsWhole
<1>5. ASSUME ~user'.mfa \/ user'.secret # NoOne PROVE SecondFactorIsWhole'
   BY <1>5 DEF SecondFactorIsWhole
<1>6. CASE UNCHANGED user BY <1>4, <1>6
<1>7. CASE CountWrong(r) \/ Lock(r) \/ Clear(r)
   <2>1. user'.mfa = user.mfa /\ user'.secret = user.secret
      BY <1>2, <1>7 DEF CountWrong, Lock, Clear, Users
   <2> QED BY <2>1, <1>4
<1>8. CASE CreateAccount(r)
   <2>1. CASE user' = [NoUser EXCEPT !.exists = TRUE]
      <3>1. ~user'.mfa BY <2>1 DEF NoUser
      <3> QED BY <3>1, <1>5
   <2> QED BY <1>6, <1>8, <2>1 DEF CreateAccount
<1>9. CASE Apply(r)
   <2>1. call[r] \in {"register", "reset", "verify", "change", "enable", "code", "disable"}
      BY <1>9 DEF Apply, CallsAre, CallIs
   <2>2. CASE user' = Updated(r) /\ Outdated(r, call[r] = "code" /\ user.secret # req[r].saw.secret)
      <3>1. CASE call[r] \in {"register", "reset", "verify", "change"}
         <4>1. user'.mfa = user.mfa /\ user'.secret = user.secret
            BY <1>2, <2>2, <3>1 DEF Updated, Users
         <4> QED BY <4>1, <1>4
      <3>2. CASE call[r] = "enable"
         <4>1. user'.secret = r BY <1>2, <2>2, <3>2 DEF Updated, Users
         <4> QED BY <4>1, <1>2, <1>5
      <3>3. CASE call[r] = "disable"
         <4>1. user'.mfa = FALSE BY <1>2, <2>2, <3>3 DEF Updated, Users
         <4> QED BY <4>1, <1>5
      <3>4. CASE call[r] = "code"
         <4>1. user'.secret = user.secret BY <1>2, <2>2, <3>4 DEF Updated, Users
         <4>2. req[r].saw.secret # NoOne BY <1>9, <3>4 DEF SessionsAre, SessionIs, Apply
         <4>3. user.secret = NoOne => r \in stale' BY <2>2, <3>4, <4>2 DEF Outdated
         <4> QED BY <4>1, <4>3, <3>4, <1>1 DEF SecondFactorIsWhole
      <3> QED BY <2>1, <3>1, <3>2, <3>3, <3>4
   <2> QED BY <1>6, <1>9, <2>2 DEF Apply
<1> QED
   BY <1>6, <1>7, <1>8, <1>9
   DEF RequestStep, ReadUser, CheckToken, LoadUser, Refresh, FindLink, Revoke, DeleteLinks,
       CreateLink, MarkUsed

LEMMA OutStays ==
    ASSUME AccountsAssumption, RecordsAre, CallsAre, SessionsAre, OutIsOut,
           NEW r \in Requests, RequestStep(r)
    PROVE  OutIsOut'
<1>1. \A q \in Requests : q # r => req'[q] = req[q] BY OthersStand
<1>2. broken \subseteq broken' BY SessionsGrow
<1>3. \A p \in Places : Go(r, p) => req'[r].late = req[r].late BY GoMoves DEF Moves, GoesTo
<1>4. ASSUME req'[r].late = req[r].late PROVE OutIsOut' BY <1>1, <1>2, <1>4 DEF OutIsOut
<1>5. CASE ReadUser(r) BY <1>4, <1>5, ReadUserMoves DEF GoesTo
<1>6. CASE LoadUser(r)
   <2>1. call[r] \in Inside BY <1>6 DEF CallsAre, CallIs, LoadUser
   <2> QED BY <2>1, <1>4, <1>6, LoadUserMoves DEF GoesTo
<1>7. CASE FindLink(r) BY <1>4, <1>7, FindLinkMoves DEF GoesTo
<1>8. CASE CheckToken(r)
   <2>1. CASE Moves(r, "done") BY <2>1, <1>4 DEF Moves, GoesTo
   <2>2. ASSUME NEW t \in tokens, req'[r].late = (t \in Ended), t \notin revoked \/ Fails(r)
         PROVE  OutIsOut'
      <3>1. CASE Fails(r) BY <3>1, <1>1, <1>2 DEF Fails, OutIsOut
      <3>2. CASE t \notin revoked
         \* A token that a logout or a change of password ended is revoked.
         <4>1. t # NoToken BY DEF RecordsAre, Tokens, NoToken, AccountsAssumption
         <4>2. ASSUME t \in Ended PROVE FALSE
            <5>1. PICK q \in Requests \ broken :
                     call[q] \in {"logout", "change"} /\ ReqAt(q, "done") /\ t = req[q].token
               BY <4>2 DEF Ended
            <5> QED BY <5>1, <4>1, <3>2 DEF SessionsAre, SessionIs
         <4>3. ~req'[r].late BY <4>2, <2>2
         <4> QED BY <4>3, <1>1, <1>2 DEF OutIsOut
      <3> QED BY <2>2, <3>1, <3>2
   <2> QED BY <1>8, <2>1, <2>2, CheckTokenMoves DEF GoesTo
<1>9. CASE Refresh(r) \/ CountWrong(r) \/ Lock(r) \/ Clear(r) \/ Revoke(r)
           \/ CreateAccount(r) \/ DeleteLinks(r) \/ CreateLink(r) \/ MarkUsed(r) \/ Apply(r)
   <2>1. \E p \in Places : Go(r, p)
      BY <1>9 DEF Refresh, CountWrong, Lock, Clear, Revoke, CreateAccount, DeleteLinks, CreateLink,
         MarkUsed, Apply, Reply, Places
   <2> QED BY <2>1, <1>3, <1>4
<1> QED BY <1>5, <1>6, <1>7, <1>8, <1>9 DEF RequestStep

-----------------------------------------------------------------------------
(***************************************************************************)
(* The steps of time, the start, and the theorems.                         *)
(***************************************************************************)
\* A lock that expires touches nothing that is counted.
LEMMA LockExpiresKeeps ==
    ASSUME AInv, LockExpires PROVE AInv'
<1>1. /\ user \in Users /\ user' = [user EXCEPT !.locked = FALSE]
      /\ UNCHANGED <<mail, links, tokens, revoked, call, req, lapses, broken, stale, strikes, effects>>
   BY DEF AInv, RecordsAre, LockExpires
<1>2. /\ user' \in Users /\ user'.exists = user.exists /\ user'.verified = user.verified
      /\ user'.attempts = user.attempts /\ user'.mfa = user.mfa /\ user'.secret = user.secret
   BY <1>1 DEF Users
<1>3. RecordsAre' BY <1>1, <1>2 DEF AInv, RecordsAre
<1>4. Struck' = Struck BY <1>1 DEF Struck
<1>5. CountsAre' BY <1>1, <1>2, <1>4 DEF AInv, CountsAre, WrongPasswordsLock, ReqAt
<1>6. CallsAre' BY <1>1 DEF AInv, CallsAre, CallIs, ReqAt
<1>7. LinksAre' BY <1>1 DEF AInv, LinksAre, LinkIs, ReqAt
<1>8. SpentOnce' BY <1>1 DEF AInv, SpentOnce, SpentOf, Spent, ReqAt
<1>9. WayIn' BY <1>1, <1>2 DEF AInv, WayIn
<1>10. SessionsAre' BY <1>1, <1>2 DEF AInv, SessionsAre, SessionIs, ReqAt
<1>11. SecondFactorIsWhole' /\ OutIsOut' BY <1>1, <1>2 DEF AInv, SecondFactorIsWhole, OutIsOut
<1> QED BY <1>3, <1>5, <1>6, <1>7, <1>8, <1>9, <1>10, <1>11 DEF AInv

\* A link that expires was good until then: it lets nobody in that had not found it.
LEMMA LinkExpiresKeeps ==
    ASSUME AInv, NEW l \in Makers, LinkExpires(l) PROVE AInv'
<1>1. /\ links \in [Makers -> Links] /\ links[l].state = "valid"
      /\ links' = [links EXCEPT ![l].state = "expired"]
      /\ UNCHANGED <<mail, user, tokens, revoked, call, req, lapses, broken, stale, strikes, effects>>
   BY DEF AInv, RecordsAre, LinkExpires
<1>2. /\ links' \in [Makers -> Links]
      /\ links'[l].state = "expired" /\ links'[l].use = links[l].use
      /\ \A k \in Makers : k # l => links'[k] = links[k]
   BY <1>1 DEF Links
<1>3. RecordsAre' BY <1>1, <1>2 DEF AInv, RecordsAre
<1>4. Struck' = Struck BY <1>1 DEF Struck
<1>5. CountsAre' BY <1>1, <1>4 DEF AInv, CountsAre, WrongPasswordsLock, ReqAt
<1>6. CallsAre' BY <1>1 DEF AInv, CallsAre, CallIs, ReqAt
<1>7. LinksAre'
   <2>1. ASSUME NEW q \in Requests PROVE LinkIs(q)'
      <3>1. LinkIs(q) /\ q \in Makers /\ (req[q].link # NoOne => req[q].link \in Makers)
         BY DEF AInv, LinksAre, RecordsAre, Reqs, Makers
      <3> QED BY <3>1, <1>1, <1>2 DEF LinkIs, ReqAt
   <2> QED BY <2>1, <1>1 DEF AInv, LinksAre, ReqAt
<1>8. SpentOnce' BY <1>1, <1>2 DEF AInv, SpentOnce, SpentOf, Spent, ReqAt
<1>9. WayIn' BY <1>1, <1>2 DEF AInv, WayIn
<1>10. SessionsAre' BY <1>1 DEF AInv, SessionsAre, SessionIs, ReqAt
<1>11. SecondFactorIsWhole' /\ OutIsOut' BY <1>1 DEF AInv, SecondFactorIsWhole, OutIsOut
<1> QED BY <1>3, <1>5, <1>6, <1>7, <1>8, <1>9, <1>10, <1>11 DEF AInv

LEMMA AccountsStart ==
    ASSUME AccountsAssumption, AccountsInit PROVE AInv
<1>1. /\ mail \in BOOLEAN /\ call \in [Requests -> Calls] /\ lapses = 0
      /\ req = [r \in Requests |-> Waiting] /\ revoked = {} /\ broken = {} /\ stale = {}
      /\ strikes = user.attempts /\ effects = [l \in Makers |-> {}]
   BY DEF AccountsInit, AccountsAssumption
<1>2. /\ MaxAttempts \in Nat /\ MaxAttempts > 1 /\ MaxLapses \in Nat /\ NoOne \notin Makers
      /\ First \in Makers
   BY DEF AccountsAssumption, Makers
<1>3. \/ user = NoUser /\ tokens = {} /\ links = [l \in Makers |-> NoLink]
      \/ user = [NoUser EXCEPT !.exists = TRUE] /\ tokens = {} /\ links = OneLink("verify")
      \/ \E secret \in {NoOne, First}, n \in {0, MaxAttempts - 2} :
            /\ user = [NoUser EXCEPT !.exists = TRUE, !.verified = TRUE, !.attempts = n,
                                     !.mfa = secret # NoOne, !.secret = secret]
            /\ tokens = {First} \X {"access", "refresh"} /\ links = OneLink("reset")
   BY DEF AccountsInit
<1>4. /\ user \in Users /\ user.attempts < MaxAttempts /\ (user.mfa => user.secret # NoOne)
      /\ user.exists /\ ~user.verified => links = OneLink("verify")
      /\ tokens # {} => user.verified /\ user.exists
   <2>1. CASE user = NoUser /\ tokens = {} BY <2>1, <1>2 DEF Users, NoUser
   <2>2. CASE user = [NoUser EXCEPT !.exists = TRUE] /\ tokens = {} /\ links = OneLink("verify")
      <3>1. user = [exists |-> TRUE, verified |-> FALSE, attempts |-> 0, locked |-> FALSE,
                    mfa |-> FALSE, secret |-> NoOne]
         BY <2>2 DEF NoUser
      <3>2. user \in Users BY <3>1 DEF Users
      <3> QED BY <2>2, <3>1, <3>2, <1>2
   <2>3. ASSUME NEW secret \in {NoOne, First}, NEW n \in {0, MaxAttempts - 2},
                user = [NoUser EXCEPT !.exists = TRUE, !.verified = TRUE, !.attempts = n,
                                      !.mfa = secret # NoOne, !.secret = secret]
         PROVE  /\ user \in Users /\ user.attempts < MaxAttempts
                /\ user.mfa => user.secret # NoOne
                /\ user.verified /\ user.exists
      <3>1. /\ user.exists = TRUE /\ user.verified = TRUE /\ user.attempts = n
            /\ user.mfa = (secret # NoOne) /\ user.secret = secret /\ user.locked = FALSE
         BY <2>3 DEF NoUser
      <3>2. n \in Nat /\ n < MaxAttempts BY <1>2
      <3>3. user = [exists |-> TRUE, verified |-> TRUE, attempts |-> n, locked |-> FALSE,
                    mfa |-> secret # NoOne, secret |-> secret]
         BY <2>3 DEF NoUser
      <3>4. user \in Users BY <3>2, <3>3, <1>2 DEF Users
      <3> QED BY <3>1, <3>2, <3>4
   <2> QED BY <2>1, <2>2, <2>3, <1>3
<1>5. tokens \subseteq Tokens BY <1>2, <1>3 DEF Tokens, Kinds
<1>6. /\ links \in [Makers -> Links]
      /\ \A l \in Makers : l # First => links[l].state = "none"
      /\ links[First].state \in {"none", "valid"}
   BY <1>2, <1>3 DEF OneLink, NoLink, Links
<1>7. Waiting \in Reqs
   <2>1. NoUser \in Users BY DEF NoUser, Users
   <2> QED BY <2>1 DEF Waiting, Reqs, Places, NoToken
<1>8. \A r \in Requests : /\ req[r] = Waiting /\ req[r].pc = "new" /\ req[r].link = NoOne
                          /\ req[r].token = NoToken /\ req[r].late = FALSE
   BY <1>1 DEF Waiting, NoToken
<1>9. RecordsAre BY <1>1, <1>2, <1>4, <1>5, <1>6, <1>7 DEF RecordsAre
<1>10. CountsAre
   <2>1. Struck = {} BY <1>8 DEF Struck
   <2>2. Cardinality(Struck) = 0 BY <2>1, FS_EmptySet
   <2>3. user.attempts \in Nat BY <1>4 DEF Users
   <2> QED BY <1>1, <1>2, <1>4, <2>2, <2>3 DEF CountsAre, WrongPasswordsLock
<1>11. CallsAre BY <1>8 DEF CallsAre, CallIs, ReqAt
<1>12. LinksAre
   <2>1. \A r \in Requests : links[r].state = "none" BY <1>6 DEF Makers, AccountsAssumption
   <2> QED BY <1>1, <1>8, <2>1 DEF LinksAre, LinkIs, ReqAt
<1>13. SpentOnce
   <2>1. \A l \in Makers : Spent(l) = {} BY <1>1, <1>8 DEF Spent, ReqAt
   <2> QED BY <1>6, <2>1 DEF SpentOnce, SpentOf
<1>14. WayIn
   <2>1. OneLink("verify")[First] = [use |-> "verify", state |-> "valid"] BY <1>2 DEF OneLink
   <2> QED BY <1>2, <1>4, <2>1 DEF WayIn
<1>15. SessionsAre
   BY <1>4, <1>8 DEF SessionsAre, SessionIs, ReqAt
<1>16. SecondFactorIsWhole /\ OutIsOut BY <1>4, <1>8 DEF SecondFactorIsWhole, OutIsOut
<1> QED BY <1>9, <1>10, <1>11, <1>12, <1>13, <1>14, <1>15, <1>16 DEF AInv

\* Every step of a request keeps what holds of an account: the invariant is inductive.
THEOREM AccountsInductive == AccountsSpec => []AInv
<1> USE AccountsAssumption
<1>1. AccountsInit => AInv BY AccountsStart
<1>2. AInv /\ [AccountsNext]_accountsVars => AInv'
   <2> SUFFICES ASSUME AInv, [AccountsNext]_accountsVars PROVE AInv' OBVIOUS
   <2>1. ASSUME NEW r \in Requests, RequestStep(r) PROVE AInv'
      <3>1. /\ RecordsAre /\ CountsAre /\ CallsAre /\ LinksAre /\ SpentOnce /\ WayIn /\ SessionsAre
            /\ SecondFactorIsWhole /\ OutIsOut
         BY DEF AInv
      <3>2. /\ RecordsAre' /\ CountsAre' /\ CallsAre' /\ LinksAre' /\ SpentOnce' /\ WayIn'
            /\ SessionsAre' /\ SecondFactorIsWhole' /\ OutIsOut'
         BY <2>1, <3>1, RecordsStay, CountsStay, CallsStay, LinksStay, SpentStays, WayStays,
            SessionsStay, FactorStays, OutStays
      <3> QED BY <3>2 DEF AInv
   <2>2. CASE LockExpires BY <2>2, LockExpiresKeeps
   <2>3. ASSUME NEW l \in Makers, LinkExpires(l) PROVE AInv' BY <2>3, LinkExpiresKeeps
   <2>4. CASE UNCHANGED accountsVars
      <3> USE <2>4 DEF AInv, accountsVars, ReqAt
      <3>1. RecordsAre' BY DEF RecordsAre
      <3>2. Struck' = Struck BY DEF Struck
      <3>3. CountsAre' BY <3>2 DEF CountsAre, WrongPasswordsLock
      <3>4. CallsAre' BY DEF CallsAre, CallIs
      <3>5. LinksAre' BY DEF LinksAre, LinkIs
      <3>6. SpentOnce' BY DEF SpentOnce, SpentOf, Spent
      <3>7. WayIn' BY DEF WayIn
      <3>8. SessionsAre' BY DEF SessionsAre, SessionIs
      <3>9. SecondFactorIsWhole' /\ OutIsOut' BY DEF SecondFactorIsWhole, OutIsOut
      <3> QED BY <3>1, <3>3, <3>4, <3>5, <3>6, <3>7, <3>8, <3>9
   <2> QED BY <2>1, <2>2, <2>3, <2>4 DEF AccountsNext
<1> QED BY <1>1, <1>2, PTL DEF AccountsSpec

LEMMA AtMostOneOf ==
    ASSUME NEW S, \A i, j \in S : i = j PROVE ~ (Cardinality(S) > 1)
<1>1. CASE S = {} BY <1>1, FS_EmptySet
<1>2. CASE S # {}
   <2>1. PICK i \in S : TRUE BY <1>2
   <2>2. S = {i} BY <2>1
   <2>3. Cardinality({i}) = 1 BY FS_Singleton
   <2> QED BY <2>2, <2>3
<1> QED BY <1>1, <1>2

\* Every request is somewhere, every counter in its range: the sum of wrong
\* passwords in auth.go:155-170 passes the limit by no more than the requests
\* that were past the check of the lock.
THEOREM AccountsTypes == AccountsSpec => []AccountsTypeOK
<1> USE AccountsAssumption
<1>1. AInv => AccountsTypeOK
   <2> SUFFICES ASSUME AInv PROVE AccountsTypeOK OBVIOUS
   <2>1. RecordsAre /\ CountsAre BY DEF AInv
   <2>2. IsFiniteSet(Requests) /\ Struck \in SUBSET Requests BY DEF AccountsAssumption, Struck
   <2>3. IsFiniteSet(Struck) /\ Cardinality(Struck) <= Cardinality(Requests) BY <2>2, FS_Subset
   <2>4. Cardinality(Struck) \in Nat /\ Cardinality(Requests) \in Nat
      BY <2>2, <2>3, FS_CardinalityType
   <2>5. user.attempts \in Nat /\ user.secret \in Makers \union {NoOne} BY <2>1 DEF RecordsAre, Users
   <2>6. MaxAttempts \in Nat BY DEF AccountsAssumption
   <2>7. user.attempts <= MaxAttempts + Cardinality(Struck) BY <2>1 DEF CountsAre
   <2>8. user.attempts \in 0..(MaxAttempts + Cardinality(Requests)) BY <2>3, <2>4, <2>5, <2>6, <2>7
   <2>9. strikes \in Nat BY <2>1, <2>5 DEF CountsAre
   <2> QED BY <2>1, <2>5, <2>8, <2>9 DEF AccountsTypeOK, RecordsAre, Tokens
<1> QED BY <1>1, AccountsInductive, PTL

\* The account keeps its promises however the requests for it cross: five wrong
\* passwords lock, a link is spent once, nobody is left without a way in, the
\* second factor has a secret, and who is out stays out -- each but for the
\* reasons its definition names.
THEOREM AccountsHoldAlways == AccountsSpec => []AccountsHold
<1> USE AccountsAssumption
<1>1. AInv => AccountsHold
   <2> SUFFICES ASSUME AInv PROVE AccountsHold OBVIOUS
   <2>1. WrongPasswordsLock /\ SecondFactorIsWhole /\ OutIsOut BY DEF AInv, CountsAre
   <2>2. ASSUME NEW l \in Makers, Cardinality(effects[l]) > 1 PROVE effects[l] \intersect stale # {}
      \* Requests that spent a link they had found valid are one.
      <3> SUFFICES ASSUME effects[l] \intersect stale = {} PROVE FALSE OBVIOUS
      <3>1. effects[l] \subseteq Spent(l)
         BY DEF AInv, RecordsAre, LinksAre, Spent
      <3>2. \A q, r \in effects[l] : q = r BY <3>1 DEF AInv, SpentOnce, SpentOf
      <3> QED BY <2>2, <3>2, AtMostOneOf
   <2>3. \A l \in Makers : links[l].state = "used" /\ effects[l] = {} =>
            \E r \in Requests : req[r].link = l /\ (ReqAt(r, "apply") \/ r \in broken)
      BY DEF AInv, SpentOnce, SpentOf
   <2>4. ASSUME NEW use \in {"reset", "verify"}, Cardinality(ValidLinks(use)) > 1
         PROVE  ValidLinks(use) \intersect (stale \union broken) # {}
      <3>1. PICK k, l \in ValidLinks(use) : k # l BY <2>4, AtMostOneOf
      <3>2. /\ k \in Makers /\ links[k].use = use /\ links[k].state = "valid"
            /\ l \in Makers /\ links[l].use = use /\ links[l].state = "valid"
         BY <3>1 DEF ValidLinks
      <3>3. k \in stale \union broken \/ l \in stale \union broken
         BY <3>1, <3>2 DEF AInv, SpentOnce, SpentOf
      <3> QED BY <3>1, <3>3
   <2>5. LinksAreSpent BY <2>2, <2>3, <2>4 DEF LinksAreSpent
   <2>6. NobodyIsStranded
      <3>1. ASSUME NEW l \in Makers, links[l].use = "verify", links[l].state = "valid"
            PROVE  l \in ValidLinks("verify")
         <4>1. links[l] = [use |-> "verify", state |-> "valid"] BY <3>1 DEF AInv, RecordsAre, Links
         <4> QED BY <4>1 DEF ValidLinks
      <3> QED BY <3>1 DEF AInv, WayIn, NobodyIsStranded
   <2> QED BY <2>1, <2>5, <2>6 DEF AccountsHold
<1> QED BY <1>1, AccountsInductive, PTL

-----------------------------------------------------------------------------
(***************************************************************************)
(* Admission: the inductive invariant.                                     *)
(***************************************************************************)
Posted == [pc : {"new", "gate", "refused", "scans", "discoveries", "throttled", "create",
                 "failed", "created", "served"},
           stamp : 0..MaxClock, seen : Nat, kind : JobKinds \union {"other"}]

\* The window decided about whom it marked, and a job was made by whom the
\* throttle let go on.
PostsAre ==
    /\ clock \in 0..MaxClock /\ org \in Orgs /\ faults \in 0..MaxFaults
    /\ post \in [Posts -> Posted] /\ times \subseteq Admitted
    /\ jobs \subseteq (Posts \union {Standing}) \X JobKinds /\ IsFiniteSet(jobs)
    /\ crossed \subseteq Posts /\ outrun \subseteq Posts
    /\ \A p \in Posts :
          /\ post[p].pc \in {"scans", "discoveries", "create"} => post[p].kind \in JobKinds
          /\ post[p].pc = "create" => post[p].seen < ScanLimit
          /\ p \in crossed => post[p].pc \notin {"new", "gate"}
          /\ p \in outrun => post[p].pc = "created"

\* Up to h is the latest time the window was filtered by: what was dropped had
\* left it then, and the request of that time is in it, or was refused by the
\* limit of those that still are.
FilteredBy(h) ==
    /\ \A q \in Admitted \ times : post[q].stamp + Window <= h
    /\ \/ h = 0
       \/ \E k \in times : post[k].stamp >= h
       \/ Cardinality(Within(h)) >= RateCap
WindowIsKept == \E h \in 0..MaxClock : FilteredBy(h)

InWindow(from) == {p \in Admitted : post[p].stamp \in from..(from + Window - 1)}

AdmissionInv == PostsAre /\ WindowIsKept /\ WindowHolds /\ ThrottleHolds

-----------------------------------------------------------------------------
LEMMA AdmittedFinite ==
    ASSUME AdmissionAssumption, PostsAre
    PROVE  /\ IsFiniteSet(Admitted) /\ IsFiniteSet(times) /\ IsFiniteSet(crossed) /\ IsFiniteSet(outrun)
           /\ Cardinality(crossed) \in Nat /\ Cardinality(outrun) \in Nat /\ Cardinality(jobs) \in Nat
           /\ \A h : IsFiniteSet(Within(h)) /\ Cardinality(Within(h)) \in Nat
           /\ \A from : IsFiniteSet(InWindow(from)) /\ Cardinality(InWindow(from)) \in Nat
<1>1. IsFiniteSet(Posts) /\ Admitted \in SUBSET Posts BY DEF AdmissionAssumption, Admitted
<1>2. IsFiniteSet(Admitted) BY <1>1, FS_Subset
<1>3. /\ times \in SUBSET Admitted /\ crossed \in SUBSET Posts /\ outrun \in SUBSET Posts
      /\ IsFiniteSet(jobs)
   BY DEF PostsAre
<1>4. IsFiniteSet(times) /\ IsFiniteSet(crossed) /\ IsFiniteSet(outrun) BY <1>1, <1>2, <1>3, FS_Subset
<1>5. ASSUME NEW h PROVE IsFiniteSet(Within(h)) /\ Cardinality(Within(h)) \in Nat
   <2>1. Within(h) \in SUBSET times BY DEF Within
   <2> QED BY <1>4, <2>1, FS_Subset, FS_CardinalityType
<1>6. ASSUME NEW from PROVE IsFiniteSet(InWindow(from)) /\ Cardinality(InWindow(from)) \in Nat
   <2>1. InWindow(from) \in SUBSET Admitted BY DEF InWindow
   <2> QED BY <1>2, <2>1, FS_Subset, FS_CardinalityType
<1> QED BY <1>2, <1>3, <1>4, <1>5, <1>6, FS_CardinalityType

\* A step that leaves the window, and whom it let in, alone.
LEMMA WindowStands ==
    ASSUME PostsAre, WindowIsKept, WindowHolds, times' = times, crossed' = crossed,
           Admitted' = Admitted, \A q \in Admitted : post'[q].stamp = post[q].stamp
    PROVE  WindowIsKept' /\ WindowHolds'
<1>1. times \subseteq Admitted BY DEF PostsAre
<1>2. PICK h \in 0..MaxClock : FilteredBy(h) BY DEF WindowIsKept
<1>3. Within(h)' = Within(h) BY <1>1 DEF Within
<1>4. FilteredBy(h)' BY <1>1, <1>2, <1>3 DEF FilteredBy
<1>5. ASSUME NEW from \in 0..MaxClock
      PROVE  {p \in Admitted' : post'[p].stamp \in from..(from + Window - 1)}
               = {p \in Admitted : post[p].stamp \in from..(from + Window - 1)}
   OBVIOUS
<1>6. WindowHolds' BY <1>5 DEF WindowHolds
<1> QED BY <1>2, <1>4, <1>6 DEF WindowIsKept

\* The window decides: under the mutex, with the time the request came by.
LEMMA GateKeepsPosts ==
    ASSUME AdmissionAssumption, PostsAre, NEW p \in Posts, Gate(p)
    PROVE  /\ PostsAre'
           /\ \A q \in Posts : post'[q].stamp = post[q].stamp
           /\ \A q \in Posts : q # p => post'[q] = post[q]
           /\ \/ Cardinality(Within(post[p].stamp)) >= RateCap /\ times' = Within(post[p].stamp)
                 /\ Admitted' = Admitted
              \/ Cardinality(Within(post[p].stamp)) < RateCap
                 /\ times' = Within(post[p].stamp) \union {p} /\ Admitted' = Admitted \union {p}
<1>1. /\ post \in [Posts -> Posted] /\ post[p] \in Posted /\ post[p].pc = "gate"
      /\ UNCHANGED <<clock, org, jobs, faults, outrun>>
   BY DEF PostsAre, Gate
<1>2. crossed' \subseteq crossed \union {p} BY DEF Gate
<1>3. ASSUME NEW pc \in {"refused", "scans", "served"}, PostTo(p, pc),
             pc = "scans" => post[p].kind \in JobKinds
      PROVE  /\ post' \in [Posts -> Posted] /\ \A q \in Posts : post'[q].stamp = post[q].stamp
             /\ \A q \in Posts : q # p => post'[q] = post[q]
             /\ post'[p].pc = pc /\ post'[p].kind = post[p].kind
   BY <1>1, <1>3 DEF PostTo, Posted
<1>4. ScanLimit' = ScanLimit BY <1>1 DEF ScanLimit, defaultMaxConcurrentScans
<1>5. ASSUME NEW pc \in {"refused", "scans", "served"}, PostTo(p, pc),
             pc = "scans" => post[p].kind \in JobKinds, times' \subseteq Admitted'
      PROVE  PostsAre'
   <2>1. \A q \in Posts : q # p => post'[q] = post[q] BY <1>3, <1>5
   <2>2. post'[p].pc = pc /\ post'[p].kind = post[p].kind BY <1>3, <1>5
   <2>3. ASSUME NEW q \in Posts
         PROVE  /\ post'[q].pc \in {"scans", "discoveries", "create"} => post'[q].kind \in JobKinds
                /\ post'[q].pc = "create" => post'[q].seen < ScanLimit
                /\ q \in crossed' => post'[q].pc \notin {"new", "gate"}
                /\ q \in outrun' => post'[q].pc = "created"
      BY <2>1, <2>2, <1>1, <1>2, <1>5 DEF PostsAre
   <2>4. post' \in [Posts -> Posted] BY <1>3, <1>5
   <2>5. crossed' \subseteq Posts BY <1>2 DEF PostsAre
   <2> QED BY <2>3, <2>4, <2>5, <1>1, <1>4, <1>5 DEF PostsAre
<1>6. CASE /\ Cardinality(Within(post[p].stamp)) >= RateCap /\ times' = Within(post[p].stamp)
           /\ PostTo(p, "refused")
   <2>1. /\ \A q \in Posts : q # p => post'[q] = post[q]
         /\ post'[p].pc = "refused" /\ \A q \in Posts : post'[q].stamp = post[q].stamp
      BY <1>3, <1>6
   <2>2. Admitted' = Admitted BY <2>1, <1>1 DEF Admitted
   <2>3. times' \subseteq Admitted' BY <2>2, <1>6 DEF PostsAre, Within
   <2> QED BY <2>1, <2>2, <2>3, <1>5, <1>6
<1>7. CASE /\ Cardinality(Within(post[p].stamp)) < RateCap /\ times' = Within(post[p].stamp) \union {p}
           /\ PostTo(p, IF post[p].kind \in JobKinds THEN "scans" ELSE "served")
   <2>1. PICK pc \in {"scans", "served"} :
            PostTo(p, pc) /\ (pc = "scans" => post[p].kind \in JobKinds)
      BY <1>7
   <2>2. /\ \A q \in Posts : q # p => post'[q] = post[q]
         /\ post'[p].pc = pc /\ \A q \in Posts : post'[q].stamp = post[q].stamp
      BY <1>3, <2>1
   <2>3. Admitted' = Admitted \union {p} BY <2>2, <1>1 DEF Admitted
   <2>4. times' \subseteq Admitted' BY <2>3, <1>7 DEF PostsAre, Within
   <2> QED BY <2>1, <2>2, <2>3, <2>4, <1>5, <1>7
<1> QED BY <1>6, <1>7 DEF Gate

LEMMA GateKeepsWindow ==
    ASSUME AdmissionAssumption, PostsAre, WindowIsKept, NEW p \in Posts, Gate(p)
    PROVE  WindowIsKept'
<1>1. \A q \in Posts : post[q].stamp \in 0..MaxClock BY DEF PostsAre, Posted
<1>0. PICK now \in 0..MaxClock : now = post[p].stamp BY <1>1
<1>2. RateCap \in Nat /\ Window \in Nat /\ Window > 0 /\ MaxClock \in Nat BY DEF AdmissionAssumption
<1>3. PICK h \in 0..MaxClock : FilteredBy(h) BY DEF WindowIsKept
<1>4. /\ PostsAre' /\ \A q \in Posts : post'[q].stamp = post[q].stamp
      /\ \/ Cardinality(Within(now)) >= RateCap /\ times' = Within(now) /\ Admitted' = Admitted
         \/ Cardinality(Within(now)) < RateCap /\ times' = Within(now) \union {p}
            /\ Admitted' = Admitted \union {p}
   BY <1>0, GateKeepsPosts
<1>5. times \subseteq Admitted /\ Admitted \subseteq Posts BY DEF PostsAre, Admitted
<1>6. CASE now <= h
   <2>1. \A q \in Admitted' \ times' : post'[q].stamp + Window <= h
      <3> SUFFICES ASSUME NEW q \in Admitted' \ times' PROVE post'[q].stamp + Window <= h OBVIOUS
      <3>1. q \in Admitted /\ q \in Posts BY <1>4, <1>5
      <3>2. CASE q \notin times BY <3>1, <3>2, <1>3, <1>4 DEF FilteredBy
      <3>3. CASE q \in times
         <4>1. ~ (post[q].stamp + Window > now) BY <3>3, <1>4 DEF Within
         <4> QED BY <4>1, <3>1, <1>1, <1>2, <1>4, <1>6
      <3> QED BY <3>2, <3>3
   <2>2. Within(now) \subseteq times' BY <1>4
   <2>3. CASE h = 0 BY <2>1, <2>3, <1>1 DEF WindowIsKept, FilteredBy
   <2>4. CASE \E k \in times : post[k].stamp >= h
      <3>1. PICK k \in times : post[k].stamp >= h BY <2>4
      <3>2. k \in Within(now) BY <3>1, <1>1, <1>2, <1>5, <1>6 DEF Within
      <3>3. k \in times' /\ post'[k].stamp >= h BY <2>2, <3>1, <3>2, <1>4, <1>5
      <3> QED BY <2>1, <3>3 DEF WindowIsKept, FilteredBy
   <2>5. CASE Cardinality(Within(h)) >= RateCap
      <3>1. Within(h) \subseteq Within(h)'
         <4> SUFFICES ASSUME NEW q \in Within(h) PROVE q \in Within(h)' OBVIOUS
         <4>1. q \in times /\ q \in Posts /\ post[q].stamp + Window > h BY <1>5 DEF Within
         <4>2. post[q].stamp + Window > now BY <4>1, <1>1, <1>2, <1>6
         <4>3. q \in times' BY <2>2, <4>1, <4>2 DEF Within
         <4> QED BY <4>1, <4>3, <1>4 DEF Within
      <3>2. IsFiniteSet(times') BY <1>4, AdmittedFinite, FS_AddElement
      <3>6. IsFiniteSet(Within(h)')
         <4>1. Within(h)' \in SUBSET times' BY DEF Within
         <4> QED BY <3>2, <4>1, FS_Subset
      <3>3. Cardinality(Within(h)) <= Cardinality(Within(h)') BY <3>1, <3>6, FS_Subset
      <3>4. Cardinality(Within(h)) \in Nat /\ Cardinality(Within(h)') \in Nat
         BY <3>6, AdmittedFinite, FS_CardinalityType
      <3>5. Cardinality(Within(h)') >= RateCap BY <2>5, <3>3, <3>4, <1>2
      <3> QED BY <2>1, <3>5 DEF WindowIsKept, FilteredBy
   <2> QED BY <2>3, <2>4, <2>5, <1>3 DEF FilteredBy
<1>7. CASE now > h
   <2>1. \A q \in Admitted' \ times' : post'[q].stamp + Window <= now
      <3> SUFFICES ASSUME NEW q \in Admitted' \ times' PROVE post'[q].stamp + Window <= now OBVIOUS
      <3>1. q \in Admitted /\ q \in Posts BY <1>4, <1>5
      <3>2. CASE q \notin times
         <4>1. post[q].stamp + Window <= h BY <3>1, <3>2, <1>3 DEF FilteredBy
         <4> QED BY <4>1, <3>1, <1>1, <1>2, <1>4, <1>7
      <3>3. CASE q \in times
         <4>1. ~ (post[q].stamp + Window > now) BY <3>3, <1>4 DEF Within
         <4> QED BY <4>1, <3>1, <1>1, <1>2, <1>4
      <3> QED BY <3>2, <3>3
   <2>2. CASE Cardinality(Within(now)) >= RateCap /\ times' = Within(now)
      <3>1. Within(now)' = Within(now) BY <2>2, <1>4, <1>5 DEF Within
      <3> QED BY <2>1, <2>2, <3>1, <1>1 DEF WindowIsKept, FilteredBy
   <2>3. CASE times' = Within(now) \union {p}
      <3>1. p \in times' /\ post'[p].stamp = now BY <2>3, <1>0, <1>4
      <3>2. \E k \in times' : post'[k].stamp >= now BY <3>1, <1>1
      <3> QED BY <2>1, <3>2, <1>1 DEF WindowIsKept, FilteredBy
   <2> QED BY <2>2, <2>3, <1>4
<1> QED BY <1>1, <1>6, <1>7

\* One who was decided in the order of the times fills a window that was not
\* full; the others are counted one by one.
LEMMA GateHoldsWindow ==
    ASSUME AdmissionAssumption, PostsAre, WindowIsKept, WindowHolds, NEW p \in Posts, Gate(p)
    PROVE  WindowHolds'
<1>1. \A q \in Posts : post[q].stamp \in 0..MaxClock BY DEF PostsAre, Posted
<1>2. PICK now \in 0..MaxClock : now = post[p].stamp BY <1>1
<1>3. RateCap \in Nat /\ Window \in Nat /\ Window > 0 /\ MaxClock \in Nat BY DEF AdmissionAssumption
<1>4. /\ PostsAre' /\ \A q \in Posts : post'[q].stamp = post[q].stamp
      /\ \/ Cardinality(Within(now)) >= RateCap /\ Admitted' = Admitted
         \/ Cardinality(Within(now)) < RateCap /\ Admitted' = Admitted \union {p}
   BY <1>2, GateKeepsPosts
<1>5. times \subseteq Admitted /\ Admitted \subseteq Posts BY DEF PostsAre, Admitted
<1>6. p \notin crossed BY DEF PostsAre, Gate
<1>7. crossed' = IF \E q \in times : post[q].stamp > now THEN crossed \union {p} ELSE crossed
   BY <1>2 DEF Gate
<1>8. /\ IsFiniteSet(crossed) /\ Cardinality(crossed) \in Nat
      /\ IsFiniteSet(Within(now)) /\ Cardinality(Within(now)) \in Nat
   BY AdmittedFinite
<1>9. /\ Cardinality(crossed') \in Nat /\ Cardinality(crossed') >= Cardinality(crossed)
      /\ crossed' # crossed => Cardinality(crossed') = Cardinality(crossed) + 1
   <2>1. Cardinality(crossed \union {p}) = Cardinality(crossed) + 1 BY <1>6, <1>8, FS_AddElement
   <2>2. Cardinality(crossed) \in Nat BY <1>8
   <2>3. CASE crossed' = crossed BY <2>2, <2>3
   <2>4. CASE crossed' = crossed \union {p} BY <2>1, <2>2, <2>4
   <2> QED BY <2>3, <2>4, <1>7
<1> SUFFICES ASSUME NEW from \in 0..MaxClock
             PROVE  Cardinality(InWindow(from)') <= RateCap + Cardinality(crossed')
   BY DEF WindowHolds, InWindow
<1>10. /\ IsFiniteSet(InWindow(from)) /\ Cardinality(InWindow(from)) \in Nat
       /\ Cardinality(InWindow(from)) <= RateCap + Cardinality(crossed)
   BY AdmittedFinite DEF WindowHolds, InWindow
<1>11. ASSUME InWindow(from)' = InWindow(from)
       PROVE  Cardinality(InWindow(from)') <= RateCap + Cardinality(crossed')
   BY <1>3, <1>8, <1>9, <1>10, <1>11
<1>12. CASE Admitted' = Admitted
   <2>1. InWindow(from)' = InWindow(from) BY <1>4, <1>5, <1>12 DEF InWindow
   <2> QED BY <2>1, <1>11
<1>13. CASE Cardinality(Within(now)) < RateCap /\ Admitted' = Admitted \union {p}
   <2>1. CASE now \notin from..(from + Window - 1)
      <3>1. InWindow(from)' = InWindow(from) BY <2>1, <1>2, <1>4, <1>5, <1>13 DEF InWindow
      <3> QED BY <3>1, <1>11
   <2>2. CASE now \in from..(from + Window - 1)
      <3>1. InWindow(from)' = InWindow(from) \union {p}
         BY <2>2, <1>2, <1>4, <1>5, <1>13 DEF InWindow
      <3>2. /\ Cardinality(InWindow(from)') <= Cardinality(InWindow(from)) + 1
            /\ Cardinality(InWindow(from)') \in Nat
         <4>1. Cardinality(InWindow(from) \union {p})
                 = IF p \in InWindow(from) THEN Cardinality(InWindow(from))
                   ELSE Cardinality(InWindow(from)) + 1
            BY <1>10, FS_AddElement
         <4>2. \/ Cardinality(InWindow(from)') = Cardinality(InWindow(from))
               \/ Cardinality(InWindow(from)') = Cardinality(InWindow(from)) + 1
            BY <3>1, <4>1
         <4> QED BY <4>2, <1>10
      <3>3. CASE crossed' # crossed
         <4>1. Cardinality(crossed') = Cardinality(crossed) + 1 BY <3>3, <1>9
         <4> QED BY <4>1, <3>2, <1>3, <1>8, <1>10
      <3>4. CASE crossed' = crossed
         \* Nothing later went by: what had left the window is not inside.
         <4>1. \A q \in times : post[q].stamp <= now
            <5>1. \A q \in times : ~ (post[q].stamp > now) BY <3>4, <1>6, <1>7
            <5> QED BY <5>1, <1>1, <1>5
         <4>2. PICK h \in 0..MaxClock : FilteredBy(h) BY DEF WindowIsKept
         <4>3. h <= now
            <5> SUFFICES ASSUME now < h PROVE FALSE OBVIOUS
            <5>1. Cardinality(Within(h)) >= RateCap BY <4>1, <4>2, <1>1, <1>5 DEF FilteredBy
            <5>2. Within(h) \in SUBSET Within(now) BY <1>1, <1>3, <1>5 DEF Within
            <5>3. Cardinality(Within(h)) <= Cardinality(Within(now)) BY <5>2, <1>8, FS_Subset
            <5>4. Cardinality(Within(h)) \in Nat BY AdmittedFinite
            <5> QED BY <5>1, <5>3, <5>4, <1>3, <1>8, <1>13
         <4>4. InWindow(from) \in SUBSET Within(now)
            <5> SUFFICES ASSUME NEW q \in InWindow(from) PROVE q \in Within(now) OBVIOUS
            <5>1. /\ q \in Admitted /\ q \in Posts
                  /\ post[q].stamp \in Nat /\ post[q].stamp >= from /\ now <= from + Window - 1
               BY <2>2, <1>1, <1>5 DEF InWindow
            <5>2. post[q].stamp + Window > now BY <5>1, <1>3
            <5>3. q \in times
               <6> SUFFICES ASSUME q \notin times PROVE FALSE OBVIOUS
               <6>1. post[q].stamp + Window <= h BY <5>1, <4>2 DEF FilteredBy
               <6> QED BY <6>1, <5>1, <5>2, <4>3, <1>3
            <5> QED BY <5>2, <5>3 DEF Within
         <4>5. Cardinality(InWindow(from)) <= Cardinality(Within(now)) BY <4>4, <1>8, FS_Subset
         <4> QED BY <4>5, <3>2, <1>3, <1>8, <1>9, <1>10, <1>13
      <3> QED BY <3>3, <3>4
   <2> QED BY <2>1, <2>2
<1> QED BY <1>4, <1>12, <1>13

\* Nothing that the throttle compares is about the window.
LEMMA OthersKeepPosts ==
    ASSUME AdmissionAssumption, PostsAre, ThrottleHolds, NEW p \in Posts,
           Arrive(p) \/ CountScans(p) \/ Throttle(p)
    PROVE  /\ PostsAre' /\ Admitted' = Admitted
           /\ \A q \in Admitted : post'[q].stamp = post[q].stamp
           /\ UNCHANGED <<times, crossed, jobs, outrun, org>>
<1>1. /\ post \in [Posts -> Posted] /\ post[p] \in Posted
      /\ UNCHANGED <<times, crossed, jobs, outrun, org, clock>>
   BY DEF PostsAre, Arrive, CountScans, Throttle
<1>2. ScanLimit' = ScanLimit BY <1>1 DEF ScanLimit, defaultMaxConcurrentScans
<1>3. faults' \in 0..MaxFaults
   BY DEF AdmissionAssumption, PostsAre, Arrive, CountScans, Throttle, Err
<1>4. \A kind : ActiveJobs(kind) \in Nat
   <2> SUFFICES ASSUME NEW kind PROVE ActiveJobs(kind) \in Nat OBVIOUS
   <2>1. IsFiniteSet(jobs) /\ {j \in jobs : j[2] = kind} \in SUBSET jobs BY DEF PostsAre
   <2> QED BY <2>1, FS_Subset, FS_CardinalityType DEF ActiveJobs
<1>5. ASSUME NEW pc \in {"gate", "discoveries", "throttled", "create", "failed"},
             NEW stamp \in 0..MaxClock, NEW count \in Nat,
             \A q \in Posts : q # p => post'[q] = post[q],
             post' \in [Posts -> Posted], post'[p].pc = pc, post'[p].stamp = stamp,
             post'[p].seen = count, post'[p].kind = post[p].kind,
             post[p].pc \in {"new", "scans", "discoveries"},
             pc = "gate" <=> post[p].pc = "new",
             pc # "gate" => stamp = post[p].stamp,
             pc = "create" => count < ScanLimit
      PROVE  /\ PostsAre' /\ Admitted' = Admitted
             /\ \A q \in Admitted : post'[q].stamp = post[q].stamp
   <2>1. Admitted' = Admitted BY <1>5 DEF Admitted
   <2>2. \A q \in Admitted : post'[q].stamp = post[q].stamp BY <1>5 DEF Admitted
   <2>3. ASSUME NEW q \in Posts
         PROVE  /\ post'[q].pc \in {"scans", "discoveries", "create"} => post'[q].kind \in JobKinds
                /\ post'[q].pc = "create" => post'[q].seen < ScanLimit
                /\ q \in crossed => post'[q].pc \notin {"new", "gate"}
                /\ q \in outrun => post'[q].pc = "created"
      BY <1>5 DEF PostsAre
   <2>4. PostsAre' BY <1>1, <1>2, <1>3, <1>5, <2>1, <2>3 DEF PostsAre
   <2> QED BY <2>1, <2>2, <2>4
<1>6. CASE Arrive(p)
   <2>1. post' = [post EXCEPT ![p].pc = "gate", ![p].stamp = clock] /\ post[p].pc = "new"
      BY <1>6 DEF Arrive
   <2>2. clock \in 0..MaxClock /\ post[p].seen \in Nat BY <1>1 DEF PostsAre, Posted
   <2>3. /\ \A q \in Posts : q # p => post'[q] = post[q]
         /\ post' \in [Posts -> Posted] /\ post'[p].pc = "gate" /\ post'[p].stamp = clock
         /\ post'[p].seen = post[p].seen /\ post'[p].kind = post[p].kind
      BY <2>1, <2>2, <1>1 DEF Posted
   <2> QED BY <2>1, <2>2, <2>3, <1>1, <1>5
<1>7. ASSUME NEW pc \in {"discoveries", "throttled", "create", "failed"}, NEW count \in Nat,
             post' = [post EXCEPT ![p].pc = pc, ![p].seen = count] \/ (PostTo(p, pc) /\ count = post[p].seen),
             post[p].pc \in {"scans", "discoveries"}, pc = "create" => count < ScanLimit
      PROVE  /\ PostsAre' /\ Admitted' = Admitted
             /\ \A q \in Admitted : post'[q].stamp = post[q].stamp
   <2>1. post[p].stamp \in 0..MaxClock BY <1>1 DEF Posted
   <2>2. /\ \A q \in Posts : q # p => post'[q] = post[q]
         /\ post'[p].pc = pc /\ post'[p].stamp = post[p].stamp
         /\ post'[p].seen = count /\ post'[p].kind = post[p].kind
      BY <1>1, <1>7 DEF PostTo, Posted
   <2>3. post' \in [Posts -> Posted] BY <1>1, <1>7 DEF PostTo, Posted
   <2> QED BY <2>1, <2>2, <2>3, <1>5, <1>7
<1>8. CASE CountScans(p)
   <2>1. post[p].pc = "scans" /\ post[p].seen \in Nat BY <1>1, <1>8 DEF CountScans, Posted
   <2>2. \/ post' = [post EXCEPT ![p].pc = "discoveries", ![p].seen = ActiveJobs("scan")]
         \/ PostTo(p, "failed")
      BY <1>8 DEF CountScans
   <2> QED BY <2>1, <2>2, <1>1, <1>4, <1>7
<1>9. CASE Throttle(p)
   <2> DEFINE active == post[p].seen + ActiveJobs("discovery")
   <2>1. post[p].pc = "discoveries" /\ post[p].seen \in Nat BY <1>1, <1>9 DEF Throttle, Posted
   <2>2. active \in Nat BY <2>1, <1>4
   <2>3. \/ post' = [post EXCEPT ![p].seen = active,
                                 ![p].pc = IF active >= ScanLimit THEN "throttled" ELSE "create"]
         \/ PostTo(p, "failed")
      BY <1>9 DEF Throttle
   <2>4. ScanLimit \in Int BY DEF AdmissionAssumption, PostsAre, ScanLimit, defaultMaxConcurrentScans
   <2> HIDE DEF active
   <2>5. CASE PostTo(p, "failed") BY <2>1, <2>5, <1>1, <1>7
   <2>6. ASSUME NEW pc \in {"throttled", "create"}, pc = "create" => active < ScanLimit,
                post' = [post EXCEPT ![p].seen = active, ![p].pc = pc]
         PROVE  /\ PostsAre' /\ Admitted' = Admitted
                /\ \A q \in Admitted : post'[q].stamp = post[q].stamp
      <3>0. DOMAIN post[p] = {"pc", "seen", "kind", "stamp"} BY <1>1 DEF Posted
      <3>1. post' = [post EXCEPT ![p].pc = pc, ![p].seen = active] BY <2>6, <3>0
      <3> QED BY <3>1, <2>1, <2>2, <2>6, <1>7
   <2>7. active >= ScanLimit \/ active < ScanLimit BY <2>2, <2>4
   <2> QED BY <2>3, <2>5, <2>6, <2>7, <1>1
<1> QED BY <1>1, <1>6, <1>8, <1>9

LEMMA CreateJobKeeps ==
    ASSUME AdmissionAssumption, AdmissionInv, NEW p \in Posts, CreateJob(p)
    PROVE  AdmissionInv'
<1>1. /\ post \in [Posts -> Posted] /\ post[p] \in Posted /\ post[p].pc = "create"
      /\ post[p].seen \in Nat /\ post[p].seen < ScanLimit /\ post[p].kind \in JobKinds
      /\ UNCHANGED <<clock, times, org, crossed>>
   BY DEF AdmissionInv, PostsAre, Posted, CreateJob
<1>2. /\ IsFiniteSet(jobs) /\ Cardinality(jobs) \in Nat /\ IsFiniteSet(outrun)
      /\ Cardinality(outrun) \in Nat
   BY AdmittedFinite DEF AdmissionInv, PostsAre
<1>3. ScanLimit' = ScanLimit /\ ScanLimit \in Int
   BY <1>1 DEF ScanLimit, defaultMaxConcurrentScans, AdmissionInv, PostsAre, AdmissionAssumption
<1>4. p \notin outrun BY <1>1 DEF AdmissionInv, PostsAre
<1>5. \/ /\ jobs' = jobs \union {<<p, post[p].kind>>} /\ PostTo(p, "created") /\ UNCHANGED faults
         /\ outrun' = IF Cardinality(jobs) > post[p].seen THEN outrun \union {p} ELSE outrun
      \/ Err /\ PostTo(p, "failed") /\ UNCHANGED <<jobs, outrun>>
   BY DEF CreateJob
<1>6. PICK pc \in {"created", "failed"} : PostTo(p, pc) /\ (outrun' # outrun => pc = "created")
   BY <1>5
<1>7. /\ post' \in [Posts -> Posted] /\ \A q \in Posts : q # p => post'[q] = post[q]
      /\ post'[p].pc = pc /\ \A q \in Posts : post'[q].stamp = post[q].stamp
   BY <1>1, <1>6 DEF PostTo, Posted
<1>8. Admitted' = Admitted BY <1>1, <1>7 DEF Admitted
<1>9. faults' \in 0..MaxFaults /\ outrun' \subseteq outrun \union {p}
   BY <1>5 DEF AdmissionInv, PostsAre, AdmissionAssumption, Err
<1>10. jobs' \subseteq (Posts \union {Standing}) \X JobKinds /\ IsFiniteSet(jobs')
   <2>1. jobs \subseteq (Posts \union {Standing}) \X JobKinds BY DEF AdmissionInv, PostsAre
   <2>2. <<p, post[p].kind>> \in (Posts \union {Standing}) \X JobKinds BY <1>1
   <2>3. IsFiniteSet(jobs \union {<<p, post[p].kind>>}) BY <1>2, FS_AddElement
   <2>4. jobs' = jobs \/ jobs' = jobs \union {<<p, post[p].kind>>} BY <1>5
   <2> QED BY <2>1, <2>2, <2>3, <2>4, <1>2
<1>11. PostsAre'
   <2>1. ASSUME NEW q \in Posts
         PROVE  /\ post'[q].pc \in {"scans", "discoveries", "create"} => post'[q].kind \in JobKinds
                /\ post'[q].pc = "create" => post'[q].seen < ScanLimit
                /\ q \in crossed => post'[q].pc \notin {"new", "gate"}
                /\ q \in outrun' => post'[q].pc = "created"
      BY <1>4, <1>6, <1>7, <1>9 DEF AdmissionInv, PostsAre
   <2> QED BY <2>1, <1>1, <1>3, <1>7, <1>8, <1>9, <1>10 DEF AdmissionInv, PostsAre
<1>12. WindowIsKept' /\ WindowHolds'
   <2>1. Admitted \subseteq Posts BY DEF Admitted
   <2> QED BY <2>1, <1>1, <1>7, <1>8, WindowStands DEF AdmissionInv
<1>13. ThrottleHolds'
   <2>1. Cardinality(jobs) <= ScanLimit + Cardinality(outrun) BY DEF AdmissionInv, ThrottleHolds
   <2>2. CASE UNCHANGED <<jobs, outrun>> BY <2>1, <2>2, <1>3 DEF ThrottleHolds
   <2>3. CASE /\ jobs' = jobs \union {<<p, post[p].kind>>}
              /\ outrun' = IF Cardinality(jobs) > post[p].seen THEN outrun \union {p} ELSE outrun
      <3>1. Cardinality(jobs') <= Cardinality(jobs) + 1 /\ Cardinality(jobs') \in Nat
         <4>1. Cardinality(jobs') = Cardinality(jobs) \/ Cardinality(jobs') = Cardinality(jobs) + 1
            BY <2>3, <1>2, FS_AddElement
         <4> QED BY <4>1, <1>2
      <3>2. CASE Cardinality(jobs) > post[p].seen
         \* Somebody else's job came in between: it is counted by this request.
         <4>1. Cardinality(outrun') = Cardinality(outrun) + 1 BY <2>3, <3>2, <1>2, <1>4, FS_AddElement
         <4>2. Cardinality(jobs') <= ScanLimit + Cardinality(outrun')
            BY <4>1, <2>1, <3>1, <1>2, <1>3
         <4> QED BY <4>2, <1>3 DEF ThrottleHolds
      <3>3. CASE ~ (Cardinality(jobs) > post[p].seen)
         <4>1. outrun' = outrun BY <2>3, <3>3
         <4>2. Cardinality(jobs') <= ScanLimit + Cardinality(outrun)
            BY <3>1, <3>3, <1>1, <1>2, <1>3
         <4> QED BY <4>1, <4>2, <1>3 DEF ThrottleHolds
      <3> QED BY <3>2, <3>3
   <2> QED BY <2>2, <2>3, <1>5
<1> QED BY <1>11, <1>12, <1>13 DEF AdmissionInv

LEMMA JobEndsKeeps ==
    ASSUME AdmissionAssumption, AdmissionInv, JobEnds PROVE AdmissionInv'
<1>1. /\ UNCHANGED <<clock, times, org, post, faults, crossed, outrun>>
      /\ \E j \in jobs : jobs' = jobs \ {j}
   BY DEF JobEnds
<1>2. /\ jobs' \in SUBSET jobs /\ IsFiniteSet(jobs) /\ Cardinality(jobs) \in Nat
      /\ Cardinality(outrun) \in Nat
   BY <1>1, AdmittedFinite DEF AdmissionInv, PostsAre
<1>3. IsFiniteSet(jobs') /\ Cardinality(jobs') <= Cardinality(jobs) /\ Cardinality(jobs') \in Nat
   BY <1>2, FS_Subset, FS_CardinalityType
<1>4. ScanLimit' = ScanLimit /\ ScanLimit \in Int
   BY <1>1 DEF ScanLimit, defaultMaxConcurrentScans, AdmissionInv, PostsAre, AdmissionAssumption
<1>5. Admitted' = Admitted BY <1>1 DEF Admitted
<1>6. PostsAre' BY <1>1, <1>2, <1>3, <1>4, <1>5 DEF AdmissionInv, PostsAre
<1>7. WindowIsKept' /\ WindowHolds' BY <1>1, <1>5, WindowStands DEF AdmissionInv
<1>8. ThrottleHolds' BY <1>1, <1>2, <1>3, <1>4 DEF AdmissionInv, ThrottleHolds
<1> QED BY <1>6, <1>7, <1>8 DEF AdmissionInv

LEMMA AdmissionStart ==
    ASSUME AdmissionAssumption, AdmissionInit PROVE AdmissionInv
<1>1. /\ clock = 0 /\ times = {} /\ org \in Orgs /\ faults = 0 /\ crossed = {} /\ outrun = {}
      /\ jobs \in {{}, {<<Standing, "scan">>}}
      /\ MaxClock \in Nat /\ MaxFaults \in Nat /\ RateCap \in Nat
   BY DEF AdmissionInit, AdmissionAssumption
<1>2. PICK asked \in Asks : post = [p \in Posts |-> Arriving(asked[p])] BY DEF AdmissionInit
<1>3. \A p \in Posts : Arriving(asked[p]) \in Posted /\ post[p].pc = "new"
   BY <1>1, <1>2 DEF Arriving, Posted, AdmissionAssumption
<1>4. Admitted = {} BY <1>3 DEF Admitted
<1>5. /\ IsFiniteSet(jobs) /\ Cardinality(jobs) \in {0, 1} /\ Cardinality({}) = 0
   <2>1. IsFiniteSet({}) /\ Cardinality({}) = 0 BY FS_EmptySet
   <2>2. IsFiniteSet({<<Standing, "scan">>}) /\ Cardinality({<<Standing, "scan">>}) = 1
      BY FS_Singleton
   <2> QED BY <2>1, <2>2, <1>1
<1>6. PostsAre BY <1>1, <1>2, <1>3, <1>4, <1>5 DEF PostsAre, JobKinds
<1>7. WindowIsKept BY <1>1, <1>4 DEF WindowIsKept, FilteredBy
<1>8. WindowHolds
   <2> SUFFICES ASSUME NEW from \in 0..MaxClock
                PROVE  Cardinality({p \in Admitted : post[p].stamp \in from..(from + Window - 1)})
                         <= RateCap + Cardinality(crossed)
      BY DEF WindowHolds
   <2>1. {p \in Admitted : post[p].stamp \in from..(from + Window - 1)} = {} BY <1>4
   <2>2. 0 <= RateCap + 0 BY <1>1
   <2> QED BY <2>1, <2>2, <1>1, <1>5
<1>9. ThrottleHolds
   <2>1. ScanLimit \in Int /\ ScanLimit >= 1
      BY <1>1 DEF ScanLimit, defaultMaxConcurrentScans, AdmissionAssumption
   <2> QED BY <2>1, <1>1, <1>5 DEF ThrottleHolds
<1> QED BY <1>6, <1>7, <1>8, <1>9 DEF AdmissionInv

\* What the window and the throttle know of the requests is kept by every step.
THEOREM AdmissionInductive == AdmissionSpec => []AdmissionInv
<1> USE AdmissionAssumption
<1>1. AdmissionInit => AdmissionInv BY AdmissionStart
<1>2. AdmissionInv /\ [AdmissionNext]_admissionVars => AdmissionInv'
   <2> SUFFICES ASSUME AdmissionInv, [AdmissionNext]_admissionVars PROVE AdmissionInv' OBVIOUS
   <2>0. PostsAre /\ WindowIsKept /\ WindowHolds /\ ThrottleHolds BY DEF AdmissionInv
   <2>1. ASSUME NEW p \in Posts, Arrive(p) \/ CountScans(p) \/ Throttle(p) PROVE AdmissionInv'
      <3>1. /\ PostsAre' /\ Admitted' = Admitted
            /\ \A q \in Admitted : post'[q].stamp = post[q].stamp
            /\ UNCHANGED <<times, crossed, jobs, outrun, org>>
         BY <2>0, <2>1, OthersKeepPosts
      <3>2. WindowIsKept' /\ WindowHolds' BY <2>0, <3>1, WindowStands
      <3>3. ScanLimit' = ScanLimit BY <3>1 DEF ScanLimit, defaultMaxConcurrentScans
      <3>4. ThrottleHolds' BY <2>0, <3>1, <3>3 DEF ThrottleHolds
      <3> QED BY <3>1, <3>2, <3>4 DEF AdmissionInv
   <2>2. ASSUME NEW p \in Posts, Gate(p) PROVE AdmissionInv'
      <3>1. PostsAre' BY <2>0, <2>2, GateKeepsPosts
      <3>2. WindowIsKept' /\ WindowHolds' BY <2>0, <2>2, GateKeepsWindow, GateHoldsWindow
      <3>3. UNCHANGED <<org, jobs, outrun>> BY <2>2 DEF Gate
      <3>4. ThrottleHolds'
         BY <2>0, <3>3 DEF ThrottleHolds, ScanLimit, defaultMaxConcurrentScans
      <3> QED BY <3>1, <3>2, <3>4 DEF AdmissionInv
   <2>3. ASSUME NEW p \in Posts, CreateJob(p) PROVE AdmissionInv' BY <2>3, CreateJobKeeps
   <2>4. CASE JobEnds BY <2>4, JobEndsKeeps
   <2>5. CASE Tick \/ UNCHANGED admissionVars
      <3>1. clock' \in 0..MaxClock /\ UNCHANGED <<times, org, jobs, post, faults, crossed, outrun>>
         BY <2>0, <2>5 DEF PostsAre, Tick, admissionVars, AdmissionAssumption
      <3>2. Admitted' = Admitted /\ ScanLimit' = ScanLimit
         BY <3>1 DEF Admitted, ScanLimit, defaultMaxConcurrentScans
      <3>3. PostsAre' BY <2>0, <3>1, <3>2 DEF PostsAre
      <3>4. WindowIsKept' /\ WindowHolds' BY <2>0, <3>1, <3>2, WindowStands
      <3>5. ThrottleHolds' BY <2>0, <3>1, <3>2 DEF ThrottleHolds
      <3> QED BY <3>3, <3>4, <3>5 DEF AdmissionInv
   <2> QED BY <2>1, <2>2, <2>3, <2>4, <2>5 DEF AdmissionNext
<1> QED BY <1>1, <1>2, PTL DEF AdmissionSpec

\* Whatever the requests ask for, they are at one of the places of RateLimit
\* and EnforceScanThrottle, and the window remembers only those it let in.
THEOREM AdmissionTypes == AdmissionSpec => []AdmissionTypeOK
<1> USE AdmissionAssumption
<1>1. AdmissionInv => AdmissionTypeOK
   BY DEF AdmissionInv, PostsAre, Posted, AdmissionTypeOK
<1> QED BY <1>1, AdmissionInductive, PTL

\* No window lets more in than its limit, but for those that were overtaken
\* between time.Now and the mutex; no more jobs are active than the limit, but
\* for those whose count was overtaken (middleware.go:280-307, admin_ops.go:1229-1273).
THEOREM AdmissionHoldsAlways == AdmissionSpec => []AdmissionHolds
<1> USE AdmissionAssumption
<1>1. AdmissionInv => AdmissionHolds BY DEF AdmissionInv, AdmissionHolds
<1> QED BY <1>1, AdmissionInductive, PTL

-----------------------------------------------------------------------------
(***************************************************************************)
(* ChangeDetection: the inductive invariant.                               *)
(***************************************************************************)
Snaps == [Keys -> Vals \cup {Absent}]
Stood == {b \in Rows : b = Unset \/ b.val # Absent}
Bases == [Keys -> Stood]
Events == [kind : {"new", "changed", "removed"}, old : Vals \cup {Absent},
           new : Vals \cup {Absent}]
Outside == {"off", "snapshot"}
Writing == {"compare", "save", "events"}
Runs == [pc : Outside \cup {"baseline"} \cup Writing, run : 0..MaxScans, at : 0..Len(Types),
         cur : Snaps \cup {<<>>}, prev : Bases \cup {<<>>}, save : SUBSET Keys,
         late : SUBSET Slots, wrote : BOOLEAN]

\* A run between its first and its last statement of a type has a difference
\* to write; until it wrote, everything is left to be written.
IsRun(r) ==
    /\ r \in Runs
    /\ r.pc # "off" => r.at \in DOMAIN Types
    /\ r.pc \notin {"save", "events"} => ~r.wrote
    /\ r.pc \notin Outside => r.cur \in Snaps
    /\ r.pc \in Writing => /\ r.prev \in Bases /\ Differs(r) # {}
                           /\ r.save \subseteq ChangedKeys(r)
                           /\ ~r.wrote => r.save = ChangedKeys(r)
    /\ r.pc = "save" /\ ~r.wrote => NewKeys(r) = {}
    /\ r.pc = "events" => r.wrote
RunsAre == detector \in [Detectors -> Runs] /\ \A d \in Detectors : IsRun(detector[d])

DataAre ==
    /\ source \in [TrackedTypes -> [Keys -> SUBSET Vals]]
    /\ baseline \in [TrackedTypes -> Bases]
    /\ timeline \in [TrackedTypes -> [Keys -> Seq(Events)]]
    /\ scans \in 0..MaxScans /\ alters \in 0..MaxAlters /\ errors \in 0..MaxErrors
    /\ touched \subseteq Slots /\ excused \subseteq Slots

On(r, t, pcs) == r.pc \in pcs /\ Types[r.at] = t
Past == Writing \cup {"baseline"}

\* Two runs that are to write the same key are on record as such.
Alone ==
    \A d, e \in Detectors, t \in TrackedTypes, k \in Keys :
        d # e /\ On(detector[d], t, Writing) /\ On(detector[e], t, Writing)
        /\ k \in Differs(detector[d]) /\ k \in Differs(detector[e])
          => <<t, k>> \in excused

\* What a run has made of the row b of a key it is to write.
Wrote(r, k, b) ==
    /\ ~r.wrote => b = r.prev[k]
    /\ r.pc = "save" /\ r.wrote =>
          IF k \in NewKeys(r) \/ (k \in ChangedKeys(r) /\ k \notin r.save)
          THEN b.val = r.cur[k] ELSE b = r.prev[k]
    /\ r.pc = "events" => b.val = r.cur[k]
WrittenBy(d) ==
    \A t \in TrackedTypes, k \in Keys :
        On(detector[d], t, Writing) /\ k \in Differs(detector[d]) /\ <<t, k>> \notin excused
          => /\ Wrote(detector[d], k, baseline[t][k])
             /\ ~detector[d].wrote => baseline[t][k].val = Told(t, k)
Written == \A d \in Detectors : WrittenBy(d)

\* A run that has not been overtaken at a key sees it as it is, alone.
Matches(S, v) == IF S = {} THEN v = Absent ELSE v \in S
FreshFor(d) ==
    \A t \in TrackedTypes, k \in Keys :
        On(detector[d], t, Past) /\ <<t, k>> \notin detector[d].late =>
          /\ Matches(source[t][k], detector[d].cur[k])
          /\ \A e \in Detectors : e # d => ~On(detector[e], t, Past)
          /\ detector[d].pc \in Writing /\ k \notin Differs(detector[d])
                => baseline[t][k] = detector[d].prev[k]
Fresh == \A d \in Detectors : FreshFor(d)

\* A key whose assets nothing touched since they were compared: the baseline
\* and every run that looks at it agree with them.
Untouched ==
    \A t \in TrackedTypes, k \in Keys :
        <<t, k>> \notin touched /\ <<t, k>> \notin excused /\ ~Shared(t, k) =>
          /\ Matches(source[t][k], baseline[t][k].val)
          /\ \A d \in Detectors : On(detector[d], t, Past) =>
                /\ Matches(source[t][k], detector[d].cur[k])
                /\ detector[d].pc \in Writing => k \notin Differs(detector[d])

\* The value of a key in the baseline is the one its last event led to, but
\* for the writes that are under way.
ToldFor(t, k) ==
    \/ baseline[t][k].val = Told(t, k)
    \/ <<t, k>> \in excused
    \/ \E d \in Detectors : On(detector[d], t, Writing) /\ k \in Differs(detector[d])
AllTold == \A t \in TrackedTypes, k \in Keys : ToldFor(t, k)

CInv == DataAre /\ RunsAre /\ Alone /\ Written /\ Fresh /\ Untouched /\ AllTold

-----------------------------------------------------------------------------
LEMMA TypesAre ==
    /\ DOMAIN Types = 1..Len(Types) /\ Len(Types) \in Nat \ {0} /\ 1 \in DOMAIN Types
    /\ \A i \in DOMAIN Types : Types[i] \in TrackedTypes
    /\ \A i, j \in DOMAIN Types : Types[i] = Types[j] => i = j
  <1>1. Types \in Seq(TrackedTypes) /\ Types # <<>> /\ IsInjective(Types)
    BY ChangeDetectionAssumption
  <1>2. DOMAIN Types = 1..Len(Types) /\ Len(Types) \in Nat \ {0}
    BY <1>1, EmptySeq, LenProperties
  <1> QED
    BY <1>1, <1>2 DEF IsInjective

\* What a run finds depends on its snapshot and the baseline it read.
LEMMA SameFound ==
    ASSUME NEW r, NEW n, n.cur = r.cur, n.prev = r.prev
    PROVE  /\ NewKeys(n) = NewKeys(r) /\ ChangedKeys(n) = ChangedKeys(r)
           /\ RemovedKeys(n) = RemovedKeys(r) /\ Differs(n) = Differs(r)
           /\ \A k : Event(n, k) = Event(r, k)
  BY DEF NewKeys, ChangedKeys, RemovedKeys, Differs, Event

LEMMA FoundKeys ==
    ASSUME NEW r
    PROVE  /\ NewKeys(r) \subseteq Keys /\ ChangedKeys(r) \subseteq Keys
           /\ RemovedKeys(r) \subseteq Keys /\ Differs(r) \subseteq Keys
           /\ Differs(r) = NewKeys(r) \cup ChangedKeys(r) \cup RemovedKeys(r)
           /\ \A k \in NewKeys(r) : k \notin ChangedKeys(r) /\ k \notin RemovedKeys(r)
           /\ \A k \in ChangedKeys(r) : k \notin RemovedKeys(r)
           /\ \A k \in RemovedKeys(r) : r.cur[k] = Absent
           /\ \A k \in NewKeys(r) \cup ChangedKeys(r) : r.cur[k] # Absent
           /\ \A k \in NewKeys(r) : r.prev[k] = Unset
  BY DEF NewKeys, ChangedKeys, RemovedKeys, Differs

\* No difference: the baseline has the value the run saw.
LEMMA NoDifference ==
    ASSUME NEW r, r.prev \in Bases, NEW k \in Keys, k \notin Differs(r)
    PROVE  r.prev[k].val = r.cur[k]
  <1>1. r.prev[k] = Unset \/ r.prev[k].val # Absent
    BY DEF Bases, Stood
  <1>2. Unset.val = Absent
    BY DEF Unset
  <1> QED
    BY <1>1, <1>2 DEF NewKeys, ChangedKeys, RemovedKeys, Differs

\* A difference is one in value.
LEMMA Difference ==
    ASSUME NEW r, r.prev \in Bases, NEW k \in Differs(r)
    PROVE  r.prev[k].val # r.cur[k]
  <1>1. k \in Keys /\ (r.prev[k] = Unset \/ r.prev[k].val # Absent)
    BY FoundKeys DEF Bases, Stood
  <1>2. Unset.val = Absent
    BY DEF Unset
  <1> QED
    BY <1>1, <1>2 DEF NewKeys, ChangedKeys, RemovedKeys, Differs

LEMMA RestingIs ==
    IsRun(Resting) /\ Resting \in Runs /\ Resting.pc = "off" /\ Resting.wrote = FALSE
  <1>1. Len(Types) \in Nat /\ MaxScans \in Nat
    BY TypesAre, ChangeDetectionAssumption
  <1> QED
    BY <1>1 DEF IsRun, Runs, Resting, Outside, Writing

LEMMA NextTypeIs ==
    ASSUME NEW r, IsRun(r), r.pc # "off"
    PROVE  IsRun(NextType(r)) /\ NextType(r).pc \in Outside
  <1> DEFINE n == [Resting EXCEPT !.pc = "snapshot", !.run = r.run, !.at = r.at + 1]
  <1>1. r.at \in 1..Len(Types) /\ r.run \in 0..MaxScans /\ Len(Types) \in Nat
    BY TypesAre DEF IsRun, Runs
  <1>2. CASE r.at = Len(Types)
    BY <1>2, RestingIs DEF NextType, Outside
  <1>3. CASE r.at # Len(Types)
    <2>1. r.at + 1 \in 1..Len(Types) /\ r.at + 1 \in 0..Len(Types)
      BY <1>1, <1>3
    <2>2. n \in Runs /\ n.pc = "snapshot" /\ n.at = r.at + 1 /\ n.wrote = FALSE
      <3> DEFINE q == Resting
                 a == r.run
                 b == r.at + 1
      <3>1. q \in Runs /\ q.wrote = FALSE /\ a \in 0..MaxScans /\ b \in 0..Len(Types)
        BY <1>1, <2>1, RestingIs
      <3>2. n = [q EXCEPT !.pc = "snapshot", !.run = a, !.at = b] /\ r.at + 1 = b
        OBVIOUS
      <3> HIDE DEF q, a, b
      <3> HIDE DEF n
      <3> QED
        BY <3>1, <3>2 DEF Runs, Outside
    <2> HIDE DEF n
    <2>3. IsRun(n)
      BY <2>1, <2>2, TypesAre DEF IsRun, Outside, Writing
    <2>4. NextType(r) = n
      BY <1>3 DEF NextType, n
    <2> QED
      BY <2>2, <2>3, <2>4 DEF Outside
  <1> QED
    BY <1>2, <1>3

LEMMA OneTurn ==
    ASSUME RunsAre, NEW d \in Detectors, NEW n, IsRun(n), Goto(d, n)
    PROVE  RunsAre' /\ detector'[d] = n /\ \A e \in Detectors \ {d} : detector'[e] = detector[e]
  <1>1. n \in Runs /\ detector \in [Detectors -> Runs]
    BY DEF IsRun, RunsAre
  <1>2. /\ detector' \in [Detectors -> Runs] /\ detector'[d] = n
        /\ \A e \in Detectors \ {d} : detector'[e] = detector[e]
    BY <1>1 DEF Goto
  <1>3. \A e \in Detectors : IsRun(detector'[e])
    BY <1>2 DEF RunsAre
  <1> QED
    BY <1>2, <1>3 DEF RunsAre

\* A run leaves its type: with events, or because nothing differs, or because
\* it fails. The rows stay as they are.
Cleared(d, t, k) ==
    /\ On(detector[d], t, Past) /\ <<t, k>> \notin detector[d].late
    /\ baseline[t][k].val = detector[d].cur[k]
Leaves(d, n) ==
    /\ IsRun(n) /\ n.pc \in Outside /\ Goto(d, n)
    /\ DataAre' /\ source' = source /\ baseline' = baseline
    /\ excused \subseteq excused' /\ touched' \subseteq touched
    /\ \A t \in TrackedTypes, k \in Keys :
          LET its == On(detector[d], t, Writing) /\ k \in Differs(detector[d])
          IN /\ ~its => timeline'[t][k] = timeline[t][k]
             /\ its /\ <<t, k>> \notin excused' => baseline[t][k].val = Told(t, k)'
             /\ <<t, k>> \in touched /\ <<t, k>> \notin touched' /\ <<t, k>> \notin excused'
                   => Cleared(d, t, k)
LEMMA LeavingKeeps ==
    ASSUME CInv, NEW d \in Detectors, NEW n, Leaves(d, n)
    PROVE  CInv'
  <1> DEFINE Its(t, k) == On(detector[d], t, Writing) /\ k \in Differs(detector[d])
  <1>1. /\ RunsAre' /\ detector'[d] = n /\ n.pc \in Outside
        /\ \A e \in Detectors \ {d} : detector'[e] = detector[e]
    BY OneTurn DEF Leaves, CInv
  <1>2. \A t, pcs : pcs \in {Writing, Past} => ~On(detector'[d], t, pcs)
    BY <1>1 DEF On, Outside, Writing, Past
  <1>3. /\ DataAre' /\ source' = source /\ baseline' = baseline
        /\ excused \subseteq excused' /\ touched' \subseteq touched
    BY DEF Leaves
  <1>4. \A t \in TrackedTypes, k \in Keys : ~Its(t, k) => Told(t, k)' = Told(t, k)
    BY DEF Leaves, Told
  <1>5. \A t \in TrackedTypes, k \in Keys :
           Its(t, k) /\ <<t, k>> \notin excused' => baseline[t][k].val = Told(t, k)'
    BY DEF Leaves
  <1>6. Alone'
    <2> SUFFICES ASSUME NEW e \in Detectors, NEW f \in Detectors, NEW t \in TrackedTypes,
                        NEW k \in Keys, e # f, On(detector'[e], t, Writing),
                        On(detector'[f], t, Writing),
                        k \in Differs(detector'[e]), k \in Differs(detector'[f])
                 PROVE  <<t, k>> \in excused'
      BY DEF Alone
    <2>1. detector'[e] = detector[e] /\ detector'[f] = detector[f]
      BY <1>1, <1>2
    <2> QED
      BY <1>3, <2>1 DEF CInv, Alone
  <1>7. Written'
    <2> SUFFICES ASSUME NEW e \in Detectors, NEW t \in TrackedTypes, NEW k \in Keys,
                        On(detector'[e], t, Writing), k \in Differs(detector'[e]),
                        <<t, k>> \notin excused'
                 PROVE  /\ Wrote(detector'[e], k, baseline'[t][k])
                        /\ ~detector'[e].wrote => baseline'[t][k].val = Told(t, k)'
      BY DEF Written, WrittenBy
    <2>1. e # d /\ detector'[e] = detector[e] /\ <<t, k>> \notin excused
      BY <1>1, <1>2, <1>3
    <2>2. ~Its(t, k)
      BY <2>1 DEF CInv, Alone
    <2>3. Told(t, k)' = Told(t, k)
      BY <1>4, <2>2
    <2> QED
      BY <1>3, <2>1, <2>3 DEF CInv, Written, WrittenBy
  <1>8. Fresh'
    <2> SUFFICES ASSUME NEW e \in Detectors, NEW t \in TrackedTypes, NEW k \in Keys,
                        On(detector'[e], t, Past), <<t, k>> \notin detector'[e].late
                 PROVE  /\ Matches(source'[t][k], detector'[e].cur[k])
                        /\ \A f \in Detectors : f # e => ~On(detector'[f], t, Past)
                        /\ detector'[e].pc \in Writing /\ k \notin Differs(detector'[e])
                              => baseline'[t][k] = detector'[e].prev[k]
      BY DEF Fresh, FreshFor
    <2>1. detector'[e] = detector[e]
      BY <1>1, <1>2
    <2>2. FreshFor(e)
      BY DEF CInv, Fresh
    <2> QED
      BY <1>1, <1>2, <1>3, <2>1, <2>2 DEF FreshFor
  <1>9. Untouched'
    <2> SUFFICES ASSUME NEW t \in TrackedTypes, NEW k \in Keys, <<t, k>> \notin touched',
                        <<t, k>> \notin excused', ~Shared(t, k)'
                 PROVE  /\ Matches(source'[t][k], baseline'[t][k].val)
                        /\ \A e \in Detectors : On(detector'[e], t, Past) =>
                              /\ Matches(source'[t][k], detector'[e].cur[k])
                              /\ detector'[e].pc \in Writing => k \notin Differs(detector'[e])
      BY DEF Untouched
    <2>1. ~Shared(t, k) /\ <<t, k>> \notin excused
      BY <1>3 DEF Shared
    <2>2. CASE <<t, k>> \notin touched
      BY <1>1, <1>2, <1>3, <2>1, <2>2 DEF CInv, Untouched
    <2>3. CASE <<t, k>> \in touched
      <3>1. Cleared(d, t, k)
        BY <2>3 DEF Leaves
      <3>2. /\ Matches(source[t][k], detector[d].cur[k])
            /\ \A f \in Detectors : f # d => ~On(detector[f], t, Past)
        BY <3>1 DEF CInv, Fresh, FreshFor, Cleared
      <3>3. \A e \in Detectors : ~On(detector'[e], t, Past)
        BY <1>1, <1>2, <3>2
      <3> QED
        BY <1>3, <3>1, <3>2, <3>3 DEF Cleared
    <2> QED
      BY <2>2, <2>3
  <1>10. AllTold'
    <2> SUFFICES ASSUME NEW t \in TrackedTypes, NEW k \in Keys, <<t, k>> \notin excused',
                        ~\E e \in Detectors : /\ On(detector'[e], t, Writing)
                                              /\ k \in Differs(detector'[e])
                 PROVE  baseline'[t][k].val = Told(t, k)'
      BY DEF AllTold, ToldFor
    <2>1. CASE Its(t, k)
      BY <1>3, <1>5, <2>1
    <2>2. CASE ~Its(t, k)
      <3>1. ToldFor(t, k)
        BY DEF CInv, AllTold
      <3>2. ~\E e \in Detectors : On(detector[e], t, Writing) /\ k \in Differs(detector[e])
        BY <1>1, <2>2
      <3>3. baseline[t][k].val = Told(t, k)
        BY <1>3, <3>1, <3>2 DEF ToldFor
      <3> QED
        BY <1>3, <1>4, <2>2, <3>3
    <2> QED
      BY <2>1, <2>2
  <1> QED
    BY <1>1, <1>3, <1>6, <1>7, <1>8, <1>9, <1>10 DEF CInv

\* A run writes rows of keys it found to differ.
WritesKey(d, n) ==
    LET r == detector[d]
        t == Types[r.at]
    IN /\ IsRun(n) /\ r.pc \in Writing /\ n.pc \in Writing /\ Goto(d, n)
       /\ n.cur = r.cur /\ n.prev = r.prev /\ n.at = r.at /\ n.late = r.late
       /\ UNCHANGED <<source, timeline, scans, alters, errors, touched, excused>>
       /\ baseline' \in [TrackedTypes -> Bases]
       /\ \A u \in TrackedTypes, k \in Keys :
             u # t \/ k \notin Differs(r) => baseline'[u][k] = baseline[u][k]
       /\ \A k \in Differs(r) : <<t, k>> \notin excused =>
             /\ Wrote(n, k, baseline'[t][k])
             /\ ~n.wrote => baseline'[t][k].val = Told(t, k)
LEMMA WritingKeeps ==
    ASSUME CInv, NEW d \in Detectors, NEW n, WritesKey(d, n)
    PROVE  CInv'
  <1> DEFINE r == detector[d]
             tt == Types[r.at]
  <1>1. /\ RunsAre' /\ detector'[d] = n
        /\ \A e \in Detectors \ {d} : detector'[e] = detector[e]
    BY OneTurn DEF WritesKey, CInv
  <1>2. /\ UNCHANGED <<source, timeline, scans, alters, errors, touched, excused>>
        /\ r.pc \in Writing /\ n.pc \in Writing
        /\ n.cur = r.cur /\ n.prev = r.prev /\ n.at = r.at /\ n.late = r.late
    BY DEF WritesKey
  <1>3. Differs(n) = Differs(r)
    BY <1>2, SameFound
  <1>4. \A u \in TrackedTypes, k \in Keys :
           u # tt \/ k \notin Differs(r) => baseline'[u][k] = baseline[u][k]
    BY DEF WritesKey
  <1>5. \A e \in Detectors :
           /\ \A t : On(detector'[e], t, Writing) <=> On(detector[e], t, Writing)
           /\ \A t : On(detector'[e], t, Past) <=> On(detector[e], t, Past)
           /\ detector'[e].pc \in Writing <=> detector[e].pc \in Writing
           /\ Differs(detector'[e]) = Differs(detector[e])
           /\ detector'[e].cur = detector[e].cur /\ detector'[e].prev = detector[e].prev
           /\ detector'[e].late = detector[e].late
    BY <1>1, <1>2, <1>3 DEF On, Past
  <1>6. DataAre'
    BY <1>2 DEF CInv, DataAre, WritesKey
  <1>7. Alone'
    BY <1>2, <1>5 DEF CInv, Alone
  <1>8. \A t, k : Told(t, k)' = Told(t, k)
    BY <1>2 DEF Told
  <1>9. Written'
    <2> SUFFICES ASSUME NEW e \in Detectors, NEW t \in TrackedTypes, NEW k \in Keys,
                        On(detector'[e], t, Writing), k \in Differs(detector'[e]),
                        <<t, k>> \notin excused'
                 PROVE  /\ Wrote(detector'[e], k, baseline'[t][k])
                        /\ ~detector'[e].wrote => baseline'[t][k].val = Told(t, k)'
      BY DEF Written, WrittenBy
    <2>1. CASE e = d
      <3>1. t = tt
        BY <1>5, <2>1 DEF On
      <3> QED
        BY <1>1, <1>2, <1>3, <1>8, <2>1, <3>1 DEF WritesKey
    <2>2. CASE e # d
      <3>1. detector'[e] = detector[e] /\ <<t, k>> \notin excused
        BY <1>1, <1>2, <2>2
      <3>2. t # tt \/ k \notin Differs(r)
        BY <1>2, <2>2, <3>1 DEF CInv, Alone, On
      <3>3. baseline'[t][k] = baseline[t][k]
        BY <1>4, <3>2
      <3> QED
        BY <1>8, <3>1, <3>3 DEF CInv, Written, WrittenBy
    <2> QED
      BY <2>1, <2>2
  <1>10. Fresh'
    <2> SUFFICES ASSUME NEW e \in Detectors, NEW t \in TrackedTypes, NEW k \in Keys,
                        On(detector'[e], t, Past), <<t, k>> \notin detector'[e].late
                 PROVE  /\ Matches(source'[t][k], detector'[e].cur[k])
                        /\ \A f \in Detectors : f # e => ~On(detector'[f], t, Past)
                        /\ detector'[e].pc \in Writing /\ k \notin Differs(detector'[e])
                              => baseline'[t][k] = detector'[e].prev[k]
      BY DEF Fresh, FreshFor
    <2>1. FreshFor(e) /\ On(detector[e], t, Past) /\ <<t, k>> \notin detector[e].late
      BY <1>5 DEF CInv, Fresh
    <2>2. t # tt \/ e = d
      BY <1>2, <2>1 DEF FreshFor, On, Past
    <2>3. t # tt \/ k \notin Differs(r) => baseline'[t][k] = baseline[t][k]
      BY <1>4
    <2> QED
      BY <1>2, <1>3, <1>5, <2>1, <2>2, <2>3 DEF FreshFor
  <1>11. Untouched'
    <2> SUFFICES ASSUME NEW t \in TrackedTypes, NEW k \in Keys, <<t, k>> \notin touched',
                        <<t, k>> \notin excused', ~Shared(t, k)'
                 PROVE  /\ Matches(source'[t][k], baseline'[t][k].val)
                        /\ \A e \in Detectors : On(detector'[e], t, Past) =>
                              /\ Matches(source'[t][k], detector'[e].cur[k])
                              /\ detector'[e].pc \in Writing => k \notin Differs(detector'[e])
      BY DEF Untouched
    <2>1. <<t, k>> \notin touched /\ <<t, k>> \notin excused /\ ~Shared(t, k)
      BY <1>2 DEF Shared
    <2>2. t # tt \/ k \notin Differs(r)
      BY <1>2, <2>1 DEF CInv, Untouched, On, Past
    <2>3. baseline'[t][k] = baseline[t][k]
      BY <1>4, <2>2
    <2> QED
      BY <1>2, <1>5, <2>1, <2>3 DEF CInv, Untouched
  <1>12. AllTold'
    <2> SUFFICES ASSUME NEW t \in TrackedTypes, NEW k \in Keys, <<t, k>> \notin excused',
                        ~\E e \in Detectors : /\ On(detector'[e], t, Writing)
                                              /\ k \in Differs(detector'[e])
                 PROVE  baseline'[t][k].val = Told(t, k)'
      BY DEF AllTold, ToldFor
    <2>1. ~\E e \in Detectors : On(detector[e], t, Writing) /\ k \in Differs(detector[e])
      BY <1>5
    <2>2. t # tt \/ k \notin Differs(r)
      BY <1>2, <2>1 DEF On
    <2>3. baseline'[t][k] = baseline[t][k]
      BY <1>4, <2>2
    <2> QED
      BY <1>2, <1>8, <2>1, <2>3 DEF CInv, AllTold, ToldFor
  <1> QED
    BY <1>1, <1>6, <1>7, <1>9, <1>10, <1>11, <1>12 DEF CInv

\* A run that fails before it wrote has changed nothing; after, its keys are
\* excused.
LEMMA AbortKeeps ==
    ASSUME CInv, NEW d \in Detectors, detector[d].pc # "off", Abort(d),
           errors' \in 0..MaxErrors
    PROVE  CInv'
  <1> DEFINE r == detector[d]
             t == Types[r.at]
  <1>1. IsRun(r) /\ r \in Runs
    BY DEF CInv, RunsAre
  <1>2. t \in TrackedTypes
    BY <1>1, TypesAre DEF IsRun
  <1>3. /\ Goto(d, Resting) /\ UNCHANGED <<source, baseline, timeline, scans, alters, touched>>
        /\ excused' = IF r.wrote THEN excused \cup ({t} \X Differs(r)) ELSE excused
    BY DEF Abort, Type
  <1>4. {t} \X Differs(r) \subseteq Slots
    BY <1>2, FoundKeys DEF Slots
  <1>5. DataAre' /\ excused \subseteq excused'
    BY <1>3, <1>4 DEF CInv, DataAre
  <1>6. ASSUME NEW u \in TrackedTypes, NEW k \in Keys,
               On(r, u, Writing), k \in Differs(r), <<u, k>> \notin excused'
        PROVE  baseline[u][k].val = Told(u, k)'
    <2>1. u = t /\ ~r.wrote /\ <<u, k>> \notin excused
      BY <1>3, <1>6 DEF On
    <2>2. baseline[u][k].val = Told(u, k)
      BY <1>6, <2>1 DEF CInv, Written, WrittenBy
    <2> QED
      BY <1>3, <2>2 DEF Told
  <1> HIDE DEF r, t
  <1>7. Leaves(d, Resting)
    BY <1>3, <1>5, <1>6, RestingIs DEF Leaves, Outside, r
  <1> QED
    BY <1>7, LeavingKeeps

LEMMA StartDetectionKeeps ==
    ASSUME CInv, NEW d \in Detectors, StartDetection(d)
    PROVE  CInv'
  <1> DEFINE q == Resting
             a == scans + 1
             n == [q EXCEPT !.pc = "snapshot", !.run = a, !.at = 1]
  <1>1. /\ detector[d].pc = "off" /\ scans' = a /\ Goto(d, n) /\ scans < MaxScans
        /\ UNCHANGED <<source, baseline, timeline, alters, errors, touched, excused>>
    BY DEF StartDetection
  <1>2. scans \in 0..MaxScans /\ MaxScans \in Nat
    BY ChangeDetectionAssumption DEF CInv, DataAre
  <1>3. a \in 0..MaxScans
    BY <1>1, <1>2
  <1>4. q \in Runs /\ q.wrote = FALSE /\ 1 \in DOMAIN Types /\ 1 \in 0..Len(Types)
    BY RestingIs, TypesAre
  <1> HIDE DEF q, a
  <1>5. n \in Runs /\ n.pc = "snapshot" /\ n.wrote = FALSE /\ n.at = 1
    BY <1>3, <1>4 DEF Runs, Outside
  <1> HIDE DEF n
  <1>6. IsRun(n) /\ n.pc \in Outside
    BY <1>4, <1>5 DEF IsRun, Outside, Writing
  <1>7. DataAre'
    BY <1>1, <1>3 DEF CInv, DataAre
  <1>8. \A t : ~On(detector[d], t, Writing)
    BY <1>1 DEF On, Writing
  <1>9. Leaves(d, n)
    BY <1>1, <1>6, <1>7, <1>8 DEF Leaves
  <1> QED
    BY <1>9, LeavingKeeps

LEMMA InsertEventsKeeps ==
    ASSUME CInv, NEW d \in Detectors, InsertEvents(d)
    PROVE  CInv'
  <1> DEFINE r == detector[d]
             t == Types[r.at]
             n == NextType(r)
             New(u, k) == IF u = t /\ k \in Differs(r) THEN Append(timeline[u][k], Event(r, k))
                          ELSE timeline[u][k]
  <1>1. IsRun(r) /\ r \in Runs /\ r.pc = "events"
    BY DEF CInv, RunsAre, InsertEvents
  <1>2. /\ t \in TrackedTypes /\ r.prev \in Bases /\ r.cur \in Snaps
    BY <1>1, TypesAre DEF IsRun, Outside, Writing
  <1>3. /\ Goto(d, n) /\ UNCHANGED <<source, baseline, scans, alters, errors, excused>>
        /\ touched' = touched \ Compared(d)
    BY DEF InsertEvents
  <1>4. IsRun(n) /\ n.pc \in Outside
    BY <1>1, NextTypeIs
  <1>5. timeline \in [TrackedTypes -> [Keys -> Seq(Events)]]
    BY DEF CInv, DataAre
  <1>6. \A u \in TrackedTypes, k \in Keys : timeline'[u][k] = New(u, k)
    BY <1>2, <1>5 DEF InsertEvents, Type
  <1>7. \A k \in Keys : Event(r, k) \in Events /\ Event(r, k).new = r.cur[k]
    <2> TAKE k \in Keys
    <2>1. r.cur[k] \in Vals \cup {Absent} /\ r.prev[k].val \in Vals \cup {Absent}
      BY <1>2 DEF Snaps, Bases, Stood, Rows
    <2> QED
      BY <2>1 DEF Event, Events
  <1>8. timeline' \in [TrackedTypes -> [Keys -> Seq(Events)]]
    <2>1. timeline' = [timeline EXCEPT ![t] =
             [k \in Keys |-> IF k \in Differs(r) THEN Append(@[k], Event(r, k)) ELSE @[k]]]
      BY DEF InsertEvents, Type
    <2>2. ASSUME NEW k \in Keys
          PROVE  timeline[t][k] \in Seq(Events) /\ Append(timeline[t][k], Event(r, k)) \in Seq(Events)
      BY <1>2, <1>5, <1>7 
    <2> HIDE DEF r, t
    <2>3. [k \in Keys |-> IF k \in Differs(r) THEN Append(timeline[t][k], Event(r, k))
                          ELSE timeline[t][k]] \in [Keys -> Seq(Events)]
      BY <2>2
    <2> QED
      BY <1>5, <2>1, <2>3
  <1>9. DataAre'
    BY <1>3, <1>8 DEF CInv, DataAre
  <1>10. ASSUME NEW u \in TrackedTypes, NEW k \in Keys,
                On(r, u, Writing), k \in Differs(r), <<u, k>> \notin excused
         PROVE  baseline[u][k].val = Told(u, k)' /\ baseline[u][k].val = r.cur[k]
    <2>1. u = t /\ timeline'[u][k] = Append(timeline[u][k], Event(r, k))
      BY <1>6, <1>10 DEF On
    <2>2. timeline[u][k] \in Seq(Events) /\ Event(r, k) \in Events /\ Event(r, k).new = r.cur[k]
      BY <1>5, <1>7
    <2>3. Append(timeline[u][k], Event(r, k)) # <<>>
          /\ Last(Append(timeline[u][k], Event(r, k))) = Event(r, k)
      BY <2>2, AppendProperties DEF Last
    <2>4. Told(u, k)' = r.cur[k]
      BY <2>1, <2>2, <2>3 DEF Told
    <2>5. Wrote(r, k, baseline[u][k])
      BY <1>10 DEF CInv, Written, WrittenBy
    <2> QED
      BY <1>1, <2>4, <2>5 DEF Wrote
  <1>11. ASSUME NEW u \in TrackedTypes, NEW k \in Keys, <<u, k>> \in touched,
                <<u, k>> \notin touched', <<u, k>> \notin excused
         PROVE  Cleared(d, u, k)
    <2>1. u = t /\ <<u, k>> \notin r.late
      BY <1>3, <1>11 DEF Compared, Type
    <2>2. On(r, u, Writing) /\ On(r, u, Past)
      BY <1>1, <2>1 DEF On, Writing, Past
    <2>3. CASE k \in Differs(r)
      BY <1>10, <1>11, <2>1, <2>2, <2>3 DEF Cleared
    <2>4. CASE k \notin Differs(r)
      <3>1. baseline[u][k] = r.prev[k]
        BY <2>1, <2>2, <2>4 DEF CInv, Fresh, FreshFor, On
      <3> QED
        BY <1>2, <2>1, <2>2, <2>4, <3>1, NoDifference DEF Cleared
    <2> QED
      BY <2>3, <2>4
  <1>12. \A u \in TrackedTypes, k \in Keys :
            ~(On(r, u, Writing) /\ k \in Differs(r)) => timeline'[u][k] = timeline[u][k]
    BY <1>1, <1>6 DEF On, Writing
  <1> HIDE DEF n, r, New
  <1>13. Leaves(d, n)
    BY <1>3, <1>4, <1>9, <1>10, <1>11, <1>12 DEF Leaves, r
  <1> QED
    BY <1>13, LeavingKeeps

LEMMA CreateRowsKeeps ==
    ASSUME CInv, NEW d \in Detectors, CreateRows(d)
    PROVE  CInv'
  <1> DEFINE r == detector[d]
             t == Types[r.at]
             b == NewKeys(r) # {}
             n == [r EXCEPT !.pc = "save", !.wrote = b]
  <1>1. IsRun(r) /\ r \in Runs /\ r.pc = "compare" /\ r.pc \in Writing
    BY DEF CInv, RunsAre, CreateRows, Writing
  <1>2. CASE Abort(d) /\ UNCHANGED errors
    BY <1>1, <1>2, AbortKeeps DEF CInv, DataAre
  <1>3. CASE /\ baseline' = [baseline EXCEPT ![t] =
                   [k \in Keys |-> IF k \in NewKeys(r) THEN [id |-> r.run, val |-> r.cur[k]]
                                   ELSE @[k]]]
             /\ Goto(d, n)
             /\ UNCHANGED <<source, timeline, scans, alters, errors, touched, excused>>
    <2>1. /\ t \in TrackedTypes /\ r.prev \in Bases /\ r.cur \in Snaps /\ ~r.wrote
          /\ r.save = ChangedKeys(r) /\ Differs(r) # {} /\ r.at \in DOMAIN Types
      BY <1>1, TypesAre DEF IsRun, Outside, Writing
    <2>2. b \in BOOLEAN /\ (b <=> NewKeys(r) # {})
      OBVIOUS
    <2> HIDE DEF b
    <2>3. /\ n \in Runs /\ n.pc = "save" /\ n.wrote = b /\ n.cur = r.cur /\ n.prev = r.prev
          /\ n.at = r.at /\ n.late = r.late /\ n.save = r.save
      BY <1>1, <2>2 DEF Runs, Writing
    <2> HIDE DEF n
    <2>4. IsRun(n) /\ n.pc \in Writing
      BY <2>1, <2>2, <2>3, SameFound DEF IsRun, Outside, Writing
    <2>5. baseline \in [TrackedTypes -> Bases]
      BY DEF CInv, DataAre
    <2>6. ASSUME NEW k \in NewKeys(r)
          PROVE  [id |-> r.run, val |-> r.cur[k]] \in Stood
      <3>1. k \in Keys /\ r.cur[k] # Absent
        BY FoundKeys
      <3>2. r.cur[k] \in Vals \cup {Absent} /\ r.run \in 0..MaxScans
        BY <1>1, <2>1, <3>1 DEF Snaps, Runs
      <3> QED
        BY <3>1, <3>2 DEF Stood, Rows
    <2> HIDE DEF r, t
    <2>7. baseline' \in [TrackedTypes -> Bases]
      BY <1>3, <2>1, <2>5, <2>6 DEF Bases
    <2>8. \A u \in TrackedTypes, k \in Keys :
             baseline'[u][k] = IF u = t /\ k \in NewKeys(r) THEN [id |-> r.run, val |-> r.cur[k]]
                               ELSE baseline[u][k]
      BY <1>3, <2>1, <2>5 DEF Bases
    <2>9. ASSUME NEW k \in Differs(r), <<t, k>> \notin excused
          PROVE  /\ Wrote(n, k, baseline'[t][k])
                 /\ ~n.wrote => baseline'[t][k].val = Told(t, k)
      <3>1. k \in Keys /\ On(r, t, Writing)
        BY <1>1, FoundKeys DEF On, t
      <3>2. baseline[t][k] = r.prev[k] /\ baseline[t][k].val = Told(t, k)
        BY <2>1, <2>9, <3>1 DEF CInv, Written, WrittenBy, Wrote, r
      <3>3. baseline'[t][k] = IF k \in NewKeys(r) THEN [id |-> r.run, val |-> r.cur[k]]
                              ELSE baseline[t][k]
        BY <2>1, <2>8, <3>1
      <3>4. NewKeys(n) = NewKeys(r) /\ ChangedKeys(n) = ChangedKeys(r)
        BY <2>3, SameFound
      <3>5. CASE k \in NewKeys(r)
        BY <2>2, <2>3, <3>3, <3>4, <3>5 DEF Wrote
      <3>6. CASE k \notin NewKeys(r)
        BY <2>1, <2>3, <3>2, <3>3, <3>4, <3>6 DEF Wrote
      <3> QED
        BY <3>5, <3>6
    <2>10. \A u \in TrackedTypes, k \in Keys :
              u # t \/ k \notin Differs(r) => baseline'[u][k] = baseline[u][k]
      BY <2>8, FoundKeys
    <2>11. WritesKey(d, n)
      BY <1>1, <1>3, <2>3, <2>4, <2>7, <2>9, <2>10 DEF WritesKey, r, t
    <2> QED
      BY <2>11, WritingKeeps
  <1> QED
    BY <1>2, <1>3 DEF CreateRows, Type

LEMMA SaveRowKeeps ==
    ASSUME CInv, NEW d \in Detectors, SaveRow(d)
    PROVE  CInv'
  <1> DEFINE r == detector[d]
             t == Types[r.at]
  <1>1. IsRun(r) /\ r \in Runs /\ r.pc = "save" /\ r.pc \in Writing
    BY DEF CInv, RunsAre, SaveRow, Writing
  <1>2. PICK c \in r.save :
           IF baseline[t][c] # Unset /\ baseline[t][c].id # r.prev[c].id
           THEN Abort(d) /\ UNCHANGED errors
           ELSE /\ baseline' = [baseline EXCEPT ![t][c] = [id |-> r.prev[c].id, val |-> r.cur[c]]]
                /\ Goto(d, [r EXCEPT !.save = @ \ {c}, !.wrote = TRUE])
                /\ UNCHANGED <<source, timeline, scans, alters, errors, touched, excused>>
    BY DEF SaveRow, Type
  <1>3. CASE Abort(d) /\ UNCHANGED errors
    BY <1>1, <1>3, AbortKeeps DEF CInv, DataAre
  <1>4. CASE /\ baseline' = [baseline EXCEPT ![t][c] = [id |-> r.prev[c].id, val |-> r.cur[c]]]
             /\ Goto(d, [r EXCEPT !.save = @ \ {c}, !.wrote = TRUE])
             /\ UNCHANGED <<source, timeline, scans, alters, errors, touched, excused>>
    <2> DEFINE left == r.save \ {c}
               n == [r EXCEPT !.save = left, !.wrote = TRUE]
               row == [id |-> r.prev[c].id, val |-> r.cur[c]]
    <2>1. /\ t \in TrackedTypes /\ r.prev \in Bases /\ r.cur \in Snaps
          /\ r.save \subseteq ChangedKeys(r) /\ Differs(r) # {} /\ r.at \in DOMAIN Types
          /\ ~r.wrote => r.save = ChangedKeys(r) /\ NewKeys(r) = {}
      BY <1>1, TypesAre DEF IsRun, Outside, Writing
    <2>2. left \subseteq r.save /\ left \subseteq Keys /\ c \notin left
          /\ \A k : k # c => (k \in left <=> k \in r.save)
      BY <2>1, FoundKeys
    <2>3. Goto(d, n)
      BY <1>4
    <2> HIDE DEF left
    <2>4. /\ n \in Runs /\ n.pc = "save" /\ n.wrote = TRUE /\ n.cur = r.cur /\ n.prev = r.prev
          /\ n.at = r.at /\ n.late = r.late /\ n.save = left
      BY <1>1, <2>2 DEF Runs
    <2> HIDE DEF n
    <2>5. /\ NewKeys(n) = NewKeys(r) /\ ChangedKeys(n) = ChangedKeys(r)
          /\ Differs(n) = Differs(r)
      BY <2>4, SameFound
    <2>6. IsRun(n) /\ n.pc \in Writing
      BY <2>1, <2>2, <2>4, <2>5 DEF IsRun, Outside, Writing
    <2>7. baseline \in [TrackedTypes -> Bases]
      BY DEF CInv, DataAre
    <2>8. c \in ChangedKeys(r) /\ c \in Keys /\ c \in Differs(r)
      BY <2>1, FoundKeys
    <2>9. row \in Stood /\ row.val = r.cur[c]
      <3>1. r.cur[c] # Absent
        BY <2>8, FoundKeys
      <3>2. r.cur[c] \in Vals \cup {Absent} /\ r.prev[c].id \in 0..MaxScans
        BY <2>1, <2>8 DEF Snaps, Bases, Stood, Rows
      <3> QED
        BY <3>1, <3>2 DEF Stood, Rows
    <2>10. baseline' = [baseline EXCEPT ![t][c] = row]
      BY <1>4
    <2> HIDE DEF row, r, t
    <2>11. baseline' \in [TrackedTypes -> Bases]
      BY <2>1, <2>7, <2>8, <2>9, <2>10 DEF Bases
    <2>12. \A u \in TrackedTypes, k \in Keys :
              baseline'[u][k] = IF u = t /\ k = c THEN row ELSE baseline[u][k]
      BY <2>1, <2>7, <2>8, <2>10 DEF Bases
    <2>13. ASSUME NEW k \in Differs(r), <<t, k>> \notin excused
           PROVE  Wrote(n, k, baseline'[t][k])
      <3>1. k \in Keys /\ On(r, t, Writing)
        BY <1>1, FoundKeys DEF On, t
      <3>2. CASE k = c
        BY <2>1, <2>2, <2>4, <2>5, <2>8, <2>9, <2>12, <3>2 DEF Wrote
      <3>3. CASE k # c
        <4>1. Wrote(r, k, baseline[t][k])
          BY <2>1, <2>13, <3>1 DEF CInv, Written, WrittenBy, r
        <4>2. baseline'[t][k] = baseline[t][k]
          BY <2>1, <2>12, <3>1, <3>3
        <4>3. k \in n.save <=> k \in r.save
          BY <2>2, <2>4, <3>3
        <4>4. CASE r.wrote
          BY <1>1, <2>4, <2>5, <4>1, <4>2, <4>3, <4>4 DEF Wrote
        <4>5. CASE ~r.wrote
          BY <2>1, <2>4, <2>5, <4>1, <4>2, <4>3, <4>5 DEF Wrote
        <4> QED
          BY <4>4, <4>5
      <3> QED
        BY <3>2, <3>3
    <2>14. \A u \in TrackedTypes, k \in Keys :
              u # t \/ k \notin Differs(r) => baseline'[u][k] = baseline[u][k]
      BY <2>8, <2>12
    <2>15. WritesKey(d, n)
      BY <1>1, <1>4, <2>3, <2>4, <2>6, <2>11, <2>13, <2>14 DEF WritesKey, r, t
    <2> QED
      BY <2>15, WritingKeeps
  <1> QED
    BY <1>2, <1>3, <1>4

LEMMA DeleteStaleKeeps ==
    ASSUME CInv, NEW d \in Detectors, DeleteStale(d)
    PROVE  CInv'
  <1> DEFINE r == detector[d]
             t == Types[r.at]
             b == r.wrote \/ RemovedKeys(r) # {}
             n == [r EXCEPT !.pc = "events", !.wrote = b]
             Gone(k) == k \in RemovedKeys(r) /\ baseline[t][k].id = r.prev[k].id
  <1>1. IsRun(r) /\ r \in Runs /\ r.pc = "save" /\ r.pc \in Writing /\ r.save = {}
    BY DEF CInv, RunsAre, DeleteStale, Writing
  <1>2. /\ baseline' = [baseline EXCEPT ![t] = [k \in Keys |-> IF Gone(k) THEN Unset ELSE @[k]]]
        /\ Goto(d, n)
        /\ UNCHANGED <<source, timeline, scans, alters, errors, touched, excused>>
    BY DEF DeleteStale, Type
  <1>3. /\ t \in TrackedTypes /\ r.prev \in Bases /\ r.cur \in Snaps
        /\ Differs(r) # {} /\ r.at \in DOMAIN Types
        /\ ~r.wrote => ChangedKeys(r) = {} /\ NewKeys(r) = {}
    BY <1>1, TypesAre DEF IsRun, Outside, Writing
  <1>4. b \in BOOLEAN /\ b
    BY <1>1, <1>3, FoundKeys DEF Runs
  <1> HIDE DEF b
  <1>5. /\ n \in Runs /\ n.pc = "events" /\ n.wrote = b /\ n.cur = r.cur /\ n.prev = r.prev
        /\ n.at = r.at /\ n.late = r.late /\ n.save = {}
    BY <1>1, <1>4 DEF Runs, Writing
  <1> HIDE DEF n
  <1>6. Differs(n) = Differs(r)
    BY <1>5, SameFound
  <1>7. IsRun(n) /\ n.pc \in Writing
    BY <1>3, <1>4, <1>5, <1>6 DEF IsRun, Outside, Writing
  <1>8. baseline \in [TrackedTypes -> Bases]
    BY DEF CInv, DataAre
  <1>9. Unset \in Stood
    BY ChangeDetectionAssumption DEF Unset, Stood, Rows
  <1> HIDE DEF r, t, Gone
  <1>10. baseline' \in [TrackedTypes -> Bases]
    BY <1>2, <1>3, <1>8, <1>9 DEF Bases
  <1>11. \A u \in TrackedTypes, k \in Keys :
            baseline'[u][k] = IF u = t /\ Gone(k) THEN Unset ELSE baseline[u][k]
    BY <1>2, <1>3, <1>8 DEF Bases
  <1>12. ASSUME NEW k \in Differs(r), <<t, k>> \notin excused
         PROVE  baseline'[t][k].val = r.cur[k]
    <2>1. k \in Keys /\ On(r, t, Writing)
      BY <1>1, FoundKeys DEF On, t
    <2>2. Wrote(r, k, baseline[t][k])
      BY <1>3, <1>12, <2>1 DEF CInv, Written, WrittenBy, r
    <2>3. CASE k \in RemovedKeys(r)
      <3>1. k \notin NewKeys(r) /\ k \notin ChangedKeys(r)
        BY <2>3, FoundKeys
      <3>2. baseline[t][k] = r.prev[k]
        BY <1>1, <2>2, <3>1 DEF Wrote
      <3>3. baseline'[t][k] = Unset /\ r.cur[k] = Absent
        BY <1>3, <1>11, <2>1, <2>3, <3>2, FoundKeys DEF Gone
      <3> QED
        BY <3>3 DEF Unset
    <2>4. CASE k \notin RemovedKeys(r)
      <3>1. k \in NewKeys(r) \/ k \in ChangedKeys(r)
        BY <2>4, FoundKeys
      <3>2. r.wrote
        BY <1>3, <3>1
      <3>3. baseline[t][k].val = r.cur[k]
        BY <1>1, <2>2, <3>1, <3>2 DEF Wrote
      <3>4. baseline'[t][k] = baseline[t][k]
        BY <1>3, <1>11, <2>1, <2>4 DEF Gone
      <3> QED
        BY <3>3, <3>4
    <2> QED
      BY <2>3, <2>4
  <1>13. \A k \in Differs(r) : <<t, k>> \notin excused =>
            Wrote(n, k, baseline'[t][k]) /\ n.wrote
    BY <1>4, <1>5, <1>12 DEF Wrote
  <1>14. \A u \in TrackedTypes, k \in Keys :
            u # t \/ k \notin Differs(r) => baseline'[u][k] = baseline[u][k]
    BY <1>11, FoundKeys DEF Gone
  <1>15. WritesKey(d, n)
    BY <1>1, <1>2, <1>5, <1>7, <1>10, <1>13, <1>14 DEF WritesKey, r, t
  <1> QED
    BY <1>15, WritingKeeps

\* A run that finds no difference goes on to the next type; one that does has
\* read the baseline as it is, and says with whom it is to write.
LEMMA ReadBaselineKeeps ==
    ASSUME CInv, NEW d \in Detectors, ReadBaseline(d)
    PROVE  CInv'
  <1> DEFINE q == detector[d]
             t == Types[q.at]
             base == baseline[t]
             r == [q EXCEPT !.pc = "compare", !.prev = base]
             save == ChangedKeys(r)
             n == [r EXCEPT !.save = save]
  <1>1. IsRun(q) /\ q \in Runs /\ q.pc = "baseline"
    BY DEF CInv, RunsAre, ReadBaseline
  <1>2. /\ t \in TrackedTypes /\ q.cur \in Snaps /\ q.at \in DOMAIN Types /\ ~q.wrote
    BY <1>1, TypesAre DEF IsRun, Outside
  <1>3. base \in Bases
    BY <1>2 DEF CInv, DataAre
  <1>4. /\ Goto(d, IF Differs(r) = {} THEN NextType(r) ELSE n)
        /\ touched' = IF Differs(r) = {} THEN touched \ Compared(d) ELSE touched
        /\ excused' = excused \cup Contested(d, r)
        /\ UNCHANGED <<source, baseline, timeline, scans, alters, errors>>
    BY DEF ReadBaseline, Type
  <1> HIDE DEF base
  <1>5. /\ r \in Runs /\ r.pc = "compare" /\ r.wrote = q.wrote /\ r.cur = q.cur /\ r.prev = base
        /\ r.at = q.at /\ r.late = q.late /\ r.run = q.run /\ Types[r.at] = t
    BY <1>1, <1>3 DEF Runs, Writing
  <1> HIDE DEF r, q, t
  <1>6. save \subseteq Keys /\ save \subseteq ChangedKeys(r)
    BY FoundKeys
  <1>7. Contested(d, r) \subseteq Slots
    BY <1>2, <1>5, FoundKeys DEF Contested, Slots
  <1>8. DataAre'
    BY <1>4, <1>7 DEF CInv, DataAre
  <1>9. \A u, k : Told(u, k)' = Told(u, k)
    BY <1>4 DEF Told
  <1>10. On(detector[d], t, Past) /\ \A u : ~On(detector[d], u, Writing)
    BY <1>1 DEF On, Past, Writing, q, t
  <1>11. CASE Differs(r) = {}
    <2> DEFINE m == NextType(r)
    <2>1. IsRun(m) /\ m.pc \in Outside
      <3>1. m = NextType(q)
        BY <1>5 DEF NextType
      <3> QED
        BY <1>1, <3>1, NextTypeIs
    <2> HIDE DEF m
    <2>2. Goto(d, m) /\ touched' = touched \ Compared(d)
      BY <1>4, <1>11 DEF m
    <2>3. ASSUME NEW u \in TrackedTypes, NEW k \in Keys, <<u, k>> \in touched,
                 <<u, k>> \notin touched'
          PROVE  Cleared(d, u, k)
      <3>1. u = t /\ <<u, k>> \notin q.late
        BY <2>2, <2>3 DEF Compared, Type, q, t
      <3>2. base[k].val = q.cur[k]
        BY <1>3, <1>5, <1>11, NoDifference
      <3> QED
        BY <1>10, <3>1, <3>2 DEF Cleared, base, q
    <2>4. \A u \in TrackedTypes, k \in Keys : timeline'[u][k] = timeline[u][k]
      BY <1>4
    <2>5. Leaves(d, m)
      BY <1>4, <1>8, <1>10, <2>1, <2>2, <2>3, <2>4 DEF Leaves
    <2> QED
      BY <2>5, LeavingKeeps
  <1>12. CASE Differs(r) # {}
    <2> HIDE DEF save
    <2>1. /\ n \in Runs /\ n.pc = "compare" /\ n.wrote = q.wrote /\ n.cur = q.cur
          /\ n.prev = base /\ n.at = q.at /\ n.late = q.late /\ n.save = save
      BY <1>5, <1>6 DEF Runs
    <2>2. Goto(d, n) /\ touched' = touched
      BY <1>4, <1>12
    <2> HIDE DEF n
    <2>3. Differs(n) = Differs(r) /\ ChangedKeys(n) = ChangedKeys(r)
      BY <1>5, <2>1, SameFound
    <2>4. IsRun(n) /\ n.pc \in Writing
      BY <1>2, <1>3, <1>6, <1>12, <2>1, <2>3 DEF IsRun, Outside, Writing, save
    <2>5. /\ RunsAre' /\ detector'[d] = n
          /\ \A e \in Detectors \ {d} : detector'[e] = detector[e]
      BY <2>2, <2>4, OneTurn DEF CInv
    <2>6. On(n, t, Past) /\ \A u, pcs : On(n, u, pcs) => u = t
      BY <1>5, <2>1, <2>4 DEF On, Past
    <2>7. \A e \in Detectors : \A u : On(detector'[e], u, Past) <=> On(detector[e], u, Past)
      BY <1>10, <2>5, <2>6 DEF On, q, t
    <2>8. ASSUME NEW e \in Detectors, e # d, On(detector[e], t, Writing), NEW k \in Keys,
                 k \in Differs(detector[e]), k \in Differs(r)
          PROVE  <<t, k>> \in excused'
      <3>1. detector[e].at = r.at
        <4>1. detector[e].at \in DOMAIN Types
          BY <2>8 DEF CInv, RunsAre, IsRun, On, Writing
        <4> QED
          BY <1>2, <1>5, <2>8, <4>1, TypesAre DEF On
      <3>2. InType(e)
        BY <2>8 DEF InType, On, Writing
      <3>3. <<t, k>> \in Contested(d, r)
        BY <1>5, <2>8, <3>1, <3>2 DEF Contested
      <3> QED
        BY <1>4, <3>3
    <2>9. excused \subseteq excused'
      BY <1>4
    <2>10. Alone'
      <3> SUFFICES ASSUME NEW e \in Detectors, NEW f \in Detectors, NEW u \in TrackedTypes,
                          NEW k \in Keys, e # f, On(detector'[e], u, Writing),
                          On(detector'[f], u, Writing),
                          k \in Differs(detector'[e]), k \in Differs(detector'[f])
                   PROVE  <<u, k>> \in excused'
        BY DEF Alone
      <3>1. CASE e # d /\ f # d
        BY <2>5, <2>9, <3>1 DEF CInv, Alone
      <3>2. CASE e = d
        BY <2>3, <2>5, <2>6, <2>8, <3>2
      <3>3. CASE f = d
        BY <2>3, <2>5, <2>6, <2>8, <3>3
      <3> QED
        BY <3>1, <3>2, <3>3
    <2>11. Written'
      <3> SUFFICES ASSUME NEW e \in Detectors, NEW u \in TrackedTypes, NEW k \in Keys,
                          On(detector'[e], u, Writing), k \in Differs(detector'[e]),
                          <<u, k>> \notin excused'
                   PROVE  /\ Wrote(detector'[e], k, baseline'[u][k])
                          /\ ~detector'[e].wrote => baseline'[u][k].val = Told(u, k)'
        BY DEF Written, WrittenBy
      <3>1. CASE e # d
        BY <1>4, <1>9, <2>5, <2>9, <3>1 DEF CInv, Written, WrittenBy
      <3>2. CASE e = d
        <4>1. u = t /\ k \in Differs(r) /\ detector'[e] = n
          BY <2>3, <2>5, <2>6, <3>2
        <4>2. baseline'[u][k] = n.prev[k]
          BY <1>4, <2>1, <4>1 DEF base
        <4>3. ~\E f \in Detectors : On(detector[f], u, Writing) /\ k \in Differs(detector[f])
          BY <1>10, <2>8, <4>1
        <4>4. baseline[u][k].val = Told(u, k)
          BY <2>9, <4>3 DEF CInv, AllTold, ToldFor
        <4> QED
          BY <1>2, <1>4, <1>9, <2>1, <4>1, <4>2, <4>4 DEF Wrote
      <3> QED
        BY <3>1, <3>2
    <2>12. Fresh'
      <3> SUFFICES ASSUME NEW e \in Detectors, NEW u \in TrackedTypes, NEW k \in Keys,
                          On(detector'[e], u, Past), <<u, k>> \notin detector'[e].late
                   PROVE  /\ Matches(source'[u][k], detector'[e].cur[k])
                          /\ \A f \in Detectors : f # e => ~On(detector'[f], u, Past)
                          /\ detector'[e].pc \in Writing /\ k \notin Differs(detector'[e])
                                => baseline'[u][k] = detector'[e].prev[k]
        BY DEF Fresh, FreshFor
      <3>1. /\ detector'[e].late = detector[e].late /\ detector'[e].cur = detector[e].cur
            /\ e # d => detector'[e] = detector[e]
        BY <2>1, <2>5 DEF q
      <3>2. FreshFor(e) /\ On(detector[e], u, Past) /\ <<u, k>> \notin detector[e].late
        BY <2>7, <3>1 DEF CInv, Fresh
      <3>3. e = d => baseline'[u][k] = detector'[e].prev[k]
        BY <1>4, <2>1, <2>5, <2>6 DEF base
      <3> QED
        BY <1>4, <2>7, <3>1, <3>2, <3>3 DEF FreshFor
    <2>13. Untouched'
      <3> SUFFICES ASSUME NEW u \in TrackedTypes, NEW k \in Keys, <<u, k>> \notin touched',
                          <<u, k>> \notin excused', ~Shared(u, k)'
                   PROVE  /\ Matches(source'[u][k], baseline'[u][k].val)
                          /\ \A e \in Detectors : On(detector'[e], u, Past) =>
                                /\ Matches(source'[u][k], detector'[e].cur[k])
                                /\ detector'[e].pc \in Writing => k \notin Differs(detector'[e])
        BY DEF Untouched
      <3>1. <<u, k>> \notin touched /\ <<u, k>> \notin excused /\ ~Shared(u, k)
        BY <1>4, <2>2, <2>9 DEF Shared
      <3>2. Matches(source[u][k], baseline[u][k].val)
        BY <3>1 DEF CInv, Untouched
      <3>3. ASSUME NEW e \in Detectors, On(detector'[e], u, Past)
            PROVE  /\ Matches(source[u][k], detector'[e].cur[k])
                   /\ detector'[e].pc \in Writing => k \notin Differs(detector'[e])
        <4>1. CASE e # d
          BY <2>5, <3>1, <3>3, <4>1 DEF CInv, Untouched
        <4>2. CASE e = d
          <5>1. u = t /\ detector'[e] = n /\ n.cur = q.cur
            BY <2>1, <2>5, <2>6, <3>3, <4>2
          <5>2. Matches(source[u][k], q.cur[k])
            BY <1>10, <3>1, <5>1 DEF CInv, Untouched, q
          <5>3. q.cur[k] = base[k].val
            BY <3>1, <3>2, <5>1, <5>2 DEF Matches, Shared, base
          <5>4. k \notin Differs(n)
            BY <1>3, <2>1, <5>3, Difference
          <5> QED
            BY <5>1, <5>2, <5>4
        <4> QED
          BY <4>1, <4>2
      <3> QED
        BY <1>4, <3>2, <3>3
    <2>14. AllTold'
      <3> SUFFICES ASSUME NEW u \in TrackedTypes, NEW k \in Keys, <<u, k>> \notin excused',
                          ~\E e \in Detectors : /\ On(detector'[e], u, Writing)
                                                /\ k \in Differs(detector'[e])
                   PROVE  baseline'[u][k].val = Told(u, k)'
        BY DEF AllTold, ToldFor
      <3>1. ~\E e \in Detectors : On(detector[e], u, Writing) /\ k \in Differs(detector[e])
        BY <1>10, <2>5
      <3> QED
        BY <1>4, <1>9, <2>9, <3>1 DEF CInv, AllTold, ToldFor
    <2> QED
      BY <1>8, <2>5, <2>10, <2>11, <2>12, <2>13, <2>14 DEF CInv
  <1> QED
    BY <1>11, <1>12

\* A step in which no run writes, or comes to the point where it may.
SameWrites(e) ==
    /\ detector'[e].pc \in Writing <=> detector[e].pc \in Writing
    /\ detector[e].pc \in Writing =>
          /\ detector'[e].pc = detector[e].pc /\ detector'[e].at = detector[e].at
          /\ detector'[e].cur = detector[e].cur /\ detector'[e].prev = detector[e].prev
          /\ detector'[e].save = detector[e].save /\ detector'[e].wrote = detector[e].wrote
LEMMA WaitingKeeps ==
    ASSUME CInv, \A e \in Detectors : SameWrites(e), UNCHANGED <<baseline, timeline, excused>>
    PROVE  Alone' /\ Written' /\ AllTold'
  <1>1. \A e \in Detectors : \A t : On(detector'[e], t, Writing) <=> On(detector[e], t, Writing)
    BY DEF SameWrites, On
  <1>2. \A e \in Detectors : \A t : On(detector[e], t, Writing) =>
           /\ Differs(detector'[e]) = Differs(detector[e])
           /\ NewKeys(detector'[e]) = NewKeys(detector[e])
           /\ ChangedKeys(detector'[e]) = ChangedKeys(detector[e])
    BY SameFound DEF SameWrites, On
  <1>3. \A t, k : Told(t, k)' = Told(t, k)
    BY DEF Told
  <1>4. Alone'
    BY <1>1, <1>2 DEF CInv, Alone
  <1>5. Written'
    <2> SUFFICES ASSUME NEW e \in Detectors, NEW u \in TrackedTypes, NEW k \in Keys,
                        On(detector'[e], u, Writing), k \in Differs(detector'[e]),
                        <<u, k>> \notin excused'
                 PROVE  /\ Wrote(detector'[e], k, baseline'[u][k])
                        /\ ~detector'[e].wrote => baseline'[u][k].val = Told(u, k)'
      BY DEF Written, WrittenBy
    <2>1. On(detector[e], u, Writing)
      BY <1>1
    <2>2. /\ Wrote(detector[e], k, baseline[u][k])
          /\ ~detector[e].wrote => baseline[u][k].val = Told(u, k)
      BY <1>2, <2>1 DEF CInv, Written, WrittenBy
    <2> QED
      BY <1>2, <1>3, <2>1, <2>2 DEF Wrote, SameWrites, On
  <1>6. AllTold'
    BY <1>1, <1>2, <1>3 DEF CInv, AllTold, ToldFor
  <1> QED
    BY <1>4, <1>5, <1>6

LEMMA TakeSnapshotKeeps ==
    ASSUME CInv, NEW d \in Detectors, TakeSnapshot(d)
    PROVE  CInv'
  <1> DEFINE q == detector[d]
             t == Types[q.at]
             all == {t} \X Keys
             met == {e \in Detectors \ {d} : detector[e].pc \notin {"off", "snapshot"}
                                             /\ Types[detector[e].at] = t}
             late == IF met = {} THEN {} ELSE all
  <1>1. IsRun(q) /\ q \in Runs /\ q.pc = "snapshot"
    BY DEF CInv, RunsAre, TakeSnapshot
  <1>2. /\ t \in TrackedTypes /\ q.at \in DOMAIN Types /\ ~q.wrote
    BY <1>1, TypesAre DEF IsRun
  <1>3. PICK cur \in Snaps :
           /\ \A k \in Keys : Matches(source[t][k], cur[k])
           /\ detector' = [e \in Detectors |->
                 IF e = d THEN [q EXCEPT !.pc = "baseline", !.cur = cur, !.late = late]
                 ELSE IF e \in met THEN [detector[e] EXCEPT !.late = all] ELSE detector[e]]
    BY DEF TakeSnapshot, Type, Snaps, Matches
  <1>4. UNCHANGED <<source, baseline, timeline, scans, alters, errors, touched, excused>>
    BY DEF TakeSnapshot
  <1>5. all \subseteq Slots /\ late \subseteq Slots /\ (late # all => met = {})
    BY <1>2 DEF Slots
  <1>6. \A e \in Detectors : e \in met <=> e # d /\ On(detector[e], t, Past)
    BY DEF CInv, RunsAre, Runs, On, Past, Outside, Writing
  <1> DEFINE n == [q EXCEPT !.pc = "baseline", !.cur = cur, !.late = late]
  <1> HIDE DEF late, met, all
  <1>7. /\ n \in Runs /\ n.pc = "baseline" /\ n.cur = cur /\ n.late = late /\ n.at = q.at
        /\ n.wrote = q.wrote
    BY <1>1, <1>5 DEF Runs
  <1>8. detector'[d] = n
    BY <1>3
  <1> HIDE DEF n
  <1>9. IsRun(n)
    BY <1>2, <1>7 DEF IsRun, Outside, Writing
  <1>10. ASSUME NEW e \in Detectors, e # d
         PROVE  /\ detector'[e] \in Runs /\ detector'[e].pc = detector[e].pc
                /\ detector'[e].at = detector[e].at /\ detector'[e].cur = detector[e].cur
                /\ detector'[e].prev = detector[e].prev /\ detector'[e].save = detector[e].save
                /\ detector'[e].wrote = detector[e].wrote
                /\ detector'[e].late = IF e \in met THEN all ELSE detector[e].late
    <2> DEFINE f == detector[e]
    <2>1. f \in Runs /\ detector'[e] = IF e \in met THEN [f EXCEPT !.late = all] ELSE f
      BY <1>3, <1>10 DEF CInv, RunsAre
    <2> HIDE DEF f
    <2>2. /\ detector'[e] \in Runs /\ detector'[e].pc = f.pc
          /\ detector'[e].at = f.at /\ detector'[e].cur = f.cur
          /\ detector'[e].prev = f.prev /\ detector'[e].save = f.save
          /\ detector'[e].wrote = f.wrote
          /\ detector'[e].late = IF e \in met THEN all ELSE f.late
      BY <1>5, <2>1 DEF Runs
    <2> QED
      BY <2>2 DEF f
  <1>11. ASSUME NEW e \in Detectors, e # d
         PROVE  /\ IsRun(detector'[e]) /\ SameWrites(e)
                /\ Differs(detector'[e]) = Differs(detector[e])
                /\ \A u, pcs : On(detector'[e], u, pcs) <=> On(detector[e], u, pcs)
    <2>1. /\ Differs(detector'[e]) = Differs(detector[e])
          /\ NewKeys(detector'[e]) = NewKeys(detector[e])
          /\ ChangedKeys(detector'[e]) = ChangedKeys(detector[e])
      BY <1>10, <1>11, SameFound
    <2>2. IsRun(detector[e])
      BY DEF CInv, RunsAre
    <2> QED
      BY <1>10, <1>11, <2>1, <2>2 DEF IsRun, SameWrites, On
  <1>12. SameWrites(d)
    BY <1>1, <1>7, <1>8 DEF SameWrites, Writing, q
  <1>13. DOMAIN detector' = Detectors /\ \E f : detector' = [e \in Detectors |-> f[e]]
    <2> DEFINE f == [e \in Detectors |->
                 IF e = d THEN n ELSE IF e \in met THEN [detector[e] EXCEPT !.late = all]
                 ELSE detector[e]]
    <2>1. detector' = f
      BY <1>3 DEF n
    <2>2. f = [e \in Detectors |-> f[e]]
      OBVIOUS
    <2> HIDE DEF f
    <2> QED
      BY <2>1, <2>2
  <1>14. RunsAre'
    BY <1>7, <1>8, <1>9, <1>10, <1>11, <1>13 DEF RunsAre
  <1>15. Alone' /\ Written' /\ AllTold'
    BY <1>4, <1>11, <1>12, WaitingKeeps
  <1>16. DataAre'
    BY <1>4 DEF CInv, DataAre
  <1>17. On(n, t, Past) /\ (\A u : On(n, u, Past) => u = t) /\ n.pc \notin Writing
    BY <1>7 DEF On, Past, Writing
  <1>18. Fresh'
    <2> SUFFICES ASSUME NEW e \in Detectors, NEW u \in TrackedTypes, NEW k \in Keys,
                        On(detector'[e], u, Past), <<u, k>> \notin detector'[e].late
                 PROVE  /\ Matches(source'[u][k], detector'[e].cur[k])
                        /\ \A f \in Detectors : f # e => ~On(detector'[f], u, Past)
                        /\ detector'[e].pc \in Writing /\ k \notin Differs(detector'[e])
                              => baseline'[u][k] = detector'[e].prev[k]
      BY DEF Fresh, FreshFor
    <2>1. CASE e = d
      <3>1. u = t /\ <<u, k>> \notin late
        BY <1>7, <1>8, <1>17, <2>1
      <3>2. met = {}
        BY <1>5, <3>1 DEF all
      <3>3. \A f \in Detectors : f # d => ~On(detector'[f], u, Past)
        BY <1>6, <1>11, <3>1, <3>2
      <3> QED
        BY <1>3, <1>4, <1>7, <1>8, <1>17, <2>1, <3>1, <3>3
    <2>2. CASE e # d
      <3>1. On(detector[e], u, Past)
        BY <1>11, <2>2
      <3>2. u # t
        <4>1. CASE u = t
          <5>1. e \in met
            BY <1>6, <2>2, <3>1, <4>1
          <5> QED
            BY <1>10, <2>2, <4>1, <5>1 DEF all
        <4> QED
          BY <4>1
      <3>3. e \notin met /\ <<u, k>> \notin detector[e].late
        BY <1>6, <1>10, <2>2, <3>1, <3>2 DEF On
      <3>4. FreshFor(e)
        BY DEF CInv, Fresh
      <3>5. \A f \in Detectors : f # e => ~On(detector'[f], u, Past)
        BY <1>8, <1>11, <1>17, <3>1, <3>2, <3>3, <3>4 DEF FreshFor
      <3> QED
        BY <1>4, <1>10, <1>11, <2>2, <3>1, <3>3, <3>4, <3>5 DEF FreshFor
    <2> QED
      BY <2>1, <2>2
  <1>19. Untouched'
    <2> SUFFICES ASSUME NEW u \in TrackedTypes, NEW k \in Keys, <<u, k>> \notin touched',
                        <<u, k>> \notin excused', ~Shared(u, k)'
                 PROVE  /\ Matches(source'[u][k], baseline'[u][k].val)
                        /\ \A e \in Detectors : On(detector'[e], u, Past) =>
                              /\ Matches(source'[u][k], detector'[e].cur[k])
                              /\ detector'[e].pc \in Writing => k \notin Differs(detector'[e])
      BY DEF Untouched
    <2>1. <<u, k>> \notin touched /\ <<u, k>> \notin excused /\ ~Shared(u, k)
      BY <1>4 DEF Shared
    <2>2. ASSUME NEW e \in Detectors, On(detector'[e], u, Past)
          PROVE  /\ Matches(source[u][k], detector'[e].cur[k])
                 /\ detector'[e].pc \in Writing => k \notin Differs(detector'[e])
      <3>1. CASE e = d
        BY <1>3, <1>7, <1>8, <1>17, <2>2, <3>1
      <3>2. CASE e # d
        BY <1>10, <1>11, <2>1, <2>2, <3>2 DEF CInv, Untouched
      <3> QED
        BY <3>1, <3>2
    <2> QED
      BY <1>4, <2>1, <2>2 DEF CInv, Untouched
  <1> QED
    BY <1>14, <1>15, <1>16, <1>18, <1>19 DEF CInv

LEMMA AlterKeeps ==
    ASSUME CInv, Alter
    PROVE  CInv'
  <1>1. PICK t \in TrackedTypes, k \in Keys, rows \in SUBSET Vals :
           /\ source' = [source EXCEPT ![t][k] = rows]
           /\ touched' = touched \cup {<<t, k>>}
           /\ detector' = [d \in Detectors |->
                 IF detector[d].pc \notin {"off", "snapshot"} /\ Types[detector[d].at] = t
                 THEN [detector[d] EXCEPT !.late = @ \cup {<<t, k>>}] ELSE detector[d]]
    BY DEF Alter, Type
  <1>2. /\ UNCHANGED <<baseline, timeline, scans, errors, excused>>
        /\ alters' = alters + 1 /\ alters < MaxAlters
    BY DEF Alter
  <1>3. source \in [TrackedTypes -> [Keys -> SUBSET Vals]] /\ <<t, k>> \in Slots
    BY DEF CInv, DataAre, Slots
  <1>4. /\ source' \in [TrackedTypes -> [Keys -> SUBSET Vals]]
        /\ \A u \in TrackedTypes, i \in Keys : <<u, i>> # <<t, k>> => source'[u][i] = source[u][i]
    BY <1>1, <1>3
  <1>5. alters' \in 0..MaxAlters
    BY <1>2, ChangeDetectionAssumption DEF CInv, DataAre
  <1>6. DataAre'
    BY <1>1, <1>2, <1>3, <1>4, <1>5 DEF CInv, DataAre
  <1>7. ASSUME NEW e \in Detectors
        PROVE  /\ detector'[e] \in Runs /\ detector'[e].pc = detector[e].pc
               /\ detector'[e].at = detector[e].at /\ detector'[e].cur = detector[e].cur
               /\ detector'[e].prev = detector[e].prev /\ detector'[e].save = detector[e].save
               /\ detector'[e].wrote = detector[e].wrote
               /\ detector[e].late \subseteq detector'[e].late
               /\ On(detector[e], t, Past) => <<t, k>> \in detector'[e].late
    <2> DEFINE f == detector[e]
               more == f.late \cup {<<t, k>>}
               its == f.pc \notin {"off", "snapshot"} /\ Types[f.at] = t
    <2>1. f \in Runs /\ detector'[e] = IF its THEN [f EXCEPT !.late = more] ELSE f
      BY <1>1 DEF CInv, RunsAre
    <2>2. On(f, t, Past) => its
      BY DEF On, Past, Writing
    <2> HIDE DEF f, its
    <2>3. more \subseteq Slots /\ f.late \subseteq more /\ <<t, k>> \in more
      BY <1>3, <2>1 DEF Runs
    <2> HIDE DEF more
    <2>4. /\ detector'[e] \in Runs /\ detector'[e].pc = f.pc
          /\ detector'[e].at = f.at /\ detector'[e].cur = f.cur
          /\ detector'[e].prev = f.prev /\ detector'[e].save = f.save
          /\ detector'[e].wrote = f.wrote
          /\ detector'[e].late = IF its THEN more ELSE f.late
      BY <2>1, <2>3 DEF Runs
    <2> QED
      BY <2>2, <2>3, <2>4 DEF f
  <1>8. ASSUME NEW e \in Detectors
        PROVE  /\ IsRun(detector'[e]) /\ SameWrites(e)
               /\ Differs(detector'[e]) = Differs(detector[e])
               /\ \A u, pcs : On(detector'[e], u, pcs) <=> On(detector[e], u, pcs)
    <2>1. /\ Differs(detector'[e]) = Differs(detector[e])
          /\ NewKeys(detector'[e]) = NewKeys(detector[e])
          /\ ChangedKeys(detector'[e]) = ChangedKeys(detector[e])
      BY <1>7, SameFound
    <2>2. IsRun(detector[e])
      BY DEF CInv, RunsAre
    <2> QED
      BY <1>7, <2>1, <2>2 DEF IsRun, SameWrites, On
  <1>9. RunsAre'
    <2>1. \E f : detector' = [e \in Detectors |-> f[e]]
      <3> DEFINE f == [d \in Detectors |->
                 IF detector[d].pc \notin {"off", "snapshot"} /\ Types[detector[d].at] = t
                 THEN [detector[d] EXCEPT !.late = @ \cup {<<t, k>>}] ELSE detector[d]]
      <3>1. detector' = f
        BY <1>1
      <3>2. f = [e \in Detectors |-> f[e]]
        OBVIOUS
      <3> HIDE DEF f
      <3> QED
        BY <3>1, <3>2
    <2> QED
      BY <1>7, <1>8, <2>1 DEF RunsAre
  <1>10. Alone' /\ Written' /\ AllTold'
    BY <1>2, <1>8, WaitingKeeps
  <1>11. Fresh'
    <2> SUFFICES ASSUME NEW e \in Detectors, NEW u \in TrackedTypes, NEW i \in Keys,
                        On(detector'[e], u, Past), <<u, i>> \notin detector'[e].late
                 PROVE  /\ Matches(source'[u][i], detector'[e].cur[i])
                        /\ \A f \in Detectors : f # e => ~On(detector'[f], u, Past)
                        /\ detector'[e].pc \in Writing /\ i \notin Differs(detector'[e])
                              => baseline'[u][i] = detector'[e].prev[i]
      BY DEF Fresh, FreshFor
    <2>1. On(detector[e], u, Past) /\ <<u, i>> \notin detector[e].late
      BY <1>7, <1>8
    <2>2. <<u, i>> # <<t, k>>
      BY <1>7, <2>1
    <2>3. source'[u][i] = source[u][i] /\ FreshFor(e)
      BY <1>4, <2>2 DEF CInv, Fresh
    <2> QED
      BY <1>2, <1>7, <1>8, <2>1, <2>3 DEF FreshFor
  <1>12. Untouched'
    <2> SUFFICES ASSUME NEW u \in TrackedTypes, NEW i \in Keys, <<u, i>> \notin touched',
                        <<u, i>> \notin excused', ~Shared(u, i)'
                 PROVE  /\ Matches(source'[u][i], baseline'[u][i].val)
                        /\ \A e \in Detectors : On(detector'[e], u, Past) =>
                              /\ Matches(source'[u][i], detector'[e].cur[i])
                              /\ detector'[e].pc \in Writing => i \notin Differs(detector'[e])
      BY DEF Untouched
    <2>1. <<u, i>> # <<t, k>> /\ <<u, i>> \notin touched /\ <<u, i>> \notin excused
      BY <1>1, <1>2
    <2>2. source'[u][i] = source[u][i]
      BY <1>4, <2>1
    <2>3. ~Shared(u, i)
      BY <2>2 DEF Shared
    <2> QED
      BY <1>2, <1>7, <1>8, <2>1, <2>2, <2>3 DEF CInv, Untouched
  <1> QED
    BY <1>6, <1>9, <1>10, <1>11, <1>12 DEF CInv

LEMMA CrashKeeps ==
    ASSUME CInv, DetectionCrash
    PROVE  CInv'
  <1> DEFINE cut == {d \in Detectors : detector[d].wrote}
             More == UNION {{Type(d)} \X Differs(detector[d]) : d \in cut}
  <1>1. /\ errors < MaxErrors /\ errors' = errors + 1
        /\ detector' = [d \in Detectors |-> Resting] /\ excused' = excused \cup More
        /\ UNCHANGED <<source, baseline, timeline, scans, alters, touched>>
    BY DEF DetectionCrash
  <1>2. ASSUME NEW d \in cut, NEW k \in Differs(detector[d])
        PROVE  <<Types[detector[d].at], k>> \in Slots \cap More
    <2>1. IsRun(detector[d]) /\ detector[d].wrote
      BY DEF CInv, RunsAre
    <2>2. Types[detector[d].at] \in TrackedTypes
      BY <2>1, TypesAre DEF IsRun
    <2> QED
      BY <2>2, FoundKeys DEF Slots, Type
  <1>3. More \subseteq Slots
    <2> SUFFICES ASSUME NEW x \in More
                 PROVE  x \in Slots
      OBVIOUS
    <2>1. PICK d \in cut : x \in {Type(d)} \X Differs(detector[d])
      OBVIOUS
    <2>2. PICK k \in Differs(detector[d]) : x = <<Types[detector[d].at], k>>
      BY <2>1 DEF Type
    <2> QED
      BY <1>2, <2>2
  <1>4. errors' \in 0..MaxErrors
    BY <1>1, ChangeDetectionAssumption DEF CInv, DataAre
  <1> HIDE DEF More
  <1>5. DataAre' /\ excused \subseteq excused'
    BY <1>1, <1>3, <1>4 DEF CInv, DataAre
  <1>6. RunsAre'
    BY <1>1, RestingIs DEF RunsAre
  <1>7. \A d \in Detectors : \A t, pcs : pcs \in {Past, Writing} => ~On(detector'[d], t, pcs)
    BY <1>1, RestingIs DEF On, Past, Writing
  <1>8. Alone' /\ Written' /\ Fresh'
    BY <1>7 DEF Alone, Written, WrittenBy, Fresh, FreshFor
  <1>9. Untouched'
    <2> SUFFICES ASSUME NEW u \in TrackedTypes, NEW i \in Keys, <<u, i>> \notin touched',
                        <<u, i>> \notin excused', ~Shared(u, i)'
                 PROVE  Matches(source'[u][i], baseline'[u][i].val)
      BY <1>7 DEF Untouched
    <2>1. <<u, i>> \notin touched /\ <<u, i>> \notin excused /\ ~Shared(u, i)
      BY <1>1, <1>5 DEF Shared
    <2> QED
      BY <1>1, <2>1 DEF CInv, Untouched
  <1>10. AllTold'
    <2> SUFFICES ASSUME NEW t \in TrackedTypes, NEW k \in Keys, <<t, k>> \notin excused'
                 PROVE  baseline'[t][k].val = Told(t, k)'
      BY DEF AllTold, ToldFor
    <2>1. Told(t, k)' = Told(t, k) /\ <<t, k>> \notin excused
      BY <1>1, <1>5 DEF Told
    <2>2. CASE \E d \in Detectors : On(detector[d], t, Writing) /\ k \in Differs(detector[d])
      <3>1. PICK d \in Detectors : On(detector[d], t, Writing) /\ k \in Differs(detector[d])
        BY <2>2
      <3>2. ~detector[d].wrote
        BY <1>1, <1>2, <3>1 DEF On
      <3>3. baseline[t][k].val = Told(t, k)
        BY <2>1, <3>1, <3>2 DEF CInv, Written, WrittenBy
      <3> QED
        BY <1>1, <2>1, <3>3
    <2>3. CASE ~\E d \in Detectors : On(detector[d], t, Writing) /\ k \in Differs(detector[d])
      BY <1>1, <2>1, <2>3 DEF CInv, AllTold, ToldFor
    <2> QED
      BY <2>2, <2>3
  <1> QED
    BY <1>5, <1>6, <1>8, <1>9, <1>10 DEF CInv

LEMMA DetectionStart == DetectionInit => CInv
  <1> SUFFICES ASSUME DetectionInit
               PROVE  CInv
    OBVIOUS
  <1>1. /\ source \in [TrackedTypes -> [Keys -> {{}, {CHOOSE v \in Vals : TRUE}}]]
        /\ baseline = [t \in TrackedTypes |-> [k \in Keys |-> Unset]]
        /\ timeline = [t \in TrackedTypes |-> [k \in Keys |-> <<>>]]
        /\ detector = [d \in Detectors |-> Resting]
        /\ scans = 0 /\ alters = 0 /\ errors = 0 /\ touched = Slots /\ excused = {}
    BY DEF DetectionInit
  <1>2. Unset \in Stood /\ Unset.val = Absent
    BY ChangeDetectionAssumption DEF Unset, Stood, Rows
  <1>3. source \in [TrackedTypes -> [Keys -> SUBSET Vals]]
    <2>1. (CHOOSE v \in Vals : TRUE) \in Vals
      BY ChangeDetectionAssumption
    <2> QED
      BY <1>1, <2>1
  <1>4. DataAre
    BY <1>1, <1>2, <1>3, ChangeDetectionAssumption DEF DataAre, Bases
  <1>5. RunsAre
    BY <1>1, RestingIs DEF RunsAre
  <1>6. \A d \in Detectors : \A t, pcs : pcs \in {Past, Writing} => ~On(detector[d], t, pcs)
    BY <1>1, RestingIs DEF On, Past, Writing
  <1>7. Alone /\ Written /\ Fresh
    BY <1>6 DEF Alone, Written, WrittenBy, Fresh, FreshFor
  <1>8. Untouched
    BY <1>1 DEF Untouched, Slots
  <1>9. AllTold
    BY <1>1, <1>2 DEF AllTold, ToldFor, Told
  <1> QED
    BY <1>4, <1>5, <1>7, <1>8, <1>9 DEF CInv

LEMMA DetectionStutters ==
    ASSUME CInv, UNCHANGED detectionVars
    PROVE  CInv'
  BY DEF detectionVars, CInv, DataAre, RunsAre, Alone, Written, WrittenBy, Fresh, FreshFor,
         Untouched, AllTold, ToldFor, Told, Shared

\* The invariant is one of every step of every run, of a change of the assets
\* and of a crash.
THEOREM DetectionInductive == DetectionSpec => []CInv
  <1>1. DetectionInit => CInv
    BY DetectionStart
  <1>2. CInv /\ [DetectionNext]_detectionVars => CInv'
    <2> SUFFICES ASSUME CInv, [DetectionNext]_detectionVars
                 PROVE  CInv'
      OBVIOUS
    <2>1. CASE Alter
      BY <2>1, AlterKeeps
    <2>2. CASE DetectionCrash
      BY <2>2, CrashKeeps
    <2>3. ASSUME NEW d \in Detectors, StartDetection(d)
          PROVE  CInv'
      BY <2>3, StartDetectionKeeps
    <2>4. ASSUME NEW d \in Detectors, TakeSnapshot(d)
          PROVE  CInv'
      BY <2>4, TakeSnapshotKeeps
    <2>5. ASSUME NEW d \in Detectors, ReadBaseline(d)
          PROVE  CInv'
      BY <2>5, ReadBaselineKeeps
    <2>6. ASSUME NEW d \in Detectors, CreateRows(d)
          PROVE  CInv'
      BY <2>6, CreateRowsKeeps
    <2>7. ASSUME NEW d \in Detectors, SaveRow(d)
          PROVE  CInv'
      BY <2>7, SaveRowKeeps
    <2>8. ASSUME NEW d \in Detectors, DeleteStale(d)
          PROVE  CInv'
      BY <2>8, DeleteStaleKeeps
    <2>9. ASSUME NEW d \in Detectors, InsertEvents(d)
          PROVE  CInv'
      BY <2>9, InsertEventsKeeps
    <2>10. ASSUME NEW d \in Detectors, DetectionFails(d)
           PROVE  CInv'
      <3>1. detector[d].pc # "off" /\ Abort(d) /\ errors' \in 0..MaxErrors
        BY <2>10, ChangeDetectionAssumption DEF DetectionFails, CInv, DataAre
      <3> QED
        BY <3>1, AbortKeeps
    <2>11. CASE UNCHANGED detectionVars
      BY <2>11, DetectionStutters
    <2> QED
      BY <2>1, <2>2, <2>3, <2>4, <2>5, <2>6, <2>7, <2>8, <2>9, <2>10, <2>11 DEF DetectionNext
  <1> QED
    BY <1>1, <1>2, PTL DEF DetectionSpec

\* Rows, events and runs are what diffAndPersist makes of them
\* (changedetect/engine.go).
THEOREM DetectionTypes == DetectionSpec => []DetectionTypeOK
  <1>1. CInv => DetectionTypeOK
    <2> SUFFICES ASSUME CInv
                 PROVE  DetectionTypeOK
      OBVIOUS
    <2>1. baseline \in [TrackedTypes -> [Keys -> Rows]]
      BY DEF CInv, DataAre, Bases, Stood
    <2>2. \A t \in TrackedTypes, k \in Keys : \A i \in DOMAIN timeline[t][k] :
             timeline[t][k][i] \in Events
      <3> SUFFICES ASSUME NEW t \in TrackedTypes, NEW k \in Keys,
                          NEW i \in DOMAIN timeline[t][k]
                   PROVE  timeline[t][k][i] \in Events
        OBVIOUS
      <3>1. timeline[t][k] \in Seq(Events)
        BY DEF CInv, DataAre
      <3> QED
        BY <3>1, ElementOfSeq, LenProperties
    <2>3. \A d \in Detectors : detector[d].at \in 0..Len(Types) /\ detector[d].save \subseteq Keys
      BY DEF CInv, RunsAre, Runs
    <2> QED
      BY <2>1, <2>2, <2>3 DEF CInv, DataAre, DetectionTypeOK, Events
  <1> QED
    BY <1>1, DetectionInductive, PTL

\* The baseline never moves without the timeline saying so, but for runs that
\* ended between their first write and their events and runs that met at a key
\* (engine.go: diffAndPersist).
THEOREM ChangesAreAlwaysTold == DetectionSpec => []ChangesAreTold
  <1>1. CInv => ChangesAreTold
    BY DEF CInv, AllTold, ToldFor, ChangesAreTold, InType, Type, On, Writing
  <1> QED
    BY <1>1, DetectionInductive, PTL

\* The timeline grows by an event of an asset that nothing touched since it
\* was last compared for no run that was alone at the key, unless several rows
\* share the key (engine.go: the snapshots keep the last of them).
THEOREM NoPhantomsEver == DetectionSpec => NoPhantoms
  <1>1. CInv /\ [DetectionNext]_detectionVars =>
           [\A t \in TrackedTypes, k \in Keys :
               timeline'[t][k] # timeline[t][k] =>
                 <<t, k>> \in touched \cup excused \/ Shared(t, k)]_detectionVars
    <2> SUFFICES ASSUME CInv, DetectionNext, NEW t \in TrackedTypes, NEW k \in Keys,
                        timeline'[t][k] # timeline[t][k]
                 PROVE  <<t, k>> \in touched \cup excused \/ Shared(t, k)
      OBVIOUS
    <2>1. PICK d \in Detectors : InsertEvents(d)
      BY DEF DetectionNext, Alter, DetectionCrash, StartDetection, TakeSnapshot, ReadBaseline,
             CreateRows, SaveRow, DeleteStale, DetectionFails, Abort
    <2> DEFINE r == detector[d]
    <2>2. IsRun(r) /\ r.pc = "events"
      BY <2>1 DEF CInv, RunsAre, InsertEvents
    <2>3. Types[r.at] \in TrackedTypes
      BY <2>2, TypesAre DEF IsRun
    <2>4. t = Types[r.at] /\ k \in Differs(r)
      BY <2>1, <2>3 DEF InsertEvents, Type, CInv, DataAre
    <2>5. On(r, t, Past) /\ r.pc \in Writing
      BY <2>2, <2>4 DEF On, Past, Writing
    <2> QED
      BY <2>4, <2>5 DEF CInv, Untouched
  <1> QED
    BY <1>1, DetectionInductive, PTL DEF DetectionSpec, NoPhantoms

-----------------------------------------------------------------------------
(***************************************************************************)
(* AssetGraph: what a search keeps while it runs, so that its answer is    *)
(* the best one.                                                           *)
(***************************************************************************)

\* The nodes within k rows, from those within one row less.
LEMMA BallSteps ==
    ASSUME NEW rows, NEW S, NEW x
    PROVE  /\ Ball(rows, S, x, 0) = {x} \cap S
           /\ \A k \in Nat : \A y : y \in Ball(rows, S, x, k + 1) <=>
                \/ y \in Ball(rows, S, x, k)
                \/ y \in S /\ \E z \in Ball(rows, S, x, k) : Joined(rows, y, z)
<1> DEFINE Wider(b) == b \cup {y \in S : \E z \in b : Joined(rows, y, z)}
           Next1(g, i) == IF i = 0 THEN {x} \cap S
                          ELSE g[i-1] \cup {y \in S : \E z \in g[i-1] : Joined(rows, y, z)}
           Def(g, m) == g = [i \in 0..m |-> Next1(g, i)]
           Fit == {m \in Nat : \E g : Def(g, m)}
<1>0. \A g, m : \A i \in 0..m : Def(g, m) => g[i] = Next1(g, i) OBVIOUS
<1>1. Nat \subseteq Fit
  <2>1. 0 \in Fit
    <3> DEFINE h == [i \in 0..0 |-> {x} \cap S]
    <3>1. h = [i \in 0..0 |-> Next1(h, i)] OBVIOUS
    <3> HIDE DEF h
    <3> QED BY <3>1
  <2>2. ASSUME NEW k \in Nat, k \in Fit PROVE k + 1 \in Fit
    <3>1. PICK g : Def(g, k)
      <4> HIDE DEF Def
      <4> QED BY <2>2
    <3> DEFINE h == [i \in 0..(k + 1) |-> Next1(g, i)]
    <3>2. \A i \in 0..k : h[i] = g[i]
      <4>1. TAKE i \in 0..k
      <4>2. i \in 0..(k + 1) OBVIOUS
      <4>3. h[i] = Next1(g, i) BY <4>2
      <4>4. g[i] = Next1(g, i) BY <3>1, <1>0
      <4> QED BY <4>3, <4>4
    <3>3. \A i \in 0..(k + 1) : i # 0 => i - 1 \in 0..k OBVIOUS
    <3>4. \A i \in 0..(k + 1) : Next1(g, i) = Next1(h, i)
      <4>1. \A i \in 0..(k + 1) : i # 0 => h[i-1] = g[i-1]
        <5> HIDE DEF h
        <5> QED BY <3>2, <3>3
      <4> HIDE DEF h
      <4> QED BY <4>1
    <3>5. Def(h, k + 1) BY <3>4
    <3> HIDE DEF Def, h
    <3> QED BY <3>5
  <2> HIDE DEF Fit
  <2> QED BY <2>1, <2>2, CountUp
<1>2. ASSUME NEW m \in Nat, NEW n \in Nat, m <= n, NEW g, NEW h, Def(g, m), Def(h, n)
      PROVE  \A i \in 0..m : g[i] = h[i]
  <2> DEFINE Alike == {i \in Nat : i <= m => g[i] = h[i]}
  <2>a. \A i \in 0..m : g[i] = Next1(g, i) BY <1>0, <1>2
  <2>b. \A i \in 0..n : h[i] = Next1(h, i) BY <1>0, <1>2
  <2>1. 0 \in Alike
    <3>1. 0 \in 0..m /\ 0 \in 0..n BY <1>2
    <3> HIDE DEF Def
    <3> QED BY <2>a, <2>b, <3>1
  <2>2. ASSUME NEW k \in Nat, k \in Alike PROVE k + 1 \in Alike
    <3>1. SUFFICES ASSUME k + 1 <= m PROVE g[k + 1] = h[k + 1] OBVIOUS
    <3>2. k + 1 \in 0..m /\ k + 1 \in 0..n /\ k <= m /\ (k + 1) - 1 = k /\ k + 1 # 0 BY <3>1, <1>2
    <3>3. g[k] = h[k] BY <2>2, <3>2
    <3>4. g[k + 1] = Next1(g, k + 1) /\ h[k + 1] = Next1(h, k + 1)
      <4> HIDE DEF Next1
      <4> QED BY <2>a, <2>b, <3>2
    <3> QED BY <3>2, <3>3, <3>4
  <2>3. Nat \subseteq Alike
    <3> HIDE DEF Alike
    <3> QED BY <2>1, <2>2, CountUp
  <2> QED BY <2>3
<1> DEFINE F == [m \in Nat |-> CHOOSE g : Def(g, m)]
           B == [i \in Nat |-> F[i][i]]
<1>3. \A m \in Nat : Def(F[m], m)
  <2>1. TAKE m \in Nat
  <2>2. \E g : Def(g, m)
    <3> HIDE DEF Def
    <3> QED BY <1>1
  <2>3. F[m] = CHOOSE g : Def(g, m)
    <3> HIDE DEF Def
    <3> QED OBVIOUS
  <2> HIDE DEF Def, F
  <2> QED BY <2>2, <2>3
<1>4. \A i \in Nat : B[i] = Next1(B, i)
  <2>1. TAKE i \in Nat
  <2>2. B[i] = F[i][i]
    <3> HIDE DEF F
    <3> QED OBVIOUS
  <2>3. F[i][i] = Next1(F[i], i)
    <3>1. i \in 0..i OBVIOUS
    <3> HIDE DEF F, Def, Next1
    <3> QED BY <1>0, <1>3, <3>1
  <2>4. i # 0 => B[i - 1] = F[i][i - 1]
    <3>1. SUFFICES ASSUME i # 0 PROVE B[i - 1] = F[i][i - 1] OBVIOUS
    <3>2. i - 1 \in Nat /\ i - 1 <= i /\ i - 1 \in 0..(i - 1) BY <3>1
    <3>3. B[i - 1] = F[i - 1][i - 1]
      <4> HIDE DEF F
      <4> QED BY <3>2
    <3>4. Def(F[i - 1], i - 1) /\ Def(F[i], i)
      <4> HIDE DEF Def, F
      <4> QED BY <1>3, <3>2
    <3> HIDE DEF Def, F, B
    <3> QED BY <1>2, <3>2, <3>3, <3>4
  <2> HIDE DEF F, B
  <2> QED BY <2>2, <2>3, <2>4
<1>5. B = [i \in Nat |-> Next1(B, i)]
  <2>1. B = [i \in Nat |-> B[i]]
    <3> HIDE DEF F
    <3> QED OBVIOUS
  <2> HIDE DEF B, Next1
  <2> QED BY <1>4, <2>1
<1> DEFINE G == CHOOSE g : g = [i \in Nat |-> Next1(g, i)]
<1>6. G = [i \in Nat |-> Next1(G, i)]
  <2> HIDE DEF B
  <2> QED BY <1>5
<1>7. \A k : Ball(rows, S, x, k) = G[k] BY DEF Ball
<1> HIDE DEF G
<1>8. \A i \in Nat : G[i] = Next1(G, i) BY <1>6
<1>9. Ball(rows, S, x, 0) = {x} \cap S BY <1>7, <1>8
<1>10. ASSUME NEW k \in Nat PROVE G[k + 1] = Wider(G[k])
  <2>1. k + 1 \in Nat /\ k + 1 # 0 /\ (k + 1) - 1 = k OBVIOUS
  <2>2. G[k + 1] = Next1(G, k + 1)
    <3> HIDE DEF Next1
    <3> QED BY <1>8, <2>1
  <2> QED BY <2>1, <2>2
<1>11. ASSUME NEW k \in Nat, NEW y
       PROVE  y \in Ball(rows, S, x, k + 1) <=>
                \/ y \in Ball(rows, S, x, k)
                \/ y \in S /\ \E z \in Ball(rows, S, x, k) : Joined(rows, y, z)
  <2>1. Ball(rows, S, x, k + 1) = G[k + 1] /\ Ball(rows, S, x, k) = G[k] BY <1>7
  <2>2. G[k + 1] = Wider(G[k]) BY <1>10
  <2> QED BY <2>1, <2>2
<1> QED BY <1>9, <1>11

\* The step alone, for proofs that reach a node by one more row.
LEMMA BallNext ==
    ASSUME NEW rows, NEW S, NEW x, NEW k \in Nat, NEW y
    PROVE  y \in Ball(rows, S, x, k + 1) <=>
             \/ y \in Ball(rows, S, x, k)
             \/ y \in S /\ \E z \in Ball(rows, S, x, k) : Joined(rows, y, z)
BY BallSteps

\* A set with x that keeps its neighbours holds whatever is reached from x.
LEMMA BallWithin ==
    ASSUME NEW rows, NEW S, NEW x, NEW C, x \in S => x \in C,
           \A z \in C : \A y \in S : Joined(rows, y, z) => y \in C
    PROVE  \A k \in Nat : Ball(rows, S, x, k) \subseteq C
<1> DEFINE G == {k \in Nat : Ball(rows, S, x, k) \subseteq C}
<1>1. 0 \in G BY BallSteps
<1>2. ASSUME NEW k \in Nat, k \in G PROVE k + 1 \in G BY <1>2, BallNext
<1>3. Nat \subseteq G
  <2> HIDE DEF G
  <2> QED BY <1>1, <1>2, CountUp
<1> QED BY <1>3

\* It grows with the number of rows.
LEMMA BallGrows ==
    ASSUME NEW rows, NEW S, NEW x, NEW i \in Nat, NEW j \in Nat, i <= j
    PROVE  Ball(rows, S, x, i) \subseteq Ball(rows, S, x, j)
<1> DEFINE G == {k \in Nat : i <= k => Ball(rows, S, x, i) \subseteq Ball(rows, S, x, k)}
<1>1. 0 \in G
  <2>1. SUFFICES ASSUME i <= 0 PROVE Ball(rows, S, x, i) \subseteq Ball(rows, S, x, 0) OBVIOUS
  <2>2. i = 0 BY <2>1
  <2> QED BY <2>2
<1>2. ASSUME NEW k \in Nat, k \in G PROVE k + 1 \in G
  <2>1. SUFFICES ASSUME i <= k + 1
                 PROVE  Ball(rows, S, x, i) \subseteq Ball(rows, S, x, k + 1)
    OBVIOUS
  <2>2. CASE i = k + 1 BY <2>2
  <2>3. CASE i <= k
    <3>1. Ball(rows, S, x, i) \subseteq Ball(rows, S, x, k) BY <1>2, <2>3
    <3>2. Ball(rows, S, x, k) \subseteq Ball(rows, S, x, k + 1) BY BallNext
    <3> QED BY <3>1, <3>2
  <2> QED BY <2>1, <2>2, <2>3
<1>3. Nat \subseteq G
  <2> HIDE DEF G
  <2> QED BY <1>1, <1>2, CountUp
<1> QED BY <1>3

\* Once it stops to grow it has what it will ever have.
LEMMA BallStops ==
    ASSUME NEW rows, NEW S, NEW x, NEW k \in Nat,
           Ball(rows, S, x, k + 1) = Ball(rows, S, x, k)
    PROVE  \A j \in Nat : Ball(rows, S, x, j) \subseteq Ball(rows, S, x, k)
<1> DEFINE C == Ball(rows, S, x, k)
<1>1. x \in S => x \in C
  <2>1. x \in S => x \in Ball(rows, S, x, 0) BY BallSteps
  <2>2. Ball(rows, S, x, 0) \subseteq C BY BallGrows
  <2> QED BY <2>1, <2>2
<1>2. \A z \in C : \A y \in S : Joined(rows, y, z) => y \in C BY BallNext
<1> HIDE DEF C
<1>3. \A j \in Nat : Ball(rows, S, x, j) \subseteq C BY <1>1, <1>2, BallWithin
<1> QED BY <1>3 DEF C

\* After as many steps as there are nodes all are reached that can be.
LEMMA BallEnds ==
    ASSUME NEW rows, NEW S, NEW x, IsFiniteSet(S)
    PROVE  \A j \in Nat : Ball(rows, S, x, j) \subseteq Reachable(rows, S, x)
<1> DEFINE B(k) == Ball(rows, S, x, k)
           n == Cardinality(S)
<1>1. n \in Nat BY FS_CardinalityType
<1>2. \A k \in Nat : /\ B(k) \subseteq S /\ B(k) \subseteq B(k + 1) /\ IsFiniteSet(B(k))
                     /\ Cardinality(B(k)) \in Nat /\ Cardinality(B(k)) <= n
  <2>1. \A k \in Nat : B(k) \subseteq S
    <3>1. x \in S => x \in S OBVIOUS
    <3> QED BY BallWithin
  <2>2. \A k \in Nat : B(k) \subseteq B(k + 1) BY BallNext
  <2> HIDE DEF B
  <2> QED BY <2>1, <2>2, FS_Subset, FS_CardinalityType
<1>3. \E k \in 0..n : B(k + 1) = B(k)
  <2>1. SUFFICES ASSUME \A k \in 0..n : B(k + 1) # B(k) PROVE FALSE OBVIOUS
  <2> DEFINE G == {k \in Nat : k <= n + 1 => Cardinality(B(k)) >= k}
  <2>2. 0 \in G
    <3> HIDE DEF B, n
    <3> QED BY <1>1, <1>2
  <2>3. ASSUME NEW k \in Nat, k \in G PROVE k + 1 \in G
    <3>1. SUFFICES ASSUME k + 1 <= n + 1 PROVE Cardinality(B(k + 1)) >= k + 1 OBVIOUS
    <3>2. k <= n + 1 /\ k \in 0..n /\ k + 1 \in Nat BY <3>1, <1>1
    <3>3. Cardinality(B(k)) >= k BY <2>3, <3>2
    <3>4. B(k + 1) # B(k) BY <2>1, <3>2
    <3> HIDE DEF B, n
    <3>5. Cardinality(B(k)) < Cardinality(B(k + 1)) BY <1>2, <3>2, <3>4, FS_Subset
    <3> QED BY <3>2, <3>3, <3>5, <1>2
  <2>4. Nat \subseteq G
    <3> HIDE DEF G
    <3> QED BY <2>2, <2>3, CountUp
  <2>5. n + 1 \in Nat /\ n + 1 \in G BY <2>4, <1>1
  <2>6. Cardinality(B(n + 1)) >= n + 1 BY <2>5
  <2>7. Cardinality(B(n + 1)) <= n /\ Cardinality(B(n + 1)) \in Nat BY <1>2, <2>5
  <2> HIDE DEF B, n
  <2> QED BY <2>6, <2>7, <1>1
<1>4. PICK k \in 0..n : B(k + 1) = B(k) BY <1>3
<1>5. k \in Nat /\ k <= n BY <1>1
<1>6. B(k) \subseteq B(n) BY <1>1, <1>5, BallGrows
<1>7. \A j \in Nat : B(j) \subseteq B(k) BY <1>4, <1>5, BallStops
<1> QED BY <1>6, <1>7 DEF Reachable

\* The nodes of a chain are reached along it.
LEMMA BallAlong ==
    ASSUME NEW rows, NEW S, NEW n \in Nat \ {0}, NEW p, \A i \in 1..n : p[i] \in S,
           \A i \in 1..(n - 1) : Joined(rows, p[i], p[i + 1])
    PROVE  \A i \in 1..n : p[i] \in Ball(rows, S, p[1], i - 1)
<1> DEFINE B(k) == Ball(rows, S, p[1], k)
           G == {k \in Nat : k + 1 <= n => p[k + 1] \in B(k)}
<1>1. 0 \in G BY BallSteps
<1>2. ASSUME NEW k \in Nat, k \in G PROVE k + 1 \in G
  <2>1. SUFFICES ASSUME (k + 1) + 1 <= n PROVE p[(k + 1) + 1] \in B(k + 1) OBVIOUS
  <2>2. p[k + 1] \in B(k) BY <1>2, <2>1
  <2>3. k + 1 \in 1..(n - 1) /\ (k + 1) + 1 \in 1..n BY <2>1
  <2>4. Joined(rows, p[k + 1], p[(k + 1) + 1]) /\ p[(k + 1) + 1] \in S BY <2>3
  <2>5. Joined(rows, p[(k + 1) + 1], p[k + 1])
    <3>1. \A a, b : {a, b} = {b, a} OBVIOUS
    <3> QED BY <2>4, <3>1 DEF Joined
  <2> QED BY <2>2, <2>4, <2>5, BallNext
<1>3. Nat \subseteq G
  <2> HIDE DEF G
  <2> QED BY <1>1, <1>2, CountUp
<1>4. TAKE i \in 1..n
<1>5. i - 1 \in Nat /\ (i - 1) + 1 = i OBVIOUS
<1>6. i - 1 \in G BY <1>3, <1>5
<1> QED BY <1>5, <1>6

\* A list of a finite set's members has them all.
LEMMA ListsAll ==
    ASSUME NEW S, IsFiniteSet(S), NEW f \in [1..Cardinality(S) -> S], IsInjective(f)
    PROVE  f \in Seq(S) /\ Len(f) = Cardinality(S) /\ ToSet(f) = S
<1> DEFINE n == Cardinality(S)
           T == ToSet(f)
<1>1. n \in Nat BY FS_CardinalityType
<1>2. IsFiniteSet(1..n) /\ Cardinality(1..n) = n BY <1>1, FS_Interval
<1>3. f \in [1..n -> T] /\ T \subseteq S BY DEF ToSet
<1>4. f \in Surjection(1..n, T) BY <1>3 DEF Surjection, ToSet
<1>5. f \in Injection(1..n, T) BY <1>3 DEF Injection, IsInjective
<1>6. Cardinality(T) = n
  <2> HIDE DEF T, n
  <2> QED BY <1>2, <1>4, <1>5, FS_Surjection
<1>7. T = S BY <1>3, <1>6, FS_Subset
<1>8. f \in Seq(S) BY <1>1, SeqDef
<1>9. DOMAIN f = 1..Len(f) /\ DOMAIN f = 1..n /\ Len(f) \in Nat BY <1>8, LenProperties
<1>10. Len(f) = n BY <1>1, <1>9
<1> QED BY <1>7, <1>8, <1>10

\* SetToSeq, which stands for the order of an index that nothing promises.
LEMMA AnyOrderLists ==
    ASSUME NEW S, IsFiniteSet(S)
    PROVE  SetToSeq(S) \in Seq(S) /\ ToSet(SetToSeq(S)) = S
<1>1. ExistsBijection(1..Cardinality(S), S) BY FS_CardinalityType
<1>2. PICK f : f \in [1..Cardinality(S) -> S] /\ IsInjective(f)
  BY <1>1 DEF ExistsBijection, Bijection, Injection
<1>3. SetToSeq(S) \in [1..Cardinality(S) -> S] /\ IsInjective(SetToSeq(S)) BY <1>2 DEF SetToSeq
<1> QED BY <1>3, ListsAll

\* An order of a set lists the set.
LEMMA OrdersList ==
    ASSUME NEW S, IsFiniteSet(S), NEW f \in SetToSeqs(S)
    PROVE  f \in Seq(S) /\ ToSet(f) = S
<1>1. f \in [1..Cardinality(S) -> S] BY DEF SetToSeqs
<1>2. IsInjective(f) BY <1>1 DEF SetToSeqs, IsInjective
<1> QED BY <1>1, <1>2, ListsAll

\* What a sequence holds, joined to another one and without one of its elements.
LEMMA HeldBoth ==
    ASSUME NEW S, NEW s \in Seq(S), NEW t \in Seq(S)
    PROVE  s \o t \in Seq(S) /\ ToSet(s \o t) = ToSet(s) \cup ToSet(t)
<1>1. /\ Len(s) \in Nat /\ DOMAIN s = 1..Len(s) /\ Len(t) \in Nat /\ DOMAIN t = 1..Len(t)
      /\ s \o t \in Seq(S) /\ Len(s \o t) = Len(s) + Len(t)
      /\ \A i \in 1..(Len(s) + Len(t)) :
            (s \o t)[i] = IF i <= Len(s) THEN s[i] ELSE t[i - Len(s)]
  BY LenProperties, ConcatProperties
<1>2. DOMAIN (s \o t) = 1..(Len(s) + Len(t)) BY <1>1, LenProperties
<1>3. ASSUME NEW e \in ToSet(s \o t) PROVE e \in ToSet(s) \/ e \in ToSet(t)
  <2>1. PICK i \in 1..(Len(s) + Len(t)) : e = (s \o t)[i] BY <1>2 DEF ToSet
  <2>2. CASE i <= Len(s)
    <3>1. i \in DOMAIN s /\ e = s[i] BY <1>1, <2>1, <2>2
    <3> QED BY <3>1 DEF ToSet
  <2>3. CASE i > Len(s)
    <3>1. i - Len(s) \in DOMAIN t /\ e = t[i - Len(s)] BY <1>1, <2>1, <2>3
    <3> QED BY <3>1 DEF ToSet
  <2> QED BY <2>2, <2>3, <1>1
<1>4. ASSUME NEW e \in ToSet(s) PROVE e \in ToSet(s \o t)
  <2>1. PICK i \in 1..Len(s) : e = s[i] BY <1>1 DEF ToSet
  <2>2. i \in DOMAIN (s \o t) /\ e = (s \o t)[i] BY <2>1, <1>1, <1>2
  <2> QED BY <2>2 DEF ToSet
<1>5. ASSUME NEW e \in ToSet(t) PROVE e \in ToSet(s \o t)
  <2>1. PICK i \in 1..Len(t) : e = t[i] BY <1>1 DEF ToSet
  <2>2. i + Len(s) \in 1..(Len(s) + Len(t)) /\ ~(i + Len(s) <= Len(s)) /\ (i + Len(s)) - Len(s) = i
    BY <2>1, <1>1
  <2>3. e = (s \o t)[i + Len(s)] BY <2>1, <2>2, <1>1
  <2> QED BY <2>2, <2>3, <1>2 DEF ToSet
<1> QED BY <1>1, <1>3, <1>4, <1>5

\* Without its i-th element a sequence holds what it held, but for that one.
LEMMA HeldWithout ==
    ASSUME NEW S, NEW s \in Seq(S), NEW i \in DOMAIN s
    PROVE  /\ RemoveAt(s, i) \in Seq(S) /\ ToSet(RemoveAt(s, i)) \subseteq ToSet(s)
           /\ \A e \in ToSet(s) : e = s[i] \/ e \in ToSet(RemoveAt(s, i))
<1>1. Len(s) \in Nat /\ DOMAIN s = 1..Len(s) /\ s \in [1..Len(s) -> S] BY LenProperties
<1> DEFINE a == SubSeq(s, 1, i - 1)
           b == SubSeq(s, i + 1, Len(s))
<1>2. i \in Nat /\ 1 <= i /\ i <= Len(s) /\ i - 1 \in Int /\ i + 1 \in Int BY <1>1
<1>3. /\ a \in Seq(S) /\ Len(a) = i - 1
      /\ \A j \in 1..(i - 1) : a[j] = s[j]
  <2>1. \A j \in 1..(i - 1) : s[j] \in S BY <1>1, <1>2
  <2>2. /\ a \in Seq(S) /\ Len(a) = IF 1 <= i - 1 THEN i - 1 - 1 + 1 ELSE 0
        /\ \A j \in 1..(i - 1) - 1 + 1 : a[j] = s[1 + j - 1]
    BY <2>1, <1>2, SubSeqProperties
  <2> HIDE DEF a
  <2> QED BY <2>2, <1>2
<1>4. /\ b \in Seq(S) /\ Len(b) = Len(s) - i
      /\ \A j \in 1..(Len(s) - i) : b[j] = s[i + j]
  <2>1. \A j \in (i + 1)..Len(s) : s[j] \in S BY <1>1, <1>2
  <2>2. /\ b \in Seq(S) /\ Len(b) = IF i + 1 <= Len(s) THEN Len(s) - (i + 1) + 1 ELSE 0
        /\ \A j \in 1..Len(s) - (i + 1) + 1 : b[j] = s[(i + 1) + j - 1]
    BY <2>1, <1>1, <1>2, SubSeqProperties
  <2> HIDE DEF b
  <2>3. Len(s) - (i + 1) + 1 = Len(s) - i /\ \A j \in Nat : (i + 1) + j - 1 = i + j BY <1>1, <1>2
  <2>4. Len(b) = Len(s) - i
    <3>1. CASE i + 1 <= Len(s)
      <4>1. Len(b) = Len(s) - (i + 1) + 1 BY <2>2, <3>1
      <4> QED BY <4>1, <2>3
    <3>2. CASE ~(i + 1 <= Len(s))
      <4>1. Len(b) = 0 BY <2>2, <3>2
      <4>2. Len(s) = i BY <3>2, <1>1, <1>2
      <4> QED BY <4>1, <4>2, <1>2
    <3> QED BY <3>1, <3>2
  <2>5. ASSUME NEW j \in 1..(Len(s) - i) PROVE b[j] = s[i + j]
    <3>1. j \in 1..Len(s) - (i + 1) + 1 /\ (i + 1) + j - 1 = i + j BY <1>1, <1>2
    <3> QED BY <2>2, <3>1
  <2> QED BY <2>2, <2>4, <2>5
<1>5. RemoveAt(s, i) = a \o b BY DEF RemoveAt
<1> HIDE DEF a, b
<1>6. DOMAIN a = 1..(i - 1) /\ DOMAIN b = 1..(Len(s) - i) BY <1>3, <1>4, LenProperties
<1>7. RemoveAt(s, i) \in Seq(S) /\ ToSet(RemoveAt(s, i)) = ToSet(a) \cup ToSet(b)
  BY <1>3, <1>4, <1>5, HeldBoth
<1>8. ToSet(a) \subseteq ToSet(s) BY <1>1, <1>2, <1>3, <1>6 DEF ToSet
<1>9. ToSet(b) \subseteq ToSet(s)
  <2>1. \A j \in 1..(Len(s) - i) : i + j \in DOMAIN s BY <1>1, <1>2
  <2> QED BY <2>1, <1>4, <1>6 DEF ToSet
<1>10. ASSUME NEW e \in ToSet(s) PROVE e = s[i] \/ e \in ToSet(a) \/ e \in ToSet(b)
  <2>1. PICK j \in 1..Len(s) : e = s[j] BY <1>1 DEF ToSet
  <2>2. CASE j < i
    <3>1. j \in DOMAIN a /\ e = a[j] BY <1>3, <1>6, <2>1, <2>2, <1>2
    <3> QED BY <3>1 DEF ToSet
  <2>3. CASE j > i
    <3>1. j - i \in 1..(Len(s) - i) /\ i + (j - i) = j BY <1>1, <1>2, <2>3
    <3>2. j - i \in DOMAIN b /\ e = b[j - i] BY <1>4, <1>6, <2>1, <3>1
    <3> QED BY <3>2 DEF ToSet
  <2> QED BY <2>1, <2>2, <2>3, <1>2
<1> QED BY <1>7, <1>8, <1>9, <1>10

\* The least of a set of naturals.
LEMMA MinIs ==
    ASSUME NEW S, NEW n \in S, S \subseteq Nat, \A x \in S : n <= x
    PROVE  Min(S) = n
<1>1. \A m \in S : (\A x \in S : m <= x) => m = n
  <2> SUFFICES ASSUME NEW m \in S, \A x \in S : m <= x PROVE m = n OBVIOUS
  <2>1. m \in Nat /\ n \in Nat /\ n <= m /\ m <= n OBVIOUS
  <2> QED BY <2>1
<1> QED BY <1>1 DEF Min

\* A set of naturals that is not empty has one.
LEMMA MinExists ==
    ASSUME NEW S, S \subseteq Nat, S # {}
    PROVE  Min(S) \in S /\ \A x \in S : Min(S) <= x
<1> DEFINE R == OpToRel(<, Nat)
<1>1. IsWellFoundedOn(R, Nat) BY NatLessThanWellFounded
<1>2. \A x, y \in Nat : x < y => <<x, y>> \in R BY DEF OpToRel
<1> HIDE DEF R
<1>3. PICK m \in S : \A y \in S : ~(<<y, m>> \in R) BY <1>1, WFMin
<1>4. \A y \in S : ~(y < m) BY <1>2, <1>3
<1>5. \A y \in S : m <= y
  <2>1. m \in Nat BY <1>3
  <2> QED BY <1>4, <2>1
<1> QED BY <1>3, <1>5 DEF Min

\* Of two naturals it is one of them, below both.
LEMMA MinOfTwo ==
    ASSUME NEW a \in Nat, NEW b \in Nat
    PROVE  Min({a, b}) \in {a, b} /\ Min({a, b}) <= a /\ Min({a, b}) <= b
BY MinExists

Trails == [node : Nodes, path : Seq(Nodes)]

\* A chain the search for a may keep: rows from where it started to its node.
IsWay(a, c) ==
    /\ Len(c.path) > 0 /\ c.path[1] = a.ends[1] /\ c.path[Len(c.path)] = c.node
    /\ \A i \in 1..(Len(c.path) - 1) : Joined(a.rows, c.path[i], c.path[i + 1])

\* The risk score of its weakest asset.
WeakestOf(a, c) == Min({a.score[n] : n \in ToSet(c.path)})

\* What a search is asked: rows of two nodes, scores, two different ends.
LEMMA AskIs ==
    ASSUME AssetGraphAssumption, NEW a \in GraphAsks
    PROVE  /\ a.kind \in {"widest", "shortest", "around"} /\ a.rows \subseteq kSubset(2, Nodes)
           /\ a.score \in [Nodes -> Nat] /\ a.depth \in Nat
           /\ a.ends[1] \in Nodes /\ a.ends[2] \in Nodes /\ a.ends[1] # a.ends[2]
           /\ a.kind = "around" => a.score[a.ends[1]] = 0
<1>1. /\ a.kind \in {"widest", "shortest", "around"} /\ a.rows \subseteq kSubset(2, Nodes)
      /\ a.score \in [Nodes -> Scores] \/ a.score \in NoScores
      /\ a.ends \in Ends /\ a.depth \in Depths \cup {0}
      /\ a.kind = "around" => a.score \in NoScores
  BY DEF GraphAsks
<1>2. a.ends[1] \in Nodes /\ a.ends[2] \in Nodes /\ a.ends[1] # a.ends[2]
  BY <1>1 DEF AssetGraphAssumption
<1>3. a.score \in [Nodes -> Nat]
  <2>1. Scores \subseteq Nat /\ {0} \subseteq Nat BY DEF AssetGraphAssumption
  <2>2. \A f, T : f \in [Nodes -> T] /\ T \subseteq Nat => f \in [Nodes -> Nat] OBVIOUS
  <2>3. CASE a.score \in [Nodes -> Scores] BY <2>1, <2>2, <2>3
  <2>4. CASE a.score \in NoScores BY <2>1, <2>2, <2>4 DEF NoScores
  <2> QED BY <1>1, <2>3, <2>4
<1>4. a.kind = "around" => a.score[a.ends[1]] = 0 BY <1>1, <1>2 DEF NoScores
<1>5. a.depth \in Nat
  <2>1. Depths \subseteq Nat BY DEF AssetGraphAssumption
  <2>2. a.depth \in Depths \/ a.depth = 0 BY <1>1
  <2>3. CASE a.depth \in Depths BY <2>1, <2>3
  <2>4. CASE a.depth = 0 BY <2>4
  <2> QED BY <2>2, <2>3, <2>4
<1> QED BY <1>1, <1>2, <1>3, <1>4, <1>5

\* A row joins two different nodes; neighbours are what rows join.
LEMMA RowsJoin ==
    ASSUME AssetGraphAssumption, NEW rows, rows \subseteq kSubset(2, Nodes), NEW x, NEW y
    PROVE  /\ Joined(rows, x, y) = Joined(rows, y, x)
           /\ Joined(rows, x, y) => x \in Nodes /\ y \in Nodes /\ x # y
           /\ y \in Neighbours(rows, x) <=> Joined(rows, x, y)
           /\ Joined(rows, x, y) => x \in UNION rows /\ y \in UNION rows
<1>1. {x, y} = {y, x} OBVIOUS
<1>2. Joined(rows, x, y) => {x, y} \subseteq Nodes /\ Cardinality({x, y}) = 2
  BY DEF Joined, kSubset
<1>3. x = y => Cardinality({x, y}) = 1
  <2>1. SUFFICES ASSUME x = y PROVE Cardinality({x, y}) = 1 OBVIOUS
  <2>2. {x, y} = {x} BY <2>1
  <2> QED BY <2>2, FS_Singleton
<1>4. Joined(rows, x, y) => x \in Nodes /\ y \in Nodes /\ x # y BY <1>2, <1>3
<1>5. Joined(rows, x, y) => x \in UNION rows /\ y \in UNION rows BY DEF Joined
<1>6. Joined(rows, x, y) = Joined(rows, y, x) BY <1>1 DEF Joined
<1>7. y \in Neighbours(rows, x) <=> Joined(rows, x, y) BY <1>4, <1>5 DEF Neighbours
<1> QED BY <1>4, <1>5, <1>6, <1>7

\* A row with two given ends is the row of these.
LEMMA RowOfEnds ==
    ASSUME AssetGraphAssumption, NEW rows, rows \subseteq kSubset(2, Nodes),
           NEW e \in rows, NEW x \in e, NEW y \in e, x # y
    PROVE  e = {x, y} /\ Joined(rows, x, y)
<1>1. e \subseteq Nodes /\ Cardinality(e) = 2 BY DEF kSubset
<1>2. IsFiniteSet(e) BY <1>1, FS_Subset DEF AssetGraphAssumption
<1>3. Cardinality({x}) = 1 /\ IsFiniteSet({x}) BY FS_Singleton
<1>4. Cardinality({x} \cup {y}) = 2
  <2>1. y \notin {x} OBVIOUS
  <2>2. Cardinality({x} \cup {y}) = Cardinality({x}) + 1 BY <1>3, <2>1, FS_AddElement
  <2> QED BY <1>3, <2>2
<1>5. {x} \cup {y} = {x, y} /\ {x, y} \subseteq e OBVIOUS
<1>6. e = {x, y} BY <1>1, <1>2, <1>4, <1>5, FS_Subset
<1> QED BY <1>6 DEF Joined

\* The chain a search starts with.
LEMMA FirstChain ==
    ASSUME AssetGraphAssumption, NEW a \in GraphAsks
    PROVE  LET c == Chain(a.ends[1])
           IN  /\ c \in Trails /\ IsWay(a, c) /\ c.node = a.ends[1] /\ Len(c.path) = 1
               /\ WeakestOf(a, c) = a.score[a.ends[1]]
<1> DEFINE f == a.ends[1]
           c == Chain(f)
<1>1. f \in Nodes /\ a.score \in [Nodes -> Nat] BY AskIs
<1> HIDE DEF f
<1>2. c.node = f /\ c.path = <<f>> BY DEF Chain
<1>3. c \in Trails BY <1>1 DEF Chain, Trails
<1>4. Len(c.path) = 1 /\ c.path[1] = f /\ DOMAIN c.path = 1..1 BY <1>2
<1>5. IsWay(a, c) BY <1>2, <1>4 DEF IsWay, f
<1>6. ToSet(c.path) = {f} BY <1>2, <1>4 DEF ToSet
<1>7. {a.score[n] : n \in ToSet(c.path)} = {a.score[f]} BY <1>6
<1>8. Min({a.score[f]}) = a.score[f]
  <2>1. a.score[f] \in Nat BY <1>1
  <2> QED BY <2>1, MinIs
<1> QED BY <1>2, <1>3, <1>4, <1>5, <1>7, <1>8 DEF WeakestOf, f

\* A chain prolonged by a row.
LEMMA LongerChain ==
    ASSUME AssetGraphAssumption, NEW a \in GraphAsks, NEW c \in Trails, IsWay(a, c),
           NEW n, Joined(a.rows, c.node, n)
    PROVE  /\ Extend(c, n) \in Trails /\ Extend(c, n).node = n
           /\ Extend(c, n).path = Append(c.path, n)
           /\ Len(Extend(c, n).path) = Len(c.path) + 1
           /\ IsWay(a, Extend(c, n))
           /\ ToSet(Extend(c, n).path) = ToSet(c.path) \cup {n}
<1> DEFINE p == c.path
           q == Append(p, n)
<1>1. a.rows \subseteq kSubset(2, Nodes) BY AskIs
<1>2. n \in Nodes BY <1>1, RowsJoin
<1>3. p \in Seq(Nodes) /\ Len(p) \in Nat /\ DOMAIN p = 1..Len(p) BY LenProperties DEF Trails
<1>4. /\ q \in Seq(Nodes) /\ Len(q) = Len(p) + 1 /\ q[Len(p) + 1] = n
      /\ \A i \in 1..Len(p) : q[i] = p[i]
  BY <1>2, <1>3, AppendProperties
<1>5. DOMAIN q = 1..(Len(p) + 1) BY <1>4, LenProperties
<1>6. Extend(c, n).node = n /\ Extend(c, n).path = q /\ Extend(c, n) \in Trails
  BY <1>2, <1>4 DEF Extend, Trails
<1>7. /\ Len(p) > 0 /\ p[1] = a.ends[1] /\ p[Len(p)] = c.node
      /\ \A i \in 1..(Len(p) - 1) : Joined(a.rows, p[i], p[i + 1])
  BY DEF IsWay
<1> HIDE DEF q, p
<1>8. Len(q) > 0 /\ q[1] = a.ends[1] /\ q[Len(q)] = n BY <1>3, <1>4, <1>7
<1>9. ASSUME NEW i \in 1..(Len(q) - 1) PROVE Joined(a.rows, q[i], q[i + 1])
  <2>1. i \in 1..Len(p) /\ q[i] = p[i] BY <1>3, <1>4
  <2>2. CASE i = Len(p)
    <3>1. q[i] = c.node /\ q[i + 1] = n BY <2>1, <2>2, <1>4, <1>7
    <3> QED BY <3>1
  <2>3. CASE i # Len(p)
    <3>0. Len(p) \in Nat /\ i \in Nat /\ 1 <= i /\ i <= Len(p) BY <1>3, <2>1
    <3>1. i \in 1..(Len(p) - 1) /\ i + 1 \in 1..Len(p) BY <3>0, <2>3
    <3>2. q[i + 1] = p[i + 1] BY <3>1, <1>4
    <3> QED BY <2>1, <3>1, <3>2, <1>7
  <2> QED BY <2>2, <2>3
<1>10. IsWay(a, Extend(c, n)) BY <1>6, <1>8, <1>9 DEF IsWay
<1>11. ToSet(q) = ToSet(p) \cup {n}
  <2>1. \A i \in 1..Len(p) : i \in 1..(Len(p) + 1) BY <1>3
  <2>2. Len(p) + 1 \in 1..(Len(p) + 1) BY <1>3
  <2>3. \A i \in 1..(Len(p) + 1) : i \in 1..Len(p) \/ i = Len(p) + 1 BY <1>3
  <2>4. ASSUME NEW e \in ToSet(q) PROVE e \in ToSet(p) \cup {n}
    <3>1. PICK i \in 1..(Len(p) + 1) : e = q[i] BY <1>5 DEF ToSet
    <3> QED BY <3>1, <2>3, <1>3, <1>4 DEF ToSet
  <2>5. ASSUME NEW e \in ToSet(p) \cup {n} PROVE e \in ToSet(q)
    <3>1. CASE e \in ToSet(p)
      <4>1. PICK i \in 1..Len(p) : e = p[i] BY <1>3, <3>1 DEF ToSet
      <4>2. i \in DOMAIN q /\ e = q[i] BY <4>1, <2>1, <1>4, <1>5
      <4> QED BY <4>2 DEF ToSet
    <3>2. CASE e = n BY <3>2, <2>2, <1>4, <1>5 DEF ToSet
    <3> QED BY <3>1, <3>2
  <2> QED BY <2>4, <2>5
<1> QED BY <1>4, <1>6, <1>10, <1>11 DEF p, q

\* What a chain passes: nodes, its own node among them.
LEMMA ChainIs ==
    ASSUME AssetGraphAssumption, NEW a \in GraphAsks, NEW c \in Trails, IsWay(a, c)
    PROVE  /\ c.path \in Seq(Nodes) /\ Len(c.path) \in Nat \ {0} /\ c.node \in Nodes
           /\ DOMAIN c.path = 1..Len(c.path)
           /\ a.ends[1] \in ToSet(c.path) /\ c.node \in ToSet(c.path)
           /\ ToSet(c.path) \subseteq Nodes
           /\ WeakestOf(a, c) \in Nat
           /\ \A n \in ToSet(c.path) : WeakestOf(a, c) <= a.score[n]
           /\ \E n \in ToSet(c.path) : WeakestOf(a, c) = a.score[n]
<1> DEFINE p == c.path
           S == {a.score[n] : n \in ToSet(p)}
<1>1. p \in Seq(Nodes) /\ c.node \in Nodes BY DEF Trails
<1>2. /\ Len(p) \in Nat /\ DOMAIN p = 1..Len(p) /\ \A i \in 1..Len(p) : p[i] \in Nodes
      /\ Len(p) > 0 /\ p[1] = a.ends[1] /\ p[Len(p)] = c.node
  BY <1>1, LenProperties, ElementOfSeq DEF IsWay
<1>3. ToSet(p) \subseteq Nodes BY <1>2 DEF ToSet
<1>4. a.ends[1] \in ToSet(p) /\ c.node \in ToSet(p)
  <2>1. 1 \in DOMAIN p /\ Len(p) \in DOMAIN p BY <1>2
  <2> QED BY <2>1, <1>2 DEF ToSet
<1>5. a.score \in [Nodes -> Nat] BY AskIs
<1>6. S \subseteq Nat /\ S # {} BY <1>3, <1>4, <1>5
<1>7. Min(S) \in S /\ \A x \in S : Min(S) <= x
  <2> HIDE DEF S
  <2> QED BY <1>6, MinExists
<1>8. WeakestOf(a, c) = Min(S) BY DEF WeakestOf
<1> HIDE DEF p
<1> DEFINE w == Min(S)
<1> HIDE DEF w
<1>9. w \in S /\ \A n \in ToSet(p) : w <= a.score[n] BY <1>7 DEF w
<1>10. w \in Nat /\ \E n \in ToSet(p) : w = a.score[n] BY <1>6, <1>9
<1>11. Len(p) \in Nat \ {0} BY <1>2
<1>12. WeakestOf(a, c) = w BY <1>8 DEF w
<1> HIDE DEF w
<1> QED BY <1>1, <1>2, <1>3, <1>4, <1>9, <1>10, <1>11, <1>12 DEF p

\* Its minimum is the smaller of what it was and the new asset's score.
LEMMA LongerIsWeaker ==
    ASSUME AssetGraphAssumption, NEW a \in GraphAsks, NEW c \in Trails, IsWay(a, c),
           NEW n, Joined(a.rows, c.node, n)
    PROVE  WeakestOf(a, Extend(c, n)) = Min({WeakestOf(a, c), a.score[n]})
<1> DEFINE S == {a.score[k] : k \in ToSet(Extend(c, n).path)}
           w == WeakestOf(a, c)
           s == a.score[n]
<1>1. a.rows \subseteq kSubset(2, Nodes) /\ a.score \in [Nodes -> Nat] BY AskIs
<1>2. n \in Nodes /\ s \in Nat BY <1>1, RowsJoin
<1>3. /\ w \in Nat /\ \A k \in ToSet(c.path) : w <= a.score[k]
      /\ \E k \in ToSet(c.path) : w = a.score[k]
      /\ ToSet(c.path) \subseteq Nodes
  BY ChainIs
<1>4. ToSet(Extend(c, n).path) = ToSet(c.path) \cup {n} BY LongerChain
<1> HIDE DEF w
<1>5. S \subseteq Nat /\ w \in S /\ s \in S BY <1>1, <1>2, <1>3, <1>4
<1>6. \A x \in S : w <= x \/ x = s BY <1>3, <1>4
<1> DEFINE m == Min({w, s})
<1>7. m \in {w, s} /\ m <= w /\ m <= s BY <1>2, <1>3, MinOfTwo
<1> HIDE DEF m, S, s
<1>8. m \in S /\ \A x \in S : m <= x
  <2>1. m \in S BY <1>5, <1>7
  <2>2. ASSUME NEW x \in S PROVE m <= x
    <3>1. x \in Nat /\ m \in Nat /\ w \in Nat /\ s \in Nat BY <1>5, <2>1, <1>2, <1>3
    <3> QED BY <3>1, <1>6, <1>7
  <2> QED BY <2>1, <2>2
<1>9. Min(S) = m BY <1>5, <1>8, MinIs
<1> QED BY <1>9 DEF WeakestOf, S, m, w, s

Relaxed(n) ==
    /\ n # To
    /\ \A m \in Nodes : Joined(ask.rows, n, m) => best[m] >= best[n] \/ best[m] >= ask.score[m]

WidestInv ==
    /\ frontier \in Seq(Trails)
    /\ \A c \in ToSet(frontier) : IsWay(ask, c) /\ WeakestOf(ask, c) <= best[c.node]
    /\ best[From] >= ask.score[From]
    /\ \A n \in Nodes : best[n] >= 0 =>
          \/ Relaxed(n)
          \/ \E c \in ToSet(frontier) : c.node = n /\ WeakestOf(ask, c) >= best[n]

\* A floor above all chains at hand cuts the goal off.
LEMMA FloorCuts ==
    ASSUME AssetGraphAssumption, ask \in GraphAsks, best \in [Nodes -> Int], WidestInv,
           NEW s \in Nat, ask.score[From] >= s,
           \A c \in ToSet(frontier) : WeakestOf(ask, c) < s,
           NEW S, S = {n \in Nodes : ask.score[n] >= s}
    PROVE  To \notin Reachable(ask.rows, S, From)
<1> DEFINE C == {n \in Nodes : best[n] >= s}
           rows == ask.rows
           f == From
<1>1. rows \subseteq kSubset(2, Nodes) /\ From \in Nodes /\ ask.score \in [Nodes -> Nat]
  BY AskIs DEF From
<1>2. f \in C
  <2>1. best[From] >= ask.score[From] BY DEF WidestInv
  <2>2. best[From] \in Int /\ ask.score[From] \in Nat BY <1>1
  <2> QED BY <2>1, <2>2, <1>1
<1>3. ASSUME NEW z \in C PROVE Relaxed(z)
  <2>1. z \in Nodes /\ best[z] \in Int /\ best[z] >= s /\ best[z] >= 0 BY <1>3
  <2>2. ASSUME NEW c \in ToSet(frontier), WeakestOf(ask, c) >= best[z] PROVE FALSE
    <3>1. c \in Trails /\ IsWay(ask, c)
      <4>1. frontier \in Seq(Trails) BY DEF WidestInv
      <4>2. c \in Trails BY <4>1, LenProperties, ElementOfSeq DEF ToSet
      <4> QED BY <4>2 DEF WidestInv
    <3>2. WeakestOf(ask, c) \in Nat BY <3>1, ChainIs
    <3>3. WeakestOf(ask, c) < s OBVIOUS
    <3> QED BY <2>1, <2>2, <3>2, <3>3
  <2> QED BY <2>1, <2>2 DEF WidestInv
<1>4. ASSUME NEW z \in C, NEW y \in S, Joined(rows, y, z) PROVE y \in C
  <2>1. y \in Nodes /\ ask.score[y] >= s BY <1>4
  <2>2. Joined(rows, z, y) BY <1>1, <1>4, RowsJoin
  <2>3. best[y] >= best[z] \/ best[y] >= ask.score[y] BY <1>3, <1>4, <2>1, <2>2 DEF Relaxed
  <2>4. best[y] \in Int /\ best[z] \in Int /\ ask.score[y] \in Nat /\ best[z] >= s BY <2>1, <1>1
  <2> QED BY <2>1, <2>3, <2>4
<1> HIDE DEF C, rows, f
<1>5. \A k \in Nat : Ball(rows, S, f, k) \subseteq C BY <1>2, <1>4, BallWithin
<1>6. Cardinality(S) \in Nat
  <2>1. S \subseteq Nodes /\ IsFiniteSet(Nodes) BY DEF AssetGraphAssumption
  <2> QED BY <2>1, FS_Subset, FS_CardinalityType
<1>7. Reachable(rows, S, f) \subseteq C BY <1>5, <1>6 DEF Reachable
<1>8. To \notin C BY <1>3 DEF Relaxed
<1> QED BY <1>7, <1>8 DEF rows, f

\* The chain that reached the goal first is the best one.
LEMMA WidestFound ==
    ASSUME AssetGraphAssumption, ask \in GraphAsks, best \in [Nodes -> Int], WidestInv,
           NEW cur \in ToSet(frontier), cur.node = To,
           \A c \in ToSet(frontier) : WeakestOf(ask, c) <= WeakestOf(ask, cur)
    PROVE  /\ cur.path # <<>> /\ IsChain(cur.path)
           /\ WeakestOf(ask, cur) = Max(Floors(ask.rows, ask.score, From, To))
<1> DEFINE p == cur.path
           m == WeakestOf(ask, cur)
           rows == ask.rows
           score == ask.score
           Fl == Floors(rows, score, From, To)
<1>a. rows \subseteq kSubset(2, Nodes) /\ From \in Nodes /\ score \in [Nodes -> Nat]
  BY AskIs DEF From
<1>b. frontier \in Seq(Trails) BY DEF WidestInv
<1>c. \A c \in ToSet(frontier) : c \in Trails /\ IsWay(ask, c)
  <2>1. \A c \in ToSet(frontier) : c \in Trails BY <1>b, LenProperties, ElementOfSeq DEF ToSet
  <2> QED BY <2>1 DEF WidestInv
<1>d. cur \in Trails /\ IsWay(ask, cur) BY <1>c
<1>1. /\ p \in Seq(Nodes) /\ Len(p) \in Nat \ {0} /\ DOMAIN p = 1..Len(p)
      /\ ToSet(p) \subseteq Nodes /\ From \in ToSet(p) /\ m \in Nat
      /\ \A n \in ToSet(p) : m <= score[n]
      /\ \E n \in ToSet(p) : m = score[n]
  BY <1>d, ChainIs DEF From
<1>2. /\ p[1] = From /\ p[Len(p)] = To
      /\ \A i \in 1..(Len(p) - 1) : Joined(rows, p[i], p[i + 1])
  BY <1>d DEF IsWay, From
<1>3. IsChain(p) BY <1>2 DEF IsChain
<1>4. p # <<>> BY <1>1
<1> HIDE DEF p, m
<1>5. \A n \in ToSet(p) : n \in {From} \cup UNION rows
  <2> SUFFICES ASSUME NEW n \in ToSet(p) PROVE n \in {From} \cup UNION rows OBVIOUS
  <2>1. PICK i \in 1..Len(p) : n = p[i] BY <1>1 DEF ToSet
  <2>2. CASE i = 1 BY <2>1, <2>2, <1>2
  <2>3. CASE i # 1
    <3>1. i - 1 \in 1..(Len(p) - 1) /\ (i - 1) + 1 = i BY <1>1, <2>1, <2>3
    <3>2. Joined(rows, p[i - 1], p[i]) BY <3>1, <1>2
    <3>3. PICK a, b : a = p[i - 1] /\ b = p[i] OBVIOUS
    <3> HIDE DEF rows
    <3>4. b \in UNION rows
      <4>1. Joined(rows, a, b) BY <3>2, <3>3
      <4> QED BY <4>1, <1>a, RowsJoin
    <3>5. n = b BY <2>1, <3>3
    <3> QED BY <3>4, <3>5
  <2> QED BY <2>2, <2>3
<1>6. m \in Fl
  <2> DEFINE S == {n \in DOMAIN score : score[n] >= m}
  <2>1. DOMAIN score = Nodes BY <1>a
  <2>2. \A n \in ToSet(p) : n \in S
    <3>1. \A n \in ToSet(p) : n \in Nodes /\ score[n] \in Nat BY <1>1, <1>a
    <3> QED BY <3>1, <2>1, <1>1
  <2>3. S \subseteq Nodes BY <2>1
  <2> HIDE DEF S
  <2>4. IsFiniteSet(S) BY <2>3, FS_Subset DEF AssetGraphAssumption
  <2>5. \A i \in 1..Len(p) : p[i] \in S BY <2>2, <1>1 DEF ToSet
  <2>6. p[Len(p)] \in Ball(rows, S, p[1], Len(p) - 1)
    <3>1. \A i \in 1..Len(p) : p[i] \in Ball(rows, S, p[1], i - 1)
      <4> HIDE DEF rows
      <4> QED BY <2>5, <1>1, <1>2, BallAlong
    <3>2. Len(p) \in 1..Len(p) BY <1>1
    <3> QED BY <3>1, <3>2
  <2>7. Len(p) - 1 \in Nat BY <1>1
  <2>8. To \in Reachable(rows, S, From)
    <3> HIDE DEF rows
    <3> QED BY <2>4, <2>6, <2>7, <1>2, BallEnds
  <2>9. From \in S BY <2>2, <1>1
  <2>10. m \in {score[n] : n \in {From} \cup UNION rows} BY <1>1, <1>5
  <2> QED BY <2>8, <2>9, <2>10 DEF Floors, S
<1>7. Fl \subseteq Nat
  <2>1. UNION rows \subseteq Nodes BY <1>a DEF kSubset
  <2>2. \A n \in {From} \cup UNION rows : score[n] \in Nat BY <2>1, <1>a
  <2> QED BY <2>2 DEF Floors
<1>8. ASSUME NEW s \in Fl PROVE s <= m
  <2>1. SUFFICES ASSUME m < s PROVE FALSE BY <1>1, <1>7
  <2> DEFINE S == {n \in DOMAIN score : score[n] >= s}
  <2>2. s \in Nat BY <1>7
  <2>3. From \in S /\ To \in Reachable(rows, S, From) BY DEF Floors
  <2>4. S = {n \in Nodes : ask.score[n] >= s} BY <1>a
  <2>5. ask.score[From] >= s BY <2>3
  <2>6. \A c \in ToSet(frontier) : WeakestOf(ask, c) < s
    <3> SUFFICES ASSUME NEW c \in ToSet(frontier) PROVE WeakestOf(ask, c) < s OBVIOUS
    <3>1. WeakestOf(ask, c) <= m BY DEF m
    <3>2. WeakestOf(ask, c) \in Nat BY <1>c, ChainIs
    <3> QED BY <3>1, <3>2, <2>1, <2>2, <1>1
  <2> HIDE DEF S
  <2>7. To \notin Reachable(ask.rows, S, From) BY <2>2, <2>4, <2>5, <2>6, FloorCuts
  <2> QED BY <2>3, <2>7
<1> HIDE DEF Fl
<1>9. Max(Fl) = m BY <1>6, <1>7, <1>8, MaxIs
<1> QED BY <1>3, <1>4, <1>9 DEF Fl, m, p

\* What the heap holds is a chain of rows from the start, no better than best says.
LEMMA WaysAtHand ==
    ASSUME AssetGraphAssumption, ask \in GraphAsks, WidestInv, NEW c \in ToSet(frontier)
    PROVE  /\ c \in Trails /\ IsWay(ask, c) /\ WeakestOf(ask, c) <= best[c.node]
           /\ WeakestOf(ask, c) \in Nat /\ c.node \in Nodes
<1>1. frontier \in Seq(Trails) BY DEF WidestInv
<1>2. c \in Trails BY <1>1, LenProperties, ElementOfSeq DEF ToSet
<1>3. IsWay(ask, c) /\ WeakestOf(ask, c) <= best[c.node] BY DEF WidestInv
<1> QED BY <1>2, <1>3, ChainIs

\* Dropping a chain that a better one overtook.
LEMMA WidestDrops ==
    ASSUME AssetGraphAssumption, ask \in GraphAsks, best \in [Nodes -> Int], WidestInv,
           NEW i \in DOMAIN frontier, WeakestOf(ask, frontier[i]) < best[frontier[i].node],
           frontier' = RemoveAt(frontier, i), ask' = ask, best' = best
    PROVE  WidestInv'
<1>1. PICK cur : cur = frontier[i] OBVIOUS
<1>2. PICK rest : rest = RemoveAt(frontier, i) OBVIOUS
<1>3. frontier \in Seq(Trails) BY DEF WidestInv
<1>4. /\ rest \in Seq(Trails) /\ ToSet(rest) \subseteq ToSet(frontier)
      /\ \A e \in ToSet(frontier) : e = cur \/ e \in ToSet(rest)
  BY <1>1, <1>2, <1>3, HeldWithout
<1>5. cur \in ToSet(frontier) BY <1>1 DEF ToSet
<1>6. WeakestOf(ask, cur) < best[cur.node] BY <1>1
<1>7. WeakestOf(ask, cur) \in Nat /\ cur.node \in Nodes BY <1>5, WaysAtHand
<1>8. ASSUME NEW n \in Nodes, best[n] >= 0
      PROVE  Relaxed(n)' \/ \E c \in ToSet(rest) : c.node = n /\ WeakestOf(ask, c) >= best[n]
  <2>1. CASE Relaxed(n)
    <3>1. Relaxed(n)' BY <2>1 DEF Relaxed, To
    <3> QED BY <3>1
  <2>2. ASSUME NEW c \in ToSet(frontier), c.node = n, WeakestOf(ask, c) >= best[n]
        PROVE  c \in ToSet(rest)
    <3>1. best[n] \in Int OBVIOUS
    <3>2. c # cur BY <2>2, <3>1, <1>6, <1>7
    <3> QED BY <3>2, <1>4
  <2> QED BY <1>8, <2>1, <2>2 DEF WidestInv
<1>9. \A c \in ToSet(rest) : IsWay(ask, c) /\ WeakestOf(ask, c) <= best[c.node]
  BY <1>4 DEF WidestInv
<1>10. best[From] >= ask.score[From] BY DEF WidestInv
<1>11. frontier' = rest /\ From' = From BY <1>2 DEF From
<1> QED BY <1>4, <1>8, <1>9, <1>10, <1>11 DEF WidestInv

\* Prolonging a chain by the neighbours it improves: w its weakest, nm what it
\* makes of each node.
Growth(cur, w, nm, better, rest, New) ==
    /\ cur \in ToSet(frontier) /\ cur.node # To
    /\ w \in Nat /\ w = WeakestOf(ask, cur) /\ w >= best[cur.node]
    /\ nm \in [Nodes -> Nat] /\ \A n \in Nodes : nm[n] = w \/ nm[n] = ask.score[n]
    /\ \A n \in better : /\ Joined(ask.rows, cur.node, n) /\ n \in Nodes /\ n # cur.node
                         /\ nm[n] > best[n]
    /\ \A n \in Nodes : Joined(ask.rows, cur.node, n) => n \in better \/ ~(nm[n] > best[n])
    /\ best' \in [Nodes -> Int]
    /\ \A n \in Nodes : best'[n] = IF n \in better THEN nm[n] ELSE best[n]
    /\ ToSet(rest) \subseteq ToSet(frontier)
    /\ \A e \in ToSet(frontier) : e = cur \/ e \in ToSet(rest)
    /\ New = {Extend(cur, n) : n \in better}
    /\ \A n \in better : /\ Extend(cur, n).node = n /\ IsWay(ask, Extend(cur, n))
                         /\ WeakestOf(ask, Extend(cur, n)) = nm[n]
    /\ frontier' \in Seq(Trails) /\ ToSet(frontier') = ToSet(rest) \cup New
    /\ ask' = ask

\* So prolonged, the heap keeps the invariant.
LEMMA WidestGrown ==
    ASSUME AssetGraphAssumption, ask \in GraphAsks, best \in [Nodes -> Int], WidestInv,
           NEW cur, NEW w, NEW nm, NEW better, NEW rest, NEW New,
           Growth(cur, w, nm, better, rest, New)
    PROVE  WidestInv'
<1>1. /\ cur \in ToSet(frontier) /\ cur.node # To
      /\ w \in Nat /\ w = WeakestOf(ask, cur) /\ w >= best[cur.node]
  BY DEF Growth
<1>2. nm \in [Nodes -> Nat] /\ \A n \in Nodes : nm[n] = w \/ nm[n] = ask.score[n] BY DEF Growth
<1>3. \A n \in better : /\ Joined(ask.rows, cur.node, n) /\ n \in Nodes /\ n # cur.node
                        /\ nm[n] > best[n]
  BY DEF Growth
<1>4. \A n \in Nodes : Joined(ask.rows, cur.node, n) => n \in better \/ ~(nm[n] > best[n])
  BY DEF Growth
<1>5. best' \in [Nodes -> Int] /\ \A n \in Nodes : best'[n] = IF n \in better THEN nm[n] ELSE best[n]
  BY DEF Growth
<1>7. /\ ToSet(rest) \subseteq ToSet(frontier)
      /\ \A e \in ToSet(frontier) : e = cur \/ e \in ToSet(rest)
  BY DEF Growth
<1>8. /\ New = {Extend(cur, n) : n \in better}
      /\ \A n \in better : /\ Extend(cur, n).node = n /\ IsWay(ask, Extend(cur, n))
                           /\ WeakestOf(ask, Extend(cur, n)) = nm[n]
  BY DEF Growth
<1>9. frontier' \in Seq(Trails) /\ ToSet(frontier') = ToSet(rest) \cup New /\ ask' = ask
  BY DEF Growth
<1>6. ask.rows \subseteq kSubset(2, Nodes) /\ ask.score \in [Nodes -> Nat] BY AskIs
<1>20. \A n \in Nodes : best'[n] >= best[n] /\ best'[n] \in Int /\ best[n] \in Int
  <2> SUFFICES ASSUME NEW n \in Nodes
               PROVE  best'[n] >= best[n] /\ best'[n] \in Int /\ best[n] \in Int
    OBVIOUS
  <2>1. best[n] \in Int /\ best'[n] \in Int BY <1>5
  <2>2. n \in better => nm[n] > best[n] BY <1>3
  <2>3. nm[n] \in Nat BY <1>2
  <2>4. best'[n] = IF n \in better THEN nm[n] ELSE best[n] BY <1>5
  <2> QED BY <2>1, <2>2, <2>3, <2>4
<1>21. ASSUME NEW c \in ToSet(frontier') PROVE IsWay(ask, c) /\ WeakestOf(ask, c) <= best'[c.node]
  <2>1. CASE c \in ToSet(rest)
    <3>1. c \in ToSet(frontier) BY <1>7, <2>1
    <3>2. IsWay(ask, c) /\ WeakestOf(ask, c) <= best[c.node] /\ WeakestOf(ask, c) \in Nat
          /\ c.node \in Nodes
      BY <3>1, WaysAtHand
    <3> QED BY <3>2, <1>20
  <2>2. CASE c \in New
    <3>1. PICK n \in better : c = Extend(cur, n) BY <1>8, <2>2
    <3>2. IsWay(ask, c) /\ c.node = n /\ WeakestOf(ask, c) = nm[n] BY <1>8, <3>1
    <3>3. best'[n] = nm[n] /\ nm[n] \in Nat BY <1>2, <1>3, <1>5
    <3> QED BY <3>2, <3>3
  <2> QED BY <2>1, <2>2, <1>9
<1>22. best'[From] >= ask.score[From]
  <2>1. best[From] >= ask.score[From] BY DEF WidestInv
  <2>2. From \in Nodes /\ ask.score[From] \in Nat BY <1>6, AskIs DEF From
  <2> QED BY <2>1, <2>2, <1>20
<1>23. ASSUME NEW n \in Nodes, best'[n] >= 0
       PROVE  \/ Relaxed(n)'
              \/ \E c \in ToSet(frontier') : c.node = n /\ WeakestOf(ask, c) >= best'[n]
  <2>1. CASE n \in better
    <3>1. /\ Extend(cur, n) \in ToSet(frontier') /\ Extend(cur, n).node = n
          /\ WeakestOf(ask, Extend(cur, n)) = nm[n]
      BY <1>8, <1>9, <2>1
    <3>2. nm[n] = best'[n] /\ nm[n] \in Nat BY <1>2, <1>5, <2>1
    <3>3. WeakestOf(ask, Extend(cur, n)) >= best'[n] BY <3>1, <3>2
    <3> QED BY <3>1, <3>3
  <2>2. CASE n = cur.node
    <3>1. best'[n] = best[n] /\ w >= best[n]
      <4>1. n \notin better BY <1>3, <2>2
      <4>2. w >= best[n] /\ w \in Nat BY <1>1, <2>2
      <4> QED BY <4>1, <4>2, <1>5
    <3>2. ASSUME NEW m \in Nodes, Joined(ask.rows, n, m)
          PROVE  best'[m] >= best'[n] \/ best'[m] >= ask.score[m]
      <4>1. ask.score[m] \in Nat BY <1>6
      <4>2. nm[m] \in {w, ask.score[m]} /\ nm[m] \in Nat BY <1>2
      <4>3. best'[m] >= nm[m]
        <5>1. CASE m \in better BY <5>1, <4>2, <1>5
        <5>2. CASE m \notin better
          <6>1. ~(nm[m] > best[m]) BY <5>2, <3>2, <2>2, <1>4
          <6>2. best'[m] = best[m] BY <5>2, <1>5
          <6> QED BY <6>1, <6>2, <4>2, <1>20
        <5> QED BY <5>1, <5>2
      <4> QED BY <4>1, <4>2, <4>3, <3>1, <1>1, <1>20
    <3>3. n # To BY <1>1, <2>2
    <3>4. Relaxed(n)' BY <3>2, <3>3, <1>9 DEF Relaxed, To
    <3> QED BY <3>4
  <2>3. CASE n \notin better /\ n # cur.node
    <3>1. best'[n] = best[n] /\ best[n] >= 0 BY <2>3, <1>5, <1>23
    <3>2. CASE Relaxed(n)
      <4>1. ASSUME NEW m \in Nodes, Joined(ask.rows, n, m)
            PROVE  best'[m] >= best'[n] \/ best'[m] >= ask.score[m]
        <5>1. best[m] >= best[n] \/ best[m] >= ask.score[m] BY <3>2, <4>1 DEF Relaxed
        <5>2. ask.score[m] \in Nat BY <1>6
        <5> QED BY <5>1, <5>2, <3>1, <1>20
      <4>2. n # To BY <3>2 DEF Relaxed
      <4>3. Relaxed(n)' BY <4>1, <4>2, <1>9 DEF Relaxed, To
      <4> QED BY <4>3
    <3>3. ASSUME NEW c \in ToSet(frontier), c.node = n, WeakestOf(ask, c) >= best[n]
          PROVE  c \in ToSet(frontier')
      <4>1. c # cur BY <2>3, <3>3
      <4> QED BY <4>1, <1>7, <1>9
    <3> QED BY <3>1, <3>2, <3>3 DEF WidestInv
  <2> QED BY <2>1, <2>2, <2>3
<1>24. From' = From BY <1>9 DEF From
<1> QED BY <1>9, <1>21, <1>22, <1>23, <1>24 DEF WidestInv

\* Prolonging a chain by the neighbours it improves.
Pushes(i, cur, better) ==
    /\ i \in DOMAIN frontier /\ cur = frontier[i] /\ cur.node # To
    /\ ~(WeakestOf(ask, cur) < best[cur.node])
    /\ better = {n \in Neighbours(ask.rows, cur.node) :
                    Min({WeakestOf(ask, cur), ask.score[n]}) > best[n]}
    /\ best' = [n \in Nodes |-> IF n \in better THEN Min({WeakestOf(ask, cur), ask.score[n]})
                                                ELSE best[n]]
    /\ frontier' = RemoveAt(frontier, i) \o SetToSeq({Extend(cur, n) : n \in better})
    /\ ask' = ask

\* The pushes of a pop are such a growth.
LEMMA WidestPushes ==
    ASSUME AssetGraphAssumption, ask \in GraphAsks, best \in [Nodes -> Int], WidestInv,
           NEW i, NEW cur, NEW better, Pushes(i, cur, better)
    PROVE  best' \in [Nodes -> Int] /\ WidestInv'
<1>0. /\ i \in DOMAIN frontier /\ cur = frontier[i] /\ cur.node # To
      /\ ~(WeakestOf(ask, cur) < best[cur.node])
      /\ better = {n \in Neighbours(ask.rows, cur.node) :
                      Min({WeakestOf(ask, cur), ask.score[n]}) > best[n]}
      /\ best' = [n \in Nodes |-> IF n \in better THEN Min({WeakestOf(ask, cur), ask.score[n]})
                                                  ELSE best[n]]
      /\ frontier' = RemoveAt(frontier, i) \o SetToSeq({Extend(cur, n) : n \in better})
      /\ ask' = ask
  BY DEF Pushes
<1> USE <1>0
<1>w. PICK w : w = WeakestOf(ask, cur) OBVIOUS
<1>m. PICK nm : nm = [n \in Nodes |-> Min({w, ask.score[n]})] OBVIOUS
<1>n. PICK New : New = {Extend(cur, n) : n \in better} OBVIOUS
<1> DEFINE NM(n) == Min({w, ask.score[n]})
<1>1. PICK rest : rest = RemoveAt(frontier, i) OBVIOUS
<1>2. frontier \in Seq(Trails) BY DEF WidestInv
<1>3. /\ rest \in Seq(Trails) /\ ToSet(rest) \subseteq ToSet(frontier)
      /\ \A e \in ToSet(frontier) : e = cur \/ e \in ToSet(rest)
  BY <1>1, <1>2, HeldWithout
<1>4. cur \in ToSet(frontier) BY DEF ToSet
<1>5. cur \in Trails /\ IsWay(ask, cur) /\ w \in Nat /\ cur.node \in Nodes
  BY <1>4, <1>w, WaysAtHand
<1>6. ask.rows \subseteq kSubset(2, Nodes) /\ ask.score \in [Nodes -> Nat] BY AskIs
<1>7. \A n \in better : n \in Neighbours(ask.rows, cur.node) /\ NM(n) > best[n] BY <1>w
<1>8. \A n \in better : Joined(ask.rows, cur.node, n) /\ n \in Nodes /\ n # cur.node
  BY <1>6, <1>7, RowsJoin
<1>9. \A n \in Nodes : Joined(ask.rows, cur.node, n) => n \in better \/ ~(NM(n) > best[n])
  BY <1>6, <1>w, RowsJoin
<1>10. \A n \in Nodes : NM(n) \in Nat /\ NM(n) \in {w, ask.score[n]}
  <2> SUFFICES ASSUME NEW n \in Nodes PROVE NM(n) \in Nat /\ NM(n) \in {w, ask.score[n]} OBVIOUS
  <2>1. ask.score[n] \in Nat BY <1>6
  <2>2. NM(n) \in {w, ask.score[n]} BY <2>1, <1>5, MinOfTwo
  <2> HIDE DEF NM
  <2> QED BY <2>1, <2>2, <1>5
<1>11. ASSUME NEW n \in better
       PROVE  /\ Extend(cur, n) \in Trails /\ Extend(cur, n).node = n
              /\ IsWay(ask, Extend(cur, n)) /\ WeakestOf(ask, Extend(cur, n)) = NM(n)
  <2>1. Joined(ask.rows, cur.node, n) BY <1>8
  <2>2. /\ Extend(cur, n) \in Trails /\ Extend(cur, n).node = n
        /\ IsWay(ask, Extend(cur, n))
    BY <1>5, <2>1, LongerChain
  <2>3. WeakestOf(ask, Extend(cur, n)) = NM(n) BY <1>5, <2>1, LongerIsWeaker, <1>w
  <2> QED BY <2>2, <2>3
<1>12. IsFiniteSet(New)
  <2> DEFINE f == [n \in better |-> Extend(cur, n)]
  <2>1. f \in Surjection(better, New) BY <1>n DEF Surjection
  <2>2. IsFiniteSet(better) BY <1>8, FS_Subset DEF AssetGraphAssumption
  <2> HIDE DEF f
  <2> QED BY <2>1, <2>2, FS_Surjection
<1>13. New \subseteq Trails
  <2>1. \A n \in better : Extend(cur, n) \in Trails BY <1>11
  <2> QED BY <2>1, <1>n
<1>14. frontier' = rest \o SetToSeq(New) BY <1>1, <1>n
<1>a. best' = [n \in Nodes |-> IF n \in better THEN NM(n) ELSE best[n]] BY <1>w
<1>b. nm = [n \in Nodes |-> NM(n)] BY <1>m
<1>c. w >= best[cur.node]
  <2>1. best[cur.node] \in Int BY <1>5
  <2> QED BY <2>1, <1>5, <1>w
<1>d. w = WeakestOf(ask, cur) /\ New = {Extend(cur, n) : n \in better} BY <1>w, <1>n
<1> HIDE DEF NM
<1>15. \A n \in Nodes : best'[n] = IF n \in better THEN NM(n) ELSE best[n] BY <1>a
<1>16. best' \in [Nodes -> Int]
  <2>1. \A n \in Nodes : (IF n \in better THEN NM(n) ELSE best[n]) \in Int BY <1>10
  <2> QED BY <2>1, <1>a
<1>17. nm \in [Nodes -> Nat] /\ \A n \in Nodes : nm[n] = NM(n) BY <1>10, <1>b
<1>18. \A n \in Nodes : nm[n] = w \/ nm[n] = ask.score[n] BY <1>10, <1>17
<1>19. frontier' \in Seq(Trails) /\ ToSet(frontier') = ToSet(rest) \cup New
  <2>1. SetToSeq(New) \in Seq(New) /\ ToSet(SetToSeq(New)) = New BY <1>12, AnyOrderLists
  <2>2. SetToSeq(New) \in Seq(Trails) BY <2>1, <1>13, SeqMonotonic
  <2>3. /\ rest \o SetToSeq(New) \in Seq(Trails)
        /\ ToSet(rest \o SetToSeq(New)) = ToSet(rest) \cup ToSet(SetToSeq(New))
    BY <1>3, <2>2, HeldBoth
  <2> QED BY <1>14, <2>1, <2>3
<1>20. \A n \in better : /\ Joined(ask.rows, cur.node, n) /\ n \in Nodes /\ n # cur.node
                         /\ nm[n] > best[n]
  BY <1>7, <1>8, <1>17
<1>21. \A n \in Nodes : Joined(ask.rows, cur.node, n) => n \in better \/ ~(nm[n] > best[n])
  BY <1>9, <1>17
<1>22. \A n \in Nodes : best'[n] = IF n \in better THEN nm[n] ELSE best[n] BY <1>15, <1>17
<1>23. \A n \in better : /\ Extend(cur, n).node = n /\ IsWay(ask, Extend(cur, n))
                         /\ WeakestOf(ask, Extend(cur, n)) = nm[n]
  <2> SUFFICES ASSUME NEW n \in better
               PROVE  /\ Extend(cur, n).node = n /\ IsWay(ask, Extend(cur, n))
                      /\ WeakestOf(ask, Extend(cur, n)) = nm[n]
    OBVIOUS
  <2>1. n \in Nodes BY <1>8
  <2>2. nm[n] = NM(n) BY <2>1, <1>17
  <2> QED BY <2>2, <1>11
<1>24. Growth(cur, w, nm, better, rest, New)
  BY <1>3, <1>4, <1>5, <1>c, <1>d, <1>16, <1>17, <1>18, <1>19, <1>20, <1>21, <1>22, <1>23
  DEF Growth
<1>25. WidestInv' BY <1>24, WidestGrown
<1> QED BY <1>16, <1>25

Closed(n) == \A m \in Nodes : Joined(ask.rows, n, m) => m \in seen
Near(k) == Ball(ask.rows, Nodes, From, k)

\* The queue holds chains by length, each to a node that no shorter one
\* reaches; what is as near as its head was visited.
ShortestInv ==
    /\ frontier \in Seq(Trails)
    /\ \A i \in 1..Len(frontier) :
          /\ IsWay(ask, frontier[i]) /\ frontier[i].node \in seen
          /\ Len(frontier[i].path) >= 2 => frontier[i].node \notin Near(Len(frontier[i].path) - 2)
          /\ Len(frontier[i].path) <= Len(frontier[1].path) + 1
    /\ \A i, j \in 1..Len(frontier) : i <= j => Len(frontier[i].path) <= Len(frontier[j].path)
    /\ frontier # <<>> => Near(Len(frontier[1].path) - 1) \subseteq seen
    /\ \A n \in seen : Closed(n) \/ \E i \in 1..Len(frontier) : frontier[i].node = n
    /\ seen \subseteq Nodes /\ From \in seen /\ To \notin seen

\* An empty queue has visited all that can be reached.
LEMMA ShortestNone ==
    ASSUME AssetGraphAssumption, ask \in GraphAsks, ShortestInv, frontier = <<>>
    PROVE  To \notin Reachable(ask.rows, Nodes, From)
<1>1. ask.rows \subseteq kSubset(2, Nodes) BY AskIs
<1>2. \A n \in seen : Closed(n)
  <2>1. \A i \in 1..Len(frontier) : FALSE BY EmptySeq
  <2> QED BY <2>1 DEF ShortestInv
<1>3. \A z \in seen : \A y \in Nodes : Joined(ask.rows, y, z) => y \in seen
  <2> SUFFICES ASSUME NEW z \in seen, NEW y \in Nodes, Joined(ask.rows, y, z) PROVE y \in seen
    OBVIOUS
  <2>1. Joined(ask.rows, z, y) BY <1>1, RowsJoin
  <2> QED BY <2>1, <1>2 DEF Closed
<1>4. From \in seen /\ To \notin seen BY DEF ShortestInv
<1>5. \A k \in Nat : Ball(ask.rows, Nodes, From, k) \subseteq seen BY <1>3, <1>4, BallWithin
<1>6. Cardinality(Nodes) \in Nat BY FS_CardinalityType DEF AssetGraphAssumption
<1> QED BY <1>4, <1>5, <1>6 DEF Reachable

\* What the head of the queue is.
LEMMA HeadOfQueue ==
    ASSUME AssetGraphAssumption, ask \in GraphAsks, ShortestInv, frontier # <<>>,
           NEW cur, cur = Head(frontier)
    PROVE  /\ Len(frontier) \in Nat \ {0} /\ cur = frontier[1] /\ 1 \in 1..Len(frontier)
           /\ cur \in Trails /\ IsWay(ask, cur) /\ Len(cur.path) \in Nat \ {0}
           /\ Near(Len(cur.path) - 1) \subseteq seen
<1>1. frontier \in Seq(Trails) BY DEF ShortestInv
<1>2. Len(frontier) \in Nat \ {0} BY <1>1, EmptySeq
<1>3. 1 \in 1..Len(frontier) BY <1>2
<1>4. cur = frontier[1] BY <1>1
<1>5. cur \in Trails BY <1>1, <1>3, <1>4, ElementOfSeq
<1>6. IsWay(ask, cur) BY <1>3, <1>4 DEF ShortestInv
<1>7. Len(cur.path) \in Nat \ {0} BY <1>5, <1>6, ChainIs
<1>8. Near(Len(cur.path) - 1) \subseteq seen BY <1>4 DEF ShortestInv
<1> QED BY <1>2, <1>3, <1>4, <1>5, <1>6, <1>7, <1>8

\* The goal beside the head of the queue is at that distance, not nearer.
LEMMA ShortestFound ==
    ASSUME AssetGraphAssumption, ask \in GraphAsks, ShortestInv, frontier # <<>>,
           NEW cur, cur = Head(frontier), To \in Neighbours(ask.rows, cur.node),
           NEW p, p = Extend(cur, To).path
    PROVE  p # <<>> /\ IsChain(p) /\ To \notin Ball(ask.rows, Nodes, From, Len(p) - 2)
<1>1. /\ cur \in Trails /\ IsWay(ask, cur) /\ Len(cur.path) \in Nat \ {0}
      /\ Near(Len(cur.path) - 1) \subseteq seen
  BY HeadOfQueue
<1>2. ask.rows \subseteq kSubset(2, Nodes) BY AskIs
<1>3. Joined(ask.rows, cur.node, To) BY <1>2, RowsJoin
<1>4. PICK q : q = Extend(cur, To) OBVIOUS
<1>5. /\ q \in Trails /\ q.node = To /\ Len(q.path) = Len(cur.path) + 1 /\ IsWay(ask, q)
  BY <1>1, <1>3, <1>4, LongerChain
<1>6. p = q.path BY <1>4
<1>7. p \in Seq(Nodes) BY <1>5, <1>6 DEF Trails
<1>8. p # <<>>
  <2>1. Len(p) # 0 BY <1>1, <1>5, <1>6
  <2> QED BY <2>1, EmptySeq
<1>9. IsChain(p) BY <1>5, <1>6 DEF IsWay, IsChain, From
<1>10. Len(p) - 2 = Len(cur.path) - 1 BY <1>1, <1>5, <1>6
<1>11. To \notin seen BY DEF ShortestInv
<1> QED BY <1>1, <1>8, <1>9, <1>10, <1>11 DEF Near

\* One step: the head's chain is prolonged to each of the fresh neighbours.
Advance(cur, fresh, n, k) ==
    /\ frontier # <<>> /\ cur = Head(frontier) /\ fresh = Neighbours(ask.rows, cur.node) \ seen
    /\ To \notin fresh
    /\ n \in Nat /\ k \in Nat /\ Len(frontier) = n + 1
    /\ frontier' \in Seq(Trails) /\ Len(frontier') = n + k
    /\ \A i \in 1..n : frontier'[i] = frontier[i + 1]
    /\ \A i \in (n + 1)..(n + k) : \E m \in fresh : frontier'[i] = Extend(cur, m)
    /\ \A m \in fresh : \E i \in (n + 1)..(n + k) : frontier'[i] = Extend(cur, m)
    /\ seen' = seen \cup fresh /\ ask' = ask

\* A queue without its head and with k more.
Glued(q, n, ext, k, f) ==
    /\ q \in Seq(Trails) /\ q # <<>> /\ k \in Nat /\ ext \in [1..k -> Trails]
    /\ n = Len(q) - 1 /\ f = Tail(q) \o ext

\* The places of a queue that lost its head and took k more.
LEMMA TailAndMore ==
    ASSUME NEW q, NEW n, NEW ext, NEW k, NEW f, Glued(q, n, ext, k, f)
    PROVE  /\ n \in Nat /\ Len(q) = n + 1 /\ f \in Seq(Trails) /\ Len(f) = n + k
           /\ \A i \in 1..n : f[i] = q[i + 1]
           /\ \A i \in (n + 1)..(n + k) : i - n \in 1..k /\ f[i] = ext[i - n]
<1>0. /\ q \in Seq(Trails) /\ q # <<>> /\ k \in Nat /\ ext \in [1..k -> Trails]
      /\ n = Len(q) - 1 /\ f = Tail(q) \o ext
  BY DEF Glued
<1>1. Len(q) \in Nat \ {0} BY <1>0, EmptySeq
<1>2. n \in Nat /\ Len(q) = n + 1 BY <1>0, <1>1
<1>3. ext \in Seq(Trails) /\ Len(ext) = k
  <2>1. ext \in Seq(Trails) BY <1>0, SeqDef
  <2>2. DOMAIN ext = 1..Len(ext) /\ Len(ext) \in Nat /\ DOMAIN ext = 1..k
    BY <2>1, <1>0, LenProperties
  <2>3. k \in Nat BY <1>0
  <2>l. PICK l : l = Len(ext) OBVIOUS
  <2>a. l \in Nat /\ 1..l = 1..k BY <2>2, <2>l
  <2>b. \A i \in Int : i \in 1..l <=> i \in 1..k BY <2>a
  <2>4. l = k BY <2>3, <2>a, <2>b
  <2> QED BY <2>1, <2>4, <2>l
<1>4. PICK t : t = Tail(q) OBVIOUS
<1>5. /\ t \in Seq(Trails) /\ Len(t) = n /\ \A i \in 1..n : t[i] = q[i + 1]
  BY <1>0, <1>1, <1>4, HeadTailProperties
<1>6. /\ f \in Seq(Trails) /\ Len(f) = Len(t) + Len(ext)
      /\ \A i \in 1..(Len(t) + Len(ext)) :
            f[i] = IF i <= Len(t) THEN t[i] ELSE ext[i - Len(t)]
  BY <1>0, <1>3, <1>4, <1>5, ConcatProperties
<1>7. \A i \in 1..(n + k) : f[i] = IF i <= n THEN t[i] ELSE ext[i - n] BY <1>3, <1>5, <1>6
<1>8. ASSUME NEW i \in 1..n PROVE f[i] = q[i + 1]
  <2>1. i \in 1..(n + k) /\ i <= n BY <1>0, <1>2
  <2> QED BY <2>1, <1>5, <1>7
<1>9. ASSUME NEW i \in (n + 1)..(n + k) PROVE i - n \in 1..k /\ f[i] = ext[i - n]
  <2>1. i \in 1..(n + k) /\ ~(i <= n) /\ i - n \in 1..k BY <1>0, <1>2
  <2> QED BY <2>1, <1>7
<1> QED BY <1>2, <1>3, <1>5, <1>6, <1>8, <1>9

\* A pass of ExposurePath is such a step.
LEMMA QueueMoves ==
    ASSUME AssetGraphAssumption, ask \in GraphAsks, ShortestInv, frontier # <<>>,
           NEW cur, cur = Head(frontier), NEW fresh,
           fresh = Neighbours(ask.rows, cur.node) \ seen, To \notin fresh,
           NEW order \in SetToSeqs(fresh),
           frontier' = Tail(frontier) \o [i \in DOMAIN order |-> Extend(cur, order[i])],
           seen' = seen \cup fresh, ask' = ask
    PROVE  Advance(cur, fresh, Len(frontier) - 1, Len(order))
<1>1. frontier \in Seq(Trails) BY DEF ShortestInv
<1>2. /\ cur \in Trails /\ IsWay(ask, cur) /\ Len(frontier) \in Nat \ {0}
  BY HeadOfQueue
<1>3. ask.rows \subseteq kSubset(2, Nodes) BY AskIs
<1>4. \A m \in fresh : Joined(ask.rows, cur.node, m) /\ m \in Nodes BY <1>3, RowsJoin
<1>5. IsFiniteSet(fresh) BY <1>4, FS_Subset DEF AssetGraphAssumption
<1>6. order \in Seq(fresh) /\ ToSet(order) = fresh BY <1>5, OrdersList
<1>7. Len(order) \in Nat /\ DOMAIN order = 1..Len(order) /\ \A i \in 1..Len(order) : order[i] \in fresh
  BY <1>6, LenProperties, ElementOfSeq
<1>8. \A m \in fresh : Extend(cur, m) \in Trails BY <1>2, <1>4, LongerChain
<1>e. PICK ext : ext = [i \in DOMAIN order |-> Extend(cur, order[i])] OBVIOUS
<1>n. PICK n : n = Len(frontier) - 1 OBVIOUS
<1>k. PICK k : k = Len(order) OBVIOUS
<1>9. ext \in [1..k -> Trails]
  <2>1. \A i \in 1..k : Extend(cur, order[i]) \in Trails BY <1>7, <1>8, <1>k
  <2> QED BY <2>1, <1>7, <1>e, <1>k
<1>10. \A i \in 1..k : ext[i] = Extend(cur, order[i]) BY <1>7, <1>e, <1>k
<1>11. frontier' = Tail(frontier) \o ext BY <1>e
<1>16. k \in Nat BY <1>7, <1>k
<1>f. PICK f : f = frontier' OBVIOUS
<1>12. /\ n \in Nat /\ Len(frontier) = n + 1 /\ f \in Seq(Trails) /\ Len(f) = n + k
       /\ \A i \in 1..n : f[i] = frontier[i + 1]
       /\ \A i \in (n + 1)..(n + k) : i - n \in 1..k /\ f[i] = ext[i - n]
  <2>1. PICK q : q = frontier OBVIOUS
  <2>2. q \in Seq(Trails) /\ q # <<>> /\ n = Len(q) - 1 BY <1>1, <1>n, <2>1
  <2>3. f = Tail(q) \o ext BY <1>11, <1>f, <2>1
  <2>4. /\ n \in Nat /\ Len(q) = n + 1 /\ f \in Seq(Trails) /\ Len(f) = n + k
        /\ \A i \in 1..n : f[i] = q[i + 1]
        /\ \A i \in (n + 1)..(n + k) : i - n \in 1..k /\ f[i] = ext[i - n]
    <3>1. Glued(q, n, ext, k, f) BY <2>2, <2>3, <1>9, <1>16 DEF Glued
    <3> QED BY <3>1, TailAndMore
  <2> QED BY <2>1, <2>4
<1>22. \A i \in 1..k : order[i] \in fresh BY <1>7, <1>k
<1>23. \A i \in (n + 1)..(n + k) : \E m \in fresh : f[i] = Extend(cur, m)
  BY <1>10, <1>12, <1>22
<1>24. ASSUME NEW m \in fresh PROVE \E i \in (n + 1)..(n + k) : f[i] = Extend(cur, m)
  <2>1. PICK j \in 1..k : order[j] = m BY <1>6, <1>7, <1>k DEF ToSet
  <2>2. j + n \in (n + 1)..(n + k) /\ (j + n) - n = j BY <1>12, <1>16
  <2>3. f[j + n] = ext[j] BY <2>2, <1>12
  <2> QED BY <2>1, <2>2, <2>3, <1>10
<1>25. /\ frontier' \in Seq(Trails) /\ Len(frontier') = n + k
       /\ \A i \in 1..n : frontier'[i] = frontier[i + 1]
  BY <1>12, <1>f
<1>g. /\ \A i \in (n + 1)..(n + k) : \E m \in fresh : frontier'[i] = Extend(cur, m)
      /\ \A m \in fresh : \E i \in (n + 1)..(n + k) : frontier'[i] = Extend(cur, m)
  BY <1>23, <1>24, <1>f
<1>26. Advance(cur, fresh, n, k) BY <1>12, <1>16, <1>25, <1>g DEF Advance
<1> QED BY <1>26, <1>n, <1>k

\* The step keeps the queue in order and what it visits complete.
LEMMA QueueAdvances ==
    ASSUME AssetGraphAssumption, ask \in GraphAsks, ShortestInv,
           NEW cur, NEW fresh, NEW n, NEW k, Advance(cur, fresh, n, k)
    PROVE  ShortestInv'
<1>1. /\ frontier # <<>> /\ cur = Head(frontier)
      /\ fresh = Neighbours(ask.rows, cur.node) \ seen /\ To \notin fresh
      /\ n \in Nat /\ k \in Nat /\ Len(frontier) = n + 1
  BY DEF Advance
<1>2. frontier' \in Seq(Trails) /\ Len(frontier') = n + k BY DEF Advance
<1>3. \A i \in 1..n : frontier'[i] = frontier[i + 1] BY DEF Advance
<1>4. \A i \in (n + 1)..(n + k) : \E m \in fresh : frontier'[i] = Extend(cur, m) BY DEF Advance
<1>5. \A m \in fresh : \E i \in (n + 1)..(n + k) : frontier'[i] = Extend(cur, m) BY DEF Advance
<1>6. seen' = seen \cup fresh /\ ask' = ask BY DEF Advance
<1>7. /\ cur = frontier[1] /\ cur \in Trails /\ IsWay(ask, cur) /\ Len(cur.path) \in Nat \ {0}
      /\ Near(Len(cur.path) - 1) \subseteq seen
  BY <1>1, HeadOfQueue
<1>8. ask.rows \subseteq kSubset(2, Nodes) BY AskIs
<1>9. \A m \in fresh : Joined(ask.rows, cur.node, m) /\ m \in Nodes /\ m \notin seen
  BY <1>1, <1>8, RowsJoin
<1>l. PICK l : l = Len(cur.path) OBVIOUS
<1>10. l \in Nat \ {0} BY <1>7, <1>l
<1>11. \A i \in 1..(n + 1) : /\ IsWay(ask, frontier[i]) /\ frontier[i].node \in seen
                             /\ Len(frontier[i].path) >= 2 =>
                                   frontier[i].node \notin Near(Len(frontier[i].path) - 2)
                             /\ Len(frontier[i].path) <= l + 1
  BY <1>1, <1>7, <1>l DEF ShortestInv
<1>12. \A i, j \in 1..(n + 1) : i <= j => Len(frontier[i].path) <= Len(frontier[j].path)
  BY <1>1 DEF ShortestInv
<1>13. \A i \in 1..(n + 1) : Len(frontier[i].path) \in Nat /\ l <= Len(frontier[i].path)
  <2> SUFFICES ASSUME NEW i \in 1..(n + 1)
               PROVE  Len(frontier[i].path) \in Nat /\ l <= Len(frontier[i].path)
    OBVIOUS
  <2>1. frontier[i] \in Trails
    <3>1. frontier \in Seq(Trails) BY DEF ShortestInv
    <3> QED BY <3>1, <1>1, ElementOfSeq
  <2>2. Len(frontier[i].path) \in Nat BY <2>1, LenProperties DEF Trails
  <2>3. 1 \in 1..(n + 1) /\ 1 <= i BY <1>1
  <2> QED BY <2>2, <2>3, <1>7, <1>12, <1>l
\* What the new chains are.
<1>14. ASSUME NEW m \in fresh, NEW c, c = Extend(cur, m)
       PROVE  /\ IsWay(ask, c) /\ c.node = m /\ Len(c.path) = l + 1
              /\ c.node \notin Near(Len(c.path) - 2)
  <2>1. IsWay(ask, c) /\ c.node = m /\ Len(c.path) = l + 1
    BY <1>7, <1>9, <1>14, <1>l, LongerChain
  <2>2. Len(c.path) - 2 = l - 1 BY <2>1, <1>10
  <2> QED BY <2>1, <2>2, <1>7, <1>9, <1>l
<1>15. \A j : Near(j)' = Near(j) BY <1>6 DEF Near, From
<1>f. PICK f : f = frontier' OBVIOUS
<1>16. ASSUME NEW i \in 1..(n + k)
       PROVE  /\ IsWay(ask, f[i]) /\ f[i].node \in seen'
              /\ Len(f[i].path) >= 2 => f[i].node \notin Near(Len(f[i].path) - 2)
              /\ Len(f[i].path) \in Nat /\ l <= Len(f[i].path) /\ Len(f[i].path) <= l + 1
              /\ i > n => Len(f[i].path) = l + 1
              /\ i <= n => f[i] = frontier[i + 1]
  <2>1. CASE i <= n
    <3>1. i \in 1..n /\ i + 1 \in 1..(n + 1) BY <2>1, <1>1
    <3>2. f[i] = frontier[i + 1] BY <3>1, <1>3, <1>f
    <3> QED BY <2>1, <3>1, <3>2, <1>1, <1>6, <1>11, <1>13
  <2>2. CASE i > n
    <3>1. i \in (n + 1)..(n + k) BY <2>2, <1>1
    <3>2. PICK m \in fresh : f[i] = Extend(cur, m) BY <3>1, <1>4, <1>f
    <3>3. PICK c : c = f[i] OBVIOUS
    <3>4. /\ IsWay(ask, c) /\ c.node = m /\ Len(c.path) = l + 1
          /\ c.node \notin Near(Len(c.path) - 2)
      BY <3>2, <3>3, <1>14
    <3>5. m \in seen' BY <1>6
    <3>6. ~(i <= n) BY <2>2, <1>1
    <3> QED BY <3>3, <3>4, <3>5, <3>6, <1>10
  <2> QED BY <2>1, <2>2, <1>1
<1>17. ASSUME NEW i \in 1..(n + k), NEW j \in 1..(n + k), i <= j
       PROVE  Len(f[i].path) <= Len(f[j].path)
  <2>1. CASE j <= n
    <3>1. i <= n /\ i + 1 \in 1..(n + 1) /\ j + 1 \in 1..(n + 1) /\ i + 1 <= j + 1
      BY <2>1, <1>1, <1>17
    <3>2. f[i] = frontier[i + 1] /\ f[j] = frontier[j + 1] BY <2>1, <3>1, <1>16
    <3> QED BY <3>1, <3>2, <1>12
  <2>2. CASE j > n
    <3>1. Len(f[j].path) = l + 1 BY <2>2, <1>16
    <3>2. Len(f[i].path) <= l + 1 BY <1>16
    <3> QED BY <3>1, <3>2
  <2> QED BY <2>1, <2>2, <1>1
<1>18. ASSUME NEW x \in seen'
       PROVE  Closed(x)' \/ \E i \in 1..(n + k) : f[i].node = x
  <2>1. CASE x \in fresh
    <3>1. PICK i \in (n + 1)..(n + k) : f[i] = Extend(cur, x) BY <2>1, <1>5, <1>f
    <3>2. f[i].node = x BY <2>1, <3>1, <1>14
    <3>3. i \in 1..(n + k) BY <1>1
    <3> QED BY <3>2, <3>3
  <2>2. CASE x \in seen /\ Closed(x)
    <3>1. Closed(x)' BY <2>2, <1>6 DEF Closed
    <3> QED BY <3>1
  <2>3. ASSUME NEW i \in 1..(n + 1), frontier[i].node = x
        PROVE  Closed(x)' \/ \E j \in 1..(n + k) : f[j].node = x
    <3>1. CASE i = 1
      <4>1. x = cur.node BY <2>3, <3>1, <1>7
      <4>2. \A m \in Nodes : Joined(ask.rows, x, m) => m \in seen'
        <5> SUFFICES ASSUME NEW m \in Nodes, Joined(ask.rows, x, m) PROVE m \in seen' OBVIOUS
        <5>1. m \in Neighbours(ask.rows, x) BY <1>8, RowsJoin
        <5> QED BY <4>1, <5>1, <1>1, <1>6
      <4>3. Closed(x)' BY <4>2, <1>6 DEF Closed
      <4> QED BY <4>3
    <3>2. CASE i # 1
      <4>1. i - 1 \in 1..(n + k) /\ i - 1 <= n /\ (i - 1) + 1 = i BY <3>2, <1>1
      <4>2. f[i - 1] = frontier[i] BY <4>1, <1>16
      <4> QED BY <2>3, <4>1, <4>2
    <3> QED BY <3>1, <3>2
  <2>4. CASE x \in seen /\ ~Closed(x)
    <3>1. \E i \in 1..(n + 1) : frontier[i].node = x BY <2>4, <1>1 DEF ShortestInv
    <3> QED BY <3>1, <2>3
  <2> QED BY <2>1, <2>2, <2>4, <1>6
<1>19. ASSUME n + k # 0 PROVE Near(Len(f[1].path) - 1) \subseteq seen'
  <2>1. 1 \in 1..(n + k) BY <1>1, <1>19
  <2>2. PICK h : h = Len(f[1].path) OBVIOUS
  <2>3. h \in Nat /\ l <= h /\ h <= l + 1 BY <2>1, <2>2, <1>16
  <2>4. Near(l - 1) \subseteq seen' BY <1>6, <1>7, <1>l
  <2>5. CASE h = l BY <2>2, <2>4, <2>5
  <2>6. CASE h = l + 1
    <3>1. ASSUME NEW z \in Near(l - 1) PROVE Closed(z)'
      <4>1. ASSUME NEW i \in 1..(n + k), f[i].node = z PROVE FALSE
        <5>1. Len(f[i].path) \in Nat /\ Len(f[i].path) <= l + 1 BY <1>16
        <5>2. 1 <= i /\ Len(f[1].path) <= Len(f[i].path) BY <2>1, <1>17
        <5>3. Len(f[i].path) = l + 1 BY <5>1, <5>2, <2>2, <2>6, <1>10
        <5>4. Len(f[i].path) >= 2 /\ Len(f[i].path) - 2 = l - 1 BY <5>3, <1>10
        <5>5. f[i].node \notin Near(l - 1) BY <5>4, <1>16
        <5> QED BY <4>1, <5>5
      <4>2. z \in seen' BY <2>4
      <4> QED BY <4>1, <4>2, <1>18
    <3>2. ASSUME NEW y \in Near(l) PROVE y \in seen'
      <4>1. l - 1 \in Nat /\ (l - 1) + 1 = l BY <1>10
      <4>2. \/ y \in Near(l - 1)
            \/ y \in Nodes /\ \E z \in Near(l - 1) : Joined(ask.rows, y, z)
        <5>1. y \in Ball(ask.rows, Nodes, From, (l - 1) + 1) BY <4>1 DEF Near
        <5> QED BY <4>1, <5>1, BallNext DEF Near
      <4>3. ASSUME NEW z \in Near(l - 1), y \in Nodes, Joined(ask.rows, y, z) PROVE y \in seen'
        <5>1. Joined(ask.rows, z, y) BY <4>3, <1>8, RowsJoin
        <5>2. \A m \in Nodes : Joined(ask.rows, z, m) => m \in seen' BY <3>1, <1>6 DEF Closed
        <5> QED BY <4>3, <5>1, <5>2
      <4> QED BY <4>2, <4>3, <2>4
    <3>3. h - 1 = l BY <2>6, <1>10
    <3> QED BY <3>2, <3>3, <2>2
  <2> QED BY <2>3, <2>5, <2>6, <1>10
<1>20. seen' \subseteq Nodes /\ From' \in seen' /\ To' \notin seen'
  BY <1>1, <1>6, <1>9 DEF ShortestInv, From, To
<1>21. \A i \in 1..(n + k) : Len(f[i].path) <= Len(f[1].path) + 1
  <2> SUFFICES ASSUME NEW i \in 1..(n + k) PROVE Len(f[i].path) <= Len(f[1].path) + 1 OBVIOUS
  <2>1. 1 \in 1..(n + k) BY <1>1
  <2>2. Len(f[i].path) <= l + 1 /\ Len(f[i].path) \in Nat BY <1>16
  <2>3. l <= Len(f[1].path) /\ Len(f[1].path) \in Nat BY <2>1, <1>16
  <2> QED BY <2>2, <2>3, <1>10
<1>22. f # <<>> => n + k # 0 BY <1>2, <1>f, EmptySeq
<1> QED
  <2>1. \A i \in 1..Len(f) :
          /\ IsWay(ask', f[i]) /\ f[i].node \in seen'
          /\ Len(f[i].path) >= 2 => f[i].node \notin Near(Len(f[i].path) - 2)'
          /\ Len(f[i].path) <= Len(f[1].path) + 1
    BY <1>2, <1>6, <1>15, <1>16, <1>21, <1>f
  <2>2. \A i, j \in 1..Len(f) : i <= j => Len(f[i].path) <= Len(f[j].path) BY <1>2, <1>17, <1>f
  <2>3. f # <<>> => Near(Len(f[1].path) - 1)' \subseteq seen' BY <1>15, <1>19, <1>22
  <2>4. \A x \in seen' : Closed(x)' \/ \E i \in 1..Len(f) : f[i].node = x BY <1>2, <1>18, <1>f
  <2> QED BY <2>1, <2>2, <2>3, <2>4, <1>2, <1>20, <1>f DEF ShortestInv

\* After p passes what is within p rows was seen, and the frontier is what is
\* not within one row less.
AroundInv ==
    /\ best[From] \in Nat /\ best[From] <= Depth
    /\ seen = Near(best[From])
    /\ best[From] = 0 => frontier = {From}
    /\ best[From] # 0 => frontier = Near(best[From]) \ Near(best[From] - 1)

\* The balls around the start are nested sets of nodes.
LEMMA NearIs ==
    ASSUME AssetGraphAssumption, ask \in GraphAsks
    PROVE  /\ Near(0) = {From} /\ From \in Nodes
           /\ \A k \in Nat : Near(k) \subseteq Near(k + 1) /\ Near(k) \subseteq Nodes
<1>1. From \in Nodes BY AskIs DEF From
<1>2. Near(0) = {From} BY <1>1, BallSteps DEF Near
<1>3. \A k \in Nat : Near(k) \subseteq Near(k + 1)
  <2> SUFFICES ASSUME NEW k \in Nat PROVE Near(k) \subseteq Near(k + 1) OBVIOUS
  <2>1. k + 1 \in Nat /\ k <= k + 1 OBVIOUS
  <2> QED BY <2>1, BallGrows DEF Near
<1>4. \A k \in Nat : Near(k) \subseteq Nodes
  <2>1. \A z \in Nodes : \A y \in Nodes : Joined(ask.rows, y, z) => y \in Nodes OBVIOUS
  <2> QED BY <1>1, <2>1, BallWithin DEF Near
<1> QED BY <1>1, <1>2, <1>3, <1>4

\* The depth is the one asked for, or 2.
LEMMA DepthIs ==
    ASSUME AssetGraphAssumption, ask \in GraphAsks
    PROVE  /\ Depth \in Nat \ {0}
           /\ Depth = IF ask.depth = 0 THEN 2 ELSE ask.depth
<1>1. ask.depth \in Nat BY AskIs
<1> QED BY <1>1 DEF Depth

\* Where the passes end, what was seen without the frontier is the subgraph.
LEMMA AroundFound ==
    ASSUME AssetGraphAssumption, ask \in GraphAsks, AroundInv,
           best[From] >= Depth \/ frontier = {}
    PROVE  seen \ frontier = Near(Depth - 1)
<1>1. Depth \in Nat \ {0} BY DepthIs
<1>p. PICK p : p = best[From] OBVIOUS
<1>2. /\ p \in Nat /\ p <= Depth /\ seen = Near(p) /\ (p = 0 => frontier = {From})
      /\ p # 0 => frontier = Near(p) \ Near(p - 1)
  BY <1>p DEF AroundInv
<1>3. p # 0
  <2>1. SUFFICES ASSUME p = 0 PROVE FALSE OBVIOUS
  <2>2. frontier # {} BY <1>2, <2>1
  <2>3. p >= Depth BY <2>2, <1>p
  <2> QED BY <2>1, <2>3, <1>1
<1>4. p - 1 \in Nat /\ (p - 1) + 1 = p BY <1>2, <1>3
<1>5. Near(p - 1) \subseteq Near(p) BY <1>4, NearIs
<1>6. CASE p >= Depth
  <2>1. p = Depth BY <1>1, <1>2, <1>6
  <2>2. seen \ frontier = Near(p - 1) BY <1>2, <1>3, <1>5
  <2> QED BY <2>1, <2>2
<1>7. CASE frontier = {}
  <2>1. Near(p) = Near(p - 1) BY <1>2, <1>3, <1>5, <1>7
  <2>2. Ball(ask.rows, Nodes, From, (p - 1) + 1) = Ball(ask.rows, Nodes, From, p - 1)
    BY <2>1, <1>4 DEF Near
  <2>3. \A j \in Nat : Ball(ask.rows, Nodes, From, j) \subseteq Ball(ask.rows, Nodes, From, p - 1)
    BY <2>2, <1>4, BallStops
  <2>4. Depth - 1 \in Nat /\ p - 1 <= Depth - 1 BY <1>1, <1>2
  <2>5. Near(Depth - 1) \subseteq Near(p - 1) BY <2>3, <2>4 DEF Near
  <2>6. Near(p - 1) \subseteq Near(Depth - 1) BY <2>4, <1>4, BallGrows DEF Near
  <2>7. seen \ frontier = Near(p) BY <1>2, <1>7
  <2> QED BY <2>1, <2>5, <2>6, <2>7
<1> QED BY <1>6, <1>7, <1>p

\* A pass reaches the nodes one row further.
LEMMA AroundNext ==
    ASSUME AssetGraphAssumption, ask \in GraphAsks, AroundInv, ~(best[From] >= Depth)
    PROVE  (UNION Kept(frontier)) \ seen = Near(best[From] + 1) \ Near(best[From])
<1>1. ask.rows \subseteq kSubset(2, Nodes) BY AskIs
<1>p. PICK p : p = best[From] OBVIOUS
<1>2. /\ p \in Nat /\ seen = Near(p) /\ (p = 0 => frontier = {From})
      /\ p # 0 => frontier = Near(p) \ Near(p - 1)
  BY <1>p DEF AroundInv
<1>3. frontier \subseteq Near(p)
  <2>1. CASE p = 0 BY <2>1, <1>2, NearIs
  <2>2. CASE p # 0 BY <2>2, <1>2
  <2> QED BY <2>1, <2>2
<1>4. \A y : y \in Near(p + 1) <=>
               y \in Near(p) \/ (y \in Nodes /\ \E z \in Near(p) : Joined(ask.rows, y, z))
  BY <1>2, BallNext DEF Near
<1>5. ASSUME NEW y \in UNION Kept(frontier), y \notin seen PROVE y \in Near(p + 1)
  <2>1. PICK e \in ask.rows : y \in e /\ e \cap frontier # {} BY <1>5 DEF Kept
  <2>2. PICK z : z \in e /\ z \in frontier BY <2>1
  <2>3. z \in Near(p) /\ z # y BY <2>2, <1>2, <1>3, <1>5
  <2>4. Joined(ask.rows, y, z) BY <2>1, <2>2, <2>3, <1>1, RowOfEnds
  <2>5. y \in Nodes BY <2>4, <1>1, RowsJoin
  <2> QED BY <2>3, <2>4, <2>5, <1>4
<1>6. ASSUME NEW y \in Near(p + 1), y \notin Near(p) PROVE y \in UNION Kept(frontier)
  <2>1. PICK z \in Near(p) : Joined(ask.rows, y, z) BY <1>4, <1>6
  <2>2. z \in frontier
    <3>1. CASE p = 0 BY <3>1, <1>2, NearIs
    <3>2. CASE p # 0
      <4>1. p - 1 \in Nat /\ (p - 1) + 1 = p BY <3>2, <1>2
      <4>2. z \notin Near(p - 1)
        <5>1. SUFFICES ASSUME z \in Near(p - 1) PROVE FALSE OBVIOUS
        <5>2. y \in Nodes BY <2>1, <1>1, RowsJoin
        <5>3. y \in Ball(ask.rows, Nodes, From, (p - 1) + 1)
          BY <2>1, <4>1, <5>1, <5>2, BallNext DEF Near
        <5> QED BY <5>3, <4>1, <1>6 DEF Near
      <4> QED BY <3>2, <4>2, <1>2
    <3> QED BY <3>1, <3>2
  <2>3. {y, z} \in ask.rows BY <2>1 DEF Joined
  <2>4. {y, z} \in Kept(frontier) BY <2>2, <2>3 DEF Kept
  <2> QED BY <2>4
<1>s. seen = Near(p) BY <1>2
<1>7. PICK U : U = UNION Kept(frontier) OBVIOUS
<1>8. ASSUME NEW y \in U \ seen PROVE y \in Near(p + 1) \ Near(p) BY <1>s, <1>5, <1>7
<1>9. ASSUME NEW y \in Near(p + 1) \ Near(p) PROVE y \in U \ seen BY <1>s, <1>6, <1>7
<1>10. U \ seen = Near(p + 1) \ Near(p) BY <1>8, <1>9
<1>11. Near(best[From] + 1) = Near(p + 1) /\ Near(best[From]) = Near(p) BY <1>p
<1>12. (UNION Kept(frontier)) \ seen = U \ seen BY <1>7
<1> QED BY <1>10, <1>11, <1>12

GraphInv ==
    /\ ask \in GraphAsks /\ best \in [Nodes -> Int] /\ seen \subseteq Nodes
    /\ answer = {} \/ \E a \in answer : answer = {a}
    /\ answer = {} => /\ ask.kind = "widest" => WidestInv
                      /\ ask.kind = "shortest" => ShortestInv
                      /\ ask.kind = "around" => AroundInv
    /\ SearchIsBest

\* A search begins with its start as the only chain, or as the only node.
LEMMA GraphStarts ==
    ASSUME AssetGraphAssumption, GraphInit
    PROVE  GraphInv
<1>1. ask \in GraphAsks /\ answer = {} /\ seen = {From} BY DEF GraphInit
<1>2. /\ From \in Nodes /\ To \in Nodes /\ From # To /\ ask.score \in [Nodes -> Nat]
      /\ ask.rows \subseteq kSubset(2, Nodes)
      /\ ask.kind = "around" => ask.score[From] = 0
  BY <1>1, AskIs DEF From, To
<1>3. best = [n \in Nodes |-> IF n = From THEN ask.score[n] ELSE -1] BY DEF GraphInit
<1>4. best \in [Nodes -> Int] /\ best[From] = ask.score[From] BY <1>2, <1>3
<1>5. \A n \in Nodes : n # From => best[n] = -1 BY <1>3
<1>6. ask.kind # "around" => frontier = <<Chain(From)>> BY DEF GraphInit
<1>c. PICK c : c = Chain(From) OBVIOUS
<1>7. /\ c \in Trails /\ IsWay(ask, c) /\ c.node = From /\ Len(c.path) = 1
      /\ WeakestOf(ask, c) = ask.score[From]
  BY <1>1, <1>c, FirstChain DEF From
<1>8. \A f : f = <<c>> => /\ f \in Seq(Trails) /\ Len(f) = 1 /\ f[1] = c /\ DOMAIN f = 1..1
                          /\ ToSet(f) = {c}
  BY <1>7 DEF ToSet
<1>9. ASSUME ask.kind = "widest" PROVE WidestInv
  <2>1. frontier = <<c>> BY <1>6, <1>9, <1>c
  <2>2. frontier \in Seq(Trails) /\ ToSet(frontier) = {c} BY <2>1, <1>8
  <2>3. ask.score[From] \in Nat BY <1>2
  <2>4. \A e \in ToSet(frontier) : IsWay(ask, e) /\ WeakestOf(ask, e) <= best[e.node]
    BY <2>2, <2>3, <1>4, <1>7
  <2>5. best[From] >= ask.score[From] BY <2>3, <1>4
  <2>6. \A n \in Nodes : best[n] >= 0 => n = From BY <1>5
  <2>7. c \in ToSet(frontier) /\ c.node = From /\ WeakestOf(ask, c) >= best[From]
    BY <2>2, <2>3, <1>4, <1>7
  <2> QED BY <2>2, <2>4, <2>5, <2>6, <2>7 DEF WidestInv
<1>10. ASSUME ask.kind = "shortest" PROVE ShortestInv
  <2>1. frontier = <<c>> BY <1>6, <1>10, <1>c
  <2>2. frontier \in Seq(Trails) /\ Len(frontier) = 1 /\ frontier[1] = c BY <2>1, <1>8
  <2>3. \A i \in 1..1 : i = 1 OBVIOUS
  <2>4. \A i \in 1..Len(frontier) :
           /\ IsWay(ask, frontier[i]) /\ frontier[i].node \in seen
           /\ Len(frontier[i].path) >= 2 => frontier[i].node \notin Near(Len(frontier[i].path) - 2)
           /\ Len(frontier[i].path) <= Len(frontier[1].path) + 1
    <3>1. TAKE i \in 1..Len(frontier)
    <3>2. i = 1 /\ frontier[i] = c /\ frontier[1] = c BY <2>2, <2>3
    <3>3. IsWay(ask, c) /\ c.node \in seen BY <1>1, <1>7
    <3>4. ~(Len(c.path) >= 2) /\ Len(c.path) <= Len(c.path) + 1 BY <1>7
    <3> QED BY <3>2, <3>3, <3>4
  <2>5. \A i, j \in 1..Len(frontier) : i <= j => Len(frontier[i].path) <= Len(frontier[j].path)
    BY <2>2, <2>3, <1>7
  <2>6. Near(Len(frontier[1].path) - 1) \subseteq seen
    <3>1. Len(frontier[1].path) - 1 = 0 BY <2>2, <1>7
    <3> QED BY <3>1, <1>1, NearIs
  <2>7. \A n \in seen : \E i \in 1..Len(frontier) : frontier[i].node = n
    <3>1. 1 \in 1..1 OBVIOUS
    <3> QED BY <3>1, <2>2, <1>1, <1>7
  <2>8. seen \subseteq Nodes /\ From \in seen /\ To \notin seen BY <1>1, <1>2
  <2> QED BY <2>2, <2>4, <2>5, <2>6, <2>7, <2>8 DEF ShortestInv
<1>11. ASSUME ask.kind = "around" PROVE AroundInv
  <2>1. best[From] = 0 BY <1>2, <1>4, <1>11
  <2>2. frontier = {From} BY <1>11 DEF GraphInit
  <2>3. Depth \in Nat /\ 0 <= Depth BY <1>1, DepthIs
  <2>4. seen = Near(0) BY <1>1, NearIs
  <2> QED BY <2>1, <2>2, <2>3, <2>4 DEF AroundInv
<1>12. SearchIsBest BY <1>1 DEF SearchIsBest
<1>13. seen \subseteq Nodes BY <1>1, <1>2
<1> QED BY <1>1, <1>4, <1>9, <1>10, <1>11, <1>12, <1>13 DEF GraphInv

\* What an answer must be, by what was asked.
LEMMA AnswerIsBest ==
    ASSUME NEW a, answer' = {a}, UNCHANGED <<ask, frontier, best, seen>>, GraphInv,
           ask.kind = "around" =>
             a = Kept(Ball(ask.rows, Nodes, From, (IF ask.depth = 0 THEN 2 ELSE ask.depth) - 1)),
           ask.kind # "around" /\ a = <<>> => To \notin Reachable(ask.rows, Nodes, From),
           ask.kind = "widest" /\ a # <<>> =>
             /\ IsChain(a)
             /\ Min({ask.score[n] : n \in ToSet(a)})
                  = Max(Floors(ask.rows, ask.score, From, To)),
           ask.kind = "shortest" /\ a # <<>> =>
             IsChain(a) /\ To \notin Ball(ask.rows, Nodes, From, Len(a) - 2)
    PROVE  GraphInv'
<1>1. ask.kind \in {"widest", "shortest", "around"} BY DEF GraphInv, GraphAsks
<1>2. ask' = ask OBVIOUS
<1>3. \A S : Kept(S)' = Kept(S) BY <1>2 DEF Kept
<1>4. From' = From /\ To' = To BY <1>2 DEF From, To
<1>5. IsChain(a)' = IsChain(a) BY <1>2, <1>4 DEF IsChain
<1>6. SearchIsBest' BY <1>1, <1>2, <1>3, <1>4, <1>5 DEF SearchIsBest
<1>7. answer' # {} /\ \E e : answer' = {e} OBVIOUS
<1> QED BY <1>6, <1>7 DEF GraphInv

\* One pop, of the chain cur, with the others left in the heap.
Raised(cur, n) == Min({MinScore(cur), ask.score[n]})
Improved(cur) == {n \in Neighbours(ask.rows, cur.node) : Raised(cur, n) > best[n]}
PopOne(cur, rest) ==
    /\ \A j \in DOMAIN frontier : MinScore(frontier[j]) <= MinScore(cur)
    /\ IF cur.node = To THEN Answer(cur.path)
       ELSE IF MinScore(cur) < best[cur.node]
            THEN frontier' = rest /\ UNCHANGED <<ask, best, seen, answer>>
       ELSE /\ best' = [n \in Nodes |-> IF n \in Improved(cur) THEN Raised(cur, n) ELSE best[n]]
            /\ frontier' = rest \o SetToSeq({Extend(cur, n) : n \in Improved(cur)})
            /\ UNCHANGED <<ask, seen, answer>>

\* maxMinRiskPath: its answer, its drops and its pushes.
LEMMA PopKeeps ==
    ASSUME AssetGraphAssumption, GraphInv, PopWidest
    PROVE  GraphInv'
<1>1. /\ ask \in GraphAsks /\ best \in [Nodes -> Int] /\ seen \subseteq Nodes
      /\ ask.kind = "widest" /\ answer = {} /\ WidestInv
  BY DEF GraphInv, PopWidest
<1>2. /\ ask.score \in [Nodes -> Nat] /\ From \in Nodes BY <1>1, AskIs DEF From
<1>3. CASE frontier = <<>>
  <2>1. answer' = {<<>>} /\ UNCHANGED <<ask, frontier, best, seen>>
    BY <1>1, <1>3 DEF PopWidest, Answer
  <2>2. ToSet(frontier) = {} BY <1>3 DEF ToSet
  <2>3. PICK S : S = {n \in Nodes : ask.score[n] >= 0} OBVIOUS
  <2>4. S = Nodes BY <1>2, <2>3
  <2>5. ask.score[From] >= 0 /\ 0 \in Nat BY <1>2
  <2>6. To \notin Reachable(ask.rows, S, From) BY <1>1, <2>2, <2>3, <2>5, FloorCuts
  <2>7. To \notin Reachable(ask.rows, Nodes, From) BY <2>4, <2>6
  <2> QED BY <1>1, <2>1, <2>7, AnswerIsBest
<1>4. CASE frontier # <<>>
  <2>1. PICK i \in DOMAIN frontier : PopOne(frontier[i], RemoveAt(frontier, i))
    BY <1>1, <1>4 DEF PopWidest, PopOne, Improved, Raised
  <2>2. PICK cur : cur = frontier[i] OBVIOUS
  <2>r. PICK rest : rest = RemoveAt(frontier, i) OBVIOUS
  <2>p. PopOne(cur, rest) BY <2>1, <2>2, <2>r
  <2>3. cur \in ToSet(frontier) BY <2>2 DEF ToSet
  <2>4. \A c : MinScore(c) = WeakestOf(ask, c) BY DEF MinScore, WeakestOf
  <2>5. \A c \in ToSet(frontier) : WeakestOf(ask, c) <= WeakestOf(ask, cur)
    <3>1. \A j \in DOMAIN frontier : MinScore(frontier[j]) <= MinScore(cur) BY <2>p DEF PopOne
    <3> QED BY <3>1, <2>4 DEF ToSet
  <2>6. CASE cur.node = To
    <3>1. Answer(cur.path) BY <2>p, <2>6 DEF PopOne
    <3>2. answer' = {cur.path} /\ UNCHANGED <<ask, frontier, best, seen>> BY <3>1 DEF Answer
    <3>3. /\ cur.path # <<>> /\ IsChain(cur.path)
          /\ WeakestOf(ask, cur) = Max(Floors(ask.rows, ask.score, From, To))
      BY <1>1, <2>3, <2>5, <2>6, WidestFound
    <3>4. Min({ask.score[n] : n \in ToSet(cur.path)})
            = Max(Floors(ask.rows, ask.score, From, To))
      BY <3>3 DEF WeakestOf
    <3> QED BY <1>1, <3>2, <3>3, <3>4, AnswerIsBest
  <2>7. CASE cur.node # To /\ WeakestOf(ask, cur) < best[cur.node]
    <3>1. frontier' = RemoveAt(frontier, i) /\ UNCHANGED <<ask, best, seen, answer>>
      BY <2>p, <2>r, <2>4, <2>7 DEF PopOne
    <3>2. WidestInv' BY <1>1, <2>2, <2>7, <3>1, WidestDrops
    <3>3. SearchIsBest' BY <1>1, <3>1 DEF SearchIsBest
    <3> QED BY <1>1, <3>1, <3>2, <3>3 DEF GraphInv
  <2>8. CASE cur.node # To /\ ~(WeakestOf(ask, cur) < best[cur.node])
    <3>1. PICK w : w = MinScore(cur) OBVIOUS
    <3>2. w = WeakestOf(ask, cur) /\ ~(w < best[cur.node]) BY <2>4, <2>8, <3>1
    <3>3. /\ best' = [n \in Nodes |-> IF n \in Improved(cur) THEN Raised(cur, n) ELSE best[n]]
          /\ frontier' = rest \o SetToSeq({Extend(cur, n) : n \in Improved(cur)})
          /\ UNCHANGED <<ask, seen, answer>>
      BY <2>p, <2>8, <3>1, <3>2 DEF PopOne
    <3>4. PICK better : better = Improved(cur) OBVIOUS
    <3>5. \A n : Raised(cur, n) = Min({WeakestOf(ask, cur), ask.score[n]})
      BY <3>1, <3>2 DEF Raised
    <3>7. better = {n \in Neighbours(ask.rows, cur.node) :
                      Min({WeakestOf(ask, cur), ask.score[n]}) > best[n]}
      BY <3>4, <3>5 DEF Improved
    <3>8. best' = [n \in Nodes |-> IF n \in better THEN Min({WeakestOf(ask, cur), ask.score[n]})
                                                   ELSE best[n]]
      BY <3>3, <3>4, <3>5
    <3>9. frontier' = RemoveAt(frontier, i) \o SetToSeq({Extend(cur, n) : n \in better})
      BY <3>3, <3>4, <2>r
    <3>10. Pushes(i, cur, better) BY <2>2, <2>8, <3>2, <3>3, <3>7, <3>8, <3>9 DEF Pushes
    <3>11. best' \in [Nodes -> Int] /\ WidestInv' BY <1>1, <3>10, WidestPushes
    <3>6. SearchIsBest' BY <1>1, <3>3 DEF SearchIsBest
    <3> QED BY <1>1, <3>3, <3>11, <3>6 DEF GraphInv
  <2> QED BY <2>6, <2>7, <2>8
<1> QED BY <1>3, <1>4

\* ExposurePath: its answer and its next pass.
LEMMA ShortestKeeps ==
    ASSUME AssetGraphAssumption, GraphInv, StepShortest
    PROVE  GraphInv'
<1>1. /\ ask \in GraphAsks /\ best \in [Nodes -> Int] /\ seen \subseteq Nodes
      /\ ask.kind = "shortest" /\ answer = {} /\ ShortestInv
  BY DEF GraphInv, StepShortest
<1>2. CASE frontier = <<>>
  <2>1. answer' = {<<>>} /\ UNCHANGED <<ask, frontier, best, seen>>
    BY <1>1, <1>2 DEF StepShortest, Answer
  <2>2. To \notin Reachable(ask.rows, Nodes, From) BY <1>1, <1>2, ShortestNone
  <2> QED BY <1>1, <2>1, <2>2, AnswerIsBest
<1>3. CASE frontier # <<>>
  <2>1. PICK cur : cur = Head(frontier) OBVIOUS
  <2>2. PICK fresh : fresh = Neighbours(ask.rows, cur.node) \ seen OBVIOUS
  <2>3. CASE To \in fresh
    <3>1. Answer(Extend(cur, To).path) BY <1>1, <1>3, <2>1, <2>2, <2>3 DEF StepShortest
    <3>2. PICK p : p = Extend(cur, To).path OBVIOUS
    <3>3. answer' = {p} /\ UNCHANGED <<ask, frontier, best, seen>> BY <3>1, <3>2 DEF Answer
    <3>4. To \in Neighbours(ask.rows, cur.node) BY <2>2, <2>3
    <3>5. p # <<>> /\ IsChain(p) /\ To \notin Ball(ask.rows, Nodes, From, Len(p) - 2)
      BY <1>1, <1>3, <2>1, <3>2, <3>4, ShortestFound
    <3> QED BY <1>1, <3>3, <3>5, AnswerIsBest
  <2>4. CASE To \notin fresh
    <3>1. PICK order \in SetToSeqs(fresh) :
            /\ frontier' = Tail(frontier) \o [i \in DOMAIN order |-> Extend(cur, order[i])]
            /\ seen' = seen \cup fresh
            /\ UNCHANGED <<ask, best, answer>>
      BY <1>1, <1>3, <2>1, <2>2, <2>4 DEF StepShortest
    <3>2. Advance(cur, fresh, Len(frontier) - 1, Len(order))
      BY <1>1, <1>3, <2>1, <2>2, <2>4, <3>1, QueueMoves
    <3>3. PICK n : n = Len(frontier) - 1 OBVIOUS
    <3>4. PICK k : k = Len(order) OBVIOUS
    <3>5. Advance(cur, fresh, n, k) BY <3>2, <3>3, <3>4
    <3>6. ShortestInv' BY <1>1, <3>5, QueueAdvances
    <3>7. SearchIsBest' BY <1>1, <3>1 DEF SearchIsBest
    <3>8. seen' \subseteq Nodes BY <3>6 DEF ShortestInv
    <3> QED BY <1>1, <3>1, <3>6, <3>7, <3>8 DEF GraphInv
  <2> QED BY <2>3, <2>4
<1> QED BY <1>2, <1>3

\* Graph: its answer and its next depth.
LEMMA AroundKeeps ==
    ASSUME AssetGraphAssumption, GraphInv, StepAround
    PROVE  GraphInv'
<1>1. /\ ask \in GraphAsks /\ best \in [Nodes -> Int] /\ seen \subseteq Nodes
      /\ ask.kind = "around" /\ answer = {} /\ AroundInv
  BY DEF GraphInv, StepAround
<1>2. From \in Nodes BY <1>1, NearIs
<1>p. PICK p : p = best[From] OBVIOUS
<1>3. CASE p >= Depth \/ frontier = {}
  <2>1. Answer(Kept(seen \ frontier)) BY <1>1, <1>3, <1>p DEF StepAround
  <2>2. PICK a : a = Kept(seen \ frontier) OBVIOUS
  <2>3. answer' = {a} /\ UNCHANGED <<ask, frontier, best, seen>> BY <2>1, <2>2 DEF Answer
  <2>4. seen \ frontier = Near(Depth - 1) BY <1>1, <1>3, <1>p, AroundFound
  <2>5. Depth = IF ask.depth = 0 THEN 2 ELSE ask.depth BY <1>1, DepthIs
  <2>6. a = Kept(Ball(ask.rows, Nodes, From, (IF ask.depth = 0 THEN 2 ELSE ask.depth) - 1))
    BY <2>2, <2>4, <2>5 DEF Near
  <2> QED BY <1>1, <2>3, <2>6, AnswerIsBest
<1>4. CASE ~(p >= Depth \/ frontier = {})
  <2>1. PICK next : next = (UNION Kept(frontier)) \ seen OBVIOUS
  <2>2. /\ frontier' = next /\ seen' = seen \cup next
        /\ best' = [best EXCEPT ![From] = best[From] + 1]
        /\ UNCHANGED <<ask, answer>>
    BY <1>1, <1>4, <1>p, <2>1 DEF StepAround
  <2>3. p \in Nat /\ p <= Depth /\ seen = Near(p) BY <1>1, <1>p DEF AroundInv
  <2>4. Depth \in Nat BY <1>1, DepthIs
  <2>5. next = Near(p + 1) \ Near(p)
    <3>1. ~(best[From] >= Depth) BY <1>4, <1>p
    <3>2. next = Near(best[From] + 1) \ Near(best[From]) BY <1>1, <2>1, <3>1, AroundNext
    <3> QED BY <3>2, <1>p
  <2>6. Near(p) \subseteq Near(p + 1) /\ Near(p + 1) \subseteq Nodes
    <3>1. p + 1 \in Nat BY <2>3
    <3> QED BY <1>1, <2>3, <3>1, NearIs
  <2>7. seen' = Near(p + 1) BY <2>2, <2>3, <2>5, <2>6
  <2>8. best' \in [Nodes -> Int] /\ best'[From] = p + 1
    BY <1>1, <1>2, <1>p, <2>2, <2>3
  <2>9. From' = From /\ Depth' = Depth BY <2>2 DEF From, Depth
  <2>10. \A k : Near(k)' = Near(k) BY <2>2, <2>9 DEF Near
  <2>11. p + 1 \in Nat /\ p + 1 # 0 /\ p + 1 <= Depth /\ (p + 1) - 1 = p BY <1>4, <2>3, <2>4
  <2>12. PICK q : q = p + 1 OBVIOUS
  <2>13. /\ best'[From'] = q /\ q \in Nat /\ q # 0 /\ q <= Depth' /\ seen' = Near(q)'
         /\ frontier' = Near(q)' \ Near(q - 1)'
    BY <2>2, <2>5, <2>7, <2>8, <2>9, <2>10, <2>11, <2>12
  <2>14. AroundInv' BY <2>13 DEF AroundInv
  <2>15. SearchIsBest' BY <1>1, <2>2 DEF SearchIsBest
  <2>16. seen' \subseteq Nodes BY <2>6, <2>7
  <2> QED BY <1>1, <2>2, <2>8, <2>14, <2>15, <2>16 DEF GraphInv
<1> QED BY <1>3, <1>4

\* No step of a search, and no other step, disturbs it.
LEMMA GraphSteps ==
    ASSUME AssetGraphAssumption, GraphInv, [GraphNext]_graphVars
    PROVE  GraphInv'
<1>1. CASE PopWidest BY <1>1, PopKeeps
<1>2. CASE StepShortest BY <1>2, ShortestKeeps
<1>3. CASE StepAround BY <1>3, AroundKeeps
<1>4. CASE UNCHANGED graphVars
  <2>1. UNCHANGED <<ask, frontier, best, seen, answer>> BY <1>4 DEF graphVars
  <2>2. From' = From /\ To' = To /\ Depth' = Depth BY <2>1 DEF From, To, Depth
  <2>3. \A k : Near(k)' = Near(k) BY <2>1, <2>2 DEF Near
  <2>4. \A n : Relaxed(n)' = Relaxed(n) BY <2>1, <2>2 DEF Relaxed
  <2>5. \A s : Kept(s)' = Kept(s) BY <2>1 DEF Kept
  <2>6. \A p : IsChain(p)' = IsChain(p) BY <2>1, <2>2 DEF IsChain
  <2>7. WidestInv => WidestInv' BY <2>1, <2>2, <2>4 DEF WidestInv
  <2>c. \A n : Closed(n)' = Closed(n) BY <2>1 DEF Closed
  <2>8. ShortestInv => ShortestInv' BY <2>1, <2>2, <2>3, <2>c DEF ShortestInv
  <2>9. AroundInv => AroundInv' BY <2>1, <2>2, <2>3 DEF AroundInv
  <2>10. SearchIsBest => SearchIsBest' BY <2>1, <2>2, <2>5, <2>6 DEF SearchIsBest
  <2> QED BY <2>1, <2>7, <2>8, <2>9, <2>10 DEF GraphInv
<1> QED BY <1>1, <1>2, <1>3, <1>4 DEF GraphNext

\* The invariant of the three searches, for every graph, every score and every
\* depth (attackpath maxMinRiskPath, correlation ExposurePath and Graph).
THEOREM GraphInductive == GraphSpec => []GraphInv
<1>1. GraphInit => GraphInv BY AssetGraphAssumption, GraphStarts
<1>2. GraphInv /\ [GraphNext]_graphVars => GraphInv' BY AssetGraphAssumption, GraphSteps
<1> QED BY <1>1, <1>2, PTL DEF GraphSpec

LEMMA GraphIsTyped == ASSUME GraphInv PROVE GraphTypeOK
<1>1. Cardinality(answer) <= 1
  <2>1. CASE answer = {} BY <2>1, FS_EmptySet
  <2>2. ASSUME NEW a \in answer, answer = {a} PROVE Cardinality(answer) <= 1
    <3>1. Cardinality({a}) = 1 BY FS_Singleton
    <3> QED BY <3>1, <2>2
  <2> QED BY <2>1, <2>2 DEF GraphInv
<1> QED BY <1>1 DEF GraphInv, GraphTypeOK

\* A search keeps to its nodes and answers once.
THEOREM GraphTypes == GraphSpec => []GraphTypeOK
<1>1. GraphInv => GraphTypeOK BY GraphIsTyped
<1> QED BY <1>1, GraphInductive, PTL

\* Every answer is the best one: the path's weakest asset is as risky as
\* connectivity allows, the chain between two assets is as short as their
\* distance, the subgraph has the rows closer than the depth, and no answer
\* means no connection (attackpath/engine.go, correlation/engine.go).
THEOREM SearchIsAlwaysBest == GraphSpec => []SearchIsBest
<1>1. GraphInv => SearchIsBest BY DEF GraphInv
<1> QED BY <1>1, GraphInductive, PTL

-----------------------------------------------------------------------------
\* What a rebuild or a run of the change detection writes is what the data
\* calls for, when nothing else wrote beside it (the engines' RecomputeOrg,
\* changedetect diffAndPersist).
THEOREM EnginesAreAlwaysExact == RebuildSpec /\ DetectionSpec => EnginesAreExact
BY RebuildsAreExact, NoPhantomsEver DEF EnginesAreExact

\* The engines over the inventory, the accounts and the admission of requests,
\* each taken by itself, are of their types in every state.
THEOREM DataTypes == DataSpec => []DataTypeOK
<1> DEFINE all == <<part, graphVars, rebuildVars, detectionVars, accountsVars, admissionVars>>
<1>1. /\ DataInit => part \in Parts
      /\ DataInit /\ part = "graph" => GraphInit
      /\ DataInit /\ part = "rebuild" => RebuildInit
      /\ DataInit /\ part = "changes" => DetectionInit
      /\ DataInit /\ part = "accounts" => AccountsInit
      /\ DataInit /\ part = "admission" => AdmissionInit
   BY DEF DataInit
<1>2. /\ [DataNext]_all => part' = part
      /\ part = "graph" /\ [DataNext]_all => [GraphNext]_graphVars
      /\ part = "rebuild" /\ [DataNext]_all => [RebuildNext]_rebuildVars
      /\ part = "changes" /\ [DataNext]_all => [DetectionNext]_detectionVars
      /\ part = "accounts" /\ [DataNext]_all => [AccountsNext]_accountsVars
      /\ part = "admission" /\ [DataNext]_all => [AdmissionNext]_admissionVars
   BY DEF DataNext
<1>3. DataSpec /\ part = "graph" => []DataTypeOK
   <2>1. GraphInit => GraphInv BY AssetGraphAssumption, GraphStarts
   <2>2. GraphInv /\ [GraphNext]_graphVars => GraphInv' BY AssetGraphAssumption, GraphSteps
   <2>3. GraphInv /\ part = "graph" => DataTypeOK BY GraphIsTyped DEF DataTypeOK, Parts
   <2>4. part = "graph" /\ [DataNext]_all => (part = "graph")' BY <1>2
   <2> QED BY <1>1, <1>2, <2>1, <2>2, <2>3, <2>4, PTL DEF DataSpec
<1>4. DataSpec /\ part = "rebuild" => []DataTypeOK
   <2>1. RebuildTypeOK /\ part = "rebuild" => DataTypeOK BY DEF DataTypeOK, Parts
   <2>2. part = "rebuild" /\ [DataNext]_all => (part = "rebuild")' BY <1>2
   <2> QED BY <1>1, <1>2, <2>1, <2>2, RebuildTypes, PTL DEF DataSpec, RebuildSpec
<1>5. DataSpec /\ part = "changes" => []DataTypeOK
   <2>1. DetectionTypeOK /\ part = "changes" => DataTypeOK BY DEF DataTypeOK, Parts
   <2>2. part = "changes" /\ [DataNext]_all => (part = "changes")' BY <1>2
   <2> QED BY <1>1, <1>2, <2>1, <2>2, DetectionTypes, PTL DEF DataSpec, DetectionSpec
<1>6. DataSpec /\ part = "accounts" => []DataTypeOK
   <2>1. AccountsTypeOK /\ part = "accounts" => DataTypeOK BY DEF DataTypeOK, Parts
   <2>2. part = "accounts" /\ [DataNext]_all => (part = "accounts")' BY <1>2
   <2> QED BY <1>1, <1>2, <2>1, <2>2, AccountsTypes, PTL DEF DataSpec, AccountsSpec
<1>7. DataSpec /\ part = "admission" => []DataTypeOK
   <2>1. AdmissionTypeOK /\ part = "admission" => DataTypeOK BY DEF DataTypeOK, Parts
   <2>2. part = "admission" /\ [DataNext]_all => (part = "admission")' BY <1>2
   <2> QED BY <1>1, <1>2, <2>1, <2>2, AdmissionTypes, PTL DEF DataSpec, AdmissionSpec
<1>8. part \in Parts =>
         \/ part = "graph" \/ part = "rebuild" \/ part = "changes"
         \/ part = "accounts" \/ part = "admission"
   BY DEF Parts
<1> QED BY <1>1, <1>3, <1>4, <1>5, <1>6, <1>7, <1>8, PTL DEF DataSpec
=============================================================================
