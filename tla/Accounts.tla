------------------------------ MODULE Accounts ------------------------------
(***************************************************************************)
(* One user account under concurrent requests: internal/api/handlers/      *)
(* auth.go behind internal/api/middleware/middleware.go. A request goes on *)
(* by one database or Redis statement at a time with what it read in the   *)
(* user row, so others come in between; nothing here is in a transaction   *)
(* but the two inserts of a registration.                                  *)
(*                                                                         *)
(* A session token, an emailed link and a TOTP secret are known by the     *)
(* request that made them, or as First, there from the start. Passwords    *)
(* are right or wrong, codes right: what the properties are about is when  *)
(* the answer takes effect. Administration, API keys, the audit log and    *)
(* the expiry of tokens are left out. A Redis that cannot be reached lets  *)
(* tokens pass and forgets revocations.                                    *)
(***************************************************************************)
EXTENDS Naturals, FiniteSets

CONSTANTS Requests,
          First,          \* what was there before the requests
          NoOne,          \* no token, link or secret
          Mixes,          \* what the requests may ask for, side by side
          MaxAttempts,    \* wrong passwords that lock: 5
          MaxLapses     \* bound: statements that fail

VARIABLES mail,       \* an active SMTP configuration
          user,       \* the row in users
          links,      \* password_reset_tokens and email_verification_tokens
          tokens,     \* session tokens handed out
          revoked,    \* keys rayyan:revoked:*
          call,       \* what each request asks for
          req,        \* where it is
          lapses,
          broken,     \* history: requests with a failed statement
          stale,      \* history: requests that wrote after what they read had changed
          strikes,    \* history: wrong passwords since the last fresh start
          effects     \* history: requests that a link let change the account

accountsVars ==
    <<mail, user, links, tokens, revoked, call, req, lapses, broken, stale, strikes, effects>>

-----------------------------------------------------------------------------
Inside == {"logout", "change", "enable", "code", "disable"}
Calls == Inside \cup {"register", "right password", "wrong password", "refresh",
                      "forgot", "reset", "resend", "verify"}
Kinds == {"access", "refresh", "pending"}
Makers == Requests \cup {First}

NoUser == [exists |-> FALSE, verified |-> FALSE, attempts |-> 0, locked |-> FALSE,
           mfa |-> FALSE, secret |-> NoOne]
Waiting == [pc |-> "new", saw |-> NoUser, token |-> <<NoOne, "access">>, link |-> NoOne,
            late |-> FALSE]
LinkUse(c) == IF c \in {"forgot", "reset"} THEN "reset" ELSE "verify"
ValidLinks(use) == {l \in Makers : links[l] = [use |-> use, state |-> "valid"]}

ReqAt(r, pc) == req[r].pc = pc
Go(r, pc) == req' = [req EXCEPT ![r].pc = pc]
Reply(r) == Go(r, "done")
Works == UNCHANGED <<lapses, broken>>
Fails(r) ==
    /\ lapses < MaxLapses /\ lapses' = lapses + 1
    /\ broken' = broken \cup {r}
Outdated(r, changed) == stale' = IF changed THEN stale \cup {r} ELSE stale

\* Revocations a logout or a change of password was answered with.
Ended == {req[r].token : r \in {r \in Requests \ broken :
                                   call[r] \in {"logout", "change"} /\ ReqAt(r, "done")}}

\* First and NoOne are no requests; a lock takes more than one wrong password.
ASSUME AccountsAssumption ==
    /\ IsFiniteSet(Requests) /\ First \notin Requests /\ NoOne \notin Makers
    /\ Mixes \subseteq [Requests -> Calls]
    /\ MaxAttempts \in Nat /\ MaxAttempts > 1 /\ MaxLapses \in Nat

-----------------------------------------------------------------------------
\* Register counts the rows of the address, Login, ForgotPassword and
\* ResendVerification load its row: what they go on to do is decided here.
ReadUser(r) ==
    /\ ReqAt(r, "new")
    /\ call[r] \in {"register", "right password", "wrong password", "forgot", "resend"}
    /\ req' = [req EXCEPT ![r].saw = user, ![r].pc =
         CASE call[r] = "register" -> IF user.exists THEN "done" ELSE "create"
           [] call[r] = "forgot"   -> IF user.exists THEN "delete" ELSE "done"
           [] call[r] = "resend"   -> IF user.exists /\ ~user.verified THEN "delete" ELSE "done"
           [] OTHER -> IF ~user.exists \/ ~user.verified \/ user.locked THEN "done"
                       ELSE IF call[r] = "right password" THEN "clear" ELSE "count"]
    /\ UNCHANGED <<mail, user, links, tokens, revoked, call, lapses, broken, stale, strikes, effects>>

\* The middleware looks a token up in Redis; one that is not found, or not
\* looked up, passes. A pending token opens nothing but /auth/mfa/verify.
CheckToken(r) ==
    /\ ReqAt(r, "new") /\ call[r] \in Inside
    /\ \E t \in tokens :
         /\ t[2] = "access" \/ (t[2] = "pending" /\ call[r] = "code")
         /\ \/ t \in revoked /\ Reply(r) /\ Works
            \/ /\ (t \notin revoked /\ Works) \/ (t \in revoked /\ Fails(r))
               /\ req' = [req EXCEPT ![r].pc = "load", ![r].token = t, ![r].late = t \in Ended]
    /\ UNCHANGED <<mail, user, links, tokens, revoked, call, stale, strikes, effects>>

\* It loads the row; the handler then works with that copy. VerifyMFA ends a
\* login that waits for the code here, or asks for a secret first.
LoadUser(r) ==
    LET pending == req[r].token[2] = "pending" IN
    /\ ReqAt(r, "load")
    /\ req' = [req EXCEPT ![r].saw = user, ![r].pc =
         CASE ~user.verified -> "done"
           [] call[r] = "logout" -> "revoke"
           [] call[r] = "code" /\ user.secret = NoOne -> "done"
           [] call[r] = "code" /\ pending -> "revoke"
           [] OTHER -> "apply"]
    /\ tokens' = IF call[r] = "code" /\ pending /\ req'[r].pc = "revoke"
                 THEN tokens \cup {<<r, "access">>, <<r, "refresh">>} ELSE tokens
    /\ UNCHANGED <<mail, user, links, revoked, call, lapses, broken, stale, strikes, effects>>

-----------------------------------------------------------------------------
\* The count one wrong password too low: from the row as it was read (mutant).
CountWrongAsRead(r) ==
    /\ ReqAt(r, "count")
    /\ user' = [user EXCEPT !.attempts = req[r].saw.attempts + 1] /\ strikes' = strikes + 1
    /\ Go(r, IF user'.attempts >= MaxAttempts THEN "lock" ELSE "done") /\ Works
    /\ UNCHANGED <<mail, links, tokens, revoked, call, stale, effects>>

\* Login: a wrong password adds one in the database and reads the sum back.
CountWrong(r) ==
    /\ ReqAt(r, "count")
    /\ \/ /\ user' = [user EXCEPT !.attempts = @ + 1] /\ strikes' = strikes + 1
          /\ Go(r, IF user'.attempts >= MaxAttempts THEN "lock" ELSE "done") /\ Works
       \/ Fails(r) /\ Reply(r) /\ UNCHANGED <<user, strikes>>
    /\ UNCHANGED <<mail, links, tokens, revoked, call, stale, effects>>

Lock(r) ==
    /\ ReqAt(r, "lock") /\ Reply(r)
    /\ \/ Works /\ user' = [user EXCEPT !.attempts = 0, !.locked = TRUE] /\ strikes' = 0
       \/ Fails(r) /\ UNCHANGED <<user, strikes>>
    /\ UNCHANGED <<mail, links, tokens, revoked, call, stale, effects>>

\* A right one starts afresh, whatever happened since the row was read, and
\* gets its tokens; the answer does not depend on the update.
Clear(r) ==
    LET asksCode == req[r].saw.mfa /\ req[r].saw.secret # NoOne IN
    /\ ReqAt(r, "clear") /\ Reply(r)
    /\ \/ Works /\ user' = [user EXCEPT !.attempts = 0, !.locked = FALSE] /\ strikes' = 0
       \/ Fails(r) /\ UNCHANGED <<user, strikes>>
    /\ tokens' = tokens \cup
         (IF asksCode THEN {<<r, "pending">>} ELSE {<<r, "access">>, <<r, "refresh">>})
    /\ UNCHANGED <<mail, links, revoked, call, stale, effects>>

LockExpires ==
    /\ user.locked /\ user' = [user EXCEPT !.locked = FALSE]
    /\ UNCHANGED <<mail, links, tokens, revoked, call, req, lapses, broken, stale, strikes, effects>>

\* RefreshToken: the token it is given is revoked, if Redis is there, and two
\* new ones are made.
Refresh(r) ==
    /\ ReqAt(r, "new") /\ call[r] = "refresh" /\ Reply(r)
    /\ \E t \in {t \in tokens : t[2] = "refresh"} :
         \/ Works /\ revoked' = revoked \cup {t}
         \/ Fails(r) /\ UNCHANGED revoked
    /\ tokens' = tokens \cup {<<r, "access">>, <<r, "refresh">>}
    /\ UNCHANGED <<mail, user, links, call, stale, strikes, effects>>

\* Logout of the token in use and of the refresh token sent along, if any;
\* ChangePassword and VerifyMFA revoke the one in use.
Revoke(r) ==
    /\ ReqAt(r, "revoke") /\ Reply(r)
    /\ \E more \in {{}} \cup {{t} : t \in {t \in tokens : t[2] = "refresh" /\ call[r] = "logout"}} :
         \/ Works /\ revoked' = revoked \cup {req[r].token} \cup more
         \/ Fails(r) /\ UNCHANGED revoked
    /\ UNCHANGED <<mail, user, links, tokens, call, stale, strikes, effects>>

-----------------------------------------------------------------------------
\* Register: the unique index lets one of two insert. Without SMTP the address
\* counts as verified.
CreateAccount(r) ==
    /\ ReqAt(r, "create")
    /\ \/ /\ ~user.exists /\ user' = [NoUser EXCEPT !.exists = TRUE] /\ strikes' = 0 /\ Works
          /\ Go(r, IF mail THEN "link" ELSE "apply")
       \/ user.exists /\ Reply(r) /\ Works /\ UNCHANGED <<user, strikes>>
       \/ Fails(r) /\ Reply(r) /\ UNCHANGED <<user, strikes>>
    /\ UNCHANGED <<mail, links, tokens, revoked, call, stale, effects>>

\* ForgotPassword and ResendVerification delete the unused links, whatever
\* comes of it, and then store a new one.
DeleteLinks(r) ==
    /\ ReqAt(r, "delete") /\ Go(r, "link")
    /\ \/ /\ links' = [l \in Makers |-> IF l \in ValidLinks(LinkUse(call[r]))
                                        THEN [links[l] EXCEPT !.state = "gone"] ELSE links[l]]
          /\ Works
       \/ Fails(r) /\ UNCHANGED links
    /\ UNCHANGED <<mail, user, tokens, revoked, call, stale, strikes, effects>>

CreateLink(r) ==
    /\ ReqAt(r, "link") /\ Reply(r)
    /\ \/ /\ links' = [links EXCEPT ![r] = [use |-> LinkUse(call[r]), state |-> "valid"]]
          /\ Outdated(r, ValidLinks(LinkUse(call[r])) # {}) /\ Works
       \/ Fails(r) /\ UNCHANGED <<links, stale>>
    /\ UNCHANGED <<mail, user, tokens, revoked, call, strikes, effects>>

\* ResetPassword and VerifyEmail load the unused, unexpired rows and find the
\* one of the link; they mark it by its id alone, which says nothing of
\* whether it still was unused, and leaves a deleted row as it is.
FindLink(r) ==
    /\ ReqAt(r, "new") /\ call[r] \in {"reset", "verify"}
    /\ \E l \in ValidLinks(LinkUse(call[r])) :
         req' = [req EXCEPT ![r].pc = "mark", ![r].link = l]
    /\ UNCHANGED <<mail, user, links, tokens, revoked, call, lapses, broken, stale, strikes, effects>>

MarkUsed(r) ==
    LET l == req[r].link IN
    /\ ReqAt(r, "mark")
    /\ \/ /\ links' = [links EXCEPT ![l].state = IF @ = "gone" THEN @ ELSE "used"]
          /\ Outdated(r, links[l].state # "valid") /\ Go(r, "apply") /\ Works
       \/ Fails(r) /\ Reply(r) /\ UNCHANGED <<links, stale>>
    /\ UNCHANGED <<mail, user, tokens, revoked, call, strikes, effects>>

LinkExpires(l) ==
    /\ links[l].state = "valid" /\ links' = [links EXCEPT ![l].state = "expired"]
    /\ UNCHANGED <<mail, user, tokens, revoked, call, req, lapses, broken, stale, strikes, effects>>

\* The update of the user row a request is about. EnableMFA stores its secret
\* and VerifyMFA switches on, each by an update of its own column; DisableMFA
\* writes both.
Updated(r) ==
    CASE call[r] \in {"verify", "register"} -> [user EXCEPT !.verified = TRUE]
      [] call[r] = "reset"   -> [user EXCEPT !.attempts = 0, !.locked = FALSE]
      [] call[r] = "change"  -> user
      [] call[r] = "enable"  -> [user EXCEPT !.secret = r]
      [] call[r] = "code"    -> [user EXCEPT !.mfa = TRUE]
      [] call[r] = "disable" -> [user EXCEPT !.mfa = FALSE, !.secret = NoOne]
Apply(r) ==
    /\ ReqAt(r, "apply")
    /\ \/ /\ user' = Updated(r) /\ Works
          /\ strikes' = IF call[r] = "reset" THEN 0 ELSE strikes
          /\ effects' = [l \in Makers |-> IF l = req[r].link THEN effects[l] \cup {r} ELSE effects[l]]
          /\ Outdated(r, call[r] = "code" /\ user.secret # req[r].saw.secret)
          /\ Go(r, IF call[r] = "change" THEN "revoke" ELSE "done")
       \/ Fails(r) /\ Reply(r) /\ UNCHANGED <<user, strikes, effects, stale>>
    /\ UNCHANGED <<mail, links, tokens, revoked, call>>

-----------------------------------------------------------------------------
NoLink == [use |-> "reset", state |-> "none"]
OneLink(use) == [l \in Makers |-> IF l = First THEN [use |-> use, state |-> "valid"] ELSE NoLink]

\* An address nobody has registered; an account that waits for its link; and
\* one in use, some wrong passwords ago, with a link to reset its password.
AccountsInit ==
    /\ mail \in BOOLEAN /\ call \in Mixes
    /\ \/ user = NoUser /\ tokens = {} /\ links = [l \in Makers |-> NoLink]
       \/ user = [NoUser EXCEPT !.exists = TRUE] /\ tokens = {} /\ links = OneLink("verify")
       \/ /\ \E secret \in {NoOne, First}, n \in {0, MaxAttempts - 2} :
               user = [NoUser EXCEPT !.exists = TRUE, !.verified = TRUE, !.attempts = n,
                                     !.mfa = secret # NoOne, !.secret = secret]
          /\ tokens = {First} \X {"access", "refresh"} /\ links = OneLink("reset")
    /\ revoked = {} /\ req = [r \in Requests |-> Waiting]
    /\ lapses = 0 /\ broken = {} /\ stale = {}
    /\ strikes = user.attempts /\ effects = [l \in Makers |-> {}]

RequestStep(r) ==
    \/ ReadUser(r) \/ CheckToken(r) \/ LoadUser(r) \/ Refresh(r) \/ FindLink(r)
    \/ CountWrong(r) \/ Lock(r) \/ Clear(r) \/ Revoke(r)
    \/ CreateAccount(r) \/ DeleteLinks(r) \/ CreateLink(r) \/ MarkUsed(r) \/ Apply(r)
AccountsNext ==
    \/ \E r \in Requests : RequestStep(r)
    \/ LockExpires \/ \E l \in Makers : LinkExpires(l)
AccountsSpec == AccountsInit /\ [][AccountsNext]_accountsVars

-----------------------------------------------------------------------------
AccountsTypeOK ==
    /\ mail \in BOOLEAN /\ call \in [Requests -> Calls] /\ lapses \in 0..MaxLapses
    /\ user.attempts \in 0..(MaxAttempts + Cardinality(Requests))
    /\ user.secret \in Makers \cup {NoOne} /\ strikes \in Nat
    /\ revoked \subseteq tokens /\ tokens \subseteq Makers \X Kinds
    /\ broken \cup stale \subseteq Requests /\ effects \in [Makers -> SUBSET Requests]

\* The comment at auth.go:153-154: requests that fail at the same time do not "all read < 5 and
\* skip lockout". With five wrong passwords since the last fresh start, somebody is locking the
\* account, unless a statement failed.
WrongPasswordsLock ==
    strikes >= MaxAttempts => (\E r \in Requests : ReqAt(r, "lock")) \/ broken # {}

\* models.go:857: a link is "single-use, time-limited". It changes the account twice only for a
\* request that had found it before the other marked it; one that is used up has done what it
\* is for, or is about to, or its update failed; and two are good at a time only when two
\* requests for one crossed, or a delete failed.
LinksAreSpent ==
    /\ \A l \in Makers :
         /\ Cardinality(effects[l]) > 1 => effects[l] \cap stale # {}
         /\ links[l].state = "used" /\ effects[l] = {} =>
               \E r \in Requests : req[r].link = l /\ (ReqAt(r, "apply") \/ r \in broken)
    /\ \A use \in {"reset", "verify"} :
         Cardinality(ValidLinks(use)) > 1 => ValidLinks(use) \cap (stale \cup broken) # {}

\* Nobody who registered is left without a way in: an address that is not verified has a link
\* that works, or one under way, unless a statement failed or the link was left to expire.
NobodyIsStranded ==
    user.exists /\ ~user.verified =>
        \/ ValidLinks("verify") # {}
        \/ \E r \in Requests : call[r] \in {"register", "resend", "verify"}
                               /\ req[r].pc \in {"link", "mark", "apply"}
        \/ broken # {} \/ \E l \in Makers : links[l].state = "expired"

\* The second factor is never on without a secret -- Login would not ask for it then -- but for
\* a code that was checked against the secret a DisableMFA removed meanwhile.
SecondFactorIsWhole ==
    user.mfa /\ user.secret = NoOne => \E r \in stale : call[r] = "code"

\* Once a logout or a change of password was answered, its token passes no more, as long as
\* Redis answers.
OutIsOut == \A r \in Requests \ broken : ~req[r].late

AccountsHold ==
    WrongPasswordsLock /\ LinksAreSpent /\ NobodyIsStranded /\ SecondFactorIsWhole /\ OutIsOut
=============================================================================
