------------------------------ MODULE Accounts ------------------------------
(***************************************************************************)
(* Accounts, sessions, invitations and mail tokens: services/auth_service,  *)
(* security/auth, the routes above them and the tables below.               *)
(*                                                                         *)
(* Every request has one database transaction, committed when its handler   *)
(* returns and rolled back when it raises (db/engine.get_db). An action is  *)
(* the code between two statements of it; what a transaction has written    *)
(* shows to others at Commit, and until then it holds the row, or the entry *)
(* of the unique index, that it wrote (held). Tokens, invitations and       *)
(* sessions are drawn at random, so each is named by the request that made  *)
(* it. A refusal changes nothing and ends the request. No code clears       *)
(* is_active or deletes a user, so every account found is active; passwords *)
(* and avatars are left out: a wrong password is a login that never starts. *)
(* A definition marked "Variant" is a wrong version of the one after it,    *)
(* which the runs must notice in its place.                                 *)
(***************************************************************************)
EXTENDS Integers, FiniteSets

CONSTANTS
  Email,      \* addresses; an account has one
  Request,    \* requests
  None,
  Past,       \* requests that ended before the behaviour begins
  PastOp,     \* their operations
  PastEmail,  \* their addresses
  Known,      \* addresses with a verified account at the beginning
  MaxFaults   \* bound on crashes, failed commits, Redis errors and deadlines that pass

Openers == {"login", "accept", "oauth"}   \* they open a session
Mailers == {"resend", "askReset"}         \* they mail a token, at a limited rate
Users == {"use", "invite", "revoke"}      \* they need a session
Op == Openers \cup Mailers \cup Users \cup {"signup", "verify", "reset"}

ASSUME AccountsAssumption ==
  /\ None \notin Request /\ Email # {}
  /\ Past \subseteq Request /\ Known \subseteq Email
  /\ PastOp \in [Past -> {"login", "askReset", "invite", "signup"}]
  /\ PastEmail \in [Past -> Email]
  /\ \A r \in Past : PastOp[r] \in {"login", "askReset"} => PastEmail[r] \in Known
  /\ MaxFaults \in Nat

VARIABLES
  user,    \* rows of users
  token,   \* rows of auth_tokens
  invite,  \* rows of invites
  sess,    \* rows of user_sessions
  held,    \* the request that holds an address's row or index entry
  window,  \* Redis: the counter of mails to an address, and whether it expires
  mailed,  \* tokens that have been mailed
  req,     \* the requests
  ended,   \* history: sessions that a reset or a revocation has ended
  between, \* history: sessions opened between the commits of resets that overlap
  faults

vars == <<user, token, invite, sess, held, window, mailed, req, ended, between, faults>>
rows == <<user, token, invite, sess>>
history == <<ended, between>>

UserRow == [exists : BOOLEAN, verified : BOOLEAN, ver : Nat]
TokenRow == {"none", "valid", "used", "lapsed"}
InviteRow == {"none", "open", "accepted", "lapsed"}
SessionRow == {"none", "live", "revoked"}
Step ==
  {"idle", "limit", "expire", "read", "find", "user", "insert", "flush",
   "auth", "session", "commit", "done", "refused"}

\* What a row of users holds; nothing before the INSERT.
NoUser == [exists |-> FALSE, verified |-> FALSE, ver |-> 0]
\* Variant: nobody is asked to prove an address.
AccountTrusted(verified) == [exists |-> TRUE, verified |-> TRUE, ver |-> 0]
Account(verified) == [exists |-> TRUE, verified |-> verified, ver |-> 0]

Goes(r, pc) == req' = [req EXCEPT ![r].pc = pc]

Init ==
  /\ user = [e \in Email |-> IF e \in Known THEN Account(TRUE)
                            ELSE IF \E r \in Past : PastOp[r] = "signup" /\ PastEmail[r] = e
                            THEN Account(FALSE) ELSE NoUser]
  /\ token = [r \in Request |->
                IF r \in Past /\ PastOp[r] \in {"askReset", "signup"} THEN "valid" ELSE "none"]
  /\ invite = [r \in Request |->
                IF r \in Past /\ PastOp[r] = "invite" THEN "open" ELSE "none"]
  /\ sess = [r \in Request |->
                IF r \in Past /\ PastOp[r] = "login" THEN "live" ELSE "none"]
  /\ held = [e \in Email |-> None]
  /\ window = [e \in Email |-> [n |-> 0, expires |-> FALSE]]
  /\ mailed = {r \in Past : PastOp[r] \in {"askReset", "signup"}}
  /\ req = [r \in Request |->
              IF r \in Past
              THEN [op |-> PastOp[r], pc |-> "done", e |-> PastEmail[r],
                    arg |-> None, ver |-> 0, late |-> FALSE]
              ELSE [op |-> "use", pc |-> "idle", e |-> CHOOSE e \in Email : TRUE,
                    arg |-> None, ver |-> 0, late |-> FALSE]]
  /\ ended = {} /\ between = {} /\ faults = 0

-----------------------------------------------------------------------------
(* A request arrives *)

\* create_access_token: the claims, of which the session and its version matter.
Claims(s) == [sub |-> req[s].e, tv |-> req[s].ver, jti |-> s]
Issued == {s \in Request : req[s].op \in Openers /\ req[s].pc = "done"}
Invited == {s \in Request : req[s].op = "invite" /\ req[s].pc = "done"}
Purpose(t) == IF req[t].op = "askReset" THEN "reset" ELSE "verify"

\* The endpoints, with what their callers can know: an address, a mailed token,
\* an invitation that was answered, an access token.
Start(r, op, e, arg, pc) ==
  /\ req[r].pc = "idle"
  /\ req' = [req EXCEPT ![r] = [op |-> op, pc |-> pc, e |-> e, arg |-> arg,
                                ver |-> 0, late |-> arg \in ended]]
  /\ UNCHANGED <<rows, held, window, mailed, history, faults>>

Arrive(r) ==
  \/ \E op \in {"signup", "login", "oauth"}, e \in Email : Start(r, op, e, None, "read")
  \/ \E op \in Mailers, e \in Email : Start(r, op, e, None, "limit")
  \/ \E i \in Invited : Start(r, "accept", req[i].e, i, "find")
  \/ \E t \in mailed : Start(r, Purpose(t), req[t].e, t, "find")
  \/ \E s \in Issued, op \in {"use", "revoke"} : Start(r, op, req[s].e, s, "auth")
  \/ \E s \in Issued, e \in Email : Start(r, "invite", e, s, "auth")

-----------------------------------------------------------------------------
(* check_email_rate_limit: INCR, and EXPIRE only for the first *)

Count(r) ==
  LET e == req[r].e IN
  /\ req[r].pc = "limit"
  /\ window' = [window EXCEPT ![e].n = IF @ = 2 THEN 2 ELSE @ + 1]  \* 2: more than one
  /\ Goes(r, IF window[e].n = 0 THEN "expire" ELSE "refused")
  /\ UNCHANGED <<rows, held, mailed, history, faults>>

Expire(r) ==
  /\ req[r].pc = "expire"
  /\ window' = [window EXCEPT ![req[r].e].expires = window[req[r].e].n > 0]
  /\ Goes(r, "read")
  /\ UNCHANGED <<rows, held, mailed, history, faults>>

\* A RedisError lets the request pass, after INCR too.
LimitUnknown(r) ==
  /\ req[r].pc \in {"limit", "expire"} /\ faults < MaxFaults
  /\ Goes(r, "read") /\ faults' = faults + 1
  /\ UNCHANGED <<rows, held, window, mailed, history>>

\* Three hundred seconds later.
Elapse(e) ==
  /\ window[e].expires
  /\ window' = [window EXCEPT ![e] = [n |-> 0, expires |-> FALSE]]
  /\ UNCHANGED <<rows, held, mailed, req, history, faults>>

-----------------------------------------------------------------------------
(* What a request reads *)

\* get_by_email, and where the request goes on.
Look(r, op, next) ==
  /\ req[r].pc = "read" /\ req[r].op = op
  /\ Goes(r, next)
  /\ UNCHANGED <<rows, held, window, mailed, history, faults>>

Found(r) == user[req[r].e].exists
Verified(r) == Found(r) /\ user[req[r].e].verified

SignupReads(r) == Look(r, "signup", IF Found(r) THEN "refused" ELSE "insert")
ResendReads(r) == Look(r, "resend", IF Found(r) /\ ~Verified(r) THEN "insert" ELSE "done")
AskReads(r) == Look(r, "askReset", IF Found(r) THEN "insert" ELSE "done")

\* The resets that have read the row and not written it yet.
Resetting(e) ==
  {q \in Request : req[q].op = "reset" /\ req[q].e = e /\ req[q].pc \in {"flush", "commit"}}

\* The version read here goes into the access token. A reset that counted on from
\* an earlier row than this one has yet to write.
LoginReads(r) ==
  LET e == req[r].e IN
  /\ req[r].pc = "read" /\ req[r].op \in {"login", "oauth"}
  /\ req' = [req EXCEPT ![r].ver = user[e].ver,
       ![r].pc = CASE req[r].op = "oauth" -> IF Found(r) THEN "commit" ELSE "insert"
                   [] OTHER -> IF Verified(r) THEN "commit" ELSE "refused"]
  /\ between' = IF \E q \in Resetting(e) : req[q].ver <= user[e].ver
                THEN between \cup {r} ELSE between
  /\ UNCHANGED <<rows, held, window, mailed, ended, faults>>

\* accept_invite: the invitation exists, is not accepted and has not expired.
FindInvite(r) ==
  /\ req[r].pc = "find" /\ req[r].op = "accept"
  /\ Goes(r, IF invite[req[r].arg] = "open" THEN "insert" ELSE "refused")
  /\ UNCHANGED <<rows, held, window, mailed, history, faults>>

\* get_valid: neither used nor expired.
FindToken(r) ==
  /\ req[r].pc = "find" /\ req[r].op \in {"verify", "reset"}
  /\ Goes(r, IF token[req[r].arg] = "valid" THEN "user" ELSE "refused")
  /\ UNCHANGED <<rows, held, window, mailed, history, faults>>

\* The token's user.
VerifyReads(r) ==
  /\ req[r].pc = "user" /\ req[r].op = "verify"
  /\ Goes(r, "flush")
  /\ UNCHANGED <<rows, held, window, mailed, history, faults>>

\* Variant: token_version is not raised.
ResetReadsOnly(r) ==
  /\ req[r].pc = "user" /\ req[r].op = "reset"
  /\ req' = [req EXCEPT ![r].pc = "flush", ![r].ver = user[req[r].e].ver]
  /\ UNCHANGED <<rows, held, window, mailed, history, faults>>

\* The token's user, and its next token_version, counted from the row that was read.
ResetReads(r) ==
  /\ req[r].pc = "user" /\ req[r].op = "reset"
  /\ req' = [req EXCEPT ![r].pc = "flush", ![r].ver = user[req[r].e].ver + 1]
  /\ UNCHANGED <<rows, held, window, mailed, history, faults>>

-----------------------------------------------------------------------------
(* What it writes *)

\* EmailService: three senders, each of which logs a failure and goes on.
Mail(r) == mailed' \in {mailed, mailed \cup {r}}

\* Variant: without the unique index.
InsertAnyway(r) ==
  /\ req[r].pc = "insert" /\ req[r].op \notin Mailers
  /\ held[req[r].e] = None
  /\ Goes(r, "commit")
  /\ held' = [held EXCEPT ![req[r].e] = r]
  /\ IF req[r].op = "signup" THEN Mail(r) ELSE UNCHANGED mailed
  /\ UNCHANGED <<rows, window, history, faults>>

\* UserRepository.create: the flush waits for another insert of the address and
\* fails if there is a row by now. signup mails its token before the commit.
Insert(r) ==
  LET taken == user[req[r].e].exists IN
  /\ req[r].pc = "insert" /\ req[r].op \notin Mailers
  /\ held[req[r].e] = None
  /\ Goes(r, IF taken THEN "refused" ELSE "commit")
  /\ held' = IF taken THEN held ELSE [held EXCEPT ![req[r].e] = r]
  /\ IF req[r].op = "signup" /\ ~taken THEN Mail(r) ELSE UNCHANGED mailed
  /\ UNCHANGED <<rows, window, history, faults>>

\* AuthTokenRepository.create for resend and askReset, and the mail.
InsertToken(r) ==
  /\ req[r].pc = "insert" /\ req[r].op \in Mailers
  /\ Goes(r, "commit") /\ Mail(r)
  /\ UNCHANGED <<rows, held, window, history, faults>>

\* mark_used flushes the changed user first, which waits for the row's holder.
Flush(r) ==
  /\ req[r].pc = "flush" /\ held[req[r].e] = None
  /\ held' = [held EXCEPT ![req[r].e] = r]
  /\ Goes(r, "commit")
  /\ UNCHANGED <<rows, window, mailed, history, faults>>

SessionsOf(e) == {s \in Request : sess[s] # "none" /\ req[s].e = e}

\* The commit of a request: its row or index entry is free again.
Commits(r, op) ==
  /\ req[r].pc = "commit" /\ req[r].op = op
  /\ Goes(r, "done")
  /\ held' = [e \in Email |-> IF held[e] = r THEN None ELSE held[e]]
  /\ UNCHANGED <<window, mailed, faults>>

SignupCommits(r) ==
  /\ Commits(r, "signup")
  /\ user' = [user EXCEPT ![req[r].e] = Account(FALSE)]
  /\ token' = [token EXCEPT ![r] = "valid"]
  /\ UNCHANGED <<invite, sess, history>>

LoginCommits(r) ==
  /\ Commits(r, "login")
  /\ sess' = [sess EXCEPT ![r] = "live"]
  /\ UNCHANGED <<user, token, invite, history>>

InviteCommits(r) ==
  /\ Commits(r, "invite")
  /\ invite' = [invite EXCEPT ![r] = "open"]
  /\ UNCHANGED <<user, token, sess, history>>

\* The account, the invitation and a session at once.
AcceptCommits(r) ==
  /\ Commits(r, "accept")
  /\ user' = [user EXCEPT ![req[r].e] = Account(TRUE)]
  /\ invite' = [invite EXCEPT ![req[r].arg] = "accepted"]
  /\ sess' = [sess EXCEPT ![r] = "live"]
  /\ UNCHANGED <<token, history>>

VerifyCommits(r) ==
  /\ Commits(r, "verify")
  /\ user' = [user EXCEPT ![req[r].e].verified = TRUE]
  /\ token' = [token EXCEPT ![req[r].arg] = "used"]
  /\ UNCHANGED <<invite, sess, history>>

\* resend_verification_email and request_password_reset.
TokenCommits(r) ==
  /\ Commits(r, "resend") \/ Commits(r, "askReset")
  /\ token' = [token EXCEPT ![r] = "valid"]
  /\ UNCHANGED <<user, invite, sess, history>>

ResetCommits(r) ==
  /\ Commits(r, "reset")
  /\ user' = [user EXCEPT ![req[r].e].ver = req[r].ver]
  /\ token' = [token EXCEPT ![req[r].arg] = "used"]
  /\ ended' = ended \cup SessionsOf(req[r].e)
  /\ UNCHANGED <<invite, sess, between>>

\* A session of the account found, or of the one inserted.
OauthCommits(r) ==
  /\ Commits(r, "oauth")
  /\ user' = IF held[req[r].e] = r THEN [user EXCEPT ![req[r].e] = Account(TRUE)] ELSE user
  /\ sess' = [sess EXCEPT ![r] = "live"]
  /\ UNCHANGED <<token, invite, history>>

-----------------------------------------------------------------------------
(* Requests of a session: get_current_user, then the handler *)

\* The account exists and its token_version is the token's.
AuthUser(r) ==
  LET c == Claims(req[r].arg) IN
  /\ req[r].pc = "auth"
  /\ Goes(r, IF user[c.sub].exists /\ user[c.sub].ver = c.tv THEN "session" ELSE "refused")
  /\ UNCHANGED <<rows, held, window, mailed, history, faults>>

\* The session has a row that is not revoked.
AuthSession(r) ==
  /\ req[r].pc = "session"
  /\ Goes(r, IF sess[Claims(req[r].arg).jti] # "live" THEN "refused"
             ELSE IF req[r].op = "use" THEN "done" ELSE "commit")
  /\ UNCHANGED <<rows, held, window, mailed, history, faults>>

\* routes/settings.revoke_session: a session of one's own, this one perhaps.
Revoke(r) ==
  /\ req[r].pc = "commit" /\ req[r].op = "revoke"
  /\ \E s \in SessionsOf(req[r].e) :
       /\ sess' = [sess EXCEPT ![s] = "revoked"]
       /\ ended' = ended \cup {s}
  /\ Goes(r, "done")
  /\ UNCHANGED <<user, token, invite, held, window, mailed, between, faults>>

-----------------------------------------------------------------------------
(* Time and faults *)

Lapse(t) ==
  /\ faults < MaxFaults /\ faults' = faults + 1
  /\ \/ token[t] = "valid" /\ token' = [token EXCEPT ![t] = "lapsed"] /\ UNCHANGED invite
     \/ invite[t] = "open" /\ invite' = [invite EXCEPT ![t] = "lapsed"] /\ UNCHANGED token
  /\ UNCHANGED <<user, sess, held, window, mailed, req, history>>

\* A crash or a failed statement: get_db rolls back.
RollBack(r) ==
  /\ req[r].pc \notin {"idle", "done", "refused"} /\ faults < MaxFaults
  /\ Goes(r, "refused") /\ faults' = faults + 1
  /\ held' = [e \in Email |-> IF held[e] = r THEN None ELSE held[e]]
  /\ UNCHANGED <<rows, window, mailed, history>>

Authenticated(r) == AuthUser(r) \/ AuthSession(r) \/ InviteCommits(r) \/ Revoke(r)
Opens(r) == LoginReads(r) \/ LoginCommits(r) \/ OauthCommits(r)
Joins(r) == SignupReads(r) \/ FindInvite(r) \/ Insert(r) \/ SignupCommits(r) \/ AcceptCommits(r)
Mails(r) ==
  \/ Count(r) \/ Expire(r) \/ LimitUnknown(r)
  \/ ResendReads(r) \/ AskReads(r) \/ InsertToken(r) \/ TokenCommits(r)
Redeems(r) ==
  \/ FindToken(r) \/ VerifyReads(r) \/ ResetReads(r) \/ Flush(r)
  \/ VerifyCommits(r) \/ ResetCommits(r)

Next ==
  \/ \E r \in Request :
       \/ Arrive(r) \/ Authenticated(r) \/ Opens(r) \/ Joins(r) \/ Mails(r) \/ Redeems(r)
       \/ RollBack(r) \/ Lapse(r)
  \/ \E e \in Email : Elapse(e)

Spec == Init /\ [][Next]_vars

-----------------------------------------------------------------------------
(* Correctness *)

TypeOK ==
  /\ user \in [Email -> UserRow]
  /\ token \in [Request -> TokenRow] /\ invite \in [Request -> InviteRow]
  /\ sess \in [Request -> SessionRow]
  /\ held \in [Email -> Request \cup {None}]
  /\ window \in [Email -> [n : 0 .. 2, expires : BOOLEAN]]
  /\ mailed \subseteq Request /\ ended \cup between \subseteq Request /\ faults \in 0 .. MaxFaults
  /\ req \in [Request -> [op : Op, pc : Step, e : Email, arg : Request \cup {None},
                          ver : Nat, late : BOOLEAN]]

Passed(r) == req[r].op \in Users /\ req[r].pc \in {"commit", "done"}

\* A reset "kills every session at once" (security/auth): one that a reset or a
\* revocation had ended when a request came does not let it pass, although the version
\* and the row are read one after the other, a login may commit its session after the
\* reset that it did not see, and a late reset may even lower the version again. Two
\* resets that overlap count from the same row, though, so that the second ends no
\* session whose version was read between their commits.
EndedUnlessBetween ==
  \A r \in Request : Passed(r) /\ req[r].late => req[r].arg \in between

\* An invitation makes one account at most, and opens one session: two that accept
\* it at once have both read it as open.
InviteOnce ==
  \A i \in Request :
    Cardinality({r \in Request : req[r].op = "accept" /\ req[r].arg = i
                                   /\ req[r].pc = "done"}) <= 1

\* An account is never verified on its own: a mailed token was used, or it came
\* with an invitation or from an identity provider. No rollback and no rival
\* transaction leaves a verification without its cause.
VerifiedByProof ==
  \A e \in Email \ Known : user[e].verified =>
    \E r \in Request :
      /\ req[r].e = e /\ req[r].pc = "done"
      /\ \/ req[r].op = "verify" /\ token[req[r].arg] = "used"
         \/ req[r].op \in {"accept", "oauth"}
=============================================================================
