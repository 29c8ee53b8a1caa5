--------------------------- MODULE AccountsProofs ---------------------------
(* Theorems about Accounts: ended sessions, invitations and verified addresses,   *)
(* for any number of addresses, requests and faults.                              *)
EXTENDS Accounts, TLAPS, FiniteSetTheorems

ReqRec == [op : Op, pc : Step, e : Email, arg : Request \cup {None}, ver : Nat, late : BOOLEAN]

Types ==
  /\ user \in [Email -> UserRow]
  /\ token \in [Request -> TokenRow]
  /\ sess \in [Request -> SessionRow]
  /\ held \in [Email -> Request \cup {None}]
  /\ mailed \subseteq Request /\ ended \subseteq Request
  /\ req \in [Request -> ReqRec]

\* Where the operation of a request can be, and what it knows there.
Way(r) ==
  /\ req[r].pc = "insert" => req[r].op \in {"signup", "accept", "oauth"} \cup Mailers
  /\ req[r].pc \in {"user", "flush"} => req[r].op \in {"verify", "reset"}
  /\ req[r].pc \in {"auth", "session"} => req[r].op \in Users
  /\ req[r].op \in Users => req[r].pc \in {"idle", "auth", "session", "commit", "done", "refused"}
  /\ req[r].op \in {"verify", "reset", "accept"} =>
       /\ req[r].arg \in Request /\ req[req[r].arg].pc # "idle"
       /\ req[req[r].arg].e = req[r].e
  /\ req[r].op \in {"verify", "reset"} /\ req[r].pc \in {"user", "flush", "commit"} =>
       req[req[r].arg].pc = "done"

\* A version that was not read between two overlapping resets is at most its account's
\* and below what any reset under way will write.
Version(r) ==
  /\ req[r].op = "reset" /\ req[r].pc \in {"flush", "commit"} => req[r].ver > 0
  /\ req[r].op # "reset" /\ r \notin between =>
       /\ req[r].ver <= user[req[r].e].ver
       /\ \A q \in Resetting(req[r].e) : req[r].ver < req[q].ver

\* The account a request has found is still there; one that makes it holds its address.
Presence(r) ==
  /\ req[r].op = "reset" /\ req[r].pc \in {"user", "flush", "commit"} => user[req[r].e].exists
  /\ req[r].op \in Mailers /\ req[r].pc \in {"insert", "commit"} => user[req[r].e].exists
  /\ req[r].op = "accept" /\ req[r].pc = "done" => user[req[r].e].exists
  /\ req[r].op \in {"signup", "accept"} /\ req[r].pc = "commit" => held[req[r].e] = r

\* A request whose session had ended does not get past the check of its row.
Late(r) ==
  /\ req[r].late => req[r].arg \in ended
  /\ req[r].late /\ req[r].pc = "session" =>
       sess[req[r].arg] = "revoked" \/ req[r].arg \in between
  /\ Passed(r) /\ req[r].late => req[r].arg \in between

\* A session that has ended shows it in its row or in its account's version, unless
\* it was opened between two overlapping resets.
Session(s) ==
  /\ sess[s] # "none" => req[s].pc = "done" /\ req[s].op # "reset"
  /\ s \in ended => /\ sess[s] # "none"
                    /\ \/ user[req[s].e].ver > req[s].ver
                       \/ sess[s] = "revoked" \/ s \in between

Token(t) ==
  /\ token[t] # "none" => req[t].pc = "done"
  /\ token[t] = "valid" => user[req[t].e].exists
  /\ t \in mailed => req[t].pc # "idle"

\* The holder of an address is about to commit, and no account is there that it
\* would create.
Holder(e) ==
  /\ held[e] # None =>
       /\ req[held[e]].e = e /\ req[held[e]].pc = "commit" /\ req[held[e]].op \notin Users
       /\ req[held[e]].op \in {"signup", "accept", "oauth"} => ~user[e].exists
  /\ ~user[e].exists => user[e].ver = 0

Cause(e) ==
  user[e].verified =>
    \E r \in Request :
      /\ req[r].e = e /\ req[r].pc = "done"
      /\ \/ req[r].op = "verify" /\ token[req[r].arg] = "used"
         \/ req[r].op \in {"accept", "oauth"}

Accepted(e) == {r \in Request : req[r].op = "accept" /\ req[r].e = e /\ req[r].pc = "done"}
OneAccept == \A e \in Email : \A q, r \in Accepted(e) : q = r

IInv ==
  /\ Types
  /\ \A r \in Request : Way(r) /\ Version(r) /\ Presence(r) /\ Late(r) /\ Session(r) /\ Token(r)
  /\ \A e \in Email : Holder(e)
  /\ \A e \in Email \ Known : Cause(e)
  /\ OneAccept

LEMMA IInit == Init => IInv
<1> SUFFICES ASSUME Init PROVE IInv
  OBVIOUS
<1>1. ASSUME NEW r \in Request
      PROVE  /\ req[r] \in ReqRec /\ req[r].pc \in {"idle", "done"} /\ req[r].ver = 0
             /\ req[r].late = FALSE
             /\ req[r].pc = "idle" => req[r].op = "use" /\ r \notin Past
             /\ r \in Past => req[r].op = PastOp[r] /\ req[r].e = PastEmail[r]
             /\ req[r].op \in {"use", "login", "askReset", "invite", "signup"}
  <2>0. (CHOOSE e \in Email : TRUE) \in Email
    BY AccountsAssumption
  <2>1. req[r] = IF r \in Past
                 THEN [op |-> PastOp[r], pc |-> "done", e |-> PastEmail[r],
                       arg |-> None, ver |-> 0, late |-> FALSE]
                 ELSE [op |-> "use", pc |-> "idle", e |-> CHOOSE e \in Email : TRUE,
                       arg |-> None, ver |-> 0, late |-> FALSE]
    BY DEF Init
  <2>2. r \in Past => PastOp[r] \in {"login", "askReset", "invite", "signup"} /\ PastEmail[r] \in Email
    BY AccountsAssumption
  <2>3. {"login", "askReset", "invite", "signup", "use"} \subseteq Op /\ {"idle", "done"} \subseteq Step
    BY DEF Op, Openers, Mailers, Users, Step
  <2> QED
    BY <2>0, <2>1, <2>2, <2>3 DEF ReqRec
<1>2. Types
  <2>1. req \in [Request -> ReqRec]
    BY <1>1 DEF Init
  <2>2. user \in [Email -> UserRow]
    BY DEF Init, Account, NoUser, UserRow
  <2>3. /\ token \in [Request -> TokenRow] /\ sess \in [Request -> SessionRow]
        /\ mailed \subseteq Request
    BY AccountsAssumption DEF Init, TokenRow, SessionRow
  <2> QED
    BY <2>1, <2>2, <2>3 DEF Types, Init
<1>3. ASSUME NEW e \in Email
      PROVE  /\ held[e] = None /\ user[e].ver = 0
             /\ e \in Known => user[e].exists
             /\ (\E r \in Past : PastOp[r] = "signup" /\ PastEmail[r] = e) => user[e].exists
             /\ e \notin Known => ~user[e].verified
  BY DEF Init, Account, NoUser
<1>4. ended = {}
  BY DEF Init
<1>5. ASSUME NEW r \in Request
      PROVE  /\ sess[r] # "none" => r \in Past /\ PastOp[r] = "login"
             /\ token[r] # "none" => r \in Past /\ PastOp[r] \in {"askReset", "signup"}
             /\ r \in mailed => r \in Past
  BY DEF Init
<1>6. ASSUME NEW r \in Request PROVE Way(r) /\ Version(r) /\ Presence(r) /\ Late(r)
  <2>1. user[req[r].e].ver = 0
    BY <1>1, <1>3 DEF ReqRec
  <2>2. Way(r)
    BY <1>1 DEF Way, Mailers, Users
  <2>3. Version(r) /\ Presence(r)
    <3>1. Version(r)
      <4>1. req[r].op # "reset" /\ req[r].ver = 0
        BY <1>1
      <4>2. Resetting(req[r].e) = {}
        BY <1>1 DEF Resetting
      <4> QED
        BY <2>1, <4>1, <4>2 DEF Version
    <3>2. Presence(r)
      BY <1>1 DEF Presence, Mailers
    <3> QED
      BY <3>1, <3>2
  <2>4. Late(r)
    BY <1>1 DEF Late
  <2> QED
    BY <2>2, <2>3, <2>4
<1>7. ASSUME NEW r \in Request PROVE Session(r) /\ Token(r)
  <2>1. r \in Past => req[r].pc = "done"
    BY <1>1, AccountsAssumption DEF Init
  <2>2. Session(r)
    BY <1>1, <1>4, <1>5, <2>1 DEF Session
  <2>3. token[r] # "none" => user[req[r].e].exists
    <3> SUFFICES ASSUME token[r] # "none" PROVE user[req[r].e].exists
      OBVIOUS
    <3>1. r \in Past /\ PastOp[r] \in {"askReset", "signup"} /\ req[r].e = PastEmail[r]
      BY <1>1, <1>5
    <3>2. PastOp[r] = "askReset" => PastEmail[r] \in Known
      BY <3>1, AccountsAssumption
    <3> QED
      BY <1>3, <3>1, <3>2, AccountsAssumption
  <2> QED
    BY <1>1, <1>5, <2>1, <2>2, <2>3 DEF Token
<1>8. ASSUME NEW e \in Email PROVE Holder(e) /\ (e \notin Known => Cause(e))
  BY <1>3 DEF Holder, Cause
<1>9. OneAccept
  BY <1>1 DEF OneAccept, Accepted
<1> QED
  BY <1>2, <1>6, <1>7, <1>8, <1>9 DEF IInv

\* The state of one request at another point.
LEMMA GoesFields ==
  ASSUME Types, NEW r \in Request, NEW p \in Step, Goes(r, p)
  PROVE  /\ req' \in [Request -> ReqRec]
         /\ req'[r].pc = p /\ req'[r].op = req[r].op /\ req'[r].e = req[r].e
         /\ req'[r].arg = req[r].arg /\ req'[r].ver = req[r].ver /\ req'[r].late = req[r].late
         /\ \A q \in Request \ {r} : req'[q] = req[q]
<1>1. req[r] \in ReqRec
  BY DEF Types
<1> QED
  BY <1>1 DEF Types, Goes, ReqRec

\* What the rows and the other requests may do in a step of request r.
Onward(r) ==
  /\ \A e \in Email : user[e].exists => user'[e].exists
  /\ \A e \in Email : \/ user[e].ver <= user'[e].ver
                       \/ \E q \in Resetting(e) : user'[e].ver = req[q].ver
  /\ ended \subseteq ended'
  /\ between \subseteq between' /\ between' \subseteq between \cup {r}
  /\ \A s \in Request : sess[s] = "revoked" => sess'[s] = "revoked"
  /\ \A q \in Request \ {r} : req'[q] = req[q]
  /\ req[r].pc # "done" /\ req'[r].pc # "idle"
  /\ req[r].pc # "idle" => req'[r].e = req[r].e
  /\ req'[r].op = "reset" /\ req'[r].pc \in {"flush", "commit"} =>
       /\ req'[r].ver > 0 /\ req'[r].e = req[r].e
       /\ \/ r \in Resetting(req[r].e) /\ req'[r].ver = req[r].ver
          \/ req'[r].ver = user[req[r].e].ver + 1

\* What a request has read keeps its place among the versions.
LEMMA Versions ==
  ASSUME IInv, Types', NEW r \in Request, Onward(r), NEW q \in Request,
         req'[q].op = req[q].op, req'[q].e = req[q].e, req'[q].ver = req[q].ver
  PROVE  Version(q)'
<1> DEFINE e == req[q].e
<1>1. /\ Version(q) /\ req[q] \in ReqRec /\ \A z \in Request : req[z] \in ReqRec /\ req'[z] \in ReqRec
  BY DEF IInv, Types
<1>2. /\ e \in Email /\ req[q].ver \in Nat
      /\ \A z \in Request : req[z].ver \in Nat /\ req'[z].ver \in Nat
  BY <1>1 DEF ReqRec
<1>3. user[e].ver \in Nat /\ user'[e].ver \in Nat
  BY <1>2 DEF IInv, Types, UserRow
<1>4. req'[q].op = "reset" /\ req'[q].pc \in {"flush", "commit"} => req'[q].ver > 0
  BY <1>1 DEF Version, Onward
<1>5. ASSUME req[q].op # "reset", q \notin between'
      PROVE  req[q].ver <= user'[e].ver /\ \A z \in Resetting(e)' : req[q].ver < req'[z].ver
  <2>1. q \notin between
    BY <1>5 DEF Onward
  <2>2. req[q].ver <= user[e].ver /\ \A z \in Resetting(e) : req[q].ver < req[z].ver
    BY <1>1, <1>5, <2>1 DEF Version
  <2>3. req[q].ver <= user'[e].ver
    <3>1. \A z \in Resetting(e) : z \in Request
      BY DEF Resetting
    <3> QED
      BY <1>2, <1>3, <2>2, <3>1 DEF Onward
  <2>4. ASSUME NEW z \in Resetting(e)' PROVE req[q].ver < req'[z].ver
    <3>1. /\ z \in Request /\ req'[z].op = "reset" /\ req'[z].pc \in {"flush", "commit"}
          /\ req'[z].e = e
      BY <2>4 DEF Resetting
    <3>2. CASE z # r
      <4>1. req'[z] = req[z] /\ z \in Resetting(e)
        BY <3>1, <3>2 DEF Onward, Resetting
      <4> QED
        BY <2>2, <4>1
    <3>3. CASE z = r
      <4>1. /\ req[r].e = e
            /\ \/ r \in Resetting(e) /\ req'[r].ver = req[r].ver
               \/ req'[r].ver = user[e].ver + 1
        BY <3>1, <3>3 DEF Onward
      <4> QED
        BY <1>2, <1>3, <2>2, <3>3, <4>1
    <3> QED
      BY <3>2, <3>3
  <2> QED
    BY <2>3, <2>4
<1> QED
  BY <1>4, <1>5 DEF Version

LEMMA Others ==
  ASSUME IInv, Types', NEW r \in Request, Onward(r), NEW q \in Request \ {r},
         held[req[q].e] = q => held'[req[q].e] = q
  PROVE  (Way(q) /\ Version(q) /\ Presence(q) /\ Late(q))'
<1>1. Way(q) /\ Version(q) /\ Presence(q) /\ Late(q) /\ req[q] \in ReqRec /\ req'[q] = req[q]
  BY DEF IInv, Types, Onward
<1>2. Way(q)'
  BY <1>1 DEF Way, Onward, ReqRec
<1>3. Version(q)' /\ Presence(q)'
  <2>1. req[q].e \in Email
    BY <1>1 DEF ReqRec
  <2>2. user[req[q].e].exists => user'[req[q].e].exists
    BY <2>1 DEF Onward
  <2>3. Version(q)'
    BY <1>1, Versions
  <2>4. Presence(q)'
    BY <1>1, <2>2 DEF Presence
  <2> QED
    BY <2>3, <2>4
<1>4. Late(q)'
  <2>1. req[q].late => req[q].arg \in Request
    BY <1>1 DEF Late, IInv, Types
  <2>2. ended \subseteq ended' /\ between \subseteq between' /\ (req[q].late /\ sess[req[q].arg] = "revoked" => sess'[req[q].arg] = "revoked")
    BY <2>1 DEF Onward
  <2>3. Passed(q)' <=> Passed(q)
    BY <1>1 DEF Passed
  <2> QED
    BY <1>1, <2>1, <2>2, <2>3 DEF Late
<1> QED
  BY <1>2, <1>3, <1>4

\* A step of request r before its commit: the rows stay as they are.
LEMMA Before ==
  ASSUME IInv, Types', NEW r \in Request, Onward(r),
         UNCHANGED <<user, token, sess, ended>>,
         mailed \subseteq mailed', mailed' \subseteq mailed \cup {r},
         req'[r].pc = "done" => req'[r].op # "accept",
         \A e \in Email : Holder(e)',
         \A e \in Email, q \in Request \ {r} : held[e] = q => held'[e] = q,
         (Way(r) /\ Version(r) /\ Presence(r) /\ Late(r))'
  PROVE  IInv'
<1>0. Types /\ req[r].pc # "done" /\ \A q \in Request \ {r} : req'[q] = req[q]
  BY DEF IInv, Onward
<1>1. ASSUME NEW q \in Request PROVE (Way(q) /\ Version(q) /\ Presence(q) /\ Late(q))'
  <2>1. CASE q = r
    BY <2>1
  <2>2. CASE q # r
    <3>1. req[q].e \in Email
      BY DEF IInv, Types, ReqRec
    <3> QED
      BY <2>2, <3>1, Others
  <2> QED
    BY <2>1, <2>2
<1>2. ASSUME NEW s \in Request PROVE Session(s)' /\ Token(s)'
  <2>1. Session(s) /\ Token(s)
    BY DEF IInv
  <2>2. CASE s = r
    <3>1. sess[r] = "none" /\ token[r] = "none" /\ r \notin ended /\ req'[r].pc # "idle"
      BY <1>0, <2>1, <2>2 DEF Session, Token, Onward
    <3> QED
      BY <2>2, <3>1 DEF Session, Token
  <2>3. CASE s # r
    <3>1. req'[s] = req[s] /\ (s \in mailed' => s \in mailed)
      BY <1>0, <2>3
    <3> QED
      BY <2>1, <3>1 DEF Session, Token, Onward
  <2> QED
    BY <2>2, <2>3
<1>3. ASSUME NEW e \in Email \ Known PROVE Cause(e)'
  <2>1. Cause(e)
    BY DEF IInv
  <2>2. \A q \in Request : req[q].pc = "done" => req'[q] = req[q]
    BY <1>0
  <2> QED
    BY <2>1, <2>2 DEF Cause
<1>4. OneAccept'
  <2>1. ASSUME NEW e \in Email, NEW q \in Accepted(e)' PROVE q \in Accepted(e)
    BY <1>0, <2>1 DEF Accepted
  <2> QED
    BY <2>1 DEF OneAccept, IInv
<1> QED
  BY <1>1, <1>2, <1>3, <1>4 DEF IInv

\* The holders are as they were.
LEMMA SameHolders ==
  ASSUME IInv, NEW r \in Request, Onward(r), UNCHANGED <<user, held>>, req[r].pc # "commit"
  PROVE  \A e \in Email : Holder(e)'
<1> SUFFICES ASSUME NEW e \in Email PROVE Holder(e)'
  OBVIOUS
<1>1. Holder(e) /\ held[e] \in Request \cup {None}
  BY DEF IInv, Types
<1>2. held[e] # None => held[e] # r /\ req'[held[e]] = req[held[e]]
  BY <1>1 DEF Holder, Onward
<1> QED
  BY <1>1, <1>2 DEF Holder

LEMMA NoChange == UNCHANGED <<user, sess, ended, between>> =>
  /\ \A e \in Email : user[e].exists => user'[e].exists
  /\ Types => \A e \in Email : user[e].ver <= user'[e].ver
  /\ ended \subseteq ended' /\ between' = between
  /\ \A s \in Request : sess[s] = "revoked" => sess'[s] = "revoked"
BY DEF Types, UserRow

\* A request only moves on.
LEMMA MovesOn ==
  ASSUME IInv, NEW r \in Request, NEW p \in Step, Goes(r, p),
         UNCHANGED <<user, token, sess, held, ended, between>>,
         mailed' \in {mailed, mailed \cup {r}}, req[r].pc \notin {"idle", "done", "commit"},
         p # "idle", p = "done" => req[r].op # "accept",
         req[r].op = "reset" /\ p \in {"flush", "commit"} => r \in Resetting(req[r].e),
         (Way(r) /\ Presence(r) /\ Late(r))'
  PROVE  IInv'
<1>1. Types /\ mailed' \subseteq Request
  BY DEF IInv, Types
<1>2. Types'
  BY <1>1, GoesFields DEF Types
<1>3. /\ req'[r].pc = p /\ req'[r].op = req[r].op /\ req'[r].e = req[r].e
      /\ req'[r].ver = req[r].ver
  BY <1>1, GoesFields
<1>4. Onward(r)
  <2>1. r \in Resetting(req[r].e) => req[r].ver > 0
    BY DEF IInv, Version, Resetting
  <2>2. \A q \in Request \ {r} : req'[q] = req[q]
    BY <1>1, GoesFields
  <2> QED
    BY <1>1, <1>3, <2>1, <2>2, NoChange DEF Onward
<1>5. \A e \in Email : Holder(e)'
  BY <1>4, SameHolders
<1>6. Version(r)'
  BY <1>2, <1>3, <1>4, Versions
<1> QED
  BY <1>2, <1>3, <1>4, <1>5, <1>6, Before

LEMMA MovesFine ==
  ASSUME IInv, NEW r \in Request, NEW p \in Step, Goes(r, p),
         UNCHANGED <<user, token, sess, held, ended, between>>,
         mailed' \in {mailed, mailed \cup {r}}, req[r].pc \notin {"idle", "done", "commit"},
         p # "idle", p = "done" => req[r].op # "accept",
         p = "insert" => req[r].op \in {"signup", "accept", "oauth"} \cup Mailers,
         p \in {"user", "flush"} => req[r].op \in {"verify", "reset"},
         p \in {"auth", "session"} => req[r].op \in Users,
         req[r].op \in Users => p \in {"session", "commit", "done", "refused"},
         req[r].op = "reset" /\ p \in {"flush", "commit"} => req[r].pc \in {"flush", "commit"},
         req[r].op \in {"verify", "reset"} /\ p \in {"user", "flush", "commit"} =>
           req[req[r].arg].pc = "done",
         req[r].op = "reset" /\ p = "user" => user[req[r].e].exists,
         req[r].op \in Mailers /\ p \in {"insert", "commit"} => user[req[r].e].exists,
         req[r].op \in {"signup", "accept"} => p # "commit",
         req[r].late /\ p = "session" =>
           sess[req[r].arg] = "revoked" \/ req[r].arg \in between,
         req[r].op \in Users /\ p \in {"commit", "done"} /\ req[r].late => req[r].arg \in between
  PROVE  IInv'
<1>1. Types /\ Way(r) /\ Version(r) /\ Presence(r) /\ Late(r) /\ req[r] \in ReqRec
  BY DEF IInv, Types
<1>2. /\ req'[r].pc = p /\ req'[r].op = req[r].op /\ req'[r].e = req[r].e
      /\ req'[r].arg = req[r].arg /\ req'[r].ver = req[r].ver /\ req'[r].late = req[r].late
      /\ \A q \in Request \ {r} : req'[q] = req[q]
  BY <1>1, GoesFields
<1>3. Way(r)'
  <2>1. req[r].op \in {"verify", "reset", "accept"} =>
          /\ req[r].arg \in Request /\ req[req[r].arg].pc # "idle"
          /\ req[req[r].arg].e = req[r].e
    BY <1>1 DEF Way
  <2>2. req[r].op \in {"verify", "reset", "accept"} =>
          /\ req'[req[r].arg].pc # "idle"
          /\ req'[req[r].arg].e = req[r].e
    BY <1>2, <2>1
  <2>3. req[r].op \in {"verify", "reset"} /\ p \in {"user", "flush", "commit"} =>
          req'[req[r].arg].pc = "done"
    BY <1>2, <2>1
  <2> QED
    BY <1>2, <2>1, <2>2, <2>3 DEF Way
<1>4. Presence(r)'
  <2>1. req[r].op = "reset" /\ p \in {"user", "flush", "commit"} => user[req[r].e].exists
    BY <1>1 DEF Presence
  <2> QED
    BY <1>2, <2>1 DEF Presence
<1>5. Late(r)'
  BY <1>1, <1>2 DEF Late, Passed
<1>6. req[r].op = "reset" /\ p \in {"flush", "commit"} => r \in Resetting(req[r].e)
  BY DEF Resetting
<1> QED
  BY <1>3, <1>4, <1>5, <1>6, MovesOn

\* The requests that count, read and mail.
LEMMA IReads ==
  ASSUME IInv, NEW r \in Request,
         \/ Count(r) \/ Expire(r) \/ LimitUnknown(r) \/ SignupReads(r) \/ ResendReads(r)
         \/ AskReads(r) \/ FindInvite(r) \/ FindToken(r) \/ VerifyReads(r) \/ InsertToken(r)
  PROVE  IInv'
<1>1. Types /\ Way(r) /\ Presence(r) /\ req[r] \in ReqRec
  BY DEF IInv, Types
<1> USE DEF rows, history
<1>2. /\ {"expire", "refused", "read", "insert", "done", "user", "flush", "commit"} \subseteq Step
      /\ "resend" \in Mailers /\ "askReset" \in Mailers
      /\ \A op \in Mailers : op \notin {"reset", "signup", "accept", "verify"} \cup Users
      /\ Users \cap {"reset", "signup", "accept", "verify"} = {}
  BY DEF Step, Mailers, Users
<1>3. CASE Count(r) \/ Expire(r) \/ LimitUnknown(r)
  <2>1. PICK p \in {"expire", "refused", "read"} : Goes(r, p)
    BY <1>3 DEF Count, Expire, LimitUnknown
  <2>2. req[r].pc \in {"limit", "expire"} /\ UNCHANGED <<rows, held, mailed, history>>
    BY <1>3 DEF Count, Expire, LimitUnknown
  <2>3. req[r].op \notin Users
    BY <1>1, <2>2 DEF Way
  <2> QED
    BY <1>2, <2>1, <2>2, <2>3, MovesFine
<1>4. CASE SignupReads(r) \/ ResendReads(r) \/ AskReads(r)
  <2>1. PICK p \in {"refused", "done", "insert"} : Goes(r, p)
    BY <1>4 DEF SignupReads, ResendReads, AskReads, Look
  <2>2. /\ req[r].pc = "read" /\ UNCHANGED <<rows, held, mailed, history>>
        /\ req[r].op \in {"signup", "resend", "askReset"}
    BY <1>4 DEF SignupReads, ResendReads, AskReads, Look
  <2>3. req'[r].pc = p
    BY <1>1, <1>2, <2>1, GoesFields
  <2>4. req[r].op \in Mailers /\ p = "insert" => user[req[r].e].exists
    <3>1. ASSUME NEW z \in Step, Goes(r, z) PROVE req'[r].pc = z
      BY <1>1, <3>1, GoesFields
    <3>2. ASSUME ~Found(r), p = "insert", req[r].op \in Mailers PROVE FALSE
      <4>1. Goes(r, "done")
        BY <1>2, <1>4, <3>2 DEF SignupReads, ResendReads, AskReads, Look
      <4> QED
        BY <1>2, <2>3, <3>1, <3>2, <4>1
    <3> QED
      BY <3>2 DEF Found
  <2>5. req[r].op \notin Users
    BY <1>2, <2>2
  <2> QED
    BY <1>2, <2>1, <2>2, <2>4, <2>5, MovesFine
<1>5. CASE FindInvite(r) \/ VerifyReads(r)
  <2>1. PICK p \in {"refused", "insert", "flush"} : Goes(r, p) /\ (p = "flush" <=> req[r].op = "verify")
    BY <1>5 DEF FindInvite, VerifyReads
  <2>2. /\ req[r].pc \in {"find", "user"} /\ UNCHANGED <<rows, held, mailed, history>>
        /\ req[r].op \in {"accept", "verify"} /\ (req[r].op = "verify" => req[r].pc = "user")
    BY <1>5 DEF FindInvite, VerifyReads
  <2>3. req[r].op = "verify" => req[req[r].arg].pc = "done"
    BY <1>1, <2>2 DEF Way
  <2> QED
    BY <1>2, <2>1, <2>2, <2>3, MovesFine
<1>6. CASE FindToken(r)
  <2>1. PICK p \in {"refused", "user"} : Goes(r, p) /\ (p = "user" => token[req[r].arg] = "valid")
    BY <1>6 DEF FindToken
  <2>2. /\ req[r].pc = "find" /\ UNCHANGED <<rows, held, mailed, history>>
        /\ req[r].op \in {"verify", "reset"}
    BY <1>6 DEF FindToken
  <2>3. req[r].arg \in Request /\ req[req[r].arg].e = req[r].e
    BY <1>1, <2>2 DEF Way
  <2>4. p = "user" => user[req[r].e].exists /\ req[req[r].arg].pc = "done"
    BY <2>1, <2>3 DEF IInv, Token
  <2> QED
    BY <1>2, <2>1, <2>2, <2>4, MovesFine
<1>7. CASE InsertToken(r)
  <2>1. /\ req[r].pc = "insert" /\ req[r].op \in Mailers /\ Goes(r, "commit")
        /\ mailed' \in {mailed, mailed \cup {r}} /\ UNCHANGED <<rows, held, history>>
    BY <1>7 DEF InsertToken, Mail
  <2>2. user[req[r].e].exists
    BY <1>1, <2>1 DEF Presence
  <2> QED
    BY <1>2, <2>1, <2>2, MovesFine
<1> QED
  BY <1>3, <1>4, <1>5, <1>6, <1>7

\* The two checks of a session's request.
LEMMA IAuth ==
  ASSUME IInv, NEW r \in Request, AuthUser(r) \/ AuthSession(r)
  PROVE  IInv'
<1>1. Types /\ Way(r) /\ Late(r) /\ req[r] \in ReqRec
  BY DEF IInv, Types
<1> USE DEF rows, history
<1>2. /\ {"session", "refused", "done", "commit"} \subseteq Step
      /\ Users \cap {"reset", "signup", "accept", "verify"} = {} /\ Users \cap Mailers = {}
  BY DEF Step, Mailers, Users
<1>3. CASE AuthUser(r)
  <2>1. /\ req[r].pc = "auth" /\ req[r].op \in Users /\ UNCHANGED <<rows, held, mailed, history>>
    BY <1>1, <1>3 DEF AuthUser, Way
  <2> DEFINE s == req[r].arg
  <2>2. PICK p \in {"session", "refused"} :
          Goes(r, p) /\ (p = "session" => user[req[s].e].ver = req[s].ver)
    BY <1>3 DEF AuthUser, Claims
  <2>3. ASSUME req[r].late, p = "session" PROVE sess[s] = "revoked" \/ s \in between
    <3>1. s \in ended /\ s \in Request
      BY <1>1, <2>3 DEF Late, Types
    <3>2. Session(s) /\ req[s] \in ReqRec
      BY <3>1 DEF IInv, Types
    <3>3. req[s].ver \in Nat
      BY <3>2 DEF ReqRec
    <3>4. user[req[s].e].ver = req[s].ver
      BY <2>2, <2>3
    <3>5. ~(user[req[s].e].ver > req[s].ver)
      BY <3>3, <3>4
    <3> QED
      BY <3>1, <3>2, <3>5 DEF Session
  <2> QED
    BY <1>2, <2>1, <2>2, <2>3, MovesFine
<1>4. CASE AuthSession(r)
  <2>1. /\ req[r].pc = "session" /\ req[r].op \in Users /\ UNCHANGED <<rows, held, mailed, history>>
    BY <1>1, <1>4 DEF AuthSession, Way
  <2>2. PICK p \in {"refused", "done", "commit"} :
          Goes(r, p) /\ (p # "refused" => sess[req[r].arg] = "live")
    BY <1>4 DEF AuthSession, Claims
  <2>3. p # "refused" /\ req[r].late => req[r].arg \in between
    BY <1>1, <2>1, <2>2 DEF Late
  <2> QED
    BY <1>2, <2>1, <2>2, <2>3, MovesFine
<1> QED
  BY <1>3, <1>4

\* A request arrives.
LEMMA IArrive ==
  ASSUME IInv, NEW r \in Request, Arrive(r)
  PROVE  IInv'
<1>1. Types
  BY DEF IInv
<1>2. /\ {"idle", "read", "limit", "find", "auth"} \subseteq Step
      /\ Mailers \cup Users \cup {"signup", "login", "oauth", "accept", "verify", "reset"} \subseteq Op
      /\ (Mailers \cup {"signup", "login", "oauth"}) \cap (Users \cup {"verify", "reset", "accept"}) = {}
      /\ Users \cap {"verify", "reset", "accept"} = {}
  BY DEF Step, Mailers, Users, Op, Openers
<1>3. ASSUME NEW op \in Op, NEW e \in Email, NEW arg \in Request \cup {None}, NEW pc \in Step,
             Start(r, op, e, arg, pc), pc \in {"read", "limit", "find", "auth"},
             pc = "auth" => op \in Users, op \in Users => pc = "auth",
             op \in {"verify", "reset", "accept"} =>
               arg \in Request /\ req[arg].pc # "idle" /\ req[arg].e = e
      PROVE  IInv'
  <2> DEFINE x == [op |-> op, pc |-> pc, e |-> e, arg |-> arg, ver |-> 0, late |-> arg \in ended]
  <2>1. /\ req[r].pc = "idle" /\ req' = [req EXCEPT ![r] = x]
        /\ UNCHANGED <<user, token, sess, held, mailed, ended, between>>
    BY <1>3 DEF Start, rows, history
  <2>2. x \in ReqRec /\ req'[r] = x /\ (\A q \in Request \ {r} : req'[q] = req[q])
        /\ req' \in [Request -> ReqRec]
    BY <1>1, <2>1 DEF Types, ReqRec
  <2>3. Types'
    BY <1>1, <2>1, <2>2 DEF Types
  <2>4. Onward(r)
    BY <1>1, <1>3, <2>1, <2>2, NoChange DEF Onward
  <2>5. \A f \in Email : Holder(f)'
    BY <2>1, <2>4, SameHolders
  <2>6. Way(r)'
    BY <1>2, <1>3, <2>1, <2>2 DEF Way
  <2>7. Version(r)'
    <3>1. user[e].ver \in Nat
      BY <1>1 DEF Types, UserRow
    <3>2. ASSUME NEW q \in Resetting(e)' PROVE req'[q].ver > 0
      <4>1. q \in Request \ {r} /\ req'[q].op = "reset" /\ req'[q].pc \in {"flush", "commit"}
        BY <1>3, <2>2, <3>2 DEF Resetting
      <4> QED
        BY <2>2, <4>1 DEF IInv, Version
    <3>3. req'[r].ver = 0 /\ req'[r].e = e /\ req'[r].pc = pc /\ user'[e].ver >= 0
      BY <2>1, <2>2, <3>1
    <3> QED
      BY <1>3, <3>2, <3>3 DEF Version
  <2>8. Presence(r)'
    BY <1>3, <2>2 DEF Presence
  <2>9. Late(r)'
    BY <1>3, <2>1, <2>2 DEF Late, Passed
  <2> QED
    BY <1>3, <2>1, <2>2, <2>3, <2>4, <2>5, <2>6, <2>7, <2>8, <2>9, Before
<1>4. ASSUME NEW s \in Request PROVE req[s].e \in Email
  BY <1>1 DEF Types, ReqRec
<1>5. CASE \E op \in {"signup", "login", "oauth"}, e \in Email : Start(r, op, e, None, "read")
  BY <1>2, <1>3, <1>5
<1>6. CASE \E op \in Mailers, e \in Email : Start(r, op, e, None, "limit")
  BY <1>2, <1>3, <1>6
<1>7. CASE \E i \in Invited : Start(r, "accept", req[i].e, i, "find")
  <2>1. PICK i \in Invited : Start(r, "accept", req[i].e, i, "find")
    BY <1>7
  <2>2. i \in Request /\ req[i].pc # "idle" /\ req[i].e \in Email
    BY <1>4 DEF Invited
  <2> QED
    BY <1>2, <1>3, <2>1, <2>2
<1>8. CASE \E t \in mailed : Start(r, Purpose(t), req[t].e, t, "find")
  <2>1. PICK t \in mailed : Start(r, Purpose(t), req[t].e, t, "find")
    BY <1>8
  <2>2. t \in Request /\ req[t].pc # "idle" /\ req[t].e \in Email
    BY <1>1, <1>4 DEF Types, IInv, Token
  <2>3. Purpose(t) \in {"reset", "verify"}
    BY DEF Purpose
  <2> QED
    BY <1>2, <1>3, <2>1, <2>2, <2>3
<1>9. CASE \E s \in Issued, op \in {"use", "revoke"} : Start(r, op, req[s].e, s, "auth")
  <2>1. PICK s \in Issued, op \in {"use", "revoke"} : Start(r, op, req[s].e, s, "auth")
    BY <1>9
  <2>2. s \in Request /\ req[s].e \in Email /\ op \in Users
    BY <1>4 DEF Issued, Users
  <2> QED
    BY <1>2, <1>3, <2>1, <2>2
<1>10. CASE \E s \in Issued, e \in Email : Start(r, "invite", e, s, "auth")
  <2>1. PICK s \in Issued, e \in Email : Start(r, "invite", e, s, "auth")
    BY <1>10
  <2>2. s \in Request /\ "invite" \in Users
    BY DEF Issued, Users
  <2> QED
    BY <1>2, <1>3, <2>1, <2>2
<1> QED
  BY <1>5, <1>6, <1>7, <1>8, <1>9, <1>10 DEF Arrive

\* The two reads that keep the version of the account.
LEMMA IVersion ==
  ASSUME IInv, NEW r \in Request, LoginReads(r) \/ ResetReads(r)
  PROVE  IInv'
<1>1. Types /\ Way(r) /\ Presence(r) /\ Late(r) /\ req[r] \in ReqRec
  BY DEF IInv, Types
<1>2. {"commit", "insert", "refused", "flush"} \subseteq Step
  BY DEF Step
<1> DEFINE v == user[req[r].e].ver
<1>3. v \in Nat /\ req[r].e \in Email
  BY <1>1 DEF Types, ReqRec, UserRow
<1>4. ASSUME NEW p \in Step, NEW n \in Nat, req' = [req EXCEPT ![r].ver = n, ![r].pc = p],
             p # "idle", req[r].pc \notin {"idle", "done", "commit"},
             UNCHANGED <<user, token, sess, held, mailed, ended>>,
             between' \in {between, between \cup {r}}, req[r].op = "reset" => n = v + 1
      PROVE  /\ Types' /\ Onward(r) /\ (\A f \in Email : Holder(f)') /\ req'[r].pc = p
             /\ req'[r].ver = n /\ req'[r].op = req[r].op /\ req'[r].e = req[r].e
             /\ req'[r].arg = req[r].arg /\ req'[r].late = req[r].late
             /\ \A q \in Request \ {r} : req'[q] = req[q]
  <2> DEFINE x == [req[r] EXCEPT !.ver = n, !.pc = p]
  <2>1. /\ x \in ReqRec /\ x.pc = p /\ x.ver = n /\ x.op = req[r].op /\ x.e = req[r].e
        /\ x.arg = req[r].arg /\ x.late = req[r].late
    BY <1>1 DEF ReqRec
  <2>2. req'[r] = x /\ (\A q \in Request \ {r} : req'[q] = req[q])
    BY <1>1, <1>4 DEF Types
  <2>3. req' \in [Request -> ReqRec]
    BY <1>1, <1>4, <2>1 DEF Types
  <2>4. Types'
    BY <1>1, <1>4, <2>3 DEF Types
  <2> HIDE DEF x
  <2>5. Onward(r)
    <3>1. /\ \A e \in Email : user[e].exists => user'[e].exists
          /\ \A e \in Email : user[e].ver <= user'[e].ver
      BY <1>1, <1>4 DEF Types, UserRow
    <3>2. between \subseteq between' /\ between' \subseteq between \cup {r}
      BY <1>4
    <3>3. req[r].op = "reset" => n > 0
      BY <1>3, <1>4
    <3> QED
      BY <1>4, <2>1, <2>2, <3>1, <3>2, <3>3 DEF Onward
  <2> QED
    BY <1>4, <2>1, <2>2, <2>4, <2>5, SameHolders
<1>5. CASE LoginReads(r)
  <2>1. /\ req[r].pc = "read" /\ req[r].op \in {"login", "oauth"}
        /\ UNCHANGED <<user, token, sess, held, mailed, ended>>
        /\ between' \in {between, between \cup {r}}
        /\ r \notin between' => \A q \in Resetting(req[r].e) : ~(req[q].ver <= v)
    BY <1>5 DEF LoginReads, rows
  <2>2. PICK p \in {"commit", "insert", "refused"} :
          /\ req' = [req EXCEPT ![r].ver = v, ![r].pc = p]
          /\ p = "insert" => req[r].op = "oauth"
    BY <1>5 DEF LoginReads
  <2>3. /\ Types' /\ Onward(r) /\ (\A f \in Email : Holder(f)') /\ req'[r].pc = p
        /\ req'[r].ver = v /\ req'[r].op = req[r].op /\ req'[r].e = req[r].e
        /\ req'[r].arg = req[r].arg /\ req'[r].late = req[r].late
        /\ \A q \in Request \ {r} : req'[q] = req[q]
    BY <1>2, <1>3, <1>4, <2>1, <2>2
  <2>4. (Way(r) /\ Presence(r))'
    BY <2>1, <2>2, <2>3 DEF Way, Presence, Mailers, Users
  <2>5. Version(r)'
    <3>1. \A q \in Request : req[q].ver \in Nat
      BY <1>1 DEF Types, ReqRec
    <3>2. ASSUME r \notin between', NEW q \in Resetting(req[r].e)' PROVE v < req'[q].ver
      <4>1. q \in Resetting(req[r].e) /\ req'[q] = req[q]
        BY <2>1, <2>3, <3>2 DEF Resetting
      <4>2. ~(req[q].ver <= v) /\ req[q].ver \in Nat
        BY <2>1, <3>1, <3>2, <4>1 DEF Resetting
      <4> QED
        BY <1>3, <4>1, <4>2
    <3>3. user'[req'[r].e].ver = v
      BY <2>1, <2>3
    <3> QED
      BY <1>3, <2>1, <2>3, <3>2, <3>3 DEF Version
  <2>6. Late(r)'
    <3>1. req[r].op \notin Users
      BY <2>1 DEF Users
    <3> QED
      BY <1>1, <2>1, <2>2, <2>3, <3>1 DEF Late, Passed
  <2> QED
    BY <2>1, <2>2, <2>3, <2>4, <2>5, <2>6, Before
<1>6. CASE ResetReads(r)
  <2>1. /\ req[r].pc = "user" /\ req[r].op = "reset"
        /\ UNCHANGED <<user, token, sess, held, mailed, ended, between>>
        /\ req' = [req EXCEPT ![r].ver = v + 1, ![r].pc = "flush"]
    BY <1>6 DEF ResetReads, rows, history
  <2>2. v + 1 \in Nat
    BY <1>3
  <2>3. /\ Types' /\ Onward(r) /\ (\A f \in Email : Holder(f)') /\ req'[r].pc = "flush"
        /\ req'[r].ver = v + 1 /\ req'[r].op = req[r].op /\ req'[r].e = req[r].e
        /\ req'[r].arg = req[r].arg /\ req'[r].late = req[r].late
        /\ \A q \in Request \ {r} : req'[q] = req[q]
    BY <1>2, <1>4, <2>1, <2>2
  <2>4. Way(r)'
    <3>1. /\ req[r].arg \in Request /\ req[req[r].arg].pc # "idle"
          /\ req[req[r].arg].e = req[r].e /\ req[req[r].arg].pc = "done"
      BY <1>1, <2>1 DEF Way
    <3>2. req'[req[r].arg].pc = "done" /\ req'[req[r].arg].e = req[r].e
      BY <2>1, <2>3, <3>1
    <3> QED
      BY <2>1, <2>3, <3>1, <3>2 DEF Way, Users
  <2>5. Presence(r)'
    <3>1. user[req[r].e].exists
      BY <1>1, <2>1 DEF Presence
    <3> QED
      BY <2>1, <2>3, <3>1 DEF Presence, Mailers
  <2>6. Version(r)'
    BY <1>3, <2>1, <2>3 DEF Version
  <2>7. Late(r)'
    <3>1. req[r].op \notin Users
      BY <2>1 DEF Users
    <3>2. (req[r].late => req[r].arg \in ended') /\ req'[r].late = req[r].late
      BY <1>1, <2>1, <2>3 DEF Late
    <3>3. req'[r].pc = "flush" /\ req'[r].op \notin Users /\ req'[r].arg = req[r].arg
      BY <2>3, <3>1
    <3> QED
      BY <3>2, <3>3 DEF Late, Passed
  <2> QED
    BY <2>1, <2>3, <2>4, <2>5, <2>6, <2>7, Before
<1> QED
  BY <1>5, <1>6

\* An address is taken: by the INSERT of its account or the flush of a changed one.
LEMMA ITakes ==
  ASSUME IInv, NEW r \in Request, Insert(r) \/ Flush(r)
  PROVE  IInv'
<1>1. /\ Types /\ Way(r) /\ Version(r) /\ Presence(r) /\ Late(r) /\ req[r] \in ReqRec
      /\ req[r].e \in Email /\ r # None
  BY AccountsAssumption DEF IInv, Types, ReqRec
<1> USE DEF rows, history
<1>2. {"refused", "commit"} \subseteq Step
  BY DEF Step
<1>3. ASSUME Goes(r, "commit"), held[req[r].e] = None, held' = [held EXCEPT ![req[r].e] = r],
             UNCHANGED <<user, token, sess, ended, between>>,
             mailed' \in {mailed, mailed \cup {r}},
             req[r].pc \in {"insert", "flush"}, req[r].op \notin Mailers \cup Users,
             req[r].op \in {"signup", "accept", "oauth"} => ~user[req[r].e].exists,
             req[r].op \in {"verify", "reset"} => req[r].pc = "flush"
      PROVE  IInv'
  <2>1. /\ req'[r].pc = "commit" /\ req'[r].op = req[r].op /\ req'[r].e = req[r].e
        /\ req'[r].arg = req[r].arg /\ req'[r].ver = req[r].ver /\ req'[r].late = req[r].late
        /\ (\A q \in Request \ {r} : req'[q] = req[q]) /\ req' \in [Request -> ReqRec]
    BY <1>1, <1>2, <1>3, GoesFields
  <2>2. Types'
    <3>1. held' \in [Email -> Request \cup {None}]
      BY <1>1, <1>3 DEF Types
    <3>2. mailed' \subseteq Request
      BY <1>1, <1>3 DEF Types
    <3> QED
      BY <1>1, <1>3, <2>1, <3>1, <3>2 DEF Types
  <2>3. Onward(r)
    <3>1. req[r].op = "reset" => r \in Resetting(req[r].e) /\ req[r].ver > 0
      BY <1>1, <1>3 DEF Resetting, Version
    <3> QED
      BY <1>1, <1>3, <2>1, <3>1, NoChange DEF Onward
  <2>4. held'[req[r].e] = r /\ \A f \in Email \ {req[r].e} : held'[f] = held[f]
    BY <1>1, <1>3 DEF Types
  <2>5. ASSUME NEW f \in Email PROVE Holder(f)'
    <3>1. Holder(f) /\ held[f] \in Request \cup {None}
      BY <1>1 DEF IInv, Types
    <3>2. CASE f = req[r].e
      BY <1>3, <2>1, <2>4, <3>1, <3>2 DEF Holder
    <3>3. CASE f # req[r].e
      <4>1. held'[f] = held[f] /\ (held[f] # None => held[f] # r /\ req'[held[f]] = req[held[f]])
        BY <1>3, <2>1, <2>4, <3>1, <3>3 DEF Holder
      <4> QED
        BY <1>3, <3>1, <4>1 DEF Holder
    <3> QED
      BY <3>2, <3>3
  <2>6. \A f \in Email, q \in Request \ {r} : held[f] = q => held'[f] = q
    BY <1>3, <2>4, AccountsAssumption
  <2>7. Way(r)'
    <3>1. req[r].op \in {"verify", "reset", "accept"} =>
            /\ req[r].arg \in Request /\ req[req[r].arg].pc # "idle"
            /\ req[req[r].arg].e = req[r].e
            /\ req[r].pc = "flush" /\ req[r].op # "accept" => req[req[r].arg].pc = "done"
      BY <1>1 DEF Way
    <3>2. req[r].op \in {"verify", "reset", "accept"} =>
            /\ req'[req[r].arg].pc # "idle" /\ req'[req[r].arg].e = req[r].e
            /\ req[r].pc = "flush" /\ req[r].op # "accept" => req'[req[r].arg].pc = "done"
      BY <1>3, <2>1, <3>1
    <3> QED
      BY <1>3, <2>1, <3>1, <3>2 DEF Way
  <2>8. Version(r)'
    BY <2>1, <2>2, <2>3, Versions
  <2>9. Presence(r)'
    <3>1. req[r].op = "reset" => user[req[r].e].exists
      BY <1>1, <1>3 DEF Presence
    <3> QED
      BY <1>3, <2>1, <2>4, <3>1 DEF Presence
  <2>10. Late(r)'
    BY <1>1, <1>3, <2>1 DEF Late, Passed
  <2> QED
    BY <1>3, <2>1, <2>2, <2>3, <2>5, <2>6, <2>7, <2>8, <2>9, <2>10, Before
<1>4. CASE Insert(r)
  <2>1. /\ req[r].pc = "insert" /\ req[r].op \in {"signup", "accept", "oauth"}
        /\ held[req[r].e] = None /\ UNCHANGED <<user, token, sess, ended, between>>
        /\ mailed' \in {mailed, mailed \cup {r}}
    BY <1>1, <1>4 DEF Insert, Way, Mail
  <2>2. req[r].op \notin Mailers \cup Users
    BY <2>1 DEF Mailers, Users
  <2>3. CASE user[req[r].e].exists
    <3>1. Goes(r, "refused") /\ held' = held
      BY <1>4, <2>3 DEF Insert
    <3> QED
      BY <1>2, <2>1, <2>2, <3>1, MovesFine
  <2>4. CASE ~user[req[r].e].exists
    <3>1. Goes(r, "commit") /\ held' = [held EXCEPT ![req[r].e] = r]
      BY <1>4, <2>4 DEF Insert
    <3> QED
      BY <1>3, <2>1, <2>2, <2>4, <3>1
  <2> QED
    BY <2>3, <2>4
<1>5. CASE Flush(r)
  <2>1. /\ req[r].pc = "flush" /\ req[r].op \in {"verify", "reset"}
        /\ held[req[r].e] = None /\ UNCHANGED <<user, token, sess, ended, between, mailed>>
        /\ Goes(r, "commit") /\ held' = [held EXCEPT ![req[r].e] = r]
    BY <1>1, <1>5 DEF Flush, Way
  <2>2. req[r].op \notin Mailers \cup Users
    BY <2>1 DEF Mailers, Users
  <2> QED
    BY <1>3, <2>1, <2>2
<1> QED
  BY <1>4, <1>5

\* The end of a request: what it held is free, and what it wrote shows.
Ends(r, p) ==
  /\ Goes(r, p) /\ p \in {"done", "refused"}
  /\ req[r].pc \notin {"idle", "done"}
  /\ \/ held' = [e \in Email |-> IF held[e] = r THEN None ELSE held[e]]
     \/ held' = held /\ req[r].op \in Users
  /\ UNCHANGED <<mailed, between>>

LEMMA AtEnd ==
  ASSUME IInv, NEW r \in Request, NEW p, Ends(r, p),
         user' \in [Email -> UserRow], token' \in [Request -> TokenRow],
         sess' \in [Request -> SessionRow], ended' \subseteq Request
  PROVE  /\ Types' /\ p \in Step
         /\ req'[r].pc = p /\ req'[r].op = req[r].op /\ req'[r].e = req[r].e
         /\ req'[r].arg = req[r].arg /\ req'[r].ver = req[r].ver /\ req'[r].late = req[r].late
         /\ \A q \in Request \ {r} : req'[q] = req[q]
         /\ \A e \in Email : held'[e] \in {held[e], None} /\ held'[e] # r
         /\ \A e \in Email, q \in Request \ {r} : held[e] = q => held'[e] = q
<1>1. Types /\ p \in Step /\ r # None
  BY AccountsAssumption DEF IInv, Ends, Step
<1>2. /\ req'[r].pc = p /\ req'[r].op = req[r].op /\ req'[r].e = req[r].e
      /\ req'[r].arg = req[r].arg /\ req'[r].ver = req[r].ver /\ req'[r].late = req[r].late
      /\ (\A q \in Request \ {r} : req'[q] = req[q]) /\ req' \in [Request -> ReqRec]
  BY <1>1, GoesFields DEF Ends
<1>3. /\ \A e \in Email : held'[e] \in {held[e], None} /\ held'[e] # r
      /\ \A e \in Email, q \in Request \ {r} : held[e] = q => held'[e] = q
      /\ held' \in [Email -> Request \cup {None}]
  <2>1. CASE held' = [e \in Email |-> IF held[e] = r THEN None ELSE held[e]]
    BY <1>1, <2>1 DEF Types
  <2>2. CASE held' = held /\ req[r].op \in Users
    <3>1. ASSUME NEW e \in Email PROVE held[e] # r
      BY <1>1, <2>2 DEF IInv, Holder
    <3> QED
      BY <1>1, <2>2, <3>1 DEF Types
  <2> QED
    BY <2>1, <2>2 DEF Ends
<1>4. Types'
  BY <1>1, <1>2, <1>3 DEF Types, Ends
<1> QED
  BY <1>1, <1>2, <1>3, <1>4

LEMMA Ended ==
  ASSUME IInv, NEW r \in Request, NEW p, Ends(r, p), Types', Onward(r),
         user' \in [Email -> UserRow], token' \in [Request -> TokenRow],
         sess' \in [Request -> SessionRow], ended' \subseteq Request,
         req[r].op = "accept" /\ p = "done" => user'[req[r].e].exists,
         req[r].op \in Users /\ p = "done" => req[r].pc = "commit",
         \A s \in Request : Session(s)', \A t \in Request : Token(t)',
         \A e \in Email : held[e] = r \/ (user'[e].exists <=> user[e].exists),
         \A e \in Email : ~user'[e].exists => user'[e].ver = 0,
         \A e \in Email \ Known : Cause(e)',
         OneAccept'
  PROVE  IInv'
<1>1. /\ Types /\ Way(r) /\ Version(r) /\ Presence(r) /\ Late(r) /\ req[r] \in ReqRec
      /\ req[r].e \in Email /\ r # None
  BY AccountsAssumption DEF IInv, Types, ReqRec
<1>2. /\ req'[r].pc = p /\ req'[r].op = req[r].op /\ req'[r].e = req[r].e
      /\ req'[r].arg = req[r].arg /\ req'[r].ver = req[r].ver /\ req'[r].late = req[r].late
      /\ (\A q \in Request \ {r} : req'[q] = req[q])
      /\ (\A e \in Email : held'[e] \in {held[e], None} /\ held'[e] # r)
      /\ (\A e \in Email, q \in Request \ {r} : held[e] = q => held'[e] = q)
  BY AtEnd
<1>3. p \in {"done", "refused"}
  BY DEF Ends
<1>4. ASSUME NEW q \in Request PROVE (Way(q) /\ Version(q) /\ Presence(q) /\ Late(q))'
  <2>1. CASE q # r
    <3>1. req[q].e \in Email
      BY <1>1 DEF Types, ReqRec
    <3> QED
      BY <1>2, <2>1, <3>1, Others
  <2>2. CASE q = r
    <3>1. Way(r)'
      <4>1. req[r].op \in {"verify", "reset", "accept"} =>
              /\ req[r].arg \in Request /\ req[req[r].arg].pc # "idle"
              /\ req[req[r].arg].e = req[r].e
        BY <1>1 DEF Way
      <4>2. req[r].op \in {"verify", "reset", "accept"} =>
              /\ req'[req[r].arg].pc # "idle" /\ req'[req[r].arg].e = req[r].e
        BY <1>2, <1>3, <4>1
      <4> QED
        BY <1>2, <1>3, <4>1, <4>2 DEF Way
    <3>2. Version(r)'
      BY <1>2, Versions
    <3>3. Presence(r)'
      BY <1>2, <1>3 DEF Presence
    <3>4. Late(r)'
      <4>1. req[r].late => req[r].arg \in ended'
        BY <1>1 DEF Late, Onward
      <4>2. req[r].op \in Users /\ p = "done" /\ req[r].late => req[r].arg \in between
        BY <1>1 DEF Late, Passed
      <4>3. between' = between
        BY DEF Ends
      <4> QED
        BY <1>2, <1>3, <4>1, <4>2, <4>3 DEF Late, Passed
    <3> QED
      BY <2>2, <3>1, <3>2, <3>3, <3>4
  <2> QED
    BY <2>1, <2>2
<1>5. ASSUME NEW e \in Email PROVE Holder(e)'
  <2>1. Holder(e) /\ held[e] \in Request \cup {None}
    BY <1>1 DEF IInv, Types
  <2>2. ASSUME held'[e] # None
        PROVE  /\ held'[e] = held[e] /\ req'[held[e]] = req[held[e]]
               /\ (user'[e].exists <=> user[e].exists)
    <3>1. held'[e] = held[e] /\ held[e] # r /\ held[e] \in Request
      BY <1>2, <2>1, <2>2
    <3> QED
      BY <1>2, <3>1
  <2>3. held'[e] # None =>
          /\ req'[held'[e]].e = e /\ req'[held'[e]].pc = "commit" /\ req'[held'[e]].op \notin Users
          /\ req'[held'[e]].op \in {"signup", "accept", "oauth"} => ~user'[e].exists
    BY <2>1, <2>2 DEF Holder
  <2> QED
    BY <2>3 DEF Holder
<1> QED
  BY <1>4, <1>5 DEF IInv

\* A session that its account's version has passed stays behind it, whichever of
\* several resets writes the version.
LEMMA Outlives ==
  ASSUME IInv, Types', NEW r \in Request, Onward(r), NEW s \in Request,
         sess[s] # "none", s \notin between, user[req[s].e].ver > req[s].ver
  PROVE  user'[req[s].e].ver > req[s].ver
<1> DEFINE e == req[s].e
<1>1. /\ e \in Email /\ req[s].ver \in Nat
      /\ \A q \in Resetting(e) : q \in Request /\ req[q].ver \in Nat
  BY DEF IInv, Types, ReqRec, Resetting
<1>2. user[e].ver \in Nat /\ user'[req[s].e].ver \in Nat
  BY <1>1 DEF IInv, Types, UserRow
<1>3. \A q \in Resetting(e) : req[s].ver < req[q].ver
  BY DEF IInv, Session, Version
<1>4. user[e].ver <= user'[req[s].e].ver \/ \E q \in Resetting(e) : user'[req[s].e].ver = req[q].ver
  BY <1>1 DEF Onward
<1> QED
  BY <1>1, <1>2, <1>3, <1>4

\* The sessions, tokens and causes that a step leaves alone.
LEMMA KeepsSessions ==
  ASSUME IInv, Types', NEW r \in Request, Onward(r), UNCHANGED ended,
         \A s \in Request \ {r} : sess'[s] \in {sess[s], "revoked"} /\ (sess[s] = "none" => sess'[s] = "none"),
         sess'[r] # sess[r] => req'[r].pc = "done" /\ req'[r].op # "reset"
  PROVE  \A s \in Request : Session(s)'
<1> SUFFICES ASSUME NEW s \in Request PROVE Session(s)'
  OBVIOUS
<1>1. Session(s) /\ req[s] \in ReqRec /\ req[s].e \in Email /\ req[s].ver \in Nat
  BY DEF IInv, Types, ReqRec
<1>2. CASE s = r
  <2>1. sess[r] = "none" /\ r \notin ended
    BY <1>1, <1>2 DEF Session, Onward
  <2> QED
    BY <1>2, <2>1 DEF Session
<1>3. CASE s # r
  <2>1. /\ req'[s] = req[s] /\ user[req[s].e].ver \in Nat /\ user'[req[s].e].ver \in Nat
        /\ s \in between => s \in between'
    BY <1>1, <1>3 DEF Onward, IInv, Types, UserRow
  <2>2. sess[s] # "none" /\ s \notin between /\ user[req[s].e].ver > req[s].ver =>
          user'[req[s].e].ver > req[s].ver
    BY <1>1, <2>1, Outlives
  <2>3. sess'[s] \in {sess[s], "revoked"} /\ (sess[s] = "none" => sess'[s] = "none")
    BY <1>3
  <2> QED
    BY <1>1, <2>1, <2>2, <2>3 DEF Session
<1> QED
  BY <1>2, <1>3

LEMMA KeepsTokens ==
  ASSUME IInv, Types', NEW r \in Request, Onward(r), mailed' = mailed,
         \A t \in Request \ {r} : token'[t] = token[t] \/ (token'[t] = "used" /\ req[t].pc = "done"),
         token'[r] # token[r] => req'[r].pc = "done" /\ user'[req'[r].e].exists
  PROVE  \A t \in Request : Token(t)'
<1> SUFFICES ASSUME NEW t \in Request PROVE Token(t)'
  OBVIOUS
<1>1. Token(t) /\ req[t].e \in Email
  BY DEF IInv, Types, ReqRec
<1>2. CASE t = r
  <2>1. token[r] = "none" /\ req'[r].pc # "idle"
    BY <1>1, <1>2 DEF Token, Onward
  <2> QED
    BY <1>1, <1>2, <2>1 DEF Token
<1>3. CASE t # r
  <2>1. req'[t] = req[t] /\ (user[req[t].e].exists => user'[req[t].e].exists)
    BY <1>1, <1>3 DEF Onward
  <2>2. token'[t] = token[t] \/ (token'[t] = "used" /\ req[t].pc = "done")
    BY <1>3
  <2> QED
    BY <1>1, <2>1, <2>2 DEF Token
<1> QED
  BY <1>2, <1>3

\* What caused a verification stays, and a request that ends may be another cause.
LEMMA KeepsCauses ==
  ASSUME IInv, NEW r \in Request, Onward(r),
         \A t \in Request : token[t] = "used" => token'[t] = "used",
         NEW e \in Email \ Known,
         user'[e].verified =>
           \/ user[e].verified
           \/ /\ req'[r].e = e /\ req'[r].pc = "done"
              /\ \/ req'[r].op = "verify" /\ token'[req'[r].arg] = "used"
                 \/ req'[r].op \in {"accept", "oauth"}
  PROVE  Cause(e)'
<1>1. Cause(e)
  BY DEF IInv
<1>2. ASSUME NEW q \in Request, req[q].pc = "done" PROVE req'[q] = req[q]
  BY <1>2 DEF Onward
<1>3. ASSUME NEW q \in Request, req[q].op = "verify" PROVE req[q].arg \in Request
  BY <1>3 DEF IInv, Way
<1> QED
  BY <1>1, <1>2, <1>3 DEF Cause

LEMMA KeepsAccepts ==
  ASSUME IInv, NEW r \in Request, Onward(r), req'[r].pc = "done" => req'[r].op # "accept"
  PROVE  OneAccept'
<1>1. ASSUME NEW e \in Email, NEW q \in Accepted(e)' PROVE q \in Accepted(e)
  BY <1>1 DEF Accepted, Onward
<1> QED
  BY <1>1 DEF OneAccept, IInv

\* The end of a request that ends no session: it writes the account of its address,
\* its token or the one it was given, and a session.
LEMMA Writes ==
  ASSUME IInv, NEW r \in Request, NEW p, Ends(r, p), ended' = ended,
         user' \in [Email -> UserRow], \A f \in Email \ {req[r].e} : user'[f] = user[f],
         user'[req[r].e].ver = user[req[r].e].ver,
         user[req[r].e].exists => user'[req[r].e].exists,
         held[req[r].e] = r \/ (user'[req[r].e].exists <=> user[req[r].e].exists),
         user'[req[r].e].verified =>
           \/ user[req[r].e].verified
           \/ /\ p = "done"
              /\ \/ req[r].op = "verify" /\ token'[req[r].arg] = "used"
                 \/ req[r].op \in {"accept", "oauth"},
         token' \in [Request -> TokenRow], sess' \in [Request -> SessionRow],
         \A t \in Request \ {r} : token'[t] = token[t] \/ (token'[t] = "used" /\ req[t].pc = "done"),
         token'[r] # token[r] => p = "done" /\ user'[req[r].e].exists,
         \A s \in Request \ {r} : sess'[s] = sess[s],
         sess'[r] # sess[r] => p = "done" /\ req[r].op # "reset",
         req[r].op = "accept" /\ p = "done" => user'[req[r].e].exists /\ ~user[req[r].e].exists,
         req[r].op \in Users /\ p = "done" => req[r].pc = "commit"
  PROVE  IInv'
<1> DEFINE e == req[r].e
<1>1. /\ Types /\ req[r] \in ReqRec /\ e \in Email /\ req[r].pc \notin {"idle", "done"}
      /\ p \in {"done", "refused"}
  BY DEF IInv, Types, ReqRec, Ends
<1>2. \A f \in Email \ {e} : user'[f] = user[f]
  OBVIOUS
<1>3. /\ Types' /\ req'[r].pc = p /\ req'[r].op = req[r].op /\ req'[r].e = req[r].e
      /\ req'[r].arg = req[r].arg /\ (\A q \in Request \ {r} : req'[q] = req[q])
  BY <1>1, <1>2, AtEnd DEF Types
<1>4. /\ \A f \in Email : user[f].exists => user'[f].exists
      /\ \A f \in Email : held[f] = r \/ (user'[f].exists <=> user[f].exists)
  BY <1>1, <1>2
<1>5. \A f \in Email : user'[f].ver = user[f].ver
  BY <1>1, <1>2
<1>6. \A f \in Email : user[f].ver <= user'[f].ver
  <2>1. \A f \in Email : user[f].ver \in Nat
    BY <1>1 DEF Types, UserRow
  <2> QED
    BY <1>5, <2>1
<1>7. \A s \in Request : sess[s] = "revoked" => sess'[s] = "revoked"
  <2>1. sess[r] = "none"
    BY <1>1 DEF IInv, Session
  <2> QED
    BY <2>1
<1>8. Onward(r)
  <2>1. between' = between
    BY DEF Ends
  <2> QED
    BY <1>1, <1>3, <1>4, <1>6, <1>7, <2>1 DEF Onward
<1>9. \A s \in Request : Session(s)'
  BY <1>3, <1>8, KeepsSessions
<1>10. \A t \in Request : Token(t)'
  BY <1>2, <1>3, <1>8, KeepsTokens DEF Ends
<1>11. ASSUME NEW f \in Email \ Known PROVE Cause(f)'
  <2>1. \A t \in Request : token[t] = "used" => token'[t] = "used"
    <3>1. token[r] = "none"
      BY <1>1 DEF IInv, Token
    <3> QED
      BY <3>1
  <2>2. CASE f = e
    BY <1>2, <1>3, <1>8, <2>1, <2>2, KeepsCauses
  <2>3. CASE f # e
    BY <1>2, <1>8, <2>1, <2>3, KeepsCauses
  <2> QED
    BY <2>2, <2>3
<1>12. OneAccept'
  <2>1. CASE req[r].op = "accept" /\ p = "done"
    <3> SUFFICES ASSUME NEW f \in Email, NEW a \in Accepted(f)', NEW b \in Accepted(f)'
                 PROVE  a = b
      BY DEF OneAccept
    <3>1. \A q \in Request \ {r} : q \in Accepted(f)' => q \in Accepted(f) /\ user[f].exists
      BY <1>3 DEF Accepted, IInv, Presence
    <3>2. r \in Accepted(f)' => f = e
      BY <1>3 DEF Accepted
    <3>3. a \in Request /\ b \in Request
      BY DEF Accepted
    <3>4. ~user[e].exists
      BY <2>1
    <3> QED
      BY <3>1, <3>2, <3>3, <3>4 DEF IInv, OneAccept
  <2>2. CASE ~(req[r].op = "accept" /\ p = "done")
    BY <1>3, <1>8, <2>2, KeepsAccepts
  <2> QED
    BY <2>1, <2>2
<1>13. \A f \in Email : ~user'[f].exists => user'[f].ver = 0
  <2>1. \A f \in Email : ~user[f].exists => user[f].ver = 0
    BY DEF IInv, Holder
  <2> QED
    BY <1>4, <1>5, <2>1
<1>14. req[r].op = "accept" /\ p = "done" => user'[req[r].e].exists
  BY <1>2
<1>15. ended' \subseteq Request
  BY <1>1 DEF Types
<1>16. \A q \in Request : req[q].e \in Email
  BY <1>1 DEF Types, ReqRec
<1> QED
  BY <1>2, <1>3, <1>4, <1>5, <1>8, <1>9, <1>10, <1>11, <1>12, <1>13, <1>14, <1>15, <1>16, Ended

\* A crash or a refused statement, and the commits that end no session.
LEMMA ICommits ==
  ASSUME IInv, NEW r \in Request,
         \/ RollBack(r) \/ SignupCommits(r) \/ LoginCommits(r) \/ InviteCommits(r)
         \/ AcceptCommits(r) \/ VerifyCommits(r) \/ TokenCommits(r) \/ OauthCommits(r)
  PROVE  IInv'
<1>1. /\ Types /\ Way(r) /\ Presence(r) /\ Holder(req[r].e) /\ req[r] \in ReqRec
      /\ req[r].e \in Email /\ r # None
  BY AccountsAssumption DEF IInv, Types, ReqRec
<1>2. /\ "signup" \notin Users \cup Mailers /\ "login" \notin Users \cup Mailers
      /\ "accept" \notin Users \cup Mailers /\ "oauth" \notin Users \cup Mailers
      /\ "verify" \notin Users \cup Mailers
      /\ "resend" \in Mailers /\ "askReset" \in Mailers
      /\ "resend" \notin Users /\ "askReset" \notin Users
  BY DEF Mailers, Users
<1>3. ASSUME NEW op, Commits(r, op), between' = between
      PROVE  Ends(r, "done") /\ req[r].pc = "commit" /\ req[r].op = op
  BY <1>3 DEF Commits, Ends
<1>4. ASSUME NEW u \in UserRow, user' = [user EXCEPT ![req[r].e] = u]
      PROVE  /\ user' \in [Email -> UserRow] /\ \A f \in Email \ {req[r].e} : user'[f] = user[f]
             /\ user'[req[r].e] = u
  BY <1>1, <1>4 DEF Types
<1>5. ASSUME user' = user
      PROVE  /\ user' \in [Email -> UserRow] /\ \A f \in Email \ {req[r].e} : user'[f] = user[f]
             /\ user'[req[r].e] = user[req[r].e]
  BY <1>1, <1>5 DEF Types
<1>6. ASSUME token' = token \/ token' = [token EXCEPT ![r] = "valid"]
      PROVE  token' \in [Request -> TokenRow] /\ \A t \in Request \ {r} : token'[t] = token[t]
  BY <1>1, <1>6 DEF Types, TokenRow
<1>7. ASSUME sess' = sess \/ sess' = [sess EXCEPT ![r] = "live"]
      PROVE  sess' \in [Request -> SessionRow] /\ \A s \in Request \ {r} : sess'[s] = sess[s]
  BY <1>1, <1>7 DEF Types, SessionRow
<1>8. ASSUME NEW v \in BOOLEAN, ~user[req[r].e].exists
      PROVE  /\ Account(v) \in UserRow /\ Account(v).exists /\ Account(v).verified = v
             /\ Account(v).ver = user[req[r].e].ver
  BY <1>1, <1>8 DEF Account, UserRow, Holder
<1>9. CASE RollBack(r)
  <2>1. Ends(r, "refused") /\ UNCHANGED <<user, token, sess, ended>>
    BY <1>9 DEF RollBack, Ends, rows, history
  <2>2. token'[r] = token[r] /\ sess'[r] = sess[r] /\ "refused" # "done"
    BY <2>1
  <2> QED
    BY <1>5, <1>6, <1>7, <2>1, <2>2, Writes
<1>10. CASE SignupCommits(r)
  <2>1. /\ Ends(r, "done") /\ req[r].pc = "commit" /\ req[r].op = "signup"
        /\ user' = [user EXCEPT ![req[r].e] = Account(FALSE)]
        /\ token' = [token EXCEPT ![r] = "valid"] /\ UNCHANGED <<sess, ended>>
    BY <1>3, <1>10 DEF SignupCommits, history
  <2>2. held[req[r].e] = r /\ ~user[req[r].e].exists
    BY <1>1, <2>1 DEF Presence, Holder
  <2>3. /\ user' \in [Email -> UserRow] /\ (\A f \in Email \ {req[r].e} : user'[f] = user[f])
        /\ user'[req[r].e].ver = user[req[r].e].ver
    BY <1>4, <1>8, <2>1, <2>2
  <2>4. user'[req[r].e].exists /\ ~user'[req[r].e].verified
    BY <1>4, <1>8, <2>1, <2>2
  <2>5. sess'[r] = sess[r] /\ req[r].op # "accept" /\ req[r].op \notin Users
    BY <1>2, <2>1
  <2> QED
    BY <1>6, <1>7, <2>1, <2>2, <2>3, <2>4, <2>5, Writes
<1>11. CASE LoginCommits(r) \/ InviteCommits(r)
  <2>1. /\ Ends(r, "done") /\ req[r].pc = "commit" /\ req[r].op \notin {"accept", "reset"}
        /\ sess' = sess \/ sess' = [sess EXCEPT ![r] = "live"]
        /\ UNCHANGED <<user, token, ended>>
    BY <1>3, <1>11 DEF LoginCommits, InviteCommits, history
  <2>2. token'[r] = token[r] /\ req[r].op # "accept" /\ req[r].op # "reset"
    BY <2>1
  <2> QED
    BY <1>5, <1>6, <1>7, <2>1, <2>2, Writes
<1>12. CASE AcceptCommits(r)
  <2>1. /\ Ends(r, "done") /\ req[r].pc = "commit" /\ req[r].op = "accept"
        /\ user' = [user EXCEPT ![req[r].e] = Account(TRUE)]
        /\ sess' = [sess EXCEPT ![r] = "live"] /\ UNCHANGED <<token, ended>>
    BY <1>3, <1>12 DEF AcceptCommits, history
  <2>2. held[req[r].e] = r /\ ~user[req[r].e].exists
    BY <1>1, <2>1 DEF Presence, Holder
  <2>3. /\ user' \in [Email -> UserRow] /\ (\A f \in Email \ {req[r].e} : user'[f] = user[f])
        /\ user'[req[r].e].ver = user[req[r].e].ver
    BY <1>4, <1>8, <2>1, <2>2
  <2>4. user'[req[r].e].exists
    BY <1>4, <1>8, <2>1, <2>2
  <2>5. /\ token'[r] = token[r] /\ req[r].op \in {"accept", "oauth"} /\ req[r].op # "reset"
        /\ req[r].op \notin Users
    BY <1>2, <2>1
  <2> QED
    BY <1>6, <1>7, <2>1, <2>2, <2>3, <2>4, <2>5, Writes
<1>13. CASE VerifyCommits(r)
  <2> DEFINE u == [user[req[r].e] EXCEPT !.verified = TRUE]
             a == req[r].arg
  <2>1. /\ Ends(r, "done") /\ req[r].pc = "commit" /\ req[r].op = "verify"
        /\ user' = [user EXCEPT ![req[r].e] = u] /\ token' = [token EXCEPT ![a] = "used"]
        /\ UNCHANGED <<sess, ended>>
    BY <1>3, <1>13 DEF VerifyCommits, history
  <2>2. /\ u \in UserRow /\ u.ver = user[req[r].e].ver /\ u.exists = user[req[r].e].exists
    BY <1>1 DEF Types, UserRow
  <2> HIDE DEF u
  <2>3. /\ user' \in [Email -> UserRow] /\ (\A f \in Email \ {req[r].e} : user'[f] = user[f])
        /\ user'[req[r].e].ver = user[req[r].e].ver
    BY <1>4, <2>1, <2>2
  <2>4. user'[req[r].e].exists = user[req[r].e].exists
    BY <1>4, <2>1, <2>2
  <2>5. a \in Request /\ req[a].pc = "done" /\ a # r
    BY <1>1, <2>1 DEF Way
  <2>6. /\ token' \in [Request -> TokenRow] /\ token'[a] = "used" /\ token'[r] = token[r]
        /\ \A t \in Request \ {r} : token'[t] = token[t] \/ (token'[t] = "used" /\ req[t].pc = "done")
    BY <1>1, <2>1, <2>5 DEF Types, TokenRow
  <2>7. sess'[r] = sess[r] /\ req[r].op # "accept" /\ req[r].op \notin Users
    BY <1>2, <2>1
  <2>8. Ends(r, "done") /\ ended' = ended /\ req[r].op = "verify" /\ token'[req[r].arg] = "used"
    BY <2>1, <2>6
  <2>9. /\ user[req[r].e].exists => user'[req[r].e].exists
        /\ held[req[r].e] = r \/ (user'[req[r].e].exists <=> user[req[r].e].exists)
    BY <2>4
  <2>10. sess' \in [Request -> SessionRow] /\ \A s \in Request \ {r} : sess'[s] = sess[s]
    BY <1>7, <2>1
  <2> HIDE DEF a
  <2> QED
    BY <2>3, <2>6, <2>7, <2>8, <2>9, <2>10, Writes
<1>14. CASE TokenCommits(r)
  <2>1. /\ Ends(r, "done") /\ req[r].pc = "commit" /\ req[r].op \in {"resend", "askReset"}
        /\ token' = [token EXCEPT ![r] = "valid"] /\ UNCHANGED <<user, sess, ended>>
    BY <1>3, <1>14 DEF TokenCommits, history
  <2>2. user[req[r].e].exists
    BY <1>1, <1>2, <2>1 DEF Presence
  <2>3. sess'[r] = sess[r] /\ req[r].op # "accept" /\ req[r].op \notin Users
    BY <1>2, <2>1
  <2> QED
    BY <1>5, <1>6, <1>7, <2>1, <2>2, <2>3, Writes
<1>15. CASE OauthCommits(r)
  <2>1. /\ Ends(r, "done") /\ req[r].pc = "commit" /\ req[r].op = "oauth"
        /\ user' = IF held[req[r].e] = r THEN [user EXCEPT ![req[r].e] = Account(TRUE)] ELSE user
        /\ sess' = [sess EXCEPT ![r] = "live"] /\ UNCHANGED <<token, ended>>
    BY <1>3, <1>15 DEF OauthCommits, history
  <2>2. /\ token'[r] = token[r] /\ req[r].op \in {"accept", "oauth"} /\ req[r].op # "reset"
        /\ req[r].op # "accept" /\ req[r].op \notin Users
    BY <1>2, <2>1
  <2>3. CASE held[req[r].e] = r
    <3>1. ~user[req[r].e].exists /\ user' = [user EXCEPT ![req[r].e] = Account(TRUE)]
      BY <1>1, <2>1, <2>3 DEF Holder
    <3>2. /\ user' \in [Email -> UserRow] /\ (\A f \in Email \ {req[r].e} : user'[f] = user[f])
          /\ user'[req[r].e].ver = user[req[r].e].ver
      BY <1>4, <1>8, <3>1
    <3>3. user'[req[r].e].exists
      BY <1>4, <1>8, <3>1
    <3> QED
      BY <1>6, <1>7, <2>1, <2>2, <2>3, <3>2, <3>3, Writes
  <2>4. CASE held[req[r].e] # r
    <3>1. user' = user
      BY <2>1, <2>4
    <3> QED
      BY <1>5, <1>6, <1>7, <2>1, <2>2, <3>1, Writes
  <2> QED
    BY <2>3, <2>4
<1> QED
  BY <1>9, <1>10, <1>11, <1>12, <1>13, <1>14, <1>15

\* A reset ends every session of the account; a revocation ends one.
LEMMA IReset ==
  ASSUME IInv, NEW r \in Request, ResetCommits(r)
  PROVE  IInv'
<1> DEFINE e == req[r].e
           a == req[r].arg
           u == [user[e] EXCEPT !.ver = req[r].ver]
<1>1. /\ Types /\ Way(r) /\ Presence(r) /\ Version(r) /\ Holder(e) /\ req[r] \in ReqRec
      /\ e \in Email /\ r # None
  BY AccountsAssumption DEF IInv, Types, ReqRec
<1>2. /\ Ends(r, "done") /\ req[r].pc = "commit" /\ req[r].op = "reset"
      /\ user' = [user EXCEPT ![e] = u] /\ token' = [token EXCEPT ![a] = "used"]
      /\ ended' = ended \cup SessionsOf(e) /\ sess' = sess
  BY DEF ResetCommits, Commits, Ends
<1>3. user[e].ver \in Nat /\ req[r].ver \in Nat /\ user[e].exists /\ r \in Resetting(e)
  <2>1. user[e].exists
    BY <1>1, <1>2 DEF Presence
  <2>2. user[e].ver \in Nat /\ req[r].ver \in Nat
    BY <1>1 DEF Types, UserRow, ReqRec
  <2> QED
    BY <1>2, <2>1, <2>2 DEF Resetting
<1>4. u \in UserRow /\ u.ver = req[r].ver /\ u.exists = user[e].exists
      /\ u.verified = user[e].verified
  <2>1. user[e] \in UserRow
    BY <1>1 DEF Types
  <2> QED
    BY <1>3, <2>1 DEF UserRow
<1>5. /\ user' \in [Email -> UserRow] /\ user'[e] = u
      /\ \A f \in Email \ {e} : user'[f] = user[f]
  BY <1>1, <1>2, <1>4 DEF Types
<1> HIDE DEF u
<1>6. a \in Request /\ req[a].pc = "done" /\ a # r
  BY <1>1, <1>2 DEF Way
<1>7. /\ token' \in [Request -> TokenRow] /\ token'[a] = "used"
      /\ \A t \in Request \ {a} : token'[t] = token[t]
  BY <1>1, <1>2, <1>6 DEF Types, TokenRow
<1>8. sess' \in [Request -> SessionRow] /\ ended' \subseteq Request
  BY <1>1, <1>2 DEF Types, SessionsOf
<1>9. /\ Types' /\ req'[r].pc = "done" /\ req'[r].op = "reset" /\ req'[r].e = e
      /\ \A q \in Request \ {r} : req'[q] = req[q]
  BY <1>2, <1>5, <1>7, <1>8, AtEnd
<1>10. \A f \in Email : user'[f].exists = user[f].exists /\ user'[f].verified = user[f].verified
  BY <1>4, <1>5
<1>11. \A f \in Email : \/ user[f].ver <= user'[f].ver
                        \/ \E q \in Resetting(f) : user'[f].ver = req[q].ver
  <2>1. \A f \in Email : user[f].ver \in Nat
    BY <1>1 DEF Types, UserRow
  <2> QED
    BY <1>3, <1>4, <1>5, <2>1
<1>12. Onward(r)
  <2>1. \A f \in Email : user[f].exists => user'[f].exists
    BY <1>10
  <2> QED
    BY <1>2, <1>9, <1>11, <2>1 DEF Onward, Ends
<1>13. ASSUME NEW s \in Request PROVE Session(s)'
  <2>1. Session(s) /\ Version(s) /\ req[s] \in ReqRec /\ between' = between
    BY <1>1, <1>2 DEF IInv, Types, Ends
  <2>2. sess[r] = "none" /\ r \notin ended
    BY <1>2 DEF IInv, Session
  <2>3. CASE s = r
    <3>1. r \notin ended'
      BY <1>2, <2>2 DEF SessionsOf
    <3> QED
      BY <1>2, <2>2, <2>3, <3>1 DEF Session
  <2>4. CASE s # r /\ s \in SessionsOf(e)
    <3>1. sess[s] # "none" /\ req[s].e = e
      BY <2>4 DEF SessionsOf
    <3>2. req[s].pc = "done" /\ req[s].op # "reset"
      BY <2>1, <3>1 DEF Session
    <3>3. s \notin between => req[s].ver < req[r].ver
      BY <1>3, <2>1, <3>1, <3>2 DEF Version
    <3>4. user'[req[s].e].ver = req[r].ver
      BY <1>4, <1>5, <3>1
    <3>5. s \notin between => user'[req[s].e].ver > req[s].ver
      <4>1. req[s].ver \in Nat /\ user'[req[s].e].ver \in Nat
        BY <1>3, <2>1, <3>4 DEF ReqRec
      <4> QED
        BY <3>3, <3>4, <4>1
    <3>6. req'[s] = req[s] /\ sess'[s] = sess[s]
      BY <1>2, <1>9, <2>4
    <3> QED
      BY <2>1, <3>1, <3>2, <3>5, <3>6 DEF Session
  <2>5. CASE s # r /\ s \notin SessionsOf(e)
    <3>1. req'[s] = req[s] /\ sess'[s] = sess[s] /\ (s \in ended' => s \in ended)
      BY <1>2, <1>9, <2>5
    <3>2. sess[s] # "none" /\ s \notin between /\ user[req[s].e].ver > req[s].ver =>
            user'[req[s].e].ver > req[s].ver
      BY <1>9, <1>12, Outlives
    <3> QED
      BY <2>1, <3>1, <3>2 DEF Session
  <2> QED
    BY <2>3, <2>4, <2>5
<1>14. \A t \in Request : Token(t)'
  <2>1. \A t \in Request \ {r} : token'[t] = token[t] \/ (token'[t] = "used" /\ req[t].pc = "done")
    BY <1>6, <1>7
  <2>2. token'[r] = token[r]
    BY <1>6, <1>7
  <2> QED
    BY <1>2, <1>9, <1>12, <2>1, <2>2, KeepsTokens DEF Ends
<1>15. ASSUME NEW f \in Email \ Known PROVE Cause(f)'
  <2>1. \A t \in Request : token[t] = "used" => token'[t] = "used"
    BY <1>7
  <2> QED
    BY <1>10, <1>12, <2>1, KeepsCauses
<1>16. OneAccept'
  BY <1>9, <1>12, KeepsAccepts
<1>17. \A f \in Email : ~user'[f].exists => user'[f].ver = 0
  <2>1. ASSUME NEW f \in Email, ~user'[f].exists PROVE f # e
    BY <1>3, <1>10, <2>1
  <2> QED
    BY <1>5, <1>10, <2>1 DEF IInv, Holder
<1>18. req[r].op # "accept" /\ req[r].op \notin Users
  BY <1>2 DEF Users
<1>19. \A f \in Email : held[f] = r \/ (user'[f].exists <=> user[f].exists)
  BY <1>10
<1> QED
  BY <1>2, <1>5, <1>7, <1>8, <1>9, <1>12, <1>13, <1>14, <1>15, <1>16, <1>17, <1>18, <1>19, Ended

LEMMA IRevoke ==
  ASSUME IInv, NEW r \in Request, Revoke(r)
  PROVE  IInv'
<1>1. Types /\ req[r] \in ReqRec /\ req[r].e \in Email
  BY DEF IInv, Types, ReqRec
<1>2. PICK z \in SessionsOf(req[r].e) :
        sess' = [sess EXCEPT ![z] = "revoked"] /\ ended' = ended \cup {z}
  BY DEF Revoke
<1>3. /\ Ends(r, "done") /\ req[r].pc = "commit" /\ req[r].op = "revoke"
      /\ req[r].op \in Users /\ UNCHANGED <<user, token, mailed>>
  BY DEF Revoke, Ends, Users
<1>4. z \in Request /\ sess[z] # "none" /\ z # r
  BY <1>3 DEF SessionsOf, IInv, Session
<1>5. /\ sess' \in [Request -> SessionRow] /\ sess'[z] = "revoked" /\ ended' \subseteq Request
      /\ \A s \in Request \ {z} : sess'[s] = sess[s]
  BY <1>1, <1>2, <1>4 DEF Types, SessionRow
<1>6. user' \in [Email -> UserRow] /\ token' \in [Request -> TokenRow]
  BY <1>1, <1>3 DEF Types
<1>7. /\ Types' /\ req'[r].pc = "done" /\ req'[r].op = "revoke" /\ req'[r].e = req[r].e
      /\ \A q \in Request \ {r} : req'[q] = req[q]
  BY <1>3, <1>5, <1>6, AtEnd
<1>8. Onward(r)
  <2>1. \A f \in Email : user[f].ver <= user'[f].ver
    BY <1>1, <1>3 DEF Types, UserRow
  <2>2. \A s \in Request : sess[s] = "revoked" => sess'[s] = "revoked"
    BY <1>5
  <2>3. (\A f \in Email : user[f].exists => user'[f].exists) /\ ended \subseteq ended'
    BY <1>2, <1>3
  <2> QED
    BY <1>3, <1>7, <2>1, <2>2, <2>3 DEF Onward, Ends
<1>9. ASSUME NEW s \in Request PROVE Session(s)'
  <2>1. Session(s)
    BY DEF IInv
  <2>2. CASE s = r
    <3>1. sess'[r] = "none" /\ r \notin ended'
      BY <1>2, <1>3, <1>4, <1>5, <2>1, <2>2 DEF Session
    <3> QED
      BY <2>2, <3>1 DEF Session
  <2>3. CASE s = z
    <3>1. req[z].pc = "done" /\ req[z].op # "reset" /\ req'[z] = req[z]
      BY <1>4, <1>7, <2>1, <2>3 DEF Session
    <3> QED
      BY <1>5, <2>3, <3>1 DEF Session
  <2>4. CASE s # r /\ s # z
    <3>1. req'[s] = req[s] /\ sess'[s] = sess[s] /\ (s \in ended' <=> s \in ended) /\ user' = user
          /\ between' = between
      BY <1>2, <1>3, <1>5, <1>7, <2>4 DEF Ends
    <3> QED
      BY <2>1, <3>1 DEF Session
  <2> QED
    BY <2>2, <2>3, <2>4
<1>10. \A t \in Request : Token(t)'
  BY <1>3, <1>7, <1>8, KeepsTokens
<1>11. ASSUME NEW f \in Email \ Known PROVE Cause(f)'
  BY <1>3, <1>8, KeepsCauses
<1>12. OneAccept'
  BY <1>7, <1>8, KeepsAccepts
<1>13. \A f \in Email : ~user'[f].exists => user'[f].ver = 0
  BY <1>3 DEF IInv, Holder
<1>14. req[r].op # "accept" /\ \A q \in Request : req[q].e \in Email
  BY <1>1, <1>3 DEF Types, ReqRec
<1> QED
  BY <1>3, <1>5, <1>6, <1>7, <1>8, <1>9, <1>10, <1>11, <1>12, <1>13, <1>14, Ended

\* The steps of no request.
LEMMA ITime ==
  ASSUME IInv, (\E t \in Request : Lapse(t)) \/ (\E e \in Email : Elapse(e)) \/ UNCHANGED vars
  PROVE  IInv'
<1>1. Types
  BY DEF IInv
<1>2. UNCHANGED <<user, sess, held, mailed, req, ended, between>>
  BY DEF Lapse, Elapse, vars, rows, history
<1>3. /\ token' \in [Request -> TokenRow]
      /\ \A t \in Request : \/ token'[t] = token[t]
                            \/ token[t] = "valid" /\ token'[t] = "lapsed"
  <2>1. CASE token' = token
    BY <1>1, <2>1 DEF Types
  <2>2. CASE \E z \in Request : token[z] = "valid" /\ token' = [token EXCEPT ![z] = "lapsed"]
    BY <1>1, <2>2 DEF Types, TokenRow
  <2> QED
    BY <2>1, <2>2 DEF Lapse, Elapse, vars, rows
<1>4. Types'
  BY <1>1, <1>2, <1>3 DEF Types
<1>5. ASSUME NEW r \in Request
      PROVE  (Way(r) /\ Version(r) /\ Presence(r) /\ Late(r) /\ Session(r) /\ Token(r))'
  <2>1. Way(r) /\ Version(r) /\ Presence(r) /\ Late(r) /\ Session(r) /\ Token(r)
    BY DEF IInv
  <2>2. (Way(r) /\ Version(r) /\ Presence(r) /\ Late(r) /\ Session(r))'
    BY <1>2, <2>1 DEF Way, Version, Presence, Late, Session, Passed, Resetting
  <2>3. Token(r)'
    BY <1>2, <1>3, <2>1 DEF Token
  <2> QED
    BY <2>2, <2>3
<1>6. ASSUME NEW e \in Email PROVE Holder(e)'
  BY <1>2 DEF IInv, Holder
<1>7. ASSUME NEW e \in Email \ Known PROVE Cause(e)'
  <2>1. Cause(e)
    BY DEF IInv
  <2>2. ASSUME NEW q \in Request, req[q].op = "verify", token[req[q].arg] = "used"
        PROVE  token'[req[q].arg] = "used"
    <3>1. req[q].arg \in Request
      BY <2>2 DEF IInv, Way
    <3> QED
      BY <1>3, <2>2, <3>1
  <2> QED
    BY <1>2, <2>1, <2>2 DEF Cause
<1>8. OneAccept'
  BY <1>2 DEF IInv, OneAccept, Accepted
<1> QED
  BY <1>4, <1>5, <1>6, <1>7, <1>8 DEF IInv

LEMMA INext == ASSUME IInv, [Next]_vars PROVE IInv'
<1>1. ASSUME NEW r \in Request, Authenticated(r) PROVE IInv'
  BY <1>1, IAuth, ICommits, IRevoke DEF Authenticated
<1>2. ASSUME NEW r \in Request, Opens(r) PROVE IInv'
  BY <1>2, IVersion, ICommits DEF Opens
<1>3. ASSUME NEW r \in Request, Joins(r) PROVE IInv'
  BY <1>3, IReads, ITakes, ICommits DEF Joins
<1>4. ASSUME NEW r \in Request, Mails(r) PROVE IInv'
  BY <1>4, IReads, ICommits DEF Mails
<1>5. ASSUME NEW r \in Request, Redeems(r) PROVE IInv'
  BY <1>5, IReads, IVersion, ITakes, ICommits, IReset DEF Redeems
<1>6. ASSUME NEW r \in Request, Arrive(r) \/ RollBack(r) PROVE IInv'
  BY <1>6, IArrive, ICommits
<1> QED
  BY <1>1, <1>2, <1>3, <1>4, <1>5, <1>6, ITime DEF Next

LEMMA IAlways == Spec => []IInv
<1>1. IInv /\ [Next]_vars => IInv'
  BY INext
<1> QED
  BY <1>1, IInit, PTL DEF Spec

(* A session that a reset or a revocation has ended lets no later request pass       *)
(* (AuthService.reset_password, get_current_user), unless its version was read       *)
(* between the commits of two resets that overlap: both write the same one.          *)
THEOREM EndedStays == Spec => []EndedUnlessBetween
<1>1. IInv => EndedUnlessBetween
  BY DEF IInv, Late, EndedUnlessBetween
<1> QED
  BY <1>1, IAlways, PTL

(* An invitation is accepted once (AuthService.accept_invite, which reads it open     *)
(* and inserts the account whose address is unique).                                  *)
THEOREM InvitedOnce == Spec => []InviteOnce
<1>1. ASSUME IInv, NEW i \in Request
      PROVE  Cardinality({r \in Request : req[r].op = "accept" /\ req[r].arg = i
                                            /\ req[r].pc = "done"}) <= 1
  <2> DEFINE A == {r \in Request : req[r].op = "accept" /\ req[r].arg = i /\ req[r].pc = "done"}
  <2>1. ASSUME NEW q \in A PROVE q \in Accepted(req[i].e)
    <3>1. q \in Request /\ req[q].op = "accept" /\ req[q].arg = i /\ req[q].pc = "done"
      OBVIOUS
    <3>2. req[i].e = req[q].e
      BY <1>1, <3>1 DEF IInv, Way
    <3> QED
      BY <3>1, <3>2 DEF Accepted
  <2>2. req[i].e \in Email
    BY <1>1 DEF IInv, Types, ReqRec
  <2>3. \A q, s \in A : q = s
    BY <1>1, <2>1, <2>2 DEF IInv, OneAccept
  <2>4. A = {} \/ \E q \in A : A = {q}
    BY <2>3
  <2>5. Cardinality(A) = 0 \/ Cardinality(A) = 1
    BY <2>4, FS_EmptySet, FS_Singleton
  <2> QED
    BY <2>5
<1>2. IInv => InviteOnce
  BY <1>1 DEF InviteOnce
<1> QED
  BY <1>2, IAlways, PTL

(* An account that was not verified at the beginning is verified by a mailed token,    *)
(* an invitation or an identity provider (verify_email, accept_invite,                 *)
(* get_or_create_oauth_user), whatever is rolled back or runs beside it.               *)
THEOREM Verifications == Spec => []VerifiedByProof
<1>1. IInv => VerifiedByProof
  BY DEF IInv, Cause, VerifiedByProof
<1> QED
  BY <1>1, IAlways, PTL
=============================================================================
