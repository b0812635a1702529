--------------------------- MODULE AccountsProofs ---------------------------
(***************************************************************************)
(* Proofs about Accounts, for any browsers, names and number of logins in  *)
(* progress.  The UNIQUE columns make rows tell accounts apart (Unique),   *)
(* rows are never changed, and a login is granted for a row that what was  *)
(* shown belongs to: what is granted stays true (LoggedInAsSelf), and two  *)
(* grants to one person are for one row (SameAccount).                     *)
(***************************************************************************)
EXTENDS Accounts, TLAPS

\* two rows share no value of a UNIQUE column
Apart(u, v) ==
  /\ u.user_id # v.user_id
  /\ u.user_name = NULL \/ u.user_name # v.user_name
  /\ u.google = NULL \/ u.google # v.google
  /\ u.apple = NULL \/ u.apple # v.apple

Unique == \A u, v \in users : u = v \/ Apart(u, v)

Holds(g, u) == u.user_id = g.user_id /\ u.user_name = g.username /\ Proves(g.proof, u)

IInv == TypeOK /\ Unique /\ LoggedInAsSelf

-----------------------------------------------------------------------------
(***************************************************************************)
(* A new row that may be inserted leaves the rows apart.                   *)
(***************************************************************************)
LEMMA InsertUnique ==
  ASSUME Unique, NEW row,
         \A u \in users : u.user_id # row.user_id, MayInsert(row),
         users' = users \cup {row}
  PROVE  Unique'
<1>1. \A u \in users : Apart(u, row) /\ Apart(row, u)
  BY DEF MayInsert, Apart
<1>2. QED
  BY <1>1 DEF Unique

(***************************************************************************)
(* Grants stay good: rows only come to be, and only what is granted anew   *)
(* has to be looked at.                                                    *)
(***************************************************************************)
LEMMA GrantsKept ==
  ASSUME LoggedInAsSelf, users \subseteq users',
         \A g \in Granted' : g \in Granted \/ \E u \in users' : Holds(g, u)
  PROVE  LoggedInAsSelf'
<1>1. \A g \in Granted : \E u \in users : Holds(g, u)
  BY DEF LoggedInAsSelf, Holds
<1>2. \A g \in Granted' : \E u \in users' : Holds(g, u)
  BY <1>1
<1>3. QED
  BY <1>2 DEF LoggedInAsSelf, Holds, Proves

(***************************************************************************)
(* The request r changes from an ungranted state into row, and nothing     *)
(* else is granted.                                                        *)
(***************************************************************************)
LEMMA GrantsOfRequest ==
  ASSUME NEW r \in Requests, NEW row,
         TypeOK,
         requests' = [requests EXCEPT ![r] = row],
         session' = session
  PROVE  \A g \in Granted' : g \in Granted \/ (row.stage = "granted" /\ g = row.grant)
<1> SUFFICES ASSUME NEW g \in Granted'
             PROVE  g \in Granted \/ (row.stage = "granted" /\ g = row.grant)
  OBVIOUS
<1>1. CASE \E b \in Browsers : session'[b] # NoSession /\ g = session'[b]
  BY <1>1 DEF Granted
<1>2. CASE \E q \in Requests : requests'[q].stage = "granted" /\ g = requests'[q].grant
  <2>1. PICK q \in Requests : requests'[q].stage = "granted" /\ g = requests'[q].grant
    BY <1>2
  <2>2. CASE q = r
    BY <2>1, <2>2 DEF TypeOK
  <2>3. CASE q # r
    <3>1. requests'[q] = requests[q]
      BY <2>3 DEF TypeOK
    <3>2. QED
      BY <2>1, <3>1 DEF Granted
  <2>4. QED
    BY <2>2, <2>3
<1>3. QED
  BY <1>1, <1>2 DEF Granted

-----------------------------------------------------------------------------
(* Each action.                                                            *)

LEMMA InitInv == ASSUME AccountsAssumption, Init PROVE IInv
<1>1. TypeOK
  BY DEF AccountsAssumption, Init, TypeOK
<1>2. Granted = {}
  BY DEF Init, Granted, Idle
<1>3. QED
  BY <1>1, <1>2 DEF Init, IInv, Unique, LoggedInAsSelf

LEMMA CreateUserInv ==
  ASSUME IInv, NEW name \in Names, NEW password \in Passwords, CreateUser(name, password)
  PROVE  IInv'
<1>1. PICK id \in FreshIds :
        MayInsert(NewUser(id, name, password)) /\ users' = users \cup {NewUser(id, name, password)}
  BY DEF CreateUser
<1> DEFINE row == NewUser(id, name, password)
<1>2. row \in UserRow /\ \A u \in users : u.user_id # row.user_id
  BY DEF NewUser, UserRow, FreshIds
<1>3. UNCHANGED <<session, attempts, oauth_state, requests>>
  BY DEF CreateUser
<1>4. TypeOK'
  BY <1>1, <1>2, <1>3 DEF IInv, TypeOK
<1>5. Unique'
  BY <1>1, <1>2, InsertUnique DEF IInv
<1>6. Granted' = Granted
  BY <1>3 DEF Granted
<1>7. LoggedInAsSelf'
  BY <1>1, <1>6, GrantsKept DEF IInv
<1>8. QED
  BY <1>4, <1>5, <1>7 DEF IInv

(***************************************************************************)
(* A request that is answered from the table as it is.                     *)
(***************************************************************************)
LEMMA RequestInv ==
  ASSUME IInv, NEW r \in Requests, NEW row \in RequestRow,
         requests' = [requests EXCEPT ![r] = row],
         UNCHANGED <<users, session, attempts, oauth_state>>,
         row.stage = "granted" => \E u \in users : Holds(row.grant, u)
  PROVE  IInv'
<1>1. TypeOK'
  BY DEF IInv, TypeOK
<1>2. Unique'
  BY DEF IInv, Unique
<1>3. \A g \in Granted' : g \in Granted \/ (row.stage = "granted" /\ g = row.grant)
  BY GrantsOfRequest DEF IInv
<1>4. LoggedInAsSelf'
  BY <1>3, GrantsKept DEF IInv
<1>5. QED
  BY <1>1, <1>2, <1>4 DEF IInv

LEMMA LoginInv ==
  ASSUME IInv, NEW r \in Requests, NEW b \in Browsers,
         NEW name \in Names, NEW password \in Passwords, Login(r, b, name, password)
  PROVE  IInv'
<1> DEFINE proof == [by |-> "password", name |-> name, password |-> password]
<1>1. UNCHANGED <<users, session, attempts, oauth_state>>
  BY DEF Login
<1>2. CASE \E u \in users :
             /\ Matches(u, proof)
             /\ requests' = [requests EXCEPT ![r] =
                  [stage |-> "granted", browser |-> b, grant |-> Grant(u, proof)]]
  <2>1. PICK u \in users :
             /\ Matches(u, proof)
             /\ requests' = [requests EXCEPT ![r] =
                  [stage |-> "granted", browser |-> b, grant |-> Grant(u, proof)]]
    BY <1>2
  <2> DEFINE row == [stage |-> "granted", browser |-> b, grant |-> Grant(u, proof)]
  <2>2. proof \in Proofs /\ u \in UserRow
    BY DEF Proofs, IInv, TypeOK
  <2>3. Grant(u, proof) \in Grants
    BY <2>2 DEF Grant, Grants, UserRow
  <2>4. row \in RequestRow
    BY <2>3 DEF RequestRow
  <2>5. Holds(Grant(u, proof), u)
    BY <2>1 DEF Holds, Grant, Proves, Matches
  <2>6. QED
    BY <1>1, <2>1, <2>4, <2>5, RequestInv
<1>3. CASE requests' = [requests EXCEPT ![r] =
             [stage |-> "refused", browser |-> b, by |-> "password"]]
  <2>1. [stage |-> "refused", browser |-> b, by |-> "password"] \in RequestRow
    BY DEF RequestRow
  <2>2. QED
    BY <1>1, <1>3, <2>1, RequestInv
<1>4. QED
  BY <1>2, <1>3 DEF Login

LEMMA StartLoginInv ==
  ASSUME AccountsAssumption, IInv, NEW b \in Browsers, NEW iss \in Issuers, StartLogin(b, iss)
  PROVE  IInv'
<1>1. TypeOK'
  <2>1. attempts[b] \in Seq(Issuers) /\ Len(attempts[b]) + 1 \in 0 .. MaxAttempts
    BY DEF AccountsAssumption, IInv, TypeOK, StartLogin
  <2>2. attempts' \in [Browsers -> Seq(Issuers)]
    BY <2>1 DEF IInv, TypeOK, StartLogin
  <2>3. oauth_state' \in [Browsers -> 0 .. MaxAttempts]
    BY <2>1 DEF IInv, TypeOK, StartLogin
  <2>4. QED
    BY <2>2, <2>3 DEF IInv, TypeOK, StartLogin
<1>2. Unique' /\ LoggedInAsSelf'
  BY DEF IInv, Unique, LoggedInAsSelf, Granted, StartLogin
<1>3. QED
  BY <1>1, <1>2 DEF IInv

LEMMA CallbackInv ==
  ASSUME IInv, NEW r \in Requests, NEW b \in Browsers, NEW n \in Nat,
         NEW sub \in Subs, NEW email \in Names \cup {NULL}, Callback(r, b, n, sub, email)
  PROVE  IInv'
<1> DEFINE iss == attempts[b][n]
           proof == [by |-> iss, name |-> sub, password |-> NoPassword]
           valid == [stage |-> "validated", browser |-> b, proof |-> proof, email |-> email]
           refused == [stage |-> "refused", browser |-> b, by |-> iss]
<1>1. iss \in Issuers
  BY DEF Callback, IInv, TypeOK
<1>2. valid \in RequestRow /\ refused \in RequestRow
  BY <1>1 DEF RequestRow
<1>3. \/ requests' = [requests EXCEPT ![r] = valid]
      \/ requests' = [requests EXCEPT ![r] = refused]
  BY DEF Callback
<1>4. UNCHANGED <<users, session, attempts, oauth_state>>
  BY DEF Callback
<1>5. QED
  BY <1>2, <1>3, <1>4, RequestInv

(***************************************************************************)
(* The answers and refusals of external logins.                            *)
(***************************************************************************)
LEMMA External ==
  ASSUME TypeOK, NEW r \in Requests, requests[r].stage \in {"validated", "unknown"}
  PROVE  /\ requests[r] \in [stage : {"validated", "unknown"}, browser : Browsers,
              proof : [by : Issuers, name : Subs, password : {NoPassword}],
              email : Names \cup {NULL}]
         /\ requests[r].proof \in Proofs
         /\ Refusal(r) \in RequestRow
         /\ \A u \in UserRow : Answer(r, u) \in RequestRow
<1>1. requests[r] \in RequestRow
  BY DEF TypeOK, Idle
<1>2. requests[r] \in [stage : {"validated", "unknown"}, browser : Browsers,
              proof : [by : Issuers, name : Subs, password : {NoPassword}],
              email : Names \cup {NULL}]
  BY <1>1 DEF RequestRow
<1>3. requests[r].proof \in Proofs
  BY <1>2 DEF Proofs
<1>4. Refusal(r) \in RequestRow
  BY <1>2 DEF Refusal, RequestRow
<1>5. ASSUME NEW u \in UserRow
      PROVE  Answer(r, u) \in RequestRow
  <2>1. Grant(u, requests[r].proof) \in Grants
    BY <1>3 DEF Grant, Grants, UserRow
  <2>2. QED
    BY <1>2, <2>1 DEF Answer, RequestRow
<1>6. QED
  BY <1>2, <1>3, <1>4, <1>5

LEMMA GetOauthUserInv ==
  ASSUME IInv, NEW r \in Requests, GetOauthUser(r)
  PROVE  IInv'
<1> DEFINE proof == requests[r].proof
<1>1. UNCHANGED <<users, session, attempts, oauth_state>>
  BY DEF GetOauthUser
<1>2. /\ TypeOK
      /\ requests[r].stage \in {"validated", "unknown"}
  BY DEF GetOauthUser, IInv
<1>3. CASE \E u \in Found(proof.by, proof.name) : requests' = [requests EXCEPT ![r] = Answer(r, u)]
  <2>1. PICK u \in Found(proof.by, proof.name) : requests' = [requests EXCEPT ![r] = Answer(r, u)]
    BY <1>3
  <2>2. u \in users /\ u \in UserRow
    BY <1>2 DEF Found, TypeOK
  <2>3. proof.by \in Issuers
    BY <1>2, External
  <2>4. Holds(Grant(u, proof), u)
    BY <2>1, <2>3 DEF Holds, Grant, Proves, Found, Issuers
  <2>5. Answer(r, u).grant = Grant(u, proof)
    BY DEF Answer
  <2>6. Answer(r, u) \in RequestRow
    BY <1>2, <2>2, External
  <2>7. QED
    BY <1>1, <2>1, <2>2, <2>4, <2>5, <2>6, RequestInv
<1>4. CASE requests' = [requests EXCEPT ![r].stage = "unknown"]
  <2> DEFINE row == [requests[r] EXCEPT !.stage = "unknown"]
  <2>1. requests' = [requests EXCEPT ![r] = row]
    BY <1>4
  <2>2. row \in RequestRow /\ row.stage = "unknown"
    BY <1>2, External DEF RequestRow
  <2>3. QED
    BY <1>1, <2>1, <2>2, RequestInv
<1>5. QED
  BY <1>3, <1>4 DEF GetOauthUser

LEMMA CreateOauthUserInv ==
  ASSUME IInv, NEW r \in Requests, CreateOauthUser(r)
  PROVE  IInv'
<1> DEFINE proof == requests[r].proof
<1>1. /\ TypeOK
      /\ requests[r].stage \in {"validated", "unknown"}
      /\ UNCHANGED <<session, attempts, oauth_state>>
  BY DEF CreateOauthUser, IInv
<1>2. PICK id \in FreshIds :
        IF MayInsert(NewOauthUser(id, proof, requests[r].email))
          THEN /\ users' = users \cup {NewOauthUser(id, proof, requests[r].email)}
               /\ requests' = [requests EXCEPT ![r] =
                    Answer(r, NewOauthUser(id, proof, requests[r].email))]
          ELSE /\ requests' = [requests EXCEPT ![r] = Refusal(r)]
               /\ UNCHANGED users
  BY DEF CreateOauthUser
<1> DEFINE row == NewOauthUser(id, proof, requests[r].email)
<1>3. CASE MayInsert(row)
  <2>1. users' = users \cup {row} /\ requests' = [requests EXCEPT ![r] = Answer(r, row)]
    BY <1>2, <1>3
  <2>2. /\ requests[r].proof \in [by : Issuers, name : Subs, password : {NoPassword}]
        /\ requests[r].email \in Names \cup {NULL}
    BY <1>1, External
  <2>3. row \in UserRow /\ \A u \in users : u.user_id # row.user_id
    BY <2>2 DEF NewOauthUser, UserRow, FreshIds
  <2>4. Answer(r, row) \in RequestRow
    BY <1>1, <2>3, External
  <2>5. TypeOK'
    BY <1>1, <2>1, <2>3, <2>4 DEF TypeOK
  <2>6. Unique'
    BY <1>3, <2>1, <2>3, InsertUnique DEF IInv
  <2>7. Holds(Grant(row, proof), row)
    BY <2>2 DEF Holds, Grant, Proves, NewOauthUser, Issuers
  <2>8. Answer(r, row).grant = Grant(row, proof)
    BY DEF Answer
  <2>9. \A g \in Granted' : g \in Granted \/ g = Answer(r, row).grant
    BY <1>1, <2>1, GrantsOfRequest
  <2>10. LoggedInAsSelf'
    BY <2>1, <2>7, <2>8, <2>9, GrantsKept DEF IInv
  <2>11. QED
    BY <2>5, <2>6, <2>10 DEF IInv
<1>4. CASE ~MayInsert(row)
  <2>1. UNCHANGED users /\ requests' = [requests EXCEPT ![r] = Refusal(r)]
    BY <1>2, <1>4
  <2>2. Refusal(r) \in RequestRow /\ Refusal(r).stage = "refused"
    BY <1>1, External DEF Refusal
  <2>3. QED
    BY <1>1, <2>1, <2>2, RequestInv
<1>5. QED
  BY <1>3, <1>4

LEMMA FailInv ==
  ASSUME IInv, NEW r \in Requests, Fail(r)
  PROVE  IInv'
<1>1. Refusal(r) \in RequestRow /\ Refusal(r).stage = "refused"
  BY External DEF IInv, Fail, Refusal
<1>2. QED
  BY <1>1, RequestInv DEF Fail

(***************************************************************************)
(* A response or a logout: what the browser holds afterwards was granted   *)
(* before, or is nothing.                                                  *)
(***************************************************************************)
LEMMA ResponseInv ==
  ASSUME AccountsAssumption, IInv, NEW b \in Browsers, NEW value \in Grants \cup {NoSession},
         value = NoSession \/ value \in Granted,
         session' = [session EXCEPT ![b] = value],
         \A r \in Requests : requests'[r] = Idle \/ requests'[r] = requests[r],
         requests' \in [Requests -> RequestRow \cup {Idle}],
         oauth_state' \in [Browsers -> 0 .. MaxAttempts],
         UNCHANGED <<users, attempts>>
  PROVE  IInv'
<1>1. TypeOK'
  BY DEF IInv, TypeOK
<1>2. Unique'
  BY DEF IInv, Unique
<1>3. \A g \in Granted' : g \in Granted
  <2> SUFFICES ASSUME NEW g \in Granted'
               PROVE  g \in Granted
    OBVIOUS
  <2>1. CASE \E c \in Browsers : session'[c] # NoSession /\ g = session'[c]
    <3>1. PICK c \in Browsers : session'[c] # NoSession /\ g = session'[c]
      BY <2>1
    <3>2. c = b \/ session'[c] = session[c]
      BY DEF IInv, TypeOK
    <3>3. session'[b] = value
      BY DEF IInv, TypeOK
    <3>4. QED
      BY <3>1, <3>2, <3>3 DEF Granted
  <2>2. CASE \E q \in Requests : requests'[q].stage = "granted" /\ g = requests'[q].grant
    <3>1. PICK q \in Requests : requests'[q].stage = "granted" /\ g = requests'[q].grant
      BY <2>2
    <3>2. requests'[q] = requests[q]
      BY <3>1 DEF Idle
    <3>3. QED
      BY <3>1, <3>2 DEF Granted
  <2>3. QED
    BY <2>1, <2>2 DEF Granted
<1>4. LoggedInAsSelf'
  BY <1>3, GrantsKept DEF IInv
<1>5. QED
  BY <1>1, <1>2, <1>4 DEF IInv

LEMMA SettledType ==
  ASSUME AccountsAssumption, TypeOK, NEW b \in Browsers, NEW by, Settled(b, by)
  PROVE  oauth_state' \in [Browsers -> 0 .. MaxAttempts]
BY DEF AccountsAssumption, TypeOK, Settled

LEMMA LoggedInInv ==
  ASSUME AccountsAssumption, IInv, NEW r \in Requests, LoggedIn(r)
  PROVE  IInv'
<1>1. requests[r] \in RequestRow /\ requests[r].stage = "granted"
  BY DEF LoggedIn, IInv, TypeOK, Idle
<1>2. requests[r].browser \in Browsers /\ requests[r].grant \in Grants
  BY <1>1 DEF RequestRow
<1>3. requests[r].grant \in Granted
  BY <1>1 DEF Granted
<1>4. oauth_state' \in [Browsers -> 0 .. MaxAttempts]
  BY <1>2, SettledType DEF LoggedIn, IInv
<1>5. /\ requests' \in [Requests -> RequestRow \cup {Idle}]
      /\ \A q \in Requests : requests'[q] = Idle \/ requests'[q] = requests[q]
  BY DEF LoggedIn, IInv, TypeOK
<1>6. /\ session' = [session EXCEPT ![requests[r].browser] = requests[r].grant]
      /\ UNCHANGED <<users, attempts>>
  BY DEF LoggedIn
<1>7. QED
  BY <1>2, <1>3, <1>4, <1>5, <1>6, ResponseInv

LEMMA NavToLoginInv ==
  ASSUME AccountsAssumption, IInv, NEW r \in Requests, NavToLogin(r)
  PROVE  IInv'
<1> DEFINE b == requests[r].browser
<1>1. requests[r] \in RequestRow /\ requests[r].stage = "refused"
  BY DEF NavToLogin, IInv, TypeOK, Idle
<1>2. b \in Browsers
  BY <1>1 DEF RequestRow
<1>3. oauth_state' \in [Browsers -> 0 .. MaxAttempts]
  BY <1>2, SettledType DEF NavToLogin, IInv
<1>4. /\ requests' \in [Requests -> RequestRow \cup {Idle}]
      /\ \A q \in Requests : requests'[q] = Idle \/ requests'[q] = requests[q]
  BY DEF NavToLogin, IInv, TypeOK
<1>5. UNCHANGED <<users, attempts>>
  BY DEF NavToLogin
<1>6. CASE session' = [session EXCEPT ![b] = NoSession]
  BY <1>2, <1>3, <1>4, <1>5, <1>6, ResponseInv
<1>7. CASE session' = session
  <2>1. session' = [session EXCEPT ![b] = session[b]]
    BY <1>2, <1>7 DEF IInv, TypeOK
  <2>2. session[b] \in Grants \cup {NoSession} /\ (session[b] = NoSession \/ session[b] \in Granted)
    BY <1>2 DEF IInv, TypeOK, Granted
  <2>3. QED
    BY <1>2, <1>3, <1>4, <1>5, <2>1, <2>2, ResponseInv
<1>8. QED
  BY <1>6, <1>7 DEF NavToLogin

LEMMA LogoutInv ==
  ASSUME AccountsAssumption, IInv, NEW b \in Browsers, Logout(b)
  PROVE  IInv'
<1>1. /\ session' = [session EXCEPT ![b] = NoSession]
      /\ UNCHANGED <<users, attempts, oauth_state, requests>>
  BY DEF Logout
<1>2. /\ oauth_state' \in [Browsers -> 0 .. MaxAttempts]
      /\ requests' \in [Requests -> RequestRow \cup {Idle}]
  BY <1>1 DEF IInv, TypeOK
<1>3. QED
  BY <1>1, <1>2, ResponseInv

-----------------------------------------------------------------------------
LEMMA StepInv ==
  ASSUME AccountsAssumption, IInv, [Next]_vars
  PROVE  IInv'
<1>1. ASSUME NEW name \in Names, NEW password \in Passwords, CreateUser(name, password)
      PROVE  IInv'
  BY <1>1, CreateUserInv
<1>2. ASSUME NEW b \in Browsers, Logout(b)
      PROVE  IInv'
  BY <1>2, LogoutInv
<1>3. ASSUME NEW b \in Browsers, NEW iss \in Issuers, StartLogin(b, iss)
      PROVE  IInv'
  BY <1>3, StartLoginInv
<1>4. ASSUME NEW b \in Browsers, NEW r \in Requests, NEW name \in Names,
             NEW password \in Passwords, Login(r, b, name, password)
      PROVE  IInv'
  BY <1>4, LoginInv
<1>5. ASSUME NEW b \in Browsers, NEW r \in Requests, NEW n \in 1 .. MaxAttempts,
             NEW sub \in Subs, NEW email \in Names \cup {NULL}, Callback(r, b, n, sub, email)
      PROVE  IInv'
  <2>1. n \in Nat
    BY <1>5
  <2>2. QED
    BY <1>5, <2>1, CallbackInv
<1>6. ASSUME NEW r \in Requests, GetOauthUser(r)
      PROVE  IInv'
  BY <1>6, GetOauthUserInv
<1>7. ASSUME NEW r \in Requests, CreateOauthUser(r)
      PROVE  IInv'
  BY <1>7, CreateOauthUserInv
<1>8. ASSUME NEW r \in Requests, Fail(r) \/ LoggedIn(r) \/ NavToLogin(r)
      PROVE  IInv'
  BY <1>8, FailInv, LoggedInInv, NavToLoginInv
<1>9. CASE UNCHANGED vars
  BY <1>9 DEF vars, IInv, TypeOK, Unique, LoggedInAsSelf, Granted
<1>10. QED
  BY <1>1, <1>2, <1>3, <1>4, <1>5, <1>6, <1>7, <1>8, <1>9 DEF Next

(***************************************************************************)
(* The invariant holds in every state.                                     *)
(***************************************************************************)
THEOREM AccountsInvariant == Spec => []IInv
<1> USE AccountsAssumption
<1>1. Init => IInv
  BY InitInv
<1>2. IInv /\ [Next]_vars => IInv'
  BY StepInv
<1>3. QED
  BY <1>1, <1>2, PTL DEF Spec

(***************************************************************************)
(* Whatever the logins under way, the rows, the sessions and what the      *)
(* requests have read keep their types.                                    *)
(***************************************************************************)
THEOREM AccountsTypeCorrect == Spec => []TypeOK
<1>1. IInv => TypeOK
  BY DEF IInv
<1>2. QED
  BY <1>1, AccountsInvariant, PTL

(***************************************************************************)
(* A session of hc-actix always names an account that what its holder      *)
(* showed belongs to, under the name that the account has.                 *)
(***************************************************************************)
THEOREM EverybodyIsThemselves == Spec => []LoggedInAsSelf
<1>1. IInv => LoggedInAsSelf
  BY DEF IInv
<1>2. QED
  BY <1>1, AccountsInvariant, PTL

(***************************************************************************)
(* hc_create_oauth_user and hc_validate_credentials lead one person to one *)
(* account, however many logins overlap.                                   *)
(***************************************************************************)
THEOREM OneAccountEach == Spec => []SameAccount
<1> USE AccountsAssumption
<1>1. IInv => SameAccount
  <2> SUFFICES ASSUME IInv, NEW g \in Granted, NEW h \in Granted, SamePerson(g, h)
               PROVE  g.user_id = h.user_id
    BY DEF SameAccount
  <2>1. PICK u \in users : Holds(g, u)
    BY DEF IInv, LoggedInAsSelf, Holds
  <2>2. PICK v \in users : Holds(h, v)
    BY DEF IInv, LoggedInAsSelf, Holds
  <2>3. g \in Grants /\ h \in Grants
    <3>1. \A r \in Requests : requests[r].stage = "granted" => requests[r].grant \in Grants
      BY DEF IInv, TypeOK, RequestRow, Idle
    <3>2. QED
      BY <3>1 DEF IInv, TypeOK, Granted
  <2>4. ~Apart(u, v)
    <3>1. CASE g.username = h.username /\ g.username # NULL
      BY <2>1, <2>2, <3>1 DEF Holds, Apart
    <3>2. CASE g.proof.by = h.proof.by /\ g.proof.name = h.proof.name
      <4>1. g.proof \in Proofs
        BY <2>3 DEF Grants
      <4>2. CASE g.proof.by = "google"
        BY <2>1, <2>2, <3>2, <4>1, <4>2 DEF Holds, Proves, Apart, Proofs, Issuers, AccountsAssumption
      <4>3. CASE g.proof.by = "apple"
        BY <2>1, <2>2, <3>2, <4>1, <4>3 DEF Holds, Proves, Apart, Proofs, Issuers, AccountsAssumption
      <4>4. CASE g.proof.by = "password"
        BY <2>1, <2>2, <3>2, <4>1, <4>4 DEF Holds, Proves, Apart, Proofs, Issuers, AccountsAssumption
      <4>5. QED
        BY <4>1, <4>2, <4>3, <4>4 DEF Proofs, Issuers
    <3>3. QED
      BY <3>1, <3>2 DEF SamePerson
  <2>5. u = v
    BY <2>4 DEF IInv, Unique
  <2>6. QED
    BY <2>1, <2>2, <2>5 DEF Holds
<1>2. QED
  BY <1>1, AccountsInvariant, PTL
=============================================================================
