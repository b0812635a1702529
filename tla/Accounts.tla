------------------------------ MODULE Accounts ------------------------------
(***************************************************************************)
(* Accounts and how a browser is logged in to one: registration and login  *)
(* by password, and login by Google or Apple, which creates the account    *)
(* the first time.  libhc keeps the table of users, hc-actix the session   *)
(* cookie of each browser.                                                 *)
(*                                                                         *)
(* Handlers run concurrently.  An external login reads the table in one    *)
(* statement and inserts in another; all that keeps two first logins apart *)
(* are the table's UNIQUE columns.  A single INSERT with its commit is one *)
(* step: a second one that conflicts waits for it and then fails.          *)
(***************************************************************************)
EXTENDS Naturals, Sequences

CONSTANTS
  Browsers,
  Subs,          \* what an issuer calls a person; two issuers may use the same
  Names,         \* user names, and the addresses that serve as such
  Passwords,     \* those that new_user_post and hc_create_user accept
  UserIds,       \* fresh UUIDs
  NULL,          \* a column without a value, or a login without an address
  NoPassword,    \* the empty string in place of a hash
  Requests,      \* logins that may be in progress at the same time
  MaxAttempts    \* bound of the model: external logins started in a browser

Issuers == {"google", "apple"}

ASSUME AccountsAssumption ==
  /\ NULL \notin Subs \cup Names
  /\ NoPassword \notin Passwords
  /\ MaxAttempts \in Nat

VARIABLES
  users,         \* the rows of table users
  session,       \* for each browser what its session cookie says
  attempts,      \* for each browser the issuers of the external logins it started
  oauth_state,   \* for each browser the attempt its state cookie names; 0 is an empty cookie
  requests       \* the logins in progress

vars == <<users, session, attempts, oauth_state, requests>>

-----------------------------------------------------------------------------
UserRow ==
  [user_id   : UserIds,
   google    : Subs \cup {NULL},     \* google_oauth_sub
   apple     : Subs \cup {NULL},     \* apple_oauth_sub
   user_name : Names \cup {NULL},
   password  : Passwords \cup {NoPassword}]

(***************************************************************************)
(* What somebody logs in with: a name an issuer vouches for, or a user     *)
(* name with a password.                                                   *)
(***************************************************************************)
Proofs ==
  [by : Issuers, name : Subs, password : {NoPassword}]
  \cup [by : {"password"}, name : Names, password : Passwords]

(***************************************************************************)
(* user_id and username, as the session keeps them.  How they were come by *)
(* is not in the code; it is kept for the properties.                      *)
(***************************************************************************)
Grants == [user_id : UserIds, username : Names \cup {NULL}, proof : Proofs]

NoSession == [user_id |-> NULL]
Idle == [stage |-> "idle"]

Grant(u, proof) == [user_id |-> u.user_id, username |-> u.user_name, proof |-> proof]

-----------------------------------------------------------------------------
(* The table.                                                              *)

\* Mutant: the columns of the external names are not UNIQUE.
MayInsertNamesake(row) ==
  \A u \in users : u.user_name = NULL \/ u.user_name # row.user_name

(***************************************************************************)
(* UNIQUE(user_name), UNIQUE(google_oauth_sub), UNIQUE(apple_oauth_sub):   *)
(* NULL is like no other value.                                            *)
(***************************************************************************)
MayInsert(row) ==
  \A u \in users :
    /\ u.user_name = NULL \/ u.user_name # row.user_name
    /\ u.google = NULL \/ u.google # row.google
    /\ u.apple = NULL \/ u.apple # row.apple

\* Mutant: one column is searched for both issuers.
FoundByEither(iss, sub) == {u \in users : sub \in {u.google, u.apple}}

(***************************************************************************)
(* get_oauth_user.                                                         *)
(***************************************************************************)
Found(iss, sub) ==
  {u \in users : IF iss = "apple" THEN u.apple = sub ELSE u.google = sub}

\* Mutant: the issuer's name for the person is stored as the user name.
NewOauthUserNamed(id, proof, email) ==
  [user_id   |-> id,
   google    |-> IF proof.by = "google" THEN proof.name ELSE NULL,
   apple     |-> IF proof.by = "apple" THEN proof.name ELSE NULL,
   user_name |-> proof.name,
   password  |-> NoPassword]

(***************************************************************************)
(* An external account has its address as user name, if it has one.        *)
(***************************************************************************)
NewOauthUser(id, proof, email) ==
  [user_id   |-> id,
   google    |-> IF proof.by = "google" THEN proof.name ELSE NULL,
   apple     |-> IF proof.by = "apple" THEN proof.name ELSE NULL,
   user_name |-> email,
   password  |-> NoPassword]

FreshIds == UserIds \ {u.user_id : u \in users}

-----------------------------------------------------------------------------
(* Passwords.                                                              *)

NewUser(id, name, password) ==
  [user_id   |-> id,
   google    |-> NULL,
   apple     |-> NULL,
   user_name |-> name,
   password  |-> password]

(***************************************************************************)
(* new_user_post with hc_create_user: one INSERT, and no session.          *)
(***************************************************************************)
CreateUser(name, password) ==
  /\ \E id \in FreshIds :
       LET row == NewUser(id, name, password)
       IN  MayInsert(row) /\ users' = users \cup {row}
  /\ UNCHANGED <<session, attempts, oauth_state, requests>>

\* Mutant: an account without password accepts any.
MatchesUnprotected(u, proof) ==
  u.user_name = proof.name /\ u.password \in {proof.password, NoPassword}

(***************************************************************************)
(* hc_validate_credentials.  Rows are never changed, so it does not matter *)
(* that the hash is verified long after the row was read.  The hash of an  *)
(* account without password matches nothing.                               *)
(***************************************************************************)
Matches(u, proof) == u.user_name = proof.name /\ u.password = proof.password

(***************************************************************************)
(* login_post.  It refuses also if the database fails.                     *)
(***************************************************************************)
Login(r, b, name, password) ==
  LET proof == [by |-> "password", name |-> name, password |-> password]
  IN  /\ requests[r] = Idle
      /\ \/ \E u \in users :
              /\ Matches(u, proof)
              /\ requests' = [requests EXCEPT ![r] =
                   [stage |-> "granted", browser |-> b, grant |-> Grant(u, proof)]]
         \/ requests' = [requests EXCEPT ![r] =
              [stage |-> "refused", browser |-> b, by |-> "password"]]
      /\ UNCHANGED <<users, session, attempts, oauth_state>>

-----------------------------------------------------------------------------
(* Google and Apple.                                                       *)

(***************************************************************************)
(* oauth_login_google, oauth_login_apple: the state cookie is replaced and *)
(* the browser is sent to the issuer.  The session is renewed, not ended.  *)
(***************************************************************************)
StartLogin(b, iss) ==
  /\ Len(attempts[b]) < MaxAttempts
  /\ attempts' = [attempts EXCEPT ![b] = Append(@, iss)]
  /\ oauth_state' = [oauth_state EXCEPT ![b] = Len(attempts[b]) + 1]
  /\ UNCHANGED <<users, session, requests>>

(***************************************************************************)
(* oauth_auth_google, oauth_auth_apple up to hc_create_oauth_user: the     *)
(* issuer sends the browser back, once or more often, with the state of an *)
(* attempt n and a token for sub.  The attempt must be the one the cookie  *)
(* names and the token valid.                                              *)
(***************************************************************************)
Callback(r, b, n, sub, email) ==
  LET iss == attempts[b][n]
      proof == [by |-> iss, name |-> sub, password |-> NoPassword]
  IN  /\ requests[r] = Idle
      /\ n \in DOMAIN attempts[b]
      /\ requests' = [requests EXCEPT ![r] =
           IF oauth_state[b] = n
             THEN [stage |-> "validated", browser |-> b, proof |-> proof, email |-> email]
             ELSE [stage |-> "refused", browser |-> b, by |-> iss]]
      /\ UNCHANGED <<users, session, attempts, oauth_state>>

Answer(r, u) ==
  [stage |-> "granted", browser |-> requests[r].browser, grant |-> Grant(u, requests[r].proof)]

Refusal(r) ==
  [stage |-> "refused", browser |-> requests[r].browser, by |-> requests[r].proof.by]

(***************************************************************************)
(* hc_create_oauth_user: the account is looked up.                         *)
(***************************************************************************)
GetOauthUser(r) ==
  /\ requests[r].stage = "validated"
  /\ LET found == Found(requests[r].proof.by, requests[r].proof.name)
     IN  \/ \E u \in found : requests' = [requests EXCEPT ![r] = Answer(r, u)]
         \/ found = {} /\ requests' = [requests EXCEPT ![r].stage = "unknown"]
  /\ UNCHANGED <<users, session, attempts, oauth_state>>

(***************************************************************************)
(* It was not found and is created, unless a column of another account is  *)
(* in the way by now.                                                      *)
(***************************************************************************)
CreateOauthUser(r) ==
  /\ requests[r].stage = "unknown"
  /\ \E id \in FreshIds :
       LET row == NewOauthUser(id, requests[r].proof, requests[r].email)
       IN  IF MayInsert(row)
             THEN /\ users' = users \cup {row}
                  /\ requests' = [requests EXCEPT ![r] = Answer(r, row)]
             ELSE /\ requests' = [requests EXCEPT ![r] = Refusal(r)]
                  /\ UNCHANGED users
  /\ UNCHANGED <<session, attempts, oauth_state>>

(***************************************************************************)
(* The token is no good, or the database fails: nothing is written.        *)
(***************************************************************************)
Fail(r) ==
  /\ requests[r].stage \in {"validated", "unknown"}
  /\ requests' = [requests EXCEPT ![r] = Refusal(r)]
  /\ UNCHANGED <<users, session, attempts, oauth_state>>

-----------------------------------------------------------------------------
(* Responses, which reach the browser in any order.                        *)

(***************************************************************************)
(* After an external login the state cookie is emptied.                    *)
(***************************************************************************)
Settled(b, by) ==
  oauth_state' = IF by = "password" THEN oauth_state ELSE [oauth_state EXCEPT ![b] = 0]

(***************************************************************************)
(* The session's user_id and username are set together.                    *)
(***************************************************************************)
LoggedIn(r) ==
  /\ requests[r].stage = "granted"
  /\ session' = [session EXCEPT ![requests[r].browser] = requests[r].grant]
  /\ Settled(requests[r].browser, requests[r].grant.proof.by)
  /\ requests' = [requests EXCEPT ![r] = Idle]
  /\ UNCHANGED <<users, attempts>>

(***************************************************************************)
(* The session is purged - if the browser sent it along, which it need not *)
(* when another site sends it here (SameSite::Strict).                     *)
(***************************************************************************)
NavToLogin(r) ==
  LET b == requests[r].browser
      purged == [session EXCEPT ![b] = NoSession]
  IN  /\ requests[r].stage = "refused"
      /\ \/ session' = purged
         \/ requests[r].by # "password" /\ session' = session
      /\ Settled(b, requests[r].by)
      /\ requests' = [requests EXCEPT ![r] = Idle]
      /\ UNCHANGED <<users, attempts>>

Logout(b) ==
  /\ session' = [session EXCEPT ![b] = NoSession]
  /\ UNCHANGED <<users, attempts, oauth_state, requests>>

-----------------------------------------------------------------------------
Init ==
  /\ users = {}
  /\ session = [b \in Browsers |-> NoSession]
  /\ attempts = [b \in Browsers |-> <<>>]
  /\ oauth_state = [b \in Browsers |-> 0]
  /\ requests = [r \in Requests |-> Idle]

Next ==
  \/ \E name \in Names, password \in Passwords : CreateUser(name, password)
  \/ \E b \in Browsers :
       \/ Logout(b)
       \/ \E iss \in Issuers : StartLogin(b, iss)
       \/ \E r \in Requests :
            \/ \E name \in Names, password \in Passwords : Login(r, b, name, password)
            \/ \E n \in 1 .. MaxAttempts, sub \in Subs, email \in Names \cup {NULL} :
                 Callback(r, b, n, sub, email)
  \/ \E r \in Requests :
       \/ GetOauthUser(r)
       \/ CreateOauthUser(r)
       \/ Fail(r)
       \/ LoggedIn(r)
       \/ NavToLogin(r)

Spec == Init /\ [][Next]_vars

-----------------------------------------------------------------------------
(* Properties.                                                             *)

(***************************************************************************)
(* Types of the rows, the cookies and the logins in progress.              *)
(***************************************************************************)
RequestRow ==
  [stage : {"validated", "unknown"}, browser : Browsers,
   proof : [by : Issuers, name : Subs, password : {NoPassword}], email : Names \cup {NULL}]
  \cup [stage : {"granted"}, browser : Browsers, grant : Grants]
  \cup [stage : {"refused"}, browser : Browsers, by : Issuers \cup {"password"}]

TypeOK ==
  /\ users \subseteq UserRow
  /\ session \in [Browsers -> Grants \cup {NoSession}]
  /\ attempts \in [Browsers -> Seq(Issuers)]
  /\ oauth_state \in [Browsers -> 0 .. MaxAttempts]
  /\ requests \in [Requests -> RequestRow \cup {Idle}]

(***************************************************************************)
(* Every login a browser has or is about to be given.                      *)
(***************************************************************************)
Granted ==
  {session[b] : b \in {c \in Browsers : session[c] # NoSession}}
  \cup {requests[r].grant : r \in {q \in Requests : requests[q].stage = "granted"}}

Proves(proof, u) ==
  CASE proof.by = "google"   -> u.google = proof.name
    [] proof.by = "apple"    -> u.apple = proof.name
    [] proof.by = "password" -> u.user_name = proof.name /\ u.password = proof.password

(***************************************************************************)
(* Whoever is logged in is logged in to an account of their own: it exists,*)
(* bears the name the session shows, and is the one that what they showed  *)
(* belongs to - also when an issuer's name for one person is the other     *)
(* issuer's name for somebody else, or the user name is another's address. *)
(***************************************************************************)
LoggedInAsSelf ==
  \A g \in Granted : \E u \in users :
    u.user_id = g.user_id /\ u.user_name = g.username /\ Proves(g.proof, u)

(***************************************************************************)
(* The same person comes to the same account every time, from whichever    *)
(* browser and also when two first logins overlap; and one user name, by   *)
(* which players challenge each other, stands for one account.             *)
(***************************************************************************)
SamePerson(g, h) ==
  \/ g.proof.by = h.proof.by /\ g.proof.name = h.proof.name
  \/ g.username = h.username /\ g.username # NULL

SameAccount == \A g, h \in Granted : SamePerson(g, h) => g.user_id = h.user_id

=============================================================================
