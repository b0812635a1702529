------------------------------- MODULE HcAxum -------------------------------
(***************************************************************************)
(* The server hc-axum: accounts as in hc-actix, but with its own sessions, *)
(* which are kept in the memory of the server and are gone when it is      *)
(* restarted; and pages on which synopses are written, graded, saved and   *)
(* looked up again.                                                        *)
(*                                                                         *)
(* A page shows the name of whoever was logged in when it was loaded; what *)
(* it saves belongs to whoever is logged in when that arrives.             *)
(***************************************************************************)
EXTENDS Accounts, Synopsis

CONSTANTS
  Papers,        \* UUIDs of synopses: bound on how many are submitted
  Drafts         \* what may be written: [verb, pp, person, number, slips, marks, checked]

VARIABLES
  synopses,      \* the rows of table greeksynopsisresults
  pages,         \* for each browser the synopsis page it shows
  saves          \* for each paper how far its submission has got

synopsisVars == <<synopses, pages, saves>>
axumVars == <<vars, synopsisVars>>

\* The page does not offer oida: its synopsis has more forms than cells.
ASSUME AxumAssumption ==
  /\ \A d \in Drafts : /\ d.verb \in Verbs \ Oida
                       /\ \A n \in DOMAIN d.marks : d.marks[n] \in Nat
  /\ NULL \notin UserIds

-----------------------------------------------------------------------------
NoResult == [id |-> NULL]
NoPage == [name |-> NULL, steady |-> FALSE, result |-> NoResult]
Unused == [stage |-> "unused"]
Failed == [stage |-> "failed"]
Panicked == [stage |-> "panicked"]

(***************************************************************************)
(* A submission nobody waits for any more.  What was submitted is kept, for*)
(* the properties, if it was stored.                                       *)
(***************************************************************************)
Over(save) ==
  CASE save.stage = "sent"   -> Failed
    [] save.stage = "stored" -> [stage |-> "over", payload |-> save.payload]
    [] OTHER                 -> save

Username(b) == IF session[b] = NoSession THEN NULL ELSE session[b].username

(***************************************************************************)
(* steady is not in the code: since the page was loaded its player has not *)
(* logged in or out, and the server has been up.                           *)
(***************************************************************************)
Disturbed(bs) ==
  /\ pages' = [b \in Browsers |->
       IF b \in bs THEN [pages[b] EXCEPT !.steady = FALSE] ELSE pages[b]]
  /\ saves' = [p \in Papers |->
       IF saves[p].stage = "sent" /\ saves[p].browser \in bs
         THEN [saves[p] EXCEPT !.steady = FALSE] ELSE saves[p]]

-----------------------------------------------------------------------------
(* Logins.  What Accounts says of the table, the cookies that carry state  *)
(* and nonce, and the callbacks holds here too.                            *)

(***************************************************************************)
(* Handlers that leave the browser's session alone, at least until they    *)
(* answer.                                                                 *)
(***************************************************************************)
NewUserPost ==
  \E name \in Names, password \in Passwords : CreateUser(name, password)

LoginPost(r, b) ==
  \E name \in Names, password \in Passwords : Login(r, b, name, password)

ReturnFrom(iss, r, b) ==
  \E n \in DOMAIN attempts[b], sub \in Subs, email \in Names \cup {NULL} :
    attempts[b][n] = iss /\ Callback(r, b, n, sub, email)

OauthAuthApple(r, b) == ReturnFrom("apple", r, b)
OauthAuthGoogle(r, b) == ReturnFrom("google", r, b)

LoginUnderWay ==
  /\ \/ NewUserPost
     \/ \E r \in Requests, b \in Browsers :
          LoginPost(r, b) \/ OauthAuthApple(r, b) \/ OauthAuthGoogle(r, b)
     \/ \E r \in Requests : GetOauthUser(r) \/ CreateOauthUser(r) \/ Fail(r)
  /\ UNCHANGED synopsisVars

(***************************************************************************)
(* Answers.                                                                *)
(***************************************************************************)
AxumLoggedIn(r) ==
  /\ LoggedIn(r)
  /\ Disturbed({requests[r].browser})
  /\ UNCHANGED synopses

\* Mutant: a login that fails ends the session, as it does in hc-actix.
AxumNavToLoginPurging(r) == NavToLogin(r) /\ UNCHANGED synopsisVars

(***************************************************************************)
(* Redirect to /login: whoever is logged in stays so.                      *)
(***************************************************************************)
AxumNavToLogin(r) ==
  /\ requests[r].stage = "refused"
  /\ Settled(requests[r].browser, requests[r].by)
  /\ requests' = [requests EXCEPT ![r] = Idle]
  /\ UNCHANGED <<users, session, attempts, synopsisVars>>

(***************************************************************************)
(* oauth_login_google, oauth_login_apple: session.clear().                 *)
(***************************************************************************)
AxumStartLogin(b, iss) ==
  /\ Len(attempts[b]) < MaxAttempts
  /\ attempts' = [attempts EXCEPT ![b] = Append(@, iss)]
  /\ oauth_state' = [oauth_state EXCEPT ![b] = Len(attempts[b]) + 1]
  /\ session' = [session EXCEPT ![b] = NoSession]
  /\ Disturbed({b})
  /\ UNCHANGED <<users, requests, synopses>>

AxumLogout(b) == Logout(b) /\ Disturbed({b}) /\ UNCHANGED synopses

-----------------------------------------------------------------------------
(* Synopses.                                                               *)

(***************************************************************************)
(* Leaving a page: what it still waits for is not shown any more.          *)
(***************************************************************************)
Left(b) ==
  saves' = [p \in Papers |->
    IF saves[p].stage \in {"sent", "stored"} /\ saves[p].browser = b
      THEN [saves[p] EXCEPT !.watched = FALSE] ELSE saves[p]]

(***************************************************************************)
(* greek_synopsis: an empty page, or the one that a link with id leads to. *)
(***************************************************************************)
GreekSynopsis(b) ==
  /\ \E result \in {NoResult} \cup {[id |-> row.id, res |-> GetSynopsisResult(row)] : row \in synopses} :
       pages' = [pages EXCEPT ![b] = [name |-> Username(b), steady |-> TRUE, result |-> result]]
  /\ Left(b)
  /\ UNCHANGED <<vars, synopses>>

(***************************************************************************)
(* What stands in the cells of the page: the right forms but for some      *)
(* slips, where the form of the next cell is written, and some marks,      *)
(* apostrophes, which the page lets through; or what the page's button     *)
(* "check" fills in itself.                                                *)
(***************************************************************************)
Written(draft) ==
  IF draft.checked
    THEN GetSynopsis(draft.verb)
    ELSE [n \in DOMAIN Cells |->
            Text(Form(draft.verb, Cells[IF n \in draft.slips THEN n + 1 ELSE n]),
                 IF n \in DOMAIN draft.marks THEN draft.marks[n] ELSE 0)]

(***************************************************************************)
(* submitSynopsis, on a page that is not showing a result.  Nothing keeps  *)
(* the player from submitting again before the answer has come.            *)
(***************************************************************************)
Submit(b, p) ==
  /\ pages[b] # NoPage
  /\ pages[b].result = NoResult
  /\ saves[p] = Unused
  /\ \E d \in Drafts :
       saves' = [saves EXCEPT ![p] =
         [stage |-> "sent", browser |-> b, watched |-> TRUE,
          as |-> pages[b].name, steady |-> pages[b].steady,
          payload |-> Request(d.verb, d.person, d.number, d.pp, Written(d))]]
  /\ UNCHANGED <<vars, synopses, pages>>

(***************************************************************************)
(* greek_synopsis_saver: save_synopsis with its INSERT and commit.  It     *)
(* panics, or the database fails or refuses the statement, and nothing is  *)
(* stored.                                                                 *)
(***************************************************************************)
SaveSynopsis(p) ==
  /\ saves[p].stage = "sent"
  /\ LET payload == saves[p].payload
         user_id == session[saves[p].browser].user_id
     IN  IF Panics(payload)
           THEN saves' = [saves EXCEPT ![p] = Panicked] /\ UNCHANGED synopses
           ELSE \/ /\ 3 * Len(payload.r) = Columns
                   /\ synopses' = synopses \cup {SynopsisRow(p, user_id, Graded(payload))}
                   /\ saves' = [saves EXCEPT ![p].stage = "stored"]
                \/ saves' = [saves EXCEPT ![p] = Failed] /\ UNCHANGED synopses
  /\ UNCHANGED <<vars, pages>>

(***************************************************************************)
(* The answer arrives and the page, if it is still there, shows the result.*)
(***************************************************************************)
ShowResult(p) ==
  LET b == saves[p].browser
  IN  /\ saves[p].stage = "stored"
      /\ saves' = [saves EXCEPT ![p] = Over(@)]
      /\ pages' = IF saves[p].watched
                    THEN [pages EXCEPT ![b].result = [id |-> p, res |-> Graded(saves[p].payload)]]
                    ELSE pages
      /\ UNCHANGED <<vars, synopses>>

(***************************************************************************)
(* The request or the answer is lost on the way; the page says so.         *)
(***************************************************************************)
LoseSave(p) ==
  /\ saves[p].stage \in {"sent", "stored"}
  /\ saves' = [saves EXCEPT ![p] = Over(@)]
  /\ UNCHANGED <<vars, synopses, pages>>

(***************************************************************************)
(* greek_synopsis_list with greek_get_synopsis_list.  NULL equals no       *)
(* user_id: without a login the list is empty.                             *)
(***************************************************************************)
GreekGetSynopsisList(user_id) ==
  {row \in synopses : row.user_id = user_id /\ user_id # NULL}

-----------------------------------------------------------------------------
(***************************************************************************)
(* The server is stopped, or crashes, and is started again: MemoryStore is *)
(* empty and requests get no answer.  Cookies stay with the browsers.      *)
(***************************************************************************)
Restart ==
  /\ session' = [b \in Browsers |-> NoSession]
  /\ requests' = [r \in Requests |-> Idle]
  /\ pages' = [b \in Browsers |-> [pages[b] EXCEPT !.steady = FALSE]]
  /\ saves' = [p \in Papers |-> Over(saves[p])]
  /\ UNCHANGED <<users, attempts, oauth_state, synopses>>

AxumInit ==
  /\ Init
  /\ synopses = {}
  /\ pages = [b \in Browsers |-> NoPage]
  /\ saves = [p \in Papers |-> Unused]

AxumNext ==
  \/ LoginUnderWay
  \/ \E r \in Requests : AxumLoggedIn(r) \/ AxumNavToLogin(r)
  \/ \E b \in Browsers :
       \/ AxumLogout(b)
       \/ \E iss \in Issuers : AxumStartLogin(b, iss)
       \/ GreekSynopsis(b)
       \/ \E p \in Papers : Submit(b, p)
  \/ \E p \in Papers : SaveSynopsis(p) \/ ShowResult(p) \/ LoseSave(p)
  \/ Restart

AxumSpec == AxumInit /\ [][AxumNext]_axumVars

-----------------------------------------------------------------------------
(* Properties.                                                             *)

(***************************************************************************)
(* Types of the rows, the pages and the submissions.                       *)
(***************************************************************************)
AxumTypeOK ==
  /\ TypeOK
  /\ \A row \in synopses :
       row.id \in Papers /\ row.user_id \in UserIds \cup {NULL} /\ Len(row.cells) = Columns
  /\ \A b \in Browsers :
       /\ pages[b].name \in Names \cup {NULL}
       /\ pages[b].steady \in BOOLEAN
       /\ pages[b].result.id \in Papers \cup {NULL}
  /\ \A p \in Papers :
       saves[p].stage \in {"unused", "sent", "stored", "over", "failed", "panicked"}

(***************************************************************************)
(* No submission of the page makes the server panic: the page has as many  *)
(* cells as get_forms has forms.                                           *)
(***************************************************************************)
SavesGoThrough == \A p \in Papers : saves[p].stage # "panicked"

(***************************************************************************)
(* A page that shows a result, be it an answer or what a link led to,      *)
(* shows what was submitted, graded cell by cell, and so will the database *)
(* under the link - across restarts and lost answers.  It will show the    *)
(* very same, if nobody wrote an apostrophe; but halved apostrophes, if    *)
(* they come in pairs; and of a text with an odd one nothing is promised,  *)
(* except that the row is there.                                           *)
(***************************************************************************)
ResultsHold ==
  \A b \in Browsers : pages[b].result # NoResult =>
    LET payload == saves[pages[b].result.id].payload
        res == pages[b].result.res
    IN  /\ Paired(payload) => GradedByCell(payload, res)
        /\ \E row \in synopses :
             /\ row.id = pages[b].result.id
             /\ Paired(payload) => GradedByCell(payload, GetSynopsisResult(row))
             /\ Unmarked(payload) => GetSynopsisResult(row) = res

(***************************************************************************)
(* A synopsis saved on a page that shows a user's name is in that user's   *)
(* list - unless the player has logged in or out since the page was loaded *)
(* or the server was restarted: then it may be in nobody's list, or in     *)
(* somebody else's, and the page does not say so.                          *)
(***************************************************************************)
KeptForUser ==
  \A p \in Papers :
    saves[p].stage = "stored" /\ saves[p].steady /\ saves[p].as # NULL =>
      \E u \in users :
        /\ u.user_name = saves[p].as
        /\ \E row \in GreekGetSynopsisList(u.user_id) : row.id = p
=============================================================================
