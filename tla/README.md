# Verification of hc-actixweb

`hc-actixweb` is a web game about Greek verbs: two players ask each other for
verb forms, or one player practises against the program. This directory holds
TLA+ modules that model the program, TLC configurations that check them on small
instances, and TLAPS proofs about them for every size.

Paths such as `libhc/src/lib.rs` are relative to `src/`.

## The system

| part | source | state | operations |
|---|---|---|---|
| game core | `libhc/src/lib.rs` | tables `sessions` and `moves` | `hc_insert_session`, `hc_ask`, `hc_answer`, `hc_mf_pressed`; views `hc_get_move`, `hc_get_sessions`, `hc_get_game_moves` with `hc_move_get_type` |
| practice rotation | `libhc/src/lib.rs` | none of its own: the last 100 moves | `hc_ask_practice`, `hc_change_verbs`, `hc_get_available_verbs_practice` |
| database | `libhc/src/dbpostgres.rs`, `dbsqlite.rs` | the tables, open transactions, row locks | one method per statement, `begin_tx`, `commit_tx`, `rollback_tx` |
| game server | `hc-actix/src/server.rs` | who is connected, who is in which room | `Connect`, `Disconnect`, `Join`, `ClientMessage` |
| websocket session | `hc-actix/src/session.rs` | heartbeat, user | one handler per message, each spawned as a future |
| HTTP handlers | `hc-actix/src/main.rs`, `hc-axum/src/main.rs` | none | one per route, each calls one function of `libhc` |
| accounts | `hc-actix/src/login.rs`, `hc-axum/src/login.rs`, `libhc` | table `users`, the login session (a cookie; in `hc-axum` the server's memory) | password, Google and Apple login, registration |
| browser client | `hc-actix/src/index.html` | the form and its button, countdowns, selected game, requests on their way | submit, multiple forms, new game, timeouts, the answers |
| schedule | `hc-axum/src/main.rs`, `sgi.xml` | none | `make_schedule` |
| synopsis | `libhc/src/synopsis.rs`, `hc-axum/src/main.rs`, `greek-synopsis.html` | table `greeksynopsisresults`, the page | list, show, save |
| blocking client | `libhc/src/hcblockingclient.rs` | a runtime | the functions of `libhc`, one at a time |

A request reaches `libhc` from an HTTP handler or from the websocket actor. It
takes the time first (`get_timestamp`, whole seconds), then begins a transaction,
reads the session and its last move, checks that the request is in sequence,
writes, reads the new state back and commits. After the commit the websocket
actor opens a second transaction, computes the opponent's view and hands it to
the game server, which sends it to everybody else in the session's room.

Nothing serialises two requests: the websocket actor *spawns* each message
(`ctx.spawn`, `session.rs`), so even one connection's requests overlap, and the
HTTP handlers run on all workers. Only the database stands between them.
The deployed program uses PostgreSQL with its default isolation, read committed;
SQLite is what the tests and the blocking client use.

### What is hard here

* **The last move is looked up by the greatest `asktimestamp`.** The clock has
  whole seconds and may run back, so every question is dated at least one after
  the one before it. Every check, view and grade depends on this.
* **Check, then act.** The check of a handler reads the last move; the write comes
  statements later, and `update_answer_move_tx` looks up the last move again.
* **An answer is several writes**: the move, `sessions.updated`, the score or the
  next practice question.
* **Practice** has no second player to put things right: a session without an open
  question that is the last move is stuck for good.
* **The rotation of practice verbs** is recomputed from a window of 100 moves.
* Views and checks are separate code: the player who is told to move should be the
  one whose request is accepted.
* Connections are registered by user, not by connection, while a user's old and new
  connection overlap for as long as the heartbeat takes.
* A page joins a room, then reads its view; a move is committed, then viewed for the
  opponent, then pushed: three actors take turns in between. A view that cannot be read leaves the
  room joined and the page where it was.
* An external login looks its account up and creates it in two statements, while callbacks come late or
  twice; accounts of three kinds share one table.
* The page has one form and one button. A countdown presses it whatever it says by then, answers to requests
  come in any order and change the form whatever game is selected, and a lost one is not noticed.
* The page alone keeps the rule that a mistake is followed by a new verb.
* `hc-axum` keeps its sessions in memory: a restart logs everybody out while their pages stay open.
* A synopsis is enumerated three times (page, grading, table) and matched by position; its answers are spliced into
  the text of an SQL statement.
* The calendar steps over holidays and week ends once, and does not look where it lands.

`PROJECT.json` lists every hazard at its line.

## Modules

| module | models | its state |
|---|---|---|
| `PracticeVerbs` | `hc_change_verbs`, `hc_get_available_verbs_practice` and the choice made from them | none: operators |
| `HcGame` | the four handlers as atomic steps, and `hc_move_get_type` | `sessions`: a row for each id; `moves`: for each id its moves in the order of insertion |
| `HcGameTx` | the same handlers statement by statement, several at once, under either isolation | the same tables as committed, and `txs`: for each open request what it has read and how far it is |
| `PracticeCycle` | one long practice session | the session's verbs and repetitions, and the verbs asked, newest first |
| `HcGameServer` | the actor of `server.rs`: its mailbox and handlers | `mailbox`, `registered` (the code's `sessions`), `rooms` |
| `WsHcGameSession` | the actors of `session.rs` with that server: connections, heartbeat, frames, pushes | the server's, and `conn`, `silent`, `requests`, `played`, `untold`, `showing`, `told`, `unanswered` |
| `Accounts` | registration and logins of `hc-actix/src/login.rs`, with their functions in `libhc` | `users`: the table; `session`, `oauth_state`, `attempts` of each browser; `requests` in progress |
| `Match` | the rules of a game as its players know them: the abstract specification of `HcGame` | `match`: for each match its phase, pair, last actor and points |
| `HcClient` | the page `index.html` with the HTTP handlers it calls | the tables of `HcGame`, and for each reader `page` (the form) and `calls` (requests on their way) |
| `Schedule` | `make_schedule` of `hc-axum` | `course`: what the program was built with; `calendar`: the rows of the page |
| `Synopsis` | the cells of the page, `get_forms`, `save_synopsis`, the columns of the table | none: operators |
| `HcAxum` | logins, sessions in memory, synopsis pages and handlers of `hc-axum`, with restarts | those of `Accounts`, and `synopses` (the table), `pages`, `saves` |
| `HcGameProofs`, `HcGameTxProofs`, `PracticeCycleProofs`, `WsHcGameSessionProofs`, `AccountsProofs`, `HcClientProofs`, `HcAxumProofs` | theorems and their proofs | |
| `SequenceLemmas` | lemmas about sequences that these need | |
| `MCHcGame`, `MCHcGameTx`, `MCPracticeCycle`, `MCWsHcGameSession`, `MCAccounts`, `MCHcClient`, `MCHcAxum` | values for the constants, and the instances of a run | |

`HcGame` extends `PracticeVerbs`; `HcGameTx` extends `HcGame` and commits with the
very actions of `HcGame` (`InsertAsk`, `RecordAnswer`), so that what an atomic
handler does and what a committing transaction does cannot drift apart.
`PracticeCycle` runs `PracticeVerbs` alone, because a session longer than the window
is out of reach among all the other behaviour. `HcClient` extends `HcGame` and calls its actions as handlers;
`WsHcGameSession` extends `HcGameServer`; `HcAxum` extends `Accounts` and `Synopsis`.

### HcGame

A row of `sessions` has the columns the handlers use; `NoUser` stands for NULL, and a
row without challenger for no row. `moves[s]` is the sequence of rows in the
order they were inserted, which the code does not have: it only has timestamps.
`LastMoves` is the set of rows `ORDER BY asktimestamp DESC LIMIT 1` may return, so
that an ambiguous last move would show up as a nondeterministic handler.

* `InsertSession` is `hc_insert_session`; with no opponent it also asks the first
  practice question.
* `Ask` is `hc_ask`: `MayAsk` is its check and `AskTimestamp` its correction of the date.
* `Answer` and `MfPressed` are `hc_answer` and `hc_mf_pressed`: `MayAnswer`, then
  `RecordAnswer`, which both share in the code by repetition. The row graded (`i`)
  and the row written (`j`) are looked up separately, as in the code.
* A handler that returns an error, panics or rolls back leaves the tables alone and
  is the absence of a step.
* `MoveType` is `hc_move_get_type`.

`KeepsTheRules` says that `HcGame` implements `Match`, under the mapping `Standing`: the phase is read off the
last move, who acted last off its columns, the points off the scores. Any clock reading, the greatest
`asktimestamp`, the score columns and the two lookups of an answer are gone there; what is left is that the
two question each other in turn. A practice session maps to a match that stands still.

Left out: the Greek. Whether an answer is right is a free choice (`verdict`), and of a
form only whether it has a single spelling, because that decides what
`hc_mf_pressed` does. Columns that no handler reads again (answer text, time
used, names, parameters) are left out.

### HcGameTx

`Begin` takes the request's time, opens the transaction and reads the session (its
players never change). `Check` reads the last move and applies the handler's check;
`Reread` is the second lookup in `update_answer_move_tx`; `Write` is the
first `UPDATE sessions`, which locks the row until the end; `CommitAsk` and
`CommitAnswer` are the other writes and the commit, where the writes become visible.
Merging the writes into the commit changes nothing another transaction can see: while
the row is locked no other transaction writes the session, and none reads uncommitted
rows. `Abort` may end a transaction at any point.

Under `"read_committed"` every statement reads what is committed when it runs, and a
writer waits for the row's lock. Under `"snapshot"` (SQLite) a transaction that would
write after another one committed is refused, and one writer runs at a time; such a
transaction is `stale` and has nothing left but to fail. The variable `isolation` is chosen at the start and never
changes: it is which database the program was built for.

`LastVerbs` reads the moves in order of insertion, which is their order of timestamps
as long as `OrderedAsks` holds. Read committed breaks that, so there the module assumes
a single verb (`TxAssumption`), for which the order makes no difference.

### HcGameServer and WsHcGameSession

`HcGameServer` has the server's state and one action for each message it handles, taken
from the head of `mailbox`; `WsHcGameSession` extends it with those who send. What a game
is does not matter here: `played[g]` is the sequence of connections its moves came
through, and a view is known by the number of moves it shows. `HcGame` says which moves are
legal; here any page that shows a game may move in it, which allows more.

* `Started`, `Closed`, `HeartbeatFailed`, `GoSilent` are a connection's life. `started` waits for the
  reply to its Connect, so no frame is handled before that. A heartbeat that fails sends
  Disconnect, and `stopping` sends it again. A page connects when it has no connection or
  when its last one is gone without the server knowing; frames of a peer that is gone do
  not arrive.
* `OpenGame` is a `getmove`, or a `getsessions` with a current session: the Join is sent, then
  the view is read in the future (`SendView`). If that fails (`ViewFails`) nothing is sent: the page shows what it showed
  before, but its user is in the other room. (`begin_tx().await.unwrap()` may panic instead, which ends the actor and is
  taken for the end of its connection, `Closed`.)
* `Move` is `ask`, `submit` or `mfpressed`, which differ only in the function of `libhc` they
  call: `Commit` or `Refuse`, then `ReadOpponentView`, then `Push` with the response; or
  `PushFails`.
* An actor that stops drops its futures where they are (`DropRequests`); a move committed but
  not pushed is then in `untold`. `untold`, `told`, `showing` and `unanswered` (the last
  view asked for could not be read) are what the pages know, for the properties.

Actix's bounded mailboxes delay senders and lose nothing that is sent with `do_send`, so
they are not bounded here. Practice sessions push nothing, and a new session is announced
to nobody. The HTTP handlers do not push at all, and the page as shipped uses them alone
(`supportsWebSockets = false`, `hc-actix/src/index.html:1993`): its websocket code is there, and so is
the route, which is what this module models.

### Accounts

A row of `users` has the columns a login reads. Rows are never changed or deleted by the
program, and a conflicting INSERT waits for the other transaction and then fails, so an
INSERT with its commit is one step whose guard is `MayInsert`, the UNIQUE columns.

* `CreateUser` is `new_user_post`, `Login` is `login_post` with `hc_validate_credentials`.
* `StartLogin` sets the state cookie and sends the browser to the issuer; `Callback` is its return,
  which may come late, twice, or after another attempt was started. `GetOauthUser` and
  `CreateOauthUser` are the two statements of `hc_create_oauth_user`, which others can come between; `Fail`
  is a bad token or a database error.
* `LoggedIn` and `NavToLogin` are the answers with their cookies, which reach a browser in any order.
  A refusal purges the session only if the browser sent its cookie along, which `SameSite::Strict`
  leaves open on the way back from an issuer.

`NULL` stands for a column or address that is missing; what somebody logged in with (`proof`) is kept in
the session for the properties only. Tokens, hashes and cookies are taken to be genuine. The handlers of `hc-axum`
differ in keeping the session on the server, in comparing a nonce as well, and in leaving a session alone when a
login is refused: see `HcAxum`.

### HcClient

One step is one handler of the page - a click, the end of a countdown, an answer - or one handler of the server
(`Handle`, which is `HcGame`'s `Answer`, `MfPressed` or `Ask` with the state it returns). A request lives in
`calls[u]` from being sent until its answer is processed or lost, and answers are processed in any order.

* `GetMove` clicks a game in the list; `Submit` is `submitClicked`, which does what the text of the button says:
  send the answer (`Enter`), show the question and start its time (`Go`), show the ask form (`Continue`), ask (`Ask`).
* `TimeOut` is the same function called by a countdown. `page[u].timers` counts countdowns: `startTimer` does not
  end one that still runs, and opening another game does not stop any, so there can be several.
* `ProcResponse` is `procResponse`: `SetUI` for a view, `AnswerResponseReceived` for a verdict, `AskResponse`.
* `Fails` is a handler's error or a lost request or answer: `error: null`, the page leaves everything as it is.
* `Elsewhere` is the others, at pages of their own.

The fields `fresh` of a page and `n`, `sure` and `alone` of a request are not in the code. They remember what the
player was shown when the request was made, for the properties. All sessions count down here (a timer that counts up
never submits), and a list of games is fresh when a game is clicked. Left out: the form for new games, the list of
moves, reloading, several tabs, and the page's websocket client, which is switched off.

### Synopsis and HcAxum

A form is the name of the verb with its place in the paradigm. `Cells` are the places the page's labels ask for,
`PlacesOf` those `get_forms` goes through, `Flat` and `ResultForms` the table's 189 columns by position; none of the
three is defined by another, so that they can disagree.

A `Text`, what is written into a cell, is a form with a number of apostrophes: the page lets them through
(`greek-synopsis.html:708`) and `greek_insert_synopsis` splices the answers into its INSERT as they are (`dbpostgres.rs:148`,
`dbsqlite.rs:156`). `Inserted` is what the columns get: two apostrophes are stored as one (`Literal`), and from an answer
with an odd one (`Unpaired`) on the columns hold something `Foreign`, if the statement is accepted at all. That is any value: the
model does not say what else a statement changed in this way may do. An answer with apostrophes counts as wrong here;
the comparison is the library's.

* `Submit` is `submitSynopsis`, `SaveSynopsis` the handler with its INSERT and commit (or the panic), `ShowResult` the answer,
  `LoseSave` a lost request or answer. `GreekSynopsis` loads the page, empty or by a link.
* `Restart` empties the memory of the server, sessions and requests; cookies, pages and the database stay.
* `AxumStartLogin` clears the session, as `session.clear()` does; `AxumNavToLogin` leaves it alone.

`steady` (nobody logged in or out since the page was loaded) is there for `KeptForUser` only. The principal parts
are those of a verb, right or wrong; the person and number are carried along. Sessions do not expire.

### Schedule

Dates are numbers counted from a Monday. `Document` is `sgi.xml` as a sequence of the reader's events; `MakeSchedule` reads it
event by event, with one operator for each kind of event, and `SgiSchedule` is a request for the page.

## Runs

| run | shows | bounds |
|---|---|---|
| `game_players` | serial handlers keep all properties of `HcGame` and implement `Match` (refinement) | three users of one session (so one is an outsider), 5 moves, clock values 1 and 2 (so that questions tie, and answers may be dated before their question); the session may be a game or practice |
| `challenger_opens` | finding 1 | as above, 4 moves |
| `tx_isolation` | SQLite: the interleaved handlers implement `HcGame` (refinement); PostgreSQL: no point is lost, no question is dropped or reworded | either isolation, two requests at a time, two users, 3 moves, 2 points |
| `answers_own` | finding 2 | two requests at a time, 3 moves |
| `practice_rotation` | verbs come in blocks and evenly while the session fits the window; two verbs with 1, 4, 8 or 16 repetitions never run out, half again beyond it | the real window of 100; 150 questions for two verbs, otherwise 17: at least two complete cycles wherever a cycle has 8 questions or fewer |
| `practice_exhausted` | finding 3 | the real window of 100, 32 repetitions |
| `accounts_logins` | everybody reaches their own account, and the same one each time | two browsers, two logins at a time, two external logins started in each, one name used by both issuers, two addresses or user names, three accounts |
| `ws_connections` | pages that switch games while the other player moves miss nothing, whichever view or push fails, unless it was their own last view; what a connection can rely on when the old one of its user is still dying; a silent peer is forgotten | two frames at a time, a move in each game, in two instances: "two games" with one lasting connection each, where ann's views may fail, and "reconnect" with one game and two connections of ann, which may fall silent, and no failing view (there is no other room to be left in) |
| `ws_live_registered` | finding 4 | as above, one frame at a time |
| `client_page` | answers are for what was shown, asks keep the rule, a question shown is decided in the end | ann's page and bob elsewhere, two requests on their way, in three instances: "verbs" (one session, 2 questions, 2 verbs), "long game" (one session, 3 questions, one verb), "two games" (2 questions, one verb, two countdowns) |
| `client_same_verb` | finding 5 | two sessions, three verbs, 2 questions, one request at a time |
| `axum_synopses` | what is saved is graded as its labels say, shown again and kept for its user, through restarts and lost answers; classes are on the right days | in the instance "synopses" one browser, two accounts, one login attempt, one synopsis, of a verb with all forms and wrong answers in the first and last cells, without apostrophes or with a pair or with single ones, or of a verb without active forms filled in by "check"; in the instance "calendar" every course of nine days from any day of the week with up to two holidays in its first two weeks |

One session is enough for `HcGame` and `HcGameTx`: no handler reads or writes more than
one, and the proofs make no such restriction. Two requests at a time are enough to race: three requests
are served in sequence where a finding needs them, as a request's slot is used
again. `MaxMoves`, `MaxPoints`, `MaxQuestions`, `MaxAttempts`, `MaxMailbox`, `MaxCalls` and `MaxTimers` are bounds of
the model (so are `Requests` and `Papers`). They appear in guards only; the runs switch deadlock checking off because a
run ends when they are reached. Several small instances in one run (`instance`) are the parts of a larger one in
which something can go wrong: only with two games do countdowns run beside each other, only with two verbs can the
wrong one be asked for, and only after a third question does a page go from answering to asking and back.

The properties of `HcGame`, and why each could fail:

* `OrderedAsks` - "last" is unambiguous, whatever the clock does.
* `OnlyLastOpen` - no question is skipped and none is left half graded.
* `Alternation` - the asker of each move is the one who answered the move before.
* `PracticeHasQuestion` - a practice session always has an open question of the program, and it is the last move. (That
  answering it finds a next one is `NextVerbExists`, and finding 3.)
* `ScoresAreMistakes` - the scores, kept by increments, equal a count over all moves.
* `TurnsAgree` - `hc_move_get_type` and the handlers' checks, written separately, say the same.
* `UpdatedIsLastEvent` - `sessions.updated`, written in three places, dates the last event.
* `HistoryKept` - no step changes a graded move or drops a question.
* `KeepsTheRules` - all of it together, said without tables: the players question each other in turn, whoever replied
  asks next, a wrong reply is one point for the one who asked, and nobody else has a say.

The properties of `HcGameTx`:

* `SerialHandlers` - refinement: under snapshots every transaction takes effect at its commit, as if alone.
* `NoPointLost`, `QuestionsKept` - what is left of the properties above when checks are out of date by the time of the
  write: increments in place and rows that are only ever added or updated.

The properties of `WsHcGameSession`:

* `CaughtUp` - when nothing is under way, a page whose connection is the registered one and
  in the room of the game it shows was sent a view with every move of the other player that
  was pushed, and every move of its own. It fails if a room is joined after the view is
  read or a push is read before the commit. The exceptions it names are real: moves whose
  connection ended before the push, moves made through an earlier connection of the same user, and, for
  a page whose last view could not be read, the moves of others: it shows one game, opens another and gets no view, misses
  what is pushed to the first while its user is in the room of the second, and comes back by another view that fails.
* `OneGameRoom`, `NoDeadAddress` - the two maps of the server agree with each other and with the
  actors, in spite of registration by user and doubled Disconnects.
* `SilentForgotten` - liveness, under weak fairness of the server (an actor with mail is run) and of
  the heartbeat of a silent connection (`run_interval` fires every five seconds as long as the
  actor lives). Nothing is assumed of users, networks or the database.

The properties of `Accounts`:

* `LoggedInAsSelf` - what a session says is an account that what its holder showed belongs to. It fails if
  an issuer's name for one person is looked up among the other issuer's.
* `SameAccount` - a person, or a user name, leads to one account, also when two first logins overlap and
  both have found no account: the UNIQUE columns are all that decides.

The properties of `HcClient`:

* `AnswersWhatWasShown` - while an answer is on its way to be graded, the question the player was shown is the open one. It
  fails if the button can be pressed again while a request is out. The exceptions are real and named: a player who does not wait, a lost
  answer to the multiple-forms button, and a countdown left over from another game.
* `AsksByTheRule` - an ask the server will accept names a new verb after a mistake and the same verb otherwise. The
  server does not check this.
* `CountdownEnds` - liveness: a question shown is decided, or its answer on the way fails and the page says "Loading...", or the player
  opens a game. Weak fairness is assumed of the countdown, which is a chain of `requestAnimationFrame` callbacks and so runs
  while the page is visible, and of the requests as a whole: each is answered, refused or lost (the browser reports a broken
  connection). Nothing is assumed of the player, the opponent or which of these it is.
* `SameVerbNamed` - finding 5.

The properties of `HcAxum` and `Schedule`:

* `SavesGoThrough` - no synopsis the page can send has more or fewer cells than there are forms, which would panic.
* `ResultsHold` - what a page shows as a result was graded under the labels of its cells, and its row is in the database
  through restarts and lost answers: it goes on showing the very same if nobody wrote an apostrophe, and the same gradings with
  halved apostrophes if they come in pairs. Of a text with an odd one only the row is promised, not what is in it.
* `KeptForUser` - a synopsis saved on a page that shows a name is in that user's list; unless the login has changed
  or the server was restarted since, of which neither page nor server takes notice.
* `LoggedInAsSelf` - as in `Accounts`, with the sessions of `hc-axum`.
* `ClassesOnWorkdays` - every working day holds the classes with its number, counted from the first, up to the length of the course, and no
  other day holds any, for the holidays the code can step over (`Foreseen`; the one in `sgi.xml` is). For two holidays in a row, or one before or after a week end, it is not: the code looks once.
* `NoDateMissing` - whatever the holidays, the table has every date once and in order, and the classes in the row of their day.

## Findings

1. `hc_ask` lets the challenged player open (`lib.rs:638`), against `lib.rs:1214` and the
   open todo at 618.
2. Read committed: an answer is recorded in a question its author asked (`lib.rs:715`);
   after that neither player may move.
3. Two verbs, 32 repetitions: after 128 questions no verb can be chosen and the handler
   panics on every further answer (`lib.rs:1048`).
4. The end of a user's old connection unregisters the new one (`server.rs:161`); its page is
   pushed nothing more.
5. The form that asks for another form of the same verb may name no verb, when the verb chooser was filled for another
   game (`index.html:2910`): an option is added only if the verb's number is at least the number of options.

The cause of 2 is that the last move is read without a lock. For the same reason one player
may ask twice, a question may be answered twice, each answer scoring, and a practice question
may be dated no later than the one before it (`lib.rs:1064`), which leaves a graded move as the last one and the
session stuck. `tx_isolation` and the theorem `SnapshotIsSerial` show that an isolation that
refuses the second writer removes all of these.

Answers spliced into SQL (`dbpostgres.rs:148`) are a defect too, though no run is made of it: an answer with two apostrophes is
graded and shown as it was written, and stored and shown ever after with one; an odd one makes another statement of the
INSERT, as a rule one that fails. It is why `ResultsHold` distinguishes answers with apostrophes.

## Proofs

`HcGameProofs` proves, for any users, sessions, verbs, lists of verbs, repetitions, clock values, window and number
of moves (assumptions: `GameAssumption`, that these are sets and numbers of the right kind and
NULL is not a user):

* `TypeCorrect`, `AsksStayOrdered`, `OneOpenQuestion`, `PlayersAlternate`, `PracticeCanGoOn`,
  `ScoresCorrect`, `UpdatedCorrect`, `TurnsAlwaysAgree` - the invariants that `game_players` checks;
* `HistoryNeverRewritten` - its action property.

The inductive invariant `IInv` is the type invariant and, of every session,
`SessionInv`: a session that does not exist has no moves, a game's players differ, and all the
properties above for this session. They need each other. That a question is graded exactly once
(`ScoresAreMistakes`) needs that the last move is unique (`Ordered`), so that the row
graded is the row written; that a new question goes last needs the check of `hc_ask`
and the corrected date; that the check implies alternation needs `LastOpen`.
Each handler touches one session, so a step is proved by showing `SessionInv` of the new row
and moves (`InsertGameInv`, `InsertPracticeInv`, `AskedInv`, `GradedGameInv`,
`GradedPracticeInv`), and `Frame` carries the others over. `TurnsAgree` follows from the invariant and is not part of it.

`HcGameTxProofs` proves `SnapshotIsSerial`: under snapshot isolation, for any number of requests,
`TxSpec` implements `HcGame`'s `Spec`, so all of the above holds of the interleaved handlers.
Its invariant `TxInv` says that what a transaction that is not stale has read is still true
of the tables, that a writer is never stale and that there is at most one. A commit makes every other open transaction
stale, so it preserves `TxInv` without any argument about what it wrote.

`HcGameTxProofs` also proves what holds under either isolation, for any number of requests: `TxTypeCorrect`, `NoPointIsLost`
and `QuestionsAreKept` (assumption: `GameAssumption`). Under read committed what a transaction has read may be out of date,
so the invariant `SafeInv` says of it only that the session exists, the user is a player, and the rows it has
seen and will write are among the moves (`Sound`): moves are only added, so this stays true through everybody else's
commits (`Committed`). That suffices: an answer to whatever row adds at most one mistake, of the one who answers, and then adds a
point for the other (`AnswerScored`). The converse, that a point has its mistake, is what fails.
The proofs do not need the restriction to one verb; the faithfulness of the model does (`TxAssumption`).

`HcGameProofs` ends with `GameKeepsRules`: `HcGame` implements `Match`, for any users, sessions and number of moves.
The steps rest on the invariant: that the last move is the one with the greatest timestamp, and open or
graded as its columns say, makes `Standing` change exactly as `Question` and `Reply` do.

`PracticeCycleProofs` proves of a practice session, for any list of verbs, repetitions and window (assumption:
`CycleAssumption`, that lists are finite and not empty and repetitions positive): `OnlyOwnVerbs`, and while the session is
not longer than the window `BlocksAreKept` and `RotationGoesOn`, that there is always a verb to ask next - where finding 3 shows that
beyond the window there may be none. The invariant `Rotation` says that questions of one block are on one verb and those of
neighbouring blocks are not; stated of blocks instead of neighbouring questions it needs no induction inside a step. `RotationGoesOn`
counts: the verbs to skip are those of fewer blocks than there are verbs. `RotationIsEven` needs to know how far the cycle is: after
`z` cycles, `b` blocks and `k` questions, `Even` says which verbs have been asked `z` times, which once more in full, and which
is being asked; at a change the verb chosen is one that this cycle has not had, because those it has had are the ones to skip (`Left`).

`WsHcGameSessionProofs` proves `OneGameRoomEach` and `NoAddressIsDead` for any users, connections,
games and frames (assumptions: `ServerAssumption`, `SessionAssumption`). The invariant `IInv` looks into
the mailbox: an announced actor waits and is announced once (`Announced`), so that handling
its Connect registers an open actor; and whoever is registered under a stopped actor has a Disconnect on the
way (`Addressed`), which no other message can overtake or undo except a Connect, which replaces the address.

It also proves `SessionsTyped` and `PagesCatchUp`, with an invariant `PushInv` that says of each page where every move
it has not seen is on its way (`InTouch`): carried by the frame that committed it (`InTransit`); in a push in the mailbox,
behind the last Join of that user (`Coming`, `Settled`); or about to be in a view that the page's own frame has yet to read (`Viewing`). The
room a page will be in once the mailbox is handled (`BoundFor`) decides which pushes reach it. `Succession` says that of a user's
connections only the latest can be in use, so a Connect in the mailbox is never out of date. `InTouch` is claimed of
pages that are bound for the room of the game they show and whose last view was read (`Attached`); of the others the invariant
knows no more than their own moves (`OwnMoves`).

`HcClientProofs` proves `FormsTyped`, `AnswersShownQuestion` and `AsksKeepTheRule` for any readers, games, verbs, requests on their way
and orders of their answers (assumptions: `GameAssumption` and `ClientAssumption`, that verbs are positive numbers and the
markers for "none" are neither games nor verbs). Their invariant `ClientInv` is that of `HcGame` and, of every reader, `ReaderInv`,
which holds page and tables together. What a view says of a question or of a turn to ask stays true until its reader acts,
whatever the others do (`KeptFor`, and `StepKeeps` for each of their steps). And a page that was not interrupted knows what it has on its way
from what its button says (`ByButton`): so the reader does one thing at a time (`AloneInv`), and the one request that counts was
made from the form as it was last filled (`FreshCall`).

`AccountsProofs` proves `AccountsTypeCorrect`, `EverybodyIsThemselves` and `OneAccountEach` for any browsers, names, accounts and
number of overlapping logins (assumption: `AccountsAssumption`, that NULL is not a name). The invariant `IInv` is
the type invariant, that two rows share no value of a UNIQUE column (`Unique`), and `LoggedInAsSelf`
of the sessions and of the answers still under way. `GrantsKept` is the argument: rows only come to be, so what was
granted stays true, and a step only has to show it of what it grants.

`HcAxumProofs` proves, for any browsers, accounts, synopses, logins and restarts, `AxumTypeCorrect`, `AxumThemselves`,
`SubmissionsGoThrough`, `ResultsStay` and `ListsComplete` (assumptions: `AccountsAssumption`, `SynopsisAssumption` and `AxumAssumption`, that pages are
made for verbs other than oida, which `greek-synopsis.html:1335` leaves out). Two parts meet in it. One is about the enumerations:
the cells of the page are the places of `get_forms`, in order, whatever the verb (`SameForms`), and the row that is written and read back by
position shows the same labels (`RowShows`, from `InsertedCells`: without an odd apostrophe the answers stay in their columns). These are flattened sequences; `SequenceLemmas` proves by induction over a set of numbers
(`SetInduction`) what flattening yields, which is how a proof here gets around induction over an operator. The other part is the
invariant `AxumInv`, that of `Accounts` with what is stored (`RowsHold`), what pages show (`PagesHold`) and whose name they show
(`NamesHold`): a restart loses sessions and requests, and none of these mention either, except through `steady`.

The last part of `HcAxumProofs` is the calendar, for a course of any length with any finite set of holidays (`CoursesAssumption`):
`EveryDateOnce` and `EveryWorkdayHeld`. `MakeSchedule` is a recursive function over the events of the document; `Built` and
`HolidaysRead` follow it to the first day of classes, and `GrownTable` is the step from one day of classes to the next. The invariant
`Table` of the rows so far says that they have every date once (`Dated`) and, if the holidays are foreseen, that the working days among them are
numbered and that the last row is one (`Numbered`). That last part is why looking once is enough there (`FreeDaysSuffice`): the
day after a working day is never a Sunday, and a foreseen holiday is followed by a working day.

Every safety property of a passing run is stated by a theorem. Only model-checked are `SilentForgotten` and `CountdownEnds`,
which are liveness under fairness and so beyond TLAPS, and the violations.

## Plan

Done: every module above, with its runs and proofs.

Left, in this order:

1. Practice beyond the window: which repetitions and lists never run out of verbs (`Window % (n * reps) <= (n - 1) * reps` seems to decide,
   and finding 3 is a case where it fails). The blocks keep their order beyond the window if it holds at least one of them.
2. The page with websockets (switched off in the code), as a composition of `HcClient` and `WsHcGameSession`.

## Not modelled

* The Greek: verb forms are built and compared by external crates; any answer may be right or wrong.
* Password hashing (external cryptography), page layout, HTTP and JSON encoding, how the calendar is printed, the
  unused socket.io layer of `hc-axum` (built and never mounted), generated and third-party assets.
* `hc_get_game_moves`, `get_sessions` and the list of all synopses only read.
* Of the page: the form for new games, the list of moves, reloading, several tabs, the websocket client.
* Of synopses: case and gender of participles, and the Latin variants of the same functions.
* Sessions expire after a year or more without use; those of the models do not.
* The blocking client runs one request at a time: the serial case.
