------------------------------ MODULE HcClient ------------------------------
(***************************************************************************)
(* A player at the page index.html, and the HTTP handlers get_move, enter, *)
(* ask and mf it talks to.  The page has one form with one button, whose   *)
(* text says what it will do; it may have several requests on their way,   *)
(* and each answer changes the form whatever it shows by then.             *)
(*                                                                         *)
(* A handler is one step, as in HcGame.  Sessions count down; a timer that *)
(* counts up does nothing.  Lists of games are fresh when used.            *)
(***************************************************************************)
EXTENDS HcGame, SequencesExt

CONSTANTS
  Readers,       \* users whose page is modelled: one page each
  NoGame,        \* no session is selected
  NoVerb,        \* the verb chooser has no value
  MaxCalls,      \* bound of the model: requests of one page on their way
  MaxTimers      \* bound of the model: countdowns that run on a page

ASSUME ClientAssumption ==
  /\ Readers \subseteq Users
  /\ Verbs \subseteq Nat \ {0} /\ IsFiniteSet(Verbs)
  /\ NoGame \notin Sessions /\ NoVerb \notin Verbs
  /\ MaxCalls \in Nat \ {0} /\ MaxTimers \in Nat

VARIABLES
  page,          \* for each reader the form and what the page remembers
  calls          \* for each reader the requests on their way

clientVars == <<page, calls>>
allVars == <<vars, clientVars>>

-----------------------------------------------------------------------------
(* What the server sends.                                                  *)

UsedVerbs(ms) == {ms[i].verb : i \in DOMAIN ms}

\* Mutant: verbs asked before are offered again.
OfferedAll(ms) == Verbs

(***************************************************************************)
(* hc_get_available_verbs: verbs (of the units of the game) not used yet.  *)
(***************************************************************************)
Offered(ms) == Verbs \ UsedVerbs(ms)

(***************************************************************************)
(* SessionState, as hc_get_move, hc_answer and hc_mf_pressed return it.    *)
(***************************************************************************)
SessionState(u, s, row, ms) ==
  LET type == MoveType(u, row, ms)
  IN  [session |-> s,
       n       |-> Len(ms),
       type    |-> type,
       verb    |-> IF ms = <<>> THEN NoVerb ELSE LastMove(ms).verb,
       offered |-> IF type = "FirstMoveMyTurn" THEN Offered(ms) ELSE {}]

(***************************************************************************)
(* hc_get_sessions: the games of a player with their move types.  The page *)
(* does not list a game that the opponent has yet to open.                 *)
(***************************************************************************)
SessionsOf(u) == {s \in Sessions : Exists(sessions[s]) /\ u \in Players(sessions[s])}

Listed(u) ==
  {s \in SessionsOf(u) : MoveType(u, sessions[s], moves[s]) # "FirstMoveTheirTurn"}

-----------------------------------------------------------------------------
(* The form.                                                               *)

NoView == [session |-> NoGame, n |-> 0, type |-> "none", verb |-> NoVerb, offered |-> {}]

AnswerTypes == {"Practice", "AnswerMyTurn"}
AskTypes    == {"AskMyTurn", "FirstMoveMyTurn"}
WaitTypes   == {"AnswerTheirTurn", "AskTheirTurn", "FirstMoveTheirTurn"}

ViewRow ==
  [session : Sessions \cup {NoGame},
   n       : Nat,
   type    : AnswerTypes \cup AskTypes \cup WaitTypes \cup {"none"},
   verb    : Verbs \cup {NoVerb},
   offered : SUBSET Verbs]

PageRow ==
  [selected : Sessions \cup {NoGame},
   button   : {"none", "Go", "Enter", "Loading", "Continue", "Ask", "Sent"},
   enabled  : BOOLEAN,
   mf       : BOOLEAN,                  \* the button for multiple forms
   timers   : 0 .. MaxTimers,
   view     : ViewRow,                  \* what the form was set up from
   kept     : ViewRow,
   options  : Seq(Verbs),               \* of the verb chooser
   choosing : BOOLEAN,                  \* the player may use the chooser
   verb     : Verbs \cup {NoVerb},      \* its value
   fresh    : BOOLEAN]

(***************************************************************************)
(* kept is globalSessionState, which only "Continue" reads.  fresh is not  *)
(* in the code: the game selected was opened when nothing else was on its  *)
(* way, its form has come, and the player waits for answers since.         *)
(***************************************************************************)
NewPage ==
  [selected |-> NoGame, button |-> "none", enabled |-> FALSE, mf |-> FALSE,
   timers |-> 0, view |-> NoView, kept |-> NoView,
   options |-> <<>>, choosing |-> FALSE, verb |-> NoVerb, fresh |-> FALSE]

(***************************************************************************)
(* setParamsDropdowns: the verb chooser gets a value it may have no option *)
(* for; an option is added when the number of the verb is no less than the *)
(* number of options.                                                      *)
(***************************************************************************)
SetParamsDropdowns(pg, verb) ==
  LET options == IF verb >= Len(pg.options) THEN Append(pg.options, verb) ELSE pg.options
  IN  [pg EXCEPT !.options = options,
                 !.verb = IF verb \in ToSet(options) THEN verb ELSE NoVerb]

GoButton(pg) ==
  [pg EXCEPT !.button = "Go", !.enabled = TRUE, !.mf = FALSE, !.kept = NoView, !.choosing = FALSE]

ContinueButton(pg, data) ==
  [pg EXCEPT !.button = "Continue", !.enabled = TRUE, !.mf = FALSE, !.kept = data]

(***************************************************************************)
(* uiModeAskForm2: a new verb is chosen from those offered, or the verb is *)
(* the one of the question before.                                         *)
(***************************************************************************)
AskForm2(pg, data) ==
  LET form == [pg EXCEPT !.button = "Ask", !.enabled = TRUE, !.mf = FALSE, !.kept = NoView]
  IN  IF data.type = "FirstMoveMyTurn"
        THEN [form EXCEPT !.options = SetToSeq(data.offered), !.verb = NoVerb, !.choosing = TRUE]
        ELSE [SetParamsDropdowns(form, data.verb) EXCEPT !.choosing = FALSE]

(***************************************************************************)
(* setUI.  Waiting for the opponent, the button is disabled and keeps its  *)
(* text; whatever is shown, a running countdown goes on.                   *)
(***************************************************************************)
SetUI(pg, data) ==
  LET shown == [pg EXCEPT !.view = data]
  IN  CASE data.type \in AnswerTypes -> GoButton(shown)
        [] data.type = "FirstMoveMyTurn" -> AskForm2(shown, data)
        [] data.type = "AskMyTurn" ->
             [ContinueButton(SetParamsDropdowns(shown, data.verb), data) EXCEPT !.choosing = FALSE]
        [] data.type = "AnswerTheirTurn" ->
             [shown EXCEPT !.enabled = FALSE, !.choosing = FALSE]
        [] data.type \in {"AskTheirTurn", "FirstMoveTheirTurn"} ->
             [shown EXCEPT !.enabled = FALSE, !.choosing = FALSE, !.mf = FALSE]

(***************************************************************************)
(* stopTimer ends one countdown; startTimer begins one without ending that *)
(* which may still run, left over from a game that was left open.          *)
(***************************************************************************)
Stopped(timers) == IF timers = 0 THEN 0 ELSE timers - 1

\* Mutant: the button can be pressed again.
ClickedEnterAgain(pg) == [pg EXCEPT !.timers = Stopped(@)]

ClickedEnter(pg) == [pg EXCEPT !.button = "Loading", !.enabled = FALSE, !.timers = Stopped(@)]

\* Mutant: the countdown is not started.
GoFormUntimed(pg) == [pg EXCEPT !.button = "Enter", !.enabled = TRUE, !.mf = TRUE, !.choosing = FALSE]

(***************************************************************************)
(* uiModeAnwerGoForm: the question is shown and its time starts.           *)
(***************************************************************************)
GoForm(pg) ==
  [pg EXCEPT !.button = "Enter", !.enabled = TRUE, !.mf = TRUE, !.timers = @ + 1, !.choosing = FALSE]

AnswerResponseReceived(pg, data) ==
  LET shown == [pg EXCEPT !.view = data]
  IN  IF data.type = "Practice" THEN [GoButton(shown) EXCEPT !.choosing = pg.choosing]
      ELSE ContinueButton(shown, data)

AskResponse(pg) ==
  [pg EXCEPT !.button = "Sent", !.enabled = FALSE, !.mf = FALSE, !.choosing = FALSE]

-----------------------------------------------------------------------------
(* Requests.                                                               *)

Waits(u, qtypes) == \E c \in ToSet(calls[u]) : c.qtype \in qtypes

(***************************************************************************)
(* What is on the form when a request is sent, which the server is not     *)
(* told, is there for the properties: n, the question it shows, and sure,  *)
(* if the form is open for an answer, or for an ask; and alone, if no      *)
(* other request was on its way with this one.                             *)
(***************************************************************************)
OnForm(pg) ==
  \/ pg.button = "Enter" /\ pg.view.type \in AnswerTypes
  \/ pg.button = "Ask" /\ pg.view.type \in AskTypes

CallRow ==
  [qtype   : {"getmove", "enter", "mf", "ask"},
   session : Sessions,
   verb    : Verbs \cup {NoVerb},
   stage   : {"sent", "done"},
   data    : ViewRow,                   \* the answer, once there is one
   n       : Nat,
   sure    : BOOLEAN,
   alone   : BOOLEAN]

Call(pg, qtype, verb) ==
  [qtype |-> qtype, session |-> pg.selected, verb |-> verb, stage |-> "sent", data |-> NoView,
   n |-> pg.view.n, sure |-> OnForm(pg), alone |-> FALSE]

Opening(s) == Call([NewPage EXCEPT !.selected = s], "getmove", NoVerb)

Send(u, call) ==
  /\ Len(calls[u]) < MaxCalls
  /\ calls' = [calls EXCEPT ![u] =
       Append([k \in DOMAIN @ |-> [@[k] EXCEPT !.alone = FALSE]], call)]

(***************************************************************************)
(* getMove: a game in the list is clicked.                                 *)
(***************************************************************************)
GetMove(u, s) ==
  /\ s \in Listed(u)
  /\ page' = [page EXCEPT ![u] = [@ EXCEPT !.selected = s, !.fresh = FALSE]]
  /\ Send(u, [Opening(s) EXCEPT !.alone = calls[u] = <<>>])
  /\ UNCHANGED vars

(***************************************************************************)
(* submitClicked, called by the button, the key Enter and the timer.       *)
(***************************************************************************)
SubmitClicked(u, pg) ==
  \/ /\ pg.button = "Enter"
     /\ page' = [page EXCEPT ![u] =
          [ClickedEnter(pg) EXCEPT !.fresh = @ /\ ~Waits(u, {"mf"})]]
     /\ Send(u, Call(pg, "enter", NoVerb))
  \/ /\ pg.button = "Continue"
     /\ page' = [page EXCEPT ![u] = AskForm2(pg, pg.kept)]
     /\ UNCHANGED calls
  \/ /\ pg.button = "Ask"
     /\ page' = [page EXCEPT ![u] = pg]
     /\ \E verb \in IF pg.choosing THEN ToSet(pg.options) \cup {NoVerb} ELSE {pg.verb} :
          Send(u, Call(pg, "ask", verb))
  \/ /\ pg.button = "Go"
     /\ pg.timers < MaxTimers /\ (pg.view.type = "Practice" => pg.view.n < MaxMoves)
     /\ page' = [page EXCEPT ![u] = GoForm(pg)]
     /\ UNCHANGED calls

Submit(u) == page[u].enabled /\ SubmitClicked(u, page[u]) /\ UNCHANGED vars

(***************************************************************************)
(* A countdown is over: submitClicked, whatever the form is by now.  If it *)
(* is "Enter", the countdown that ClickedEnter ends is this one.           *)
(***************************************************************************)
TimeOut(u) ==
  /\ page[u].timers > 0
  /\ LET pg == [page[u] EXCEPT !.timers = IF page[u].button = "Enter" THEN @ ELSE @ - 1]
     IN  \/ SubmitClicked(u, pg)
         \/ /\ pg.button \in {"Ask", "Sent", "Loading", "none"}
            /\ page' = [page EXCEPT ![u] = pg]
            /\ UNCHANGED calls
  /\ UNCHANGED vars

(***************************************************************************)
(* mfClicked, once for a question - also while its answer is on its way.   *)
(***************************************************************************)
MfClicked(u) ==
  /\ page[u].mf
  /\ page' = [page EXCEPT ![u] =
       [page[u] EXCEPT !.mf = FALSE, !.fresh = @ /\ ~Waits(u, {"enter"})]]
  /\ Send(u, Call(page[u], "mf", NoVerb))
  /\ UNCHANGED vars

-----------------------------------------------------------------------------
(* Handlers and answers.                                                   *)

(***************************************************************************)
(* get_move, enter, mf and ask.  What kind of form is asked for matters    *)
(* only to MF, which may be refused anyway.                                *)
(***************************************************************************)
Performed(u, c, ts) ==
  CASE c.qtype = "getmove" -> UNCHANGED vars
    [] c.qtype = "enter"   -> \E verdict \in {"yes", "no"} : Answer(u, c.session, verdict, ts)
    [] c.qtype = "mf"      -> MfPressed(u, c.session, ts)
    [] c.qtype = "ask"     -> c.verb # NoVerb /\ Ask(u, c.session, c.verb, "single", ts)

Handle(u, k, ts) ==
  LET c == calls[u][k]
      s == c.session
  IN  /\ c.stage = "sent"
      /\ Performed(u, c, ts)
      /\ calls' = [calls EXCEPT ![u][k] =
           [Opening(s) EXCEPT !.qtype = c.qtype, !.alone = c.alone, !.stage = "done",
              !.data = IF c.qtype = "ask" THEN NoView   \* only the text changes
                       ELSE SessionState(u, s, sessions'[s], moves'[s])]]
      /\ UNCHANGED page

Without(u, k) == calls' = [calls EXCEPT ![u] = RemoveAt(@, k)]

(***************************************************************************)
(* The handler fails, which it may always do, or the request or its answer *)
(* is lost: the page leaves everything as it is.  So it does when a form   *)
(* has several spellings indeed.  If the answer to MF is lost the form     *)
(* stays open for a question that is decided: it is not fresh any more.    *)
(***************************************************************************)
Fails(u, k) ==
  LET c == calls[u][k]
  IN  /\ page' = [page EXCEPT ![u].fresh = @ /\ ~(c.qtype = "mf" /\ c.stage = "done")]
      /\ Without(u, k)
      /\ UNCHANGED vars

(***************************************************************************)
(* procResponse: answers come in any order.                                *)
(***************************************************************************)
ProcResponse(u, k) ==
  LET c == calls[u][k]
  IN  /\ c.stage = "done"
      /\ page' = [page EXCEPT ![u] =
           CASE c.qtype = "getmove" -> [SetUI(@, c.data) EXCEPT !.fresh = c.alone]
             [] c.qtype = "enter"   -> AnswerResponseReceived(@, c.data)
             [] c.qtype = "mf"      -> AnswerResponseReceived(ClickedEnter(@), c.data)
             [] c.qtype = "ask"     -> AskResponse(@)]
      /\ Without(u, k)
      /\ UNCHANGED vars

(***************************************************************************)
(* The others play at pages of their own; anybody begins a session.        *)
(***************************************************************************)
Elsewhere(u, s, ts) ==
  /\ \/ /\ \E opponent \in OptionalUser, vs \in VerbLists, reps \in RepChoices :
             InsertSession(u, s, opponent, vs, reps, ts)
        /\ Players(sessions'[s]) \cap Readers # {}
     \/ /\ u \notin Readers
        /\ \/ \E v \in Verbs : Ask(u, s, v, "single", ts)
           \/ \E verdict \in {"yes", "no"} : Answer(u, s, verdict, ts)
  /\ UNCHANGED clientVars

-----------------------------------------------------------------------------
ClientInit ==
  /\ Init
  /\ page = [u \in Readers |-> NewPage]
  /\ calls = [u \in Readers |-> <<>>]

ClientNext ==
  \/ \E u \in Users, s \in Sessions, ts \in Timestamps : Elsewhere(u, s, ts)
  \/ \E u \in Readers :
       \/ \E s \in Sessions : GetMove(u, s)
       \/ Submit(u)
       \/ TimeOut(u)
       \/ MfClicked(u)
       \/ \E k \in DOMAIN calls[u] :
            \/ \E ts \in Timestamps : Handle(u, k, ts)
            \/ Fails(u, k)
            \/ ProcResponse(u, k)

ClientSpec == ClientInit /\ [][ClientNext]_allVars

(***************************************************************************)
(* A countdown ends, a request is handled or fails, and an answer arrives  *)
(* or is lost.                                                             *)
(***************************************************************************)
Settled(u) ==
  \E k \in DOMAIN calls[u] :
    \/ \E ts \in Timestamps : Handle(u, k, ts)
    \/ Fails(u, k)
    \/ ProcResponse(u, k)

ClientFairSpec ==
  /\ ClientSpec
  /\ \A u \in Readers : WF_allVars(TimeOut(u)) /\ WF_allVars(Settled(u))

-----------------------------------------------------------------------------
(* Properties.                                                             *)

(***************************************************************************)
(* Types of the form and the requests; while the form is open for an       *)
(* answer, time runs; and "Continue" finds what it needs for an ask form.  *)
(***************************************************************************)
ClientTypeOK ==
  /\ page \in [Readers -> PageRow]
  /\ calls \in [Readers -> Seq(CallRow)]
  /\ \A u \in Readers :
       /\ page[u].button = "Enter" => page[u].timers > 0
       /\ page[u].button = "Continue" => page[u].kept.type \in AskTypes

(***************************************************************************)
(* An answer is for the question the player was shown: while it is on its  *)
(* way that question stays the open one.  The exceptions are a player who  *)
(* does not wait for answers or loses that to MF, and a countdown that ends*)
(* when another game was opened meanwhile, whose form has not come yet     *)
(* (not fresh) or waits for the opponent (not sure).                       *)
(***************************************************************************)
AnswersWhatWasShown ==
  \A u \in Readers : page[u].fresh =>
    \A c \in ToSet(calls[u]) : c.stage = "sent" /\ c.qtype \in {"enter", "mf"} /\ c.sure =>
      /\ Len(moves[c.session]) = c.n
      /\ moves[c.session][c.n].is_correct = "null"

(***************************************************************************)
(* hc_ask takes any verb; it is the page that keeps the rule of            *)
(* hc_move_get_type: after a mistake a verb that is new to the game, else  *)
(* the same again.  An ask that will be accepted keeps it.                 *)
(***************************************************************************)
AsksByTheRule ==
  \A u \in Readers : page[u].fresh =>
    \A c \in ToSet(calls[u]) :
      LET ms == moves[c.session]
      IN  c.stage = "sent" /\ c.qtype = "ask" /\ c.sure /\ c.verb # NoVerb
            /\ ms # <<>> /\ MayAsk(u, LastMove(ms)) =>
          IF LastMove(ms).is_correct = "no"
            THEN c.verb \notin UsedVerbs(ms)
            ELSE c.verb = LastMove(ms).verb

(***************************************************************************)
(* A question does not stay open before the player for ever: the countdown *)
(* answers it, unless the player opens a game, or the request fails - then *)
(* the page says "Loading..." until a game is opened.  (If it is not fresh,*)
(* the late answer to an ask may put "Sent" in its place.)                 *)
(***************************************************************************)
Asked(u) ==
  /\ page[u].fresh
  /\ page[u].button = "Enter" /\ OnForm(page[u])

Undecided(u) ==
  LET pg == page[u]
      ms == moves[pg.view.session]
  IN  /\ pg.view.type \in AnswerTypes
      /\ Len(ms) >= pg.view.n => ms[pg.view.n].is_correct = "null"
      /\ ~Waits(u, {"getmove"})
      /\ ~(pg.button = "Loading" /\ calls[u] = <<>>)

CountdownEnds == \A u \in Readers : Asked(u) ~> ~Undecided(u)

(***************************************************************************)
(* setParamsDropdowns: "if the dropdown doesn't have enough rows to assign *)
(* value, just add a new row for it" - so asking for another form of the   *)
(* same verb names that verb.                                              *)
(***************************************************************************)
SameVerbNamed ==
  \A u \in Readers : page[u].button = "Ask" /\ ~page[u].choosing => page[u].verb # NoVerb
=============================================================================
