------------------------------- MODULE HcGame -------------------------------
(***************************************************************************)
(* The game core of libhc: sessions, the moves recorded in them and the    *)
(* handlers hc_insert_session, hc_ask, hc_answer and hc_mf_pressed.        *)
(*                                                                         *)
(* Every handler runs inside one database transaction, and here each is    *)
(* one atomic step: what the handlers do when transactions are serial.     *)
(* HcGameTx takes the same handlers apart into their statements.           *)
(*                                                                         *)
(* A handler that returns an error, panics or rolls back leaves the        *)
(* database as it was, so those paths are the absence of a step: a guard   *)
(* below stands for an early return of the code.                           *)
(***************************************************************************)
EXTENDS PracticeVerbs

CONSTANTS
  Users,         \* accounts that may be logged in
  Sessions,      \* ids a new session may get
  Verbs,         \* ids of the verbs
  VerbLists,     \* the lists of verbs a session may be created with
  RepChoices,    \* the values of practice_reps_per_verb a session may have
  Timestamps,    \* what the clock may show when a handler is entered
  NoUser,        \* NULL in a column that holds a user id
  Window,        \* how many moves hc_ask_practice reads back (100)
  MaxMoves       \* bound of the model: moves in one session

ASSUME GameAssumption ==
  /\ NoUser \notin Users
  /\ VerbLists \subseteq SUBSET Verbs
  /\ \A vs \in VerbLists : IsFiniteSet(vs)
  /\ RepChoices \subseteq Nat \ {0}
  /\ Timestamps \subseteq Nat
  /\ Window \in Nat \ {0}
  /\ MaxMoves \in Nat \ {0}

VARIABLES
  sessions,      \* the sessions table: a row for every session id
  moves          \* the moves table: the moves of every session, as inserted

vars == <<sessions, moves>>

-----------------------------------------------------------------------------
(* Rows.                                                                   *)

OptionalUser == Users \cup {NoUser}

(***************************************************************************)
(* What matters of the form asked for: whether it is a single spelling.    *)
(* The others have several ("multiple forms") or do not exist.             *)
(***************************************************************************)
Kinds == {"single", "other"}

SessionRow ==
  [challenger       : OptionalUser,     \* NoUser: no such session
   challenged       : OptionalUser,     \* NoUser: a practice session
   verbs            : SUBSET Verbs,
   reps             : Nat \ {0},
   challenger_score : Nat,
   challenged_score : Nat,
   updated          : Nat]

MoveRow ==
  [ask_user          : OptionalUser,    \* NoUser: asked by the program
   answer_user       : OptionalUser,    \* NoUser: not answered yet
   verb              : Verbs,
   kind              : Kinds,
   is_correct        : {"null", "yes", "no"},
   asktimestamp      : Nat,
   answeredtimestamp : Nat]

NoSession ==
  [challenger |-> NoUser, challenged |-> NoUser, verbs |-> {}, reps |-> 1,
   challenger_score |-> 0, challenged_score |-> 0, updated |-> 0]

NewMove(asker, verb, kind, ts) ==
  [ask_user |-> asker, answer_user |-> NoUser, verb |-> verb, kind |-> kind,
   is_correct |-> "null", asktimestamp |-> ts, answeredtimestamp |-> 0]

Exists(row)     == row.challenger # NoUser
IsPractice(row) == row.challenged = NoUser
IsGame(row)     == Exists(row) /\ ~IsPractice(row)
Players(row)    == {row.challenger, row.challenged}

-----------------------------------------------------------------------------
(* Reading the moves table.                                                *)

(***************************************************************************)
(* The rows ORDER BY asktimestamp DESC LIMIT 1 may return: any of those    *)
(* with the greatest asktimestamp.                                         *)
(***************************************************************************)
LastMoves(ms) ==
  {i \in DOMAIN ms : \A j \in DOMAIN ms : ms[j].asktimestamp <= ms[i].asktimestamp}

(***************************************************************************)
(* The verbs of the newest Window moves, newest first.  The code sorts by  *)
(* asktimestamp, which is the order of insertion (OrderedAsks).            *)
(***************************************************************************)
LastVerbs(ms) ==
  LET newestFirst == [k \in 1 .. Len(ms) |-> ms[Len(ms) + 1 - k].verb]
  IN  SubSeq(newestFirst, 1, IF Len(ms) < Window THEN Len(ms) ELSE Window)

\* Mutant: the clock is trusted.
AskTimestampUnbumped(ts, previous) == ts

(***************************************************************************)
(* A question is dated by the clock, or one after the question before it   *)
(* when the clock has not passed that one.                                 *)
(***************************************************************************)
AskTimestamp(ts, previous) == IF ts <= previous THEN previous + 1 ELSE ts

-----------------------------------------------------------------------------
(* hc_insert_session.                                                      *)

(***************************************************************************)
(* The user starts a game with another user, or a practice session, whose  *)
(* first question the program asks in the same transaction.  A user cannot *)
(* be their own opponent; a practice session over no verb takes a          *)
(* remainder by zero and panics.                                           *)
(***************************************************************************)
InsertSession(u, s, opponent, vs, reps, ts) ==
  /\ ~Exists(sessions[s])
  /\ opponent # u
  /\ opponent = NoUser => vs # {}
  /\ sessions' = [sessions EXCEPT ![s] =
        [challenger |-> u, challenged |-> opponent, verbs |-> vs, reps |-> reps,
         challenger_score |-> 0, challenged_score |-> 0,
         updated |-> IF opponent = NoUser THEN AskTimestamp(ts, 0) ELSE ts]]
  /\ IF opponent = NoUser
       THEN \E v \in NextVerbs(vs, <<>>, reps, NoUser), k \in Kinds :
              moves' = [moves EXCEPT ![s] = <<NewMove(NoUser, v, k, AskTimestamp(ts, 0))>>]
       ELSE UNCHANGED moves

-----------------------------------------------------------------------------
(* hc_ask.                                                                 *)

\* Mutants: only the first check is made; only the last is.
MayAskUnanswered(u, m) == m.ask_user # u
MayAskAnyone(u, m)     == m.is_correct # "null"

(***************************************************************************)
(* Same user cannot ask twice in a row, the asker must be the user who     *)
(* answered last, and that answer must have been graded.                   *)
(***************************************************************************)
MayAsk(u, m) == m.ask_user # u /\ m.answer_user = u /\ m.is_correct # "null"

\* Mutant: sessions.updated is forgotten.
InsertAskSilent(u, s, v, k, ts) ==
  /\ moves' = [moves EXCEPT ![s] = Append(@, NewMove(u, v, k, ts))]
  /\ UNCHANGED sessions

InsertAsk(u, s, v, k, ts) ==
  /\ moves' = [moves EXCEPT ![s] = Append(@, NewMove(u, v, k, ts))]
  /\ sessions' = [sessions EXCEPT ![s].updated = ts]

(***************************************************************************)
(* A player asks for any form of any verb.  With no move to check against, *)
(* either player may.                                                      *)
(***************************************************************************)
Ask(u, s, v, k, ts) ==
  /\ Exists(sessions[s])
  /\ u \in Players(sessions[s])
  /\ Len(moves[s]) < MaxMoves
  /\ \/ moves[s] = <<>> /\ InsertAsk(u, s, v, k, ts)
     \/ \E i \in LastMoves(moves[s]) :
          /\ MayAsk(u, moves[s][i])
          /\ InsertAsk(u, s, v, k, AskTimestamp(ts, moves[s][i].asktimestamp))

-----------------------------------------------------------------------------
(* hc_answer and hc_mf_pressed.                                            *)

\* Mutants: one check or the other is missing.
MayAnswerOwn(u, m)   == m.is_correct = "null"
MayAnswerAgain(u, m) == m.ask_user # u

(***************************************************************************)
(* Nobody answers the question they asked, nor one already graded.         *)
(***************************************************************************)
MayAnswer(u, m) == m.ask_user # u /\ m.is_correct = "null"

\* Mutant: the answer's time lands in the wrong column.
AnsweredRedated(ms, j, u, verdict, ts) ==
  [ms EXCEPT ![j].answer_user = u, ![j].is_correct = verdict, ![j].asktimestamp = ts]

(***************************************************************************)
(* update_answer_move_tx reads the last move again and writes to that row. *)
(***************************************************************************)
Answered(ms, j, u, verdict, ts) ==
  [ms EXCEPT ![j].answer_user = u,
             ![j].is_correct = verdict,
             ![j].answeredtimestamp = ts]

\* Mutants: the point goes to the wrong player, is deducted, replaces the score.
ScoredSwapped(row, u, verdict) ==
  IF verdict = "yes" THEN row
  ELSE IF row.challenger = u
    THEN [row EXCEPT !.challenger_score = @ + 1]
    ELSE [row EXCEPT !.challenged_score = @ + 1]
ScoredDeducted(row, u, verdict) ==
  IF verdict = "yes" THEN row
  ELSE IF row.challenger = u
    THEN [row EXCEPT !.challenger_score = @ - 1]
    ELSE [row EXCEPT !.challenged_score = @ - 1]
ScoredReplaced(row, u, verdict) ==
  IF verdict = "yes" THEN row
  ELSE IF row.challenger = u
    THEN [row EXCEPT !.challenged_score = 1]
    ELSE [row EXCEPT !.challenger_score = 1]

(***************************************************************************)
(* A wrong answer is a point for the other player.                         *)
(***************************************************************************)
Scored(row, u, verdict) ==
  IF verdict = "yes" THEN row
  ELSE IF row.challenger = u
    THEN [row EXCEPT !.challenged_score = @ + 1]
    ELSE [row EXCEPT !.challenger_score = @ + 1]

(***************************************************************************)
(* What both handlers do once the question m is graded: in a practice      *)
(* session the program asks the next question, in a game the score is      *)
(* kept.  i is the row graded, j the row written.                          *)
(***************************************************************************)
RecordAnswer(u, s, i, j, verdict, ts) ==
  LET row      == sessions[s]
      answered == Answered(moves[s], j, u, verdict, ts)
      askTs    == AskTimestamp(ts, moves[s][i].asktimestamp)
  IN  IF IsPractice(row)
        THEN /\ Len(moves[s]) < MaxMoves
             /\ \E v \in NextVerbs(row.verbs, LastVerbs(answered), row.reps, moves[s][i].verb),
                   k \in Kinds :
                  moves' = [moves EXCEPT ![s] = Append(answered, NewMove(NoUser, v, k, askTs))]
             /\ sessions' = [sessions EXCEPT ![s].updated = askTs]
        ELSE /\ moves' = [moves EXCEPT ![s] = answered]
             /\ sessions' = [sessions EXCEPT ![s] =
                               Scored([row EXCEPT !.updated = ts], u, verdict)]

(***************************************************************************)
(* A player answers; any answer may be right or wrong.                     *)
(***************************************************************************)
Answer(u, s, verdict, ts) ==
  /\ Exists(sessions[s])
  /\ u \in Players(sessions[s])
  /\ \E i \in LastMoves(moves[s]), j \in LastMoves(moves[s]) :
       /\ MayAnswer(u, moves[s][i])
       /\ RecordAnswer(u, s, i, j, verdict, ts)

(***************************************************************************)
(* A player claims the form has several spellings.  A form with one counts *)
(* as answered wrong; one with several is rolled back and nothing is       *)
(* recorded, and a form that does not exist is unwrapped and panics.       *)
(***************************************************************************)
MfPressed(u, s, ts) ==
  /\ Exists(sessions[s])
  /\ u \in Players(sessions[s])
  /\ \E i \in LastMoves(moves[s]), j \in LastMoves(moves[s]) :
       /\ MayAnswer(u, moves[s][i])
       /\ moves[s][i].kind = "single"
       /\ RecordAnswer(u, s, i, j, "no", ts)

-----------------------------------------------------------------------------
Init ==
  /\ sessions = [s \in Sessions |-> NoSession]
  /\ moves = [s \in Sessions |-> <<>>]

Next ==
  \E u \in Users, s \in Sessions, ts \in Timestamps :
    \/ \E opponent \in OptionalUser, vs \in VerbLists, reps \in RepChoices :
         InsertSession(u, s, opponent, vs, reps, ts)
    \/ \E v \in Verbs, k \in Kinds : Ask(u, s, v, k, ts)
    \/ \E verdict \in {"yes", "no"} : Answer(u, s, verdict, ts)
    \/ MfPressed(u, s, ts)

Spec == Init /\ [][Next]_vars

-----------------------------------------------------------------------------
(* What the players are told: hc_move_get_type.                            *)

(***************************************************************************)
(* The newest move as one query returns it.                                *)
(***************************************************************************)
LastMove(ms) == ms[CHOOSE i \in LastMoves(ms) : TRUE]

(***************************************************************************)
(* Whose turn it is in the eyes of user u, and for what.                   *)
(***************************************************************************)
MoveType(u, row, ms) ==
  LET m        == LastMove(ms)
      answered == m.answer_user # NoUser
  IN  IF IsPractice(row) THEN "Practice"
      ELSE IF ms = <<>>
        THEN IF row.challenged = u THEN "FirstMoveTheirTurn" ELSE "FirstMoveMyTurn"
      ELSE IF m.ask_user = u
        THEN IF answered THEN "AskTheirTurn" ELSE "AnswerTheirTurn"
      ELSE IF ~answered THEN "AnswerMyTurn"
      ELSE IF m.is_correct = "no" THEN "FirstMoveMyTurn" ELSE "AskMyTurn"

MyTurn(u, row, ms) ==
  MoveType(u, row, ms) \in {"Practice", "FirstMoveMyTurn", "AskMyTurn", "AnswerMyTurn"}

-----------------------------------------------------------------------------
(* Properties.                                                             *)

(***************************************************************************)
(* Every row of the two tables has the columns' types.                     *)
(***************************************************************************)
TypeOK ==
  /\ sessions \in [Sessions -> SessionRow]
  /\ moves \in [Sessions -> Seq(MoveRow)]

(***************************************************************************)
(* "The last move", which every handler and every view looks up by the     *)
(* greatest asktimestamp, is the move inserted last and is never           *)
(* ambiguous, however the clock runs.                                      *)
(***************************************************************************)
Ordered(ms) ==
  \A i, j \in DOMAIN ms : i < j => ms[i].asktimestamp < ms[j].asktimestamp

OrderedAsks == \A s \in Sessions : Ordered(moves[s])

(***************************************************************************)
(* No question is ever skipped: all moves but the newest are graded, and   *)
(* a move is graded exactly when it records who answered it.               *)
(***************************************************************************)
LastOpen(ms) ==
  \A i \in DOMAIN ms :
    /\ ms[i].is_correct = "null" => i = Len(ms)
    /\ ms[i].is_correct = "null" <=> ms[i].answer_user = NoUser

OnlyLastOpen == \A s \in Sessions : LastOpen(moves[s])

(***************************************************************************)
(* In a game the two players alternate: nobody answers their own question, *)
(* both are players of this session, and whoever answered asks next.       *)
(***************************************************************************)
Alternates(row, ms) ==
  \A i \in DOMAIN ms :
    /\ ms[i].ask_user \in Players(row)
    /\ ms[i].answer_user \in (Players(row) \cup {NoUser}) \ {ms[i].ask_user}
    /\ i > 1 => ms[i].ask_user = ms[i-1].answer_user

Alternation ==
  \A s \in Sessions : IsGame(sessions[s]) => Alternates(sessions[s], moves[s])

(***************************************************************************)
(* A practice session can always be continued: it has a question waiting,  *)
(* every question is the program's and only its owner ever answered.       *)
(***************************************************************************)
Waiting(row, ms) ==
  /\ ms # <<>>
  /\ ms[Len(ms)].is_correct = "null"
  /\ \A i \in DOMAIN ms :
       ms[i].ask_user = NoUser /\ ms[i].answer_user \in {row.challenger, NoUser}

PracticeHasQuestion ==
  \A s \in Sessions : Exists(sessions[s]) /\ IsPractice(sessions[s]) =>
    Waiting(sessions[s], moves[s])

(***************************************************************************)
(* Each score is the number of mistakes the other player made: every wrong *)
(* answer is counted once, for the right player.                           *)
(***************************************************************************)
Mistakes(ms, u) ==
  {i \in DOMAIN ms : ms[i].answer_user = u /\ ms[i].is_correct = "no"}

ScoresMatch(row, ms) ==
  /\ row.challenger_score = Cardinality(Mistakes(ms, row.challenged))
  /\ row.challenged_score = Cardinality(Mistakes(ms, row.challenger))

ScoresAreMistakes ==
  \A s \in Sessions : IsGame(sessions[s]) => ScoresMatch(sessions[s], moves[s])

(***************************************************************************)
(* Once a game has a move, what hc_move_get_type tells the players is what *)
(* the handlers will do: the player told to ask is the one hc_ask accepts, *)
(* the player told to answer the one hc_answer accepts, and it is always   *)
(* exactly one player's turn.                                              *)
(***************************************************************************)
TurnsMatch(row, ms) ==
  /\ \A u \in Players(row) :
       /\ MoveType(u, row, ms) \in {"AskMyTurn", "FirstMoveMyTurn"} <=> MayAsk(u, LastMove(ms))
       /\ MoveType(u, row, ms) = "AnswerMyTurn" <=> MayAnswer(u, LastMove(ms))
  /\ MyTurn(row.challenger, row, ms) <=> ~MyTurn(row.challenged, row, ms)

TurnsAgree ==
  \A s \in Sessions : IsGame(sessions[s]) /\ moves[s] # <<>> =>
    TurnsMatch(sessions[s], moves[s])

(***************************************************************************)
(* sessions.updated, which dates a session in the list, is the time of the *)
(* event recorded last in the moves table.                                 *)
(***************************************************************************)
LastEvent(ms) ==
  LET m == ms[Len(ms)]
  IN  IF m.is_correct = "null" THEN m.asktimestamp ELSE m.answeredtimestamp

UpdatedIsLastEvent ==
  \A s \in Sessions : moves[s] # <<>> => sessions[s].updated = LastEvent(moves[s])

(***************************************************************************)
(* History is never rewritten: a step keeps every graded move as it is,    *)
(* never changes what a question asks or who asked it, and drops none.     *)
(***************************************************************************)
Continues(new, old) ==
  /\ Len(new) >= Len(old)
  /\ \A i \in DOMAIN old :
       /\ old[i].is_correct # "null" => new[i] = old[i]
       /\ new[i].ask_user = old[i].ask_user
       /\ new[i].verb = old[i].verb
       /\ new[i].asktimestamp = old[i].asktimestamp

HistoryKept == [][\A s \in Sessions : Continues(moves'[s], moves[s])]_vars

(***************************************************************************)
(* The tables and handlers keep the rules of the game, for every session   *)
(* at every step: what two players see of a session is a match as in       *)
(* module Match, where a question is the newest row and the points are     *)
(* the columns the handlers add to.                                        *)
(***************************************************************************)
PointsOf(row) ==
  [u \in Users |-> IF u = row.challenger THEN row.challenger_score
                   ELSE IF u = row.challenged THEN row.challenged_score ELSE 0]

Standing(row, ms) ==
  LET last == ms[Len(ms)]
  IN  [phase  |-> IF ~Exists(row) THEN "none"
                  ELSE IF IsPractice(row) THEN "practice"
                  ELSE IF ms = <<>> THEN "opening"
                  ELSE IF last.is_correct = "null" THEN "asked" ELSE "replied",
       pair   |-> Players(row) \ {NoUser},
       by     |-> IF ~IsGame(row) \/ ms = <<>> THEN NoUser
                  ELSE IF last.is_correct = "null" THEN last.ask_user ELSE last.answer_user,
       points |-> PointsOf(row)]

Rules == INSTANCE Match WITH
  People  <- Users,
  Matches <- Sessions,
  Nobody  <- NoUser,
  match   <- [s \in Sessions |-> Standing(sessions[s], moves[s])]

KeepsTheRules == Rules!Spec

(***************************************************************************)
(* The program's comments on the first move ("check that user_id ==        *)
(* challenger_user_id if this is first move") and hc_move_get_type, which  *)
(* tells the challenged player FirstMoveTheirTurn: the challenger opens.   *)
(***************************************************************************)
ChallengerOpens ==
  \A s \in Sessions : IsGame(sessions[s]) /\ moves[s] # <<>> =>
    moves[s][1].ask_user = sessions[s].challenger

=============================================================================
