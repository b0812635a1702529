------------------------------ MODULE HcGameTx ------------------------------
(***************************************************************************)
(* hc_ask, hc_answer and hc_mf_pressed as database transactions: several   *)
(* requests are served at once (the websocket actor spawns every message,  *)
(* the HTTP handlers run on every worker), and a handler's statements      *)
(* interleave with those of the others.                                    *)
(*                                                                         *)
(* Statements that read only what never changes (the players of a session) *)
(* belong to the step before them.  Writes are private to a transaction    *)
(* until it commits: the first one updates the sessions row and so locks   *)
(* it, which keeps every other writer of the session out until the commit; *)
(* the commit is where the writes appear to others.                        *)
(*                                                                         *)
(* hc_insert_session is one step: until it commits nobody knows the id of  *)
(* the rows it writes.                                                     *)
(***************************************************************************)
EXTENDS HcGame

CONSTANTS
  Requests,      \* the transactions that may be open at the same time
  Isolations,    \* "snapshot" (SQLite), "read_committed" (PostgreSQL's default) or both
  MaxPoints      \* bound of the model: points scored in a session

ASSUME TxAssumption ==
  /\ Isolations \subseteq {"snapshot", "read_committed"}
  /\ MaxPoints \in Nat
  \* LastVerbs needs moves in the order of their timestamps, which read
  \* committed does not keep; with one verb the order makes no difference
  /\ "read_committed" \in Isolations => \A v, w \in Verbs : v = w

VARIABLES
  txs,           \* for every request what its handler has read and done so far
  isolation      \* what the database the program was built for guarantees

txVars == <<sessions, moves, txs, isolation>>

-----------------------------------------------------------------------------
Handlers == {"ask", "answer", "mf"}

(***************************************************************************)
(* checked: the last move was read and passed the handler's check.         *)
(* reread: update_answer_move_tx read the last move again.                 *)
(* writing: the transaction has written and holds the lock.                *)
(***************************************************************************)
Stages == {"begun", "checked", "reread", "writing"}

TxRow ==
  [stage   : Stages,
   handler : Handlers,
   user    : Users,
   session : Sessions,
   ts      : Timestamps,
   seen    : Nat,        \* the row the handler checked and grades; 0: no moves yet
   target  : Nat,        \* the row update_answer_move_tx will write
   stale   : BOOLEAN]    \* another transaction committed since this one began

Idle == [stage |-> "idle"]

Open(r)    == txs[r] # Idle
Locks(r,s) == txs[r].stage = "writing" /\ txs[r].session = s

\* Mutant: a transaction whose snapshot is out of date may write.
MayWriteStale(r) == \A q \in Requests : ~Locks(q, txs[r].session)

(***************************************************************************)
(* Under snapshot isolation a transaction that would write after another   *)
(* has committed is refused (SQLITE_BUSY), and there is one writer at a    *)
(* time; under read committed a writer waits for the lock on its row only. *)
(***************************************************************************)
MayWrite(r) ==
  IF isolation = "snapshot"
    THEN ~txs[r].stale /\ \A q \in Requests : txs[q].stage # "writing"
    ELSE \A q \in Requests : ~Locks(q, txs[r].session)

(***************************************************************************)
(* The transactions after one of them ended, with or without a commit.     *)
(***************************************************************************)
Outdated(tx) == IF tx = Idle THEN Idle ELSE [tx EXCEPT !.stale = (isolation = "snapshot")]

EndCommitted(r) ==
  txs' = [q \in Requests |-> IF q = r THEN Idle ELSE Outdated(txs[q])]

-----------------------------------------------------------------------------
(* The steps of a handler.                                                 *)

(***************************************************************************)
(* The request arrives, takes its timestamp, begins a transaction and      *)
(* reads the session, of which the user must be a player.                  *)
(***************************************************************************)
Begin(r, h, u, s, ts) ==
  /\ ~Open(r)
  /\ Exists(sessions[s])
  /\ u \in Players(sessions[s])
  /\ txs' = [txs EXCEPT ![r] =
        [stage |-> "begun", handler |-> h, user |-> u, session |-> s, ts |-> ts,
         seen |-> 0, target |-> 0, stale |-> FALSE]]
  /\ UNCHANGED <<sessions, moves>>

(***************************************************************************)
(* What a handler asks of the last move.  A form without a single spelling *)
(* ends hc_mf_pressed here: it rolls back, or panics.                      *)
(***************************************************************************)
Passes(tx, m) ==
  IF tx.handler = "ask" THEN MayAsk(tx.user, m)
  ELSE MayAnswer(tx.user, m) /\ (tx.handler = "mf" => m.kind = "single")

(***************************************************************************)
(* get_last_move_tx and the handler's check.  Without a move, hc_ask has   *)
(* nothing to check and the others fail.  A stale reader sees its snapshot *)
(* and can no longer write, so it is only left to fail.                    *)
(***************************************************************************)
Check(r) ==
  LET ms == moves[txs[r].session]
  IN  /\ txs[r].stage = "begun"
      /\ ~txs[r].stale
      /\ \/ /\ ms = <<>> /\ txs[r].handler = "ask"
            /\ txs' = [txs EXCEPT ![r].stage = "checked"]
         \/ \E i \in LastMoves(ms) :
              /\ Passes(txs[r], ms[i])
              /\ txs' = [txs EXCEPT ![r].stage = "checked", ![r].seen = i]
      /\ UNCHANGED <<sessions, moves>>

(***************************************************************************)
(* update_answer_move_tx looks up the last move anew, to learn its move_id.*)
(***************************************************************************)
Reread(r) ==
  /\ txs[r].stage = "checked"
  /\ txs[r].handler \in {"answer", "mf"}
  /\ ~txs[r].stale
  /\ \E j \in LastMoves(moves[txs[r].session]) :
       txs' = [txs EXCEPT ![r].stage = "reread", ![r].target = j]
  /\ UNCHANGED <<sessions, moves>>

\* Mutant: the row to write is not looked up.
WriteUnread(r) ==
  /\ txs[r].stage \in {"checked", "reread"}
  /\ MayWrite(r)
  /\ txs' = [txs EXCEPT ![r].stage = "writing"]
  /\ UNCHANGED <<sessions, moves>>

(***************************************************************************)
(* The first write, UPDATE sessions SET updated: it takes the lock.        *)
(***************************************************************************)
Write(r) ==
  /\ \/ txs[r].stage = "checked" /\ txs[r].handler = "ask"
     \/ txs[r].stage = "reread"
  /\ MayWrite(r)
  /\ txs' = [txs EXCEPT ![r].stage = "writing"]
  /\ UNCHANGED <<sessions, moves>>

(***************************************************************************)
(* The remaining writes and the commit.  add_to_score adds to the score in *)
(* the row at this moment; hc_ask_practice dates its question after the    *)
(* row the handler checked.                                                *)
(***************************************************************************)
CommitAsk(r, v, k) ==
  LET s  == txs[r].session
      ts == txs[r].ts
  IN  /\ txs[r].stage = "writing"
      /\ txs[r].handler = "ask"
      /\ Len(moves[s]) < MaxMoves
      /\ InsertAsk(txs[r].user, s, v, k,
           IF txs[r].seen = 0 THEN ts
           ELSE AskTimestamp(ts, moves[s][txs[r].seen].asktimestamp))
      /\ EndCommitted(r)

Points(row) == row.challenger_score + row.challenged_score

CommitAnswer(r, verdict) ==
  /\ txs[r].stage = "writing"
  /\ Points(sessions[txs[r].session]) < MaxPoints
  /\ \/ txs[r].handler = "answer"
     \/ txs[r].handler = "mf" /\ verdict = "no"
  /\ RecordAnswer(txs[r].user, txs[r].session, txs[r].seen, txs[r].target, verdict, txs[r].ts)
  /\ EndCommitted(r)

(***************************************************************************)
(* The transaction is rolled back: a check failed, a statement returned an *)
(* error, the handler panicked, "multiple forms" was right, or the server  *)
(* died.                                                                   *)
(***************************************************************************)
Abort(r) ==
  /\ Open(r)
  /\ txs' = [txs EXCEPT ![r] = Idle]
  /\ UNCHANGED <<sessions, moves>>

(***************************************************************************)
(* A session is created and committed.                                     *)
(***************************************************************************)
CommitSession(u, s, opponent, vs, reps, ts) ==
  /\ isolation = "snapshot" => \A q \in Requests : txs[q].stage # "writing"
  /\ InsertSession(u, s, opponent, vs, reps, ts)
  /\ txs' = [q \in Requests |-> Outdated(txs[q])]

-----------------------------------------------------------------------------
TxInit ==
  /\ Init
  /\ txs = [r \in Requests |-> Idle]
  /\ isolation \in Isolations

Step ==
  \/ \E r \in Requests :
       \/ \E h \in Handlers, u \in Users, s \in Sessions, ts \in Timestamps :
            Begin(r, h, u, s, ts)
       \/ Check(r)
       \/ Reread(r)
       \/ Write(r)
       \/ \E v \in Verbs, k \in Kinds : CommitAsk(r, v, k)
       \/ \E verdict \in {"yes", "no"} : CommitAnswer(r, verdict)
       \/ Abort(r)
  \/ \E u \in Users, s \in Sessions, opponent \in OptionalUser,
        vs \in VerbLists, reps \in RepChoices, ts \in Timestamps :
       CommitSession(u, s, opponent, vs, reps, ts)

TxNext == Step /\ UNCHANGED isolation

TxSpec == TxInit /\ [][TxNext]_txVars

-----------------------------------------------------------------------------
(* Properties.                                                             *)

(***************************************************************************)
(* Every transaction has read what its stage says it has.                  *)
(***************************************************************************)
TxTypeOK ==
  /\ TypeOK
  /\ txs \in [Requests -> TxRow \cup {Idle}]
  /\ isolation \in Isolations
  /\ \A r \in Requests : Open(r) =>
       LET ms == moves[txs[r].session]
       IN  /\ txs[r].seen \in 0 .. Len(ms)
           /\ txs[r].target \in 0 .. Len(ms)
           /\ txs[r].stage = "writing" /\ txs[r].handler # "ask" =>
                txs[r].seen > 0 /\ txs[r].target > 0

(***************************************************************************)
(* With SQLite's isolation the interleaved handlers implement the atomic   *)
(* ones: every transaction takes effect at its commit, as if alone.        *)
(***************************************************************************)
SerialHandlers ==
  /\ isolation = "snapshot" => Init
  /\ [][isolation = "snapshot" => Next]_vars

(***************************************************************************)
(* Whatever the interleaving, no point is lost: each mistake on record was *)
(* counted for the other player, since add_to_score increments in place.   *)
(***************************************************************************)
NoPointLost ==
  \A s \in Sessions : IsGame(sessions[s]) =>
    /\ sessions[s].challenger_score >= Cardinality(Mistakes(moves[s], sessions[s].challenged))
    /\ sessions[s].challenged_score >= Cardinality(Mistakes(moves[s], sessions[s].challenger))

(***************************************************************************)
(* Whatever the interleaving, a committed question stays: its row is never *)
(* dropped or reworded, and an answer on record is not withdrawn.          *)
(***************************************************************************)
Keeps(new, old) ==
  /\ Len(new) >= Len(old)
  /\ \A i \in DOMAIN old :
       /\ new[i].ask_user = old[i].ask_user
       /\ new[i].verb = old[i].verb
       /\ new[i].asktimestamp = old[i].asktimestamp
       /\ old[i].is_correct # "null" => new[i].is_correct # "null"

QuestionsKept == [][\A s \in Sessions : Keeps(moves'[s], moves[s])]_txVars

(***************************************************************************)
(* hc_answer: "same user cannot answer question they asked".               *)
(***************************************************************************)
NobodyAnswersOwn ==
  \A s \in Sessions : IsGame(sessions[s]) =>
    \A i \in DOMAIN moves[s] : moves[s][i].ask_user # moves[s][i].answer_user

=============================================================================
