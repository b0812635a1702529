--------------------------- MODULE HcGameTxProofs ---------------------------
(***************************************************************************)
(* Proofs about the interleaved transactions of HcGameTx, for any number   *)
(* of users, sessions and requests.                                        *)
(*                                                                         *)
(* Under snapshot isolation the interleaved transactions of HcGameTx       *)
(* implement the atomic handlers of HcGame.  A transaction that is not     *)
(* stale has read the present tables (TxInv); only such a transaction      *)
(* writes, and so its commit is the atomic handler's step.                 *)
(***************************************************************************)
EXTENDS HcGameTx, HcGameProofs

-----------------------------------------------------------------------------
(* The inductive invariant.                                                *)

(***************************************************************************)
(* What a transaction found when it checked the last move holds now.       *)
(***************************************************************************)
CheckHolds(tx) ==
  LET ms == moves[tx.session]
  IN  \/ ms = <<>> /\ tx.handler = "ask" /\ tx.seen = 0
      \/ /\ tx.seen \in LastMoves(ms)
         /\ Passes(tx, ms[tx.seen])

Current(tx) ==
  /\ Exists(sessions[tx.session])
  /\ tx.user \in Players(sessions[tx.session])
  /\ tx.stage = "begun" => tx.seen = 0
  /\ tx.stage # "begun" => CheckHolds(tx)
  /\ tx.stage \in {"reread", "writing"} /\ tx.handler # "ask" =>
       tx.target \in LastMoves(moves[tx.session])

TxInv ==
  /\ txs \in [Requests -> TxRow \cup {Idle}]
  /\ \A r \in Requests : Open(r) /\ ~txs[r].stale => Current(txs[r])
  /\ \A r \in Requests : txs[r].stage = "writing" => ~txs[r].stale
  /\ \A q, r \in Requests :
       txs[q].stage = "writing" /\ txs[r].stage = "writing" => q = r

Snapshot == isolation = "snapshot"

Serial == Snapshot => IInv /\ TxInv

-----------------------------------------------------------------------------
(* A step inside a transaction.                                            *)

(***************************************************************************)
(* A transaction's own step, with the tables unchanged, leaves the others  *)
(* as they were: the invariant needs only be shown of that transaction.    *)
(***************************************************************************)
LEMMA OwnStep ==
  ASSUME TxInv, NEW r \in Requests, NEW tx \in TxRow, UNCHANGED <<sessions, moves>>,
         txs' = [txs EXCEPT ![r] = tx],
         ~tx.stale, Current(tx),
         tx.stage = "writing" => \A q \in Requests : txs[q].stage # "writing"
  PROVE  TxInv'
<1>1. /\ txs' \in [Requests -> TxRow \cup {Idle}]
      /\ txs'[r] = tx /\ \A q \in Requests : q # r => txs'[q] = txs[q]
  BY DEF TxInv
<1>2. ASSUME NEW q \in Requests, Open(q)', ~txs'[q].stale
      PROVE  Current(txs[q])'
  BY <1>1, <1>2 DEF TxInv, Open, Current, CheckHolds
<1>3. \A q \in Requests : txs'[q].stage = "writing" => ~txs'[q].stale
  BY <1>1 DEF TxInv
<1>4. \A p, q \in Requests :
        txs'[p].stage = "writing" /\ txs'[q].stage = "writing" => p = q
  BY <1>1 DEF TxInv
<1> QED
  BY <1>1, <1>2, <1>3, <1>4 DEF TxInv

(***************************************************************************)
(* A request begins with nothing read but its session.                     *)
(***************************************************************************)
LEMMA BeginStep ==
  ASSUME TxInv, NEW r \in Requests, NEW h \in Handlers, NEW u \in Users,
         NEW s \in Sessions, NEW ts \in Timestamps, Begin(r, h, u, s, ts)
  PROVE  TxInv'
<1> DEFINE tx == [stage |-> "begun", handler |-> h, user |-> u, session |-> s, ts |-> ts,
                  seen |-> 0, target |-> 0, stale |-> FALSE]
<1>1. tx \in TxRow
  BY DEF TxRow, Stages
<1>2. Current(tx)
  BY DEF Begin, Current
<1> QED
  BY <1>1, <1>2, OwnStep DEF Begin

(***************************************************************************)
(* The check records a last move that passes it.                           *)
(***************************************************************************)
LEMMA CheckStep ==
  ASSUME IInv, TxInv, NEW r \in Requests, Check(r)
  PROVE  TxInv'
<1>1. /\ Open(r) /\ txs[r] \in TxRow /\ Current(txs[r]) /\ ~txs[r].stale
      /\ txs[r].stage = "begun" /\ UNCHANGED <<sessions, moves>>
  BY DEF Check, TxInv, Open, Idle
<1>2. txs[r].seen = 0 /\ moves[txs[r].session] \in Seq(MoveRow)
  BY <1>1 DEF Current, IInv, TypeOK, TxRow
<1>3. CASE /\ moves[txs[r].session] = <<>> /\ txs[r].handler = "ask"
           /\ txs' = [txs EXCEPT ![r].stage = "checked"]
  <2> DEFINE tx == [txs[r] EXCEPT !.stage = "checked"]
  <2>1. /\ tx \in TxRow /\ ~tx.stale /\ tx.stage = "checked" /\ tx.handler = "ask"
        /\ tx.seen = 0 /\ tx.session = txs[r].session /\ tx.user = txs[r].user
    BY <1>1, <1>2, <1>3 DEF TxRow, Stages
  <2>2. txs' = [txs EXCEPT ![r] = tx]
    BY <1>3 DEF TxInv
  <2> HIDE DEF tx
  <2>3. Current(tx)
    BY <1>1, <1>3, <2>1 DEF Current, CheckHolds, Passes
  <2> QED
    BY <1>1, <2>1, <2>2, <2>3, OwnStep
<1>4. CASE \E i \in LastMoves(moves[txs[r].session]) :
             /\ Passes(txs[r], moves[txs[r].session][i])
             /\ txs' = [txs EXCEPT ![r].stage = "checked", ![r].seen = i]
  <2>1. PICK i \in LastMoves(moves[txs[r].session]) :
          /\ Passes(txs[r], moves[txs[r].session][i])
          /\ txs' = [txs EXCEPT ![r].stage = "checked", ![r].seen = i]
    BY <1>4
  <2> DEFINE tx == [txs[r] EXCEPT !.stage = "checked", !.seen = i]
  <2>2. i \in Nat
    BY <1>2 DEF LastMoves
  <2>3. /\ tx \in TxRow /\ ~tx.stale /\ tx.stage = "checked" /\ tx.seen = i
        /\ tx.handler = txs[r].handler /\ tx.session = txs[r].session
        /\ tx.user = txs[r].user
    BY <1>1, <2>2 DEF TxRow, Stages
  <2>4. txs' = [txs EXCEPT ![r] = tx]
    BY <2>1 DEF TxInv
  <2> HIDE DEF tx
  <2>5. CheckHolds(tx)
    BY <2>1, <2>3 DEF CheckHolds, Passes
  <2>6. Current(tx)
    BY <1>1, <2>3, <2>5 DEF Current
  <2> QED
    BY <1>1, <2>3, <2>4, <2>6, OwnStep
<1> QED
  BY <1>3, <1>4 DEF Check

(***************************************************************************)
(* Reading the last move again finds a last move.                          *)
(***************************************************************************)
LEMMA RereadStep ==
  ASSUME IInv, TxInv, NEW r \in Requests, Reread(r)
  PROVE  TxInv'
<1>1. /\ Open(r) /\ txs[r] \in TxRow /\ Current(txs[r]) /\ ~txs[r].stale
      /\ txs[r].stage = "checked" /\ UNCHANGED <<sessions, moves>>
  BY DEF Reread, TxInv, Open, Idle
<1>2. PICK j \in LastMoves(moves[txs[r].session]) :
        txs' = [txs EXCEPT ![r].stage = "reread", ![r].target = j]
  BY DEF Reread
<1>3. j \in Nat
  BY <1>1 DEF LastMoves, IInv, TypeOK, TxRow
<1> DEFINE tx == [txs[r] EXCEPT !.stage = "reread", !.target = j]
<1>4. /\ tx \in TxRow /\ ~tx.stale /\ tx.stage = "reread" /\ tx.seen = txs[r].seen
      /\ tx.handler = txs[r].handler /\ tx.session = txs[r].session
      /\ tx.user = txs[r].user /\ tx.target = j
  BY <1>1, <1>3 DEF TxRow, Stages
<1>5. txs' = [txs EXCEPT ![r] = tx]
  BY <1>2 DEF TxInv
<1> HIDE DEF tx
<1>6. Current(tx)
  BY <1>1, <1>2, <1>4 DEF Current, CheckHolds, Passes
<1> QED
  BY <1>1, <1>4, <1>5, <1>6, OwnStep

(***************************************************************************)
(* Only a transaction that is not stale becomes the writer, and only when  *)
(* there is none.                                                          *)
(***************************************************************************)
LEMMA WriteStep ==
  ASSUME Snapshot, TxInv, NEW r \in Requests, Write(r)
  PROVE  TxInv'
<1>1. /\ Open(r) /\ txs[r] \in TxRow /\ Current(txs[r]) /\ ~txs[r].stale
      /\ txs[r].stage \in {"checked", "reread"}
      /\ txs[r].stage = "checked" => txs[r].handler = "ask"
      /\ UNCHANGED <<sessions, moves>>
      /\ \A q \in Requests : txs[q].stage # "writing"
  BY DEF Write, MayWrite, Snapshot, TxInv, Open, Idle
<1> DEFINE tx == [txs[r] EXCEPT !.stage = "writing"]
<1>2. /\ tx \in TxRow /\ ~tx.stale /\ tx.stage = "writing" /\ tx.seen = txs[r].seen
      /\ tx.handler = txs[r].handler /\ tx.session = txs[r].session
      /\ tx.user = txs[r].user /\ tx.target = txs[r].target
  BY <1>1 DEF TxRow, Stages
<1>3. txs' = [txs EXCEPT ![r] = tx]
  BY DEF Write, TxInv
<1> HIDE DEF tx
<1>4. Current(tx)
  BY <1>1, <1>2 DEF Current, CheckHolds, Passes
<1> QED
  BY <1>1, <1>2, <1>3, <1>4, OwnStep

(***************************************************************************)
(* A transaction that is rolled back takes nothing with it.                *)
(***************************************************************************)
LEMMA AbortStep ==
  ASSUME TxInv, NEW r \in Requests, Abort(r)
  PROVE  TxInv'
<1>1. /\ txs' \in [Requests -> TxRow \cup {Idle}] /\ UNCHANGED <<sessions, moves>>
      /\ txs'[r] = Idle /\ \A q \in Requests : q # r => txs'[q] = txs[q]
      /\ Idle.stage # "writing"
  BY DEF Abort, TxInv, Idle
<1>2. ASSUME NEW q \in Requests, Open(q)', ~txs'[q].stale
      PROVE  Current(txs[q])'
  BY <1>1, <1>2 DEF TxInv, Open, Current, CheckHolds
<1>3. \A q \in Requests : txs'[q].stage = "writing" => ~txs'[q].stale
  BY <1>1 DEF TxInv
<1>4. \A p, q \in Requests :
        txs'[p].stage = "writing" /\ txs'[q].stage = "writing" => p = q
  BY <1>1 DEF TxInv
<1> QED
  BY <1>1, <1>2, <1>3, <1>4 DEF TxInv

(***************************************************************************)
(* After a commit every other transaction is stale and none is writing.    *)
(***************************************************************************)
LEMMA CommitStep ==
  ASSUME Snapshot, TxInv,
         txs' \in [Requests -> {Idle} \cup {Outdated(txs[q]) : q \in Requests}],
         \A q \in Requests : txs'[q] = Idle \/ txs'[q] = Outdated(txs[q]),
         \A q \in Requests : txs'[q] # Idle => txs[q].stage # "writing"
  PROVE  TxInv'
<1>1. ASSUME NEW q \in Requests, txs'[q] # Idle
      PROVE  /\ txs'[q] \in TxRow /\ txs'[q].stale
             /\ txs'[q].stage # "writing"
  <2>1. txs[q] \in TxRow /\ txs'[q] = [txs[q] EXCEPT !.stale = TRUE]
    BY <1>1 DEF Outdated, Snapshot, TxInv
  <2> QED
    BY <1>1, <2>1 DEF TxRow
<1>2. txs' \in [Requests -> TxRow \cup {Idle}]
  BY <1>1
<1>3. \A q \in Requests : txs'[q].stage # "writing"
  BY <1>1 DEF Idle
<1> QED
  BY <1>1, <1>2, <1>3 DEF TxInv, Open

-----------------------------------------------------------------------------
(* The steps of the transactions are steps of HcGame.                      *)

(***************************************************************************)
(* Every other transaction a commit leaves open is outdated, and was not   *)
(* the writer.                                                             *)
(***************************************************************************)
LEMMA EndCommittedStep ==
  ASSUME Snapshot, TxInv, NEW r \in Requests, txs[r].stage = "writing", EndCommitted(r)
  PROVE  TxInv'
<1>1. \A q \in Requests : txs'[q] = Idle \/ (q # r /\ txs'[q] = Outdated(txs[q]))
  BY DEF EndCommitted
<1>2. txs' \in [Requests -> {Idle} \cup {Outdated(txs[q]) : q \in Requests}]
  BY DEF EndCommitted
<1>3. \A q \in Requests : txs'[q] # Idle => txs[q].stage # "writing"
  BY <1>1 DEF TxInv
<1> QED
  BY <1>1, <1>2, <1>3, CommitStep

(***************************************************************************)
(* A committing hc_ask is the atomic hc_ask.                               *)
(***************************************************************************)
LEMMA CommitAskIsAsk ==
  ASSUME IInv, TxInv, NEW r \in Requests, NEW v \in Verbs, NEW k \in Kinds,
         CommitAsk(r, v, k)
  PROVE  Next
<1> DEFINE s == txs[r].session
           u == txs[r].user
           ts == txs[r].ts
<1>1. /\ txs[r] \in TxRow /\ Current(txs[r]) /\ CheckHolds(txs[r])
      /\ txs[r].handler = "ask" /\ Len(moves[s]) < MaxMoves
  BY DEF CommitAsk, TxInv, Open, Idle, Current
<1>2. /\ s \in Sessions /\ u \in Users /\ ts \in Timestamps
      /\ Exists(sessions[s]) /\ u \in Players(sessions[s])
      /\ moves[s] \in Seq(MoveRow)
  BY <1>1 DEF TxRow, Current, IInv, TypeOK
<1>3. Ask(u, s, v, k, ts)
  <2>1. CASE moves[s] = <<>> /\ txs[r].seen = 0
    BY <1>1, <1>2, <2>1 DEF CommitAsk, Ask
  <2>2. CASE txs[r].seen \in LastMoves(moves[s]) /\ Passes(txs[r], moves[s][txs[r].seen])
    <3>1. txs[r].seen # 0
      BY <1>2, <2>2 DEF LastMoves
    <3>2. MayAsk(u, moves[s][txs[r].seen])
      BY <1>1, <2>2 DEF Passes
    <3>3. InsertAsk(u, s, v, k, AskTimestamp(ts, moves[s][txs[r].seen].asktimestamp))
      BY <3>1 DEF CommitAsk
    <3> QED
      BY <1>1, <1>2, <2>2, <3>2, <3>3 DEF Ask
  <2> QED
    BY <1>1, <2>1, <2>2 DEF CheckHolds
<1> QED
  BY <1>2, <1>3 DEF Next

(***************************************************************************)
(* A committing hc_answer or hc_mf_pressed is the atomic one: the row it   *)
(* graded and the row it writes are both last moves.                       *)
(***************************************************************************)
LEMMA CommitAnswerIsAnswer ==
  ASSUME IInv, TxInv, NEW r \in Requests, NEW verdict \in {"yes", "no"},
         CommitAnswer(r, verdict)
  PROVE  Next
<1> DEFINE s == txs[r].session
           u == txs[r].user
           ts == txs[r].ts
           i == txs[r].seen
           j == txs[r].target
<1>1. /\ txs[r] \in TxRow /\ Current(txs[r]) /\ CheckHolds(txs[r])
      /\ txs[r].handler \in {"answer", "mf"} /\ txs[r].stage = "writing"
  BY DEF CommitAnswer, TxInv, Open, Idle, Current
<1>2. /\ s \in Sessions /\ u \in Users /\ ts \in Timestamps
      /\ Exists(sessions[s]) /\ u \in Players(sessions[s])
  BY <1>1 DEF TxRow, Current
<1>3. /\ i \in LastMoves(moves[s]) /\ MayAnswer(u, moves[s][i])
      /\ txs[r].handler = "mf" => moves[s][i].kind = "single"
  BY <1>1 DEF CheckHolds, Passes
<1>4. j \in LastMoves(moves[s])
  BY <1>1 DEF Current
<1>5. RecordAnswer(u, s, i, j, verdict, ts)
  BY DEF CommitAnswer
<1>6. CASE txs[r].handler = "answer"
  <2>1. Answer(u, s, verdict, ts)
    BY <1>2, <1>3, <1>4, <1>5 DEF Answer
  <2> QED
    BY <1>2, <2>1 DEF Next
<1>7. CASE txs[r].handler = "mf"
  <2>1. verdict = "no"
    BY <1>7 DEF CommitAnswer
  <2>2. MfPressed(u, s, ts)
    BY <1>2, <1>3, <1>4, <1>5, <1>7, <2>1 DEF MfPressed
  <2> QED
    BY <1>2, <2>2 DEF Next
<1> QED
  BY <1>1, <1>6, <1>7

(***************************************************************************)
(* Every step keeps the invariant and is a step of HcGame or changes no    *)
(* table.                                                                  *)
(***************************************************************************)
LEMMA TxStep ==
  ASSUME Snapshot, IInv, TxInv, [TxNext]_txVars
  PROVE  TxInv' /\ [Next]_vars
<1>1. CASE UNCHANGED txVars
  BY <1>1 DEF txVars, vars, TxInv, Open, Current, CheckHolds
<1>2. ASSUME NEW r \in Requests, NEW h \in Handlers, NEW u \in Users, NEW s \in Sessions,
             NEW ts \in Timestamps, Begin(r, h, u, s, ts)
      PROVE  TxInv' /\ [Next]_vars
  BY <1>2, BeginStep DEF Begin, vars
<1>3. ASSUME NEW r \in Requests, Check(r)
      PROVE  TxInv' /\ [Next]_vars
  BY <1>3, CheckStep DEF Check, vars
<1>4. ASSUME NEW r \in Requests, Reread(r)
      PROVE  TxInv' /\ [Next]_vars
  BY <1>4, RereadStep DEF Reread, vars
<1>5. ASSUME NEW r \in Requests, Write(r)
      PROVE  TxInv' /\ [Next]_vars
  BY <1>5, WriteStep DEF Write, vars
<1>6. ASSUME NEW r \in Requests, NEW v \in Verbs, NEW k \in Kinds, CommitAsk(r, v, k)
      PROVE  TxInv' /\ [Next]_vars
  BY <1>6, CommitAskIsAsk, EndCommittedStep DEF CommitAsk
<1>7. ASSUME NEW r \in Requests, NEW verdict \in {"yes", "no"}, CommitAnswer(r, verdict)
      PROVE  TxInv' /\ [Next]_vars
  BY <1>7, CommitAnswerIsAnswer, EndCommittedStep DEF CommitAnswer
<1>8. ASSUME NEW r \in Requests, Abort(r)
      PROVE  TxInv' /\ [Next]_vars
  BY <1>8, AbortStep DEF Abort, vars
<1>9. ASSUME NEW u \in Users, NEW s \in Sessions, NEW opponent \in OptionalUser,
             NEW vs \in VerbLists, NEW reps \in RepChoices, NEW ts \in Timestamps,
             CommitSession(u, s, opponent, vs, reps, ts)
      PROVE  TxInv' /\ [Next]_vars
  <2>1. Next
    BY <1>9 DEF CommitSession, Next
  <2>2. TxInv'
    BY <1>9, CommitStep DEF CommitSession, Snapshot
  <2> QED
    BY <2>1, <2>2
<1> QED
  BY <1>1, <1>2, <1>3, <1>4, <1>5, <1>6, <1>7, <1>8, <1>9 DEF TxNext, Step

(***************************************************************************)
(* With SQLite's isolation the handlers, however their statements          *)
(* interleave, implement the atomic handlers of HcGame, and so everything  *)
(* proved of HcGame holds of them.                                         *)
(***************************************************************************)
THEOREM SnapshotIsSerial == TxSpec => SerialHandlers
<1>1. TxInit => Serial /\ (isolation = "snapshot" => Init)
  BY InitIInv DEF TxInit, Serial, TxInv, Open, Idle
<1>2. Serial /\ [TxNext]_txVars => Serial' /\ [isolation = "snapshot" => Next]_vars
  <2> SUFFICES ASSUME Serial, [TxNext]_txVars
               PROVE  Serial' /\ [isolation = "snapshot" => Next]_vars
    OBVIOUS
  <2>1. Snapshot' = Snapshot
    BY DEF TxNext, txVars, Snapshot
  <2>2. CASE Snapshot
    BY <2>2, TxStep, NextIInv DEF Serial
  <2>3. CASE ~Snapshot
    BY <2>1, <2>3 DEF Serial, Snapshot
  <2> QED
    BY <2>2, <2>3
<1> QED
  BY <1>1, <1>2, PTL DEF TxSpec, SerialHandlers

-----------------------------------------------------------------------------
(***************************************************************************)
(* What the interleaved transactions keep under either isolation: the      *)
(* types, the points and the questions on record.  Under read committed    *)
(* what a transaction has read may be out of date when it commits; all that*)
(* is used of it here is that the rows it names are still there (Sound).   *)
(***************************************************************************)
ScoresSuffice(row, ms) ==
  /\ row.challenger # row.challenged
  /\ row.challenger_score >= Cardinality(Mistakes(ms, row.challenged))
  /\ row.challenged_score >= Cardinality(Mistakes(ms, row.challenger))

SessionSafe(row, ms) ==
  /\ ~Exists(row) => ms = <<>>
  /\ IsGame(row) => ScoresSuffice(row, ms)

(***************************************************************************)
(* The session of a transaction exists, and the rows the transaction has   *)
(* read are among its moves.                                               *)
(***************************************************************************)
Sound(tx, row, ms) ==
  /\ Exists(row)
  /\ tx.user \in Players(row)
  /\ tx.seen \in 0 .. Len(ms)
  /\ tx.target \in 0 .. Len(ms)
  /\ tx.handler # "ask" /\ tx.stage # "begun" => tx.seen > 0
  /\ tx.handler # "ask" /\ tx.stage \in {"reread", "writing"} => tx.target > 0

SafeInv ==
  /\ TypeOK
  /\ txs \in [Requests -> TxRow \cup {Idle}]
  /\ isolation \in Isolations
  /\ \A s \in Sessions : SessionSafe(sessions[s], moves[s])
  /\ \A r \in Requests : Open(r) =>
       Sound(txs[r], sessions[txs[r].session], moves[txs[r].session])

AllKept == \A s \in Sessions : Keeps(moves'[s], moves[s])

-----------------------------------------------------------------------------
(* Steps inside a transaction.                                             *)

(***************************************************************************)
(* While the tables do not change every question is kept.                  *)
(***************************************************************************)
LEMMA NothingChanges ==
  ASSUME TypeOK, UNCHANGED moves
  PROVE  AllKept
<1> SUFFICES ASSUME NEW s \in Sessions
             PROVE  Keeps(moves[s], moves[s])
  BY DEF AllKept
<1>1. moves[s] \in Seq(MoveRow)
  BY DEF TypeOK
<1>2. Len(moves[s]) \in Nat
  BY <1>1, LenProperties
<1> QED
  BY <1>2 DEF Keeps

(***************************************************************************)
(* A transaction's own step needs only be looked at there.                 *)
(***************************************************************************)
LEMMA SafeOwnStep ==
  ASSUME SafeInv, NEW r \in Requests, NEW tx \in TxRow,
         UNCHANGED <<sessions, moves, isolation>>,
         txs' = [txs EXCEPT ![r] = tx],
         Sound(tx, sessions[tx.session], moves[tx.session])
  PROVE  SafeInv' /\ AllKept
<1>1. /\ txs' \in [Requests -> TxRow \cup {Idle}]
      /\ txs'[r] = tx /\ \A q \in Requests : q # r => txs'[q] = txs[q]
  BY DEF SafeInv
<1>2. TypeOK' /\ \A s \in Sessions : SessionSafe(sessions[s], moves[s])'
  BY DEF SafeInv, TypeOK, SessionSafe
<1>3. ASSUME NEW q \in Requests, Open(q)'
      PROVE  Sound(txs'[q], sessions'[txs'[q].session], moves'[txs'[q].session])
  BY <1>1, <1>3 DEF SafeInv, Open
<1>4. AllKept
  BY NothingChanges DEF SafeInv
<1> QED
  BY <1>1, <1>2, <1>3, <1>4 DEF SafeInv

(***************************************************************************)
(* A request begins with nothing read but its session.                     *)
(***************************************************************************)
LEMMA SafeBeginStep ==
  ASSUME SafeInv, UNCHANGED isolation, NEW r \in Requests, NEW h \in Handlers,
         NEW u \in Users, NEW s \in Sessions, NEW ts \in Timestamps, Begin(r, h, u, s, ts)
  PROVE  SafeInv' /\ AllKept
<1> DEFINE tx == [stage |-> "begun", handler |-> h, user |-> u, session |-> s, ts |-> ts,
                  seen |-> 0, target |-> 0, stale |-> FALSE]
<1>1. tx \in TxRow
  BY DEF TxRow, Stages
<1>2. Len(moves[s]) \in Nat
  BY LenProperties DEF SafeInv, TypeOK
<1>3. Sound(tx, sessions[s], moves[s])
  BY <1>2 DEF Begin, Sound
<1> QED
  BY <1>1, <1>3, SafeOwnStep DEF Begin

(***************************************************************************)
(* What the other statements of a transaction start from.                  *)
(***************************************************************************)
LEMMA OpenTx ==
  ASSUME SafeInv, NEW r \in Requests, txs[r].stage \in Stages
  PROVE  /\ txs[r] \in TxRow
         /\ Sound(txs[r], sessions[txs[r].session], moves[txs[r].session])
         /\ moves[txs[r].session] \in Seq(MoveRow)
         /\ Len(moves[txs[r].session]) \in Nat
         /\ DOMAIN moves[txs[r].session] = 1 .. Len(moves[txs[r].session])
         /\ sessions[txs[r].session] \in SessionRow
<1>1. Open(r) /\ txs[r] \in TxRow
  BY DEF SafeInv, Open, Idle, Stages
<1>2. txs[r].session \in Sessions
  BY <1>1 DEF TxRow
<1>3. moves[txs[r].session] \in Seq(MoveRow) /\ sessions[txs[r].session] \in SessionRow
  BY <1>2 DEF SafeInv, TypeOK
<1> QED
  BY <1>1, <1>3, LenProperties DEF SafeInv

(***************************************************************************)
(* The check names the row it read.                                        *)
(***************************************************************************)
LEMMA SafeCheckStep ==
  ASSUME SafeInv, UNCHANGED isolation, NEW r \in Requests, Check(r)
  PROVE  SafeInv' /\ AllKept
<1> DEFINE ms == moves[txs[r].session]
<1>1. /\ txs[r] \in TxRow /\ Sound(txs[r], sessions[txs[r].session], ms)
      /\ Len(ms) \in Nat /\ DOMAIN ms = 1 .. Len(ms)
      /\ txs[r].stage = "begun" /\ UNCHANGED <<sessions, moves>>
  BY OpenTx DEF Check, Stages
<1>2. CASE txs[r].handler = "ask" /\ txs' = [txs EXCEPT ![r].stage = "checked"]
  <2> DEFINE tx == [txs[r] EXCEPT !.stage = "checked"]
  <2>1. /\ tx \in TxRow /\ tx.handler = "ask" /\ tx.seen = txs[r].seen
        /\ tx.target = txs[r].target /\ tx.session = txs[r].session /\ tx.user = txs[r].user
    BY <1>1, <1>2 DEF TxRow, Stages
  <2>2. txs' = [txs EXCEPT ![r] = tx]
    BY <1>2 DEF SafeInv
  <2> HIDE DEF tx
  <2>3. Sound(tx, sessions[tx.session], moves[tx.session])
    BY <1>1, <2>1 DEF Sound
  <2> QED
    BY <1>1, <2>1, <2>2, <2>3, SafeOwnStep
<1>3. CASE \E i \in LastMoves(ms) : txs' = [txs EXCEPT ![r].stage = "checked", ![r].seen = i]
  <2>1. PICK i \in LastMoves(ms) : txs' = [txs EXCEPT ![r].stage = "checked", ![r].seen = i]
    BY <1>3
  <2> DEFINE tx == [txs[r] EXCEPT !.stage = "checked", !.seen = i]
  <2>2. i \in 1 .. Len(ms) /\ i \in Nat
    BY <1>1 DEF LastMoves
  <2>3. /\ tx \in TxRow /\ tx.stage = "checked" /\ tx.seen = i
        /\ tx.handler = txs[r].handler /\ tx.session = txs[r].session
        /\ tx.user = txs[r].user /\ tx.target = txs[r].target
    BY <1>1, <2>2 DEF TxRow, Stages
  <2>4. txs' = [txs EXCEPT ![r] = tx]
    BY <2>1 DEF SafeInv
  <2> HIDE DEF tx
  <2>5. Sound(tx, sessions[tx.session], moves[tx.session])
    BY <1>1, <2>2, <2>3 DEF Sound
  <2> QED
    BY <1>1, <2>3, <2>4, <2>5, SafeOwnStep
<1> QED
  BY <1>2, <1>3 DEF Check

(***************************************************************************)
(* The second look at the last move names a row too.                       *)
(***************************************************************************)
LEMMA SafeRereadStep ==
  ASSUME SafeInv, UNCHANGED isolation, NEW r \in Requests, Reread(r)
  PROVE  SafeInv' /\ AllKept
<1> DEFINE ms == moves[txs[r].session]
<1>1. /\ txs[r] \in TxRow /\ Sound(txs[r], sessions[txs[r].session], ms)
      /\ Len(ms) \in Nat /\ DOMAIN ms = 1 .. Len(ms)
      /\ txs[r].stage = "checked" /\ UNCHANGED <<sessions, moves>>
  BY OpenTx DEF Reread, Stages
<1>2. PICK j \in LastMoves(ms) : txs' = [txs EXCEPT ![r].stage = "reread", ![r].target = j]
  BY DEF Reread
<1>3. j \in 1 .. Len(ms) /\ j \in Nat
  BY <1>1 DEF LastMoves
<1> DEFINE tx == [txs[r] EXCEPT !.stage = "reread", !.target = j]
<1>4. /\ tx \in TxRow /\ tx.stage = "reread" /\ tx.seen = txs[r].seen
      /\ tx.handler = txs[r].handler /\ tx.session = txs[r].session
      /\ tx.user = txs[r].user /\ tx.target = j
  BY <1>1, <1>3 DEF TxRow, Stages
<1>5. txs' = [txs EXCEPT ![r] = tx]
  BY <1>2 DEF SafeInv
<1> HIDE DEF tx
<1>6. Sound(tx, sessions[tx.session], moves[tx.session])
  BY <1>1, <1>3, <1>4 DEF Sound
<1> QED
  BY <1>1, <1>4, <1>5, <1>6, SafeOwnStep

(***************************************************************************)
(* Taking the lock changes nothing a transaction has read.                 *)
(***************************************************************************)
LEMMA SafeWriteStep ==
  ASSUME SafeInv, UNCHANGED isolation, NEW r \in Requests, Write(r)
  PROVE  SafeInv' /\ AllKept
<1>1. /\ txs[r] \in TxRow
      /\ Sound(txs[r], sessions[txs[r].session], moves[txs[r].session])
      /\ txs[r].stage \in {"checked", "reread"}
      /\ txs[r].stage = "checked" => txs[r].handler = "ask"
      /\ UNCHANGED <<sessions, moves>>
  BY OpenTx DEF Write, Stages
<1> DEFINE tx == [txs[r] EXCEPT !.stage = "writing"]
<1>2. /\ tx \in TxRow /\ tx.stage = "writing" /\ tx.seen = txs[r].seen
      /\ tx.handler = txs[r].handler /\ tx.session = txs[r].session
      /\ tx.user = txs[r].user /\ tx.target = txs[r].target
  BY <1>1 DEF TxRow, Stages
<1>3. txs' = [txs EXCEPT ![r] = tx]
  BY DEF Write, SafeInv
<1> HIDE DEF tx
<1>4. Sound(tx, sessions[tx.session], moves[tx.session])
  BY <1>1, <1>2 DEF Sound
<1> QED
  BY <1>1, <1>2, <1>3, <1>4, SafeOwnStep

(***************************************************************************)
(* A transaction that is rolled back takes nothing with it.                *)
(***************************************************************************)
LEMMA SafeAbortStep ==
  ASSUME SafeInv, UNCHANGED isolation, NEW r \in Requests, Abort(r)
  PROVE  SafeInv' /\ AllKept
<1>1. /\ txs' \in [Requests -> TxRow \cup {Idle}] /\ UNCHANGED <<sessions, moves>>
      /\ txs'[r] = Idle /\ \A q \in Requests : q # r => txs'[q] = txs[q]
  BY DEF Abort, SafeInv
<1>2. TypeOK' /\ \A s \in Sessions : SessionSafe(sessions[s], moves[s])'
  BY <1>1 DEF SafeInv, TypeOK, SessionSafe
<1>3. ASSUME NEW q \in Requests, Open(q)'
      PROVE  Sound(txs'[q], sessions'[txs'[q].session], moves'[txs'[q].session])
  BY <1>1, <1>3 DEF SafeInv, Open
<1>4. AllKept
  BY <1>1, NothingChanges DEF SafeInv
<1> QED
  BY <1>1, <1>2, <1>3, <1>4 DEF SafeInv

-----------------------------------------------------------------------------
(* Commits.                                                                *)

(***************************************************************************)
(* A commit leaves the transactions of others as they were, but for being  *)
(* out of date.                                                            *)
(***************************************************************************)
LEMMA OutdatedSame ==
  ASSUME SafeInv, NEW q \in Requests, txs[q] # Idle, NEW tx, tx = Outdated(txs[q])
  PROVE  /\ tx \in TxRow
         /\ tx.session = txs[q].session /\ tx.user = txs[q].user
         /\ tx.seen = txs[q].seen /\ tx.target = txs[q].target
         /\ tx.handler = txs[q].handler /\ tx.stage = txs[q].stage
<1> DEFINE stale == isolation = "snapshot"
<1>1. txs[q] \in TxRow /\ stale \in BOOLEAN
  BY DEF SafeInv
<1>2. tx = [txs[q] EXCEPT !.stale = stale]
  BY DEF Outdated
<1> HIDE DEF stale
<1> QED
  BY <1>1, <1>2 DEF TxRow

(***************************************************************************)
(* A session's row and moves are replaced and everybody else's transaction *)
(* goes on: it is enough that the new ones are safe, that the questions    *)
(* are kept and that the players stay.                                     *)
(***************************************************************************)
LEMMA Committed ==
  ASSUME SafeInv, UNCHANGED isolation,
         NEW s \in Sessions, NEW row \in SessionRow, NEW ms \in Seq(MoveRow),
         sessions' = [sessions EXCEPT ![s] = row],
         moves' = [moves EXCEPT ![s] = ms],
         SessionSafe(row, ms), Keeps(ms, moves[s]),
         Exists(sessions[s]) => Exists(row) /\ Players(row) = Players(sessions[s]),
         txs' \in [Requests -> {Idle} \cup {Outdated(txs[q]) : q \in Requests}],
         \A q \in Requests : txs'[q] = Idle \/ txs'[q] = Outdated(txs[q])
  PROVE  SafeInv' /\ AllKept
<1>1. /\ sessions'[s] = row /\ moves'[s] = ms
      /\ \A z \in Sessions : z # s => sessions'[z] = sessions[z] /\ moves'[z] = moves[z]
      /\ TypeOK'
  BY DEF SafeInv, TypeOK
<1>2. \A z \in Sessions : SessionSafe(sessions'[z], moves'[z])
  BY <1>1 DEF SafeInv
<1>3. ASSUME NEW q \in Requests, txs'[q] # Idle
      PROVE  /\ txs'[q] \in TxRow
             /\ Sound(txs'[q], sessions'[txs'[q].session], moves'[txs'[q].session])
  <2>1. txs[q] # Idle /\ txs'[q] = Outdated(txs[q])
    BY <1>3 DEF Outdated
  <2>2. /\ txs'[q] \in TxRow
        /\ txs'[q].session = txs[q].session /\ txs'[q].user = txs[q].user
        /\ txs'[q].seen = txs[q].seen /\ txs'[q].target = txs[q].target
        /\ txs'[q].handler = txs[q].handler /\ txs'[q].stage = txs[q].stage
    BY <2>1, OutdatedSame
  <2>3. txs[q].session \in Sessions
    BY <2>2 DEF TxRow
  <2>4. Sound(txs[q], sessions[txs[q].session], moves[txs[q].session])
    BY <2>1 DEF SafeInv, Open
  <2>5. Len(moves[s]) \in Nat /\ Len(ms) \in Nat /\ Len(ms) >= Len(moves[s])
    BY LenProperties DEF Keeps, SafeInv, TypeOK
  <2>6. CASE txs[q].session = s
    <3>1. /\ Exists(row) /\ txs[q].user \in Players(row)
          /\ txs[q].seen \in 0 .. Len(ms) /\ txs[q].target \in 0 .. Len(ms)
      BY <2>4, <2>5, <2>6 DEF Sound
    <3> QED
      BY <1>1, <2>2, <2>4, <2>6, <3>1 DEF Sound
  <2>7. CASE txs[q].session # s
    BY <1>1, <2>2, <2>3, <2>4, <2>7 DEF Sound
  <2> QED
    BY <2>2, <2>6, <2>7
<1>4. txs' \in [Requests -> TxRow \cup {Idle}]
  BY <1>3
<1>5. AllKept
  <2>1. ASSUME NEW z \in Sessions
        PROVE  Len(moves[z]) \in Nat
    BY LenProperties DEF SafeInv, TypeOK
  <2> QED
    BY <1>1, <2>1 DEF AllKept, Keeps
<1> QED
  BY <1>1, <1>2, <1>3, <1>4, <1>5 DEF SafeInv, Open

(***************************************************************************)
(* A new question keeps the others and is no mistake.                      *)
(***************************************************************************)
LEMMA AppendKeeps ==
  ASSUME NEW ms \in Seq(MoveRow), NEW asker \in OptionalUser, NEW v \in Verbs,
         NEW k \in Kinds, NEW ts \in Nat, NEW new,
         new = Append(ms, NewMove(asker, v, k, ts))
  PROVE  /\ new \in Seq(MoveRow)
         /\ Keeps(new, ms)
         /\ \A w : Mistakes(new, w) = Mistakes(ms, w)
<1>1. /\ new \in Seq(MoveRow)
      /\ Len(ms) \in Nat /\ Len(new) = Len(ms) + 1
      /\ \A i \in DOMAIN ms : new[i] = ms[i]
  BY Appended
<1>2. Keeps(new, ms)
  BY <1>1 DEF Keeps
<1> QED
  BY <1>1, <1>2, AppendKeepsMistakes

LEMMA AddOne ==
  ASSUME NEW S, NEW x, IsFiniteSet(S)
  PROVE  IsFiniteSet(S \cup {x}) /\ Cardinality(S \cup {x}) <= Cardinality(S) + 1
<1>1. Cardinality(S) \in Nat
  BY FS_CardinalityType
<1>2. /\ IsFiniteSet(S \cup {x})
      /\ Cardinality(S \cup {x}) = IF x \in S THEN Cardinality(S) ELSE Cardinality(S) + 1
  BY FS_AddElement
<1> QED
  BY <1>1, <1>2

(***************************************************************************)
(* An answer, to whatever row, keeps every question; it adds at most one   *)
(* to the mistakes of whoever gave it, and that only if it is wrong.       *)
(***************************************************************************)
LEMMA AnswerKeeps ==
  ASSUME NEW ms \in Seq(MoveRow), NEW j \in DOMAIN ms, NEW u \in Users,
         NEW verdict \in {"yes", "no"}, NEW ts \in Nat, NEW new,
         new = Answered(ms, j, u, verdict, ts)
  PROVE  /\ new \in Seq(MoveRow)
         /\ Keeps(new, ms)
         /\ \A w : w # u \/ verdict = "yes" =>
              Cardinality(Mistakes(new, w)) <= Cardinality(Mistakes(ms, w))
         /\ Cardinality(Mistakes(new, u)) <= Cardinality(Mistakes(ms, u)) + 1
<1>1. GradedFrom(new, ms, j, u, verdict, ts)
  BY AnsweredRow, Zenon DEF OptionalUser
<1>2. /\ new \in Seq(MoveRow) /\ Len(new) = Len(ms) /\ DOMAIN new = DOMAIN ms
      /\ \A i \in DOMAIN ms : i # j => new[i] = ms[i]
      /\ new[j].answer_user = u /\ new[j].is_correct = verdict
      /\ new[j].ask_user = ms[j].ask_user /\ new[j].verb = ms[j].verb
      /\ new[j].asktimestamp = ms[j].asktimestamp
  BY <1>1 DEF GradedFrom
<1>3. Keeps(new, ms)
  <2>1. Len(ms) \in Nat
    BY LenProperties
  <2> QED
    BY <1>2, <2>1 DEF Keeps
<1>4. ASSUME NEW w, w # u \/ verdict = "yes"
      PROVE  Cardinality(Mistakes(new, w)) <= Cardinality(Mistakes(ms, w))
  <2>1. Mistakes(new, w) \subseteq Mistakes(ms, w)
    BY <1>2, <1>4 DEF Mistakes
  <2> QED
    BY <2>1, MistakesFinite, FS_Subset
<1>5. Cardinality(Mistakes(new, u)) <= Cardinality(Mistakes(ms, u)) + 1
  <2>1. Mistakes(new, u) \subseteq Mistakes(ms, u) \cup {j}
    BY <1>2 DEF Mistakes
  <2>2. IsFiniteSet(Mistakes(ms, u)) /\ Cardinality(Mistakes(ms, u)) \in Nat
    BY MistakesFinite
  <2>3. /\ IsFiniteSet(Mistakes(ms, u) \cup {j})
        /\ Cardinality(Mistakes(ms, u) \cup {j}) <= Cardinality(Mistakes(ms, u)) + 1
    BY <2>2, AddOne
  <2>4. Cardinality(Mistakes(new, u)) <= Cardinality(Mistakes(ms, u) \cup {j})
    BY <2>1, <2>3, FS_Subset
  <2>5. Cardinality(Mistakes(new, u)) \in Nat /\ Cardinality(Mistakes(ms, u) \cup {j}) \in Nat
    BY <1>2, <2>3, MistakesFinite, FS_CardinalityType
  <2> QED
    BY <2>2, <2>3, <2>4, <2>5
<1> QED
  BY <1>2, <1>3, <1>4, <1>5

(***************************************************************************)
(* A game's points after an answer.                                        *)
(***************************************************************************)
LEMMA AnswerScored ==
  ASSUME NEW row \in SessionRow, NEW ms \in Seq(MoveRow), ScoresSuffice(row, ms), IsGame(row),
         NEW j \in DOMAIN ms, NEW u \in Users, u \in Players(row),
         NEW verdict \in {"yes", "no"}, NEW ts \in Nat,
         NEW new, new = Answered(ms, j, u, verdict, ts),
         NEW row1, row1 = [row EXCEPT !.updated = ts],
         NEW row2, row2 = Scored(row1, u, verdict)
  PROVE  /\ row2 \in SessionRow
         /\ SessionSafe(row2, new)
         /\ Exists(row2) /\ Players(row2) = Players(row)
<1>1. /\ row2 \in SessionRow
      /\ row2.challenger = row.challenger /\ row2.challenged = row.challenged
      /\ verdict = "yes" => /\ row2.challenger_score = row.challenger_score
                            /\ row2.challenged_score = row.challenged_score
      /\ verdict = "no" /\ row.challenger = u =>
           /\ row2.challenger_score = row.challenger_score
           /\ row2.challenged_score = row.challenged_score + 1
      /\ verdict = "no" /\ row.challenger # u =>
           /\ row2.challenger_score = row.challenger_score + 1
           /\ row2.challenged_score = row.challenged_score
  <2>1. /\ row1 \in SessionRow
        /\ row1.challenger = row.challenger /\ row1.challenged = row.challenged
        /\ row1.challenger_score = row.challenger_score
        /\ row1.challenged_score = row.challenged_score
    BY DEF SessionRow
  <2>2. row1.challenger_score + 1 \in Nat /\ row1.challenged_score + 1 \in Nat
    BY <2>1 DEF SessionRow
  <2>3. CASE verdict = "yes"
    BY <2>1, <2>3 DEF Scored
  <2>4. CASE verdict = "no" /\ row1.challenger = u
    <3>1. row2 = [row1 EXCEPT !.challenged_score = row1.challenged_score + 1]
      BY <2>4 DEF Scored
    <3> QED
      BY <2>1, <2>2, <2>4, <3>1 DEF SessionRow
  <2>5. CASE verdict = "no" /\ row1.challenger # u
    <3>1. row2 = [row1 EXCEPT !.challenger_score = row1.challenger_score + 1]
      BY <2>5 DEF Scored
    <3> QED
      BY <2>1, <2>2, <2>5, <3>1 DEF SessionRow
  <2> QED
    BY <2>3, <2>4, <2>5
<1>2. row.challenger_score \in Nat /\ row.challenged_score \in Nat
  BY DEF SessionRow
<1>3. \A w : /\ Cardinality(Mistakes(ms, w)) \in Nat
            /\ Cardinality(Mistakes(new, w)) \in Nat
  BY AnswerKeeps, MistakesFinite
<1>4. /\ \A w : w # u \/ verdict = "yes" =>
           Cardinality(Mistakes(new, w)) <= Cardinality(Mistakes(ms, w))
      /\ Cardinality(Mistakes(new, u)) <= Cardinality(Mistakes(ms, u)) + 1
  BY AnswerKeeps
<1>5. /\ row.challenger # row.challenged
      /\ row.challenger_score >= Cardinality(Mistakes(ms, row.challenged))
      /\ row.challenged_score >= Cardinality(Mistakes(ms, row.challenger))
      /\ u = row.challenger \/ u = row.challenged
  BY DEF ScoresSuffice, Players
<1>6. /\ row2.challenger_score >= Cardinality(Mistakes(new, row.challenged))
      /\ row2.challenged_score >= Cardinality(Mistakes(new, row.challenger))
  <2>1. CASE verdict = "yes"
    BY <1>1, <1>2, <1>3, <1>4, <1>5, <2>1
  <2>2. CASE verdict = "no" /\ u = row.challenger
    BY <1>1, <1>2, <1>3, <1>4, <1>5, <2>2
  <2>3. CASE verdict = "no" /\ u = row.challenged
    BY <1>1, <1>2, <1>3, <1>4, <1>5, <2>3
  <2> QED
    BY <1>5, <2>1, <2>2, <2>3
<1>7. ScoresSuffice(row2, new)
  BY <1>1, <1>5, <1>6 DEF ScoresSuffice
<1> QED
  BY <1>1, <1>7 DEF SessionSafe, IsGame, Exists, Players

(***************************************************************************)
(* A committing transaction ends, and the others go on.                    *)
(***************************************************************************)
LEMMA OthersGoOn ==
  ASSUME NEW r \in Requests, EndCommitted(r)
  PROVE  /\ txs' \in [Requests -> {Idle} \cup {Outdated(txs[q]) : q \in Requests}]
         /\ \A q \in Requests : txs'[q] = Idle \/ txs'[q] = Outdated(txs[q])
BY DEF EndCommitted

(***************************************************************************)
(* hc_ask inserts a question, whatever became of the move it checked.      *)
(***************************************************************************)
LEMMA CommitAskStep ==
  ASSUME SafeInv, UNCHANGED isolation, NEW r \in Requests, NEW v \in Verbs, NEW k \in Kinds,
         CommitAsk(r, v, k)
  PROVE  SafeInv' /\ AllKept
<1> USE GameAssumption
<1> DEFINE s == txs[r].session
           u == txs[r].user
           ms == moves[s]
           row == sessions[s]
<1>1. /\ txs[r] \in TxRow /\ Sound(txs[r], row, ms)
      /\ ms \in Seq(MoveRow) /\ DOMAIN ms = 1 .. Len(ms) /\ Len(ms) \in Nat
      /\ row \in SessionRow
  BY OpenTx DEF CommitAsk, Stages
<1>2. s \in Sessions /\ u \in OptionalUser /\ txs[r].ts \in Nat /\ txs[r].seen \in 0 .. Len(ms)
  BY <1>1 DEF TxRow, OptionalUser, Sound
<1>3. PICK ts \in Nat : InsertAsk(u, s, v, k, ts)
  <2>1. CASE txs[r].seen = 0
    BY <1>2, <2>1 DEF CommitAsk
  <2>2. CASE txs[r].seen # 0
    <3>1. ms[txs[r].seen] \in MoveRow
      BY <1>1, <1>2, <2>2
    <3>2. ms[txs[r].seen].asktimestamp \in Nat
      BY <3>1 DEF MoveRow
    <3>3. AskTimestamp(txs[r].ts, ms[txs[r].seen].asktimestamp) \in Nat
      BY <1>2, <3>2, AskTimestampLater
    <3> QED
      BY <2>2, <3>3 DEF CommitAsk
  <2> QED
    BY <2>1, <2>2
<1>4. PICK new, row2 : /\ new = Append(ms, NewMove(u, v, k, ts))
                       /\ row2 = [row EXCEPT !.updated = ts]
  OBVIOUS
<1>5. moves' = [moves EXCEPT ![s] = new] /\ sessions' = [sessions EXCEPT ![s] = row2]
  BY <1>2, <1>3, <1>4 DEF InsertAsk, SafeInv, TypeOK
<1>6. /\ row2 \in SessionRow
      /\ row2.challenger = row.challenger /\ row2.challenged = row.challenged
      /\ row2.challenger_score = row.challenger_score
      /\ row2.challenged_score = row.challenged_score
  BY <1>1, <1>4 DEF SessionRow
<1>7. SessionSafe(row, ms) /\ Exists(row)
  BY <1>1, <1>2 DEF SafeInv, Sound
<1> HIDE DEF s, u, ms, row
<1>8. new \in Seq(MoveRow) /\ Keeps(new, ms) /\ \A w : Mistakes(new, w) = Mistakes(ms, w)
  <2>1. ms \in Seq(MoveRow) /\ u \in OptionalUser /\ new = Append(ms, NewMove(u, v, k, ts))
    BY <1>1, <1>2, <1>4
  <2>2. PICK old, asker : old = ms /\ asker = u
    OBVIOUS
  <2>3. /\ new \in Seq(MoveRow) /\ Keeps(new, old)
        /\ \A w : Mistakes(new, w) = Mistakes(old, w)
    <3>1. /\ old \in Seq(MoveRow) /\ asker \in OptionalUser
          /\ new = Append(old, NewMove(asker, v, k, ts))
      BY <2>1, <2>2
    <3>2. ts \in Nat /\ v \in Verbs /\ k \in Kinds
      OBVIOUS
    <3> HIDE DEF ms, row, s, u
    <3>3. new \in Seq(MoveRow) /\ Keeps(new, old)
      BY <3>1, <3>2, AppendKeeps
    <3>4. ASSUME NEW w
          PROVE  Mistakes(new, w) = Mistakes(old, w)
      BY <3>1, <3>2, AppendKeepsMistakes
    <3> QED
      BY <3>3, <3>4
  <2> QED
    BY <2>2, <2>3
<1>9. Exists(row2) /\ Players(row2) = Players(row)
  BY <1>6, <1>7 DEF Exists, Players
<1>10. SessionSafe(row2, new)
  BY <1>6, <1>7, <1>8, <1>9 DEF SessionSafe, IsGame, IsPractice, Exists, ScoresSuffice
<1>11. /\ txs' \in [Requests -> {Idle} \cup {Outdated(txs[q]) : q \in Requests}]
       /\ \A q \in Requests : txs'[q] = Idle \/ txs'[q] = Outdated(txs[q])
  BY OthersGoOn DEF CommitAsk
<1> QED
  BY <1>2, <1>5, <1>6, <1>8, <1>9, <1>10, <1>11, Committed DEF ms, row

(***************************************************************************)
(* hc_answer and hc_mf_pressed write to the row they found last, even if   *)
(* it is answered already or not the one they graded.                      *)
(***************************************************************************)
LEMMA CommitAnswerStep ==
  ASSUME SafeInv, UNCHANGED isolation, NEW r \in Requests, NEW verdict \in {"yes", "no"},
         CommitAnswer(r, verdict)
  PROVE  SafeInv' /\ AllKept
<1> USE GameAssumption
<1> DEFINE s == txs[r].session
           u == txs[r].user
           ts == txs[r].ts
           i == txs[r].seen
           j == txs[r].target
           ms == moves[s]
           row == sessions[s]
<1>1. /\ txs[r] \in TxRow /\ Sound(txs[r], row, ms)
      /\ ms \in Seq(MoveRow) /\ DOMAIN ms = 1 .. Len(ms) /\ Len(ms) \in Nat
      /\ row \in SessionRow
  BY OpenTx DEF CommitAnswer, Stages
<1>2. /\ s \in Sessions /\ u \in Users /\ u \in Players(row) /\ ts \in Nat
      /\ i \in DOMAIN ms /\ j \in DOMAIN ms
  <2>1. s \in Sessions /\ u \in Users /\ ts \in Nat /\ i \in Nat /\ j \in Nat
    <3>1. s \in Sessions /\ u \in Users /\ ts \in Timestamps
      BY <1>1 DEF TxRow
    <3>2. i \in 0 .. Len(ms) /\ j \in 0 .. Len(ms)
      BY <1>1 DEF Sound
    <3>3. ts \in Nat
      BY <3>1 DEF GameAssumption
    <3>4. i \in Nat /\ j \in Nat
      BY <3>2
    <3> QED
      BY <3>1, <3>3, <3>4
  <2>2. txs[r].stage = "writing" /\ txs[r].handler # "ask"
    BY DEF CommitAnswer
  <2>3. /\ u \in Players(row) /\ i > 0 /\ j > 0
        /\ i \in 0 .. Len(ms) /\ j \in 0 .. Len(ms)
    BY <1>1, <2>2 DEF Sound
  <2> QED
    BY <1>1, <2>1, <2>3
<1>3. SessionSafe(row, ms) /\ Exists(row)
  BY <1>1, <1>2 DEF SafeInv, Sound
<1>4. RecordAnswer(u, s, i, j, verdict, ts)
  BY DEF CommitAnswer
<1>5. /\ txs' \in [Requests -> {Idle} \cup {Outdated(txs[q]) : q \in Requests}]
      /\ \A q \in Requests : txs'[q] = Idle \/ txs'[q] = Outdated(txs[q])
  BY OthersGoOn DEF CommitAnswer
<1>6. PICK graded : graded = Answered(ms, j, u, verdict, ts)
  OBVIOUS
<1>7. /\ graded \in Seq(MoveRow) /\ Keeps(graded, ms)
      /\ ms[i].asktimestamp \in Nat /\ ms[i].verb \in Verbs
  <2>1. ms[i] \in MoveRow
    BY <1>1, <1>2
  <2>2. ms[i].asktimestamp \in Nat /\ ms[i].verb \in Verbs
    BY <2>1 DEF MoveRow
  <2> HIDE DEF ms, u, ts, i, j
  <2> QED
    BY <1>1, <1>2, <1>6, <2>2, AnswerKeeps
<1>8. CASE IsPractice(row)
  <2>1. PICK askTs \in Nat : askTs = AskTimestamp(ts, ms[i].asktimestamp)
    BY <1>2, <1>7, AskTimestampLater
  <2>2. PICK v \in NextVerbs(row.verbs, LastVerbs(graded), row.reps, ms[i].verb), k \in Kinds :
          moves' = [moves EXCEPT ![s] = Append(graded, NewMove(NoUser, v, k, askTs))]
    BY <1>4, <1>6, <1>8, <2>1 DEF RecordAnswer
  <2>3. v \in Verbs
    <3>1. v \in row.verbs \cup {ms[i].verb}
      BY <2>2, NextVerbsType
    <3>2. row.verbs \subseteq Verbs
      BY <1>1 DEF SessionRow
    <3> QED
      BY <1>7, <3>1, <3>2
  <2>4. PICK new, row2 : /\ new = Append(graded, NewMove(NoUser, v, k, askTs))
                         /\ row2 = [row EXCEPT !.updated = askTs]
    OBVIOUS
  <2>5. moves' = [moves EXCEPT ![s] = new] /\ sessions' = [sessions EXCEPT ![s] = row2]
    BY <1>4, <1>8, <2>1, <2>2, <2>4 DEF RecordAnswer
  <2>6. /\ row2 \in SessionRow
        /\ row2.challenger = row.challenger /\ row2.challenged = row.challenged
    BY <1>1, <2>4 DEF SessionRow
  <2>7. Exists(row2) /\ Players(row2) = Players(row) /\ SessionSafe(row2, new)
    BY <1>3, <1>8, <2>6 DEF Exists, Players, SessionSafe, IsGame, IsPractice
  <2>8. new \in Seq(MoveRow) /\ Keeps(new, graded)
    <3>1. NoUser \in OptionalUser
      BY DEF OptionalUser
    <3> QED
      BY <1>7, <2>3, <2>4, <3>1, AppendKeeps
  <2>9. Keeps(new, ms)
    <3>1. Len(new) \in Nat /\ Len(graded) \in Nat /\ DOMAIN graded = 1 .. Len(graded)
      BY <1>7, <2>8, LenProperties
    <3> HIDE DEF ms
    <3> QED
      BY <1>1, <1>7, <2>8, <3>1 DEF Keeps
  <2> HIDE DEF ms, row, s
  <2> QED
    BY <1>2, <1>5, <2>5, <2>6, <2>7, <2>8, <2>9, Committed DEF ms, row
<1>9. CASE ~IsPractice(row)
  <2>0. PICK row1 : row1 = [row EXCEPT !.updated = ts]
    OBVIOUS
  <2>1. PICK row2 : row2 = Scored(row1, u, verdict)
    OBVIOUS
  <2>2. moves' = [moves EXCEPT ![s] = graded] /\ sessions' = [sessions EXCEPT ![s] = row2]
    BY <1>4, <1>6, <1>9, <2>0, <2>1 DEF RecordAnswer
  <2>3. IsGame(row) /\ ScoresSuffice(row, ms)
    BY <1>3, <1>9 DEF IsGame, SessionSafe
  <2> HIDE DEF ms, row, s, u, ts, j
  <2>4. PICK old, before, answerer, target, at :
          old = ms /\ before = row /\ answerer = u /\ target = j /\ at = ts
    OBVIOUS
  <2>5. /\ row2 \in SessionRow /\ SessionSafe(row2, graded)
        /\ Exists(row2) /\ Players(row2) = Players(before)
    <3>1. /\ before \in SessionRow /\ old \in Seq(MoveRow) /\ ScoresSuffice(before, old)
          /\ IsGame(before) /\ target \in DOMAIN old /\ answerer \in Users
          /\ answerer \in Players(before) /\ at \in Nat
          /\ graded = Answered(old, target, answerer, verdict, at)
          /\ row1 = [before EXCEPT !.updated = at]
          /\ row2 = Scored(row1, answerer, verdict)
      BY <1>1, <1>2, <1>6, <2>0, <2>1, <2>3, <2>4
    <3> QED
      BY <3>1, AnswerScored
  <2> QED
    BY <1>2, <1>3, <1>5, <1>7, <2>2, <2>4, <2>5, Committed DEF ms, row
<1> QED
  BY <1>8, <1>9

(***************************************************************************)
(* A new session had no row and no moves.                                  *)
(***************************************************************************)
LEMMA CommitSessionStep ==
  ASSUME SafeInv, UNCHANGED isolation,
         NEW u \in Users, NEW s \in Sessions, NEW opponent \in OptionalUser,
         NEW vs \in VerbLists, NEW reps \in RepChoices, NEW ts \in Timestamps,
         CommitSession(u, s, opponent, vs, reps, ts)
  PROVE  SafeInv' /\ AllKept
<1> USE GameAssumption
<1> DEFINE row == [challenger |-> u, challenged |-> opponent, verbs |-> vs, reps |-> reps,
                   challenger_score |-> 0, challenged_score |-> 0,
                   updated |-> IF opponent = NoUser THEN AskTimestamp(ts, 0) ELSE ts]
<1>1. ts \in Nat /\ AskTimestamp(ts, 0) \in Nat /\ vs \in SUBSET Verbs
      /\ reps \in Nat \ {0} /\ u \in OptionalUser /\ u # NoUser
  BY AskTimestampLater DEF OptionalUser
<1>2. row \in SessionRow
  BY <1>1 DEF SessionRow
<1>3. /\ sessions' = [sessions EXCEPT ![s] = row] /\ ~Exists(sessions[s]) /\ opponent # u
  BY DEF CommitSession, InsertSession
<1>4. moves[s] = <<>> /\ moves \in [Sessions -> Seq(MoveRow)]
  BY <1>3 DEF SafeInv, SessionSafe, TypeOK
<1>5. /\ row.challenger = u /\ row.challenged = opponent
      /\ row.challenger_score = 0 /\ row.challenged_score = 0
  OBVIOUS
<1>6. /\ txs' \in [Requests -> {Idle} \cup {Outdated(txs[q]) : q \in Requests}]
      /\ \A q \in Requests : txs'[q] = Idle \/ txs'[q] = Outdated(txs[q])
  BY DEF CommitSession
<1> HIDE DEF row
<1>7. Exists(row)
  BY <1>1, <1>5 DEF Exists
<1>8. PICK ms \in Seq(MoveRow) :
        /\ moves' = [moves EXCEPT ![s] = ms]
        /\ opponent # NoUser => ms = <<>>
  <2>1. CASE opponent = NoUser
    <3>1. PICK v \in NextVerbs(vs, <<>>, reps, NoUser), k \in Kinds :
            moves' = [moves EXCEPT ![s] = <<NewMove(NoUser, v, k, AskTimestamp(ts, 0))>>]
      BY <2>1 DEF CommitSession, InsertSession
    <3>2. v \in Verbs
      <4>1. ChangeVerbs(<<>>, reps)
        BY DEF ChangeVerbs
      <4>2. v \in vs
        BY <4>1, <3>1 DEF NextVerbs, AvailableVerbsPractice
      <4> QED
        BY <1>1, <4>2
    <3>3. NewMove(NoUser, v, k, AskTimestamp(ts, 0)) \in MoveRow
      BY <1>1, <3>2 DEF NewMove, MoveRow, OptionalUser
    <3>4. <<NewMove(NoUser, v, k, AskTimestamp(ts, 0))>> \in Seq(MoveRow)
      BY <3>3
    <3>5. WITNESS <<NewMove(NoUser, v, k, AskTimestamp(ts, 0))>> \in Seq(MoveRow)
    <3> QED
      BY <2>1, <3>1
  <2>2. CASE opponent # NoUser
    BY <1>4, <2>2 DEF CommitSession, InsertSession
  <2> QED
    BY <2>1, <2>2
<1>9. Keeps(ms, moves[s])
  <2>1. Len(ms) \in Nat /\ Len(<<>>) = 0 /\ DOMAIN moves[s] = {}
    BY <1>4, LenProperties
  <2> QED
    BY <1>4, <2>1 DEF Keeps
<1>10. SessionSafe(row, ms)
  <2>1. CASE opponent = NoUser
    BY <1>5, <1>7, <2>1 DEF SessionSafe, IsGame, IsPractice
  <2>2. CASE opponent # NoUser
    <3>1. ms = <<>> /\ \A w : Mistakes(<<>>, w) = {}
      BY <1>8, <2>2 DEF Mistakes
    <3>2. Cardinality({}) = 0
      BY FS_EmptySet
    <3>3. \A w : Cardinality(Mistakes(ms, w)) = 0
      BY <3>1, <3>2
    <3>4. ScoresSuffice(row, ms)
      <4>1. row.challenger_score >= 0 /\ row.challenged_score >= 0
        BY <1>5
      <4> QED
        BY <1>3, <1>5, <3>3, <4>1 DEF ScoresSuffice
    <3> QED
      BY <1>7, <3>4 DEF SessionSafe
  <2> QED
    BY <2>1, <2>2
<1> QED
  BY <1>2, <1>3, <1>6, <1>7, <1>8, <1>9, <1>10, Committed

-----------------------------------------------------------------------------
(* The theorems.                                                           *)

LEMMA InitSafe == TxInit => SafeInv
<1> USE GameAssumption
<1> SUFFICES ASSUME TxInit PROVE SafeInv
  OBVIOUS
<1>1. NoSession \in SessionRow /\ ~Exists(NoSession)
  BY DEF NoSession, SessionRow, OptionalUser, Exists
<1>2. TypeOK
  BY <1>1 DEF TxInit, Init, TypeOK
<1>3. \A s \in Sessions : SessionSafe(sessions[s], moves[s])
  BY <1>1 DEF TxInit, Init, SessionSafe, IsGame
<1> QED
  BY <1>2, <1>3 DEF TxInit, SafeInv, Open

LEMMA StepSafe == SafeInv /\ [TxNext]_txVars => SafeInv' /\ AllKept
<1> SUFFICES ASSUME SafeInv, [TxNext]_txVars
             PROVE  SafeInv' /\ AllKept
  OBVIOUS
<1>1. CASE UNCHANGED txVars
  <2>1. UNCHANGED <<sessions, moves, txs, isolation>>
    BY <1>1 DEF txVars
  <2> QED
    BY <2>1, NothingChanges DEF SafeInv, TypeOK, SessionSafe, Open
<1>2. CASE TxNext
  <2>1. UNCHANGED isolation /\ Step
    BY <1>2 DEF TxNext
  <2>2. ASSUME NEW r \in Requests, NEW h \in Handlers, NEW u \in Users, NEW s \in Sessions,
               NEW ts \in Timestamps, Begin(r, h, u, s, ts)
        PROVE  SafeInv' /\ AllKept
    BY <2>1, <2>2, SafeBeginStep
  <2>3. ASSUME NEW r \in Requests, Check(r)
        PROVE  SafeInv' /\ AllKept
    BY <2>1, <2>3, SafeCheckStep
  <2>4. ASSUME NEW r \in Requests, Reread(r)
        PROVE  SafeInv' /\ AllKept
    BY <2>1, <2>4, SafeRereadStep
  <2>5. ASSUME NEW r \in Requests, Write(r)
        PROVE  SafeInv' /\ AllKept
    BY <2>1, <2>5, SafeWriteStep
  <2>6. ASSUME NEW r \in Requests, NEW v \in Verbs, NEW k \in Kinds, CommitAsk(r, v, k)
        PROVE  SafeInv' /\ AllKept
    BY <2>1, <2>6, CommitAskStep
  <2>7. ASSUME NEW r \in Requests, NEW verdict \in {"yes", "no"}, CommitAnswer(r, verdict)
        PROVE  SafeInv' /\ AllKept
    BY <2>1, <2>7, CommitAnswerStep
  <2>8. ASSUME NEW r \in Requests, Abort(r)
        PROVE  SafeInv' /\ AllKept
    BY <2>1, <2>8, SafeAbortStep
  <2>9. ASSUME NEW u \in Users, NEW s \in Sessions, NEW opponent \in OptionalUser,
               NEW vs \in VerbLists, NEW reps \in RepChoices, NEW ts \in Timestamps,
               CommitSession(u, s, opponent, vs, reps, ts)
        PROVE  SafeInv' /\ AllKept
    BY <2>1, <2>9, CommitSessionStep
  <2> QED
    BY <2>1, <2>2, <2>3, <2>4, <2>5, <2>6, <2>7, <2>8, <2>9 DEF Step
<1> QED
  BY <1>1, <1>2

(***************************************************************************)
(* The invariant holds under either isolation.                             *)
(***************************************************************************)
THEOREM TxInvariant == TxSpec => []SafeInv
BY InitSafe, StepSafe, PTL DEF TxSpec

(***************************************************************************)
(* Every handler has read what it is about to use, and the rows it names   *)
(* are there, whatever the others have committed meanwhile.                *)
(***************************************************************************)
THEOREM TxTypeCorrect == TxSpec => []TxTypeOK
<1>1. SafeInv => TxTypeOK
  <2> SUFFICES ASSUME SafeInv, NEW r \in Requests, Open(r)
               PROVE  /\ txs[r].seen \in 0 .. Len(moves[txs[r].session])
                      /\ txs[r].target \in 0 .. Len(moves[txs[r].session])
                      /\ txs[r].stage = "writing" /\ txs[r].handler # "ask" =>
                           txs[r].seen > 0 /\ txs[r].target > 0
    BY DEF SafeInv, TxTypeOK
  <2> QED
    BY DEF SafeInv, Sound
<1> QED
  BY <1>1, TxInvariant, PTL

(***************************************************************************)
(* add_to_score loses no point under either isolation, for any number of   *)
(* answers at once.                                                        *)
(***************************************************************************)
THEOREM NoPointIsLost == TxSpec => []NoPointLost
<1>1. SafeInv => NoPointLost
  BY DEF SafeInv, SessionSafe, ScoresSuffice, NoPointLost
<1> QED
  BY <1>1, TxInvariant, PTL

(***************************************************************************)
(* No commit drops or rewords a question or withdraws an answer, under     *)
(* either isolation.                                                       *)
(***************************************************************************)
THEOREM QuestionsAreKept == TxSpec => QuestionsKept
<1>1. SafeInv /\ [TxNext]_txVars => [AllKept]_txVars
  BY StepSafe
<1>2. QuestionsKept <=> [][AllKept]_txVars
  BY PTL DEF QuestionsKept, AllKept
<1> QED
  BY <1>1, <1>2, TxInvariant, PTL DEF TxSpec
=============================================================================
