---------------------------- MODULE HcGameProofs ----------------------------
(***************************************************************************)
(* Proofs about HcGame, for any users, sessions, verbs, clock values and   *)
(* number of moves.  The inductive invariant IInv says of every session    *)
(* what SessionInv says of its row and its moves; each handler touches one *)
(* session, so a step is proved by showing SessionInv of the new row and   *)
(* moves (lemmas Insert..., Asked..., Graded...) and then Frame.  The last *)
(* part shows from it that HcGame implements Match.                        *)
(***************************************************************************)
EXTENDS HcGame, FiniteSetTheorems, SequenceTheorems, TLAPS

-----------------------------------------------------------------------------
(* The inductive invariant.                                                *)

SessionInv(row, ms) ==
  /\ ~Exists(row) => ms = <<>>
  /\ IsGame(row) => row.challenger # row.challenged
  /\ Ordered(ms)
  /\ LastOpen(ms)
  /\ IsGame(row) => Alternates(row, ms)
  /\ Exists(row) /\ IsPractice(row) => Waiting(row, ms)
  /\ IsGame(row) => ScoresMatch(row, ms)
  /\ ms # <<>> => row.updated = LastEvent(ms)

IInv == TypeOK /\ \A s \in Sessions : SessionInv(sessions[s], moves[s])

-----------------------------------------------------------------------------
(* Lemmas about the operators of HcGame.                                   *)

(***************************************************************************)
(* Reading by greatest asktimestamp finds exactly the move inserted last.  *)
(***************************************************************************)
LEMMA LastIsNewest ==
  ASSUME NEW ms \in Seq(MoveRow), Ordered(ms), ms # <<>>
  PROVE  /\ Len(ms) \in Nat \ {0}
         /\ LastMoves(ms) = {Len(ms)}
         /\ LastMove(ms) = ms[Len(ms)]
<1>1. Len(ms) \in Nat \ {0} /\ DOMAIN ms = 1 .. Len(ms)
  BY LenProperties, EmptySeq
<1>2. \A i \in DOMAIN ms : ms[i].asktimestamp \in Nat
  <2>1. \A i \in DOMAIN ms : ms[i] \in MoveRow
    BY <1>1
  <2> QED
    BY <2>1 DEF MoveRow
<1>3. Len(ms) \in LastMoves(ms)
  <2> SUFFICES ASSUME NEW j \in DOMAIN ms
               PROVE  ms[j].asktimestamp <= ms[Len(ms)].asktimestamp
    BY <1>1 DEF LastMoves
  <2>1. CASE j = Len(ms)
    BY <2>1, <1>2
  <2>2. CASE j < Len(ms)
    BY <2>2, <1>1, <1>2 DEF Ordered
  <2> QED
    BY <1>1, <2>1, <2>2
<1>4. ASSUME NEW i \in LastMoves(ms)
      PROVE  i = Len(ms)
  <2>1. i \in DOMAIN ms /\ ms[Len(ms)].asktimestamp <= ms[i].asktimestamp
    BY <1>1 DEF LastMoves
  <2>2. i < Len(ms) => ms[i].asktimestamp < ms[Len(ms)].asktimestamp
    BY <1>1, <2>1 DEF Ordered
  <2> QED
    BY <1>1, <1>2, <2>1, <2>2
<1>5. LastMoves(ms) = {Len(ms)}
  BY <1>3, <1>4
<1> QED
  BY <1>1, <1>5 DEF LastMove

(***************************************************************************)
(* A question is always dated after the one before it.                     *)
(***************************************************************************)
LEMMA AskTimestampLater ==
  ASSUME NEW ts \in Nat, NEW previous \in Nat
  PROVE  AskTimestamp(ts, previous) \in Nat /\ previous < AskTimestamp(ts, previous)
BY DEF AskTimestamp

(***************************************************************************)
(* A question appended to the moves is its newest, open move.              *)
(***************************************************************************)
LEMMA Appended ==
  ASSUME NEW ms \in Seq(MoveRow), NEW asker \in OptionalUser, NEW v \in Verbs,
         NEW k \in Kinds, NEW ts \in Nat, NEW new,
         new = Append(ms, NewMove(asker, v, k, ts))
  PROVE  /\ new \in Seq(MoveRow)
         /\ new # <<>>
         /\ Len(ms) \in Nat
         /\ Len(new) = Len(ms) + 1
         /\ DOMAIN ms = 1 .. Len(ms)
         /\ DOMAIN new = 1 .. (Len(ms) + 1)
         /\ \A i \in DOMAIN ms : new[i] = ms[i]
         /\ new[Len(ms) + 1] = NewMove(asker, v, k, ts)
<1>1. NewMove(asker, v, k, ts) \in MoveRow
  BY DEF NewMove, MoveRow, OptionalUser
<1> QED
  BY <1>1

(***************************************************************************)
(* Grading changes one move, and of that move only what grading records.   *)
(***************************************************************************)
GradedFrom(new, ms, j, u, verdict, ts) ==
  /\ new \in Seq(MoveRow)
  /\ new # <<>>
  /\ Len(new) = Len(ms)
  /\ DOMAIN new = DOMAIN ms
  /\ \A i \in DOMAIN ms : i # j => new[i] = ms[i]
  /\ new[j].answer_user = u
  /\ new[j].is_correct = verdict
  /\ new[j].answeredtimestamp = ts
  /\ new[j].ask_user = ms[j].ask_user
  /\ new[j].verb = ms[j].verb
  /\ new[j].asktimestamp = ms[j].asktimestamp

(***************************************************************************)
(* Grading writes the three columns of the answer and nothing else.        *)
(***************************************************************************)
LEMMA AnsweredRow ==
  ASSUME NEW ms \in Seq(MoveRow), NEW j \in DOMAIN ms, NEW u \in OptionalUser,
         NEW verdict \in {"yes", "no"}, NEW ts \in Nat, NEW new,
         new = Answered(ms, j, u, verdict, ts)
  PROVE  GradedFrom(new, ms, j, u, verdict, ts)
<1> DEFINE m == [ms[j] EXCEPT !.answer_user = u, !.is_correct = verdict,
                              !.answeredtimestamp = ts]
<1>1. DOMAIN ms = 1 .. Len(ms) /\ Len(ms) \in Nat
  BY LenProperties
<1>2. ms[j] \in MoveRow
  BY <1>1, ElementOfSeq
<1>3. m \in MoveRow
  BY <1>2 DEF MoveRow
<1>4. new = [ms EXCEPT ![j] = m]
  BY <1>1, <1>2 DEF Answered, MoveRow
<1>5. /\ new \in Seq(MoveRow)
      /\ Len(new) = Len(ms)
      /\ \A i \in 1 .. Len(ms) : new[i] = IF i = j THEN m ELSE ms[i]
  BY <1>1, <1>3, <1>4, ExceptSeq
<1>6. DOMAIN new = DOMAIN ms
  BY <1>1, <1>5, LenProperties
<1>7. new # <<>>
  BY <1>1, <1>5, EmptySeq
<1>8. /\ m.answer_user = u /\ m.is_correct = verdict /\ m.answeredtimestamp = ts
      /\ m.ask_user = ms[j].ask_user /\ m.verb = ms[j].verb
      /\ m.asktimestamp = ms[j].asktimestamp
  BY <1>2 DEF MoveRow
<1> HIDE DEF m
<1> QED
  BY <1>1, <1>5, <1>6, <1>7, <1>8 DEF GradedFrom

(***************************************************************************)
(* The verb of a practice question is one of the session's, or stays.      *)
(***************************************************************************)
LEMMA NextVerbsType ==
  ASSUME NEW available, NEW used, NEW reps, NEW current
  PROVE  NextVerbs(available, used, reps, current) \subseteq available \cup {current}
BY DEF NextVerbs, AvailableVerbsPractice

(***************************************************************************)
(* Mistakes are counted within a finite set.                               *)
(***************************************************************************)
LEMMA MistakesFinite ==
  ASSUME NEW ms \in Seq(MoveRow), NEW u
  PROVE  IsFiniteSet(Mistakes(ms, u)) /\ Cardinality(Mistakes(ms, u)) \in Nat
<1>1. DOMAIN ms = 1 .. Len(ms) /\ Len(ms) \in Nat
  BY LenProperties
<1>2. IsFiniteSet(1 .. Len(ms))
  BY <1>1, FS_Interval
<1>3. Mistakes(ms, u) \subseteq 1 .. Len(ms)
  BY <1>1 DEF Mistakes
<1> QED
  BY <1>2, <1>3, FS_Subset, FS_CardinalityType

(***************************************************************************)
(* A session's row and moves are replaced: IInv survives if the new pair   *)
(* is well-typed and satisfies SessionInv.                                 *)
(***************************************************************************)
LEMMA Frame ==
  ASSUME IInv, NEW s \in Sessions, NEW row \in SessionRow, NEW ms \in Seq(MoveRow),
         SessionInv(row, ms),
         sessions' = [sessions EXCEPT ![s] = row],
         moves' = [moves EXCEPT ![s] = ms]
  PROVE  IInv'
<1>1. TypeOK'
  BY DEF IInv, TypeOK
<1>2. ASSUME NEW r \in Sessions
      PROVE  SessionInv(sessions'[r], moves'[r])
  <2>1. CASE r = s
    <3>1. sessions'[r] = row /\ moves'[r] = ms
      BY <2>1 DEF IInv, TypeOK
    <3> QED BY <3>1
  <2>2. CASE r # s
    <3>1. sessions'[r] = sessions[r] /\ moves'[r] = moves[r]
      BY <2>2 DEF IInv, TypeOK
    <3> QED BY <3>1 DEF IInv
  <2> QED BY <2>1, <2>2
<1> QED
  BY <1>1, <1>2 DEF IInv

-----------------------------------------------------------------------------
(* The handlers keep SessionInv.                                           *)

(***************************************************************************)
(* A session without moves satisfies it, as a game of two different users. *)
(***************************************************************************)
LEMMA InsertGameInv ==
  ASSUME NEW row \in SessionRow, row.challenger # row.challenged,
         ~IsPractice(row), row.challenger_score = 0, row.challenged_score = 0
  PROVE  SessionInv(row, <<>>)
<1>1. \A u : Mistakes(<<>>, u) = {}
  BY DEF Mistakes
<1>2. Cardinality({}) = 0
  BY FS_EmptySet
<1>3. ScoresMatch(row, <<>>)
  BY <1>1, <1>2 DEF ScoresMatch
<1>4. Ordered(<<>>) /\ LastOpen(<<>>) /\ Alternates(row, <<>>)
  BY DEF Ordered, LastOpen, Alternates
<1> QED
  BY <1>3, <1>4 DEF SessionInv

(***************************************************************************)
(* So does a practice session with the program's first question.           *)
(***************************************************************************)
LEMMA InsertPracticeInv ==
  ASSUME NEW row \in SessionRow, Exists(row), IsPractice(row),
         NEW v \in Verbs, NEW k \in Kinds, NEW ts \in Nat, row.updated = ts
  PROVE  /\ <<NewMove(NoUser, v, k, ts)>> \in Seq(MoveRow)
         /\ SessionInv(row, <<NewMove(NoUser, v, k, ts)>>)
<1> DEFINE ms == <<NewMove(NoUser, v, k, ts)>>
<1>1. NewMove(NoUser, v, k, ts) \in MoveRow
  BY DEF NewMove, MoveRow, OptionalUser
<1>2. ms \in Seq(MoveRow) /\ ms # <<>> /\ Len(ms) = 1 /\ DOMAIN ms = {1}
      /\ ms[1] = NewMove(NoUser, v, k, ts)
  BY <1>1
<1> HIDE DEF ms
<1>3. Ordered(ms)
  BY <1>2 DEF Ordered
<1>4. LastOpen(ms)
  BY <1>2 DEF LastOpen, NewMove
<1>5. Waiting(row, ms)
  BY <1>2 DEF Waiting, NewMove
<1>6. row.updated = LastEvent(ms)
  BY <1>2 DEF LastEvent, NewMove
<1>7. ~IsGame(row)
  BY DEF IsGame
<1> QED
  BY <1>2, <1>3, <1>4, <1>5, <1>6, <1>7 DEF SessionInv, ms

(***************************************************************************)
(* A question dated after the last one, which is graded, keeps the order   *)
(* of the asks and leaves one open question.                               *)
(***************************************************************************)
MayFollow(ms, ts) ==
  ms # <<>> => ms[Len(ms)].is_correct # "null" /\ ms[Len(ms)].asktimestamp < ts

(***************************************************************************)
(* A question that may follow goes last in the order of the asks.          *)
(***************************************************************************)
LEMMA AppendKeepsOrder ==
  ASSUME NEW ms \in Seq(MoveRow), NEW asker \in OptionalUser, NEW v \in Verbs,
         NEW k \in Kinds, NEW ts \in Nat,
         Ordered(ms), LastOpen(ms), MayFollow(ms, ts),
         NEW new, new = Append(ms, NewMove(asker, v, k, ts))
  PROVE  Ordered(new) /\ LastOpen(new)
<1>1. /\ Len(ms) \in Nat /\ DOMAIN ms = 1 .. Len(ms)
      /\ Len(new) = Len(ms) + 1 /\ DOMAIN new = 1 .. (Len(ms) + 1)
      /\ \A i \in DOMAIN ms : new[i] = ms[i]
      /\ new[Len(ms) + 1] = NewMove(asker, v, k, ts)
  BY Appended
<1>2. new[Len(ms) + 1].asktimestamp = ts /\ new[Len(ms) + 1].is_correct = "null"
      /\ new[Len(ms) + 1].answer_user = NoUser
  BY <1>1 DEF NewMove
<1>3. \A i \in DOMAIN ms : ms[i].asktimestamp \in Nat
  <2>1. \A i \in DOMAIN ms : ms[i] \in MoveRow
    BY <1>1
  <2> QED
    BY <2>1 DEF MoveRow
<1>4. \A i \in DOMAIN ms : ms[i].asktimestamp < ts
  <2> SUFFICES ASSUME NEW i \in DOMAIN ms PROVE ms[i].asktimestamp < ts
    OBVIOUS
  <2>1. ms # <<>> /\ Len(ms) \in DOMAIN ms
    BY <1>1
  <2>2. ms[i].asktimestamp <= ms[Len(ms)].asktimestamp
    BY <1>1, <1>3, <2>1 DEF Ordered
  <2> QED
    BY <1>3, <2>1, <2>2 DEF MayFollow
<1>5. Ordered(new)
  <2> SUFFICES ASSUME NEW i \in DOMAIN new, NEW j \in DOMAIN new, i < j
               PROVE  new[i].asktimestamp < new[j].asktimestamp
    BY DEF Ordered
  <2>1. i \in DOMAIN ms
    BY <1>1
  <2>2. CASE j \in DOMAIN ms
    BY <1>1, <2>1, <2>2 DEF Ordered
  <2>3. CASE j = Len(ms) + 1
    BY <1>1, <1>2, <1>4, <2>1, <2>3
  <2> QED
    BY <1>1, <2>2, <2>3
<1>6. LastOpen(new)
  <2> SUFFICES ASSUME NEW i \in DOMAIN new
               PROVE  /\ new[i].is_correct = "null" => i = Len(new)
                      /\ new[i].is_correct = "null" <=> new[i].answer_user = NoUser
    BY DEF LastOpen
  <2>1. CASE i \in DOMAIN ms
    <3>1. ms # <<>> /\ ms[Len(ms)].is_correct # "null"
      BY <1>1, <2>1 DEF MayFollow
    <3> QED
      BY <1>1, <2>1, <3>1 DEF LastOpen
  <2>2. CASE i = Len(ms) + 1
    BY <1>1, <1>2, <2>2
  <2> QED
    BY <1>1, <2>1, <2>2
<1> QED
  BY <1>5, <1>6

(***************************************************************************)
(* Appending a question adds no mistake.                                   *)
(***************************************************************************)
LEMMA AppendKeepsMistakes ==
  ASSUME NEW ms \in Seq(MoveRow), NEW asker \in OptionalUser, NEW v \in Verbs,
         NEW k \in Kinds, NEW ts \in Nat, NEW u
  PROVE  Mistakes(Append(ms, NewMove(asker, v, k, ts)), u) = Mistakes(ms, u)
<1> DEFINE new == Append(ms, NewMove(asker, v, k, ts))
<1>1. /\ Len(ms) \in Nat /\ DOMAIN ms = 1 .. Len(ms)
      /\ DOMAIN new = 1 .. (Len(ms) + 1)
      /\ \A i \in DOMAIN ms : new[i] = ms[i]
      /\ new[Len(ms) + 1] = NewMove(asker, v, k, ts)
  BY Appended
<1>2. new[Len(ms) + 1].is_correct # "no"
  BY <1>1 DEF NewMove
<1> HIDE DEF new
<1>3. Mistakes(new, u) = Mistakes(ms, u)
  BY <1>1, <1>2 DEF Mistakes
<1> QED
  BY <1>3 DEF new

(***************************************************************************)
(* hc_ask by a player: the first question of a game, or one that hc_ask's  *)
(* check against the last move admits.                                     *)
(***************************************************************************)
LEMMA AskedInv ==
  ASSUME NEW row \in SessionRow, NEW ms \in Seq(MoveRow), SessionInv(row, ms),
         Exists(row), NEW u \in Users, u \in Players(row),
         NEW v \in Verbs, NEW k \in Kinds, NEW ts \in Nat,
         ms # <<>> => /\ MayAsk(u, ms[Len(ms)])
                      /\ ms[Len(ms)].asktimestamp < ts,
         NEW new, new = Append(ms, NewMove(u, v, k, ts)),
         NEW row2, row2 = [row EXCEPT !.updated = ts]
  PROVE  row2 \in SessionRow /\ new \in Seq(MoveRow) /\ SessionInv(row2, new)
<1> USE GameAssumption
<1>1. u \in OptionalUser
  BY DEF OptionalUser
<1>2. /\ new \in Seq(MoveRow) /\ new # <<>>
      /\ Len(ms) \in Nat /\ DOMAIN ms = 1 .. Len(ms)
      /\ Len(new) = Len(ms) + 1 /\ DOMAIN new = 1 .. (Len(ms) + 1)
      /\ \A i \in DOMAIN ms : new[i] = ms[i]
      /\ new[Len(ms) + 1] = NewMove(u, v, k, ts)
  BY <1>1, Appended
<1>3. ms # <<>> => ms[Len(ms)].is_correct # "null" /\ ms[Len(ms)].answer_user = u
  BY DEF MayAsk
<1>4. Ordered(new) /\ LastOpen(new) /\ LastEvent(new) = ts
  <2>1. Ordered(ms) /\ LastOpen(ms)
    BY DEF SessionInv
  <2>2. MayFollow(ms, ts)
    BY <1>3 DEF MayFollow
  <2>3. Ordered(new)
    BY <1>1, <2>1, <2>2, AppendKeepsOrder, Zenon
  <2>4. LastOpen(new)
    BY <1>1, <2>1, <2>2, AppendKeepsOrder, Zenon
  <2>5. LastEvent(new) = ts
    BY <1>2 DEF LastEvent, NewMove
  <2> QED
    BY <2>3, <2>4, <2>5
<1>5. \A w : Mistakes(new, w) = Mistakes(ms, w)
  BY <1>1, AppendKeepsMistakes
<1>6. /\ row2 \in SessionRow /\ row2.challenger = row.challenger
      /\ row2.challenged = row.challenged /\ row2.updated = ts
      /\ row2.challenger_score = row.challenger_score
      /\ row2.challenged_score = row.challenged_score
  BY DEF SessionRow
<1>7. IsGame(row)
  BY <1>3 DEF IsGame, SessionInv, Waiting
<1>8. Exists(row2) /\ ~IsPractice(row2) /\ IsGame(row2) /\ Players(row2) = Players(row)
  BY <1>6, <1>7 DEF Exists, IsPractice, IsGame, Players
<1>9. Alternates(row2, new)
  <2> SUFFICES ASSUME NEW i \in DOMAIN new
               PROVE  /\ new[i].ask_user \in Players(row)
                      /\ new[i].answer_user \in (Players(row) \cup {NoUser}) \ {new[i].ask_user}
                      /\ i > 1 => new[i].ask_user = new[i-1].answer_user
    BY <1>8 DEF Alternates
  <2>1. Alternates(row, ms)
    BY <1>7 DEF SessionInv
  <2>2. CASE i \in DOMAIN ms
    <3>1. i > 1 => i - 1 \in DOMAIN ms
      BY <1>2, <2>2
    <3> QED
      BY <1>2, <2>1, <2>2, <3>1 DEF Alternates
  <2>3. CASE i = Len(ms) + 1
    <3>1. new[i].ask_user = u /\ new[i].answer_user = NoUser
      BY <1>2, <2>3 DEF NewMove
    <3>2. i > 1 => ms # <<>> /\ i - 1 = Len(ms) /\ i - 1 \in DOMAIN ms
      BY <1>2, <2>3
    <3>3. u # NoUser
      OBVIOUS
    <3> QED
      BY <1>2, <1>3, <3>1, <3>2, <3>3
  <2> QED
    BY <1>2, <2>2, <2>3
<1>10. ScoresMatch(row2, new)
  BY <1>5, <1>6, <1>7 DEF ScoresMatch, SessionInv
<1>11. row2.challenger # row2.challenged
  BY <1>6, <1>7 DEF SessionInv
<1>12. SessionInv(row2, new)
  BY <1>2, <1>4, <1>6, <1>8, <1>9, <1>10, <1>11 DEF SessionInv
<1> QED
  BY <1>2, <1>6, <1>12

(***************************************************************************)
(* Grading the newest move, which is open, keeps the order of the asks and *)
(* leaves no open move.                                                    *)
(***************************************************************************)
LEMMA GradeKeepsOrder ==
  ASSUME NEW ms \in Seq(MoveRow), ms # <<>>, Ordered(ms), LastOpen(ms),
         NEW u \in Users, NEW verdict \in {"yes", "no"}, NEW ts \in Nat,
         NEW new, new = Answered(ms, Len(ms), u, verdict, ts)
  PROVE  /\ Ordered(new)
         /\ LastOpen(new)
         /\ \A i \in DOMAIN new : new[i].is_correct # "null"
<1> USE GameAssumption
<1>1. Len(ms) \in DOMAIN ms /\ u \in OptionalUser
  BY EmptySeq DEF OptionalUser
<1>2. /\ Len(new) = Len(ms) /\ DOMAIN new = DOMAIN ms
      /\ \A i \in DOMAIN ms : i # Len(ms) => new[i] = ms[i]
      /\ new[Len(ms)].answer_user = u /\ new[Len(ms)].is_correct = verdict
      /\ new[Len(ms)].asktimestamp = ms[Len(ms)].asktimestamp
  <2>1. GradedFrom(new, ms, Len(ms), u, verdict, ts)
    BY <1>1, AnsweredRow, Zenon
  <2> QED
    BY <2>1 DEF GradedFrom
<1>3. \A i \in DOMAIN ms : new[i].asktimestamp = ms[i].asktimestamp
  BY <1>2
<1>4. Ordered(new)
  BY <1>2, <1>3 DEF Ordered
<1>5. ASSUME NEW i \in DOMAIN new
      PROVE  new[i].is_correct # "null" /\ new[i].answer_user # NoUser
  <2>1. CASE i = Len(ms)
    BY <1>2, <2>1
  <2>2. CASE i # Len(ms)
    BY <1>2, <2>2 DEF LastOpen
  <2> QED
    BY <2>1, <2>2
<1>6. LastOpen(new)
  BY <1>5 DEF LastOpen
<1> QED
  BY <1>4, <1>5, <1>6

(***************************************************************************)
(* A wrong answer is one more mistake of the user who gave it; grading     *)
(* changes nobody else's mistakes, and a right answer nobody's.            *)
(***************************************************************************)
LEMMA GradeCountsMistake ==
  ASSUME NEW ms \in Seq(MoveRow), ms # <<>>, ms[Len(ms)].is_correct = "null",
         NEW u \in Users, NEW verdict \in {"yes", "no"}, NEW ts \in Nat,
         NEW new, new = Answered(ms, Len(ms), u, verdict, ts), NEW w,
         ms[Len(ms)].answer_user = NoUser
  PROVE  /\ w # u \/ verdict = "yes" =>
              Cardinality(Mistakes(new, w)) = Cardinality(Mistakes(ms, w))
         /\ w = u /\ verdict = "no" =>
              Cardinality(Mistakes(new, w)) = Cardinality(Mistakes(ms, w)) + 1
<1> USE GameAssumption
<1>1. Len(ms) \in DOMAIN ms /\ u \in OptionalUser
  BY EmptySeq DEF OptionalUser
<1>2. /\ DOMAIN new = DOMAIN ms
      /\ \A i \in DOMAIN ms : i # Len(ms) => new[i] = ms[i]
      /\ new[Len(ms)].answer_user = u /\ new[Len(ms)].is_correct = verdict
  <2>1. GradedFrom(new, ms, Len(ms), u, verdict, ts)
    BY <1>1, AnsweredRow, Zenon
  <2> QED
    BY <2>1 DEF GradedFrom
<1>3. Len(ms) \notin Mistakes(ms, w)
  BY DEF Mistakes
<1>4. w # u \/ verdict = "yes" => Mistakes(new, w) = Mistakes(ms, w)
  BY <1>1, <1>2 DEF Mistakes
<1>5. w = u /\ verdict = "no" => Mistakes(new, w) = Mistakes(ms, w) \cup {Len(ms)}
  BY <1>1, <1>2 DEF Mistakes
<1>6. IsFiniteSet(Mistakes(ms, w))
  BY MistakesFinite
<1>7. Cardinality(Mistakes(ms, w) \cup {Len(ms)}) = Cardinality(Mistakes(ms, w)) + 1
  BY <1>3, <1>6, FS_AddElement
<1> QED
  BY <1>4, <1>5, <1>7

(***************************************************************************)
(* hc_answer and hc_mf_pressed in a game: the open question is graded and  *)
(* a mistake scored to the other player.                                   *)
(***************************************************************************)
LEMMA GradedGameInv ==
  ASSUME NEW row \in SessionRow, NEW ms \in Seq(MoveRow), SessionInv(row, ms),
         IsGame(row), NEW u \in Users, u \in Players(row), ms # <<>>,
         MayAnswer(u, ms[Len(ms)]),
         NEW verdict \in {"yes", "no"}, NEW ts \in Nat,
         NEW new, new = Answered(ms, Len(ms), u, verdict, ts),
         NEW row2, row2 = Scored([row EXCEPT !.updated = ts], u, verdict)
  PROVE  row2 \in SessionRow /\ new \in Seq(MoveRow) /\ SessionInv(row2, new)
<1> USE GameAssumption
<1>1. Len(ms) \in DOMAIN ms /\ u \in OptionalUser /\ DOMAIN ms = 1 .. Len(ms)
  BY EmptySeq DEF OptionalUser
<1>2. /\ new \in Seq(MoveRow) /\ new # <<>>
      /\ Len(new) = Len(ms) /\ DOMAIN new = DOMAIN ms
      /\ \A i \in DOMAIN ms : i # Len(ms) => new[i] = ms[i]
      /\ new[Len(ms)].answer_user = u /\ new[Len(ms)].is_correct = verdict
      /\ new[Len(ms)].answeredtimestamp = ts
      /\ new[Len(ms)].ask_user = ms[Len(ms)].ask_user
  <2>1. GradedFrom(new, ms, Len(ms), u, verdict, ts)
    BY <1>1, AnsweredRow, Zenon
  <2> QED
    BY <2>1 DEF GradedFrom
<1>3. /\ Ordered(ms) /\ LastOpen(ms) /\ Alternates(row, ms) /\ ScoresMatch(row, ms)
      /\ row.challenger # row.challenged
  BY DEF SessionInv
<1>4. Ordered(new) /\ LastOpen(new)
  <2>1. Ordered(new)
    BY <1>3, GradeKeepsOrder, Zenon
  <2>2. LastOpen(new)
    BY <1>3, GradeKeepsOrder, Zenon
  <2> QED
    BY <2>1, <2>2
<1>5. ms[Len(ms)].is_correct = "null" /\ ms[Len(ms)].answer_user = NoUser
      /\ ms[Len(ms)].ask_user # u
  BY <1>1, <1>3 DEF MayAnswer, LastOpen
<1>6. /\ row.challenger \in OptionalUser /\ row.challenged \in OptionalUser
      /\ row.challenger_score \in Nat /\ row.challenged_score \in Nat
  BY DEF SessionRow
<1>7. /\ row2 \in SessionRow /\ row2.challenger = row.challenger
      /\ row2.challenged = row.challenged /\ row2.updated = ts
      /\ row2.challenged_score =
           row.challenged_score + IF verdict = "no" /\ u = row.challenger THEN 1 ELSE 0
      /\ row2.challenger_score =
           row.challenger_score + IF verdict = "no" /\ u # row.challenger THEN 1 ELSE 0
  <2> DEFINE r == [row EXCEPT !.updated = ts]
  <2>1. /\ r \in SessionRow /\ r.updated = ts
        /\ r.challenger = row.challenger /\ r.challenged = row.challenged
        /\ r.challenged_score = row.challenged_score
        /\ r.challenger_score = row.challenger_score
    BY DEF SessionRow
  <2>2. row2 = Scored(r, u, verdict)
    OBVIOUS
  <2> HIDE DEF r
  <2>3. CASE verdict = "yes"
    BY <1>6, <2>1, <2>2, <2>3 DEF Scored
  <2>4. CASE verdict = "no" /\ u = row.challenger
    <3>1. row2 = [r EXCEPT !.challenged_score = r.challenged_score + 1]
      BY <2>1, <2>2, <2>4 DEF Scored
    <3> QED
      BY <1>6, <2>1, <2>4, <3>1 DEF SessionRow
  <2>5. CASE verdict = "no" /\ u # row.challenger
    <3>1. row2 = [r EXCEPT !.challenger_score = r.challenger_score + 1]
      BY <2>1, <2>2, <2>5 DEF Scored
    <3> QED
      BY <1>6, <2>1, <2>5, <3>1 DEF SessionRow
  <2> QED
    BY <2>3, <2>4, <2>5
<1>8. Exists(row2) /\ ~IsPractice(row2) /\ IsGame(row2) /\ Players(row2) = Players(row)
  BY <1>7 DEF Exists, IsPractice, IsGame, Players
<1>9. Alternates(row2, new)
  <2> SUFFICES ASSUME NEW i \in DOMAIN new
               PROVE  /\ new[i].ask_user \in Players(row)
                      /\ new[i].answer_user \in (Players(row) \cup {NoUser}) \ {new[i].ask_user}
                      /\ i > 1 => new[i].ask_user = new[i-1].answer_user
    BY <1>8 DEF Alternates
  <2>1. /\ ms[i].ask_user \in Players(row)
        /\ ms[i].answer_user \in (Players(row) \cup {NoUser}) \ {ms[i].ask_user}
        /\ i > 1 => ms[i].ask_user = ms[i-1].answer_user
    BY <1>2, <1>3 DEF Alternates
  <2>2. new[i].ask_user = ms[i].ask_user
    BY <1>2
  <2>3. i > 1 => i - 1 \in DOMAIN ms /\ i - 1 # Len(ms)
    BY <1>1, <1>2
  <2>4. new[i].answer_user \in (Players(row) \cup {NoUser}) \ {new[i].ask_user}
    BY <1>2, <1>5, <2>1
  <2> QED
    BY <1>2, <2>1, <2>2, <2>3, <2>4
<1>10. ScoresMatch(row2, new)
  <2>1. \A w : /\ w # u \/ verdict = "yes" =>
                    Cardinality(Mistakes(new, w)) = Cardinality(Mistakes(ms, w))
               /\ w = u /\ verdict = "no" =>
                    Cardinality(Mistakes(new, w)) = Cardinality(Mistakes(ms, w)) + 1
    BY <1>5, GradeCountsMistake
  <2>2. u = row.challenger \/ u = row.challenged
    BY DEF Players
  <2> QED
    BY <1>3, <1>6, <1>7, <2>1, <2>2 DEF ScoresMatch
<1>11. row2.updated = LastEvent(new)
  BY <1>2, <1>7 DEF LastEvent
<1>12. SessionInv(row2, new)
  BY <1>2, <1>3, <1>4, <1>7, <1>8, <1>9, <1>10, <1>11 DEF SessionInv
<1> QED
  BY <1>2, <1>7, <1>12

(***************************************************************************)
(* hc_answer and hc_mf_pressed in a practice session: the open question is *)
(* graded and the program asks the next one.                               *)
(***************************************************************************)
LEMMA GradedPracticeInv ==
  ASSUME NEW row \in SessionRow, NEW ms \in Seq(MoveRow), SessionInv(row, ms),
         Exists(row), IsPractice(row), NEW u \in Users, u \in Players(row),
         NEW verdict \in {"yes", "no"}, NEW ts \in Nat, NEW askTs \in Nat,
         ms[Len(ms)].asktimestamp < askTs, NEW v \in Verbs, NEW k \in Kinds,
         NEW graded, graded = Answered(ms, Len(ms), u, verdict, ts),
         NEW new, new = Append(graded, NewMove(NoUser, v, k, askTs)),
         NEW row2, row2 = [row EXCEPT !.updated = askTs]
  PROVE  row2 \in SessionRow /\ new \in Seq(MoveRow) /\ SessionInv(row2, new)
<1> USE GameAssumption
<1>0. Ordered(ms) /\ LastOpen(ms) /\ Waiting(row, ms) /\ ms # <<>>
  BY DEF SessionInv, Waiting
<1>1. Len(ms) \in DOMAIN ms /\ u \in OptionalUser /\ NoUser \in OptionalUser
      /\ u = row.challenger
  BY <1>0, EmptySeq DEF OptionalUser, Players, IsPractice
<1>2. /\ graded \in Seq(MoveRow) /\ graded # <<>>
      /\ Len(graded) = Len(ms) /\ DOMAIN graded = DOMAIN ms
      /\ \A i \in DOMAIN ms : i # Len(ms) => graded[i] = ms[i]
      /\ graded[Len(ms)].answer_user = u
      /\ graded[Len(ms)].ask_user = ms[Len(ms)].ask_user
      /\ graded[Len(ms)].asktimestamp = ms[Len(ms)].asktimestamp
  <2>1. GradedFrom(graded, ms, Len(ms), u, verdict, ts)
    BY <1>1, AnsweredRow, Zenon
  <2> QED
    BY <2>1 DEF GradedFrom
<1>3. Ordered(graded) /\ LastOpen(graded) /\ graded[Len(ms)].is_correct # "null"
  <2>1. Ordered(graded)
    BY <1>0, GradeKeepsOrder, Zenon
  <2>2. LastOpen(graded)
    BY <1>0, GradeKeepsOrder, Zenon
  <2>3. \A i \in DOMAIN graded : graded[i].is_correct # "null"
    BY <1>0, GradeKeepsOrder, Zenon
  <2> QED
    BY <1>1, <1>2, <2>1, <2>2, <2>3
<1>4. MayFollow(graded, askTs)
  BY <1>2, <1>3 DEF MayFollow
<1>5. Ordered(new) /\ LastOpen(new)
  <2>1. Ordered(new)
    BY <1>1, <1>2, <1>3, <1>4, AppendKeepsOrder, Zenon
  <2>2. LastOpen(new)
    BY <1>1, <1>2, <1>3, <1>4, AppendKeepsOrder, Zenon
  <2> QED
    BY <2>1, <2>2
<1>6. /\ new \in Seq(MoveRow) /\ new # <<>>
      /\ Len(graded) \in Nat /\ DOMAIN graded = 1 .. Len(graded)
      /\ Len(new) = Len(graded) + 1 /\ DOMAIN new = 1 .. (Len(graded) + 1)
      /\ \A i \in DOMAIN graded : new[i] = graded[i]
      /\ new[Len(graded) + 1] = NewMove(NoUser, v, k, askTs)
  BY <1>1, <1>2, Appended
<1>7. /\ row2 \in SessionRow /\ row2.challenger = row.challenger
      /\ row2.challenged = row.challenged /\ row2.updated = askTs
  BY DEF SessionRow
<1>8. Exists(row2) /\ IsPractice(row2) /\ ~IsGame(row2)
  BY <1>7 DEF Exists, IsPractice, IsGame
<1>9. Waiting(row2, new)
  <2>1. ASSUME NEW i \in DOMAIN new
        PROVE  new[i].ask_user = NoUser /\ new[i].answer_user \in {row.challenger, NoUser}
    <3>1. CASE i \in DOMAIN ms
      BY <1>0, <1>1, <1>2, <1>6, <3>1 DEF Waiting
    <3>2. CASE i = Len(graded) + 1
      BY <1>6, <3>2 DEF NewMove
    <3> QED
      BY <1>2, <1>6, <3>1, <3>2
  <2>2. new[Len(new)].is_correct = "null"
    BY <1>6 DEF NewMove
  <2> QED
    BY <1>6, <1>7, <2>1, <2>2 DEF Waiting
<1>10. row2.updated = LastEvent(new)
  BY <1>6, <1>7 DEF LastEvent, NewMove
<1>11. SessionInv(row2, new)
  BY <1>5, <1>6, <1>8, <1>9, <1>10 DEF SessionInv
<1> QED
  BY <1>6, <1>7, <1>11

-----------------------------------------------------------------------------
(* The inductive step, one lemma for each handler.                         *)

(***************************************************************************)
(* Two empty tables satisfy the invariant.                                 *)
(***************************************************************************)
LEMMA InitIInv == Init => IInv
<1> USE GameAssumption
<1> SUFFICES ASSUME Init PROVE IInv
  OBVIOUS
<1>1. NoSession \in SessionRow /\ ~Exists(NoSession)
  BY DEF NoSession, SessionRow, OptionalUser, Exists
<1>2. TypeOK
  BY <1>1 DEF Init, TypeOK
<1>3. SessionInv(NoSession, <<>>)
  BY <1>1 DEF SessionInv, IsGame, Ordered, LastOpen
<1> QED
  BY <1>2, <1>3 DEF Init, IInv

(***************************************************************************)
(* hc_insert_session keeps the invariant: the new row has no moves, or the *)
(* first question of a practice session.                                   *)
(***************************************************************************)
LEMMA InsertSessionStep ==
  ASSUME IInv, NEW u \in Users, NEW s \in Sessions, NEW opponent \in OptionalUser,
         NEW vs \in VerbLists, NEW reps \in RepChoices, NEW ts \in Timestamps,
         InsertSession(u, s, opponent, vs, reps, ts)
  PROVE  IInv'
<1> USE GameAssumption
<1> DEFINE row == [challenger |-> u, challenged |-> opponent, verbs |-> vs, reps |-> reps,
                   challenger_score |-> 0, challenged_score |-> 0,
                   updated |-> IF opponent = NoUser THEN AskTimestamp(ts, 0) ELSE ts]
<1>1. ts \in Nat /\ AskTimestamp(ts, 0) \in Nat /\ vs \in SUBSET Verbs
      /\ reps \in Nat \ {0} /\ u \in OptionalUser /\ u # NoUser
  BY AskTimestampLater DEF OptionalUser
<1>2. row \in SessionRow
  BY <1>1 DEF SessionRow
<1>3. /\ sessions' = [sessions EXCEPT ![s] = row] /\ ~Exists(sessions[s]) /\ opponent # u
  BY DEF InsertSession
<1>4. moves[s] = <<>> /\ moves \in [Sessions -> Seq(MoveRow)]
  BY <1>3 DEF IInv, SessionInv, TypeOK
<1>5. /\ row.challenger = u /\ row.challenged = opponent
      /\ row.challenger_score = 0 /\ row.challenged_score = 0
      /\ row.updated = IF opponent = NoUser THEN AskTimestamp(ts, 0) ELSE ts
  OBVIOUS
<1> HIDE DEF row
<1>6. CASE opponent = NoUser
  <2>1. PICK v \in NextVerbs(vs, <<>>, reps, NoUser), k \in Kinds :
          moves' = [moves EXCEPT ![s] = <<NewMove(NoUser, v, k, AskTimestamp(ts, 0))>>]
    BY <1>6 DEF InsertSession
  <2>2. v \in Verbs
    <3>1. ChangeVerbs(<<>>, reps)
      BY DEF ChangeVerbs
    <3>2. v \in vs
      BY <3>1, <2>1 DEF NextVerbs, AvailableVerbsPractice
    <3> QED
      BY <1>1, <3>2
  <2>3. Exists(row) /\ IsPractice(row) /\ row.updated = AskTimestamp(ts, 0)
    BY <1>1, <1>5, <1>6 DEF Exists, IsPractice
  <2> DEFINE ms == <<NewMove(NoUser, v, k, AskTimestamp(ts, 0))>>
  <2>4. ms \in Seq(MoveRow) /\ SessionInv(row, ms)
    BY <1>1, <1>2, <2>2, <2>3, InsertPracticeInv
  <2>5. moves' = [moves EXCEPT ![s] = ms]
    BY <2>1
  <2> HIDE DEF ms
  <2> QED
    BY <1>2, <1>3, <2>4, <2>5, Frame
<1>7. CASE opponent # NoUser
  <2>1. moves' = [moves EXCEPT ![s] = <<>>] /\ <<>> \in Seq(MoveRow)
    BY <1>4, <1>7 DEF InsertSession
  <2>2. ~IsPractice(row) /\ row.challenger # row.challenged
    BY <1>3, <1>5, <1>7 DEF IsPractice
  <2>3. SessionInv(row, <<>>)
    BY <1>2, <1>5, <2>2, InsertGameInv
  <2> QED
    BY <1>2, <1>3, <2>1, <2>3, Frame
<1> QED
  BY <1>6, <1>7

(***************************************************************************)
(* hc_ask keeps the invariant: the check on the last move and the date     *)
(* given to the question are what the new move needs to follow the others. *)
(***************************************************************************)
LEMMA AskStep ==
  ASSUME IInv, NEW u \in Users, NEW s \in Sessions, NEW v \in Verbs, NEW k \in Kinds,
         NEW ts \in Timestamps, Ask(u, s, v, k, ts)
  PROVE  IInv'
<1> USE GameAssumption
<1> DEFINE ms == moves[s]
           row == sessions[s]
<1>1. /\ row \in SessionRow /\ ms \in Seq(MoveRow) /\ SessionInv(row, ms) /\ ts \in Nat
      /\ moves \in [Sessions -> Seq(MoveRow)] /\ sessions \in [Sessions -> SessionRow]
  BY DEF IInv, TypeOK
<1>2. Exists(row) /\ u \in Players(row)
  BY DEF Ask
<1>3. PICK t \in Nat :
        /\ InsertAsk(u, s, v, k, t)
        /\ ms # <<>> => MayAsk(u, ms[Len(ms)]) /\ ms[Len(ms)].asktimestamp < t
  <2>1. CASE ms = <<>>
    <3>1. LastMoves(ms) = {}
      BY <2>1 DEF LastMoves
    <3> QED
      BY <1>1, <2>1, <3>1 DEF Ask
  <2>2. CASE ms # <<>>
    <3>1. Len(ms) \in Nat \ {0} /\ LastMoves(ms) = {Len(ms)}
      BY <1>1, <2>2, LastIsNewest DEF SessionInv
    <3>2. ms[Len(ms)] \in MoveRow
      BY <1>1, <3>1
    <3>3. ms[Len(ms)].asktimestamp \in Nat
      BY <3>2 DEF MoveRow
    <3>4. /\ MayAsk(u, ms[Len(ms)])
          /\ InsertAsk(u, s, v, k, AskTimestamp(ts, ms[Len(ms)].asktimestamp))
      BY <2>2, <3>1 DEF Ask
    <3> QED
      BY <1>1, <3>3, <3>4, AskTimestampLater
  <2> QED
    BY <2>1, <2>2
<1>4. PICK new, row2 : /\ new = Append(ms, NewMove(u, v, k, t))
                       /\ row2 = [row EXCEPT !.updated = t]
  OBVIOUS
<1>5. moves' = [moves EXCEPT ![s] = new] /\ sessions' = [sessions EXCEPT ![s] = row2]
  BY <1>1, <1>3, <1>4 DEF InsertAsk
<1> HIDE DEF ms, row
<1>6. row2 \in SessionRow /\ new \in Seq(MoveRow) /\ SessionInv(row2, new)
  BY <1>1, <1>2, <1>3, <1>4, AskedInv
<1> QED
  BY <1>5, <1>6, Frame

(***************************************************************************)
(* Answer and MfPressed grade the newest move, which is open, and record   *)
(* the answer in that very row.                                            *)
(***************************************************************************)
LEMMA RecordAnswerStep ==
  ASSUME IInv, NEW u \in Users, NEW s \in Sessions, NEW verdict \in {"yes", "no"},
         NEW ts \in Timestamps, Exists(sessions[s]), u \in Players(sessions[s]),
         NEW i \in LastMoves(moves[s]), NEW j \in LastMoves(moves[s]),
         MayAnswer(u, moves[s][i]), RecordAnswer(u, s, i, j, verdict, ts)
  PROVE  IInv'
<1> USE GameAssumption
<1> DEFINE ms == moves[s]
           row == sessions[s]
<1>1. /\ row \in SessionRow /\ ms \in Seq(MoveRow) /\ SessionInv(row, ms) /\ ts \in Nat
      /\ moves \in [Sessions -> Seq(MoveRow)] /\ sessions \in [Sessions -> SessionRow]
  BY DEF IInv, TypeOK
<1>2. ms # <<>>
  BY DEF LastMoves
<1>3. Len(ms) \in Nat \ {0} /\ LastMoves(ms) = {Len(ms)}
  BY <1>1, <1>2, LastIsNewest DEF SessionInv
<1>4. i = Len(ms) /\ j = Len(ms)
  BY <1>3
<1>5. ms[Len(ms)] \in MoveRow
  BY <1>1, <1>3
<1>6. ms[Len(ms)].asktimestamp \in Nat /\ ms[Len(ms)].verb \in Verbs
  BY <1>5 DEF MoveRow
<1>7. PICK graded : graded = Answered(ms, Len(ms), u, verdict, ts)
  OBVIOUS
<1>8. CASE IsPractice(row)
  <2>1. PICK askTs \in Nat : /\ askTs = AskTimestamp(ts, ms[Len(ms)].asktimestamp)
                             /\ ms[Len(ms)].asktimestamp < askTs
    BY <1>1, <1>6, AskTimestampLater
  <2>2. PICK v \in NextVerbs(row.verbs, LastVerbs(graded), row.reps, ms[Len(ms)].verb),
             k \in Kinds :
          moves' = [moves EXCEPT ![s] = Append(graded, NewMove(NoUser, v, k, askTs))]
    BY <1>4, <1>7, <1>8, <2>1 DEF RecordAnswer
  <2>3. v \in Verbs
    <3>1. v \in row.verbs \cup {ms[Len(ms)].verb}
      BY <2>2, NextVerbsType
    <3>2. row.verbs \subseteq Verbs
      BY <1>1 DEF SessionRow
    <3> QED
      BY <1>6, <3>1, <3>2
  <2>4. PICK new, row2 : /\ new = Append(graded, NewMove(NoUser, v, k, askTs))
                         /\ row2 = [row EXCEPT !.updated = askTs]
    OBVIOUS
  <2>5. moves' = [moves EXCEPT ![s] = new] /\ sessions' = [sessions EXCEPT ![s] = row2]
    BY <1>1, <1>4, <1>8, <2>1, <2>2, <2>4 DEF RecordAnswer
  <2> HIDE DEF ms, row
  <2>6. Exists(row) /\ u \in Players(row)
    BY DEF row
  <2>7. row2 \in SessionRow /\ new \in Seq(MoveRow) /\ SessionInv(row2, new)
    <3>1. row2 \in SessionRow
      BY <1>1, <2>4 DEF SessionRow
    <3>2. new \in Seq(MoveRow)
      BY <1>1, <1>7, <1>8, <2>1, <2>3, <2>4, <2>6, GradedPracticeInv, Zenon
    <3>3. SessionInv(row2, new)
      BY <1>1, <1>7, <1>8, <2>1, <2>3, <2>4, <2>6, GradedPracticeInv, Zenon
    <3> QED
      BY <3>1, <3>2, <3>3
  <2> QED
    BY <2>5, <2>7, Frame
<1>9. CASE ~IsPractice(row)
  <2>1. PICK row2 : row2 = Scored([row EXCEPT !.updated = ts], u, verdict)
    OBVIOUS
  <2>2. moves' = [moves EXCEPT ![s] = graded] /\ sessions' = [sessions EXCEPT ![s] = row2]
    BY <1>4, <1>7, <1>9, <2>1 DEF RecordAnswer
  <2>3. IsGame(row) /\ u \in Players(row) /\ MayAnswer(u, ms[Len(ms)])
    BY <1>4, <1>9 DEF IsGame
  <2> HIDE DEF ms, row
  <2>4. row2 \in SessionRow /\ graded \in Seq(MoveRow) /\ SessionInv(row2, graded)
    BY <1>1, <1>2, <1>7, <2>1, <2>3, GradedGameInv
  <2> QED
    BY <2>2, <2>4, Frame
<1> QED
  BY <1>8, <1>9

(***************************************************************************)
(* Every request keeps the invariant.                                      *)
(***************************************************************************)
LEMMA NextIInv == IInv /\ [Next]_vars => IInv'
<1> SUFFICES ASSUME IInv, [Next]_vars PROVE IInv'
  OBVIOUS
<1>1. CASE UNCHANGED vars
  BY <1>1 DEF vars, IInv, TypeOK
<1>2. ASSUME NEW u \in Users, NEW s \in Sessions, NEW ts \in Timestamps,
             NEW opponent \in OptionalUser, NEW vs \in VerbLists, NEW reps \in RepChoices,
             InsertSession(u, s, opponent, vs, reps, ts)
      PROVE  IInv'
  BY <1>2, InsertSessionStep
<1>3. ASSUME NEW u \in Users, NEW s \in Sessions, NEW ts \in Timestamps,
             NEW v \in Verbs, NEW k \in Kinds, Ask(u, s, v, k, ts)
      PROVE  IInv'
  BY <1>3, AskStep
<1>4. ASSUME NEW u \in Users, NEW s \in Sessions, NEW ts \in Timestamps,
             NEW verdict \in {"yes", "no"}, Answer(u, s, verdict, ts)
      PROVE  IInv'
  <2>1. PICK i \in LastMoves(moves[s]), j \in LastMoves(moves[s]) :
          MayAnswer(u, moves[s][i]) /\ RecordAnswer(u, s, i, j, verdict, ts)
    BY <1>4 DEF Answer
  <2> QED
    BY <1>4, <2>1, RecordAnswerStep DEF Answer
<1>5. ASSUME NEW u \in Users, NEW s \in Sessions, NEW ts \in Timestamps,
             MfPressed(u, s, ts)
      PROVE  IInv'
  <2>1. PICK i \in LastMoves(moves[s]), j \in LastMoves(moves[s]) :
          MayAnswer(u, moves[s][i]) /\ RecordAnswer(u, s, i, j, "no", ts)
    BY <1>5 DEF MfPressed
  <2> QED
    BY <1>5, <2>1, RecordAnswerStep DEF MfPressed
<1> QED
  BY <1>1, <1>2, <1>3, <1>4, <1>5 DEF Next

-----------------------------------------------------------------------------
(* Theorems.                                                               *)

(***************************************************************************)
(* The inductive invariant holds in every state the handlers reach.        *)
(***************************************************************************)
THEOREM GameInvariant == Spec => []IInv
BY InitIInv, NextIInv, PTL DEF Spec

(***************************************************************************)
(* The tables keep their types, whatever requests arrive.                  *)
(***************************************************************************)
THEOREM TypeCorrect == Spec => []TypeOK
<1>1. IInv => TypeOK
  BY DEF IInv
<1> QED
  BY <1>1, GameInvariant, PTL

(***************************************************************************)
(* The greatest asktimestamp always identifies the move inserted last.     *)
(***************************************************************************)
THEOREM AsksStayOrdered == Spec => []OrderedAsks
<1>1. IInv => OrderedAsks
  BY DEF IInv, SessionInv, OrderedAsks
<1> QED
  BY <1>1, GameInvariant, PTL

(***************************************************************************)
(* All moves but the newest are graded.                                    *)
(***************************************************************************)
THEOREM OneOpenQuestion == Spec => []OnlyLastOpen
<1>1. IInv => OnlyLastOpen
  BY DEF IInv, SessionInv, OnlyLastOpen
<1> QED
  BY <1>1, GameInvariant, PTL

(***************************************************************************)
(* The players of a game alternate.                                        *)
(***************************************************************************)
THEOREM PlayersAlternate == Spec => []Alternation
<1>1. IInv => Alternation
  BY DEF IInv, SessionInv, Alternation
<1> QED
  BY <1>1, GameInvariant, PTL

(***************************************************************************)
(* A practice session always has its next question waiting.                *)
(***************************************************************************)
THEOREM PracticeCanGoOn == Spec => []PracticeHasQuestion
<1>1. IInv => PracticeHasQuestion
  BY DEF IInv, SessionInv, PracticeHasQuestion
<1> QED
  BY <1>1, GameInvariant, PTL

(***************************************************************************)
(* Each player's score is the number of the other's mistakes.              *)
(***************************************************************************)
THEOREM ScoresCorrect == Spec => []ScoresAreMistakes
<1>1. IInv => ScoresAreMistakes
  BY DEF IInv, SessionInv, ScoresAreMistakes
<1> QED
  BY <1>1, GameInvariant, PTL

(***************************************************************************)
(* sessions.updated is the time of the last event of the moves table.      *)
(***************************************************************************)
THEOREM UpdatedCorrect == Spec => []UpdatedIsLastEvent
<1>1. IInv => UpdatedIsLastEvent
  BY DEF IInv, SessionInv, UpdatedIsLastEvent
<1> QED
  BY <1>1, GameInvariant, PTL

(***************************************************************************)
(* What the players are told is what the handlers accept: from a move that *)
(* one player asked and only the other can have answered, exactly one is   *)
(* told to move, and that one's request passes the handler's check.        *)
(***************************************************************************)
LEMMA TurnsMatchSessions ==
  ASSUME NEW row \in SessionRow, NEW ms \in Seq(MoveRow), SessionInv(row, ms),
         IsGame(row), ms # <<>>
  PROVE  TurnsMatch(row, ms)
<1> DEFINE m == ms[Len(ms)]
<1>1. Len(ms) \in Nat \ {0} /\ LastMove(ms) = m /\ Len(ms) \in DOMAIN ms
  BY LastIsNewest DEF SessionInv
<1>2. ~IsPractice(row) /\ row.challenger # row.challenged
      /\ row.challenger # NoUser /\ row.challenged # NoUser
  BY DEF IsGame, SessionInv, IsPractice, Exists
<1>3. /\ m.ask_user \in Players(row)
      /\ m.answer_user \in (Players(row) \cup {NoUser}) \ {m.ask_user}
      /\ m.is_correct = "null" <=> m.answer_user = NoUser
  BY <1>1 DEF SessionInv, Alternates, LastOpen
<1> HIDE DEF m
<1>4. ASSUME NEW u \in Players(row)
      PROVE  /\ MoveType(u, row, ms) \in {"AskMyTurn", "FirstMoveMyTurn"}
                  <=> MayAsk(u, LastMove(ms))
             /\ MoveType(u, row, ms) = "AnswerMyTurn" <=> MayAnswer(u, LastMove(ms))
             /\ MyTurn(u, row, ms)
                  <=> \/ m.answer_user = u
                      \/ m.answer_user = NoUser /\ m.ask_user # u
  <2>1. CASE m.ask_user = u
    BY <1>1, <1>2, <1>3, <2>1 DEF MoveType, MyTurn, MayAsk, MayAnswer, Players
  <2>2. CASE m.ask_user # u /\ m.answer_user = NoUser
    BY <1>1, <1>2, <1>3, <2>2 DEF MoveType, MyTurn, MayAsk, MayAnswer, Players
  <2>3. CASE m.ask_user # u /\ m.answer_user # NoUser
    <3>1. m.answer_user = u
      BY <1>3, <2>3 DEF Players
    <3> QED
      BY <1>1, <1>2, <1>3, <2>3, <3>1 DEF MoveType, MyTurn, MayAsk, MayAnswer
  <2> QED
    BY <2>1, <2>2, <2>3
<1>5. MyTurn(row.challenger, row, ms) <=> ~MyTurn(row.challenged, row, ms)
  BY <1>2, <1>3, <1>4 DEF Players
<1> QED
  BY <1>4, <1>5 DEF TurnsMatch

(***************************************************************************)
(* hc_move_get_type never contradicts the checks of hc_ask and hc_answer   *)
(* in a game that has a move.                                              *)
(***************************************************************************)
THEOREM TurnsAlwaysAgree == Spec => []TurnsAgree
<1>1. IInv => TurnsAgree
  <2> SUFFICES ASSUME IInv, NEW s \in Sessions, IsGame(sessions[s]), moves[s] # <<>>
               PROVE  TurnsMatch(sessions[s], moves[s])
    BY DEF TurnsAgree
  <2>1. sessions[s] \in SessionRow /\ moves[s] \in Seq(MoveRow)
        /\ SessionInv(sessions[s], moves[s])
    BY DEF IInv, TypeOK
  <2> QED
    BY <2>1, TurnsMatchSessions
<1> QED
  BY <1>1, GameInvariant, PTL

-----------------------------------------------------------------------------
(* No step rewrites history.                                               *)

(***************************************************************************)
(* Inserting a question leaves the moves before it alone.                  *)
(***************************************************************************)
LEMMA AppendContinues ==
  ASSUME NEW ms \in Seq(MoveRow), NEW m
  PROVE  Continues(Append(ms, m), ms)
BY DEF Continues

(***************************************************************************)
(* Grading the open question changes its answer and nothing else.          *)
(***************************************************************************)
LEMMA GradeContinues ==
  ASSUME NEW ms \in Seq(MoveRow), ms # <<>>, ms[Len(ms)].is_correct = "null",
         NEW u \in Users, NEW verdict \in {"yes", "no"}, NEW ts \in Nat,
         NEW new, new = Answered(ms, Len(ms), u, verdict, ts)
  PROVE  new \in Seq(MoveRow) /\ Continues(new, ms)
<1>1. Len(ms) \in DOMAIN ms /\ u \in OptionalUser /\ Len(ms) \in Nat
  BY EmptySeq DEF OptionalUser
<1>2. GradedFrom(new, ms, Len(ms), u, verdict, ts)
  BY <1>1, AnsweredRow, Zenon
<1>3. /\ new \in Seq(MoveRow) /\ Len(new) = Len(ms)
      /\ \A i \in DOMAIN ms : i # Len(ms) => new[i] = ms[i]
      /\ new[Len(ms)].ask_user = ms[Len(ms)].ask_user
      /\ new[Len(ms)].verb = ms[Len(ms)].verb
      /\ new[Len(ms)].asktimestamp = ms[Len(ms)].asktimestamp
  BY <1>2 DEF GradedFrom
<1> QED
  BY <1>1, <1>3 DEF Continues

(***************************************************************************)
(* A handler that replaces the moves of one session by a continuation      *)
(* continues the moves of every session.                                   *)
(***************************************************************************)
LEMMA HistoryFrame ==
  ASSUME IInv, NEW s \in Sessions, NEW ms, Continues(ms, moves[s]),
         moves' = [moves EXCEPT ![s] = ms]
  PROVE  \A r \in Sessions : Continues(moves'[r], moves[r])
<1>1. \A r \in Sessions : moves[r] \in Seq(MoveRow)
      /\ (r # s => moves'[r] = moves[r]) /\ moves'[s] = ms
  BY DEF IInv, TypeOK
<1>2. \A r \in Sessions : Continues(moves[r], moves[r])
  BY <1>1, LenProperties DEF Continues
<1> QED
  BY <1>1, <1>2

(***************************************************************************)
(* A new session has no history to rewrite.                                *)
(***************************************************************************)
LEMMA InsertSessionHistory ==
  ASSUME IInv, NEW u, NEW s \in Sessions, NEW opponent, NEW vs, NEW reps, NEW ts,
         InsertSession(u, s, opponent, vs, reps, ts)
  PROVE  \A r \in Sessions : Continues(moves'[r], moves[r])
<1>1. moves[s] = <<>> /\ moves \in [Sessions -> Seq(MoveRow)]
  BY DEF InsertSession, IInv, SessionInv, TypeOK
<1>2. PICK ms : moves' = [moves EXCEPT ![s] = ms] /\ Len(ms) >= 0
  <2>1. CASE opponent = NoUser
    BY <2>1 DEF InsertSession
  <2>2. CASE opponent # NoUser
    <3>1. moves' = [moves EXCEPT ![s] = <<>>] /\ Len(<<>>) >= 0
      BY <1>1, <2>2 DEF InsertSession
    <3> QED
      BY <3>1
  <2> QED
    BY <2>1, <2>2
<1>3. Continues(ms, moves[s])
  BY <1>1, <1>2 DEF Continues
<1> QED
  BY <1>2, <1>3, HistoryFrame

(***************************************************************************)
(* hc_ask only adds a move.                                                *)
(***************************************************************************)
LEMMA AskHistory ==
  ASSUME IInv, NEW u, NEW s \in Sessions, NEW v, NEW k, NEW ts, Ask(u, s, v, k, ts)
  PROVE  \A r \in Sessions : Continues(moves'[r], moves[r])
<1>1. moves \in [Sessions -> Seq(MoveRow)] /\ moves[s] \in Seq(MoveRow)
  BY DEF IInv, TypeOK
<1>2. PICK m : moves' = [moves EXCEPT ![s] = Append(moves[s], m)]
  BY DEF Ask, InsertAsk
<1>3. Continues(Append(moves[s], m), moves[s])
  BY <1>1, AppendContinues
<1> QED
  BY <1>2, <1>3, HistoryFrame

(***************************************************************************)
(* hc_answer and hc_mf_pressed grade the open question and, in practice,   *)
(* add the next one.                                                       *)
(***************************************************************************)
LEMMA RecordAnswerHistory ==
  ASSUME IInv, NEW u \in Users, NEW s \in Sessions, NEW verdict \in {"yes", "no"},
         NEW ts \in Timestamps, NEW i \in LastMoves(moves[s]), NEW j \in LastMoves(moves[s]),
         MayAnswer(u, moves[s][i]), RecordAnswer(u, s, i, j, verdict, ts)
  PROVE  \A r \in Sessions : Continues(moves'[r], moves[r])
<1> USE GameAssumption
<1> DEFINE ms == moves[s]
<1>1. /\ ms \in Seq(MoveRow) /\ SessionInv(sessions[s], ms) /\ ts \in Nat /\ ms # <<>>
      /\ moves \in [Sessions -> Seq(MoveRow)]
  BY DEF IInv, TypeOK, LastMoves
<1>2. i = Len(ms) /\ j = Len(ms)
  BY <1>1, LastIsNewest DEF SessionInv
<1>3. PICK graded : graded = Answered(ms, Len(ms), u, verdict, ts)
  OBVIOUS
<1>4. graded \in Seq(MoveRow) /\ Continues(graded, ms)
  <2>1. ms[Len(ms)].is_correct = "null"
    BY <1>2 DEF MayAnswer
  <2> HIDE DEF ms
  <2> QED
    BY <1>1, <1>3, <2>1, GradeContinues
<1>5. PICK new : moves' = [moves EXCEPT ![s] = new] /\ Continues(new, ms)
  <2>1. CASE IsPractice(sessions[s])
    <3>1. PICK m : moves' = [moves EXCEPT ![s] = Append(graded, m)]
      BY <1>2, <1>3, <2>1 DEF RecordAnswer
    <3> HIDE DEF ms
    <3>2. Append(graded, m) \in Seq(MoveRow \cup {m}) /\ Continues(Append(graded, m), graded)
      BY <1>4, AppendContinues
    <3>3. Continues(Append(graded, m), ms)
      BY <1>1, <1>4, <3>2, LenProperties DEF Continues
    <3> QED
      BY <3>1, <3>3
  <2>2. CASE ~IsPractice(sessions[s])
    BY <1>2, <1>3, <1>4, <2>2 DEF RecordAnswer
  <2> QED
    BY <2>1, <2>2
<1> QED
  BY <1>5, HistoryFrame

(***************************************************************************)
(* A graded move is never touched again, and no question is dropped or     *)
(* altered, by any request of any user.                                    *)
(***************************************************************************)
THEOREM HistoryNeverRewritten == Spec => HistoryKept
<1>1. IInv /\ [Next]_vars => [\A s \in Sessions : Continues(moves'[s], moves[s])]_vars
  <2> SUFFICES ASSUME IInv, Next
               PROVE  \A s \in Sessions : Continues(moves'[s], moves[s])
    OBVIOUS
  <2>1. ASSUME NEW u \in Users, NEW s \in Sessions, NEW ts \in Timestamps,
               NEW opponent \in OptionalUser, NEW vs \in VerbLists, NEW reps \in RepChoices,
               InsertSession(u, s, opponent, vs, reps, ts)
        PROVE  \A r \in Sessions : Continues(moves'[r], moves[r])
    BY <2>1, InsertSessionHistory
  <2>2. ASSUME NEW u \in Users, NEW s \in Sessions, NEW ts \in Timestamps,
               NEW v \in Verbs, NEW k \in Kinds, Ask(u, s, v, k, ts)
        PROVE  \A r \in Sessions : Continues(moves'[r], moves[r])
    BY <2>2, AskHistory
  <2>3. ASSUME NEW u \in Users, NEW s \in Sessions, NEW ts \in Timestamps,
               NEW verdict \in {"yes", "no"}, Answer(u, s, verdict, ts)
        PROVE  \A r \in Sessions : Continues(moves'[r], moves[r])
    BY <2>3, RecordAnswerHistory DEF Answer
  <2>4. ASSUME NEW u \in Users, NEW s \in Sessions, NEW ts \in Timestamps,
               MfPressed(u, s, ts)
        PROVE  \A r \in Sessions : Continues(moves'[r], moves[r])
    BY <2>4, RecordAnswerHistory DEF MfPressed
  <2> QED
    BY <2>1, <2>2, <2>3, <2>4 DEF Next
<1> QED
  BY <1>1, GameInvariant, PTL DEF Spec, HistoryKept

-----------------------------------------------------------------------------
(* HcGame implements the rules of module Match: each handler's step is the *)
(* step of the match it stands for, and a practice session's is none.      *)

Matched == [s \in Sessions |-> Standing(sessions[s], moves[s])]

(***************************************************************************)
(* A handler that replaces one session's row and moves replaces how that   *)
(* session's match stands, and no other's.                                 *)
(***************************************************************************)
LEMMA MatchedReplaced ==
  ASSUME TypeOK, NEW s \in Sessions, NEW row, NEW ms,
         sessions' = [sessions EXCEPT ![s] = row],
         moves' = [moves EXCEPT ![s] = ms]
  PROVE  Matched' = [Matched EXCEPT ![s] = Standing(row, ms)]
<1>1. ASSUME NEW r \in Sessions
      PROVE  Matched'[r] = IF r = s THEN Standing(row, ms) ELSE Matched[r]
  <2>1. sessions'[r] = IF r = s THEN row ELSE sessions[r]
    BY DEF TypeOK
  <2>2. moves'[r] = IF r = s THEN ms ELSE moves[r]
    BY DEF TypeOK
  <2>3. Matched'[r] = Standing(sessions'[r], moves'[r]) /\ Matched[r] = Standing(sessions[r], moves[r])
    BY DEF Matched
  <2> QED
    BY <2>1, <2>2, <2>3
<1>2. Matched' = [r \in Sessions |-> Matched'[r]] /\ Matched = [r \in Sessions |-> Matched[r]]
  BY DEF Matched
<1> HIDE DEF Matched
<1> QED
  BY <1>1, <1>2

(***************************************************************************)
(* How a match stands, field by field.                                     *)
(***************************************************************************)
Stands(phase, pair, by, points) ==
  [phase |-> phase, pair |-> pair, by |-> by, points |-> points]

LEMMA StandingOfGame ==
  ASSUME NEW row, NEW ms, IsGame(row)
  PROVE  LET last == ms[Len(ms)]
         IN  /\ ms = <<>> =>
                  Standing(row, ms) = Stands("opening", Players(row), NoUser, PointsOf(row))
             /\ ms # <<>> /\ last.is_correct = "null" =>
                  Standing(row, ms) = Stands("asked", Players(row), last.ask_user, PointsOf(row))
             /\ ms # <<>> /\ last.is_correct # "null" =>
                  Standing(row, ms) = Stands("replied", Players(row), last.answer_user, PointsOf(row))
<1>1. Players(row) \ {NoUser} = Players(row) /\ Exists(row) /\ ~IsPractice(row)
  BY DEF IsGame, Exists, IsPractice, Players
<1> HIDE DEF Players, Exists, IsPractice, PointsOf
<1> QED
  BY <1>1 DEF Standing, Stands

(***************************************************************************)
(* The steps of Match, of the matches the sessions stand for.              *)
(***************************************************************************)
Unscored == [u \in Users |-> 0]

LEMMA Met ==
  ASSUME NEW s \in Sessions, NEW p \in Users, NEW q \in Users, p # q,
         Matched[s].phase = "none",
         Matched' = [Matched EXCEPT ![s] = Stands("opening", {p, q}, NoUser, Unscored)]
  PROVE  Rules!Next
BY DEF Rules!Next, Rules!Meet, Rules!NoPoints, Matched, Stands, Unscored

LEMMA Practised ==
  ASSUME NEW s \in Sessions, NEW p \in Users,
         Matched[s].phase = "none",
         Matched' = [Matched EXCEPT ![s] = Stands("practice", {p}, NoUser, Unscored)]
  PROVE  Rules!Next
BY DEF Rules!Next, Rules!Practise, Rules!NoPoints, Matched, Stands, Unscored

LEMMA Questioned ==
  ASSUME NEW s \in Sessions, NEW phase, NEW pair, NEW by, NEW points,
         Matched[s] = Stands(phase, pair, by, points),
         NEW p \in Users, p \in pair,
         phase = "opening" \/ (phase = "replied" /\ by = p),
         Matched' = [Matched EXCEPT ![s] = Stands("asked", pair, p, points)]
  PROVE  Rules!Next
<1>1. Stands("asked", pair, p, points)
      = [phase |-> "asked", pair |-> Matched[s].pair, by |-> p, points |-> Matched[s].points]
  BY DEF Stands
<1>2. p \in Matched[s].pair /\ Matched[s].phase = phase /\ Matched[s].by = by
  BY DEF Stands
<1>3. Rules!Question(s, p)
  BY <1>1, <1>2 DEF Rules!Question, Matched
<1> QED
  BY <1>3 DEF Rules!Next

LEMMA Replied ==
  ASSUME NEW s \in Sessions, NEW pair, NEW by, NEW points,
         Matched[s] = Stands("asked", pair, by, points),
         NEW p \in Users, p \in pair, p # by,
         NEW points2, points2 = points \/ points2 = [points EXCEPT ![by] = @ + 1],
         Matched' = [Matched EXCEPT ![s] = Stands("replied", pair, p, points2)]
  PROVE  Rules!Next
<1>1. Stands("replied", pair, p, points2)
      = [phase |-> "replied", pair |-> Matched[s].pair, by |-> p, points |-> points2]
  BY DEF Stands
<1>2. /\ p \in Matched[s].pair \ {Matched[s].by} /\ Matched[s].phase = "asked"
      /\ Matched[s].by = by /\ Matched[s].points = points
  BY DEF Stands
<1>3. points2 \in {Matched[s].points, [Matched[s].points EXCEPT ![Matched[s].by] = @ + 1]}
  BY <1>2
<1>4. Rules!Reply(s, p)
  BY <1>1, <1>2, <1>3 DEF Rules!Reply, Matched
<1> QED
  BY <1>4 DEF Rules!Next

-----------------------------------------------------------------------------
(* The handlers' steps.                                                    *)

(***************************************************************************)
(* A new session is a meeting of two players, or one player's practice.    *)
(***************************************************************************)
LEMMA InsertSessionMeets ==
  ASSUME IInv, NEW u \in Users, NEW s \in Sessions, NEW opponent \in OptionalUser,
         NEW vs \in VerbLists, NEW reps \in RepChoices, NEW ts \in Timestamps,
         InsertSession(u, s, opponent, vs, reps, ts)
  PROVE  Rules!Next
<1> USE GameAssumption
<1> DEFINE row == [challenger |-> u, challenged |-> opponent, verbs |-> vs, reps |-> reps,
                   challenger_score |-> 0, challenged_score |-> 0,
                   updated |-> IF opponent = NoUser THEN AskTimestamp(ts, 0) ELSE ts]
<1>1. /\ sessions' = [sessions EXCEPT ![s] = row]
      /\ row.challenger = u /\ row.challenged = opponent
      /\ row.challenger_score = 0 /\ row.challenged_score = 0
  BY DEF InsertSession
<1> HIDE DEF row
<1>2. ~Exists(sessions[s]) /\ opponent # u /\ u # NoUser /\ TypeOK
  BY DEF InsertSession, IInv
<1>3. Matched[s].phase = "none"
  BY <1>2 DEF Matched, Standing
<1>4. PICK ms : /\ moves' = [moves EXCEPT ![s] = ms]
                /\ opponent # NoUser => ms = <<>>
  <2>1. CASE opponent = NoUser
    BY <2>1 DEF InsertSession
  <2>2. CASE opponent # NoUser
    <3>1. moves[s] = <<>> /\ moves \in [Sessions -> Seq(MoveRow)]
      BY <1>2 DEF IInv, SessionInv, TypeOK
    <3>2. moves' = [moves EXCEPT ![s] = <<>>]
      BY <2>2, <3>1 DEF InsertSession
    <3> QED
      BY <3>2
  <2> QED
    BY <2>1, <2>2
<1>5. Matched' = [Matched EXCEPT ![s] = Standing(row, ms)]
  BY <1>1, <1>2, <1>4, MatchedReplaced
<1>6. Exists(row) /\ PointsOf(row) = Unscored
  BY <1>1, <1>2 DEF Exists, PointsOf, Unscored
<1>7. CASE opponent = NoUser
  <2>1. IsPractice(row) /\ Players(row) \ {NoUser} = {u}
    BY <1>1, <1>2, <1>7 DEF IsPractice, Players
  <2>2. Standing(row, ms) = Stands("practice", {u}, NoUser, Unscored)
    BY <1>6, <2>1 DEF Standing, IsGame, Stands
  <2> QED
    BY <1>3, <1>5, <2>2, Practised
<1>8. CASE opponent # NoUser
  <2>1. opponent \in Users /\ IsGame(row) /\ Players(row) = {u, opponent}
    BY <1>1, <1>2, <1>6, <1>8 DEF IsGame, IsPractice, Players, OptionalUser
  <2>2. Standing(row, ms) = Stands("opening", {u, opponent}, NoUser, Unscored)
    BY <1>4, <1>6, <1>8, <2>1, StandingOfGame
  <2> QED
    BY <1>2, <1>3, <1>5, <2>1, <2>2, Met
<1> QED
  BY <1>7, <1>8

(***************************************************************************)
(* hc_ask is a question of the player who may ask: the opening one, or the *)
(* next of the player who replied.  (In a practice session there is nobody *)
(* to ask.)                                                                *)
(***************************************************************************)
LEMMA AskQuestions ==
  ASSUME IInv, NEW u \in Users, NEW s \in Sessions, NEW v \in Verbs, NEW k \in Kinds,
         NEW ts \in Timestamps, Ask(u, s, v, k, ts)
  PROVE  Rules!Next \/ UNCHANGED Matched
<1> USE GameAssumption
<1> DEFINE ms == moves[s]
           row == sessions[s]
<1>1. /\ row \in SessionRow /\ ms \in Seq(MoveRow) /\ Ordered(ms) /\ TypeOK
      /\ Exists(row) /\ u \in Players(row)
  BY DEF Ask, IInv, SessionInv, TypeOK
<1>2. PICK t :
        /\ InsertAsk(u, s, v, k, t)
        /\ ms # <<>> => MayAsk(u, ms[Len(ms)])
  <2>1. CASE ms = <<>>
    BY <2>1 DEF Ask, LastMoves
  <2>2. CASE ms # <<>>
    <3>1. LastMoves(ms) = {Len(ms)}
      BY <1>1, <2>2, LastIsNewest
    <3> QED
      BY <2>2, <3>1 DEF Ask
  <2> QED
    BY <2>1, <2>2
<1>3. PICK new, row2 : new = Append(ms, NewMove(u, v, k, t)) /\ row2 = [row EXCEPT !.updated = t]
  OBVIOUS
<1>4. moves' = [moves EXCEPT ![s] = new] /\ sessions' = [sessions EXCEPT ![s] = row2]
  BY <1>1, <1>2, <1>3 DEF InsertAsk, TypeOK
<1>5. Matched' = [Matched EXCEPT ![s] = Standing(row2, new)] /\ Matched[s] = Standing(row, ms)
  BY <1>1, <1>4, MatchedReplaced DEF Matched
<1>6. /\ new # <<>> /\ new[Len(new)].is_correct = "null" /\ new[Len(new)].ask_user = u
  <2>1. Len(ms) \in Nat /\ Len(new) = Len(ms) + 1 /\ new[Len(ms) + 1] = NewMove(u, v, k, t)
    BY <1>1, <1>3
  <2>2. new # <<>>
    BY <1>1, <1>3
  <2> QED
    BY <2>1, <2>2 DEF NewMove
<1>7. /\ row2.challenger = row.challenger /\ row2.challenged = row.challenged
      /\ row2.challenger_score = row.challenger_score
      /\ row2.challenged_score = row.challenged_score
  BY <1>1, <1>3 DEF SessionRow
<1> HIDE DEF ms, row
<1>8. PointsOf(row2) = PointsOf(row)
  BY <1>7 DEF PointsOf
<1>9. CASE IsPractice(row)
  <2>1. Standing(row2, new) = Standing(row, ms)
    BY <1>1, <1>7, <1>8, <1>9 DEF Standing, IsPractice, IsGame, Exists, Players
  <2> QED
    BY <1>5, <2>1 DEF Matched
<1>10. CASE ~IsPractice(row)
  <2>1. IsGame(row) /\ IsGame(row2) /\ Players(row2) = Players(row)
    BY <1>1, <1>7, <1>10 DEF IsGame, Exists, IsPractice, Players
  <2>2. Standing(row2, new) = Stands("asked", Players(row), u, PointsOf(row))
    BY <1>6, <1>8, <2>1, StandingOfGame
  <2>3. CASE ms = <<>>
    <3>1. Matched[s] = Stands("opening", Players(row), NoUser, PointsOf(row))
      BY <1>5, <2>1, <2>3, StandingOfGame
    <3> QED
      BY <1>1, <1>5, <2>2, <3>1, Questioned
  <2>4. CASE ms # <<>>
    <3>1. Matched[s] = Stands("replied", Players(row), u, PointsOf(row))
      BY <1>2, <1>5, <2>1, <2>4, StandingOfGame DEF MayAsk
    <3> QED
      BY <1>1, <1>5, <2>2, <3>1, Questioned
  <2> QED
    BY <2>3, <2>4
<1> QED
  BY <1>9, <1>10

(***************************************************************************)
(* A wrong answer adds a point to the one player who did not give it.      *)
(***************************************************************************)
PointTo(row, p) == [PointsOf(row) EXCEPT ![p] = @ + 1]

LEMMA PointScored ==
  ASSUME NEW row \in SessionRow, IsGame(row), row.challenger # row.challenged,
         NEW u \in Users, u \in Players(row), NEW p, p \in Players(row), p # u,
         NEW verdict, verdict = "no", NEW ts,
         NEW row2, row2 = Scored([row EXCEPT !.updated = ts], u, verdict)
  PROVE  PointsOf(row2) = PointTo(row, p)
<1>1. p \in Users
  BY DEF IsGame, Exists, IsPractice, Players, SessionRow, OptionalUser
<1>2. CASE row.challenger = u
  <2>1. /\ p = row.challenged /\ row2.challenger = row.challenger
        /\ row2.challenged = row.challenged
        /\ row2.challenger_score = row.challenger_score
        /\ row2.challenged_score = row.challenged_score + 1
    BY <1>2 DEF Scored, SessionRow, Players
  <2> QED
    BY <1>1, <2>1 DEF PointsOf, PointTo
<1>3. CASE row.challenger # u
  <2>1. /\ p = row.challenger /\ row2.challenger = row.challenger
        /\ row2.challenged = row.challenged
        /\ row2.challenger_score = row.challenger_score + 1
        /\ row2.challenged_score = row.challenged_score
    BY <1>3 DEF Scored, SessionRow, Players
  <2> QED
    BY <1>1, <2>1 DEF PointsOf, PointTo
<1> QED
  BY <1>2, <1>3

(***************************************************************************)
(* An answer, or a claim of several forms, is a reply of the player who    *)
(* did not ask, right or wrong.  In a practice session the match stands    *)
(* where it stood.                                                         *)
(***************************************************************************)
LEMMA RecordAnswerReplies ==
  ASSUME IInv, NEW u \in Users, NEW s \in Sessions, NEW verdict \in {"yes", "no"},
         NEW ts \in Timestamps, Exists(sessions[s]), u \in Players(sessions[s]),
         NEW i \in LastMoves(moves[s]), NEW j \in LastMoves(moves[s]),
         MayAnswer(u, moves[s][i]), RecordAnswer(u, s, i, j, verdict, ts)
  PROVE  Rules!Next \/ UNCHANGED Matched
<1> USE GameAssumption
<1> DEFINE ms == moves[s]
           row == sessions[s]
<1>1. /\ row \in SessionRow /\ ms \in Seq(MoveRow) /\ SessionInv(row, ms) /\ TypeOK
      /\ ms # <<>> /\ Len(ms) \in DOMAIN ms
  BY EmptySeq DEF IInv, TypeOK, LastMoves
<1>2. i = Len(ms) /\ j = Len(ms)
  BY <1>1, LastIsNewest DEF SessionInv
<1>3. Matched[s] = Standing(row, ms)
  BY DEF Matched
<1>4. CASE IsPractice(row)
  <2>1. PICK new, t : /\ moves' = [moves EXCEPT ![s] = new]
                      /\ sessions' = [sessions EXCEPT ![s].updated = t]
    BY <1>4 DEF RecordAnswer
  <2>2. PICK row2 : row2 = [row EXCEPT !.updated = t]
    OBVIOUS
  <2>3. Matched' = [Matched EXCEPT ![s] = Standing(row2, new)]
    BY <1>1, <2>1, <2>2, MatchedReplaced DEF TypeOK
  <2>4. /\ row2.challenger = row.challenger /\ row2.challenged = row.challenged
        /\ row2.challenger_score = row.challenger_score
        /\ row2.challenged_score = row.challenged_score
    BY <1>1, <2>2 DEF SessionRow
  <2> HIDE DEF ms, row
  <2>5. Standing(row2, new) = Standing(row, ms)
    BY <1>4, <2>4 DEF Standing, IsPractice, IsGame, Exists, Players, PointsOf
  <2> QED
    BY <1>3, <2>3, <2>5 DEF Matched
<1>5. CASE ~IsPractice(row)
  <2>1. PICK new, row2 : /\ new = Answered(ms, Len(ms), u, verdict, ts)
                         /\ row2 = Scored([row EXCEPT !.updated = ts], u, verdict)
    OBVIOUS
  <2>2. moves' = [moves EXCEPT ![s] = new] /\ sessions' = [sessions EXCEPT ![s] = row2]
    BY <1>2, <1>5, <2>1 DEF RecordAnswer
  <2>3. Matched' = [Matched EXCEPT ![s] = Standing(row2, new)]
    BY <1>1, <2>2, MatchedReplaced
  <2>4. /\ new # <<>> /\ Len(new) = Len(ms)
        /\ new[Len(ms)].answer_user = u /\ new[Len(ms)].is_correct = verdict
    <3>1. u \in OptionalUser
      BY DEF OptionalUser
    <3>2. GradedFrom(new, ms, Len(ms), u, verdict, ts)
      BY <1>1, <2>1, <3>1, AnsweredRow, Zenon
    <3> QED
      BY <1>1, <3>2, EmptySeq DEF GradedFrom
  <2>5. row2.challenger = row.challenger /\ row2.challenged = row.challenged
    BY <1>1, <2>1 DEF Scored, SessionRow
  <2>6. /\ IsGame(row) /\ IsGame(row2) /\ Players(row2) = Players(row)
        /\ Alternates(row, ms) /\ row.challenger # row.challenged
    BY <1>1, <1>5, <2>5 DEF IsGame, IsPractice, Exists, Players, SessionInv
  <2>7. PICK asker : asker = ms[Len(ms)].ask_user
    OBVIOUS
  <2>8. asker \in Players(row) \ {u} /\ u \in Players(row) /\ ms[Len(ms)].is_correct = "null"
    BY <1>1, <1>2, <2>6, <2>7 DEF MayAnswer, Alternates
  <2> HIDE DEF ms, row
  <2>9. Matched[s] = Stands("asked", Players(row), asker, PointsOf(row))
    BY <1>1, <1>3, <2>6, <2>7, <2>8, StandingOfGame
  <2>10. Standing(row2, new) = Stands("replied", Players(row), u, PointsOf(row2))
    BY <2>4, <2>6, StandingOfGame
  <2>11. PointsOf(row2) = PointsOf(row) \/ PointsOf(row2) = [PointsOf(row) EXCEPT ![asker] = @ + 1]
    <3>1. CASE verdict = "yes"
      <4>1. /\ row2.challenger_score = row.challenger_score
            /\ row2.challenged_score = row.challenged_score
        BY <1>1, <2>1, <3>1 DEF Scored, SessionRow
      <4> QED
        BY <2>5, <4>1 DEF PointsOf
    <3>2. CASE verdict = "no"
      <4>1. row \in SessionRow /\ IsGame(row) /\ row.challenger # row.challenged
        BY <1>1, <2>6
      <4>2. u \in Players(row) /\ asker \in Players(row) /\ asker # u
        BY <2>8
      <4>3. row2 = Scored([row EXCEPT !.updated = ts], u, verdict)
        BY <2>1
      <4>4. PointsOf(row2) = PointTo(row, asker)
        BY <3>2, <4>1, <4>2, <4>3, PointScored, SMT
      <4> QED
        BY <4>4 DEF PointTo
    <3> QED
      BY <3>1, <3>2
  <2> QED
    BY <2>3, <2>8, <2>9, <2>10, <2>11, Replied
<1> QED
  BY <1>4, <1>5

(***************************************************************************)
(* Every step of a handler is a step of the match or none.                 *)
(***************************************************************************)
LEMMA StepKeepsRules == IInv /\ [Next]_vars => [Rules!Next]_Matched
<1> SUFFICES ASSUME IInv, [Next]_vars PROVE Rules!Next \/ UNCHANGED Matched
  OBVIOUS
<1>1. CASE UNCHANGED vars
  BY <1>1 DEF vars, Matched
<1>2. ASSUME NEW u \in Users, NEW s \in Sessions, NEW ts \in Timestamps,
             NEW opponent \in OptionalUser, NEW vs \in VerbLists, NEW reps \in RepChoices,
             InsertSession(u, s, opponent, vs, reps, ts)
      PROVE  Rules!Next
  BY <1>2, InsertSessionMeets
<1>3. ASSUME NEW u \in Users, NEW s \in Sessions, NEW ts \in Timestamps,
             NEW v \in Verbs, NEW k \in Kinds, Ask(u, s, v, k, ts)
      PROVE  Rules!Next \/ UNCHANGED Matched
  BY <1>3, AskQuestions
<1>4. ASSUME NEW u \in Users, NEW s \in Sessions, NEW ts \in Timestamps,
             NEW verdict \in {"yes", "no"}, Answer(u, s, verdict, ts)
      PROVE  Rules!Next \/ UNCHANGED Matched
  <2>1. PICK i \in LastMoves(moves[s]), j \in LastMoves(moves[s]) :
          MayAnswer(u, moves[s][i]) /\ RecordAnswer(u, s, i, j, verdict, ts)
    BY <1>4 DEF Answer
  <2> QED
    BY <1>4, <2>1, RecordAnswerReplies DEF Answer
<1>5. ASSUME NEW u \in Users, NEW s \in Sessions, NEW ts \in Timestamps,
             MfPressed(u, s, ts)
      PROVE  Rules!Next \/ UNCHANGED Matched
  <2>1. PICK i \in LastMoves(moves[s]), j \in LastMoves(moves[s]) :
          MayAnswer(u, moves[s][i]) /\ RecordAnswer(u, s, i, j, "no", ts)
    BY <1>5 DEF MfPressed
  <2> QED
    BY <1>5, <2>1, RecordAnswerReplies DEF MfPressed
<1> QED
  BY <1>1, <1>2, <1>3, <1>4, <1>5 DEF Next

(***************************************************************************)
(* The game core implements the rules of the game: whatever requests       *)
(* arrive, in every session two players question each other in turn, and   *)
(* the scores in the table are the points of the one who asked.            *)
(***************************************************************************)
THEOREM GameKeepsRules == Spec => KeepsTheRules
<1>1. Init => Rules!Init
  <2> SUFFICES ASSUME Init
               PROVE  \A s \in Sessions : Standing(sessions[s], moves[s]) = Rules!NotBegun
    BY DEF Rules!Init
  <2>1. PointsOf(NoSession) = Rules!NoPoints
    BY DEF PointsOf, NoSession, Rules!NoPoints
  <2>2. ~Exists(NoSession) /\ ~IsGame(NoSession) /\ Players(NoSession) \ {NoUser} = {}
    BY DEF Exists, IsGame, Players, NoSession
  <2>3. Standing(NoSession, <<>>) = Rules!NotBegun
    BY <2>1, <2>2 DEF Standing, Rules!NotBegun
  <2> QED
    BY <2>3 DEF Init
<1>2. IInv /\ [Next]_vars => [Rules!Next]_Matched
  BY StepKeepsRules
<1> QED
  BY <1>1, <1>2, GameInvariant, PTL DEF Spec, KeepsTheRules, Rules!Spec, Matched
=============================================================================
