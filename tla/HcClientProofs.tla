--------------------------- MODULE HcClientProofs ---------------------------
(***************************************************************************)
(* Proofs about HcClient, for any readers, games, verbs and bounds.  Two   *)
(* things hold a page and the tables together:                             *)
(*                                                                         *)
(*   - what a view says of a question or of a turn to ask stays true until *)
(*     its reader does something (KeptFor, and the lemmas ...Keeps);       *)
(*   - a fresh page knows what it has on its way from what its button says *)
(*     (ByButton), so the reader does one thing at a time (FreshInv).      *)
(*                                                                         *)
(* The handlers are those of HcGame, whose invariant IInv is used as it is.*)
(***************************************************************************)
EXTENDS HcClient, HcGameProofs

-----------------------------------------------------------------------------
(* What a view says.                                                       *)

(***************************************************************************)
(* Question n is the open one, and it is not the reader's own.             *)
(***************************************************************************)
OpenFor(u, ms, n) ==
  /\ n = Len(ms) /\ n > 0
  /\ ms[n].is_correct = "null" /\ ms[n].ask_user # u

(***************************************************************************)
(* A view that tells the reader to ask: the same verb again, or one of     *)
(* those offered after a mistake.  It is only claimed while they may.      *)
(***************************************************************************)
ToldTruly(ms, d) ==
  LET last == ms[Len(ms)]
  IN  /\ d.verb = last.verb
      /\ last.is_correct = "no" => d.type = "FirstMoveMyTurn" /\ d.offered = Offered(ms)
      /\ last.is_correct # "no" => d.type = "AskMyTurn"

AskFor(u, ms, d) == ms # <<>> /\ MayAsk(u, ms[Len(ms)]) => ToldTruly(ms, d)

Current(u, ms, d) ==
  /\ d.type \in AnswerTypes => OpenFor(u, ms, d.n)
  /\ d.type \in AskTypes => AskFor(u, ms, d)

(***************************************************************************)
(* Whatever was so for the reader with the old moves is so with the new.   *)
(***************************************************************************)
KeptFor(u, old, new) ==
  /\ \A n : OpenFor(u, old, n) => OpenFor(u, new, n)
  /\ \A d : AskFor(u, old, d) => AskFor(u, new, d)

-----------------------------------------------------------------------------
(* The inductive invariant.                                                *)

NamesVerb(d) == d.type = "AskMyTurn" => d.verb \in Verbs

FormInv(pg) ==
  /\ pg.button = "Enter" => pg.timers > 0
  /\ pg.button = "Continue" => pg.kept.type \in AskTypes /\ NamesVerb(pg.kept)
  /\ pg.mf => pg.button \in {"Enter", "Loading"}
  /\ pg.selected = NoGame => pg.button = "none"

(***************************************************************************)
(* A request on its way: what was on the form is only known of one that is *)
(* not handled yet, and a handler that succeeded says what comes next.     *)
(***************************************************************************)
CallInv(u, c) ==
  /\ c.session \in SessionsOf(u)
  /\ c.stage = "done" =>
       /\ ~c.sure
       /\ NamesVerb(c.data)
       /\ c.qtype = "getmove" => c.data.type # "none"
       /\ c.qtype \in {"enter", "mf"} => c.data.type \in AskTypes \cup {"Practice"}

(***************************************************************************)
(* The only request of its page opens the game selected, and its answer is *)
(* still true.                                                             *)
(***************************************************************************)
AloneInv(u, pg, cs) ==
  \A i \in DOMAIN cs : cs[i].alone =>
    /\ Len(cs) = 1
    /\ cs[i].qtype = "getmove" /\ cs[i].session = pg.selected
    /\ cs[i].stage = "done" =>
         /\ cs[i].data.session = pg.selected
         /\ cs[i].data.type # "none"
         /\ Current(u, moves[pg.selected], cs[i].data)

(***************************************************************************)
(* What a fresh page may have on its way, by its button.                   *)
(***************************************************************************)
ByButton(pg, cs) ==
  /\ pg.button \in {"none", "Go", "Continue"} => cs = <<>>
  /\ pg.button \in {"Enter", "Loading"} => Len(cs) <= 1
  /\ \A i \in DOMAIN cs :
       /\ pg.button = "Enter" => cs[i].qtype = "mf" /\ ~pg.mf
       /\ pg.button = "Loading" => cs[i].qtype = "enter" \/ (cs[i].qtype = "mf" /\ ~pg.mf)
       /\ pg.button \in {"Ask", "Sent"} => cs[i].qtype = "ask"

\* A verb the view allows, or none.
Allowed(v, verb) ==
  \/ verb = NoVerb
  \/ v.type = "FirstMoveMyTurn" /\ verb \in v.offered
  \/ v.type = "AskMyTurn" /\ verb = v.verb

(***************************************************************************)
(* A request of a fresh page.                                              *)
(***************************************************************************)
FreshCall(u, pg, c) ==
  LET ms == moves[pg.selected]
      v  == pg.view
  IN  /\ c.session = pg.selected
      /\ c.qtype # "getmove"
      /\ c.sure /\ c.qtype # "ask" =>
           v.type \in AnswerTypes /\ c.n = v.n /\ OpenFor(u, ms, v.n)
      /\ c.sure /\ c.qtype = "ask" => v.type \in AskTypes /\ Allowed(v, c.verb)
      /\ c.stage = "done" /\ c.qtype # "ask" =>
           c.data.session = pg.selected /\ Current(u, ms, c.data)
      /\ v.type \in AnswerTypes /\ pg.button = "Enter" /\ c.stage = "sent" => c.sure

(***************************************************************************)
(* A fresh page whose view tells the reader to answer.                     *)
(***************************************************************************)
AnswerForm(u, pg, cs) ==
  /\ pg.button \in {"Go", "Enter", "Loading"}
  /\ pg.button \in {"Go", "Enter"} /\ cs = <<>> =>
       OpenFor(u, moves[pg.selected], pg.view.n)

(***************************************************************************)
(* A fresh page whose view tells the reader to ask.                        *)
(***************************************************************************)
AskForm(u, pg) ==
  /\ pg.button \in {"Continue", "Ask", "Sent"}
  /\ AskFor(u, moves[pg.selected], pg.view)
  /\ pg.button = "Continue" => pg.kept = pg.view
  /\ pg.button = "Ask" /\ pg.choosing => \A verb \in ToSet(pg.options) : Allowed(pg.view, verb)
  /\ pg.button = "Ask" /\ ~pg.choosing => Allowed(pg.view, pg.verb)

FreshInv(u, pg, cs) ==
  /\ pg.selected # NoGame /\ pg.view.session = pg.selected
  /\ ByButton(pg, cs)
  /\ \A i \in DOMAIN cs : FreshCall(u, pg, cs[i])
  /\ pg.view.type \in AnswerTypes => AnswerForm(u, pg, cs)
  /\ pg.view.type \in AskTypes => AskForm(u, pg)

ReaderInv(u, pg, cs) ==
  /\ FormInv(pg)
  /\ pg.selected = NoGame => cs = <<>>
  /\ pg.selected # NoGame => pg.selected \in SessionsOf(u)
  /\ \A i \in DOMAIN cs : CallInv(u, cs[i])
  /\ AloneInv(u, pg, cs)
  /\ pg.fresh => FreshInv(u, pg, cs)

ClientInv ==
  /\ IInv
  /\ page \in [Readers -> PageRow]
  /\ calls \in [Readers -> Seq(CallRow)]
  /\ \A u \in Readers : ReaderInv(u, page[u], calls[u])

-----------------------------------------------------------------------------
(* Lemmas about the operators of HcClient.                                 *)

LEMMA NoCalls ==
  ASSUME NEW cs \in Seq(CallRow), \A i \in DOMAIN cs : FALSE
  PROVE  cs = <<>>
<1>1. DOMAIN cs = 1 .. Len(cs) /\ Len(cs) \in Nat
  BY LenProperties
<1>2. Len(cs) = 0
  <2>1. Len(cs) # 0 => 1 \in DOMAIN cs
    BY <1>1
  <2> QED
    BY <2>1
<1> QED
  BY <1>2, EmptySeq

(***************************************************************************)
(* SetToSeq lists members of a finite set.                                 *)
(***************************************************************************)
LEMMA SetToSeqLists ==
  ASSUME NEW S, IsFiniteSet(S)
  PROVE  SetToSeq(S) \in Seq(S) /\ ToSet(SetToSeq(S)) \subseteq S
<1> DEFINE n == Cardinality(S)
<1>1. n \in Nat /\ ExistsBijection(1 .. n, S)
  BY FS_CardinalityType
<1>2. PICK f : f \in Bijection(1 .. n, S)
  BY <1>1 DEF ExistsBijection
<1>3. f \in [1 .. n -> S] /\ IsInjective(f)
  BY <1>2 DEF Bijection, Injection, IsInjective
<1>4. SetToSeq(S) \in [1 .. n -> S]
  BY <1>3 DEF SetToSeq
<1>5. SetToSeq(S) \in Seq(S)
  BY <1>1, <1>4
<1>6. ToSet(SetToSeq(S)) \subseteq S
  BY <1>4 DEF ToSet
<1> QED
  BY <1>5, <1>6

(***************************************************************************)
(* Removing a request leaves the others, and none if it was the only one.  *)
(***************************************************************************)
RemovedFrom(new, cs, k) ==
  /\ new \in Seq(CallRow)
  /\ Len(new) = Len(cs) - 1
  /\ \A i \in DOMAIN new : \E j \in DOMAIN cs : j # k /\ new[i] = cs[j]
  /\ Len(cs) = 1 => new = <<>>

LEMMA RemovedCall ==
  ASSUME NEW cs \in Seq(CallRow), NEW k \in DOMAIN cs, NEW new, new = RemoveAt(cs, k)
  PROVE  RemovedFrom(new, cs, k)
<1>1. Len(cs) \in Nat /\ DOMAIN cs = 1 .. Len(cs) /\ cs \in [1 .. Len(cs) -> CallRow]
  BY LenProperties
<1>2. k \in 1 .. Len(cs)
  BY <1>1
<1> DEFINE a == SubSeq(cs, 1, k - 1)
           b == SubSeq(cs, k + 1, Len(cs))
<1>3. /\ a \in Seq(CallRow) /\ Len(a) = k - 1
      /\ \A i \in 1 .. k - 1 : a[i] = cs[i]
  <2>1. \A i \in 1 .. k - 1 : cs[i] \in CallRow
    BY <1>1, <1>2
  <2> HIDE DEF a
  <2>2. /\ a \in Seq(CallRow)
        /\ Len(a) = IF 1 <= k - 1 THEN (k - 1) - 1 + 1 ELSE 0
        /\ \A i \in 1 .. (k - 1) - 1 + 1 : a[i] = cs[1 + i - 1]
    BY <2>1, <1>1, <1>2, SubSeqProperties DEF a
  <2> QED
    BY <2>2, <1>1, <1>2
<1>4. /\ b \in Seq(CallRow) /\ Len(b) = Len(cs) - k
      /\ \A i \in 1 .. Len(cs) - k : b[i] = cs[k + i]
  <2>1. \A i \in k + 1 .. Len(cs) : cs[i] \in CallRow
    BY <1>1, <1>2
  <2> HIDE DEF b
  <2>2. /\ b \in Seq(CallRow)
        /\ Len(b) = IF k + 1 <= Len(cs) THEN Len(cs) - (k + 1) + 1 ELSE 0
        /\ \A i \in 1 .. Len(cs) - (k + 1) + 1 : b[i] = cs[k + 1 + i - 1]
    BY <2>1, <1>1, <1>2, SubSeqProperties DEF b
  <2> QED
    BY <2>2, <1>1, <1>2
<1>5. new = a \o b
  BY DEF RemoveAt
<1> HIDE DEF a, b
<1>6. /\ new \in Seq(CallRow) /\ Len(new) = Len(cs) - 1
      /\ \A i \in 1 .. Len(cs) - 1 : new[i] = IF i <= k - 1 THEN a[i] ELSE b[i - (k - 1)]
  <2>1. /\ a \o b \in Seq(CallRow)
        /\ Len(a \o b) = Len(a) + Len(b)
        /\ \A i \in 1 .. Len(a) + Len(b) :
             (a \o b)[i] = IF i <= Len(a) THEN a[i] ELSE b[i - Len(a)]
    BY <1>3, <1>4, ConcatProperties, Zenon
  <2>2. Len(a) = k - 1 /\ Len(a) + Len(b) = Len(cs) - 1
    BY <1>1, <1>2, <1>3, <1>4
  <2> QED
    BY <2>1, <2>2, <1>5
<1>7. DOMAIN new = 1 .. Len(cs) - 1
  BY <1>6, LenProperties
<1>8. ASSUME NEW i \in DOMAIN new
      PROVE  \E j \in DOMAIN cs : j # k /\ new[i] = cs[j]
  <2>1. CASE i <= k - 1
    <3>1. i \in 1 .. k - 1 /\ i \in DOMAIN cs /\ i # k
      BY <2>1, <1>1, <1>2, <1>7
    <3> QED
      BY <3>1, <2>1, <1>3, <1>6, <1>7
  <2>2. CASE ~(i <= k - 1)
    <3>1. /\ i - (k - 1) \in 1 .. Len(cs) - k /\ k + (i - (k - 1)) = i + 1
          /\ i + 1 \in DOMAIN cs /\ i + 1 # k
      BY <2>2, <1>1, <1>2, <1>7
    <3>2. new[i] = cs[i + 1]
      BY <3>1, <2>2, <1>4, <1>6, <1>7
    <3> QED
      BY <3>1, <3>2
  <2> QED
    BY <2>1, <2>2
<1>9. Len(cs) = 1 => new = <<>>
  BY <1>6, EmptySeq
<1> QED
  BY <1>6, <1>8, <1>9 DEF RemovedFrom

(***************************************************************************)
(* Sending a request: no other is alone any more.                          *)
(***************************************************************************)
NotAlone(c) == [c EXCEPT !.alone = FALSE]

Sent(cs, call) == Append([k \in DOMAIN cs |-> NotAlone(cs[k])], call)

SentFrom(new, cs, call) ==
  /\ new \in Seq(CallRow)
  /\ Len(cs) \in Nat /\ Len(new) = Len(cs) + 1
  /\ DOMAIN cs = 1 .. Len(cs) /\ DOMAIN new = 1 .. Len(cs) + 1
  /\ new[Len(cs) + 1] = call
  /\ \A i \in DOMAIN cs : new[i] = NotAlone(cs[i])

LEMMA SentCalls ==
  ASSUME NEW cs \in Seq(CallRow), NEW call \in CallRow, NEW new, new = Sent(cs, call)
  PROVE  SentFrom(new, cs, call)
<1> DEFINE old == [k \in DOMAIN cs |-> NotAlone(cs[k])]
<1>1. Len(cs) \in Nat /\ DOMAIN cs = 1 .. Len(cs) /\ cs \in [1 .. Len(cs) -> CallRow]
  BY LenProperties
<1>2. \A k \in DOMAIN cs : NotAlone(cs[k]) \in CallRow
  BY <1>1 DEF CallRow, NotAlone
<1>3. old \in [1 .. Len(cs) -> CallRow]
  BY <1>1, <1>2
<1>4. old \in Seq(CallRow) /\ Len(old) = Len(cs)
  BY <1>1, <1>3
<1>5. new = Append(old, call)
  BY DEF Sent
<1>6. \A k \in DOMAIN cs : old[k] = NotAlone(cs[k])
  OBVIOUS
<1> HIDE DEF old
<1>7. /\ Append(old, call) \in Seq(CallRow)
      /\ Len(Append(old, call)) = Len(old) + 1
      /\ \A i \in 1 .. Len(old) : Append(old, call)[i] = old[i]
      /\ Append(old, call)[Len(old) + 1] = call
  BY <1>4, AppendProperties
<1>8. DOMAIN new = 1 .. Len(cs) + 1
  BY <1>4, <1>5, <1>7, LenProperties
<1> QED
  <2>1. new \in Seq(CallRow) /\ Len(new) = Len(cs) + 1 /\ new[Len(cs) + 1] = call
    BY <1>4, <1>5, <1>7
  <2>2. \A i \in DOMAIN cs : new[i] = NotAlone(cs[i])
    BY <1>1, <1>4, <1>5, <1>6, <1>7
  <2> QED
    BY <2>1, <2>2, <1>1, <1>8 DEF SentFrom

-----------------------------------------------------------------------------
(* The view the server sends.                                              *)

(***************************************************************************)
(* A view is true when it is made.                                         *)
(***************************************************************************)
LEMMA StateCurrent ==
  ASSUME NEW u \in Users, NEW s \in Sessions, NEW row \in SessionRow,
         NEW ms \in Seq(MoveRow), SessionInv(row, ms), Exists(row), u \in Players(row),
         NEW d, d = SessionState(u, s, row, ms)
  PROVE  /\ d \in ViewRow /\ d.session = s /\ d.type # "none"
         /\ NamesVerb(d)
         /\ Current(u, ms, d)
<1> USE GameAssumption, ClientAssumption
<1> DEFINE type == MoveType(u, row, ms)
           last == ms[Len(ms)]
<1>1. Len(ms) \in Nat
  BY LenProperties
<1>2. d = [session |-> s, n |-> Len(ms), type |-> type,
           verb |-> IF ms = <<>> THEN NoVerb ELSE LastMove(ms).verb,
           offered |-> IF type = "FirstMoveMyTurn" THEN Offered(ms) ELSE {}]
  BY DEF SessionState
<1>3. type \in AnswerTypes \cup AskTypes \cup WaitTypes
  BY DEF MoveType, AnswerTypes, AskTypes, WaitTypes
<1>4. Offered(ms) \subseteq Verbs
  BY DEF Offered
<1>5. ms # <<>> =>
        /\ Len(ms) > 0 /\ LastMove(ms) = last /\ last \in MoveRow /\ last.verb \in Verbs
        /\ last.is_correct = "null" <=> last.answer_user = NoUser
  <2> SUFFICES ASSUME ms # <<>>
               PROVE  /\ Len(ms) > 0 /\ LastMove(ms) = last /\ last \in MoveRow
                      /\ last.verb \in Verbs
                      /\ last.is_correct = "null" <=> last.answer_user = NoUser
    OBVIOUS
  <2>1. Len(ms) \in Nat \ {0} /\ LastMove(ms) = last
    BY LastIsNewest DEF SessionInv
  <2>2. Len(ms) \in DOMAIN ms /\ last \in MoveRow
    BY <2>1, LenProperties, ElementOfSeq
  <2>3. last.is_correct = "null" <=> last.answer_user = NoUser
    BY <2>2 DEF SessionInv, LastOpen
  <2> QED
    BY <2>1, <2>2, <2>3 DEF MoveRow
<1> HIDE DEF last
<1>6. d \in ViewRow /\ d.session = s /\ d.type # "none"
  BY <1>1, <1>2, <1>3, <1>4, <1>5 DEF ViewRow, AnswerTypes, AskTypes, WaitTypes
<1>7. type = "AskMyTurn" => ms # <<>>
  BY DEF MoveType
<1>8. NamesVerb(d)
  BY <1>2, <1>5, <1>7 DEF NamesVerb
<1>9. ASSUME d.type \in AnswerTypes
      PROVE  OpenFor(u, ms, d.n)
  <2>1. CASE IsPractice(row)
    <3>1. Waiting(row, ms)
      BY <2>1 DEF SessionInv
    <3>2. ms # <<>> /\ Len(ms) \in DOMAIN ms
      BY <3>1, <1>1, EmptySeq, LenProperties DEF Waiting
    <3>3. last.is_correct = "null" /\ last.ask_user = NoUser
      BY <3>1, <3>2 DEF Waiting, last
    <3> QED
      BY <3>2, <3>3, <1>2, <1>5 DEF OpenFor, last
  <2>2. CASE ~IsPractice(row)
    <3>1. type = "AnswerMyTurn"
      BY <1>2, <1>9, <2>2 DEF MoveType, AnswerTypes
    <3>2. ms # <<>> /\ LastMove(ms).ask_user # u /\ LastMove(ms).answer_user = NoUser
      BY <3>1, <2>2 DEF MoveType
    <3> QED
      BY <3>2, <1>2, <1>5 DEF OpenFor, last
  <2> QED
    BY <2>1, <2>2
<1>10. ASSUME d.type \in AskTypes
       PROVE  AskFor(u, ms, d)
  <2> SUFFICES ASSUME ms # <<>> PROVE ToldTruly(ms, d)
    BY DEF AskFor
  <2>1. ~IsPractice(row)
    BY <1>2, <1>10 DEF MoveType, AskTypes
  <2>2. type = IF last.is_correct = "no" THEN "FirstMoveMyTurn" ELSE "AskMyTurn"
    BY <1>2, <1>5, <1>10, <2>1 DEF MoveType, AskTypes
  <2> QED
    BY <2>2, <1>2, <1>5 DEF ToldTruly, last
<1> QED
  BY <1>6, <1>8, <1>9, <1>10 DEF Current

(***************************************************************************)
(* Asking leaves what was true for a reader true.                          *)
(***************************************************************************)
LEMMA AskKeepsView ==
  ASSUME NEW u \in Users, NEW ms \in Seq(MoveRow), NEW w \in Users, NEW v \in Verbs,
         NEW k \in Kinds, NEW ts \in Nat,
         ms # <<>> => MayAsk(w, ms[Len(ms)]),
         NEW new, new = Append(ms, NewMove(w, v, k, ts))
  PROVE  KeptFor(u, ms, new)
<1> USE GameAssumption
<1>1. /\ Len(ms) \in Nat /\ new # <<>> /\ Len(new) = Len(ms) + 1
      /\ new[Len(ms) + 1] = NewMove(w, v, k, ts)
  BY Appended DEF OptionalUser
<1>2. new[Len(new)].answer_user # u
  BY <1>1 DEF NewMove
<1>3. \A d : AskFor(u, new, d)
  BY <1>2 DEF AskFor, MayAsk
<1>4. \A n : ~OpenFor(u, ms, n)
  BY EmptySeq DEF OpenFor, MayAsk
<1> QED
  BY <1>3, <1>4 DEF KeptFor

(***************************************************************************)
(* So does the other player's answer.                                      *)
(***************************************************************************)
LEMMA AnswerKeepsView ==
  ASSUME NEW u \in Users, NEW w \in Users, w # u,
         NEW row \in SessionRow, NEW ms \in Seq(MoveRow), SessionInv(row, ms),
         IsGame(row), u \in Players(row), w \in Players(row),
         ms # <<>>, MayAnswer(w, ms[Len(ms)]), NEW verdict \in {"yes", "no"}, NEW ts \in Nat,
         NEW new, new = Answered(ms, Len(ms), w, verdict, ts)
  PROVE  KeptFor(u, ms, new)
<1> USE GameAssumption
<1>1. Len(ms) \in Nat \ {0} /\ Len(ms) \in DOMAIN ms
  BY EmptySeq, LenProperties
<1>2. GradedFrom(new, ms, Len(ms), w, verdict, ts)
  <2>1. w \in OptionalUser
    BY DEF OptionalUser
  <2> QED
    BY <1>1, <2>1, AnsweredRow, Zenon
<1>3. new[Len(new)].answer_user # u
  BY <1>2 DEF GradedFrom
<1>4. ms[Len(ms)].ask_user = u
  BY <1>1 DEF SessionInv, Alternates, MayAnswer, Players
<1>5. \A n : ~OpenFor(u, ms, n)
  BY <1>4 DEF OpenFor
<1>6. \A d : AskFor(u, new, d)
  BY <1>3 DEF AskFor, MayAsk
<1> QED
  BY <1>5, <1>6 DEF KeptFor

-----------------------------------------------------------------------------
(* Steps of the tables.                                                    *)

(***************************************************************************)
(* A step leaves what is true for reader u of all games but those in X.    *)
(***************************************************************************)
StepKeeps(u, X) ==
  \A s \in SessionsOf(u) :
    /\ s \in SessionsOf(u)'
    /\ s \notin X => KeptFor(u, moves[s], moves'[s])

LEMMA KeptTrivially == \A u, ms : KeptFor(u, ms, ms)
BY DEF KeptFor

(***************************************************************************)
(* Only the row and the moves of session s change, and not its players.    *)
(***************************************************************************)
LEMMA StepKeepsBut ==
  ASSUME IInv, NEW u \in Users, NEW s \in Sessions,
         \A r \in Sessions : r # s => sessions'[r] = sessions[r] /\ moves'[r] = moves[r],
         s \in SessionsOf(u) => /\ Exists(sessions'[s])
                                /\ Players(sessions'[s]) = Players(sessions[s])
  PROVE  /\ StepKeeps(u, {s})
         /\ KeptFor(u, moves[s], moves'[s]) => StepKeeps(u, {})
BY KeptTrivially DEF StepKeeps, SessionsOf

LEMMA InsertSessionKeeps ==
  ASSUME IInv, NEW u \in Users, NEW w \in Users, NEW s \in Sessions,
         NEW opponent \in OptionalUser, NEW vs \in VerbLists, NEW reps \in RepChoices,
         NEW ts \in Timestamps, InsertSession(w, s, opponent, vs, reps, ts)
  PROVE  StepKeeps(u, {})
<1>1. s \notin SessionsOf(u)
  BY DEF InsertSession, SessionsOf
<1>2. \A r \in Sessions : r # s => sessions'[r] = sessions[r] /\ moves'[r] = moves[r]
  BY DEF InsertSession, IInv, TypeOK
<1> QED
  BY <1>1, <1>2, KeptTrivially DEF StepKeeps, SessionsOf

LEMMA AskKeeps ==
  ASSUME IInv, NEW u \in Users, NEW w \in Users, NEW s \in Sessions, NEW v \in Verbs,
         NEW k \in Kinds, NEW ts \in Timestamps, Ask(w, s, v, k, ts)
  PROVE  StepKeeps(u, {})
<1> USE GameAssumption
<1> DEFINE ms == moves[s]
           row == sessions[s]
<1>1. /\ row \in SessionRow /\ ms \in Seq(MoveRow) /\ SessionInv(row, ms) /\ ts \in Nat
      /\ moves \in [Sessions -> Seq(MoveRow)] /\ sessions \in [Sessions -> SessionRow]
  BY DEF IInv, TypeOK
<1>2. PICK t \in Nat : /\ InsertAsk(w, s, v, k, t)
                       /\ ms # <<>> => MayAsk(w, ms[Len(ms)])
  <2>1. CASE ms = <<>> /\ InsertAsk(w, s, v, k, ts)
    BY <2>1, <1>1
  <2>2. CASE ms # <<>>
    <3>1. LastMoves(ms) = {Len(ms)} /\ Len(ms) \in DOMAIN ms
      BY <1>1, <2>2, LastIsNewest, LenProperties DEF SessionInv
    <3>2. /\ MayAsk(w, ms[Len(ms)])
          /\ InsertAsk(w, s, v, k, AskTimestamp(ts, ms[Len(ms)].asktimestamp))
      BY <2>2, <3>1 DEF Ask
    <3>3. ms[Len(ms)] \in MoveRow
      BY <1>1, <3>1, LenProperties
    <3>4. ms[Len(ms)].asktimestamp \in Nat
      BY <3>3 DEF MoveRow
    <3> QED
      BY <1>1, <3>2, <3>4, AskTimestampLater
  <2>3. ms = <<>> => InsertAsk(w, s, v, k, ts)
    BY DEF Ask, LastMoves
  <2> QED
    BY <2>1, <2>2, <2>3
<1>3. /\ moves' = [moves EXCEPT ![s] = Append(ms, NewMove(w, v, k, t))]
      /\ sessions' = [sessions EXCEPT ![s].updated = t]
  BY <1>2 DEF InsertAsk
<1>4. KeptFor(u, ms, moves'[s])
  BY <1>1, <1>2, <1>3, AskKeepsView
<1>5. \A r \in Sessions : r # s => sessions'[r] = sessions[r] /\ moves'[r] = moves[r]
  BY <1>1, <1>3
<1>6. sessions'[s].challenger = row.challenger /\ sessions'[s].challenged = row.challenged
  BY <1>1, <1>3 DEF SessionRow
<1>7. s \in SessionsOf(u) => Exists(sessions'[s]) /\ Players(sessions'[s]) = Players(row)
  BY <1>6 DEF SessionsOf, Exists, Players
<1> QED
  BY <1>4, <1>5, <1>7, StepKeepsBut

(***************************************************************************)
(* What both hc_answer and hc_mf_pressed do.                               *)
(***************************************************************************)
AnsweredIn(w, s, ts) ==
  \/ \E verdict \in {"yes", "no"} : Answer(w, s, verdict, ts)
  \/ MfPressed(w, s, ts)

LEMMA AnswerOutcome ==
  ASSUME IInv, NEW w \in Users, NEW s \in Sessions, NEW ts \in Timestamps,
         AnsweredIn(w, s, ts)
  PROVE  /\ s \in SessionsOf(w)
         /\ moves[s] # <<>> /\ MayAnswer(w, moves[s][Len(moves[s])])
         /\ \A r \in Sessions : r # s => sessions'[r] = sessions[r] /\ moves'[r] = moves[r]
         /\ Exists(sessions'[s]) /\ Players(sessions'[s]) = Players(sessions[s])
         /\ IsPractice(sessions'[s]) <=> IsPractice(sessions[s])
         /\ ~IsPractice(sessions[s]) => \E verdict \in {"yes", "no"} :
              moves'[s] = Answered(moves[s], Len(moves[s]), w, verdict, ts)
<1> USE GameAssumption
<1> DEFINE ms == moves[s]
           row == sessions[s]
<1>1. PICK verdict \in {"yes", "no"}, i \in LastMoves(ms), j \in LastMoves(ms) :
        /\ Exists(row) /\ w \in Players(row)
        /\ MayAnswer(w, ms[i]) /\ RecordAnswer(w, s, i, j, verdict, ts)
  BY DEF AnsweredIn, Answer, MfPressed
<1>2. /\ row \in SessionRow /\ ms \in Seq(MoveRow) /\ SessionInv(row, ms)
      /\ moves \in [Sessions -> Seq(MoveRow)] /\ sessions \in [Sessions -> SessionRow]
  BY DEF IInv, TypeOK
<1>3. ms # <<>>
  BY <1>1 DEF LastMoves
<1>4. i = Len(ms) /\ j = Len(ms)
  BY <1>1, <1>2, <1>3, LastIsNewest DEF SessionInv
<1>5. PICK new, row2 :
        /\ moves' = [moves EXCEPT ![s] = new] /\ sessions' = [sessions EXCEPT ![s] = row2]
        /\ row2.challenger = row.challenger /\ row2.challenged = row.challenged
        /\ ~IsPractice(row) => new = Answered(ms, Len(ms), w, verdict, ts)
  <2>1. CASE IsPractice(row)
    <3>1. PICK askTs : sessions' = [sessions EXCEPT ![s].updated = askTs]
      BY <1>1, <2>1 DEF RecordAnswer
    <3>2. PICK new : moves' = [moves EXCEPT ![s] = new]
      BY <1>1, <2>1 DEF RecordAnswer
    <3>3. sessions' = [sessions EXCEPT ![s] = [row EXCEPT !.updated = askTs]]
      BY <1>2, <3>1
    <3>4. /\ [row EXCEPT !.updated = askTs].challenger = row.challenger
          /\ [row EXCEPT !.updated = askTs].challenged = row.challenged
      BY <1>2 DEF SessionRow
    <3> QED
      BY <2>1, <3>2, <3>3, <3>4
  <2>2. CASE ~IsPractice(row)
    <3> DEFINE row2 == Scored([row EXCEPT !.updated = ts], w, verdict)
    <3>1. /\ moves' = [moves EXCEPT ![s] = Answered(ms, Len(ms), w, verdict, ts)]
          /\ sessions' = [sessions EXCEPT ![s] = row2]
      BY <1>1, <1>4, <2>2 DEF RecordAnswer
    <3>2. row2.challenger = row.challenger /\ row2.challenged = row.challenged
      BY <1>2 DEF Scored, SessionRow
    <3> QED
      BY <3>1, <3>2
  <2> QED
    BY <2>1, <2>2
<1>6. moves'[s] = new /\ sessions'[s] = row2
  BY <1>2, <1>5
<1>7. \A r \in Sessions : r # s => sessions'[r] = sessions[r] /\ moves'[r] = moves[r]
  BY <1>2, <1>5
<1>8. /\ Exists(sessions'[s]) /\ Players(sessions'[s]) = Players(row)
      /\ IsPractice(sessions'[s]) <=> IsPractice(row)
  BY <1>1, <1>5, <1>6 DEF Exists, Players, IsPractice
<1>9. s \in SessionsOf(w)
  BY <1>1 DEF SessionsOf
<1> QED
  BY <1>1, <1>3, <1>4, <1>5, <1>6, <1>7, <1>8, <1>9

LEMMA AnswerKeeps ==
  ASSUME IInv, NEW u \in Users, NEW w \in Users, NEW s \in Sessions, NEW ts \in Timestamps,
         AnsweredIn(w, s, ts)
  PROVE  StepKeeps(u, {s}) /\ (w # u => StepKeeps(u, {}))
<1> USE GameAssumption
<1> DEFINE ms == moves[s]
           row == sessions[s]
<1>1. /\ row \in SessionRow /\ ms \in Seq(MoveRow) /\ SessionInv(row, ms) /\ ts \in Nat
  BY DEF IInv, TypeOK
<1>2. /\ s \in SessionsOf(w)
      /\ ms # <<>> /\ MayAnswer(w, ms[Len(ms)])
      /\ \A r \in Sessions : r # s => sessions'[r] = sessions[r] /\ moves'[r] = moves[r]
      /\ Exists(sessions'[s]) /\ Players(sessions'[s]) = Players(row)
      /\ ~IsPractice(row) => \E verdict \in {"yes", "no"} :
           moves'[s] = Answered(ms, Len(ms), w, verdict, ts)
  BY AnswerOutcome
<1>3. StepKeeps(u, {s}) /\ (KeptFor(u, ms, moves'[s]) => StepKeeps(u, {}))
  BY <1>2, StepKeepsBut
<1>4. ASSUME w # u PROVE StepKeeps(u, {})
  <2>1. CASE s \notin SessionsOf(u)
    BY <2>1, <1>3 DEF StepKeeps
  <2>2. CASE s \in SessionsOf(u)
    <3>1. Exists(row) /\ u \in Players(row) /\ w \in Players(row)
      BY <1>2, <2>2 DEF SessionsOf
    <3>2. ~IsPractice(row)
      BY <1>4, <3>1 DEF IsPractice, Players
    <3>3. IsGame(row)
      BY <3>1, <3>2 DEF IsGame
    <3>4. PICK verdict \in {"yes", "no"} :
            moves'[s] = Answered(ms, Len(ms), w, verdict, ts)
      BY <1>2, <3>2
    <3> HIDE DEF ms, row
    <3>5. KeptFor(u, ms, moves'[s])
      BY <1>1, <1>2, <1>4, <3>1, <3>3, <3>4, AnswerKeepsView
    <3> QED
      BY <1>3, <3>5 DEF ms
  <2> QED
    BY <2>1, <2>2
<1> QED
  BY <1>3, <1>4

(***************************************************************************)
(* The state that an answer returns: what its player has to do next.       *)
(***************************************************************************)
LEMMA ReplyState ==
  ASSUME IInv, IInv', NEW u \in Users, NEW s \in Sessions, NEW ts \in Timestamps,
         AnsweredIn(u, s, ts)
  PROVE  SessionState(u, s, sessions'[s], moves'[s]).type \in AskTypes \cup {"Practice"}
<1> USE GameAssumption
<1> DEFINE ms == moves[s]
           row == sessions[s]
           new == moves'[s]
           row2 == sessions'[s]
<1>1. /\ row \in SessionRow /\ ms \in Seq(MoveRow) /\ SessionInv(row, ms) /\ ts \in Nat
      /\ new \in Seq(MoveRow) /\ SessionInv(row2, new)
  BY DEF IInv, TypeOK
<1>2. /\ ms # <<>> /\ MayAnswer(u, ms[Len(ms)])
      /\ IsPractice(row2) <=> IsPractice(row)
      /\ ~IsPractice(row) => \E verdict \in {"yes", "no"} :
           new = Answered(ms, Len(ms), u, verdict, ts)
  BY AnswerOutcome
<1>3. SessionState(u, s, row2, new).type = MoveType(u, row2, new)
  BY DEF SessionState
<1>4. CASE IsPractice(row)
  BY <1>2, <1>3, <1>4 DEF MoveType
<1>5. CASE ~IsPractice(row)
  <2>1. PICK verdict \in {"yes", "no"} : new = Answered(ms, Len(ms), u, verdict, ts)
    BY <1>2, <1>5
  <2>2. Len(ms) \in DOMAIN ms /\ u \in OptionalUser
    BY <1>1, <1>2, EmptySeq, LenProperties DEF OptionalUser
  <2>3. GradedFrom(new, ms, Len(ms), u, verdict, ts)
    BY <1>1, <2>1, <2>2, AnsweredRow, Zenon
  <2>4. LastMove(new) = new[Len(ms)] /\ new # <<>>
    BY <1>1, <2>3, LastIsNewest DEF SessionInv, GradedFrom
  <2>5. LastMove(new).answer_user = u /\ LastMove(new).ask_user # u
    BY <1>2, <2>3, <2>4 DEF GradedFrom, MayAnswer
  <2> QED
    BY <1>2, <1>3, <1>5, <2>4, <2>5 DEF MoveType, AskTypes
<1> QED
  BY <1>4, <1>5

(***************************************************************************)
(* A page that is left alone keeps its invariant while the tables change,  *)
(* as long as what is true of the game it has selected is kept.            *)
(***************************************************************************)
LEMMA ReaderFrame ==
  ASSUME NEW u \in Users, NEW pg, NEW cs, ReaderInv(u, pg, cs),
         NEW X, StepKeeps(u, X), pg.selected \notin X
  PROVE  ReaderInv(u, pg, cs)'
<1> DEFINE old == moves[pg.selected]
           new == moves'[pg.selected]
<1>1. pg.selected # NoGame => KeptFor(u, old, new) /\ pg.selected \in SessionsOf(u)'
  BY DEF ReaderInv, StepKeeps
<1>2. pg.selected # NoGame =>
        /\ \A n : OpenFor(u, old, n) => OpenFor(u, new, n)
        /\ \A d : AskFor(u, old, d) => AskFor(u, new, d)
        /\ \A d : Current(u, old, d) => Current(u, new, d)
  BY <1>1 DEF KeptFor, Current
<1>3. FormInv(pg)' /\ (pg.selected = NoGame => cs = <<>>)
  BY DEF ReaderInv, FormInv, NamesVerb
<1>4. ASSUME NEW i \in DOMAIN cs PROVE CallInv(u, cs[i])'
  BY DEF ReaderInv, CallInv, StepKeeps, NamesVerb
<1>5. AloneInv(u, pg, cs)'
  <2>1. cs = <<>> \/ pg.selected # NoGame
    BY DEF ReaderInv
  <2> HIDE DEF old, new
  <2>2. AloneInv(u, pg, cs)
    BY DEF ReaderInv
  <2> QED
    BY <1>2, <2>1, <2>2 DEF AloneInv, old, new
<1>6. ASSUME pg.fresh PROVE FreshInv(u, pg, cs)'
  <2>1. /\ pg.selected # NoGame /\ pg.view.session = pg.selected /\ ByButton(pg, cs)
        /\ \A i \in DOMAIN cs : FreshCall(u, pg, cs[i])
        /\ pg.view.type \in AnswerTypes => AnswerForm(u, pg, cs)
        /\ pg.view.type \in AskTypes => AskForm(u, pg)
    BY <1>6 DEF ReaderInv, FreshInv
  <2>2. \A i \in DOMAIN cs : FreshCall(u, pg, cs[i])'
    BY <1>2, <2>1 DEF FreshCall, Allowed
  <2>3. pg.view.type \in AnswerTypes => AnswerForm(u, pg, cs)'
    BY <1>2, <2>1 DEF AnswerForm
  <2>4. pg.view.type \in AskTypes => AskForm(u, pg)'
    BY <1>2, <2>1 DEF AskForm, Allowed
  <2> QED
    BY <2>1, <2>2, <2>3, <2>4 DEF FreshInv, ByButton
<1> QED
  BY <1>1, <1>3, <1>4, <1>5, <1>6 DEF ReaderInv

-----------------------------------------------------------------------------
(* What the reader does to the form.                                       *)

(***************************************************************************)
(* A request of a page, as Call makes it.                                  *)
(***************************************************************************)
CallOf(c, pg, qtype, verb) ==
  /\ c \in CallRow
  /\ c.qtype = qtype /\ c.session = pg.selected /\ c.verb = verb /\ c.stage = "sent"
  /\ c.n = pg.view.n /\ (c.sure <=> OnForm(pg)) /\ ~c.alone

LEMMA CallType ==
  ASSUME NEW pg \in PageRow, pg.selected # NoGame,
         NEW qtype \in {"getmove", "enter", "mf", "ask"}, NEW verb \in Verbs \cup {NoVerb}
  PROVE  CallOf(Call(pg, qtype, verb), pg, qtype, verb)
<1>1. NoView \in ViewRow
  BY DEF NoView, ViewRow
<1>2. pg.view.n \in Nat
  BY DEF PageRow, ViewRow
<1>3. OnForm(pg) \in BOOLEAN
  BY DEF OnForm
<1> QED
  BY <1>1, <1>2, <1>3 DEF CallOf, Call, CallRow, PageRow

(***************************************************************************)
(* A request more on its way.                                              *)
(***************************************************************************)
OneMore(u, pg, cs, c, cs2) ==
  /\ cs2 \in Seq(CallRow)
  /\ Len(cs) \in Nat /\ Len(cs2) = Len(cs) + 1
  /\ \A i \in DOMAIN cs2 : CallInv(u, cs2[i])
  /\ AloneInv(u, pg, cs2)
  /\ (\A i \in DOMAIN cs : FreshCall(u, pg, cs[i])) /\ FreshCall(u, pg, c) =>
       \A i \in DOMAIN cs2 : FreshCall(u, pg, cs2[i])
  /\ \A i \in DOMAIN cs2 :
       cs2[i] = c \/ \E j \in DOMAIN cs : cs2[i].qtype = cs[j].qtype

LEMMA SentInv ==
  ASSUME NEW u, NEW cs \in Seq(CallRow), NEW c \in CallRow,
         \A i \in DOMAIN cs : CallInv(u, cs[i]),
         c.session \in SessionsOf(u), c.stage = "sent",
         NEW pg, c.alone => cs = <<>> /\ c.qtype = "getmove" /\ c.session = pg.selected,
         NEW cs2, cs2 = Sent(cs, c)
  PROVE  OneMore(u, pg, cs, c, cs2)
<1>1. /\ cs2 \in Seq(CallRow)
      /\ Len(cs) \in Nat /\ Len(cs2) = Len(cs) + 1
      /\ DOMAIN cs = 1 .. Len(cs) /\ DOMAIN cs2 = 1 .. Len(cs) + 1
      /\ cs2[Len(cs) + 1] = c
      /\ \A i \in DOMAIN cs : cs2[i] = NotAlone(cs[i])
  <2>1. SentFrom(cs2, cs, c)
    BY SentCalls, Zenon
  <2> QED
    BY <2>1 DEF SentFrom
<1>2. \A i \in DOMAIN cs : cs[i] \in CallRow
  BY <1>1, ElementOfSeq
<1>3. ASSUME NEW i \in DOMAIN cs
      PROVE  /\ cs2[i].session = cs[i].session /\ cs2[i].stage = cs[i].stage
             /\ cs2[i].sure = cs[i].sure /\ cs2[i].data = cs[i].data
             /\ cs2[i].qtype = cs[i].qtype /\ cs2[i].n = cs[i].n
             /\ cs2[i].verb = cs[i].verb /\ ~cs2[i].alone
  BY <1>1, <1>2 DEF CallRow, NotAlone
<1>4. ASSUME NEW i \in DOMAIN cs2 PROVE i \in DOMAIN cs \/ cs2[i] = c
  BY <1>1
<1>5. CallInv(u, c)
  BY DEF CallInv
<1>6. \A i \in DOMAIN cs2 : CallInv(u, cs2[i])
  BY <1>3, <1>4, <1>5 DEF CallInv
<1>7. AloneInv(u, pg, cs2)
  <2> SUFFICES ASSUME NEW i \in DOMAIN cs2, cs2[i].alone
               PROVE  /\ Len(cs2) = 1
                      /\ cs2[i].qtype = "getmove" /\ cs2[i].session = pg.selected
                      /\ cs2[i].stage = "sent"
    BY DEF AloneInv
  <2>1. cs2[i] = c
    BY <1>3, <1>4
  <2> QED
    BY <2>1, <1>1, EmptySeq
<1>8. ASSUME \A i \in DOMAIN cs : FreshCall(u, pg, cs[i]), FreshCall(u, pg, c)
      PROVE  \A i \in DOMAIN cs2 : FreshCall(u, pg, cs2[i])
  BY <1>3, <1>4, <1>8 DEF FreshCall
<1> QED
  BY <1>1, <1>3, <1>4, <1>6, <1>7, <1>8 DEF OneMore

(***************************************************************************)
(* A game is opened.                                                       *)
(***************************************************************************)
Opened(pg, s) == [pg EXCEPT !.selected = s, !.fresh = FALSE]

OpeningCall(s, alone) == [Opening(s) EXCEPT !.alone = alone]

LEMMA GetMovePage ==
  ASSUME NEW u \in Users, NEW pg \in PageRow, NEW cs \in Seq(CallRow), ReaderInv(u, pg, cs),
         NEW s \in SessionsOf(u), NEW pg2, NEW cs2, pg2 = Opened(pg, s),
         NEW c, c = OpeningCall(s, cs = <<>>), cs2 = Sent(cs, c)
  PROVE  pg2 \in PageRow /\ cs2 \in Seq(CallRow) /\ ReaderInv(u, pg2, cs2)
<1> USE ClientAssumption
<1> DEFINE new == [NewPage EXCEPT !.selected = s]
<1>1. s \in Sessions /\ s # NoGame
  BY DEF SessionsOf
<1>2. new \in PageRow /\ new.selected = s /\ ~OnForm(new)
  <2>1. NewPage \in PageRow /\ NewPage.button = "none"
    BY DEF NewPage, PageRow, NoView, ViewRow
  <2> QED
    BY <2>1, <1>1 DEF PageRow, OnForm
<1> HIDE DEF new
<1>3. Opening(s) = Call(new, "getmove", NoVerb)
  BY DEF Opening, new
<1>4. /\ Opening(s) \in CallRow /\ Opening(s).qtype = "getmove"
      /\ Opening(s).session = s /\ Opening(s).stage = "sent" /\ ~Opening(s).sure
  <2>1. CallOf(Opening(s), new, "getmove", NoVerb)
    BY <1>1, <1>2, <1>3, CallType
  <2> QED
    BY <2>1, <1>2 DEF CallOf
<1>5. /\ c \in CallRow /\ c.qtype = "getmove" /\ c.session = s /\ c.stage = "sent"
      /\ ~c.sure /\ (c.alone => cs = <<>>)
  BY <1>4 DEF CallRow, OpeningCall
<1>6. pg2 \in PageRow /\ pg2.selected = s /\ ~pg2.fresh /\ pg2.button = pg.button
      /\ pg2.timers = pg.timers /\ pg2.kept = pg.kept /\ pg2.mf = pg.mf
  BY <1>1 DEF PageRow, Opened
<1>7. FormInv(pg2)
  BY <1>1, <1>6 DEF FormInv, ReaderInv
<1>8. \A i \in DOMAIN cs : CallInv(u, cs[i])
  BY DEF ReaderInv
<1>9. /\ cs2 \in Seq(CallRow) /\ \A i \in DOMAIN cs2 : CallInv(u, cs2[i])
      /\ AloneInv(u, pg2, cs2)
  <2>1. /\ c.session \in SessionsOf(u)
        /\ c.alone => cs = <<>> /\ c.qtype = "getmove" /\ c.session = pg2.selected
    BY <1>5, <1>6
  <2>2. OneMore(u, pg2, cs, c, cs2)
    BY <2>1, <1>5, <1>8, SentInv, Zenon
  <2> QED
    BY <2>2 DEF OneMore
<1> QED
  BY <1>1, <1>6, <1>7, <1>9 DEF ReaderInv

(***************************************************************************)
(* A request other than "getmove" is sent from the form.                   *)
(***************************************************************************)
LEMMA SendInv ==
  ASSUME NEW u \in Users, NEW pg \in PageRow, NEW cs \in Seq(CallRow), ReaderInv(u, pg, cs),
         pg.selected # NoGame,
         NEW qtype \in {"enter", "mf", "ask"}, NEW verb \in Verbs \cup {NoVerb},
         NEW pg2 \in PageRow, pg2.selected = pg.selected,
         NEW c, c = Call(pg, qtype, verb), NEW cs2, cs2 = Sent(cs, c)
  PROVE  CallOf(c, pg, qtype, verb) /\ OneMore(u, pg2, cs, c, cs2)
<1>1. CallOf(c, pg, qtype, verb)
  BY CallType
<1>2. c \in CallRow /\ c.session \in SessionsOf(u) /\ c.stage = "sent" /\ ~c.alone
  BY <1>1 DEF CallOf, ReaderInv
<1>3. \A i \in DOMAIN cs : CallInv(u, cs[i])
  BY DEF ReaderInv
<1>4. OneMore(u, pg2, cs, c, cs2)
  BY <1>2, <1>3, SentInv, Zenon
<1> QED
  BY <1>1, <1>4

NoneOf(cs, qtype) == \A i \in DOMAIN cs : cs[i].qtype # qtype

WithFresh(pg, fresh) == [pg EXCEPT !.fresh = fresh]

LEMMA ClickedEnterType ==
  ASSUME NEW pg \in PageRow
  PROVE  /\ ClickedEnter(pg) \in PageRow
         /\ ClickedEnter(pg).selected = pg.selected /\ ClickedEnter(pg).button = "Loading"
         /\ ClickedEnter(pg).view = pg.view /\ ClickedEnter(pg).mf = pg.mf
         /\ ClickedEnter(pg).fresh = pg.fresh /\ ClickedEnter(pg).choosing = pg.choosing
<1>1. Stopped(pg.timers) \in 0 .. MaxTimers
  BY ClientAssumption DEF PageRow, Stopped
<1> QED
  BY <1>1 DEF ClickedEnter, PageRow

(***************************************************************************)
(* "Enter" is pressed.                                                     *)
(***************************************************************************)
LEMMA EnterPage ==
  ASSUME NEW u \in Users, NEW pg \in PageRow, NEW cs \in Seq(CallRow), ReaderInv(u, pg, cs),
         pg.button = "Enter", NEW fresh \in BOOLEAN,
         fresh => pg.fresh /\ NoneOf(cs, "mf"),
         NEW pg2, pg2 = WithFresh(ClickedEnter(pg), fresh),
         NEW c, c = Call(pg, "enter", NoVerb), NEW cs2, cs2 = Sent(cs, c)
  PROVE  pg2 \in PageRow /\ cs2 \in Seq(CallRow) /\ ReaderInv(u, pg2, cs2)
<1>1. /\ pg2 \in PageRow /\ pg2.selected = pg.selected /\ pg2.button = "Loading"
      /\ pg2.view = pg.view /\ pg2.mf = pg.mf /\ pg2.fresh = fresh
  <2> DEFINE p == ClickedEnter(pg)
  <2>1. /\ p \in PageRow /\ p.selected = pg.selected /\ p.button = "Loading"
        /\ p.view = pg.view /\ p.mf = pg.mf
    BY ClickedEnterType
  <2> HIDE DEF p
  <2> QED
    BY <2>1 DEF PageRow, WithFresh, p
<1>2. pg.selected # NoGame
  BY DEF ReaderInv, FormInv
<1>3. CallOf(c, pg, "enter", NoVerb) /\ OneMore(u, pg2, cs, c, cs2)
  BY <1>1, <1>2, SendInv, Zenon
<1>4. FormInv(pg2)
  BY <1>1, <1>2 DEF FormInv
<1>5. ASSUME pg2.fresh PROVE FreshInv(u, pg2, cs2)
  <2>1. FreshInv(u, pg, cs) /\ fresh
    BY <1>1, <1>5 DEF ReaderInv
  <2>2. cs = <<>>
    <3>1. \A i \in DOMAIN cs : FALSE
      BY <2>1 DEF FreshInv, ByButton, NoneOf
    <3> QED
      BY <3>1, NoCalls
  <2>3. DOMAIN cs = {} /\ Len(cs) = 0
    BY <2>2, EmptySeq
  <2>4. pg.view.type \in AnswerTypes => OpenFor(u, moves[pg.selected], pg.view.n)
    BY <2>1, <2>2 DEF FreshInv, AnswerForm
  <2>5. pg.view.type \notin AskTypes
    BY <2>1 DEF FreshInv, AskForm
  <2>6. FreshCall(u, pg2, c)
    BY <1>1, <1>3, <2>4 DEF FreshCall, CallOf, OnForm
  <2>7. Len(cs2) = 1 /\ \A i \in DOMAIN cs2 : cs2[i] = c /\ FreshCall(u, pg2, cs2[i])
    BY <1>3, <2>3, <2>6 DEF OneMore
  <2>8. ByButton(pg2, cs2)
    <3>1. c.qtype = "enter"
      BY <1>3 DEF CallOf
    <3>2. /\ pg2.button \notin {"none", "Go", "Continue"}
          /\ pg2.button \notin {"Ask", "Sent"}
      BY <1>1, <1>2
    <3>3. Len(cs2) <= 1
      BY <1>3, <2>3 DEF OneMore
    <3>4. \A i \in DOMAIN cs2 : cs2[i].qtype = c.qtype
      BY <2>7
    <3>5. pg2.button = "Enter" => c.qtype = "mf" /\ ~pg2.mf
      BY <1>1, <3>1
    <3>6. pg2.button = "Loading" => c.qtype = "enter" \/ (c.qtype = "mf" /\ ~pg2.mf)
      BY <1>1, <3>1
    <3> QED
      BY <3>2, <3>3, <3>4, <3>5, <3>6 DEF ByButton
  <2> QED
    BY <1>1, <2>1, <2>5, <2>7, <2>8 DEF FreshInv, AnswerForm
<1> QED
  BY <1>1, <1>2, <1>3, <1>4, <1>5 DEF ReaderInv, OneMore

(***************************************************************************)
(* "Ask" is pressed, with a verb of the chooser or that of the form.       *)
(***************************************************************************)
LEMMA AskPage ==
  ASSUME NEW u \in Users, NEW pg \in PageRow, NEW cs \in Seq(CallRow), ReaderInv(u, pg, cs),
         pg.button = "Ask",
         NEW verb \in IF pg.choosing THEN ToSet(pg.options) \cup {NoVerb} ELSE {pg.verb},
         NEW c, c = Call(pg, "ask", verb), NEW cs2, cs2 = Sent(cs, c)
  PROVE  cs2 \in Seq(CallRow) /\ ReaderInv(u, pg, cs2)
<1>1. ToSet(pg.options) \subseteq Verbs /\ pg.verb \in Verbs \cup {NoVerb}
  BY DEF PageRow, ToSet
<1>2. pg.selected # NoGame /\ verb \in Verbs \cup {NoVerb}
  BY <1>1 DEF ReaderInv, FormInv
<1>3. CallOf(c, pg, "ask", verb) /\ OneMore(u, pg, cs, c, cs2)
  BY <1>2, SendInv, Zenon
<1>4. ASSUME pg.fresh PROVE FreshInv(u, pg, cs2)
  <2>1. FreshInv(u, pg, cs)
    BY <1>4 DEF ReaderInv
  <2>2. pg.view.type \notin AnswerTypes
    BY <2>1 DEF FreshInv, AnswerForm
  <2>3. pg.view.type \in AskTypes => Allowed(pg.view, verb)
    BY <2>1 DEF FreshInv, AskForm, Allowed
  <2>4. FreshCall(u, pg, c)
    BY <1>3, <2>2, <2>3 DEF FreshCall, CallOf, OnForm
  <2>5. \A i \in DOMAIN cs2 : FreshCall(u, pg, cs2[i])
    BY <1>3, <2>1, <2>4 DEF OneMore, FreshInv
  <2>6. \A i \in DOMAIN cs2 : cs2[i].qtype = "ask"
    BY <1>3, <2>1 DEF OneMore, FreshInv, ByButton, CallOf
  <2> QED
    BY <2>1, <2>2, <2>5, <2>6 DEF FreshInv, ByButton
<1> QED
  BY <1>2, <1>3, <1>4 DEF ReaderInv, OneMore

(***************************************************************************)
(* The button for multiple forms is pressed.                               *)
(***************************************************************************)
MfPressedOn(pg, fresh) == [pg EXCEPT !.mf = FALSE, !.fresh = fresh]

LEMMA MfPage ==
  ASSUME NEW u \in Users, NEW pg \in PageRow, NEW cs \in Seq(CallRow), ReaderInv(u, pg, cs),
         pg.mf, NEW fresh \in BOOLEAN,
         fresh => pg.fresh /\ NoneOf(cs, "enter"),
         NEW pg2, pg2 = MfPressedOn(pg, fresh),
         NEW c, c = Call(pg, "mf", NoVerb), NEW cs2, cs2 = Sent(cs, c)
  PROVE  pg2 \in PageRow /\ cs2 \in Seq(CallRow) /\ ReaderInv(u, pg2, cs2)
<1>1. /\ pg2 \in PageRow /\ pg2.selected = pg.selected /\ pg2.button = pg.button
      /\ pg2.view = pg.view /\ ~pg2.mf /\ pg2.fresh = fresh
      /\ pg2.timers = pg.timers /\ pg2.kept = pg.kept
  BY DEF PageRow, MfPressedOn
<1>2. pg.button \in {"Enter", "Loading"} /\ pg.selected # NoGame
  BY DEF ReaderInv, FormInv
<1>3. CallOf(c, pg, "mf", NoVerb) /\ OneMore(u, pg2, cs, c, cs2)
  BY <1>1, <1>2, SendInv, Zenon
<1>4. FormInv(pg2)
  BY <1>1, <1>2 DEF FormInv, ReaderInv
<1>5. ASSUME pg2.fresh PROVE FreshInv(u, pg2, cs2)
  <2>1. FreshInv(u, pg, cs) /\ fresh
    BY <1>1, <1>5 DEF ReaderInv
  <2>2. cs = <<>>
    <3>1. \A i \in DOMAIN cs : FALSE
      BY <1>2, <2>1 DEF FreshInv, ByButton, NoneOf
    <3> QED
      BY <3>1, NoCalls
  <2>3. DOMAIN cs = {} /\ Len(cs) = 0
    BY <2>2, EmptySeq
  <2>4. pg.view.type \in AnswerTypes /\ pg.button = "Enter" =>
          OpenFor(u, moves[pg.selected], pg.view.n)
    BY <2>1, <2>2 DEF FreshInv, AnswerForm
  <2>5. pg.view.type \notin AskTypes
    BY <1>2, <2>1 DEF FreshInv, AskForm
  <2>6. FreshCall(u, pg2, c)
    BY <1>1, <1>2, <1>3, <2>4 DEF FreshCall, CallOf, OnForm
  <2>7. Len(cs2) = 1 /\ \A i \in DOMAIN cs2 : cs2[i] = c /\ FreshCall(u, pg2, cs2[i])
    BY <1>3, <2>3, <2>6 DEF OneMore
  <2>8. ByButton(pg2, cs2)
    <3>1. c.qtype = "mf"
      BY <1>3 DEF CallOf
    <3>2. /\ pg2.button \notin {"none", "Go", "Continue"}
          /\ pg2.button \notin {"Ask", "Sent"}
      BY <1>1, <1>2
    <3>3. Len(cs2) <= 1
      BY <1>3, <2>3 DEF OneMore
    <3>4. \A i \in DOMAIN cs2 : cs2[i].qtype = c.qtype
      BY <2>7
    <3>5. pg2.button = "Enter" => c.qtype = "mf" /\ ~pg2.mf
      BY <1>1, <3>1
    <3>6. pg2.button = "Loading" => c.qtype = "enter" \/ (c.qtype = "mf" /\ ~pg2.mf)
      BY <1>1, <3>1
    <3> QED
      BY <3>2, <3>3, <3>4, <3>5, <3>6 DEF ByButton
  <2>9. cs2 # <<>>
    BY <2>7, EmptySeq
  <2> QED
    BY <1>1, <1>2, <2>1, <2>5, <2>7, <2>8, <2>9 DEF FreshInv, AnswerForm
<1> QED
  BY <1>1, <1>2, <1>3, <1>4, <1>5 DEF ReaderInv, OneMore

(***************************************************************************)
(* A countdown that runs out on a form other than the one to answer.       *)
(***************************************************************************)
CountedDown(pg) == [pg EXCEPT !.timers = IF pg.button = "Enter" THEN @ ELSE @ - 1]

LEMMA CountedDownPage ==
  ASSUME NEW u \in Users, NEW pg \in PageRow, NEW cs \in Seq(CallRow), ReaderInv(u, pg, cs),
         pg.timers > 0, NEW pg2, pg2 = CountedDown(pg)
  PROVE  /\ pg2 \in PageRow /\ ReaderInv(u, pg2, cs)
         /\ pg2.button = pg.button /\ pg2.fresh = pg.fresh
<1>1. pg2 \in PageRow /\ pg2.timers = IF pg.button = "Enter" THEN pg.timers ELSE pg.timers - 1
  <2> DEFINE t == IF pg.button = "Enter" THEN pg.timers ELSE pg.timers - 1
  <2>1. t \in 0 .. MaxTimers
    BY ClientAssumption DEF PageRow
  <2>2. pg2 = [pg EXCEPT !.timers = t]
    BY DEF CountedDown
  <2> HIDE DEF t
  <2>3. pg2 \in PageRow /\ pg2.timers = t
    BY <2>1, <2>2 DEF PageRow
  <2> QED
    BY <2>3 DEF t
<1>2. /\ pg2.selected = pg.selected /\ pg2.button = pg.button /\ pg2.mf = pg.mf
      /\ pg2.view = pg.view /\ pg2.kept = pg.kept /\ pg2.options = pg.options
      /\ pg2.choosing = pg.choosing /\ pg2.verb = pg.verb /\ pg2.fresh = pg.fresh
  BY DEF PageRow, CountedDown
<1>3. FormInv(pg2)
  BY <1>1, <1>2 DEF ReaderInv, FormInv
<1>4. AloneInv(u, pg2, cs)
  BY <1>2 DEF ReaderInv, AloneInv
<1>5. ASSUME pg2.fresh PROVE FreshInv(u, pg2, cs)
  <2>1. FreshInv(u, pg, cs)
    BY <1>2, <1>5 DEF ReaderInv
  <2>2. ByButton(pg2, cs)
    BY <1>2, <2>1 DEF FreshInv, ByButton
  <2>3. \A i \in DOMAIN cs : FreshCall(u, pg2, cs[i])
    BY <1>2, <2>1 DEF FreshInv, FreshCall
  <2>4. pg2.view.type \in AnswerTypes => AnswerForm(u, pg2, cs)
    BY <1>2, <2>1 DEF FreshInv, AnswerForm
  <2>5. pg2.view.type \in AskTypes => AskForm(u, pg2)
    BY <1>2, <2>1 DEF FreshInv, AskForm
  <2> QED
    BY <1>2, <2>1, <2>2, <2>3, <2>4, <2>5 DEF FreshInv
<1> QED
  BY <1>1, <1>2, <1>3, <1>4, <1>5 DEF ReaderInv

(***************************************************************************)
(* The form to ask, for a view that tells the reader to: it only offers    *)
(* what the view allows.                                                   *)
(***************************************************************************)
AskFormFor(pg2, pg, d) ==
  /\ pg2 \in PageRow
  /\ pg2.button = "Ask" /\ ~pg2.mf
  /\ pg2.selected = pg.selected /\ pg2.view = pg.view /\ pg2.fresh = pg.fresh
  /\ pg2.choosing => \A verb \in ToSet(pg2.options) : Allowed(d, verb)
  /\ ~pg2.choosing => Allowed(d, pg2.verb)

LEMMA ParamsType ==
  ASSUME NEW pg \in PageRow, NEW verb \in Verbs, NEW pg2, pg2 = SetParamsDropdowns(pg, verb)
  PROVE  /\ pg2 \in PageRow
         /\ pg2.button = pg.button /\ pg2.mf = pg.mf /\ pg2.timers = pg.timers
         /\ pg2.selected = pg.selected /\ pg2.view = pg.view /\ pg2.fresh = pg.fresh
         /\ pg2.verb \in {verb, NoVerb}
<1> DEFINE options == IF verb >= Len(pg.options) THEN Append(pg.options, verb) ELSE pg.options
           value == IF verb \in ToSet(options) THEN verb ELSE NoVerb
<1>1. pg.options \in Seq(Verbs)
  BY DEF PageRow
<1>2. options \in Seq(Verbs)
  BY <1>1, AppendProperties
<1>3. value \in {verb, NoVerb}
  OBVIOUS
<1>4. pg2 = [pg EXCEPT !.options = options, !.verb = value]
  BY DEF SetParamsDropdowns
<1> HIDE DEF options, value
<1>5. value \in Verbs \cup {NoVerb}
  BY <1>3
<1>6. /\ pg2 \in PageRow /\ pg2.verb = value
      /\ pg2.button = pg.button /\ pg2.mf = pg.mf /\ pg2.timers = pg.timers
      /\ pg2.selected = pg.selected /\ pg2.view = pg.view /\ pg2.fresh = pg.fresh
  BY <1>2, <1>4, <1>5 DEF PageRow
<1> QED
  BY <1>3, <1>6

LEMMA AskForm2Type ==
  ASSUME NEW pg \in PageRow, NEW d \in ViewRow, d.type \in AskTypes, NamesVerb(d)
  PROVE  AskFormFor(AskForm2(pg, d), pg, d)
<1> DEFINE form == [pg EXCEPT !.button = "Ask", !.enabled = TRUE, !.mf = FALSE, !.kept = NoView]
<1>1. NoView \in ViewRow
  BY DEF NoView, ViewRow
<1>2. /\ form \in PageRow /\ form.button = "Ask" /\ ~form.mf
      /\ form.selected = pg.selected /\ form.view = pg.view /\ form.fresh = pg.fresh
  BY <1>1 DEF PageRow
<1>3. AskForm2(pg, d) =
        IF d.type = "FirstMoveMyTurn"
          THEN [form EXCEPT !.options = SetToSeq(d.offered), !.verb = NoVerb, !.choosing = TRUE]
          ELSE [SetParamsDropdowns(form, d.verb) EXCEPT !.choosing = FALSE]
  BY DEF AskForm2
<1> HIDE DEF form
<1>4. CASE d.type = "FirstMoveMyTurn"
  <2> DEFINE options == SetToSeq(d.offered)
             pg2 == [form EXCEPT !.options = options, !.verb = NoVerb, !.choosing = TRUE]
  <2>1. d.offered \subseteq Verbs /\ IsFiniteSet(d.offered)
    BY ClientAssumption, FS_Subset DEF ViewRow
  <2>2. options \in Seq(d.offered) /\ ToSet(options) \subseteq d.offered
    BY <2>1, SetToSeqLists
  <2>3. options \in Seq(Verbs)
    BY <2>1, <2>2
  <2> HIDE DEF options
  <2>4. /\ pg2 \in PageRow /\ pg2.button = "Ask" /\ ~pg2.mf
        /\ pg2.selected = pg.selected /\ pg2.view = pg.view /\ pg2.fresh = pg.fresh
        /\ pg2.choosing /\ pg2.options = options
    BY <1>2, <2>3 DEF PageRow
  <2>5. \A verb \in ToSet(options) : Allowed(d, verb)
    BY <1>4, <2>2 DEF Allowed
  <2>6. AskForm2(pg, d) = pg2
    BY <1>3, <1>4 DEF options
  <2> HIDE DEF pg2
  <2> QED
    BY <2>4, <2>5, <2>6 DEF AskFormFor
<1>5. CASE d.type # "FirstMoveMyTurn"
  <2> DEFINE set == SetParamsDropdowns(form, d.verb)
             pg2 == [set EXCEPT !.choosing = FALSE]
  <2>1. d.type = "AskMyTurn" /\ d.verb \in Verbs
    BY <1>5 DEF AskTypes, NamesVerb
  <2>2. /\ set \in PageRow
        /\ set.button = form.button /\ set.mf = form.mf
        /\ set.selected = form.selected /\ set.view = form.view /\ set.fresh = form.fresh
        /\ set.verb \in {d.verb, NoVerb}
    BY <1>2, <2>1, ParamsType
  <2> HIDE DEF set
  <2>3. /\ pg2 \in PageRow /\ pg2.button = "Ask" /\ ~pg2.mf
        /\ pg2.selected = pg.selected /\ pg2.view = pg.view /\ pg2.fresh = pg.fresh
        /\ ~pg2.choosing /\ pg2.verb \in {d.verb, NoVerb}
    BY <1>2, <2>2 DEF PageRow
  <2>4. AskForm2(pg, d) = pg2
    BY <1>3, <1>5 DEF set
  <2> HIDE DEF pg2
  <2> QED
    BY <2>1, <2>3, <2>4 DEF AskFormFor, Allowed
<1> QED
  BY <1>4, <1>5

(***************************************************************************)
(* "Continue" is pressed: the ask form is for what the form said.          *)
(***************************************************************************)
LEMMA ContinuePage ==
  ASSUME NEW u \in Users, NEW pg \in PageRow, NEW cs \in Seq(CallRow), ReaderInv(u, pg, cs),
         pg.button = "Continue", NEW pg2, pg2 = AskForm2(pg, pg.kept)
  PROVE  pg2 \in PageRow /\ ReaderInv(u, pg2, cs)
<1>1. /\ pg.kept \in ViewRow /\ pg.kept.type \in AskTypes /\ NamesVerb(pg.kept)
      /\ pg.selected # NoGame
  BY DEF PageRow, ReaderInv, FormInv
<1>2. AskFormFor(pg2, pg, pg.kept)
  BY <1>1, AskForm2Type
<1>3. /\ pg2 \in PageRow /\ pg2.button = "Ask" /\ ~pg2.mf
      /\ pg2.selected = pg.selected /\ pg2.view = pg.view /\ pg2.fresh = pg.fresh
  BY <1>2 DEF AskFormFor
<1>4. FormInv(pg2)
  BY <1>1, <1>3 DEF FormInv
<1>5. AloneInv(u, pg2, cs)
  BY <1>3 DEF ReaderInv, AloneInv
<1>6. ASSUME pg2.fresh PROVE FreshInv(u, pg2, cs)
  <2>1. FreshInv(u, pg, cs)
    BY <1>3, <1>6 DEF ReaderInv
  <2>2. cs = <<>> /\ DOMAIN cs = {}
    BY <2>1, EmptySeq DEF FreshInv, ByButton
  <2>3. pg.view.type \notin AnswerTypes
    BY <2>1 DEF FreshInv, AnswerForm
  <2>4. pg.view.type \in AskTypes => AskFor(u, moves[pg.selected], pg.view) /\ pg.kept = pg.view
    BY <2>1 DEF FreshInv, AskForm
  <2>5. pg2.view.type \in AskTypes => AskForm(u, pg2)
    BY <1>2, <1>3, <2>4 DEF AskForm, AskFormFor
  <2>6. ByButton(pg2, cs)
    BY <1>3, <2>2 DEF ByButton
  <2> QED
    BY <1>1, <1>3, <2>1, <2>2, <2>3, <2>5, <2>6 DEF FreshInv
<1> QED
  BY <1>1, <1>3, <1>4, <1>5, <1>6 DEF ReaderInv

(***************************************************************************)
(* "Go" is pressed: the question is shown and its time starts.             *)
(***************************************************************************)
LEMMA GoPage ==
  ASSUME NEW u \in Users, NEW pg \in PageRow, NEW cs \in Seq(CallRow), ReaderInv(u, pg, cs),
         pg.button = "Go", pg.timers < MaxTimers, NEW pg2, pg2 = GoForm(pg)
  PROVE  pg2 \in PageRow /\ ReaderInv(u, pg2, cs)
<1>1. pg.timers \in 0 .. MaxTimers /\ MaxTimers \in Nat
  BY ClientAssumption DEF PageRow
<1>2. pg.timers + 1 \in 0 .. MaxTimers /\ pg.timers + 1 > 0
  BY <1>1
<1>3. /\ pg2 \in PageRow /\ pg2.button = "Enter" /\ pg2.mf /\ pg2.timers > 0
      /\ pg2.selected = pg.selected /\ pg2.view = pg.view /\ pg2.fresh = pg.fresh
  <2> DEFINE t == pg.timers + 1
  <2>1. t \in 0 .. MaxTimers /\ t > 0
    BY <1>2
  <2>2. pg2 = [pg EXCEPT !.button = "Enter", !.enabled = TRUE, !.mf = TRUE,
                         !.timers = t, !.choosing = FALSE]
    BY DEF GoForm
  <2> HIDE DEF t
  <2>3. /\ pg2 \in PageRow /\ pg2.button = "Enter" /\ pg2.mf /\ pg2.timers = t
        /\ pg2.selected = pg.selected /\ pg2.view = pg.view /\ pg2.fresh = pg.fresh
    BY <2>1, <2>2 DEF PageRow
  <2> QED
    BY <2>1, <2>3
<1>4. pg.selected # NoGame
  BY DEF ReaderInv, FormInv
<1>5. FormInv(pg2)
  BY <1>3, <1>4 DEF FormInv
<1>6. AloneInv(u, pg2, cs)
  BY <1>3 DEF ReaderInv, AloneInv
<1>7. ASSUME pg2.fresh PROVE FreshInv(u, pg2, cs)
  <2>1. FreshInv(u, pg, cs)
    BY <1>3, <1>7 DEF ReaderInv
  <2>2. cs = <<>> /\ DOMAIN cs = {} /\ Len(cs) = 0
    BY <2>1, EmptySeq DEF FreshInv, ByButton
  <2>3. pg.view.type \notin AskTypes
    BY <2>1 DEF FreshInv, AskForm
  <2>4. pg2.view.type \in AnswerTypes => AnswerForm(u, pg2, cs)
    BY <1>3, <2>1, <2>2 DEF FreshInv, AnswerForm
  <2>5. ByButton(pg2, cs)
    BY <1>3, <2>2 DEF ByButton
  <2> QED
    BY <1>3, <1>4, <2>1, <2>2, <2>3, <2>4, <2>5 DEF FreshInv
<1> QED
  BY <1>3, <1>4, <1>5, <1>6, <1>7 DEF ReaderInv

-----------------------------------------------------------------------------
(* What answers do to the form.                                            *)

(***************************************************************************)
(* A request less on its way: none is alone any more.                      *)
(***************************************************************************)
OneLess(u, pg, cs, k, cs2) ==
  /\ cs2 \in Seq(CallRow)
  /\ \A i \in DOMAIN cs2 : CallInv(u, cs2[i])
  /\ AloneInv(u, pg, cs2)
  /\ \A i \in DOMAIN cs2 : \E j \in DOMAIN cs : cs2[i] = cs[j]
  /\ Len(cs) \in Nat \ {0} /\ Len(cs2) = Len(cs) - 1
  /\ Len(cs) <= 1 => cs2 = <<>>

LEMMA RemovedInv ==
  ASSUME NEW u \in Users, NEW pg, NEW cs \in Seq(CallRow), ReaderInv(u, pg, cs),
         NEW k \in DOMAIN cs, NEW cs2, cs2 = RemoveAt(cs, k), NEW pg2
  PROVE  OneLess(u, pg2, cs, k, cs2)
<1>1. /\ cs2 \in Seq(CallRow)
      /\ Len(cs2) = Len(cs) - 1
      /\ \A i \in DOMAIN cs2 : \E j \in DOMAIN cs : j # k /\ cs2[i] = cs[j]
      /\ Len(cs) = 1 => cs2 = <<>>
  <2>1. RemovedFrom(cs2, cs, k)
    BY RemovedCall, Zenon
  <2> QED
    BY <2>1 DEF RemovedFrom
<1>2. Len(cs) \in Nat \ {0}
  BY LenProperties
<1>3. \A i \in DOMAIN cs2 : CallInv(u, cs2[i])
  BY <1>1 DEF ReaderInv
<1>4. \A i \in DOMAIN cs2 : ~cs2[i].alone
  <2>1. ASSUME NEW i \in DOMAIN cs2, cs2[i].alone PROVE FALSE
    <3>1. Len(cs) = 1
      BY <1>1, <2>1 DEF ReaderInv, AloneInv
    <3> QED
      BY <1>1, <2>1, <3>1, EmptySeq
  <2> QED
    BY <2>1
<1>5. AloneInv(u, pg2, cs2)
  BY <1>4 DEF AloneInv
<1> QED
  BY <1>1, <1>2, <1>3, <1>5 DEF OneLess

(***************************************************************************)
(* A request fails.                                                        *)
(***************************************************************************)
LEMMA FailPage ==
  ASSUME NEW u \in Users, NEW pg \in PageRow, NEW cs \in Seq(CallRow), ReaderInv(u, pg, cs),
         NEW k \in DOMAIN cs, NEW cs2, cs2 = RemoveAt(cs, k),
         NEW fresh \in BOOLEAN,
         fresh => pg.fresh, fresh => cs[k].qtype # "mf" \/ cs[k].stage # "done",
         NEW pg2, pg2 = WithFresh(pg, fresh)
  PROVE  pg2 \in PageRow /\ cs2 \in Seq(CallRow) /\ ReaderInv(u, pg2, cs2)
<1>1. /\ pg2 \in PageRow /\ pg2.fresh = fresh
      /\ pg2.selected = pg.selected /\ pg2.button = pg.button /\ pg2.mf = pg.mf
      /\ pg2.timers = pg.timers
      /\ pg2.view = pg.view /\ pg2.kept = pg.kept /\ pg2.options = pg.options
      /\ pg2.choosing = pg.choosing /\ pg2.verb = pg.verb
  BY DEF PageRow, WithFresh
<1>2. OneLess(u, pg2, cs, k, cs2)
  BY RemovedInv, Zenon
<1>3. pg.selected # NoGame
  <2>1. cs # <<>>
    BY EmptySeq
  <2> QED
    BY <2>1 DEF ReaderInv
<1>4. FormInv(pg2)
  BY <1>1 DEF ReaderInv, FormInv
<1>5. ASSUME pg2.fresh PROVE FreshInv(u, pg2, cs2)
  <2>1. FreshInv(u, pg, cs)
    BY <1>1, <1>5 DEF ReaderInv
  <2>2. pg.button \notin {"none", "Go", "Continue"}
    BY <2>1, EmptySeq DEF FreshInv, ByButton
  <2>3. \A i \in DOMAIN cs2 : \E j \in DOMAIN cs : cs2[i] = cs[j]
    BY <1>2 DEF OneLess
  <2>4. pg2.button \in {"Enter", "Loading"} => Len(cs2) <= 1
    BY <1>1, <1>2, <2>1 DEF OneLess, FreshInv, ByButton
  <2>5. ByButton(pg2, cs2)
    BY <1>1, <2>1, <2>2, <2>3, <2>4 DEF FreshInv, ByButton
  <2>6. \A i \in DOMAIN cs2 : FreshCall(u, pg2, cs2[i])
    BY <1>1, <2>1, <2>3 DEF FreshInv, FreshCall
  <2>7. pg.view.type \in AnswerTypes /\ pg.button = "Enter" =>
          OpenFor(u, moves[pg.selected], pg.view.n)
    <3>1. pg.button = "Enter" =>
            cs[k].qtype = "mf" /\ cs[k].stage # "done" /\ cs[k] \in CallRow
      BY <1>1, <1>5, <2>1, ElementOfSeq DEF FreshInv, ByButton
    <3>2. pg.button = "Enter" => cs[k].stage = "sent"
      BY <3>1 DEF CallRow
    <3> QED
      BY <2>1, <3>1, <3>2 DEF FreshInv, FreshCall
  <2>8. pg2.view.type \in AnswerTypes => AnswerForm(u, pg2, cs2)
    BY <1>1, <2>1, <2>2, <2>7 DEF FreshInv, AnswerForm
  <2>9. pg2.view.type \in AskTypes => AskForm(u, pg2)
    BY <1>1, <2>1 DEF FreshInv, AskForm
  <2> QED
    BY <1>1, <2>1, <2>5, <2>6, <2>8, <2>9 DEF FreshInv
<1> QED
  BY <1>1, <1>2, <1>3, <1>4, <1>5 DEF ReaderInv, OneLess

(***************************************************************************)
(* The answer to "ask": the form says "Sent".                              *)
(***************************************************************************)
LEMMA AskReply ==
  ASSUME NEW u \in Users, NEW pg \in PageRow, NEW cs \in Seq(CallRow), ReaderInv(u, pg, cs),
         NEW k \in DOMAIN cs, cs[k].qtype = "ask", NEW cs2, cs2 = RemoveAt(cs, k),
         NEW pg2, pg2 = AskResponse(pg)
  PROVE  pg2 \in PageRow /\ cs2 \in Seq(CallRow) /\ ReaderInv(u, pg2, cs2)
<1>1. /\ pg2 \in PageRow /\ pg2.fresh = pg.fresh
      /\ pg2.selected = pg.selected /\ pg2.button = "Sent" /\ ~pg2.mf
      /\ pg2.view = pg.view
  BY DEF PageRow, AskResponse
<1>2. OneLess(u, pg2, cs, k, cs2)
  BY RemovedInv, Zenon
<1>3. pg.selected # NoGame
  <2>1. cs # <<>>
    BY EmptySeq
  <2> QED
    BY <2>1 DEF ReaderInv
<1>4. FormInv(pg2)
  BY <1>1, <1>3 DEF FormInv
<1>5. ASSUME pg2.fresh PROVE FreshInv(u, pg2, cs2)
  <2>1. FreshInv(u, pg, cs)
    BY <1>1, <1>5 DEF ReaderInv
  <2>2. pg.button \in {"Ask", "Sent"}
    <3>1. pg.button \notin {"none", "Go", "Continue"}
      BY <2>1, EmptySeq DEF FreshInv, ByButton
    <3>2. pg.button \notin {"Enter", "Loading"}
      BY <2>1 DEF FreshInv, ByButton
    <3> QED
      BY <3>1, <3>2 DEF PageRow
  <2>3. \A i \in DOMAIN cs2 : \E j \in DOMAIN cs : cs2[i] = cs[j]
    BY <1>2 DEF OneLess
  <2>4. ByButton(pg2, cs2)
    BY <1>1, <2>1, <2>2, <2>3 DEF FreshInv, ByButton
  <2>5. \A i \in DOMAIN cs2 : FreshCall(u, pg2, cs2[i])
    BY <1>1, <2>1, <2>3 DEF FreshInv, FreshCall
  <2>6. pg.view.type \notin AnswerTypes
    BY <2>1, <2>2 DEF FreshInv, AnswerForm
  <2>7. pg2.view.type \in AskTypes => AskForm(u, pg2)
    BY <1>1, <2>1 DEF FreshInv, AskForm
  <2> QED
    BY <1>1, <2>1, <2>4, <2>5, <2>6, <2>7 DEF FreshInv
<1> QED
  BY <1>1, <1>2, <1>3, <1>4, <1>5 DEF ReaderInv, OneLess

(***************************************************************************)
(* The answer to "enter" or "mf", for a page that may have ended its       *)
(* countdown before.                                                       *)
(***************************************************************************)
LEMMA ResponseType ==
  ASSUME NEW pg \in PageRow, NEW d \in ViewRow, NEW pg2, pg2 = AnswerResponseReceived(pg, d)
  PROVE  /\ pg2 \in PageRow /\ ~pg2.mf /\ pg2.view = d
         /\ pg2.selected = pg.selected /\ pg2.fresh = pg.fresh
         /\ pg2.button = IF d.type = "Practice" THEN "Go" ELSE "Continue"
         /\ d.type # "Practice" => pg2.kept = d
<1> DEFINE shown == [pg EXCEPT !.view = d]
<1>1. NoView \in ViewRow
  BY DEF NoView, ViewRow
<1>2. /\ shown \in PageRow /\ shown.view = d
      /\ shown.selected = pg.selected /\ shown.fresh = pg.fresh
  BY DEF PageRow
<1>3. AnswerResponseReceived(pg, d) =
        IF d.type = "Practice" THEN [GoButton(shown) EXCEPT !.choosing = pg.choosing]
        ELSE ContinueButton(shown, d)
  BY DEF AnswerResponseReceived
<1> HIDE DEF shown
<1>4. CASE d.type = "Practice"
  <2> DEFINE go == GoButton(shown)
  <2>1. /\ go \in PageRow /\ ~go.mf /\ go.view = d /\ go.button = "Go"
        /\ go.selected = pg.selected /\ go.fresh = pg.fresh
    BY <1>1, <1>2 DEF GoButton, PageRow
  <2>2. pg.choosing \in BOOLEAN
    BY DEF PageRow
  <2>3. pg2 = [go EXCEPT !.choosing = pg.choosing]
    BY <1>3, <1>4
  <2> HIDE DEF go
  <2> QED
    BY <1>4, <2>1, <2>2, <2>3 DEF PageRow
<1>5. CASE d.type # "Practice"
  <2>1. pg2 = ContinueButton(shown, d)
    BY <1>3, <1>5
  <2> QED
    BY <1>2, <1>5, <2>1 DEF ContinueButton, PageRow
<1> QED
  BY <1>4, <1>5

LEMMA AnswerReply ==
  ASSUME NEW u \in Users, NEW pg \in PageRow, NEW cs \in Seq(CallRow), ReaderInv(u, pg, cs),
         NEW k \in DOMAIN cs, cs[k].qtype \in {"enter", "mf"}, cs[k].stage = "done",
         NEW cs2, cs2 = RemoveAt(cs, k),
         NEW pg1 \in PageRow, pg1.selected = pg.selected, pg1.fresh = pg.fresh,
         NEW pg2, pg2 = AnswerResponseReceived(pg1, cs[k].data)
  PROVE  pg2 \in PageRow /\ cs2 \in Seq(CallRow) /\ ReaderInv(u, pg2, cs2)
<1> DEFINE d == cs[k].data
<1>1. /\ d \in ViewRow /\ d.type \in AskTypes \cup {"Practice"} /\ NamesVerb(d)
  <2>1. cs[k] \in CallRow
    BY ElementOfSeq
  <2> QED
    BY <2>1 DEF CallRow, ReaderInv, CallInv
<1>2. /\ pg2 \in PageRow /\ ~pg2.mf /\ pg2.view = d
      /\ pg2.selected = pg.selected /\ pg2.fresh = pg.fresh
      /\ pg2.button = IF d.type = "Practice" THEN "Go" ELSE "Continue"
      /\ d.type # "Practice" => pg2.kept = d
  BY <1>1, ResponseType
<1> HIDE DEF d
<1>3. OneLess(u, pg2, cs, k, cs2)
  BY RemovedInv, Zenon
<1>4. pg.selected # NoGame
  <2>1. cs # <<>>
    BY EmptySeq
  <2> QED
    BY <2>1 DEF ReaderInv
<1>5. FormInv(pg2)
  BY <1>1, <1>2, <1>4 DEF FormInv
<1>6. ASSUME pg2.fresh PROVE FreshInv(u, pg2, cs2)
  <2>1. FreshInv(u, pg, cs)
    BY <1>2, <1>6 DEF ReaderInv
  <2>2. Len(cs) <= 1
    <3>1. pg.button \notin {"none", "Go", "Continue"}
      BY <2>1, EmptySeq DEF FreshInv, ByButton
    <3>2. pg.button \notin {"Ask", "Sent"}
      BY <2>1 DEF FreshInv, ByButton
    <3>3. pg.button \in {"Enter", "Loading"}
      BY <3>1, <3>2 DEF PageRow
    <3> QED
      BY <2>1, <3>3 DEF FreshInv, ByButton
  <2>3. cs2 = <<>> /\ DOMAIN cs2 = {} /\ Len(cs2) = 0
    BY <1>3, <2>2, EmptySeq DEF OneLess
  <2>4. d.session = pg.selected /\ Current(u, moves[pg.selected], d)
    BY <2>1 DEF FreshInv, FreshCall, d
  <2>5. d.type \in AnswerTypes => AnswerForm(u, pg2, cs2)
    BY <1>1, <1>2, <2>4 DEF AnswerForm, Current, AskTypes, AnswerTypes
  <2>6. d.type \in AskTypes => AskForm(u, pg2)
    BY <1>2, <2>4 DEF AskForm, Current, AskTypes
  <2>7. ByButton(pg2, cs2)
    BY <1>2, <2>3 DEF ByButton
  <2> QED
    BY <1>2, <1>4, <2>3, <2>4, <2>5, <2>6, <2>7 DEF FreshInv
<1> QED
  BY <1>2, <1>3, <1>4, <1>5, <1>6 DEF ReaderInv, OneLess

(***************************************************************************)
(* setUI, for the view of a game that was opened.                          *)
(***************************************************************************)
SetUpFor(pg2, pg, d) ==
  /\ pg2 \in PageRow /\ pg2.view = d /\ pg2.selected = pg.selected
  /\ d.type \in AnswerTypes => pg2.button = "Go" /\ ~pg2.mf
  /\ d.type = "FirstMoveMyTurn" =>
       /\ pg2.button = "Ask" /\ ~pg2.mf
       /\ pg2.choosing => \A verb \in ToSet(pg2.options) : Allowed(d, verb)
       /\ ~pg2.choosing => Allowed(d, pg2.verb)
  /\ d.type = "AskMyTurn" => pg2.button = "Continue" /\ ~pg2.mf /\ pg2.kept = d
  /\ d.type \in WaitTypes =>
       /\ pg2.button = pg.button /\ pg2.timers = pg.timers /\ pg2.kept = pg.kept
       /\ pg2.mf => pg.mf

LEMMA SetUIType ==
  ASSUME NEW pg \in PageRow, NEW d \in ViewRow, d.type # "none", NamesVerb(d)
  PROVE  SetUpFor(SetUI(pg, d), pg, d)
<1> DEFINE shown == [pg EXCEPT !.view = d]
<1>1. NoView \in ViewRow
  BY DEF NoView, ViewRow
<1>2. /\ shown \in PageRow /\ shown.view = d /\ shown.selected = pg.selected
      /\ shown.button = pg.button /\ shown.timers = pg.timers /\ shown.kept = pg.kept
      /\ shown.mf = pg.mf
  BY DEF PageRow
<1>3. SetUI(pg, d) =
        CASE d.type \in AnswerTypes -> GoButton(shown)
          [] d.type = "FirstMoveMyTurn" -> AskForm2(shown, d)
          [] d.type = "AskMyTurn" ->
               [ContinueButton(SetParamsDropdowns(shown, d.verb), d) EXCEPT !.choosing = FALSE]
          [] d.type = "AnswerTheirTurn" ->
               [shown EXCEPT !.enabled = FALSE, !.choosing = FALSE]
          [] d.type \in {"AskTheirTurn", "FirstMoveTheirTurn"} ->
               [shown EXCEPT !.enabled = FALSE, !.choosing = FALSE, !.mf = FALSE]
  BY DEF SetUI
<1> HIDE DEF shown
<1>4. CASE d.type \in AnswerTypes
  <2>1. SetUI(pg, d) = GoButton(shown)
    BY <1>3, <1>4 DEF AnswerTypes
  <2>2. /\ GoButton(shown) \in PageRow /\ GoButton(shown).view = d
        /\ GoButton(shown).selected = pg.selected
        /\ GoButton(shown).button = "Go" /\ ~GoButton(shown).mf
    BY <1>1, <1>2 DEF GoButton, PageRow
  <2> QED
    BY <1>4, <2>1, <2>2 DEF SetUpFor, AnswerTypes, WaitTypes
<1>5. CASE d.type = "FirstMoveMyTurn"
  <2>1. SetUI(pg, d) = AskForm2(shown, d)
    BY <1>3, <1>5 DEF AnswerTypes
  <2>2. AskFormFor(AskForm2(shown, d), shown, d)
    BY <1>2, <1>5, AskForm2Type DEF AskTypes
  <2> QED
    BY <1>2, <1>5, <2>1, <2>2 DEF SetUpFor, AskFormFor, AnswerTypes, WaitTypes
<1>6. CASE d.type = "AskMyTurn"
  <2> DEFINE set == SetParamsDropdowns(shown, d.verb)
             button == ContinueButton(set, d)
             pg2 == [button EXCEPT !.choosing = FALSE]
  <2>1. d.verb \in Verbs
    BY <1>6 DEF NamesVerb
  <2>2. set \in PageRow /\ set.view = d /\ set.selected = pg.selected
    BY <1>2, <2>1, ParamsType
  <2> HIDE DEF set
  <2>3. /\ button \in PageRow /\ button.view = d /\ button.selected = pg.selected
        /\ button.button = "Continue" /\ ~button.mf /\ button.kept = d
    BY <2>2 DEF ContinueButton, PageRow
  <2> HIDE DEF button
  <2>4. /\ pg2 \in PageRow /\ pg2.view = d /\ pg2.selected = pg.selected
        /\ pg2.button = "Continue" /\ ~pg2.mf /\ pg2.kept = d
    BY <2>3 DEF PageRow
  <2>5. SetUI(pg, d) = pg2
    BY <1>3, <1>6 DEF AnswerTypes, button, set
  <2> HIDE DEF pg2
  <2> QED
    BY <1>6, <2>4, <2>5 DEF SetUpFor, AnswerTypes, WaitTypes
<1>7. CASE d.type = "AnswerTheirTurn"
  <2> DEFINE pg2 == [shown EXCEPT !.enabled = FALSE, !.choosing = FALSE]
  <2>1. /\ pg2 \in PageRow /\ pg2.view = d /\ pg2.selected = pg.selected
        /\ pg2.button = pg.button /\ pg2.timers = pg.timers /\ pg2.kept = pg.kept
        /\ pg2.mf = pg.mf
    BY <1>2 DEF PageRow
  <2>2. SetUI(pg, d) = pg2
    BY <1>3, <1>7 DEF AnswerTypes
  <2> HIDE DEF pg2
  <2> QED
    BY <1>7, <2>1, <2>2 DEF SetUpFor, AnswerTypes, WaitTypes
<1>8. CASE d.type \in {"AskTheirTurn", "FirstMoveTheirTurn"}
  <2> DEFINE pg2 == [shown EXCEPT !.enabled = FALSE, !.choosing = FALSE, !.mf = FALSE]
  <2>1. /\ pg2 \in PageRow /\ pg2.view = d /\ pg2.selected = pg.selected
        /\ pg2.button = pg.button /\ pg2.timers = pg.timers /\ pg2.kept = pg.kept
        /\ ~pg2.mf
    BY <1>2 DEF PageRow
  <2>2. SetUI(pg, d) = pg2
    BY <1>3, <1>8 DEF AnswerTypes
  <2> HIDE DEF pg2
  <2> QED
    BY <1>8, <2>1, <2>2 DEF SetUpFor, AnswerTypes, WaitTypes
<1>9. /\ d.type \in AnswerTypes \cup AskTypes \cup WaitTypes
  BY DEF ViewRow
<1> QED
  BY <1>4, <1>5, <1>6, <1>7, <1>8, <1>9 DEF AskTypes, WaitTypes

(***************************************************************************)
(* The answer to "getmove": the page is fresh if it was alone.             *)
(***************************************************************************)
LEMMA GetMoveReply ==
  ASSUME NEW u \in Users, NEW pg \in PageRow, NEW cs \in Seq(CallRow), ReaderInv(u, pg, cs),
         NEW k \in DOMAIN cs, cs[k].qtype = "getmove", cs[k].stage = "done",
         NEW cs2, cs2 = RemoveAt(cs, k),
         NEW pg2, pg2 = WithFresh(SetUI(pg, cs[k].data), cs[k].alone)
  PROVE  pg2 \in PageRow /\ cs2 \in Seq(CallRow) /\ ReaderInv(u, pg2, cs2)
<1> DEFINE d == cs[k].data
           set == SetUI(pg, d)
<1>1. /\ d \in ViewRow /\ d.type # "none" /\ NamesVerb(d) /\ cs[k].alone \in BOOLEAN
  <2>1. cs[k] \in CallRow
    BY ElementOfSeq
  <2> QED
    BY <2>1 DEF CallRow, ReaderInv, CallInv
<1>2. SetUpFor(set, pg, d)
  BY <1>1, SetUIType
<1>3. pg2 = WithFresh(set, cs[k].alone)
  OBVIOUS
<1> HIDE DEF set
<1>4. /\ pg2 \in PageRow /\ pg2.view = set.view /\ pg2.fresh = cs[k].alone
      /\ pg2.selected = set.selected /\ pg2.button = set.button /\ pg2.mf = set.mf
      /\ pg2.timers = set.timers /\ pg2.kept = set.kept /\ pg2.options = set.options
      /\ pg2.choosing = set.choosing /\ pg2.verb = set.verb
  BY <1>1, <1>2, <1>3 DEF SetUpFor, PageRow, WithFresh
<1>5. SetUpFor(pg2, pg, d)
  BY <1>2, <1>4 DEF SetUpFor
<1>6. pg2.selected = pg.selected /\ pg2.view = d
  BY <1>5 DEF SetUpFor
<1> HIDE DEF d
<1>7. OneLess(u, pg2, cs, k, cs2)
  BY RemovedInv, Zenon
<1>8. pg.selected # NoGame
  <2>1. cs # <<>>
    BY EmptySeq
  <2> QED
    BY <2>1 DEF ReaderInv
<1>9. d.type \in AnswerTypes \cup AskTypes \cup WaitTypes
  BY <1>1 DEF ViewRow
<1>10. FormInv(pg2)
  <2>1. CASE d.type \in AnswerTypes
    BY <1>5, <1>6, <1>8, <2>1 DEF SetUpFor, FormInv
  <2>2. CASE d.type = "FirstMoveMyTurn"
    BY <1>5, <1>6, <1>8, <2>2 DEF SetUpFor, FormInv
  <2>3. CASE d.type = "AskMyTurn"
    BY <1>1, <1>5, <1>6, <1>8, <2>3 DEF SetUpFor, FormInv, AskTypes
  <2>4. CASE d.type \in WaitTypes
    BY <1>5, <1>6, <1>8, <2>4 DEF SetUpFor, FormInv, ReaderInv
  <2> QED
    BY <1>9, <2>1, <2>2, <2>3, <2>4 DEF AskTypes
<1>11. ASSUME pg2.fresh PROVE FreshInv(u, pg2, cs2)
  <2>1. /\ Len(cs) = 1
        /\ d.session = pg.selected
        /\ Current(u, moves[pg.selected], d)
    BY <1>4, <1>11 DEF ReaderInv, AloneInv, d
  <2>2. cs2 = <<>> /\ DOMAIN cs2 = {} /\ Len(cs2) = 0
    BY <1>7, <2>1, EmptySeq DEF OneLess
  <2>3. ByButton(pg2, cs2)
    BY <2>2 DEF ByButton
  <2>4. d.type \in AnswerTypes => AnswerForm(u, pg2, cs2)
    BY <1>5, <1>6, <2>1 DEF AnswerForm, Current, SetUpFor
  <2>5. d.type \in AskTypes => AskForm(u, pg2)
    BY <1>5, <1>6, <2>1 DEF AskForm, Current, SetUpFor, AskTypes
  <2> QED
    BY <1>6, <1>8, <2>1, <2>2, <2>3, <2>4, <2>5 DEF FreshInv
<1> QED
  BY <1>4, <1>6, <1>7, <1>8, <1>10, <1>11 DEF ReaderInv, OneLess

-----------------------------------------------------------------------------
(* What handlers do to the requests.                                       *)

Reply(c, d) ==
  [Opening(c.session) EXCEPT !.qtype = c.qtype, !.alone = c.alone, !.stage = "done", !.data = d]

RepliedTo(r, c, d) ==
  /\ r \in CallRow
  /\ r.qtype = c.qtype /\ r.session = c.session /\ r.alone = c.alone
  /\ r.stage = "done" /\ r.data = d /\ ~r.sure

LEMMA ReplyType ==
  ASSUME NEW c \in CallRow, NEW d \in ViewRow
  PROVE  RepliedTo(Reply(c, d), c, d)
<1> USE ClientAssumption
<1> DEFINE s == c.session
           new == [NewPage EXCEPT !.selected = s]
           open == Opening(s)
<1>1. s \in Sessions /\ s # NoGame
  BY DEF CallRow
<1>2. c.qtype \in {"getmove", "enter", "mf", "ask"} /\ c.alone \in BOOLEAN
  BY DEF CallRow
<1>3. open \in CallRow /\ open.session = s /\ ~open.sure
  <2>1. NewPage \in PageRow /\ NewPage.button = "none"
    BY DEF NewPage, PageRow, NoView, ViewRow
  <2>2. new \in PageRow /\ new.selected = s /\ ~OnForm(new)
    BY <2>1, <1>1 DEF PageRow, OnForm
  <2>3. open = Call(new, "getmove", NoVerb)
    BY DEF Opening
  <2> HIDE DEF new, open
  <2>4. CallOf(open, new, "getmove", NoVerb)
    BY <1>1, <2>2, <2>3, CallType
  <2> QED
    BY <2>2, <2>4 DEF CallOf
<1>4. Reply(c, d) = [open EXCEPT !.qtype = c.qtype, !.alone = c.alone, !.stage = "done",
                                 !.data = d]
  BY DEF Reply
<1> HIDE DEF open
<1> QED
  BY <1>2, <1>3, <1>4 DEF CallRow, RepliedTo

(***************************************************************************)
(* A handler that succeeds keeps the invariant of the page: its answer is  *)
(* true, and if it is one that decides the question, it is all that a      *)
(* fresh page had on its way.                                              *)
(***************************************************************************)
LEMMA HandledInv ==
  ASSUME NEW u \in Users, NEW pg \in PageRow, NEW cs \in Seq(CallRow), ReaderInv(u, pg, cs),
         NEW k \in DOMAIN cs, NEW c, c = cs[k], c.stage = "sent",
         NEW d \in ViewRow, NamesVerb(d),
         c.qtype # "ask" => /\ d.session = c.session /\ d.type # "none"
                            /\ Current(u, moves'[c.session], d),
         c.qtype \in {"enter", "mf"} => d.type \in AskTypes \cup {"Practice"},
         NEW X, StepKeeps(u, X), c.qtype \notin {"enter", "mf"} => X = {},
         NEW cs2, cs2 = [cs EXCEPT ![k] = Reply(c, d)]
  PROVE  cs2 \in Seq(CallRow) /\ ReaderInv(u, pg, cs2)'
<1> DEFINE r == Reply(c, d)
<1>1. /\ Len(cs) \in Nat /\ DOMAIN cs = 1 .. Len(cs) /\ cs \in [1 .. Len(cs) -> CallRow]
  BY LenProperties
<1>2. c \in CallRow
  BY <1>1
<1>3. RepliedTo(r, c, d)
  BY <1>2, ReplyType
<1>4. /\ r \in CallRow
      /\ r.qtype = c.qtype /\ r.session = c.session /\ r.alone = c.alone
      /\ r.stage = "done" /\ r.data = d /\ ~r.sure
  BY <1>3 DEF RepliedTo
<1> HIDE DEF r
<1>5. /\ cs2 \in [1 .. Len(cs) -> CallRow]
      /\ cs2[k] = r /\ \A i \in 1 .. Len(cs) : i # k => cs2[i] = cs[i]
  BY <1>1, <1>4 DEF r
<1>6. cs2 \in Seq(CallRow) /\ Len(cs2) = Len(cs) /\ DOMAIN cs2 = 1 .. Len(cs)
  BY <1>1, <1>5
<1>7. pg.selected # NoGame /\ cs2 # <<>>
  <2>1. cs # <<>>
    BY EmptySeq
  <2>2. Len(cs) # 0
    BY <1>1
  <2> QED
    BY <2>1, <2>2, <1>6, EmptySeq DEF ReaderInv
<1>8. /\ pg.selected \in SessionsOf(u)
      /\ pg.selected \in SessionsOf(u)'
      /\ X = {} => KeptFor(u, moves[pg.selected], moves'[pg.selected])
  BY <1>7 DEF ReaderInv, StepKeeps
<1>9. ASSUME NEW i \in DOMAIN cs2 PROVE CallInv(u, cs2[i])'
  <2>1. CASE i # k
    <3>1. CallInv(u, cs[i]) /\ cs2[i] = cs[i]
      BY <2>1, <1>1, <1>5, <1>6 DEF ReaderInv
    <3> QED
      BY <3>1 DEF CallInv, StepKeeps, NamesVerb
  <2>2. CASE i = k
    <3>1. c.session \in SessionsOf(u)
      BY DEF ReaderInv, CallInv
    <3>2. c.session \in SessionsOf(u)'
      BY <3>1 DEF StepKeeps
    <3>3. cs2[i] = r
      BY <2>2, <1>5
    <3> QED
      BY <3>2, <3>3, <1>4 DEF CallInv, NamesVerb
  <2> QED
    BY <2>1, <2>2
<1>10. \A i \in DOMAIN cs2 : i \in DOMAIN cs /\ cs2[i].qtype = cs[i].qtype
                              /\ cs2[i].alone = cs[i].alone /\ cs2[i].session = cs[i].session
  BY <1>1, <1>4, <1>5, <1>6
<1>11. AloneInv(u, pg, cs2)'
  <2> SUFFICES ASSUME NEW i \in DOMAIN cs2, cs2[i].alone
               PROVE  /\ Len(cs2) = 1
                      /\ cs2[i].qtype = "getmove" /\ cs2[i].session = pg.selected
                      /\ cs2[i].stage = "done" =>
                           /\ cs2[i].data.session = pg.selected
                           /\ cs2[i].data.type # "none"
                           /\ Current(u, moves'[pg.selected], cs2[i].data)
    BY DEF AloneInv
  <2>1. Len(cs) = 1 /\ cs[i].qtype = "getmove" /\ cs[i].session = pg.selected
    BY <1>10 DEF ReaderInv, AloneInv
  <2>2. i = k /\ cs2[i] = r
    BY <2>1, <1>1, <1>5, <1>6
  <2> QED
    BY <2>1, <2>2, <1>4, <1>6
<1>12. ASSUME pg.fresh PROVE FreshInv(u, pg, cs2)'
  <2>1. FreshInv(u, pg, cs)
    BY <1>12 DEF ReaderInv
  <2>2. c.qtype \in {"enter", "mf"} => Len(cs) <= 1
    <3> SUFFICES ASSUME c.qtype \in {"enter", "mf"} PROVE Len(cs) <= 1
      OBVIOUS
    <3>1. pg.button \notin {"none", "Go", "Continue"}
      BY <2>1, EmptySeq DEF FreshInv, ByButton
    <3>2. pg.button \notin {"Ask", "Sent"}
      BY <2>1 DEF FreshInv, ByButton
    <3>3. pg.button \in {"Enter", "Loading"}
      BY <3>1, <3>2 DEF PageRow
    <3> QED
      BY <2>1, <3>3 DEF FreshInv, ByButton
  <2>3. ByButton(pg, cs2)
    <3>1. pg.button \notin {"none", "Go", "Continue"}
      BY <2>1, EmptySeq DEF FreshInv, ByButton
    <3> QED
      BY <2>1, <3>1, <1>6, <1>10 DEF FreshInv, ByButton
  <2>4. ASSUME NEW i \in DOMAIN cs2 PROVE FreshCall(u, pg, cs2[i])'
    <3>1. CASE i = k
      <4>1. cs2[i] = r /\ c.session = pg.selected /\ c.qtype # "getmove"
        BY <3>1, <2>1, <1>5 DEF FreshInv, FreshCall
      <4> QED
        BY <4>1, <1>4 DEF FreshCall
    <3>2. CASE i # k
      <4>1. cs2[i] = cs[i] /\ FreshCall(u, pg, cs[i])
        BY <3>2, <2>1, <1>1, <1>5, <1>6 DEF FreshInv
      <4>2. X = {}
        BY <3>2, <2>2, <1>1, <1>6
      <4>3. /\ \A n : OpenFor(u, moves[pg.selected], n) => OpenFor(u, moves'[pg.selected], n)
            /\ \A e : Current(u, moves[pg.selected], e) => Current(u, moves'[pg.selected], e)
        BY <4>2, <1>8 DEF KeptFor, Current
      <4> QED
        BY <4>1, <4>3 DEF FreshCall, Allowed
    <3> QED
      BY <3>1, <3>2
  <2>5. pg.view.type \in AnswerTypes => AnswerForm(u, pg, cs2)'
    BY <1>7, <2>1 DEF FreshInv, AnswerForm
  <2>6. pg.view.type \in AskTypes => AskForm(u, pg)'
    <3> SUFFICES ASSUME pg.view.type \in AskTypes PROVE AskForm(u, pg)'
      OBVIOUS
    <3>1. AskForm(u, pg)
      BY <2>1 DEF FreshInv
    <3>2. c.qtype \notin {"enter", "mf"}
      BY <2>1, <3>1, EmptySeq DEF FreshInv, ByButton, AskForm
    <3>3. AskFor(u, moves'[pg.selected], pg.view)
      BY <3>1, <3>2, <1>8 DEF KeptFor, AskForm
    <3> QED
      BY <3>1, <3>3 DEF AskForm, Allowed
  <2> QED
    BY <1>7, <2>1, <2>3, <2>4, <2>5, <2>6 DEF FreshInv, ByButton
<1> QED
  BY <1>6, <1>7, <1>8, <1>9, <1>11, <1>12 DEF ReaderInv, FormInv, NamesVerb

-----------------------------------------------------------------------------
(* Steps of HcClient.                                                      *)

(***************************************************************************)
(* One reader's page, requests or both change, and what is true for the    *)
(* others is kept.                                                         *)
(***************************************************************************)
LEMMA ReaderStep ==
  ASSUME ClientInv, IInv', NEW u \in Readers,
         \A w \in Readers : w # u => StepKeeps(w, {}),
         NEW pg \in PageRow, NEW cs \in Seq(CallRow), ReaderInv(u, pg, cs)',
         page' = [page EXCEPT ![u] = pg], calls' = [calls EXCEPT ![u] = cs]
  PROVE  ClientInv'
<1>1. page \in [Readers -> PageRow] /\ calls \in [Readers -> Seq(CallRow)]
  BY DEF ClientInv
<1>2. page' \in [Readers -> PageRow] /\ calls' \in [Readers -> Seq(CallRow)]
  BY <1>1
<1>3. ASSUME NEW w \in Readers PROVE ReaderInv(w, page[w], calls[w])'
  <2>1. CASE w = u
    <3>1. page'[w] = pg /\ calls'[w] = cs
      BY <1>1, <2>1
    <3> QED
      BY <2>1, <3>1
  <2>2. CASE w # u
    <3>1. PICK pg2, cs2 : pg2 = page[w] /\ cs2 = calls[w]
      OBVIOUS
    <3>2. page'[w] = pg2 /\ calls'[w] = cs2
      BY <1>1, <2>2, <3>1
    <3>3. ReaderInv(w, pg2, cs2)
      BY <3>1 DEF ClientInv
    <3>4. w \in Users /\ StepKeeps(w, {}) /\ pg2.selected \notin {}
      BY <2>2, ClientAssumption
    <3>5. ReaderInv(w, pg2, cs2)'
      BY <3>3, <3>4, ReaderFrame
    <3> QED
      BY <3>2, <3>5
  <2> QED
    BY <2>1, <2>2
<1> QED
  BY <1>2, <1>3 DEF ClientInv

LEMMA NothingKeeps ==
  ASSUME UNCHANGED vars, NEW u
  PROVE  StepKeeps(u, {})
BY KeptTrivially DEF StepKeeps, SessionsOf, vars

(***************************************************************************)
(* A step of a page only.                                                  *)
(***************************************************************************)
LEMMA PageStep ==
  ASSUME ClientInv, NEW u \in Readers, UNCHANGED vars,
         NEW pg \in PageRow, NEW cs \in Seq(CallRow), ReaderInv(u, pg, cs),
         page' = [page EXCEPT ![u] = pg], calls' = [calls EXCEPT ![u] = cs]
  PROVE  ClientInv'
<1>1. IInv'
  BY NextIInv DEF ClientInv
<1>2. \A w \in Readers : StepKeeps(w, {})
  BY NothingKeeps
<1>3. u \in Users /\ StepKeeps(u, {}) /\ pg.selected \notin {}
  BY <1>2, ClientAssumption
<1>4. ReaderInv(u, pg, cs)'
  BY <1>3, ReaderFrame
<1> QED
  BY <1>1, <1>2, <1>4, ReaderStep

LEMMA GetMoveStep ==
  ASSUME ClientInv, NEW u \in Readers, NEW s \in Sessions, GetMove(u, s)
  PROVE  ClientInv'
<1> USE ClientAssumption
<1>1. /\ page' = [page EXCEPT ![u] = Opened(page[u], s)]
      /\ calls' = [calls EXCEPT ![u] = Sent(calls[u], OpeningCall(s, calls[u] = <<>>))]
      /\ UNCHANGED vars /\ s \in SessionsOf(u)
  BY DEF GetMove, Send, Opened, Sent, NotAlone, OpeningCall, Listed
<1>2. PICK pg, cs : pg = page[u] /\ cs = calls[u]
  OBVIOUS
<1>3. u \in Users /\ pg \in PageRow /\ cs \in Seq(CallRow) /\ ReaderInv(u, pg, cs)
  BY <1>2 DEF ClientInv
<1>4. PICK pg2, c, cs2 : pg2 = Opened(pg, s) /\ c = OpeningCall(s, cs = <<>>) /\ cs2 = Sent(cs, c)
  OBVIOUS
<1>5. pg2 \in PageRow /\ cs2 \in Seq(CallRow) /\ ReaderInv(u, pg2, cs2)
  BY <1>1, <1>3, <1>4, GetMovePage
<1>6. page' = [page EXCEPT ![u] = pg2] /\ calls' = [calls EXCEPT ![u] = cs2]
  BY <1>1, <1>2, <1>4
<1> QED
  BY <1>1, <1>5, <1>6, PageStep

LEMMA SubmitStep ==
  ASSUME ClientInv, NEW u \in Readers, UNCHANGED vars,
         NEW pg \in PageRow, NEW cs, cs = calls[u], ReaderInv(u, pg, cs),
         SubmitClicked(u, pg)
  PROVE  ClientInv'
<1> USE ClientAssumption
<1>1. u \in Users /\ cs \in Seq(CallRow) /\ calls \in [Readers -> Seq(CallRow)]
  BY DEF ClientInv
<1>2. UNCHANGED calls => calls' = [calls EXCEPT ![u] = cs]
  BY <1>1
<1>3. CASE pg.button = "Enter" /\ page' = [page EXCEPT ![u] =
             [ClickedEnter(pg) EXCEPT !.fresh = @ /\ ~Waits(u, {"mf"})]]
           /\ Send(u, Call(pg, "enter", NoVerb))
  <2>1. PICK fresh \in BOOLEAN : fresh = (ClickedEnter(pg).fresh /\ ~Waits(u, {"mf"}))
    OBVIOUS
  <2>2. PICK pg2, c, cs2 : /\ pg2 = WithFresh(ClickedEnter(pg), fresh)
                           /\ c = Call(pg, "enter", NoVerb) /\ cs2 = Sent(cs, c)
    OBVIOUS
  <2>3. fresh => pg.fresh /\ NoneOf(cs, "mf")
    BY <2>1, ClickedEnterType DEF Waits, NoneOf, ToSet
  <2>4. pg2 \in PageRow /\ cs2 \in Seq(CallRow) /\ ReaderInv(u, pg2, cs2)
    BY <1>1, <1>3, <2>2, <2>3, EnterPage
  <2>5. page' = [page EXCEPT ![u] = pg2]
    BY <1>3, <2>1, <2>2 DEF WithFresh
  <2>6. calls' = [calls EXCEPT ![u] = cs2]
    BY <1>3, <2>2 DEF Send, Sent, NotAlone
  <2> QED
    BY <2>4, <2>5, <2>6, PageStep
<1>4. CASE pg.button = "Continue" /\ page' = [page EXCEPT ![u] = AskForm2(pg, pg.kept)]
           /\ UNCHANGED calls
  <2>1. PICK pg2 : pg2 = AskForm2(pg, pg.kept)
    OBVIOUS
  <2>2. pg2 \in PageRow /\ ReaderInv(u, pg2, cs)
    BY <1>1, <1>4, <2>1, ContinuePage
  <2>3. page' = [page EXCEPT ![u] = pg2]
    BY <1>4, <2>1
  <2> QED
    BY <1>1, <1>2, <1>4, <2>2, <2>3, PageStep
<1>5. CASE /\ pg.button = "Ask" /\ page' = [page EXCEPT ![u] = pg]
           /\ \E verb \in IF pg.choosing THEN ToSet(pg.options) \cup {NoVerb} ELSE {pg.verb} :
                Send(u, Call(pg, "ask", verb))
  <2>1. PICK verb \in IF pg.choosing THEN ToSet(pg.options) \cup {NoVerb} ELSE {pg.verb} :
          Send(u, Call(pg, "ask", verb))
    BY <1>5
  <2>2. PICK c, cs2 : c = Call(pg, "ask", verb) /\ cs2 = Sent(cs, c)
    OBVIOUS
  <2>3. cs2 \in Seq(CallRow) /\ ReaderInv(u, pg, cs2)
    BY <1>1, <1>5, <2>2, AskPage
  <2>4. calls' = [calls EXCEPT ![u] = cs2]
    BY <2>1, <2>2 DEF Send, Sent, NotAlone
  <2> QED
    BY <1>5, <2>3, <2>4, PageStep
<1>6. CASE pg.button = "Go" /\ pg.timers < MaxTimers /\ page' = [page EXCEPT ![u] = GoForm(pg)]
           /\ UNCHANGED calls
  <2>1. PICK pg2 : pg2 = GoForm(pg)
    OBVIOUS
  <2>2. pg2 \in PageRow /\ ReaderInv(u, pg2, cs)
    BY <1>1, <1>6, <2>1, GoPage
  <2>3. page' = [page EXCEPT ![u] = pg2]
    BY <1>6, <2>1
  <2> QED
    BY <1>1, <1>2, <1>6, <2>2, <2>3, PageStep
<1> QED
  BY <1>3, <1>4, <1>5, <1>6 DEF SubmitClicked

LEMMA ClickStep ==
  ASSUME ClientInv, NEW u \in Readers, Submit(u)
  PROVE  ClientInv'
<1>1. PICK pg, cs : pg = page[u] /\ cs = calls[u]
  OBVIOUS
<1>2. pg \in PageRow /\ ReaderInv(u, pg, cs)
  BY <1>1 DEF ClientInv
<1>3. SubmitClicked(u, page[u]) /\ UNCHANGED vars
  BY DEF Submit
<1>4. SubmitClicked(u, pg)
  BY <1>1, <1>3
<1> QED
  BY <1>1, <1>2, <1>3, <1>4, SubmitStep

LEMMA TimeOutStep ==
  ASSUME ClientInv, NEW u \in Readers, TimeOut(u)
  PROVE  ClientInv'
<1> USE ClientAssumption
<1>1. PICK pg0, pg, cs : pg0 = page[u] /\ pg = CountedDown(pg0) /\ cs = calls[u]
  OBVIOUS
<1>2. u \in Users /\ pg0 \in PageRow /\ cs \in Seq(CallRow) /\ ReaderInv(u, pg0, cs)
      /\ calls \in [Readers -> Seq(CallRow)]
  BY <1>1 DEF ClientInv
<1>3. pg0.timers > 0 /\ UNCHANGED vars
  BY <1>1 DEF TimeOut
<1>4. pg \in PageRow /\ ReaderInv(u, pg, cs)
  BY <1>1, <1>2, <1>3, CountedDownPage
<1>5. SubmitClicked(u, CountedDown(page[u]))
      \/ (page' = [page EXCEPT ![u] = CountedDown(page[u])] /\ UNCHANGED calls)
  BY DEF TimeOut, CountedDown
<1>6. CASE SubmitClicked(u, CountedDown(page[u]))
  <2>1. SubmitClicked(u, pg)
    BY <1>1, <1>6
  <2> QED
    BY <1>1, <1>3, <1>4, <2>1, SubmitStep
<1>7. CASE page' = [page EXCEPT ![u] = CountedDown(page[u])] /\ UNCHANGED calls
  <2>1. page' = [page EXCEPT ![u] = pg] /\ calls' = [calls EXCEPT ![u] = cs]
    BY <1>1, <1>2, <1>7
  <2> QED
    BY <1>2, <1>3, <1>4, <2>1, PageStep
<1> QED
  BY <1>5, <1>6, <1>7

LEMMA MfClickedStep ==
  ASSUME ClientInv, NEW u \in Readers, MfClicked(u)
  PROVE  ClientInv'
<1> USE ClientAssumption
<1>1. PICK pg, cs : pg = page[u] /\ cs = calls[u]
  OBVIOUS
<1>2. u \in Users /\ pg \in PageRow /\ cs \in Seq(CallRow) /\ ReaderInv(u, pg, cs)
  BY <1>1 DEF ClientInv
<1>3. page[u].mf /\ UNCHANGED vars /\ Send(u, Call(page[u], "mf", NoVerb))
  BY DEF MfClicked
<1>4. PICK fresh \in BOOLEAN : fresh = (page[u].fresh /\ ~Waits(u, {"enter"}))
  OBVIOUS
<1>5. fresh => pg.fresh /\ NoneOf(cs, "enter")
  BY <1>1, <1>4 DEF Waits, NoneOf, ToSet
<1>6. PICK pg2, c, cs2 : /\ pg2 = MfPressedOn(pg, fresh)
                         /\ c = Call(pg, "mf", NoVerb) /\ cs2 = Sent(cs, c)
  OBVIOUS
<1>7. pg.mf
  BY <1>1, <1>3
<1>8. pg2 \in PageRow /\ cs2 \in Seq(CallRow) /\ ReaderInv(u, pg2, cs2)
  BY <1>2, <1>5, <1>6, <1>7, MfPage
<1>9. page' = [page EXCEPT ![u] = pg2]
  <2> DEFINE new == [pg EXCEPT !.mf = FALSE, !.fresh = @ /\ ~Waits(u, {"enter"})]
  <2>1. page' = [page EXCEPT ![u] = new]
    BY <1>1 DEF MfClicked
  <2>2. new = pg2
    BY <1>1, <1>2, <1>4, <1>6 DEF MfPressedOn, PageRow
  <2> QED
    BY <2>1, <2>2
<1>10. calls' = [calls EXCEPT ![u] = cs2]
  BY <1>1, <1>3, <1>6 DEF Send, Sent, NotAlone
<1> QED
  BY <1>3, <1>8, <1>9, <1>10, PageStep

LEMMA FailsStep ==
  ASSUME ClientInv, NEW u \in Readers, NEW k \in DOMAIN calls[u], Fails(u, k)
  PROVE  ClientInv'
<1> USE ClientAssumption
<1>1. PICK pg, cs : pg = page[u] /\ cs = calls[u]
  OBVIOUS
<1>2. u \in Users /\ pg \in PageRow /\ cs \in Seq(CallRow) /\ ReaderInv(u, pg, cs)
      /\ page \in [Readers -> PageRow] /\ k \in DOMAIN cs
  BY <1>1 DEF ClientInv
<1>3. PICK fresh \in BOOLEAN :
        fresh = (pg.fresh /\ ~(cs[k].qtype = "mf" /\ cs[k].stage = "done"))
  OBVIOUS
<1>4. PICK pg2, cs2 : pg2 = WithFresh(pg, fresh) /\ cs2 = RemoveAt(cs, k)
  OBVIOUS
<1>5. /\ fresh => pg.fresh
      /\ fresh => cs[k].qtype # "mf" \/ cs[k].stage # "done"
  BY <1>3
<1>6. pg2 \in PageRow /\ cs2 \in Seq(CallRow) /\ ReaderInv(u, pg2, cs2)
  BY <1>2, <1>4, <1>5, FailPage
<1>7. page' = [page EXCEPT ![u] = pg2] /\ UNCHANGED vars
  <2>1. page' = [page EXCEPT ![u].fresh =
          pg.fresh /\ ~(cs[k].qtype = "mf" /\ cs[k].stage = "done")]
    BY <1>1 DEF Fails
  <2>2. page' = [page EXCEPT ![u] = [pg EXCEPT !.fresh = fresh]]
    BY <2>1, <1>1, <1>2, <1>3
  <2> QED
    BY <2>2, <1>4 DEF WithFresh, Fails
<1>8. calls' = [calls EXCEPT ![u] = cs2]
  BY <1>1, <1>4 DEF Fails, Without
<1> QED
  BY <1>6, <1>7, <1>8, PageStep

LEMMA ProcResponseStep ==
  ASSUME ClientInv, NEW u \in Readers, NEW k \in DOMAIN calls[u], ProcResponse(u, k)
  PROVE  ClientInv'
<1> USE ClientAssumption
<1>1. PICK pg, cs : pg = page[u] /\ cs = calls[u]
  OBVIOUS
<1>2. u \in Users /\ pg \in PageRow /\ cs \in Seq(CallRow) /\ ReaderInv(u, pg, cs)
      /\ k \in DOMAIN cs
  BY <1>1 DEF ClientInv
<1>3. cs[k].stage = "done" /\ cs[k].qtype \in {"getmove", "enter", "mf", "ask"}
  <2>1. cs[k] \in CallRow
    BY <1>2, ElementOfSeq
  <2> QED
    BY <2>1, <1>1 DEF CallRow, ProcResponse
<1>4. UNCHANGED vars /\ calls' = [calls EXCEPT ![u] = RemoveAt(cs, k)]
  BY <1>1 DEF ProcResponse, Without
<1>5. PICK cs2 : cs2 = RemoveAt(cs, k)
  OBVIOUS
<1>6. page' = [page EXCEPT ![u] =
        CASE cs[k].qtype = "getmove" -> [SetUI(pg, cs[k].data) EXCEPT !.fresh = cs[k].alone]
          [] cs[k].qtype = "enter"   -> AnswerResponseReceived(pg, cs[k].data)
          [] cs[k].qtype = "mf"      -> AnswerResponseReceived(ClickedEnter(pg), cs[k].data)
          [] cs[k].qtype = "ask"     -> AskResponse(pg)]
  BY <1>1 DEF ProcResponse
<1>7. CASE cs[k].qtype = "getmove"
  <2>1. PICK pg2 : pg2 = WithFresh(SetUI(pg, cs[k].data), cs[k].alone)
    OBVIOUS
  <2>2. page' = [page EXCEPT ![u] = pg2]
    BY <1>6, <1>7, <2>1 DEF WithFresh
  <2>3. pg2 \in PageRow /\ cs2 \in Seq(CallRow) /\ ReaderInv(u, pg2, cs2)
    BY <1>2, <1>3, <1>5, <1>7, <2>1, GetMoveReply
  <2> QED
    BY <1>4, <1>5, <2>2, <2>3, PageStep
<1>8. CASE cs[k].qtype = "enter"
  <2>1. PICK pg2 : pg2 = AnswerResponseReceived(pg, cs[k].data)
    OBVIOUS
  <2>2. page' = [page EXCEPT ![u] = pg2]
    BY <1>6, <1>8, <2>1
  <2>3. pg2 \in PageRow /\ cs2 \in Seq(CallRow) /\ ReaderInv(u, pg2, cs2)
    BY <1>2, <1>3, <1>5, <1>8, <2>1, AnswerReply
  <2> QED
    BY <1>4, <1>5, <2>2, <2>3, PageStep
<1>9. CASE cs[k].qtype = "mf"
  <2>1. PICK pg1, pg2 : pg1 = ClickedEnter(pg) /\ pg2 = AnswerResponseReceived(pg1, cs[k].data)
    OBVIOUS
  <2>2. page' = [page EXCEPT ![u] = pg2]
    BY <1>6, <1>9, <2>1
  <2>3. pg1 \in PageRow /\ pg1.selected = pg.selected /\ pg1.fresh = pg.fresh
    BY <1>2, <2>1, ClickedEnterType
  <2>4. pg2 \in PageRow /\ cs2 \in Seq(CallRow) /\ ReaderInv(u, pg2, cs2)
    BY <1>2, <1>3, <1>5, <1>9, <2>1, <2>3, AnswerReply
  <2> QED
    BY <1>4, <1>5, <2>2, <2>4, PageStep
<1>10. CASE cs[k].qtype = "ask"
  <2>1. PICK pg2 : pg2 = AskResponse(pg)
    OBVIOUS
  <2>2. page' = [page EXCEPT ![u] = pg2]
    BY <1>6, <1>10, <2>1
  <2>3. pg2 \in PageRow /\ cs2 \in Seq(CallRow) /\ ReaderInv(u, pg2, cs2)
    BY <1>2, <1>5, <1>10, <2>1, AskReply
  <2> QED
    BY <1>4, <1>5, <2>2, <2>3, PageStep
<1> QED
  BY <1>3, <1>7, <1>8, <1>9, <1>10

(***************************************************************************)
(* A handler is a step of HcGame, or reads only.                           *)
(***************************************************************************)
LEMMA PerformedStep ==
  ASSUME IInv, NEW u \in Users, NEW c \in CallRow, NEW ts \in Timestamps, Performed(u, c, ts)
  PROVE  /\ IInv'
         /\ c.qtype \in {"enter", "mf"} => AnsweredIn(u, c.session, ts)
         /\ \A w \in Users : w # u \/ c.qtype \notin {"enter", "mf"} => StepKeeps(w, {})
         /\ \A w \in Users : StepKeeps(w, {c.session})
<1>1. c.session \in Sessions /\ c.verb \in Verbs \cup {NoVerb}
      /\ c.qtype \in {"getmove", "enter", "mf", "ask"}
  BY DEF CallRow
<1>2. CASE c.qtype = "getmove"
  <2>1. UNCHANGED vars
    BY <1>2 DEF Performed
  <2>2. IInv'
    BY <2>1, NextIInv
  <2>3. \A w \in Users : StepKeeps(w, {})
    BY <2>1, NothingKeeps
  <2> QED
    BY <1>2, <2>2, <2>3 DEF StepKeeps
<1>3. CASE c.qtype = "ask"
  <2>1. PICK s \in Sessions, v \in Verbs, kind \in Kinds :
          s = c.session /\ Ask(u, s, v, kind, ts)
    BY <1>1, <1>3 DEF Performed, Kinds
  <2>2. Next
    BY <2>1 DEF Next
  <2>3. IInv'
    BY <2>2, NextIInv
  <2>4. \A w \in Users : StepKeeps(w, {})
    BY <2>1, AskKeeps
  <2> QED
    BY <1>3, <2>3, <2>4 DEF StepKeeps
<1>4. CASE c.qtype \in {"enter", "mf"}
  <2>1. PICK s \in Sessions : s = c.session
    BY <1>1
  <2>2. AnsweredIn(u, s, ts)
    BY <1>4, <2>1 DEF Performed, AnsweredIn
  <2>3. Next
    BY <2>2 DEF AnsweredIn, Next
  <2>4. IInv'
    BY <2>3, NextIInv
  <2>5. \A w \in Users : StepKeeps(w, {s}) /\ (u # w => StepKeeps(w, {}))
    BY <2>2, AnswerKeeps
  <2> QED
    BY <1>4, <2>1, <2>2, <2>4, <2>5
<1> QED
  BY <1>1, <1>2, <1>3, <1>4

LEMMA HandleStep ==
  ASSUME ClientInv, NEW u \in Readers, NEW k \in DOMAIN calls[u], NEW ts \in Timestamps,
         Handle(u, k, ts)
  PROVE  ClientInv'
<1> USE ClientAssumption
<1>1. PICK pg, cs, c : pg = page[u] /\ cs = calls[u] /\ c = cs[k]
  OBVIOUS
<1>2. u \in Users /\ pg \in PageRow /\ cs \in Seq(CallRow) /\ ReaderInv(u, pg, cs)
      /\ k \in DOMAIN cs /\ IInv
      /\ page \in [Readers -> PageRow] /\ calls \in [Readers -> Seq(CallRow)]
  BY <1>1 DEF ClientInv
<1>3. c \in CallRow /\ c.session \in SessionsOf(u) /\ c.session \in Sessions
  <2>1. c \in CallRow
    BY <1>1, <1>2, ElementOfSeq
  <2> QED
    BY <2>1, <1>1, <1>2 DEF ReaderInv, CallInv, SessionsOf
<1>4. c.stage = "sent" /\ Performed(u, c, ts) /\ UNCHANGED page
  BY <1>1 DEF Handle
<1>5. /\ IInv'
      /\ c.qtype \in {"enter", "mf"} => AnsweredIn(u, c.session, ts)
      /\ \A w \in Users : w # u \/ c.qtype \notin {"enter", "mf"} => StepKeeps(w, {})
      /\ \A w \in Users : StepKeeps(w, {c.session})
  BY <1>2, <1>3, <1>4, PerformedStep
<1>6. PICK s, row, ms, reply :
        /\ s \in Sessions /\ s = c.session /\ row = sessions'[s] /\ ms = moves'[s]
        /\ reply = SessionState(u, s, row, ms)
  BY <1>3
<1>7. /\ row \in SessionRow /\ ms \in Seq(MoveRow) /\ SessionInv(row, ms)
  BY <1>5, <1>6 DEF IInv, TypeOK
<1>8. Exists(row) /\ u \in Players(row)
  <2>1. s \in SessionsOf(u)'
    BY <1>2, <1>3, <1>5, <1>6 DEF StepKeeps
  <2> QED
    BY <2>1, <1>6 DEF SessionsOf
<1>9. /\ reply \in ViewRow /\ reply.session = s /\ reply.type # "none"
      /\ NamesVerb(reply) /\ Current(u, ms, reply)
  BY <1>2, <1>6, <1>7, <1>8, StateCurrent
<1>10. c.qtype \in {"enter", "mf"} => reply.type \in AskTypes \cup {"Practice"}
  <2> SUFFICES ASSUME c.qtype \in {"enter", "mf"}
               PROVE  reply.type \in AskTypes \cup {"Practice"}
    OBVIOUS
  <2>1. AnsweredIn(u, s, ts)
    BY <1>5, <1>6
  <2>2. SessionState(u, s, sessions'[s], moves'[s]).type \in AskTypes \cup {"Practice"}
    BY <1>2, <1>5, <1>6, <2>1, ReplyState
  <2> QED
    BY <2>2, <1>6
<1>11. PICK d : d = IF c.qtype = "ask" THEN NoView ELSE reply
  OBVIOUS
<1>12. /\ d \in ViewRow /\ NamesVerb(d)
       /\ c.qtype # "ask" => /\ d.session = c.session /\ d.type # "none"
                             /\ Current(u, moves'[c.session], d)
       /\ c.qtype \in {"enter", "mf"} => d.type \in AskTypes \cup {"Practice"}
  <2>1. NoView \in ViewRow /\ NamesVerb(NoView)
    BY DEF NoView, ViewRow, NamesVerb
  <2> QED
    BY <2>1, <1>6, <1>9, <1>10, <1>11
<1>13. PICK cs2 : cs2 = [cs EXCEPT ![k] = Reply(c, d)]
  OBVIOUS
<1>14. calls' = [calls EXCEPT ![u] = cs2]
  <2>1. calls' = [calls EXCEPT ![u][k] = Reply(c, d)]
    BY <1>1, <1>6, <1>11 DEF Handle, Reply
  <2> QED
    BY <2>1, <1>1, <1>2, <1>13
<1>15. PICK X : X = IF c.qtype \in {"enter", "mf"} THEN {s} ELSE {}
  OBVIOUS
<1>16. StepKeeps(u, X) /\ (c.qtype \notin {"enter", "mf"} => X = {})
  BY <1>2, <1>5, <1>6, <1>15
<1>17. cs2 \in Seq(CallRow) /\ ReaderInv(u, pg, cs2)'
  BY <1>1, <1>2, <1>4, <1>12, <1>13, <1>16, HandledInv
<1>18. page' = [page EXCEPT ![u] = pg]
  BY <1>1, <1>2, <1>4
<1>19. \A w \in Readers : w # u => StepKeeps(w, {})
  BY <1>5
<1> QED
  BY <1>2, <1>5, <1>14, <1>17, <1>18, <1>19, ReaderStep

LEMMA ElsewhereStep ==
  ASSUME ClientInv, NEW u \in Users, NEW s \in Sessions, NEW ts \in Timestamps,
         Elsewhere(u, s, ts)
  PROVE  ClientInv'
<1> USE ClientAssumption
<1>1. IInv /\ page \in [Readers -> PageRow] /\ calls \in [Readers -> Seq(CallRow)]
  BY DEF ClientInv
<1>2. page' = page /\ calls' = calls
  BY DEF Elsewhere, clientVars
<1>3. \/ \E opponent \in OptionalUser, vs \in VerbLists, reps \in RepChoices :
           InsertSession(u, s, opponent, vs, reps, ts)
      \/ u \notin Readers /\ \E v \in Verbs : Ask(u, s, v, "single", ts)
      \/ u \notin Readers /\ AnsweredIn(u, s, ts)
  BY DEF Elsewhere, AnsweredIn
<1>4. Next
  BY <1>3 DEF Next, AnsweredIn, Kinds
<1>5. IInv'
  BY <1>1, <1>4, NextIInv
<1>6. ASSUME NEW w \in Readers PROVE StepKeeps(w, {})
  <2>1. CASE \E opponent \in OptionalUser, vs \in VerbLists, reps \in RepChoices :
               InsertSession(u, s, opponent, vs, reps, ts)
    BY <1>1, <2>1, InsertSessionKeeps
  <2>2. CASE \E v \in Verbs : Ask(u, s, v, "single", ts)
    BY <1>1, <2>2, AskKeeps DEF Kinds
  <2>3. CASE u \notin Readers /\ AnsweredIn(u, s, ts)
    BY <1>1, <2>3, AnswerKeeps
  <2> QED
    BY <1>3, <2>1, <2>2, <2>3
<1>7. ASSUME NEW w \in Readers PROVE ReaderInv(w, page[w], calls[w])'
  <2>1. PICK pg, cs : pg = page[w] /\ cs = calls[w]
    OBVIOUS
  <2>2. page'[w] = pg /\ calls'[w] = cs
    BY <2>1, <1>2
  <2>3. w \in Users /\ ReaderInv(w, pg, cs) /\ StepKeeps(w, {}) /\ pg.selected \notin {}
    BY <2>1, <1>6 DEF ClientInv
  <2>4. ReaderInv(w, pg, cs)'
    BY <2>3, ReaderFrame
  <2> QED
    BY <2>2, <2>4
<1> QED
  BY <1>1, <1>2, <1>5, <1>7 DEF ClientInv

LEMMA InitClientInv == ClientInit => ClientInv
<1> USE ClientAssumption
<1> SUFFICES ASSUME ClientInit PROVE ClientInv
  OBVIOUS
<1>1. IInv
  BY InitIInv DEF ClientInit
<1>2. NewPage \in PageRow
  BY DEF NewPage, PageRow, NoView, ViewRow
<1>3. page \in [Readers -> PageRow] /\ calls \in [Readers -> Seq(CallRow)]
  BY <1>2 DEF ClientInit
<1>4. ASSUME NEW u \in Readers PROVE ReaderInv(u, page[u], calls[u])
  <2>1. page[u] = NewPage /\ calls[u] = <<>>
    BY DEF ClientInit
  <2>2. ReaderInv(u, NewPage, <<>>)
    BY DEF ReaderInv, FormInv, AloneInv, NewPage
  <2> QED
    BY <2>1, <2>2
<1> QED
  BY <1>1, <1>3, <1>4 DEF ClientInv

LEMMA NextClientInv == ClientInv /\ [ClientNext]_allVars => ClientInv'
<1> SUFFICES ASSUME ClientInv, [ClientNext]_allVars PROVE ClientInv'
  OBVIOUS
<1>1. CASE UNCHANGED allVars
  <2>1. UNCHANGED vars /\ page' = page /\ calls' = calls
    BY <1>1 DEF allVars, clientVars
  <2>2. IInv'
    BY <2>1, NextIInv DEF ClientInv
  <2>3. ASSUME NEW w \in Readers PROVE ReaderInv(w, page[w], calls[w])'
    <3>1. PICK pg, cs : pg = page[w] /\ cs = calls[w]
      OBVIOUS
    <3>2. page'[w] = pg /\ calls'[w] = cs
      BY <3>1, <2>1
    <3>3. w \in Users /\ ReaderInv(w, pg, cs) /\ StepKeeps(w, {}) /\ pg.selected \notin {}
      BY <3>1, <2>1, NothingKeeps, ClientAssumption DEF ClientInv
    <3>4. ReaderInv(w, pg, cs)'
      BY <3>3, ReaderFrame
    <3> QED
      BY <3>2, <3>4
  <2> QED
    BY <2>1, <2>2, <2>3 DEF ClientInv
<1>2. CASE \E u \in Users, s \in Sessions, ts \in Timestamps : Elsewhere(u, s, ts)
  BY <1>2, ElsewhereStep
<1>3. ASSUME NEW u \in Readers,
             \/ \E s \in Sessions : GetMove(u, s)
             \/ Submit(u)
             \/ TimeOut(u)
             \/ MfClicked(u)
      PROVE  ClientInv'
  BY <1>3, GetMoveStep, ClickStep, TimeOutStep, MfClickedStep
<1>4. ASSUME NEW u \in Readers, NEW k \in DOMAIN calls[u],
             \/ \E ts \in Timestamps : Handle(u, k, ts)
             \/ Fails(u, k)
             \/ ProcResponse(u, k)
      PROVE  ClientInv'
  BY <1>4, HandleStep, FailsStep, ProcResponseStep
<1> QED
  BY <1>1, <1>2, <1>3, <1>4 DEF ClientNext

-----------------------------------------------------------------------------
(* Theorems.                                                               *)

(***************************************************************************)
(* The invariant holds of the pages and the tables, whatever is pressed    *)
(* and whichever requests are handled, fail or are answered, in any order. *)
(***************************************************************************)
THEOREM ClientInvariant == ClientSpec => []ClientInv
BY InitClientInv, NextClientInv, PTL DEF ClientSpec

(***************************************************************************)
(* Forms and requests keep their types; while the form is open for an      *)
(* answer a countdown runs, and "Continue" has a view to ask from.         *)
(***************************************************************************)
THEOREM FormsTyped == ClientSpec => []ClientTypeOK
<1>1. ClientInv => ClientTypeOK
  BY DEF ClientInv, ReaderInv, FormInv, ClientTypeOK
<1> QED
  BY <1>1, ClientInvariant, PTL

(***************************************************************************)
(* A player who waits for answers only ever answers the question that the  *)
(* page showed: while the answer is on its way that question stays open.   *)
(***************************************************************************)
THEOREM AnswersShownQuestion == ClientSpec => []AnswersWhatWasShown
<1>1. ClientInv => AnswersWhatWasShown
  <2> SUFFICES ASSUME ClientInv, NEW u \in Readers, page[u].fresh,
                      NEW c \in ToSet(calls[u]), c.stage = "sent",
                      c.qtype \in {"enter", "mf"}, c.sure
               PROVE  /\ Len(moves[c.session]) = c.n
                      /\ moves[c.session][c.n].is_correct = "null"
    BY DEF AnswersWhatWasShown
  <2>1. FreshInv(u, page[u], calls[u])
    BY DEF ClientInv, ReaderInv
  <2>2. FreshCall(u, page[u], c)
    BY <2>1 DEF FreshInv, ToSet
  <2> QED
    BY <2>2 DEF FreshCall, OpenFor
<1> QED
  BY <1>1, ClientInvariant, PTL

(***************************************************************************)
(* A player who waits for answers asks by the rule of hc_move_get_type     *)
(* whenever the ask will be accepted, though hc_ask would take any verb.   *)
(***************************************************************************)
THEOREM AsksKeepTheRule == ClientSpec => []AsksByTheRule
<1>1. ClientInv => AsksByTheRule
  <2> SUFFICES ASSUME ClientInv, NEW u \in Readers, page[u].fresh,
                      NEW c \in ToSet(calls[u]), c.stage = "sent", c.qtype = "ask", c.sure,
                      c.verb # NoVerb, moves[c.session] # <<>>,
                      MayAsk(u, LastMove(moves[c.session]))
               PROVE  IF LastMove(moves[c.session]).is_correct = "no"
                        THEN c.verb \notin UsedVerbs(moves[c.session])
                        ELSE c.verb = LastMove(moves[c.session]).verb
    BY DEF AsksByTheRule
  <2> DEFINE ms == moves[c.session]
             last == ms[Len(ms)]
             v == page[u].view
  <2>1. FreshInv(u, page[u], calls[u]) /\ FreshCall(u, page[u], c)
    BY DEF ClientInv, ReaderInv, FreshInv, ToSet
  <2>2. LastMove(ms) = last
    <3>1. c.session \in Sessions
      BY DEF ClientInv, ReaderInv, CallInv, SessionsOf, ToSet
    <3>2. ms \in Seq(MoveRow) /\ Ordered(ms)
      BY <3>1 DEF ClientInv, IInv, TypeOK, SessionInv
    <3> QED
      BY <3>2, LastIsNewest
  <2>3. v.type \in AskTypes /\ Allowed(v, c.verb) /\ c.session = page[u].selected
    BY <2>1 DEF FreshCall
  <2>4. AskFor(u, ms, v)
    BY <2>1, <2>3 DEF FreshInv, AskForm
  <2> HIDE DEF ms
  <2>5. ToldTruly(ms, v)
    BY <2>2, <2>4 DEF AskFor, ms
  <2>6. CASE last.is_correct = "no"
    <3>1. v.type = "FirstMoveMyTurn" /\ v.offered = Offered(ms)
      BY <2>5, <2>6 DEF ToldTruly
    <3> QED
      BY <2>2, <2>3, <2>6, <3>1 DEF Allowed, Offered, ms
  <2>7. CASE last.is_correct # "no"
    <3>1. v.type = "AskMyTurn" /\ v.verb = last.verb
      BY <2>5, <2>7 DEF ToldTruly
    <3> QED
      BY <2>2, <2>3, <2>7, <3>1 DEF Allowed, ms
  <2> QED
    BY <2>6, <2>7
<1> QED
  BY <1>1, ClientInvariant, PTL

=============================================================================
