------------------------------ MODULE TurnProofs ------------------------------
(* Proofs about a talk.  First ValidatedTurn: the budget of a validated    *)
(* call holds for every --timeout, every --retries and every resolution of *)
(* the clock.  Then BackendTurn: that it implements ValidatedTurn, and     *)
(* that every adapter reads its CLI right, whatever the lines around the   *)
(* answer are and however many.                                            *)
EXTENDS BackendTurn, WellFoundedInduction, TLAPS

-----------------------------------------------------------------------------
(* Nat is well ordered: every set of naturals has a least element. *)
LEMMA LeastNat ==
  ASSUME NEW S \in SUBSET Nat, S # {}
  PROVE  \E x \in S : \A y \in S : x <= y
<1>1. IsWellFoundedOn(OpToRel(<, Nat), Nat)
  BY NatLessThanWellFounded
<1>2. PICK x \in S : \A y \in S : ~(<<y, x>> \in OpToRel(<, Nat))
  BY <1>1, WFMin
<1>3. ASSUME NEW y \in S PROVE x <= y
  <2>1. ~(<<y, x>> \in OpToRel(<, Nat))
    BY <1>2
  <2>2. OpToRel(<, Nat) = {ss \in Nat \X Nat : ss[1] < ss[2]}
    BY DEF OpToRel
  <2>3. ~(y < x)
    BY <2>1, <2>2
  <2> QED BY <2>3
<1> QED BY <1>3

(* A set of line numbers has a last one. *)
LEMMA MaxIsLast ==
  ASSUME NEW n \in Nat, NEW S \in SUBSET (1 .. n), S # {}
  PROVE  Max(S) \in S /\ \A i \in S : i <= Max(S)
<1> DEFINE Bounds == {k \in Nat : \A i \in S : i <= k}
<1>1. n \in Bounds
  OBVIOUS
<1>2. PICK m \in Bounds : \A k \in Bounds : m <= k
  <2>1. Bounds \in SUBSET Nat /\ Bounds # {}
    BY <1>1
  <2> HIDE DEF Bounds
  <2> QED BY <2>1, LeastNat
<1>3. m \in S
  <2> SUFFICES ASSUME m \notin S PROVE FALSE
    OBVIOUS
  <2>1. \A i \in S : i <= m - 1 /\ 1 <= i
    BY <1>2
  <2>2. m >= 1
    <3>1. PICK i \in S : TRUE
      OBVIOUS
    <3>2. i \in Nat /\ m \in Nat
      OBVIOUS
    <3> QED BY <2>1, <3>1, <3>2
  <2>3. m - 1 \in Bounds
    BY <1>2, <2>1, <2>2
  <2> QED BY <1>2, <2>3
<1>4. \A i \in S : m >= i /\ i <= m
  BY <1>2
<1> QED BY <1>3, <1>4 DEF Max

(* The last line of one is that line. *)
LEMMA MaxOfSingle ==
  ASSUME NEW i \in Nat
  PROVE  Max({i}) = i
BY DEF Max

(* A new last line is the last of any set it joins. *)
LEMMA MaxOfGain ==
  ASSUME NEW n \in Nat, NEW S \in SUBSET (1 .. n)
  PROVE  Max(S \cup {n + 1}) = n + 1
<1>1. \A i \in S \cup {n + 1} : n + 1 >= i
  OBVIOUS
<1>2. \A x \in S \cup {n + 1} : (\A i \in S \cup {n + 1} : x >= i) => x = n + 1
  OBVIOUS
<1> QED BY <1>1, <1>2 DEF Max

-----------------------------------------------------------------------------
(* What a program counter says of the counts and of the clock. *)
Counts ==
  /\ pc = "start" => now = 0 /\ attempt = 0 /\ moved = 0
  /\ pc = "repair" => attempt <= retries
  /\ pc = "run" => moved < attempt

Clock ==
  /\ pc = "repair" => now < deadline
  /\ pc = "run" => now <= until /\ until < deadline + R
  /\ pc = "record" => until < deadline + R + MaxWait

IInv == TypeOK /\ Counts /\ Clock /\ CallBounded /\ PositionRecorded

-----------------------------------------------------------------------------
(* A budget is a positive number of ticks. *)
LEMMA DeadlinePositive ==
  ASSUME TypeOK
  PROVE  deadline \in Nat /\ deadline > 0
<1>1. timeout \in Nat /\ timeout > 0 /\ R \in Nat /\ R > 0
  BY BudgetAssumption DEF BudgetAssumption, TypeOK
<1>2. \A a, b \in Nat : a > 0 /\ b > 0 => a * b \in Nat /\ a * b > 0
  BY Z3
<1> QED BY <1>1, <1>2 DEF deadline

(* The kernel of the budget: a grant rounded up to whole seconds ends less *)
(* than a second after what is left of the budget.                         *)
LEMMA GrantRoundsUp ==
  ASSUME NEW g \in Nat \ {0}, NEW t \in Int, t > 0, IsGrant(g, t)
  PROVE  g * R \in Nat /\ g * R < t + R
<1>1. R \in Nat /\ R > 0
  BY BudgetAssumption DEF BudgetAssumption
<1>2. \A a, b \in Nat : a * b \in Nat
  BY Z3
<1>3. g * R \in Nat
  BY <1>1, <1>2
<1>4. CASE g = 1
  BY <1>1, <1>4
<1>5. CASE g * R - R < t
  BY <1>1, <1>3, <1>5
<1> QED BY <1>3, <1>4, <1>5 DEF IsGrant

(* The call starts in the invariant. *)
LEMMA InitIInv == ASSUME Init PROVE IInv
<1>1. R \in Nat /\ R > 0 /\ MaxWait \in Nat
  BY BudgetAssumption DEF BudgetAssumption
<1>2. timeout \in Nat \ {0} /\ retries \in Nat
  BY BudgetAssumption DEF BudgetAssumption, Init
<1>3. TypeOK
  BY <1>2 DEF Init, TypeOK, PCs, Finished
<1>4. CallBounded
  BY <1>1, <1>3, DeadlinePositive DEF Init, CallBounded
<1> QED BY <1>3, <1>4 DEF IInv, Init, Counts, Clock, PositionRecorded

(* Every step of the call keeps the invariant. *)
LEMMA Invariance == ASSUME IInv, [Next]_vars PROVE IInv'
<1> USE DEF IInv
<1>1. R \in Nat /\ R > 0 /\ MaxWait \in Nat
  BY BudgetAssumption DEF BudgetAssumption
<1>2. timeout \in Nat \ {0} /\ retries \in Nat /\ deadline \in Nat /\ deadline > 0
  BY DeadlinePositive, BudgetAssumption DEF BudgetAssumption, TypeOK
<1>3. CASE Launch
  <2>1. timeout' = timeout /\ retries' = retries /\ now' = now
        /\ moved' = moved /\ recorded' = recorded /\ attempt' = attempt + 1
        /\ pc' = "run" /\ deadline' = deadline
    BY <1>3 DEF Launch, Goto, deadline
  <2>2. now \in Nat /\ now < deadline
    BY <1>2, <1>3 DEF Launch, Counts, Clock, TypeOK
  <2>3. PICK g \in 1 .. timeout :
          IsGrant(g, deadline - now) /\ grant' = g /\ until' = now + g * R
    BY <1>3 DEF Launch
  <2>4. g * R \in Nat /\ g * R < (deadline - now) + R
    BY <1>2, <2>2, <2>3, GrantRoundsUp
  <2>5. attempt <= retries /\ moved <= attempt /\ recorded = moved
    BY <1>2, <1>3 DEF Launch, Counts, TypeOK, PositionRecorded
  <2>6. TypeOK'
    BY <1>2, <2>1, <2>2, <2>3, <2>4, <2>5 DEF TypeOK, PCs
  <2>7. Counts' /\ PositionRecorded'
    BY <2>1, <2>5 DEF TypeOK, Counts, PositionRecorded
  <2>8. Clock' /\ CallBounded'
    BY <1>1, <1>2, <2>1, <2>2, <2>3, <2>4 DEF Clock, CallBounded
  <2> QED BY <2>6, <2>7, <2>8
<1>4. CASE Tick
  BY <1>1, <1>2, <1>4
     DEF Tick, TypeOK, Counts, Clock, CallBounded, PositionRecorded, deadline
<1>5. CASE Reply
  BY <1>1, <1>2, <1>5
     DEF Reply, Goto, TypeOK, PCs, Counts, Clock, CallBounded,
         PositionRecorded, deadline
<1>6. CASE Fail
  BY <1>6 DEF Fail, Goto, TypeOK, PCs, Finished, Counts, Clock, CallBounded,
              PositionRecorded, deadline
<1>7. CASE Persist
  BY <1>7 DEF Persist, Goto, TypeOK, PCs, Finished, Counts, Clock, CallBounded,
              PositionRecorded, deadline
<1>8. CASE Satisfied
  BY <1>8 DEF Satisfied, Goto, TypeOK, PCs, Finished, Counts, Clock,
              CallBounded, PositionRecorded, deadline
<1>9. CASE Rejected
  BY <1>2, <1>9
     DEF Rejected, Goto, TypeOK, PCs, Finished, Counts, Clock, CallBounded,
         PositionRecorded, deadline
<1>10. CASE UNCHANGED vars
  BY <1>10 DEF vars, TypeOK, Counts, Clock, CallBounded, PositionRecorded,
               deadline
<1> QED BY <1>3, <1>4, <1>5, <1>6, <1>7, <1>8, <1>9, <1>10 DEF Next, Done

(* The invariant holds throughout every call.                              *)
LEMMA AlwaysIInv == Spec => []IInv
  BY InitIInv, Invariance, PTL DEF Spec

-----------------------------------------------------------------------------
(* No call starts more runs than its --retries allows, and its counts stay *)
(* in their ranges.                                                        *)
THEOREM TypeCorrect == Spec => []TypeOK
<1>1. IInv => TypeOK
  BY DEF IInv
<1> QED BY <1>1, AlwaysIInv, PTL

(* No CLI run of a validated call goes on for a second past --timeout      *)
(* (core.py:675-683).                                                      *)
THEOREM BudgetKept == Spec => []RunsWithinBudget
<1>1. IInv => RunsWithinBudget
  <2> SUFFICES ASSUME IInv, pc = "run" PROVE now < deadline + R
    BY DEF RunsWithinBudget
  <2>1. deadline \in Nat /\ R \in Nat
    BY DeadlinePositive, BudgetAssumption DEF IInv, BudgetAssumption
  <2> QED BY <2>1 DEF IInv, Clock, TypeOK
<1> QED BY <1>1, AlwaysIInv, PTL

(* The whole call, and with it the agent lock, takes at most the budget, a *)
(* second of rounding and one wait for the state lock.                     *)
THEOREM CallTimeBounded == Spec => []CallBounded
<1>1. IInv => CallBounded
  BY DEF IInv
<1> QED BY <1>1, AlwaysIInv, PTL

(* The registry is never behind the session when a repair starts or the    *)
(* call ends (core.py:620-626).                                            *)
THEOREM PositionNeverStale == Spec => []PositionRecorded
<1>1. IInv => PositionRecorded
  BY DEF IInv
<1> QED BY <1>1, AlwaysIInv, PTL

(* No repair starts once the budget or the retries are spent               *)
(* (core.py:702-708).                                                      *)
THEOREM RepairsInTime == Spec => NoLateRepair
<1>1. IInv /\ [Next]_vars =>
        [pc = "repair" /\ pc' = "run" => now < deadline /\ attempt <= retries]_vars
  BY DEF IInv, Clock, Counts
<1> QED BY <1>1, AlwaysIInv, PTL DEF Spec, NoLateRepair
-----------------------------------------------------------------------------
(* What an envelope says is what its CLI did, and a CLI prints at most one. *)
EnvelopeSays(l) ==
  /\ l.type = "result" =>
       /\ l.session \in {None, at} /\ names = {l.session}
       /\ l.text \in Texts \cup {None}
       /\ said = IF l.text = None THEN <<>> ELSE <<Say(None, l.text)>>
       /\ l.object = published
       /\ ~failed /\ why = None
  /\ l.type = "failure" => l.text \in Reasons /\ failed /\ why = l.text
  /\ l.type = "degraded" => backend = "claude" /\ failed /\ why = None

EnvelopeLine(l) ==
  /\ l.type \in {"noise", "tip"} \cup Envelopes
  /\ l.type = "tip" =>
       /\ l.session \in IF backend = "claude" THEN {None, at} ELSE {None}
       /\ backend = "claude" => l.text = None /\ l.object = None
  /\ EnvelopeSays(l)

EnvelopeFacts ==
  /\ \A i, j \in OfType(out, Envelopes) : i = j
  /\ ~Enveloped =>
       names = {} /\ said = <<>> /\ published = None /\ ~failed /\ why = None
  /\ \A i \in DOMAIN out : EnvelopeLine(out[i])

(* The last reason among the events is the last the CLI gave. *)
ReasonGiven ==
  why = IF Reasoned(out) = {} THEN None ELSE out[Max(Reasoned(out))].text

CodexLine(l) ==
  /\ l.type = "start" => l.session = at
  /\ l.type = "message" => l.text \in Texts
  /\ l.type = "failure" => l.text \in Reasons \cup {None}

CodexFacts ==
  /\ \A i \in DOMAIN out : CodexLine(out[i])
  /\ names = IF OfType(out, {"start"}) = {} THEN {} ELSE {at}
  /\ DOMAIN said = OfType(out, {"message"})
  /\ \A i \in DOMAIN said : said[i].text = out[i].text
  /\ published = None
  /\ exit = 0 => ~failed
  /\ ReasonGiven

OpencodeLine(l) ==
  /\ l.type = "message" => l.text \in Texts
  /\ l.type = "failure" => l.text \in Reasons \cup {None}
  /\ l.type \notin {"noise", "failure"} => l.session \in names

OpencodeFacts ==
  /\ \A i \in DOMAIN out : OpencodeLine(out[i])
  /\ names # {} => json_objects(out) # {}
  /\ names \subseteq {None, at}
  /\ DOMAIN said = FirstOfPart(out)
  /\ \A i \in DOMAIN said :
       /\ said[i].part = out[i].part
       /\ said[i].text = out[Max(PartsOf(out, out[i].part))].text
  /\ published = None
  /\ failed <=> OfType(out, {"failure"}) # {}
  /\ ReasonGiven

(* While a CLI runs, and until its output is read. *)
Printed ==
  pc = "run" =>
    /\ at \in Sessions
    /\ backend \in {"claude", "grok"} => EnvelopeFacts
    /\ backend = "codex" => CodexFacts
    /\ backend = "opencode" => OpencodeFacts

(* From then on, when the turn has landed. *)
Landed ==
  pc \in {"record", "validate", "repair", "returned"} =>
    /\ exit = 0 /\ ~failed
    /\ session = at
    /\ error = None
    /\ schema => result.structured = Answer

Told ==
  /\ pc = "start" => exit = None
  /\ pc # "start" /\ schema => argv.document
  /\ pc = "run" => argv.fork = (pending # None)
  /\ pc = "run" /\ pending # None => argv.resume = pending

TurnIInv ==
  /\ TurnTypeOK
  /\ Printed /\ Landed /\ Told
  /\ AnswerIsKept /\ FailuresAreRaised /\ VerdictIsEarned

-----------------------------------------------------------------------------
(* What a turn read out of a finished run should be. *)
ReadsWell(turn) ==
  /\ turn.error \in Errors \cup {None}
  /\ turn.error = None =>
       /\ turn \in Results
       /\ exit = 0 /\ ~failed /\ turn.session = at
       /\ schema => turn.structured = Answer
  /\ exit = 0 /\ ~failed /\ names = {at} =>
       turn.error = None /\ turn.reply = Spoken
  /\ exit # 0 \/ failed =>
       turn.error = IF why = None THEN Unusable ELSE why

(* An adapter raises with the reason there is, or for want of one. *)
LEMMA RaisesWell ==
  ASSUME NEW e \in Errors,
         exit # 0 \/ failed => e = IF why = None THEN Unusable ELSE why,
         exit # 0 \/ failed \/ names # {at}
  PROVE  ReadsWell(Raised(e))
BY BackendAssumption DEF ReadsWell, Raised, BackendAssumption

(* A reply of one text. *)
LEMMA SingleReply ==
  ASSUME NEW t \in Texts, MaxLines >= 1
  PROVE  /\ <<t>> \in Replies
         /\ DOMAIN <<t>> = {1} /\ <<t>>[1] = t
<1>1. <<t>> \in [1 .. 1 -> Texts] /\ 1 .. 1 = {1}
  OBVIOUS
<1>2. 1 .. 1 \in SUBSET (1 .. MaxLines)
  BY BackendAssumption DEF BackendAssumption
<1> QED BY <1>1, <1>2 DEF Replies

(* A reply of none. *)
LEMMA EmptyReply == <<>> \in Replies /\ DOMAIN <<>> = {}
<1>1. <<>> \in [{} -> Texts]
  OBVIOUS
<1>2. {} \in SUBSET (1 .. MaxLines)
  OBVIOUS
<1> QED BY <1>1, <1>2 DEF Replies

(* What one text comes down to. *)
LEMMA OneTextSpoken ==
  ASSUME NEW t \in Texts, said = <<Say(None, t)>>
  PROVE  /\ Spoken = <<t>>
         /\ OnlyObject = IF t \in {"good", "bad"} THEN t ELSE None
<1>1. DOMAIN said = {1} /\ said[1].text = t
  BY DEF Say
<1>2. Spoken = <<t>>
  <2>1. <<t>> = [i \in {1} |-> t]
    OBVIOUS
  <2> QED BY <1>1, <2>1 DEF Spoken
<1>3. Max({1}) = 1
  BY MaxOfSingle
<1>4. OnlyObject = IF t \in {"good", "bad"} THEN t ELSE None
  BY <1>1, <1>3 DEF OnlyObject
<1> QED BY <1>2, <1>4

(* A model that said nothing, beside nothing published, answered nothing. *)
LEMMA NothingSpoken ==
  ASSUME said = <<>>
  PROVE  /\ Spoken = <<>> /\ OnlyObject = None
         /\ published = None => Answer = None
<1>1. DOMAIN said = {}
  OBVIOUS
<1>2. <<>> = [i \in {} |-> said[i].text]
  OBVIOUS
<1> QED BY <1>1, <1>2 DEF Spoken, LastObject, OnlyObject, Answer

(* What json.loads makes of one text, and of none. *)
LEMMA WholeOfOne ==
  /\ Whole(<<>>) = None
  /\ \A t \in Texts : Whole(<<t>>) = IF t \in {"good", "bad"} THEN t ELSE None
<1>1. Whole(<<>>) = None
  <2>1. DOMAIN <<>> = {}
    OBVIOUS
  <2> QED BY <2>1 DEF Whole
<1>2. ASSUME NEW t \in Texts
      PROVE  Whole(<<t>>) = IF t \in {"good", "bad"} THEN t ELSE None
  <2>1. DOMAIN <<t>> = {1} /\ <<t>>[1] = t
    OBVIOUS
  <2>2. Max({1}) = 1
    BY MaxOfSingle
  <2> QED BY <2>1, <2>2 DEF Whole
<1> QED BY <1>1, <1>2

-----------------------------------------------------------------------------
(* A result that names the conversation is read whole. *)
LEMMA ResultReadsWell ==
  ASSUME TurnTypeOK, at \in Sessions, MaxLines >= 1,
         backend \in {"claude", "grok"}, exit = 0,
         NEW l \in Lines, l.type = "result", l.session = at, EnvelopeSays(l)
  PROVE  ReadsWell(Turned(l.session, reply_text(l), l.object))
<1> DEFINE turn == Turned(l.session, reply_text(l), l.object)
<1>1. /\ names = {at} /\ ~failed /\ why = None
      /\ l.text \in Texts \cup {None}
      /\ said = IF l.text = None THEN <<>> ELSE <<Say(None, l.text)>>
      /\ l.object = published
  BY DEF EnvelopeSays
<1>2. Answer = IF published # None THEN published ELSE OnlyObject
  BY DEF Answer, enforces_schema
<1>3. l.object \in {"good", "bad", None}
  BY DEF Lines
<1>4. turn.error = None /\ turn.session = at /\ turn.reply = reply_text(l)
      /\ turn.structured = structured_reply(reply_text(l), l.object)
      /\ turn = [error |-> None, session |-> at, reply |-> reply_text(l),
                 structured |-> structured_reply(reply_text(l), l.object)]
  BY DEF Turned
<1>5. /\ reply_text(l) = Spoken /\ reply_text(l) \in Replies
      /\ structured_reply(reply_text(l), l.object) \in {"good", "bad", None}
      /\ schema => structured_reply(reply_text(l), l.object) = Answer
  <2>1. CASE l.text = None
    <3>1. reply_text(l) = <<>> /\ said = <<>>
      BY <1>1, <2>1 DEF reply_text
    <3> QED BY <1>1, <1>2, <1>3, <3>1, NothingSpoken, EmptyReply, WholeOfOne
            DEF structured_reply
  <2>2. CASE l.text # None
    <3>1. l.text \in Texts
      BY <1>1, <2>2
    <3>2. reply_text(l) = <<l.text>> /\ said = <<Say(None, l.text)>>
      BY <1>1, <2>2 DEF reply_text
    <3>3. /\ Spoken = <<l.text>> /\ <<l.text>> \in Replies
          /\ OnlyObject = IF l.text \in {"good", "bad"} THEN l.text ELSE None
      BY <3>1, <3>2, OneTextSpoken, SingleReply
    <3>4. Whole(<<l.text>>) = IF l.text \in {"good", "bad"} THEN l.text ELSE None
      BY <3>1, WholeOfOne
    <3> QED BY <1>1, <1>2, <1>3, <3>2, <3>3, <3>4 DEF structured_reply
  <2> QED BY <2>1, <2>2
<1>6. turn \in Results
  BY <1>4, <1>5 DEF Results
<1> QED BY <1>1, <1>4, <1>5, <1>6 DEF ReadsWell

(* An object of claude's that is no envelope carries no answer, ...        *)
LEMMA TipReadsWell ==
  ASSUME TurnTypeOK, at \in Sessions, exit \in {0, 1},
         names = {}, said = <<>>, published = None, ~failed, why = None,
         NEW l \in Lines, l.type \in {"noise", "tip"},
         l.session # None => l.session = at /\ l.text = None /\ l.object = None
  PROVE  ReadsWell(EnvelopeTurn(l, exit))
<1>0. Unusable \in Errors /\ names # {at}
  BY DEF Errors
<1>1. CASE exit # 0 \/ l.session = None
  <2>1. EnvelopeTurn(l, exit) = Raised(Unusable)
    BY <1>1 DEF EnvelopeTurn
  <2> QED BY <1>0, <2>1, RaisesWell
<1>2. CASE exit = 0 /\ l.session # None
  <2>1. EnvelopeTurn(l, exit) =
          [error |-> None, session |-> at, reply |-> <<>>, structured |-> None]
    BY <1>2, WholeOfOne
       DEF EnvelopeTurn, Turned, reply_text, structured_reply
  <2>2. Answer = None /\ <<>> \in Replies
    BY NothingSpoken, EmptyReply
  <2> QED BY <1>0, <1>2, <2>1, <2>2 DEF ReadsWell, Results
<1> QED BY <1>1, <1>2

(* ... and an envelope is believed.                                        *)
LEMMA EnvelopeReadsWell ==
  ASSUME TurnTypeOK, at \in Sessions, MaxLines >= 1, exit \in {0, 1},
         backend \in {"claude", "grok"},
         NEW l \in Lines, l.type \in Envelopes, EnvelopeSays(l)
  PROVE  ReadsWell(EnvelopeTurn(l, exit))
<1>0. Unusable \in Errors /\ Reasons \subseteq Errors /\ None \notin Reasons
  BY BackendAssumption DEF Errors, BackendAssumption
<1>1. CASE l.type = "failure"
  <2>1. EnvelopeTurn(l, exit) = Raised(l.text)
    BY <1>1 DEF EnvelopeTurn
  <2>2. l.text \in Errors /\ failed /\ why = l.text /\ l.text # None
    BY <1>0, <1>1 DEF EnvelopeSays
  <2> QED BY <2>1, <2>2, RaisesWell
<1>2. CASE l.type = "degraded"
  <2>1. EnvelopeTurn(l, exit) = Raised(Unusable)
    BY <1>2 DEF EnvelopeTurn
  <2>2. failed /\ why = None
    BY <1>2 DEF EnvelopeSays
  <2> QED BY <1>0, <2>1, <2>2, RaisesWell
<1>3. CASE l.type = "result"
  <2>1. l.session \in {None, at} /\ names = {l.session} /\ why = None
    BY <1>3 DEF EnvelopeSays
  <2>2. CASE exit # 0 \/ l.session = None
    <3>1. EnvelopeTurn(l, exit) = Raised(Unusable)
      BY <1>3, <2>2 DEF EnvelopeTurn
    <3>2. exit # 0 \/ names # {at}
      BY <2>1, <2>2, BackendAssumption DEF BackendAssumption
    <3> QED BY <1>0, <2>1, <3>1, <3>2, RaisesWell
  <2>3. CASE exit = 0 /\ l.session # None
    <3>1. EnvelopeTurn(l, exit) = Turned(l.session, reply_text(l), l.object)
      BY <1>3, <2>3 DEF EnvelopeTurn
    <3> QED BY <1>3, <2>1, <2>3, <3>1, ResultReadsWell
  <2> QED BY <2>2, <2>3
<1> QED BY <1>1, <1>2, <1>3 DEF Envelopes

-----------------------------------------------------------------------------
(* The last of a set of lines is one of them. *)
LEMMA LastLineIn ==
  ASSUME TurnTypeOK, NEW S \in SUBSET DOMAIN out, S # {}
  PROVE  /\ Max(S) \in S /\ \A i \in S : i <= Max(S)
         /\ LastLine(out, S) = out[Max(S)] /\ out[Max(S)] \in Lines
         /\ MaxLines >= 1
<1>1. out \in Seq(Lines) /\ Len(out) \in Nat /\ DOMAIN out = 1 .. Len(out)
      /\ Len(out) <= MaxLines /\ MaxLines \in Nat
  BY BackendAssumption DEF TurnTypeOK, BackendAssumption
<1>2. Max(S) \in S /\ \A i \in S : i <= Max(S)
  BY <1>1, MaxIsLast
<1> QED BY <1>1, <1>2 DEF LastLine

(* No line is a line of noise. *)
LEMMA NoLineIsLine ==
  NoLine \in Lines /\ NoLine.session = None /\ NoLine.type = "noise"
BY DEF NoLine, Line, Lines

(* Claude's envelope is its last, and has the say. *)
LEMMA ClaudeReadsWell ==
  ASSUME TurnTypeOK, at \in Sessions, exit \in {0, 1}, backend = "claude",
         EnvelopeFacts
  PROVE  ReadsWell(claude(out, exit))
<1> DEFINE results == OfType(out, Envelopes)
           objects == json_objects(out)
<1>1. results \subseteq DOMAIN out /\ objects \subseteq DOMAIN out
  BY DEF OfType, json_objects
<1>2. CASE results # {}
  <2>1. /\ Max(results) \in results /\ out[Max(results)] \in Lines
        /\ MaxLines >= 1
        /\ pick_result_object(out) = out[Max(results)]
    BY <1>1, <1>2, LastLineIn DEF pick_result_object
  <2>2. out[Max(results)].type \in Envelopes /\ EnvelopeSays(out[Max(results)])
    BY <2>1 DEF OfType, EnvelopeFacts, EnvelopeLine
  <2> QED BY <2>1, <2>2, EnvelopeReadsWell DEF claude
<1>3. CASE results = {}
  <2>1. names = {} /\ said = <<>> /\ published = None /\ ~failed /\ why = None
    BY <1>3 DEF EnvelopeFacts, Enveloped
  <2>2. PICK l \in Lines : /\ pick_result_object(out) = l
                           /\ l.type \in {"noise", "tip"}
                           /\ l.session # None =>
                                l.session = at /\ l.text = None /\ l.object = None
    <3>1. CASE objects = {}
      BY <1>3, <3>1, NoLineIsLine DEF pick_result_object, LastLine
    <3>2. CASE objects # {}
      <4>1. /\ Max(objects) \in objects /\ out[Max(objects)] \in Lines
            /\ pick_result_object(out) = out[Max(objects)]
        BY <1>1, <1>3, <3>2, LastLineIn DEF pick_result_object
      <4>2. EnvelopeLine(out[Max(objects)]) /\ out[Max(objects)].type = "tip"
        BY <1>3, <4>1 DEF json_objects, OfType, EnvelopeFacts, EnvelopeLine
      <4> QED BY <4>1, <4>2 DEF EnvelopeLine
    <3> QED BY <3>1, <3>2
  <2> QED BY <2>1, <2>2, TipReadsWell DEF claude
<1> QED BY <1>2, <1>3

(* Nothing but grok's envelope is marked as one. *)
LEMMA GrokReadsWell ==
  ASSUME TurnTypeOK, at \in Sessions, exit \in {0, 1}, backend = "grok",
         EnvelopeFacts
  PROVE  ReadsWell(grok(out, exit))
<1> DEFINE results == OfType(out, Envelopes)
           objects == json_objects(out)
           strong  == {i \in objects : out[i].session # None
                                         \/ out[i].type = "failure"}
           weak    == {i \in objects : out[i].text # None}
           chosen  == IF strong # {} THEN strong
                      ELSE IF weak # {} THEN weak ELSE objects
           line    == LastLine(out, chosen)
<1>1. /\ results \subseteq DOMAIN out /\ chosen \subseteq DOMAIN out
      /\ chosen \subseteq objects /\ strong \subseteq objects
  BY DEF OfType, json_objects
<1>2. grok(out, exit) = EnvelopeTurn(line, exit)
  BY DEF grok, pick_grok_object
<1>3. \A i \in objects : EnvelopeLine(out[i]) /\ out[i] \in Lines
        /\ out[i].type # "noise"
  BY DEF json_objects, EnvelopeFacts, TurnTypeOK
<1>4. \A i \in strong : i \in results
  BY <1>1, <1>3 DEF json_objects, OfType, EnvelopeLine, Envelopes
<1>5. CASE strong # {}
  <2>1. Max(strong) \in strong /\ line = out[Max(strong)] /\ MaxLines >= 1
    BY <1>1, <1>5, LastLineIn
  <2>2. line \in Lines /\ line.type \in Envelopes /\ EnvelopeSays(line)
    BY <1>1, <1>3, <1>4, <2>1 DEF OfType, EnvelopeLine
  <2> QED BY <1>2, <2>1, <2>2, EnvelopeReadsWell
<1>6. CASE strong = {}
  <2>1. line.session = None /\ line.type # "failure"
    <3>1. CASE chosen = {}
      BY <3>1, NoLineIsLine DEF LastLine
    <3>2. CASE chosen # {}
      <4>1. Max(chosen) \in objects /\ line = out[Max(chosen)]
        BY <1>1, <3>2, LastLineIn
      <4> QED BY <1>6, <4>1
    <3> QED BY <3>1, <3>2
  <2>2. EnvelopeTurn(line, exit) = Raised(Unusable)
    BY <2>1 DEF EnvelopeTurn
  <2>3. names # {at} /\ ~failed /\ why = None
    <3>1. CASE results = {}
      BY <3>1 DEF EnvelopeFacts, Enveloped
    <3>2. CASE results # {}
      <4>1. PICK i \in results : TRUE
        BY <3>2
      <4>2. i \in objects /\ out[i].type \in Envelopes
        BY <4>1 DEF OfType, json_objects, Envelopes
      <4>3. out[i].session = None /\ out[i].type = "result"
        BY <1>3, <1>6, <4>2 DEF Envelopes, EnvelopeLine, EnvelopeSays
      <4> QED BY <1>3, <4>2, <4>3, BackendAssumption
              DEF EnvelopeLine, EnvelopeSays, BackendAssumption
    <3> QED BY <3>1, <3>2
  <2>4. Unusable \in Errors
    BY DEF Errors
  <2> QED BY <1>2, <2>2, <2>3, <2>4, RaisesWell
<1> QED BY <1>5, <1>6

-----------------------------------------------------------------------------
(* What codex and opencode raise is the last reason given. *)
LEMMA ReportedWell ==
  ASSUME TurnTypeOK, ReasonGiven, exit # 0 \/ failed
  PROVE  ReadsWell(Raised(reported_error(out)))
<1>1. Reasons \subseteq Errors /\ Unusable \in Errors /\ None \notin Reasons
  BY BackendAssumption DEF Errors, BackendAssumption
<1>2. CASE Reasoned(out) = {}
  BY <1>1, <1>2, RaisesWell DEF ReasonGiven, reported_error
<1>3. CASE Reasoned(out) # {}
  <2>1. Max(Reasoned(out)) \in Reasoned(out)
    BY <1>3, LastLineIn DEF Reasoned, OfType
  <2>2. /\ reported_error(out) = why /\ why # None
    BY <1>3, <2>1 DEF ReasonGiven, reported_error, Reasoned
  <2>3. why \in Reasons
    BY <2>2 DEF TurnTypeOK
  <2> QED BY <1>1, <2>2, <2>3, RaisesWell
<1> QED BY <1>2, <1>3

(* What was said is a reply, and the adapters find its objects. *)
LEMMA SpokenReply ==
  ASSUME TurnTypeOK, DOMAIN said \subseteq DOMAIN out,
         \A i \in DOMAIN said : said[i].text \in Texts
  PROVE  /\ Spoken \in Replies
         /\ DOMAIN Spoken = DOMAIN said
         /\ \A i \in DOMAIN said : Spoken[i] = said[i].text
         /\ embedded_object(Spoken) = LastObject
         /\ LastObject \in {"good", "bad", None}
         /\ LastObject = None => Whole(Spoken) = None
         /\ Whole(Spoken) = OnlyObject
         /\ OnlyObject \in {"good", "bad", None}
<1>1. DOMAIN out \subseteq 1 .. MaxLines
  BY BackendAssumption DEF TurnTypeOK, BackendAssumption
<1>2. /\ DOMAIN Spoken = DOMAIN said
      /\ \A i \in DOMAIN said : Spoken[i] = said[i].text
  BY DEF Spoken
<1>3. Spoken \in Replies
  <2>1. DOMAIN said \in SUBSET (1 .. MaxLines)
    BY <1>1
  <2>2. Spoken \in [DOMAIN said -> Texts]
    BY DEF Spoken
  <2> QED BY <2>1, <2>2 DEF Replies
<1> DEFINE holding == {i \in DOMAIN said : said[i].text # "prose"}
<1>4. {i \in DOMAIN Spoken : Spoken[i] # "prose"} = holding
  BY <1>2
<1>5. holding # {} => Max(holding) \in holding
  <2>1. holding \in SUBSET DOMAIN out
    OBVIOUS
  <2> HIDE DEF holding
  <2> QED BY <2>1, LastLineIn
<1>6. embedded_object(Spoken) = LastObject
  <2>1. holding # {} => Spoken[Max(holding)] = said[Max(holding)].text
    BY <1>2, <1>5
  <2> QED BY <1>4, <2>1 DEF embedded_object, LastObject
<1>7. LastObject \in {"good", "bad", None}
  <2>1. CASE holding = {}
    BY <2>1 DEF LastObject
  <2>2. CASE holding # {}
    <3>1. said[Max(holding)].text \in Texts \ {"prose"}
      BY <1>5, <2>2
    <3> QED BY <2>2, <3>1 DEF LastObject, ObjectOf, Texts
  <2> QED BY <2>1, <2>2
<1>8. LastObject = None => Whole(Spoken) = None
  <2> SUFFICES ASSUME LastObject = None PROVE Whole(Spoken) = None
    OBVIOUS
  <2>1. holding = {}
    <3> SUFFICES ASSUME holding # {} PROVE FALSE
      OBVIOUS
    <3>1. said[Max(holding)].text \in Texts \ {"prose"}
      BY <1>5
    <3>2. LastObject = ObjectOf(said[Max(holding)].text)
      BY DEF LastObject
    <3> QED BY <3>1, <3>2, BackendAssumption DEF ObjectOf, Texts, BackendAssumption
  <2>2. \A i \in DOMAIN Spoken : Spoken[i] = "prose"
    BY <1>2, <2>1
  <2> QED BY <2>2 DEF Whole
<1>9. Whole(Spoken) = OnlyObject /\ OnlyObject \in {"good", "bad", None}
  <2> DEFINE alone(i) == DOMAIN said = {i} /\ said[i].text \in {"good", "bad"}
  <2>1. CASE \E i \in DOMAIN said : alone(i)
    <3>1. PICK i \in DOMAIN said : alone(i)
      BY <2>1
    <3>2. i \in Nat
      BY <3>1 DEF TurnTypeOK
    <3>3. Max(DOMAIN said) = i
      BY <3>1, <3>2, MaxOfSingle
    <3>4. OnlyObject = said[i].text
      BY <3>1, <3>3 DEF OnlyObject
    <3>5. Whole(Spoken) = Spoken[i]
      BY <1>2, <3>1, <3>3 DEF Whole
    <3> QED BY <1>2, <3>1, <3>4, <3>5
  <2>2. CASE ~\E i \in DOMAIN said : alone(i)
    <3>1. OnlyObject = None
      BY <2>2 DEF OnlyObject
    <3>2. Whole(Spoken) = None
      BY <1>2, <2>2 DEF Whole
    <3> QED BY <3>1, <3>2
  <2> QED BY <2>1, <2>2
<1> QED BY <1>2, <1>3, <1>6, <1>7, <1>8, <1>9

(* Codex's reply is every message, under the thread it started. *)
LEMMA CodexReadsWell ==
  ASSUME TurnTypeOK, at \in Sessions, exit \in {0, 1}, backend = "codex",
         CodexFacts
  PROVE  ReadsWell(codex(out, exit))
<1> DEFINE started == OfType(out, {"start"})
           spoken  == [i \in OfType(out, {"message"}) |-> out[i].text]
<1>1. CASE exit # 0
  <2>1. codex(out, exit) = Raised(reported_error(out))
    BY <1>1 DEF codex
  <2> QED BY <1>1, <2>1, ReportedWell DEF CodexFacts
<1>2. CASE exit = 0 /\ started = {}
  <2>1. codex(out, exit) = Raised(Unusable)
    BY <1>2 DEF codex
  <2>2. names # {at} /\ ~failed /\ Unusable \in Errors
    BY <1>2 DEF CodexFacts, Errors
  <2> QED BY <1>2, <2>1, <2>2, RaisesWell
<1>3. CASE exit = 0 /\ started # {}
  <2>1. Max(started) \in started
    BY <1>3, LastLineIn DEF OfType
  <2>2. out[Max(started)].session = at
    BY <2>1 DEF CodexFacts, CodexLine, OfType
  <2>3. codex(out, exit) = Turned(at, spoken, None)
    BY <1>3, <2>2 DEF codex
  <2>4. /\ DOMAIN said \subseteq DOMAIN out
        /\ \A i \in DOMAIN said : said[i].text \in Texts
        /\ ~failed
    BY <1>3 DEF CodexFacts, CodexLine, OfType
  <2>5. spoken = Spoken
    BY DEF CodexFacts, Spoken
  <2>6. /\ Spoken \in Replies
        /\ Whole(Spoken) = OnlyObject
        /\ OnlyObject \in {"good", "bad", None}
    BY <2>4, SpokenReply
  <2>7. Answer = OnlyObject
    BY DEF Answer, enforces_schema, CodexFacts
  <2>8. /\ structured_reply(Spoken, None) \in {"good", "bad", None}
        /\ schema => structured_reply(Spoken, None) = Answer
    BY <2>6, <2>7 DEF structured_reply
  <2>9. codex(out, exit) = [error |-> None, session |-> at, reply |-> Spoken,
                            structured |-> structured_reply(Spoken, None)]
    BY <2>3, <2>5 DEF Turned
  <2> QED BY <1>3, <2>4, <2>6, <2>8, <2>9 DEF ReadsWell, Results
<1> QED BY <1>1, <1>2, <1>3

(* Opencode's reply is each part at its first place with its last text. *)
LEMMA OpencodeReadsWell ==
  ASSUME TurnTypeOK, at \in Sessions, exit \in {0, 1}, backend = "opencode",
         OpencodeFacts
  PROVE  ReadsWell(opencode(out, exit))
<1> DEFINE events == json_objects(out)
<1>1. CASE exit # 0 \/ OfType(out, {"failure"}) # {}
  <2>1. opencode(out, exit) = Raised(reported_error(out))
    BY <1>1 DEF opencode
  <2> QED BY <1>1, <2>1, ReportedWell DEF OpencodeFacts
<1>2. CASE /\ exit = 0 /\ OfType(out, {"failure"}) = {}
           /\ events = {} \/ \E i \in events : out[i].session = None
  <2>1. opencode(out, exit) = Raised(Unusable)
    BY <1>2 DEF opencode
  <2>2. names # {at}
    <3>1. CASE events = {}
      BY <3>1 DEF OpencodeFacts
    <3>2. CASE \E i \in events : out[i].session = None
      <4>1. PICK i \in events : out[i].session = None
        BY <3>2
      <4>2. None \in names
        BY <1>2, <4>1 DEF json_objects, OfType, OpencodeFacts, OpencodeLine
      <4> QED BY <4>2, BackendAssumption DEF BackendAssumption
    <3> QED BY <1>2, <3>1, <3>2
  <2>3. ~failed /\ Unusable \in Errors
    BY <1>2 DEF OpencodeFacts, Errors
  <2> QED BY <1>2, <2>1, <2>2, <2>3, RaisesWell
<1>3. CASE /\ exit = 0 /\ OfType(out, {"failure"}) = {}
           /\ events # {} /\ \A i \in events : out[i].session # None
  <2>1. Max(events) \in events
    BY <1>3, LastLineIn DEF json_objects
  <2>2. out[Max(events)].session = at
    BY <1>3, <2>1 DEF json_objects, OfType, OpencodeFacts, OpencodeLine
  <2>3. Concluded(out) = Spoken
    BY DEF OpencodeFacts, Concluded, Spoken
  <2>4. ~failed /\ DOMAIN said \subseteq DOMAIN out
        /\ \A i \in DOMAIN said : said[i].text \in Texts
    <3>1. ~failed /\ DOMAIN said \subseteq DOMAIN out
      BY <1>3 DEF OpencodeFacts, FirstOfPart, OfType
    <3>2. ASSUME NEW i \in DOMAIN said PROVE said[i].text \in Texts
      <4> DEFINE part == PartsOf(out, out[i].part)
      <4>1. i \in part /\ part \subseteq DOMAIN out
        BY <3>2 DEF OpencodeFacts, FirstOfPart, PartsOf, OfType
      <4>2. Max(part) \in part
        <5> HIDE DEF part
        <5> QED BY <4>1, LastLineIn
      <4>3. said[i].text = out[Max(part)].text /\ out[Max(part)].type = "message"
            /\ Max(part) \in DOMAIN out
        BY <4>2 DEF OpencodeFacts, PartsOf, OfType
      <4> QED BY <4>3 DEF OpencodeFacts, OpencodeLine
    <3> QED BY <3>1, <3>2
  <2>5. /\ Spoken \in Replies
        /\ embedded_object(Spoken) = LastObject
        /\ LastObject \in {"good", "bad", None}
        /\ LastObject = None => Whole(Spoken) = None
    BY <2>4, SpokenReply
  <2>6. /\ structured_reply(Spoken, LastObject) \in {"good", "bad", None}
        /\ schema => structured_reply(Spoken, LastObject) = Answer
    <3>1. Answer = LastObject
      BY DEF Answer, enforces_schema, OpencodeFacts
    <3> QED BY <2>5, <3>1 DEF structured_reply
  <2>7. opencode(out, exit) =
          [error |-> None, session |-> at, reply |-> Spoken,
           structured |-> structured_reply(Spoken, LastObject)]
    BY <1>3, <2>2, <2>3, <2>5 DEF opencode, Turned
  <2> QED BY <1>3, <2>4, <2>5, <2>6, <2>7 DEF ReadsWell, Results
<1> QED BY <1>1, <1>2, <1>3

(* Whatever the backend, its adapter reads a finished run well. *)
LEMMA AdaptersReadWell ==
  ASSUME TurnTypeOK, Printed, pc = "run", exit # None
  PROVE  ReadsWell(run_turn)
<1>1. exit \in {0, 1} /\ at \in Sessions
  BY DEF TurnTypeOK, Printed
<1>2. backend \in {"claude", "grok", "codex", "opencode"}
  BY BackendAssumption DEF TurnTypeOK, BackendAssumption
<1>3. CASE backend = "claude"
  BY <1>1, <1>3, ClaudeReadsWell DEF Printed, run_turn
<1>4. CASE backend = "grok"
  BY <1>1, <1>4, GrokReadsWell DEF Printed, run_turn
<1>5. CASE backend = "codex"
  BY <1>1, <1>5, CodexReadsWell DEF Printed, run_turn
<1>6. CASE backend = "opencode"
  BY <1>1, <1>6, OpencodeReadsWell DEF Printed, run_turn
<1> QED BY <1>2, <1>3, <1>4, <1>5, <1>6

-----------------------------------------------------------------------------
(* What one more line does to the sets of lines the adapters look at. *)
LEMMA OneMoreLine ==
  ASSUME TurnTypeOK, NEW l \in Lines, Emit(l)
  PROVE  /\ here \in Nat /\ here \in 1 .. MaxLines
         /\ DOMAIN out = 1 .. Len(out) /\ here \notin DOMAIN out
         /\ out' \in Seq(Lines) /\ Len(out') <= MaxLines
         /\ DOMAIN out' = DOMAIN out \cup {here}
         /\ out'[here] = l
         /\ \A i \in DOMAIN out : out'[i] = out[i]
         /\ \A S \in SUBSET DOMAIN out : Max(S \cup {here}) = here
<1>1. /\ out \in Seq(Lines) /\ Len(out) \in Nat /\ DOMAIN out = 1 .. Len(out)
      /\ out' = Append(out, l) /\ Len(out) < MaxLines /\ MaxLines \in Nat
  BY BackendAssumption DEF TurnTypeOK, Emit, BackendAssumption
<1>2. /\ out' \in Seq(Lines) /\ Len(out') = Len(out) + 1
      /\ DOMAIN out' = 1 .. Len(out) + 1
      /\ out'[Len(out) + 1] = l
      /\ \A i \in DOMAIN out : out'[i] = out[i]
  BY <1>1
<1>3. \A S \in SUBSET DOMAIN out : Max(S \cup {Len(out) + 1}) = Len(out) + 1
  BY <1>1, MaxOfGain
<1>4. DOMAIN out' = DOMAIN out \cup {Len(out) + 1}
  BY <1>1, <1>2
<1>5. here = Len(out) + 1
  BY DEF here
<1> HIDE DEF here
<1>6. here \in Nat /\ here \in 1 .. MaxLines /\ here \notin DOMAIN out
  BY <1>1, <1>5
<1>7. Len(out') <= MaxLines
  BY <1>1, <1>2
<1> QED BY <1>1, <1>2, <1>3, <1>4, <1>5, <1>6, <1>7

(* A line joins the lines of its type, ... *)
LEMMA OneMoreOfType ==
  ASSUME TurnTypeOK, NEW l \in Lines, Emit(l), NEW T
  PROVE  OfType(out', T) = IF l.type \in T THEN OfType(out, T) \cup {here}
                           ELSE OfType(out, T)
BY OneMoreLine DEF OfType

(* ... and the objects, unless it is noise. *)
LEMMA OneMoreObject ==
  ASSUME TurnTypeOK, NEW l \in Lines, Emit(l)
  PROVE  json_objects(out') =
           IF l.type # "noise" THEN json_objects(out) \cup {here}
           ELSE json_objects(out)
BY OneMoreLine DEF json_objects

(* The reason given stays the last one. *)
LEMMA OneMoreReason ==
  ASSUME TurnTypeOK, NEW l \in Lines, Emit(l), ReasonGiven,
         why' = IF l.type = "failure" /\ l.text # None THEN l.text ELSE why
  PROVE  ReasonGiven'
<1> DEFINE gains == l.type = "failure" /\ l.text # None
<1>1. Reasoned(out) \subseteq DOMAIN out
  BY DEF Reasoned, OfType
<1>2. Reasoned(out') = IF gains THEN Reasoned(out) \cup {here} ELSE Reasoned(out)
  BY OneMoreLine DEF Reasoned, OfType
<1>3. CASE gains
  <2>1. Max(Reasoned(out')) = here /\ out'[here] = l
    BY <1>1, <1>2, <1>3, OneMoreLine
  <2> QED BY <1>2, <1>3, <2>1 DEF ReasonGiven
<1>4. CASE ~gains
  <2>1. Reasoned(out) # {} => out'[Max(Reasoned(out))] = out[Max(Reasoned(out))]
    BY <1>1, LastLineIn, OneMoreLine
  <2> QED BY <1>2, <1>4, <2>1 DEF ReasonGiven
<1> QED BY <1>3, <1>4

(* Claude's and grok's envelope stays the only one. *)
LEMMA EnvelopeStep ==
  ASSUME TurnTypeOK, at \in Sessions, backend \in {"claude", "grok"},
         EnvelopeFacts,
         Noise \/ Tip \/ Envelope \/ ReportFailure \/ RunWithoutTools
  PROVE  EnvelopeFacts'
<1>1. PICK l \in Lines : Emit(l) /\ EnvelopeLine(l)' /\
        \/ /\ l.type \in {"noise", "tip"}
           /\ UNCHANGED <<names, said, published, failed, why>>
        \/ /\ l.type \in Envelopes /\ ~Enveloped
  <2>1. CASE Noise
    BY <2>1, NoLineIsLine
       DEF Noise, EnvelopeLine, EnvelopeSays, Envelopes
  <2>2. CASE Tip
    <3>1. PICK s \in {None, at}, t \in Texts \cup {None} :
            /\ backend = "grok" => s = None
            /\ backend = "claude" => t = None
            /\ Emit(Line("tip", s, None, t, None))
      BY <2>2 DEF Tip, Texts
    <3>2. UNCHANGED <<names, said, published, failed, why, backend, at>>
      BY <2>2, <3>1 DEF Tip, Emit, agent
    <3>3. PICK l : l = Line("tip", s, None, t, None)
      OBVIOUS
    <3>4. /\ l \in Lines /\ l.type = "tip" /\ l.session = s
          /\ l.text = t /\ l.object = None
      BY <3>3 DEF Line, Lines
    <3>5. EnvelopeLine(l)'
      BY <3>1, <3>2, <3>4 DEF EnvelopeLine, EnvelopeSays, Envelopes
    <3> QED BY <3>1, <3>2, <3>3, <3>4, <3>5
  <2>3. CASE Envelope
    <3>1. PICK s \in {None, at}, t \in Texts \cup {None},
               o \in {"good", "bad", None} :
            /\ Emit(Line("result", s, None, t, o))
            /\ said' = IF t = None THEN <<>> ELSE <<Say(None, t)>>
            /\ published' = o
            /\ names' = {s}
      BY <2>3 DEF Envelope
    <3>2. /\ ~Enveloped /\ ~failed /\ why = None
          /\ UNCHANGED <<at, backend, failed, why>>
      BY <2>3, <3>1 DEF Envelope, Emit, EnvelopeFacts, agent
    <3>5. PICK l : l = Line("result", s, None, t, o)
      OBVIOUS
    <3>6. /\ l \in Lines /\ l.type = "result" /\ l.session = s
          /\ l.text = t /\ l.object = o
      BY <3>5 DEF Line, Lines
    <3>7. EnvelopeLine(l)'
      BY <3>1, <3>2, <3>6 DEF EnvelopeLine, EnvelopeSays, Envelopes
    <3> QED BY <3>1, <3>2, <3>5, <3>6, <3>7 DEF Envelopes
  <2>4. CASE ReportFailure
    <3>1. PICK r \in Reasons :
            /\ Emit(Line("failure", None, None, r, None))
            /\ why' = r
      BY <2>4, BackendAssumption DEF ReportFailure, BackendAssumption
    <3>2. /\ ~Enveloped /\ failed' = TRUE
      BY <2>4 DEF ReportFailure
    <3>3. PICK l : l = Line("failure", None, None, r, None)
      OBVIOUS
    <3>4. l \in Lines /\ l.type = "failure" /\ l.text = r
      BY <3>3 DEF Line, Lines
    <3>5. EnvelopeLine(l)'
      BY <3>1, <3>2, <3>4 DEF EnvelopeLine, EnvelopeSays, Envelopes
    <3> QED BY <3>1, <3>2, <3>3, <3>4, <3>5 DEF Envelopes
  <2>5. CASE RunWithoutTools
    <3>1. PICK l : l = Line("degraded", at, None, "prose", None)
      OBVIOUS
    <3>2. l \in Lines /\ l.type = "degraded"
      BY <3>1 DEF Line, Lines, Texts
    <3>3. /\ Emit(l) /\ ~Enveloped
          /\ failed' = TRUE /\ why' = None /\ backend' = "claude"
      BY <2>5, <3>1 DEF RunWithoutTools, EnvelopeFacts, Emit, agent
    <3>4. EnvelopeLine(l)'
      BY <3>2, <3>3 DEF EnvelopeLine, EnvelopeSays, Envelopes
    <3> QED BY <3>2, <3>3, <3>4 DEF Envelopes
  <2> QED BY <2>1, <2>2, <2>3, <2>4, <2>5
<1>2. UNCHANGED <<at, backend>>
  BY <1>1 DEF Emit, agent
<1>3. OfType(out', Envelopes) =
        IF l.type \in Envelopes THEN OfType(out, Envelopes) \cup {here}
        ELSE OfType(out, Envelopes)
  BY <1>1, OneMoreOfType
<1>4. CASE l.type \in {"noise", "tip"}
  <2>1. \A i \in DOMAIN out : EnvelopeLine(out[i])' 
    <3>1. UNCHANGED <<names, said, published, failed, why>> /\ l.type \notin Envelopes
      BY <1>1, <1>4 DEF Envelopes
    <3> QED BY <1>1, <1>2, <3>1, OneMoreLine
            DEF EnvelopeFacts, EnvelopeLine, EnvelopeSays
  <2> QED BY <1>1, <1>2, <1>3, <1>4, <2>1, OneMoreLine
          DEF EnvelopeFacts, Enveloped, Envelopes
<1>5. CASE l.type \in Envelopes /\ ~Enveloped
  <2>1. \A i \in DOMAIN out : out'[i] = out[i] /\ out[i].type \notin Envelopes
    BY <1>1, <1>5, OneMoreLine DEF Enveloped, OfType
  <2>2. \A i \in DOMAIN out : EnvelopeLine(out[i])'
    BY <1>2, <2>1 DEF EnvelopeFacts, EnvelopeLine, EnvelopeSays, Envelopes
  <2> QED BY <1>1, <1>3, <1>5, <2>2, OneMoreLine DEF EnvelopeFacts, Enveloped
<1> QED BY <1>1, <1>4, <1>5

(* A reason is recorded as it is printed. *)
LEMMA FailureReported ==
  ASSUME TurnTypeOK, at \in Sessions, backend \in {"codex", "opencode"},
         ReportFailure
  PROVE  \E l \in Lines :
           /\ Emit(l) /\ l.type = "failure" /\ l.text \in Reasons \cup {None}
           /\ why' = IF l.text # None THEN l.text ELSE why
<1>1. PICK r \in Reasons \cup {None} :
        /\ Emit(Line("failure", IF backend = "opencode" THEN at ELSE None,
                     None, r, None))
        /\ why' = IF r = None THEN why ELSE r
  BY DEF ReportFailure
<1>2. PICK s \in Sessions \cup {None} :
        Emit(Line("failure", s, None, r, None))
  BY <1>1
<1>3. PICK l : l = Line("failure", s, None, r, None)
  OBVIOUS
<1>4. l \in Lines /\ l.type = "failure" /\ l.text = r
  BY <1>3 DEF Line, Lines
<1> QED BY <1>1, <1>2, <1>3, <1>4

(* Codex's events stay in step with what it did. *)
LEMMA CodexStep ==
  ASSUME TurnTypeOK, at \in Sessions, backend = "codex", CodexFacts,
         Noise \/ Tip \/ Name \/ Message \/ ReportFailure
  PROVE  CodexFacts'
<1>1. PICK l \in Lines : Emit(l) /\
        \/ /\ l.type \in {"noise", "tip"}
           /\ UNCHANGED <<names, said, published, failed, why>>
        \/ /\ l.type = "start" /\ l.session = at /\ names' = {at}
           /\ UNCHANGED <<said, published, failed, why>>
        \/ /\ l.type = "message" /\ l.text \in Texts
           /\ said' = SaidNow(Say(None, l.text))
           /\ UNCHANGED <<names, published, failed, why>>
        \/ /\ l.type = "failure" /\ l.text \in Reasons \cup {None}
           /\ why' = IF l.text # None THEN l.text ELSE why
           /\ UNCHANGED <<names, said, published>>
  <2>1. CASE Noise
    BY <2>1, NoLineIsLine DEF Noise
  <2>2. CASE Tip
    <3>1. PICK s \in {None, at} : Emit(Line("tip", s, None, None, None))
      BY <2>2 DEF Tip
    <3>2. PICK l : l = Line("tip", s, None, None, None)
      OBVIOUS
    <3>3. l \in Lines /\ l.type = "tip"
      BY <3>2 DEF Line, Lines
    <3> QED BY <2>2, <3>1, <3>2, <3>3 DEF Tip
  <2>3. CASE Name
    <3>1. PICK l : l = Line("start", at, None, None, None)
      OBVIOUS
    <3>2. l \in Lines /\ l.type = "start" /\ l.session = at
      BY <3>1 DEF Line, Lines
    <3> QED BY <2>3, <3>1, <3>2 DEF Name
  <2>4. CASE Message
    <3>1. PICK t \in Texts : /\ Emit(Line("message", None, None, t, None))
                             /\ said' = SaidNow(Say(None, t))
      BY <2>4 DEF Message
    <3>2. PICK l : l = Line("message", None, None, t, None)
      OBVIOUS
    <3>3. l \in Lines /\ l.type = "message" /\ l.text = t
      BY <3>2 DEF Line, Lines
    <3> QED BY <2>4, <3>1, <3>2, <3>3 DEF Message
  <2>5. CASE ReportFailure
    BY <2>5, FailureReported DEF ReportFailure
  <2> QED BY <2>1, <2>2, <2>3, <2>4, <2>5
<1>2. UNCHANGED <<at, backend>>
  BY <1>1 DEF Emit, agent
<1>3. ReasonGiven'
  BY <1>1, OneMoreReason DEF CodexFacts
<1>4. (\A i \in DOMAIN out : CodexLine(out[i]))'
  <2>1. CodexLine(l)'
    BY <1>1, <1>2 DEF CodexLine
  <2>2. \A k : CodexLine(k) => CodexLine(k)'
    BY <1>2 DEF CodexLine
  <2>3. ASSUME NEW i \in DOMAIN out' PROVE CodexLine(out[i])'
    <3>1. PICK k : k = out'[i]
      OBVIOUS
    <3>2. CodexLine(k)'
      BY <1>1, <2>1, <2>2, <2>3, <3>1, OneMoreLine DEF CodexFacts
    <3> QED BY <3>1, <3>2
  <2> QED BY <2>3
<1>5. published' = None /\ (exit' = 0 => ~failed')
  BY <1>1, BackendAssumption DEF CodexFacts, Emit, Running, BackendAssumption
<1>6. names' = IF OfType(out', {"start"}) = {} THEN {} ELSE {at}
  <2>1. OfType(out', {"start"}) = IF l.type \in {"start"}
          THEN OfType(out, {"start"}) \cup {here} ELSE OfType(out, {"start"})
    BY <1>1, OneMoreOfType
  <2> QED BY <1>1, <2>1 DEF CodexFacts
<1>7. /\ DOMAIN said' = OfType(out', {"message"})
      /\ \A i \in DOMAIN said' : said'[i].text = out'[i].text
  <2>1. OfType(out', {"message"}) = IF l.type \in {"message"}
          THEN OfType(out, {"message"}) \cup {here} ELSE OfType(out, {"message"})
    BY <1>1, OneMoreOfType
  <2>2. \A i \in DOMAIN said : i \in DOMAIN out /\ out'[i] = out[i] /\ i # here
    BY <1>1, OneMoreLine DEF CodexFacts, OfType
  <2>3. CASE l.type # "message"
    BY <1>1, <1>2, <2>1, <2>2, <2>3 DEF CodexFacts
  <2>4. CASE l.type = "message"
    <3>1. /\ DOMAIN said' = DOMAIN said \cup {here}
          /\ said'[here].text = l.text
          /\ \A i \in DOMAIN said : said'[i] = said[i]
      BY <1>1, <2>2, <2>4 DEF SaidNow, Say
    <3>2. out'[here] = l
      BY <1>1, OneMoreLine
    <3> QED BY <2>1, <2>2, <2>4, <3>1, <3>2 DEF CodexFacts
  <2> QED BY <2>3, <2>4
<1> QED BY <1>2, <1>3, <1>4, <1>5, <1>6, <1>7 DEF CodexFacts

(* What one more line does to the parts printed. *)
LEMMA OneMorePart ==
  ASSUME TurnTypeOK, NEW l \in Lines, Emit(l)
  PROVE  /\ \A p : PartsOf(out, p) \subseteq DOMAIN out
         /\ \A p : PartsOf(out', p) =
              IF l.type = "message" /\ l.part = p THEN PartsOf(out, p) \cup {here}
              ELSE PartsOf(out, p)
         /\ FirstOfPart(out) \subseteq DOMAIN out
         /\ \A i \in DOMAIN out : i < here
         /\ FirstOfPart(out') =
              IF l.type = "message" /\ PartsOf(out, l.part) = {}
              THEN FirstOfPart(out) \cup {here} ELSE FirstOfPart(out)
<1>1. /\ \A p : PartsOf(out, p) \subseteq DOMAIN out
      /\ FirstOfPart(out) \subseteq DOMAIN out
  BY DEF PartsOf, FirstOfPart, OfType
<1>2. \A i \in DOMAIN out : i < here /\ i \in Nat
  BY OneMoreLine DEF here, TurnTypeOK
<1>3. OfType(out', {"message"}) =
        IF l.type = "message" THEN OfType(out, {"message"}) \cup {here}
        ELSE OfType(out, {"message"})
  BY OneMoreOfType
<1>4. \A p : PartsOf(out', p) =
         IF l.type = "message" /\ l.part = p THEN PartsOf(out, p) \cup {here}
         ELSE PartsOf(out, p)
  BY <1>3, OneMoreLine DEF PartsOf, OfType
<1>5. \A i \in DOMAIN out :
        i \in FirstOfPart(out') <=> i \in FirstOfPart(out)
  <2> SUFFICES ASSUME NEW i \in DOMAIN out
               PROVE  i \in FirstOfPart(out') <=> i \in FirstOfPart(out)
    OBVIOUS
  <2>1. i \in OfType(out', {"message"}) <=> i \in OfType(out, {"message"})
    BY <1>3, OneMoreLine
  <2>2. out'[i] = out[i] /\ i <= here
    BY <1>2, OneMoreLine
  <2>3. (\A j \in PartsOf(out', out[i].part) : i <= j)
          <=> (\A j \in PartsOf(out, out[i].part) : i <= j)
    BY <1>4, <2>2
  <2> QED BY <2>1, <2>2, <2>3 DEF FirstOfPart
<1>6. here \in FirstOfPart(out')
        <=> l.type = "message" /\ PartsOf(out, l.part) = {}
  <2>1. here \in OfType(out', {"message"}) <=> l.type = "message"
    BY <1>3, OneMoreLine DEF OfType
  <2>2. out'[here] = l /\ here \in Nat
    BY OneMoreLine
  <2>3. l.type = "message" =>
          ((\A j \in PartsOf(out', l.part) : here <= j)
             <=> PartsOf(out, l.part) = {})
    BY <1>1, <1>2, <1>4, <2>2
  <2> QED BY <2>1, <2>2, <2>3 DEF FirstOfPart
<1>7. FirstOfPart(out') \subseteq DOMAIN out \cup {here}
  BY OneMoreLine DEF FirstOfPart, OfType
<1>8. FirstOfPart(out') =
        IF l.type = "message" /\ PartsOf(out, l.part) = {}
        THEN FirstOfPart(out) \cup {here} ELSE FirstOfPart(out)
  <2>1. FirstOfPart(out) \subseteq DOMAIN out /\ here \notin DOMAIN out
    BY <1>1, OneMoreLine
  <2>2. CASE l.type = "message" /\ PartsOf(out, l.part) = {}
    BY <1>5, <1>6, <1>7, <2>1, <2>2
  <2>3. CASE ~(l.type = "message" /\ PartsOf(out, l.part) = {})
    BY <1>5, <1>6, <1>7, <2>1, <2>3
  <2> QED BY <2>2, <2>3
<1> QED BY <1>1, <1>2, <1>4, <1>8

(* A part that was printed was printed a first time. *)
LEMMA PartHasFirst ==
  ASSUME TurnTypeOK, NEW p, PartsOf(out, p) # {}
  PROVE  \E i \in FirstOfPart(out) : out[i].part = p
<1>1. PartsOf(out, p) \in SUBSET Nat
  BY DEF PartsOf, OfType, TurnTypeOK
<1>2. PICK i \in PartsOf(out, p) : \A j \in PartsOf(out, p) : i <= j
  BY <1>1, LeastNat
<1>3. i \in OfType(out, {"message"}) /\ out[i].part = p
  BY <1>2 DEF PartsOf
<1> QED BY <1>2, <1>3 DEF FirstOfPart

(* Opencode's events stay in step with what it did. *)
LEMMA OpencodeStep ==
  ASSUME TurnTypeOK, at \in Sessions, backend = "opencode", OpencodeFacts,
         Noise \/ Tip \/ TextPart \/ ReportFailure
  PROVE  OpencodeFacts'
<1>1. PICK l \in Lines : Emit(l) /\
        \/ /\ l.type = "noise"
           /\ UNCHANGED <<names, said, published, failed, why>>
        \/ /\ l.type = "tip" /\ l.session \in {None, at}
           /\ names' = names \cup {l.session}
           /\ UNCHANGED <<said, published, failed, why>>
        \/ /\ l.type = "message" /\ l.session = at /\ l.text \in Texts
           /\ names' = names \cup {at}
           /\ said' = IF \E i \in DOMAIN said : said[i].part = l.part
                      THEN [i \in DOMAIN said |->
                              IF said[i].part = l.part THEN Say(l.part, l.text)
                              ELSE said[i]]
                      ELSE SaidNow(Say(l.part, l.text))
           /\ UNCHANGED <<published, failed, why>>
        \/ /\ l.type = "failure" /\ l.text \in Reasons \cup {None}
           /\ why' = IF l.text # None THEN l.text ELSE why
           /\ failed' = TRUE
           /\ UNCHANGED <<names, said, published>>
  <2>1. CASE Noise
    BY <2>1, NoLineIsLine DEF Noise
  <2>2. CASE Tip
    <3>1. PICK s \in {None, at} : /\ Emit(Line("tip", s, None, None, None))
                                  /\ names' = names \cup {s}
      BY <2>2 DEF Tip
    <3>2. PICK l : l = Line("tip", s, None, None, None)
      OBVIOUS
    <3>3. l \in Lines /\ l.type = "tip" /\ l.session = s
      BY <3>2 DEF Line, Lines
    <3> QED BY <2>2, <3>1, <3>2, <3>3 DEF Tip
  <2>3. CASE TextPart
    <3>1. PICK p \in Parts, t \in Texts :
            /\ Emit(Line("message", at, p, t, None))
            /\ said' = IF \E i \in DOMAIN said : said[i].part = p
                       THEN [i \in DOMAIN said |->
                               IF said[i].part = p THEN Say(p, t) ELSE said[i]]
                       ELSE SaidNow(Say(p, t))
      BY <2>3 DEF TextPart
    <3>2. PICK l : l = Line("message", at, p, t, None)
      OBVIOUS
    <3>3. /\ l \in Lines /\ l.type = "message" /\ l.session = at
          /\ l.text = t /\ l.part = p /\ t \in Texts
      BY <3>2 DEF Line, Lines
    <3> QED BY <2>3, <3>1, <3>2, <3>3 DEF TextPart
  <2>4. CASE ReportFailure
    BY <2>4, FailureReported DEF ReportFailure
  <2> QED BY <2>1, <2>2, <2>3, <2>4
<1>2. UNCHANGED <<at, schema, backend>> /\ names \subseteq names'
  BY <1>1 DEF Emit, agent, given
<1>3. ReasonGiven'
  BY <1>1, OneMoreReason DEF OpencodeFacts
<1>4. (\A i \in DOMAIN out : OpencodeLine(out[i]))'
  <2>1. OpencodeLine(l)'
    BY <1>1 DEF OpencodeLine
  <2>2. \A k : OpencodeLine(k) => OpencodeLine(k)'
    BY <1>2 DEF OpencodeLine
  <2>3. ASSUME NEW i \in DOMAIN out' PROVE OpencodeLine(out[i])'
    <3>1. PICK k : k = out'[i]
      OBVIOUS
    <3>2. OpencodeLine(k)'
      BY <1>1, <2>1, <2>2, <2>3, <3>1, OneMoreLine DEF OpencodeFacts
    <3> QED BY <3>1, <3>2
  <2> QED BY <2>3
<1>5. published' = None
  BY <1>1 DEF OpencodeFacts
<1>6. failed' <=> OfType(out', {"failure"}) # {}
  <2>1. OfType(out', {"failure"}) = IF l.type \in {"failure"}
          THEN OfType(out, {"failure"}) \cup {here} ELSE OfType(out, {"failure"})
    BY <1>1, OneMoreOfType
  <2> QED BY <1>1, <2>1 DEF OpencodeFacts
<1>7. /\ names' \subseteq {None, at'}
      /\ names' # {} => json_objects(out') # {}
  <2>1. json_objects(out') =
          IF l.type # "noise" THEN json_objects(out) \cup {here}
          ELSE json_objects(out)
    BY <1>1, OneMoreObject
  <2> QED BY <1>1, <1>2, <2>1 DEF OpencodeFacts
<1>8. /\ DOMAIN said' = FirstOfPart(out')
      /\ \A i \in DOMAIN said' :
           /\ said'[i].part = out'[i].part
           /\ said'[i].text = out'[Max(PartsOf(out', out'[i].part))].text
  <2>1. /\ \A p : PartsOf(out, p) \subseteq DOMAIN out
        /\ \A p : PartsOf(out', p) =
             IF l.type = "message" /\ l.part = p THEN PartsOf(out, p) \cup {here}
             ELSE PartsOf(out, p)
        /\ FirstOfPart(out) \subseteq DOMAIN out
        /\ FirstOfPart(out') =
             IF l.type = "message" /\ PartsOf(out, l.part) = {}
             THEN FirstOfPart(out) \cup {here} ELSE FirstOfPart(out)
    BY <1>1, OneMorePart
  <2>2. /\ DOMAIN said = FirstOfPart(out)
        /\ \A i \in DOMAIN said :
             /\ i \in DOMAIN out /\ i # here /\ out'[i] = out[i]
             /\ said[i].part = out[i].part
             /\ said[i].text = out[Max(PartsOf(out, out[i].part))].text
    BY <1>1, <2>1, OneMoreLine DEF OpencodeFacts
  <2>3. (\E i \in DOMAIN said : said[i].part = l.part)
          <=> PartsOf(out, l.part) # {}
    <3>1. \A i \in DOMAIN said : i \in PartsOf(out, said[i].part)
      BY <2>2 DEF FirstOfPart, PartsOf, OfType
    <3>2. PartsOf(out, l.part) # {} =>
            \E i \in FirstOfPart(out) : out[i].part = l.part
      BY PartHasFirst
    <3> QED BY <2>2, <3>1, <3>2
  <2>4. ASSUME NEW i \in DOMAIN said, ~(l.type = "message" /\ said[i].part = l.part)
        PROVE  said[i].text = out'[Max(PartsOf(out', out'[i].part))].text
    <3>1. PartsOf(out', out'[i].part) = PartsOf(out, out[i].part)
      BY <2>1, <2>2, <2>4
    <3>2. i \in PartsOf(out, out[i].part)
      BY <2>2 DEF FirstOfPart, PartsOf, OfType
    <3>3. Max(PartsOf(out, out[i].part)) \in DOMAIN out
      BY <2>1, <3>2, LastLineIn
    <3>4. out'[Max(PartsOf(out, out[i].part))] = out[Max(PartsOf(out, out[i].part))]
      BY <1>1, <3>3, OneMoreLine
    <3> QED BY <2>2, <3>1, <3>4
  <2>5. CASE l.type # "message"
    BY <1>1, <2>1, <2>2, <2>4, <2>5
  <2>6. CASE l.type = "message"
    <3>1. out'[here] = l
          /\ Max(PartsOf(out', l.part)) = here
      BY <1>1, <2>1, <2>6, OneMoreLine
    <3>2. CASE PartsOf(out, l.part) = {}
      <4>1. said' = SaidNow(Say(l.part, l.text))
        BY <1>1, <2>3, <2>6, <3>2
      <4>2. /\ DOMAIN said' = DOMAIN said \cup {here}
            /\ said'[here].part = l.part /\ said'[here].text = l.text
            /\ \A i \in DOMAIN said : said'[i] = said[i]
        BY <2>2, <4>1 DEF SaidNow, Say
      <4>3. \A i \in DOMAIN said : said[i].part # l.part
        BY <2>3, <3>2
      <4> QED BY <2>1, <2>2, <2>4, <2>6, <3>1, <3>2, <4>2, <4>3
    <3>3. CASE PartsOf(out, l.part) # {}
      <4>1. said' = [i \in DOMAIN said |->
                       IF said[i].part = l.part THEN Say(l.part, l.text)
                       ELSE said[i]]
        BY <1>1, <2>3, <2>6, <3>3
      <4>2. /\ DOMAIN said' = DOMAIN said
            /\ \A i \in DOMAIN said :
                 IF said[i].part = l.part
                 THEN said'[i].part = l.part /\ said'[i].text = l.text
                 ELSE said'[i] = said[i]
        BY <4>1 DEF Say
      <4> QED BY <2>1, <2>2, <2>4, <2>6, <3>1, <3>3, <4>2
    <3> QED BY <3>2, <3>3
  <2> QED BY <2>5, <2>6
<1> QED BY <1>2, <1>3, <1>4, <1>5, <1>6, <1>7, <1>8 DEF OpencodeFacts

-----------------------------------------------------------------------------
(* Every step of a talk is a step of the validated call, or none of it.    *)
LEMMA CliLeavesTheCall == ASSUME CliStep PROVE UNCHANGED vars
BY DEF CliStep, Noise, Tip, Name, Message, TextPart, Envelope, ReportFailure,
       RunWithoutTools, Exit, Emit

(* Whoever takes a step, the validated call takes it or stands still. *)
LEMMA TurnStepSimulation ==
  ASSUME [TurnNext]_turnVars
  PROVE  [Next]_vars
<1>1. CASE Talk \/ Repair
  BY <1>1 DEF Talk, Repair, Start, Next
<1>2. CASE CliStep
  BY <1>2, CliLeavesTheCall
<1>3. CASE PassTime \/ Expire \/ Collect
  BY <1>3 DEF PassTime, Expire, Collect, Raise, Land, Next
<1>4. CASE Record \/ Return \/ Reject
  BY <1>4 DEF Record, Return, Reject, Next
<1>5. CASE TurnDone \/ UNCHANGED turnVars
  BY <1>5 DEF TurnDone, turnVars
<1> QED BY <1>1, <1>2, <1>3, <1>4, <1>5 DEF TurnNext

(* A talk through any of the adapters is a validated call: what is proved  *)
(* of ValidatedTurn's budget, retries and recorded positions holds of it.  *)
THEOREM ImplementsValidatedTurn == TurnSpec => Spec
<1>1. TurnInit => Init
  BY DEF TurnInit
<1>2. [TurnNext]_turnVars => [Next]_vars
  BY TurnStepSimulation
<1> QED BY <1>1, <1>2, PTL DEF TurnSpec, Spec

-----------------------------------------------------------------------------
(* A talk starts in the invariant. *)
LEMMA TurnStarts == ASSUME TurnInit PROVE TurnIInv
<1>1. /\ pc = "start" /\ exit = None /\ out = <<>>
  BY DEF TurnInit, Init
<1>2. TurnTypeOK
  <2>1. <<>> \in Seq(Lines) /\ Len(<<>>) = 0 /\ Len(<<>>) <= MaxLines
    BY BackendAssumption DEF BackendAssumption
  <2>2. argv \in [resume: Sessions \cup {None}, fork: BOOLEAN, document: BOOLEAN]
    BY DEF TurnInit
  <2>3. out \in Seq(Lines) /\ Len(out) <= MaxLines
    BY <1>1, <2>1
  <2>4. /\ backend \in Backends /\ schema \in BOOLEAN
        /\ session \in Sessions \cup {None} /\ pending \in Sessions \cup {None}
        /\ None \in {session, pending}
    BY DEF TurnInit
  <2>5. /\ at = None /\ names = {} /\ published = None
        /\ failed = FALSE /\ why = None
        /\ result = None /\ error = None
    BY DEF TurnInit
  <2>6. names \subseteq Sessions \cup {None} /\ failed \in BOOLEAN
    BY <2>5
  <2> QED BY <1>1, <2>2, <2>3, <2>4, <2>5, <2>6 DEF TurnTypeOK
<1> QED BY <1>1, <1>2 DEF TurnIInv, Printed, Landed, Told, AnswerIsKept,
                         FailuresAreRaised, VerdictIsEarned, Read

(* A run starts with nothing printed, and with the document, if it has one,*)
(* in the prompt or in the CLI's own hands.                                *)
LEMMA StartsWell ==
  ASSUME TurnIInv, NEW prompt, Start(prompt),
         schema => enforces_schema \/ "document" \in prompt
  PROVE  TurnIInv'
<1>1. /\ pc' = "run" /\ out' = <<>> /\ exit' = None
      /\ names' = {} /\ said' = <<>> /\ published' = None
      /\ ~failed' /\ why' = None
      /\ result' = None /\ error' = None
      /\ UNCHANGED <<backend, session, pending, schema>>
      /\ argv' = Argv(prompt)
      /\ at' \in (Sessions \ {session, pending})
                   \cup ({Argv(prompt).resume} \ {None})
  BY DEF Start, Launch, Goto, agent
<1>2. /\ Argv(prompt) \in [resume: Sessions \cup {None}, fork: BOOLEAN,
                           document: BOOLEAN]
      /\ schema => Argv(prompt).document
      /\ Argv(prompt).fork = (pending # None)
      /\ pending # None => Argv(prompt).resume = pending
      /\ Argv(prompt).resume \in Sessions \cup {None}
  BY DEF Argv, TurnIInv, TurnTypeOK, enforces_schema
<1>3. at' \in Sessions
  BY <1>1, <1>2
<1>4. DOMAIN out' = {} /\ out' \in Seq(Lines) /\ Len(out') = 0
  BY <1>1
<1>5. TurnTypeOK'
  <2>1. failed' \in BOOLEAN
    BY DEF Start
  <2> QED BY <1>1, <1>2, <1>3, <1>4, <2>1, BackendAssumption
          DEF TurnIInv, TurnTypeOK, BackendAssumption
<1>6. Printed'
  <2>1. /\ \A T : OfType(out', T) = {}
        /\ json_objects(out') = {} /\ Reasoned(out') = {}
        /\ FirstOfPart(out') = {}
    BY <1>4 DEF OfType, json_objects, Reasoned, FirstOfPart
  <2>2. EnvelopeFacts'
    BY <1>1, <1>4, <2>1 DEF EnvelopeFacts, Enveloped
  <2>3. DOMAIN said' = {} /\ ReasonGiven'
    BY <1>1, <2>1 DEF ReasonGiven
  <2>4. CodexFacts' /\ OpencodeFacts'
    BY <1>1, <1>4, <2>1, <2>3, BackendAssumption
       DEF CodexFacts, OpencodeFacts, BackendAssumption
  <2> QED BY <1>3, <2>2, <2>4 DEF Printed
<1>7. Landed' /\ Told'
  BY <1>1, <1>2 DEF Landed, Told
<1>8. (AnswerIsKept /\ FailuresAreRaised /\ VerdictIsEarned)'
  BY <1>1 DEF AnswerIsKept, FailuresAreRaised, VerdictIsEarned, Read
<1> QED BY <1>5, <1>6, <1>7, <1>8 DEF TurnIInv

(* The CLI prints, and exits. *)
LEMMA CliStepsWell ==
  ASSUME TurnIInv, CliStep
  PROVE  TurnIInv'
<1>1. /\ pc = "run" /\ exit = None
      /\ UNCHANGED <<pc, backend, session, pending, schema, argv, at, result,
                     error>>
  BY DEF CliStep, Noise, Tip, Name, Message, TextPart, Envelope, ReportFailure,
         RunWithoutTools, Exit, Emit, Running, vars, agent, given
<1>2. TurnTypeOK /\ at \in Sessions
  BY <1>1 DEF TurnIInv, Printed
<1>3. CASE Exit
  <2>1. /\ exit' \in {0, 1}
        /\ UNCHANGED <<out, names, said, published, failed, why>>
        /\ backend = "codex" /\ exit' = 0 => ~failed
    BY <1>3 DEF Exit
  <2>2. TurnTypeOK'
    BY <1>1, <1>2, <2>1 DEF TurnTypeOK
  <2>3. Printed'
    BY <1>1, <2>1
       DEF TurnIInv, Printed, EnvelopeFacts, EnvelopeLine, EnvelopeSays,
           Enveloped, CodexFacts, CodexLine, OpencodeFacts, OpencodeLine,
           ReasonGiven
  <2> QED BY <1>1, <2>2, <2>3
          DEF TurnIInv, Landed, Told, AnswerIsKept, FailuresAreRaised,
              VerdictIsEarned, Read
<1>4. CASE ~Exit
  <2>1. exit' = exit
    BY <1>4 DEF CliStep, Noise, Tip, Name, Message, TextPart, Envelope,
                ReportFailure, RunWithoutTools, Emit
  <2>2. PICK l \in Lines : Emit(l)
    <3>1. ASSUME NEW type \in {"noise", "tip", "start", "message", "result",
                               "failure", "degraded"},
                 NEW s \in Sessions \cup {None}, NEW p \in Parts \cup {None},
                 NEW t \in Texts \cup Reasons \cup {None},
                 NEW o \in {"good", "bad", None}
          PROVE  Line(type, s, p, t, o) \in Lines
      BY DEF Line, Lines
    <3>3. CASE Noise
      BY <3>3, NoLineIsLine DEF Noise
    <3>4. CASE Tip
      BY <1>2, <3>1, <3>4 DEF Tip, Texts
    <3>5. CASE Name
      BY <1>2, <3>1, <3>5 DEF Name
    <3>6. CASE Message
      BY <1>2, <3>1, <3>6 DEF Message
    <3>7. CASE TextPart
      BY <1>2, <3>1, <3>7 DEF TextPart
    <3>8. CASE Envelope
      BY <1>2, <3>1, <3>8 DEF Envelope
    <3>9. CASE ReportFailure
      BY <1>2, <3>1, <3>9 DEF ReportFailure
    <3>10. CASE RunWithoutTools
      BY <1>2, <3>1, <3>10 DEF RunWithoutTools, Texts
    <3> QED BY <1>4, <3>3, <3>4, <3>5, <3>6, <3>7, <3>8, <3>9, <3>10
            DEF CliStep
  <2>3. TurnTypeOK'
    <3>1. out' \in Seq(Lines) /\ Len(out') <= MaxLines
      BY <1>2, <2>2, OneMoreLine
    <3>2. /\ names' \subseteq Sessions \cup {None}
          /\ published' \in {"good", "bad", None}
          /\ failed' \in BOOLEAN
          /\ why' \in Reasons \cup {None}
      BY <1>2, <1>4 DEF CliStep, Noise, Tip, Name, Message, TextPart, Envelope,
                        ReportFailure, RunWithoutTools, TurnTypeOK
    <3> QED BY <1>1, <1>2, <2>1, <3>1, <3>2 DEF TurnTypeOK
  <2>4. Printed'
    <3>1. CASE backend \in {"claude", "grok"}
      <4>1. Noise \/ Tip \/ Envelope \/ ReportFailure \/ RunWithoutTools
        BY <1>4, <3>1 DEF CliStep, Name, Message, TextPart
      <4>2. EnvelopeFacts'
        BY <1>1, <1>2, <3>1, <4>1, EnvelopeStep DEF TurnIInv, Printed
      <4> QED BY <1>1, <1>2, <3>1, <4>2 DEF Printed
    <3>2. CASE backend = "codex"
      <4>1. Noise \/ Tip \/ Name \/ Message \/ ReportFailure
        BY <1>4, <3>2 DEF CliStep, TextPart, Envelope, RunWithoutTools
      <4>2. CodexFacts'
        BY <1>1, <1>2, <3>2, <4>1, CodexStep DEF TurnIInv, Printed
      <4> QED BY <1>1, <1>2, <3>2, <4>2 DEF Printed
    <3>3. CASE backend = "opencode"
      <4>1. Noise \/ Tip \/ TextPart \/ ReportFailure
        BY <1>4, <3>3 DEF CliStep, Name, Message, Envelope, RunWithoutTools
      <4>2. OpencodeFacts'
        BY <1>1, <1>2, <3>3, <4>1, OpencodeStep DEF TurnIInv, Printed
      <4> QED BY <1>1, <1>2, <3>3, <4>2 DEF Printed
    <3> QED BY <1>2, <3>1, <3>2, <3>3, BackendAssumption
            DEF TurnTypeOK, BackendAssumption
  <2> QED BY <1>1, <2>1, <2>3, <2>4
          DEF TurnIInv, Landed, Told, AnswerIsKept, FailuresAreRaised,
              VerdictIsEarned, Read
<1> QED BY <1>3, <1>4

(* A step that touches none of them keeps the invariant. *)
LEMMA IdleKeeps ==
  ASSUME TurnIInv,
         UNCHANGED <<pc, backend, session, pending, schema, argv, out, exit, at,
                     names, said, published, failed, why, result, error>>
  PROVE  TurnIInv'
<1>1. Answer' = Answer /\ Spoken' = Spoken /\ Forked' = Forked /\ Read' = Read
  BY DEF Answer, enforces_schema, OnlyObject, LastObject, Spoken, Forked, Read
<1>2. TurnTypeOK' /\ Told'
  BY DEF TurnIInv, TurnTypeOK, Told
<1>3. Printed'
  BY DEF TurnIInv, Printed, EnvelopeFacts, EnvelopeLine, EnvelopeSays, Enveloped,
         CodexFacts, CodexLine, OpencodeFacts, OpencodeLine, ReasonGiven
<1>4. Landed' /\ AnswerIsKept' /\ FailuresAreRaised' /\ VerdictIsEarned'
  BY <1>1 DEF TurnIInv, Landed, AnswerIsKept, FailuresAreRaised, VerdictIsEarned
<1> QED BY <1>2, <1>3, <1>4 DEF TurnIInv

(* Time passes, and a run is killed at the end of its grant. *)
LEMMA WaitsWell ==
  ASSUME TurnIInv, PassTime \/ Expire
  PROVE  TurnIInv'
<1>1. CASE PassTime
  <2>1. UNCHANGED <<pc, backend, session, pending, schema, argv, out, exit, at,
                    names, said, published, failed, why, result, error>>
    BY <1>1 DEF PassTime, Tick, agent, given, facts
  <2> QED BY <2>1, IdleKeeps
<1>2. CASE Expire
  <2>1. /\ pc' = "failed" /\ exit = None
        /\ error' = TimedOut /\ result' = None /\ out' = <<>>
        /\ UNCHANGED <<backend, session, pending, schema, argv, exit, at, names,
                       said, published, failed, why>>
    BY <1>2 DEF Expire, Running, Raise, Fail, Goto, agent, given, facts
  <2>2. out' \in Seq(Lines) /\ Len(out') = 0 /\ TimedOut \in Errors
    BY <2>1 DEF Errors
  <2>3. TurnTypeOK'
    BY <2>1, <2>2, BackendAssumption DEF TurnIInv, TurnTypeOK, BackendAssumption
  <2>4. Told'
    BY <1>2, <2>1 DEF TurnIInv, Told, Expire, Running
  <2> QED BY <2>1, <2>3, <2>4 DEF TurnIInv, Printed, Landed, AnswerIsKept,
                                  FailuresAreRaised, VerdictIsEarned, Read
<1> QED BY <1>1, <1>2

(* What a finished run reads as is raised, or is the agent's next turn. *)
LEMMA CollectsWell ==
  ASSUME TurnIInv, Collect
  PROVE  TurnIInv'
<1>1. /\ pc = "run" /\ exit # None /\ out' = <<>>
      /\ UNCHANGED <<backend, schema, argv, exit, at, names, said, published,
                     failed, why>>
  BY DEF Collect, Raise, Land, agent, given, facts
<1>2. /\ exit \in {0, 1} /\ at \in Sessions /\ None \notin Sessions
      /\ ReadsWell(run_turn)
  BY <1>1, AdaptersReadWell, BackendAssumption
     DEF TurnIInv, TurnTypeOK, Printed, BackendAssumption
<1>3. out' \in Seq(Lines) /\ Len(out') <= MaxLines
  <2>1. <<>> \in Seq(Lines) /\ Len(<<>>) = 0
    OBVIOUS
  <2> QED BY <1>1, <2>1, BackendAssumption DEF BackendAssumption
<1>4. Answer' = Answer /\ Spoken' = Spoken /\ Forked' = Forked
  BY <1>1 DEF Answer, enforces_schema, OnlyObject, LastObject, Spoken, Forked
<1>5. PICK turn : turn = run_turn
  OBVIOUS
<1>6. ASSUME NEW e \in Errors, Raise(e),
             exit = 0 /\ ~failed /\ names = {at} => ~Forked,
             exit # 0 \/ failed => e = IF why = None THEN Unusable ELSE why
      PROVE  TurnIInv'
  <2>1. /\ pc' = "failed" /\ error' = e /\ result' = None
        /\ UNCHANGED <<session, pending>>
    BY <1>6 DEF Raise, Fail, Goto, agent
  <2>2. TurnTypeOK'
    BY <1>1, <1>3, <2>1, <1>6 DEF TurnIInv, TurnTypeOK
  <2>3. Printed' /\ Landed' /\ VerdictIsEarned'
    BY <2>1 DEF Printed, Landed, VerdictIsEarned
  <2>4. Told'
    BY <1>1, <2>1 DEF TurnIInv, Told
  <2>5. AnswerIsKept'
    BY <1>1, <1>4, <1>6 DEF AnswerIsKept
  <2>6. FailuresAreRaised'
    BY <1>1, <1>6, <2>1 DEF FailuresAreRaised
  <2> QED BY <2>2, <2>3, <2>4, <2>5, <2>6 DEF TurnIInv
<1>7. CASE turn.error # None
  <2>1. Raise(turn.error) /\ turn.error \in Errors
    BY <1>2, <1>5, <1>7 DEF Collect, ReadsWell
  <2>2. /\ exit = 0 /\ ~failed /\ names = {at} => ~Forked
        /\ exit # 0 \/ failed =>
             turn.error = IF why = None THEN Unusable ELSE why
    BY <1>2, <1>5, <1>7 DEF ReadsWell
  <2> QED BY <1>6, <2>1, <2>2
<1>8. CASE turn.error = None
  <2>1. /\ turn \in Results /\ exit = 0 /\ ~failed /\ turn.session = at
        /\ schema => turn.structured = Answer
        /\ names = {at} => turn.reply = Spoken
    BY <1>2, <1>5, <1>8 DEF ReadsWell
  <2>2. CASE at = pending
    <3>1. Raise(NoFork) /\ NoFork \in Errors
      BY <1>5, <1>8, <2>1, <2>2 DEF Collect, Errors
    <3>2. ~Forked
      BY <1>1, <1>2, <2>2 DEF TurnIInv, Told, Forked
    <3> QED BY <1>6, <2>1, <3>1, <3>2
  <2>3. CASE at # pending
    <3>1. Land(turn)
      BY <1>5, <1>8, <2>1, <2>3 DEF Collect
    <3>2. /\ pc' = "record" /\ session' = at /\ pending' = None
          /\ result' = turn /\ error' = None
      BY <2>1, <3>1 DEF Land, Reply, Goto
    <3>3. TurnTypeOK'
      BY <1>1, <1>2, <1>3, <2>1, <3>2 DEF TurnIInv, TurnTypeOK
    <3>4. Printed' /\ VerdictIsEarned'
      BY <3>2 DEF Printed, VerdictIsEarned
    <3>5. Landed'
      BY <1>1, <1>4, <2>1, <3>2 DEF Landed
    <3>6. Told'
      BY <1>1, <3>2 DEF TurnIInv, Told
    <3>7. AnswerIsKept'
      BY <1>1, <1>4, <2>1, <3>2 DEF AnswerIsKept
    <3>8. FailuresAreRaised'
      BY <1>1, <2>1 DEF FailuresAreRaised
    <3> QED BY <3>3, <3>4, <3>5, <3>6, <3>7, <3>8 DEF TurnIInv
  <2> QED BY <2>2, <2>3
<1> QED BY <1>7, <1>8

(* The turn is recorded, returned or rejected on what landed. *)
LEMMA JudgesWell ==
  ASSUME TurnIInv, Record \/ Return \/ Reject
  PROVE  TurnIInv'
<1>1. /\ pc \in {"record", "validate"}
      /\ pc' \in {"validate", "gone", "returned", "invalid", "repair"}
      /\ UNCHANGED <<backend, session, pending, schema, argv, out, exit, at,
                     names, said, published, failed, why>>
  BY DEF Record, Return, Reject, Persist, Satisfied, Rejected, Goto, agent,
         given, facts
<1>2. \/ pc' \in {"gone", "invalid"} /\ result' = None
         /\ error' \in {Gone, Invalid}
      \/ pc' \notin {"gone", "invalid"} /\ UNCHANGED <<result, error>>
  BY DEF Record, Return, Reject, Persist, Satisfied, Rejected, Goto
<1>3. /\ exit = 0 /\ ~failed /\ session = at /\ error = None
      /\ schema => result.structured = Answer
  BY <1>1 DEF TurnIInv, Landed
<1>4. Answer' = Answer /\ Spoken' = Spoken /\ Forked' = Forked
  BY <1>1 DEF Answer, enforces_schema, OnlyObject, LastObject, Spoken, Forked
<1>5. TurnTypeOK'
  <2>1. Gone \in Errors /\ Invalid \in Errors
    BY DEF Errors
  <2> QED BY <1>1, <1>2, <2>1 DEF TurnIInv, TurnTypeOK
<1>6. Printed' /\ Told'
  BY <1>1 DEF TurnIInv, Printed, Told
<1>7. Landed'
  BY <1>1, <1>2, <1>3, <1>4 DEF Landed
<1>8. AnswerIsKept'
  <2>1. names = {at} /\ Forked => result.reply = Spoken
    <3>1. Read
      BY <1>1, <1>3, BackendAssumption DEF Read, BackendAssumption
    <3> QED BY <1>3, <3>1, BackendAssumption
            DEF TurnIInv, AnswerIsKept, BackendAssumption
  <2>2. pc' \in {"gone", "invalid"} => error' # None
    BY <1>2, BackendAssumption DEF BackendAssumption, Errors
  <2>3. error' \in {None, Invalid, Gone} /\ (error' = None => result' = result)
    BY <1>2, <1>3, <2>2
  <2> QED BY <1>1, <1>3, <1>4, <2>1, <2>3 DEF AnswerIsKept
<1>9. FailuresAreRaised'
  BY <1>1, <1>3 DEF FailuresAreRaised
<1>10. VerdictIsEarned'
  <2>1. CASE Record
    <3>1. pc' \in {"validate", "gone"}
      BY <2>1 DEF Record, Persist, Goto
    <3> QED BY <3>1 DEF VerdictIsEarned
  <2>2. CASE Return
    <3>1. pc' = "returned" /\ Valid
      BY <2>2 DEF Return, Satisfied, Goto
    <3> QED BY <1>1, <1>3, <1>4, <3>1 DEF VerdictIsEarned, Valid
  <2>3. CASE Reject
    <3>1. pc' \in {"invalid", "repair"} /\ ~Valid
      BY <2>3 DEF Reject, Rejected, Goto
    <3>2. argv.document
      BY <1>1, <3>1 DEF TurnIInv, Told, Valid
    <3> QED BY <1>1, <1>3, <1>4, <3>1, <3>2 DEF VerdictIsEarned, Valid
  <2> QED BY <2>1, <2>2, <2>3
<1> QED BY <1>5, <1>6, <1>7, <1>8, <1>9, <1>10 DEF TurnIInv

-----------------------------------------------------------------------------
(* Every step of a talk keeps the invariant. *)
LEMMA TurnInvariance ==
  ASSUME TurnIInv, [TurnNext]_turnVars
  PROVE  TurnIInv'
<1>1. CASE Talk
  <2>1. PICK prompt : prompt = IF schema THEN compose_schema_prompt ELSE {"user"}
    OBVIOUS
  <2>2. schema => enforces_schema \/ "document" \in prompt
    BY <2>1 DEF compose_schema_prompt, instruction
  <2> QED BY <1>1, <2>1, <2>2, StartsWell DEF Talk
<1>2. CASE Repair
  <2>1. PICK prompt : prompt = repair_prompt
    OBVIOUS
  <2>2. enforces_schema \/ "document" \in prompt
    BY <2>1 DEF repair_prompt, instruction
  <2> QED BY <1>2, <2>1, <2>2, StartsWell DEF Repair
<1>3. CASE CliStep
  BY <1>3, CliStepsWell
<1>4. CASE PassTime \/ Expire
  BY <1>4, WaitsWell
<1>5. CASE Collect
  BY <1>5, CollectsWell
<1>6. CASE Record \/ Return \/ Reject
  BY <1>6, JudgesWell
<1>7. CASE TurnDone \/ UNCHANGED turnVars
  <2>1. UNCHANGED <<pc, backend, session, pending, schema, argv, out, exit, at,
                    names, said, published, failed, why, result, error>>
    BY <1>7 DEF TurnDone, turnVars, vars, agent, given, facts
  <2> QED BY <2>1, IdleKeeps
<1> QED BY <1>1, <1>2, <1>3, <1>4, <1>5, <1>6, <1>7 DEF TurnNext

(* The invariant holds throughout every talk. *)
LEMMA AlwaysTurnIInv == TurnSpec => []TurnIInv
  BY TurnStarts, TurnInvariance, PTL DEF TurnSpec

(* An agent has a session or a source still to be forked from, never both, *)
(* and what a talk keeps of a run is a turn or an error (core.py:163-190). *)
THEOREM TurnTypeCorrect == TurnSpec => []TurnTypeOK
<1>1. TurnIInv => TurnTypeOK
  BY DEF TurnIInv
<1> QED BY <1>1, AlwaysTurnIInv, PTL

(* However much else a CLI prints around it, an answer it gave under its   *)
(* conversation's id is the reply, and the agent stays in the conversation *)
(* (backends/*.py: run_turn).                                              *)
THEOREM AnswersKept == TurnSpec => []AnswerIsKept
<1>1. TurnIInv => AnswerIsKept
  BY DEF TurnIInv
<1> QED BY <1>1, AlwaysTurnIInv, PTL

(* No adapter takes a failed run for a turn, and each raises the last      *)
(* reason its CLI gave.                                                    *)
THEOREM FailuresRaised == TurnSpec => []FailuresAreRaised
<1>1. TurnIInv => FailuresAreRaised
  BY DEF TurnIInv
<1> QED BY <1>1, AlwaysTurnIInv, PTL

(* A reply is accepted under a schema, or rejected, on the object its      *)
(* answer comes down to (the one its CLI published, else the reply itself; *)
(* opencode's last, wherever it sits) and after the model was shown the    *)
(* schema (base.py:484-506, core.py:663-708).                              *)
THEOREM VerdictsEarned == TurnSpec => []VerdictIsEarned
<1>1. TurnIInv => VerdictIsEarned
  BY DEF TurnIInv
<1> QED BY <1>1, AlwaysTurnIInv, PTL

(* A step that ends a run badly, or is no end of a run, leaves the agent   *)
(* where it was (core.py:163-185).                                         *)
LEMMA OnlyTurnsMove ==
  ASSUME TurnIInv, [TurnNext]_turnVars
  PROVE  /\ session' # session =>
              exit = 0 /\ ~failed /\ session' = at /\ session' # pending
         /\ pending' # pending => pending' = None /\ session' = at
<1>1. CASE \/ Talk \/ Repair \/ CliStep \/ PassTime \/ Expire \/ Record
           \/ Return \/ Reject \/ TurnDone \/ UNCHANGED turnVars
  <2>1. UNCHANGED <<session, pending>>
    BY <1>1 DEF Talk, Repair, Start, CliStep, Noise, Tip, Name, Message, TextPart,
         Envelope, ReportFailure, RunWithoutTools, Exit, Emit, PassTime, Expire,
         Raise, Record, Return, Reject, TurnDone, turnVars, agent
  <2> QED BY <2>1
<1>2. CASE Collect
  <2>1. ReadsWell(run_turn)
    BY <1>2, AdaptersReadWell DEF Collect, TurnIInv
  <2>2. CASE UNCHANGED agent
    BY <2>2 DEF agent
  <2>3. CASE run_turn.error = None /\ run_turn.session # pending /\ Land(run_turn)
    <3>1. session' = run_turn.session /\ pending' = None
      BY <2>3 DEF Land
    <3> QED BY <2>1, <2>3, <3>1 DEF ReadsWell
  <2> QED BY <1>2, <2>2, <2>3 DEF Collect, Raise
<1> QED BY <1>1, <1>2 DEF TurnNext

(* An agent changes conversations only with a turn finished in the new     *)
(* one, and its order to fork stands until then (core.py:175-185).         *)
THEOREM ConversationStays == TurnSpec => ConversationKept
<1>1. TurnIInv /\ [TurnNext]_turnVars =>
        [/\ session' # session =>
              exit = 0 /\ ~failed /\ session' = at /\ session' # pending
         /\ pending' # pending => pending' = None /\ session' = at]_turnVars
  BY OnlyTurnsMove
<1> QED BY <1>1, AlwaysTurnIInv, PTL DEF TurnSpec, ConversationKept

(* A talk keeps to its budget and its registry to its sessions, whichever  *)
(* CLI it runs: what is proved of the validated call, of this one.         *)
THEOREM TalkKeepsTheBudget ==
  TurnSpec => [](RunsWithinBudget /\ CallBounded /\ PositionRecorded)
BY ImplementsValidatedTurn, BudgetKept, CallTimeBounded, PositionNeverStale, PTL

=============================================================================
