---------------------- MODULE CollectionRequestsProofs ----------------------
(***************************************************************************)
(* Collections of money over an unreliable network: keys and references    *)
(* stand for one payment, and a collection that repeats its key implements *)
(* OncePerJob. The invariant says what a request has left behind at each   *)
(* stage; the rest follows from the checks under unique constraints. What  *)
(* an answer stands for and what is left of an EMI's balance are proved on *)
(* top of it.                                                              *)
(***************************************************************************)
EXTENDS CollectionRequests, SumTheorems, TLAPS

\* A form that was not filled in has submitted nothing.
NothingBeforeForm ==
  \A c \in Collections : view[c] = "NEW" =>
    \A r \in Requests : r[1] = c => stage[r] = "UNSENT"

\* Submissions are numbered in their order.
NothingAhead ==
  \A r \in Requests : r[2] > attempt[r[1]] => stage[r] = "UNSENT"

\* A form that waits has submitted.
WaitingWasSent ==
  \A c \in Collections : view[c] = "WAITING" => attempt[c] # 0

\* A form that was filled in knows its intent.
FormsFilled == \A c \in Collections : view[c] # "NEW" => intent[c] \in Intents

\* A payment belongs to a committed request, and a successful answer names a payment.
AnswersNamePayments ==
  \A r \in Requests :
    /\ payment[r] # "NONE" => stage[r] = "OK"
    /\ stage[r] = "OK" => result[r] \in Paid

\* A collection that repeats its key is answered with a payment of its own.
RepeatedAnswersOwn ==
  \A r \in Requests : stage[r] = "OK" /\ KeyRepeated(r[1]) => result[r][1] = r[1]

RequestInv ==
  /\ TypeOK /\ NothingBeforeForm /\ NothingAhead /\ WaitingWasSent /\ FormsFilled
  /\ AnswersNamePayments /\ PaymentsDistinct /\ RepeatedAnswersOwn

-----------------------------------------------------------------------------
(* Keys *)

\* A request has the key of a collection that repeats its key only if it is of that
\* collection, and no request of it has another.
LEMMA RepeatedKeyIsOwn ==
  ASSUME RequestInv,
         NEW r \in Requests, KeyRepeated(r[1]),
         NEW s \in Requests, stage[s] # "UNSENT"
  PROVE  SameKey(r, s) <=> s[1] = r[1]
<1>1. r[1] \in Collections /\ s[1] \in Collections
  BY DEF Requests
<1>2. Key(r) = <<"REPEATED", <<r[1], 0>>>>
  BY DEF KeyRepeated, Key, Asked
<1>3. view[s[1]] # "NEW"
  BY <1>1 DEF RequestInv, NothingBeforeForm
<1>4. Asked(s).client \in Clients
  BY <1>1, <1>3, IntentsFilled DEF RequestInv, FormsFilled, Asked
<1>5. CASE Asked(s).client \in {"COUNTER", "UNIFIED"}
  <2>1. Key(s) = <<"REQUEST", s>>
    BY <1>5 DEF Key
  <2>2. s[1] # r[1]
    BY <1>5 DEF KeyRepeated, Asked
  <2> QED BY <1>2, <2>1, <2>2 DEF SameKey
<1>6. CASE Asked(s).client = "UNIFIED_NO_UUID"
  <2>1. Key(s) = <<"ROUTED", <<Asked(s).amount, Asked(s).reference>>>>
    BY <1>6 DEF Key
  <2>2. s[1] # r[1]
    BY <1>6 DEF KeyRepeated, Asked
  <2> QED BY <1>2, <2>1, <2>2 DEF SameKey
<1>7. CASE Asked(s).client = "SCRIPT"
  <2>1. Key(s) = <<"REPEATED", <<s[1], 0>>>>
    BY <1>7 DEF Key
  <2> QED BY <1>2, <2>1 DEF SameKey, Asked
<1> QED BY <1>4, <1>5, <1>6, <1>7 DEF Clients

\* The EMI the server chooses is one of the subscription, or none.
LEMMA EmiForIsEmi ==
  ASSUME RequestInv, NEW r \in Requests, stage[r] # "UNSENT"
  PROVE  EmiFor(r) \in Emis \union {0}
<1>1. Asked(r) \in Intents
  BY DEF RequestInv, NothingBeforeForm, FormsFilled, Asked, Requests
<1>2. CASE Asked(r).emi # 0
  BY <1>1, <1>2, IntentsFilled DEF EmiFor
<1>3. CASE Asked(r).emi = 0 /\ Collectible # {}
  <2>1. Collectible \subseteq Nat /\ Collectible \subseteq Emis
    BY EmisNumbered DEF Collectible
  <2>2. PICK e \in Collectible : \A f \in Collectible : <<f, e>> \notin OpToRel(<, Nat)
    BY <1>3, <2>1, WFMin, NatLessThanWellFounded
  <2>3. \A f \in Collectible : e <= f
    <3> SUFFICES ASSUME NEW f \in Collectible PROVE e <= f
      OBVIOUS
    <3>1. <<f, e>> \in Nat \X Nat /\ e \in Nat /\ f \in Nat
      BY <2>1
    <3>2. ~(f < e)
      BY <2>2, <3>1 DEF OpToRel
    <3> QED BY <3>1, <3>2
  <2>4. Min(Collectible) \in Collectible
    BY <2>3 DEF Min
  <2> QED BY <1>3, <2>1, <2>4 DEF EmiFor
<1>4. CASE Asked(r).emi = 0 /\ Collectible = {}
  BY <1>4 DEF EmiFor
<1> QED BY <1>2, <1>3, <1>4

\* Payments stay distinct while neither they nor the forms change.
LEMMA DistinctUnchanged ==
  ASSUME PaymentsDistinct, UNCHANGED intent, Paid' = Paid
  PROVE  PaymentsDistinct'
<1> SUFFICES ASSUME NEW r \in Paid, NEW s \in Paid, (SameKey(r, s) \/ SameReference(r, s))'
             PROVE  r = s
  BY DEF PaymentsDistinct
<1>1. Asked(r)' = Asked(r) /\ Asked(s)' = Asked(s)
  BY DEF Asked
<1>2. Key(r)' = Key(r) /\ Key(s)' = Key(s)
  BY <1>1 DEF Key, Asked
<1> QED BY <1>1, <1>2 DEF PaymentsDistinct, SameKey, SameReference

-----------------------------------------------------------------------------
(* The invariant *)

LEMMA InitRequests == Init => RequestInv
<1> SUFFICES ASSUME Init PROVE RequestInv
  OBVIOUS
<1>1. TypeOK
  BY AttemptsBounded DEF Init, TypeOK
<1>2. Paid = {}
  BY DEF Init, Paid
<1> QED
  BY <1>1, <1>2 DEF Init, RequestInv, NothingBeforeForm, NothingAhead, WaitingWasSent, FormsFilled,
     AnswersNamePayments, PaymentsDistinct, RepeatedAnswersOwn

\* Forms: what is not yet filled in has sent nothing, so nothing paid changes its intent.
LEMMA FormSteps ==
  ASSUME RequestInv, NEW c \in Collections,
         \/ \E i \in Intents : FillIn(c, i)
         \/ Submit(c)
         \/ ReceiveAnswer(c)
         \/ StopWaiting(c)
  PROVE  RequestInv'
<1> USE DEF RequestInv
<1>1. CASE \E i \in Intents : FillIn(c, i)
  <2> PICK i \in Intents : FillIn(c, i)
    BY <1>1
  <2>1. TypeOK'
    BY DEF TypeOK, FillIn
  <2>2. \A r \in Requests : stage[r] # "UNSENT" => Asked(r)' = Asked(r) /\ view'[r[1]] = view[r[1]]
    BY DEF FillIn, NothingBeforeForm, Asked, TypeOK, Requests
  <2>3. NothingBeforeForm' /\ NothingAhead' /\ WaitingWasSent' /\ FormsFilled'
    BY DEF FillIn, NothingBeforeForm, NothingAhead, WaitingWasSent, FormsFilled, TypeOK
  <2>4. Paid' = Paid /\ AnswersNamePayments'
    BY DEF FillIn, AnswersNamePayments, Paid
  <2>5. \A r \in Paid : Asked(r)' = Asked(r)
    BY <2>2 DEF AnswersNamePayments, Paid
  <2>6. PaymentsDistinct'
    <3> SUFFICES ASSUME NEW r \in Paid, NEW s \in Paid, (SameKey(r, s) \/ SameReference(r, s))'
                 PROVE  r = s
      BY <2>4 DEF PaymentsDistinct
    <3>1. Key(r)' = Key(r) /\ Key(s)' = Key(s)
      BY <2>5 DEF Key, Asked, FillIn
    <3> QED BY <2>5, <3>1 DEF PaymentsDistinct, SameKey, SameReference
  <2>7. RepeatedAnswersOwn'
    BY <2>2 DEF FillIn, RepeatedAnswersOwn, KeyRepeated, Asked
  <2> QED BY <2>1, <2>3, <2>4, <2>6, <2>7
<1>2. CASE Submit(c)
  <2>1. <<c, attempt[c] + 1>> \in Requests
    BY <1>2, AttemptsBounded DEF Submit, TypeOK, Requests
  <2>2. TypeOK'
    BY <1>2, <2>1, AttemptsBounded DEF TypeOK, Submit
  <2>3. NothingBeforeForm' /\ WaitingWasSent' /\ FormsFilled'
    BY <1>2, <2>1 DEF Submit, NothingBeforeForm, WaitingWasSent, FormsFilled, TypeOK
  <2>5. stage[<<c, attempt[c] + 1>>] = "UNSENT" /\ NothingAhead'
    BY <1>2, <2>1 DEF Submit, NothingAhead, TypeOK, Requests
  <2>6. \A r \in Requests : stage[r] # "UNSENT" => stage'[r] = stage[r]
    BY <1>2, <2>5 DEF Submit, TypeOK
  <2>7. AnswersNamePayments'
    BY <1>2, <2>1, <2>6 DEF Submit, AnswersNamePayments, Paid, TypeOK
  <2>8. \A r \in Requests : KeyRepeated(r[1])' => KeyRepeated(r[1])
    BY <1>2 DEF Submit, KeyRepeated, TypeOK, Requests
  <2>9. RepeatedAnswersOwn'
    BY <1>2, <2>1, <2>8 DEF Submit, RepeatedAnswersOwn, TypeOK
  <2>4. PaymentsDistinct'
    BY <1>2 DEF Submit, PaymentsDistinct, Paid, SameKey, SameReference, Key, Asked
  <2> QED BY <2>2, <2>3, <2>4, <2>5, <2>7, <2>9
<1>3. CASE ReceiveAnswer(c) \/ StopWaiting(c)
  <2>1. /\ view' \in [Collections -> {"NEW", "EDITING", "WAITING", "DONE"}]
        /\ \A d \in Collections : view'[d] = "NEW" <=> view[d] = "NEW"
        /\ UNCHANGED <<intent, attempt, stage, emi, result, payment>>
    BY <1>3 DEF ReceiveAnswer, StopWaiting, TypeOK
  <2>2. PaymentsDistinct'
    BY <2>1 DEF PaymentsDistinct, Paid, SameKey, SameReference, Key, Asked
  <2>3. RepeatedAnswersOwn'
    BY <2>1 DEF RepeatedAnswersOwn, KeyRepeated, Requests
  <2>4. WaitingWasSent'
    BY <1>3 DEF WaitingWasSent, ReceiveAnswer, StopWaiting, TypeOK
  <2> QED
    BY <2>1, <2>2, <2>3, <2>4
    DEF TypeOK, NothingBeforeForm, NothingAhead, FormsFilled, AnswersNamePayments, Paid
<1> QED BY <1>1, <1>2, <1>3

\* An answer from the stored rows or from an existing payment names a payment; for a
\* collection that repeats its key, its own.
LEMMA AnswerSteps ==
  ASSUME RequestInv, NEW r \in Requests, ReplayStored(r) \/ Recognize(r)
  PROVE  RequestInv'
<1> USE DEF RequestInv
<1>1. /\ stage[r] = "SENT" /\ stage' = [stage EXCEPT ![r] = "OK"]
      /\ UNCHANGED <<intent, view, attempt, emi, payment>>
  BY DEF ReplayStored, Recognize
<1>2. \E p \in Paid : /\ result' = [result EXCEPT ![r] = p]
                      /\ KeyRepeated(r[1]) => p[1] = r[1]
  <2>1. CASE ReplayStored(r)
    <3> PICK s \in StoredAnswers(r) : result' = [result EXCEPT ![r] = result[s]]
      BY <2>1 DEF ReplayStored
    <3>1. s \in Requests /\ stage[s] = "OK" /\ SameKey(r, s)
      BY DEF StoredAnswers
    <3>2. KeyRepeated(r[1]) => s[1] = r[1]
      BY <3>1, RepeatedKeyIsOwn
    <3>3. KeyRepeated(r[1]) => result[s][1] = r[1]
      BY <3>1, <3>2 DEF RepeatedAnswersOwn
    <3> QED BY <3>1, <3>3 DEF AnswersNamePayments
  <2>2. CASE Recognize(r)
    <3> PICK s \in Found(r) : result' = [result EXCEPT ![r] = s]
      BY <2>2 DEF Recognize
    <3>1. s \in Paid /\ (SameReference(r, s) \/ SameKey(r, s))
      BY DEF Found, ByReference, ByKey
    <3>2. s \in Requests /\ stage[s] # "UNSENT"
      BY <3>1 DEF Paid, AnswersNamePayments
    <3>3. KeyRepeated(r[1]) => ~SameReference(r, s)
      BY DEF KeyRepeated, SameReference, Asked
    <3>4. KeyRepeated(r[1]) => s[1] = r[1]
      BY <3>1, <3>2, <3>3, RepeatedKeyIsOwn
    <3> QED BY <3>1, <3>4
  <2> QED BY <2>1, <2>2
<1> PICK p \in Paid : /\ result' = [result EXCEPT ![r] = p]
                      /\ KeyRepeated(r[1]) => p[1] = r[1]
  BY <1>2 DEF KeyRepeated
<1>3. TypeOK'
  BY <1>1 DEF TypeOK, Paid
<1>4. NothingBeforeForm' /\ NothingAhead' /\ WaitingWasSent' /\ FormsFilled'
  BY <1>1 DEF NothingBeforeForm, NothingAhead, WaitingWasSent, FormsFilled, TypeOK
<1>5. Paid' = Paid
  BY <1>1 DEF Paid
<1>6. AnswersNamePayments'
  BY <1>1, <1>5 DEF AnswersNamePayments, TypeOK
<1>7. PaymentsDistinct'
  BY <1>1, <1>5, DistinctUnchanged
<1>8. RepeatedAnswersOwn'
  BY <1>1 DEF RepeatedAnswersOwn, KeyRepeated, TypeOK
<1> QED BY <1>3, <1>4, <1>6, <1>7, <1>8

\* A payment is posted under the unique constraints.
LEMMA PostStep ==
  ASSUME RequestInv, NEW r \in Requests, Post(r)
  PROVE  RequestInv' /\ Paid' = Paid \union {r}
<1> USE DEF RequestInv
<1>1. /\ stage[r] = "RUNNING" /\ stage' = [stage EXCEPT ![r] = "OK"]
      /\ payment' = [payment EXCEPT ![r] = "POSTED"]
      /\ result' = [result EXCEPT ![r] = r]
      /\ UNCHANGED <<intent, view, attempt, emi>>
  BY DEF Post
<1>2. TypeOK'
  BY <1>1 DEF TypeOK
<1>3. NothingBeforeForm' /\ NothingAhead' /\ WaitingWasSent' /\ FormsFilled'
  BY <1>1 DEF NothingBeforeForm, NothingAhead, WaitingWasSent, FormsFilled, TypeOK
<1>4. Paid' = Paid \union {r}
  BY <1>1 DEF Paid, TypeOK
<1>5. AnswersNamePayments'
  BY <1>1, <1>4 DEF AnswersNamePayments, TypeOK
<1>6. \A s \in Paid : ~SameKey(r, s) /\ ~SameReference(r, s)
  BY DEF Post, ByKey, ByReference
<1>7. \A s \in Paid : ~SameKey(s, r) /\ ~SameReference(s, r)
  BY <1>6 DEF SameKey, SameReference
<1>8. PaymentsDistinct'
  <2> SUFFICES ASSUME NEW q \in Paid \union {r}, NEW s \in Paid \union {r},
                      (SameKey(q, s) \/ SameReference(q, s))'
               PROVE  q = s
    BY <1>4 DEF PaymentsDistinct
  <2>1. Asked(q)' = Asked(q) /\ Asked(s)' = Asked(s)
    BY <1>1 DEF Asked
  <2>2. Key(q)' = Key(q) /\ Key(s)' = Key(s)
    BY <2>1 DEF Key, Asked
  <2>3. SameKey(q, s) \/ SameReference(q, s)
    BY <2>1, <2>2 DEF SameKey, SameReference
  <2> QED BY <2>3, <1>6, <1>7 DEF PaymentsDistinct
<1>9. RepeatedAnswersOwn'
  BY <1>1 DEF RepeatedAnswersOwn, KeyRepeated, TypeOK
<1> QED BY <1>2, <1>3, <1>4, <1>5, <1>8, <1>9

\* What starts, is refused or fails pays nothing, and a reversal takes no payment away.
LEMMA OtherServerSteps ==
  ASSUME RequestInv, NEW r \in Requests, Start(r) \/ Reject(r) \/ Fail(r) \/ Reverse(r)
  PROVE  RequestInv' /\ Paid' = Paid
<1> USE DEF RequestInv
<1>1. UNCHANGED <<intent, view, attempt, result>>
  BY DEF Start, Reject, Fail, Reverse
<1>2. /\ stage' \in [Requests -> {"UNSENT", "SENT", "RUNNING", "OK", "FAILED"}]
      /\ \A s \in Requests : /\ stage[s] = "OK" <=> stage'[s] = "OK"
                             /\ stage[s] = "UNSENT" <=> stage'[s] = "UNSENT"
  BY DEF Start, Reject, Fail, Reverse, TypeOK
<1>3. /\ payment' \in [Requests -> {"NONE", "POSTED", "REVERSED"}]
      /\ Paid' = Paid
  BY DEF Start, Reject, Fail, Reverse, TypeOK, Paid
<1>4. emi' \in [Requests -> Emis \union {0}]
  <2>1. stage[r] = "SENT" => EmiFor(r) \in Emis \union {0} \/ ~Start(r)
    BY EmiForIsEmi
  <2> QED BY <2>1 DEF Start, Reject, Fail, Reverse, TypeOK
<1>5. TypeOK'
  BY <1>1, <1>2, <1>3, <1>4 DEF TypeOK
<1>6. NothingBeforeForm' /\ NothingAhead' /\ WaitingWasSent' /\ FormsFilled'
  BY <1>1, <1>2 DEF NothingBeforeForm, NothingAhead, WaitingWasSent, FormsFilled
<1>7. AnswersNamePayments'
  BY <1>1, <1>2, <1>3 DEF AnswersNamePayments, Paid
<1>8. PaymentsDistinct'
  BY <1>1, <1>3, DistinctUnchanged
<1>9. RepeatedAnswersOwn'
  BY <1>1, <1>2 DEF RepeatedAnswersOwn, KeyRepeated
<1> QED BY <1>3, <1>5, <1>6, <1>7, <1>8, <1>9

-----------------------------------------------------------------------------
(* Theorems *)

LEMMA RequestStep == RequestInv /\ [Next]_vars => RequestInv'
<1> SUFFICES ASSUME RequestInv, [Next]_vars PROVE RequestInv'
  OBVIOUS
<1>1. CASE \E c \in Collections :
         Submit(c) \/ ReceiveAnswer(c) \/ StopWaiting(c) \/ \E i \in Intents : FillIn(c, i)
  BY <1>1, FormSteps
<1>2. CASE \E r \in Requests : ReplayStored(r) \/ Recognize(r)
  BY <1>2, AnswerSteps
<1>3. CASE \E r \in Requests : Post(r)
  BY <1>3, PostStep
<1>4. CASE \E r \in Requests : Start(r) \/ Reject(r) \/ Fail(r) \/ Reverse(r)
  BY <1>4, OtherServerSteps
<1>5. CASE UNCHANGED vars
  <2>1. Paid' = Paid
    BY <1>5 DEF vars, Paid
  <2>2. PaymentsDistinct'
    BY <1>5, <2>1, DistinctUnchanged DEF vars, RequestInv
  <2> QED
    BY <1>5, <2>1, <2>2
    DEF vars, RequestInv, TypeOK, NothingBeforeForm, NothingAhead, WaitingWasSent, FormsFilled,
        AnswersNamePayments, RepeatedAnswersOwn, KeyRepeated
<1> QED BY <1>1, <1>2, <1>3, <1>4, <1>5 DEF Next

\* What requests have left behind, at every moment.
THEOREM RequestInvariant == Spec => []RequestInv
<1>1. Init => RequestInv
  BY InitRequests
<1>2. RequestInv /\ [Next]_vars => RequestInv'
  BY RequestStep
<1> QED BY <1>1, <1>2, PTL DEF Spec

\* Rows keep their types, for any collections, intents and schedule.
THEOREM RequestTypes == Spec => []TypeOK
<1>1. RequestInv => TypeOK
  BY DEF RequestInv
<1> QED BY <1>1, RequestInvariant, PTL

\* No interleaving of requests records two payments under one key of a user, or under one
\* reference number.
THEOREM KeysStandForOnePayment == Spec => []PaymentsDistinct
<1>1. RequestInv => PaymentsDistinct
  BY DEF RequestInv
<1> QED BY <1>1, RequestInvariant, PTL

\* The records and the reports of a collection that repeats its key.
RepeatedEffects == [c \in Collections |-> {r \in Paid : r[1] = c /\ KeyRepeated(c)}]
RepeatedTold == {c \in Collections : view[c] = "DONE" /\ KeyRepeated(c)}

\* They stay while payments do and no form is filled in.
LEMMA EffectsUnchanged ==
  ASSUME UNCHANGED <<intent, payment>>,
         \A d \in Collections : view'[d] = "NEW" <=> view[d] = "NEW"
  PROVE  RepeatedEffects' = RepeatedEffects
BY DEF RepeatedEffects, Paid, KeyRepeated

LEMMA InitImplementsOnce == Init => Once!Init
  BY DEF Init, Once!Init, Paid, KeyRepeated

LEMMA StepImplementsOnce ==
  RequestInv /\ [Next]_vars => [Once!Next]_(Once!vars)
<1> SUFFICES ASSUME RequestInv, [Next]_vars
             PROVE  \/ \E c \in Collections : \/ Once!Tell(c)
                                              \/ \E r \in Requests : Once!Perform(c, r)
                    \/ RepeatedEffects' = RepeatedEffects /\ RepeatedTold' = RepeatedTold
  BY DEF Once!Next, Once!vars, RepeatedEffects, RepeatedTold
<1>0. view \in [Collections -> {"NEW", "EDITING", "WAITING", "DONE"}]
  BY DEF RequestInv, TypeOK
<1>1. ASSUME NEW c \in Collections, NEW i \in Intents, FillIn(c, i)
      PROVE  RepeatedEffects' = RepeatedEffects /\ RepeatedTold' = RepeatedTold
  <2>1. Paid' = Paid
    BY <1>1 DEF FillIn, Paid
  <2>2. \A d \in Collections : d # c => (KeyRepeated(d)' <=> KeyRepeated(d)) /\ view'[d] = view[d]
    BY <1>1 DEF FillIn, KeyRepeated, RequestInv, TypeOK
  <2>3. \A r \in Paid : r[1] # c
    BY <1>1 DEF FillIn, RequestInv, NothingBeforeForm, AnswersNamePayments, Paid
  <2>4. view[c] # "DONE" /\ view'[c] # "DONE"
    BY <1>1 DEF FillIn, RequestInv, TypeOK
  <2> QED BY <2>1, <2>2, <2>3, <2>4 DEF RepeatedEffects, RepeatedTold
<1>2. ASSUME NEW c \in Collections, Submit(c) \/ StopWaiting(c)
      PROVE  RepeatedEffects' = RepeatedEffects /\ RepeatedTold' = RepeatedTold
  <2>1. UNCHANGED <<intent, payment>>
    BY <1>2 DEF Submit, StopWaiting
  <2>2. \A d \in Collections : /\ view'[d] = "NEW" <=> view[d] = "NEW"
                               /\ view'[d] = "DONE" <=> view[d] = "DONE"
    BY <1>0, <1>2 DEF Submit, StopWaiting
  <2> QED BY <2>1, <2>2, EffectsUnchanged DEF RepeatedTold, KeyRepeated
<1>3. ASSUME NEW c \in Collections, ReceiveAnswer(c)
      PROVE  \/ Once!Tell(c)
             \/ RepeatedEffects' = RepeatedEffects /\ RepeatedTold' = RepeatedTold
  <2>1. UNCHANGED <<intent, payment>>
    BY <1>3 DEF ReceiveAnswer
  <2>2. /\ view[c] = "WAITING" /\ view'[c] \in {"DONE", "EDITING"}
        /\ \A d \in Collections : d # c => view'[d] = view[d]
    BY <1>0, <1>3 DEF ReceiveAnswer
  <2>3. RepeatedEffects' = RepeatedEffects
    BY <2>1, <2>2, EffectsUnchanged
  <2>4. CASE KeyRepeated(c) /\ view'[c] = "DONE"
    <3> DEFINE r == <<c, attempt[c]>>
    <3>1. stage[r] = "OK" /\ r[1] = c
      BY <1>0, <1>3, <2>4 DEF ReceiveAnswer
    <3>2. r \in Requests
      <4>1. attempt[c] \in 0..MaxAttempts /\ stage \in [Requests -> {"UNSENT", "SENT", "RUNNING", "OK", "FAILED"}]
        BY DEF RequestInv, TypeOK
      <4>2. attempt[c] # 0
        BY <1>3 DEF RequestInv, WaitingWasSent, ReceiveAnswer
      <4> QED BY <4>1, <4>2, AttemptsBounded DEF Requests
    <3>3. result[r] \in Paid /\ result[r][1] = c
      BY <2>4, <3>1, <3>2 DEF RequestInv, AnswersNamePayments, RepeatedAnswersOwn
    <3>4. RepeatedEffects[c] # {}
      BY <2>4, <3>3 DEF RepeatedEffects
    <3>5. RepeatedTold' = RepeatedTold \union {c}
      BY <2>1, <2>2, <2>4 DEF RepeatedTold, KeyRepeated
    <3> QED BY <2>3, <3>4, <3>5 DEF Once!Tell, RepeatedEffects, RepeatedTold
  <2>5. CASE ~(KeyRepeated(c) /\ view'[c] = "DONE")
    BY <2>1, <2>2, <2>3, <2>5 DEF RepeatedTold, KeyRepeated
  <2> QED BY <2>4, <2>5
<1>4. ASSUME NEW r \in Requests, Post(r)
      PROVE  \/ Once!Perform(r[1], r)
             \/ RepeatedEffects' = RepeatedEffects /\ RepeatedTold' = RepeatedTold
  <2>1. Paid' = Paid \union {r}
    BY <1>4, PostStep
  <2>2. /\ \A d \in Collections : KeyRepeated(d)' <=> KeyRepeated(d)
        /\ RepeatedTold' = RepeatedTold
    BY <1>4 DEF Post, KeyRepeated, RepeatedTold
  <2>3. CASE ~KeyRepeated(r[1])
    BY <2>1, <2>2, <2>3 DEF RepeatedEffects
  <2>4. CASE KeyRepeated(r[1])
    <3>1. \A s \in Paid : s[1] # r[1]
      <4> SUFFICES ASSUME NEW s \in Paid, s[1] = r[1] PROVE FALSE
        OBVIOUS
      <4>1. s \in Requests /\ stage[s] # "UNSENT"
        BY DEF Paid, RequestInv, AnswersNamePayments
      <4>2. SameKey(r, s)
        BY <2>4, <4>1, RepeatedKeyIsOwn
      <4> QED BY <1>4, <4>2 DEF Post, ByKey
    <3>2. RepeatedEffects[r[1]] = {} /\ r[1] \in Collections
      BY <3>1 DEF RepeatedEffects, Requests
    <3>3. RepeatedEffects' = [RepeatedEffects EXCEPT ![r[1]] = {r}]
      BY <2>1, <2>2, <2>4, <3>1, <3>2 DEF RepeatedEffects
    <3> QED BY <2>2, <3>2, <3>3 DEF Once!Perform, RepeatedEffects, RepeatedTold
  <2> QED BY <2>3, <2>4
<1>5. ASSUME NEW r \in Requests,
             \/ ReplayStored(r) \/ Recognize(r)
             \/ Start(r) \/ Reject(r) \/ Fail(r) \/ Reverse(r)
      PROVE  RepeatedEffects' = RepeatedEffects /\ RepeatedTold' = RepeatedTold
  <2>1. Paid' = Paid
    <3>1. CASE ReplayStored(r) \/ Recognize(r)
      BY <3>1 DEF ReplayStored, Recognize, Paid
    <3> QED BY <1>5, <3>1, OtherServerSteps
  <2>2. UNCHANGED <<intent, view>>
    BY <1>5 DEF ReplayStored, Recognize, Start, Reject, Fail, Reverse
  <2> QED BY <2>1, <2>2 DEF RepeatedEffects, RepeatedTold, KeyRepeated
<1>6. CASE UNCHANGED vars
  BY <1>6 DEF vars, RepeatedEffects, RepeatedTold, Paid, KeyRepeated
<1>7. \A r \in Requests : r[1] \in Collections
  BY DEF Requests
<1> QED BY <1>1, <1>2, <1>3, <1>4, <1>5, <1>6, <1>7 DEF Next

\* A collection whose requests repeat their key is paid by one of them at most, and its
\* client is told of success only when it was: such requests implement OncePerJob.
THEOREM RepeatedKeyImplementsOnce == Spec => RepeatedKeyAppliesOnce
<1>1. Init => Once!Init
  BY InitImplementsOnce
<1>2. RequestInv /\ [Next]_vars => [Once!Next]_(Once!vars)
  BY StepImplementsOnce
<1> QED BY <1>1, <1>2, RequestInvariant, PTL DEF Spec, RepeatedKeyAppliesOnce, Once!Spec

-----------------------------------------------------------------------------
(* What a successful answer stands for *)

\* The payment of p is what request r asked for.
Fits(r, p) ==
  /\ Asked(p).amount = Asked(r).amount
  /\ Asked(p).reference = Asked(r).reference
  /\ Asked(r).emi \in {0, emi[p]}

\* A request pays the EMI it was asked to pay, and is answered with a payment that fits.
AnswersFit ==
  \A r \in Requests :
    /\ stage[r] = "RUNNING" \/ payment[r] # "NONE" => Asked(r).emi \in {0, emi[r]}
    /\ stage[r] = "OK" => Fits(r, result[r])

\* A form is closed by the answer of one of its requests.
DoneWasAnswered ==
  \A c \in Collections : view[c] = "DONE" => \E r \in Requests : r[1] = c /\ stage[r] = "OK"

AnswerInv == AnswersFit /\ DoneWasAnswered

\* Payments that fit go on fitting.
LEMMA FitsUnchanged ==
  ASSUME NEW r, NEW p, Fits(r, p), Asked(r)' = Asked(r), Asked(p)' = Asked(p), emi'[p] = emi[p]
  PROVE  Fits(r, p)'
BY DEF Fits

LEMMA AnswerStep == RequestInv /\ AnswerInv /\ [Next]_vars => AnswerInv'
<1> SUFFICES ASSUME RequestInv, AnswerInv, [Next]_vars PROVE AnswerInv'
  OBVIOUS
<1> USE DEF AnswerInv
<1>0. \A r \in Requests : stage[r] = "OK" => result[r] \in Paid /\ stage[result[r]] = "OK"
  BY DEF RequestInv, AnswersNamePayments, Paid
<1>1. ASSUME NEW c \in Collections,
             Submit(c) \/ ReceiveAnswer(c) \/ StopWaiting(c) \/ \E i \in Intents : FillIn(c, i)
      PROVE  AnswerInv'
  <2>1. UNCHANGED <<emi, result, payment>>
    BY <1>1 DEF Submit, ReceiveAnswer, StopWaiting, FillIn
  <2>2. \A r \in Requests : stage[r] # "UNSENT" => Asked(r)' = Asked(r)
    BY <1>1 DEF Submit, ReceiveAnswer, StopWaiting, FillIn, RequestInv, TypeOK, NothingBeforeForm,
       Asked, Requests
  <2>3. \A r \in Requests : \/ stage'[r] = stage[r]
                            \/ stage[r] = "UNSENT" /\ stage'[r] = "SENT"
    <3>1. CASE Submit(c)
      <4>1. <<c, attempt[c] + 1>> \in Requests /\ attempt[c] + 1 > attempt[c]
        BY <3>1, AttemptsBounded DEF Submit, RequestInv, TypeOK, Requests
      <4>2. stage[<<c, attempt[c] + 1>>] = "UNSENT"
        BY <4>1 DEF RequestInv, NothingAhead
      <4> QED BY <3>1, <4>1, <4>2 DEF Submit, RequestInv, TypeOK
    <3> QED BY <1>1, <3>1 DEF ReceiveAnswer, StopWaiting, FillIn
  <2>4. \A r \in Requests : payment[r] # "NONE" => stage[r] = "OK"
    BY DEF RequestInv, AnswersNamePayments
  <2>5. AnswersFit'
    <3> SUFFICES ASSUME NEW r \in Requests
                 PROVE  /\ stage'[r] = "RUNNING" \/ payment'[r] # "NONE"
                             => Asked(r)'.emi \in {0, emi'[r]}
                        /\ stage'[r] = "OK" => Fits(r, result[r])'
      BY <2>1 DEF AnswersFit
    <3>1. stage'[r] = "RUNNING" \/ payment'[r] # "NONE" => Asked(r)'.emi \in {0, emi'[r]}
      BY <2>1, <2>2, <2>3, <2>4 DEF AnswersFit
    <3>2. ASSUME stage'[r] = "OK" PROVE Fits(r, result[r])'
      <4>1. PICK p : p = result[r]
        OBVIOUS
      <4>2. stage[r] = "OK" /\ p \in Requests /\ stage[p] = "OK" /\ Fits(r, p)
        BY <1>0, <2>3, <3>2, <4>1 DEF Paid, AnswersFit
      <4>3. Fits(r, p)'
        BY <2>1, <2>2, <4>2, FitsUnchanged
      <4> QED BY <2>1, <4>1, <4>3 DEF Fits
    <3> QED BY <3>1, <3>2
  <2>6. DoneWasAnswered'
    <3>1. CASE ReceiveAnswer(c)
      <4>1. <<c, attempt[c]>> \in Requests
        <5>1. attempt[c] \in 0..MaxAttempts /\ attempt[c] # 0
          BY <3>1 DEF RequestInv, TypeOK, WaitingWasSent, ReceiveAnswer
        <5> QED BY <5>1, AttemptsBounded DEF Requests
      <4>2. <<c, attempt[c]>>[1] = c
        OBVIOUS
      <4>3. view'[c] = "DONE" => stage[<<c, attempt[c]>>] = "OK"
        BY <3>1 DEF ReceiveAnswer, RequestInv, TypeOK
      <4>4. stage' = stage /\ \A d \in Collections \ {c} : view'[d] = view[d]
        BY <3>1 DEF ReceiveAnswer, RequestInv, TypeOK
      <4> QED BY <4>1, <4>2, <4>3, <4>4 DEF DoneWasAnswered
    <3>2. CASE Submit(c) \/ StopWaiting(c) \/ \E i \in Intents : FillIn(c, i)
      <4>1. \A d \in Collections : view'[d] = "DONE" => view[d] = "DONE"
        BY <3>2 DEF Submit, StopWaiting, FillIn, RequestInv, TypeOK
      <4> QED BY <2>3, <4>1 DEF DoneWasAnswered
    <3> QED BY <1>1, <3>1, <3>2
  <2> QED BY <2>5, <2>6
<1>2. ASSUME NEW r \in Requests,
             ReplayStored(r) \/ Recognize(r) \/ Reject(r) \/ Start(r) \/ Post(r) \/ Fail(r) \/ Reverse(r)
      PROVE  AnswerInv'
  <2>1. UNCHANGED <<intent, view>>
    BY <1>2 DEF ReplayStored, Recognize, Reject, Start, Post, Fail, Reverse
  <2>2. \A s : Asked(s)' = Asked(s)
    BY <2>1 DEF Asked
  <2>3. /\ \A s \in Requests : stage[s] = "OK" => stage'[s] = "OK" /\ emi'[s] = emi[s]
        /\ \A s \in Requests \ {r} : /\ stage'[s] = stage[s] /\ emi'[s] = emi[s]
                                     /\ result'[s] = result[s] /\ payment'[s] = payment[s]
    BY <1>2 DEF ReplayStored, Recognize, Reject, Start, Post, Fail, Reverse, RequestInv, TypeOK
  <2>4. DoneWasAnswered'
    BY <2>1, <2>3 DEF DoneWasAnswered
  <2>5. ASSUME NEW s \in Requests \ {r}
        PROVE  /\ stage'[s] = "RUNNING" \/ payment'[s] # "NONE" => Asked(s)'.emi \in {0, emi'[s]}
               /\ \E p : result'[s] = p /\ (stage'[s] = "OK" => Fits(s, p)')
    <3>1. PICK p : p = result[s]
      OBVIOUS
    <3>2. stage[s] = "OK" => p \in Requests /\ stage[p] = "OK" /\ Fits(s, p)
      BY <1>0, <3>1 DEF Paid, AnswersFit
    <3>3. stage[s] = "OK" => Fits(s, p)'
      BY <2>2, <2>3, <3>2, FitsUnchanged
    <3>4. result'[s] = result[s]
      BY <2>3
    <3> QED BY <2>2, <2>3, <3>1, <3>3, <3>4 DEF AnswersFit
  <2>6. /\ stage'[r] = "RUNNING" \/ payment'[r] # "NONE" => Asked(r)'.emi \in {0, emi'[r]}
        /\ \E p : result'[r] = p /\ (stage'[r] = "OK" => Fits(r, p)')
    <3>1. CASE ReplayStored(r)
      <4> PICK s \in StoredAnswers(r) : result' = [result EXCEPT ![r] = result[s]]
        BY <3>1 DEF ReplayStored
      <4>1. /\ stage[r] = "SENT" /\ stage' = [stage EXCEPT ![r] = "OK"]
            /\ UNCHANGED <<emi, payment>>
        BY <3>1 DEF ReplayStored
      <4>2. /\ s \in Requests /\ stage[s] = "OK" /\ HasUnifiedRow(r) /\ HasUnifiedRow(s)
            /\ SameKey(r, s) /\ s # r
        BY <4>1 DEF StoredAnswers
      <4>3. Asked(s) = Asked(r)
        <5>1. CASE Asked(r).client = "UNIFIED"
          <6>1. Key(r) = <<"REQUEST", r>>
            BY <5>1 DEF Key
          <6>2. Key(s) = <<"REQUEST", s>> \/ Key(s) = <<"REPEATED", <<s[1], 0>>>>
            BY <4>2 DEF Key, HasUnifiedRow
          <6> QED BY <4>2, <6>1, <6>2 DEF SameKey
        <5>2. CASE Asked(r).client = "SCRIPT"
          <6>1. Key(r) = <<"REPEATED", <<r[1], 0>>>>
            BY <5>2 DEF Key
          <6>2. Key(s) = <<"REQUEST", s>> \/ Key(s) = <<"REPEATED", <<s[1], 0>>>>
            BY <4>2 DEF Key, HasUnifiedRow
          <6>3. r[1] = s[1]
            BY <4>2, <6>1, <6>2 DEF SameKey
          <6> QED BY <6>3 DEF Asked
        <5> QED BY <4>2, <5>1, <5>2 DEF HasUnifiedRow
      <4>4. PICK p : p = result[s]
        OBVIOUS
      <4>5. p \in Requests /\ Fits(r, p)
        BY <1>0, <4>2, <4>3, <4>4 DEF Paid, AnswersFit, Fits
      <4>6. Fits(r, p)'
        BY <2>2, <4>1, <4>5, FitsUnchanged
      <4>7. result'[r] = p /\ stage'[r] = "OK"
        BY <4>1, <4>4 DEF RequestInv, TypeOK
      <4> QED BY <2>2, <4>1, <4>6, <4>7 DEF AnswersFit
    <3>2. CASE Recognize(r)
      <4> PICK s \in Found(r) : SameDetails(r, s) /\ result' = [result EXCEPT ![r] = s]
        BY <3>2 DEF Recognize
      <4>1. /\ stage' = [stage EXCEPT ![r] = "OK"] /\ UNCHANGED <<emi, payment>>
            /\ EmiFor(r) # 0 /\ emi[s] = EmiFor(r)
            /\ Asked(s).amount = Asked(r).amount /\ Asked(s).reference = Asked(r).reference
        BY <3>2 DEF Recognize, SameDetails
      <4>2. Asked(r).emi \in {0, emi[s]}
        BY <4>1 DEF EmiFor
      <4>3. Fits(r, s)'
        BY <2>2, <4>1, <4>2, FitsUnchanged DEF Fits
      <4>4. result'[r] = s /\ stage'[r] = "OK"
        BY <4>1 DEF RequestInv, TypeOK
      <4> QED BY <2>2, <4>1, <4>3, <4>4 DEF AnswersFit
    <3>3. CASE Start(r)
      <4>1. stage'[r] = "RUNNING" /\ emi'[r] = EmiFor(r) /\ EmiFor(r) # 0
        BY <3>3 DEF Start, RequestInv, TypeOK
      <4>2. Asked(r)'.emi \in {0, emi'[r]}
        BY <2>2, <4>1 DEF EmiFor
      <4> QED BY <4>1, <4>2
    <3>4. CASE Post(r)
      <4>1. stage[r] = "RUNNING" /\ result'[r] = r /\ emi' = emi
        BY <3>4 DEF Post, RequestInv, TypeOK
      <4>2. Asked(r)'.emi \in {0, emi'[r]}
        BY <2>2, <4>1 DEF AnswersFit
      <4>3. Fits(r, r)'
        BY <4>2 DEF Fits
      <4> QED BY <4>1, <4>2, <4>3
    <3>5. CASE Reject(r) \/ Fail(r)
      <4>1. stage'[r] = "FAILED" /\ payment' = payment /\ stage[r] # "OK"
        BY <3>5 DEF Reject, Fail, RequestInv, TypeOK
      <4>2. payment'[r] = "NONE"
        BY <4>1 DEF RequestInv, AnswersNamePayments
      <4> QED BY <4>1, <4>2
    <3>6. CASE Reverse(r)
      <4>1. /\ payment[r] = "POSTED" /\ UNCHANGED <<stage, emi, result>>
        BY <3>6 DEF Reverse
      <4>2. PICK p : p = result[r]
        OBVIOUS
      <4>3. stage[r] = "OK" /\ Fits(r, p)
        BY <4>1, <4>2 DEF RequestInv, AnswersNamePayments, AnswersFit
      <4>4. Fits(r, p)'
        BY <2>2, <4>1, <4>3, FitsUnchanged
      <4> QED BY <2>2, <4>1, <4>2, <4>4 DEF AnswersFit
    <3> QED BY <1>2, <3>1, <3>2, <3>3, <3>4, <3>5, <3>6
  <2>7. AnswersFit'
    BY <2>5, <2>6 DEF AnswersFit, Fits, Asked
  <2> QED BY <2>4, <2>7
<1>3. CASE UNCHANGED vars
  BY <1>3 DEF vars, AnswersFit, DoneWasAnswered, Fits, Asked
<1> QED BY <1>1, <1>2, <1>3 DEF Next
-----------------------------------------------------------------------------
(* The balance of an EMI *)

LEMMA PostedAmounts ==
  ASSUME RequestInv, NEW e
  PROVE  /\ IsFiniteSet(PostedOn(e))
         /\ \A r \in PostedOn(e) : stage[r] = "OK" /\ Asked(r).amount \in Nat
<1>1. IsFiniteSet(Requests)
  <2>1. IsFiniteSet(1..MaxAttempts)
    BY AttemptsBounded, FS_Interval
  <2> QED BY <2>1, CollectionsFinite, FS_Product DEF Requests
<1>2. IsFiniteSet(PostedOn(e))
  BY <1>1, FS_Subset DEF PostedOn
<1>3. ASSUME NEW r \in PostedOn(e) PROVE stage[r] = "OK" /\ Asked(r).amount \in Nat
  <2>1. r \in Requests /\ stage[r] = "OK"
    BY DEF PostedOn, RequestInv, AnswersNamePayments
  <2>2. Asked(r) \in Intents
    BY <2>1 DEF RequestInv, NothingBeforeForm, FormsFilled, Asked, Requests
  <2> QED BY <2>1, <2>2, IntentsFilled
<1> QED BY <1>2, <1>3

LEMMA SameBalance ==
  ASSUME NEW e, PostedOn(e)' = PostedOn(e), \A r \in PostedOn(e) : Asked(r)' = Asked(r)
  PROVE  Outstanding(e)' = Outstanding(e)
<1>1. [r \in PostedOn(e) |-> Asked(r).amount]' = [r \in PostedOn(e) |-> Asked(r).amount]
  OBVIOUS
<1> QED BY <1>1, Zenon DEF Outstanding

\* A payment is taken off the balance of the EMI that it was posted on.
LEMMA PostBalance ==
  ASSUME RequestInv, NEW r \in Requests, Post(r), NEW e
  PROVE  /\ Outstanding(e) \in Int
         /\ Outstanding(e)' = IF e = emi[r] THEN Outstanding(e) - Asked(r).amount ELSE Outstanding(e)
<1>1. /\ stage[r] = "RUNNING" /\ UNCHANGED <<intent, emi>>
      /\ payment' = [payment EXCEPT ![r] = "POSTED"]
  BY DEF Post
<1>2. payment[r] = "NONE"
  BY <1>1 DEF RequestInv, TypeOK, AnswersNamePayments
<1>3. Asked(r).amount \in Nat /\ \A s : Asked(s)' = Asked(s)
  <2>1. Asked(r) \in Intents
    BY <1>1 DEF RequestInv, NothingBeforeForm, FormsFilled, Asked, Requests
  <2> QED BY <1>1, <2>1, IntentsFilled DEF Asked
<1> DEFINE S == PostedOn(e)
           f == [s \in PostedOn(e) |-> Asked(s).amount]
           g == [s \in PostedOn(e)' |-> Asked(s)'.amount]
<1>4. Outstanding(e) = Due - SumFunction(f) /\ Outstanding(e)' = Due - SumFunction(g)
  BY DEF Outstanding
<1>5. r \notin S /\ IsFiniteSet(S) /\ f \in [S -> Int]
  BY <1>2, PostedAmounts DEF PostedOn
<1>6. SumFunction(f) \in Int
  <2> HIDE DEF S, f
  <2>1. PICK R, F : R = S /\ F = f
    OBVIOUS
  <2> QED BY <1>5, <2>1, SumIsInteger
<1>7. CASE e = emi[r]
  <2>1. PostedOn(e)' = S \union {r}
    BY <1>1, <1>7 DEF PostedOn, RequestInv, TypeOK
  <2>2. g \in [S \union {r} -> Int] /\ g[r] = Asked(r).amount /\ \A s \in S : g[s] = f[s]
    BY <1>3, <1>5, <2>1
  <2> HIDE DEF S, f, g
  <2>3. PICK R, F, G : R = S /\ F = f /\ G = g
    OBVIOUS
  <2>4. r \notin R /\ IsFiniteSet(R)
    BY <1>5, <2>3
  <2>5. F \in [R -> Int] /\ G \in [R \union {r} -> Int]
    BY <1>5, <2>2, <2>3
  <2>6. \A s \in R : G[s] = F[s]
    BY <2>2, <2>3
  <2>7. SumFunction(G) = SumFunction(F) + G[r]
    BY <2>4, <2>5, <2>6, SumWithOneMore
  <2> QED BY <1>3, <1>4, <1>6, <1>7, <2>2, <2>3, <2>7, DueNatural
<1>8. CASE e # emi[r]
  <2>1. PostedOn(e)' = PostedOn(e)
    BY <1>1, <1>2, <1>8 DEF PostedOn, RequestInv, TypeOK
  <2> QED BY <1>3, <1>4, <1>6, <1>8, <2>1, SameBalance, DueNatural
<1> QED BY <1>7, <1>8

\* A reversal gives the amount back.
LEMMA ReverseBalance ==
  ASSUME RequestInv, NEW r \in Requests, Reverse(r), NEW e, Outstanding(e) >= 0
  PROVE  Outstanding(e)' >= 0
<1>1. /\ payment[r] = "POSTED" /\ UNCHANGED <<intent, emi>>
      /\ payment' = [payment EXCEPT ![r] = "REVERSED"]
  BY DEF Reverse
<1>2. \A s : Asked(s)' = Asked(s)
  BY <1>1 DEF Asked
<1> DEFINE S == PostedOn(e)'
           f == [s \in PostedOn(e) |-> Asked(s).amount]
           g == [s \in PostedOn(e)' |-> Asked(s)'.amount]
<1>3. Outstanding(e) = Due - SumFunction(f) /\ Outstanding(e)' = Due - SumFunction(g)
  BY DEF Outstanding
<1>4. CASE e = emi[r]
  <2>1. r \in PostedOn(e) /\ PostedOn(e) = S \union {r} /\ r \notin S /\ S \subseteq PostedOn(e)
    BY <1>1, <1>4 DEF PostedOn, RequestInv, TypeOK
  <2>2. IsFiniteSet(S) /\ \A s \in PostedOn(e) : Asked(s).amount \in Nat
    BY <2>1, PostedAmounts, FS_Subset
  <2>3. f \in [S \union {r} -> Nat] /\ g \in [S -> Nat] /\ \A s \in S : g[s] = f[s]
    BY <1>2, <2>1, <2>2
  <2> HIDE DEF S, f, g
  <2>4. PICK R, F, G : R = S /\ F = f /\ G = g
    OBVIOUS
  <2>5. r \notin R /\ IsFiniteSet(R)
    BY <2>1, <2>2, <2>4
  <2>6. F \in [R \union {r} -> Int] /\ G \in [R -> Int] /\ F[r] \in Nat
    BY <2>3, <2>4
  <2>7. \A s \in R : G[s] = F[s]
    BY <2>3, <2>4
  <2>8. SumFunction(F) = SumFunction(G) + F[r]
    BY <2>5, <2>6, <2>7, SumWithOneMore
  <2>9. SumFunction(G) \in Int
    BY <2>5, <2>6, SumIsInteger
  <2> QED BY <1>3, <2>4, <2>6, <2>8, <2>9, DueNatural
<1>5. CASE e # emi[r]
  <2>1. PostedOn(e)' = PostedOn(e)
    BY <1>1, <1>5 DEF PostedOn, RequestInv, TypeOK
  <2> QED BY <1>2, <2>1, SameBalance
<1> QED BY <1>4, <1>5

LEMMA BalanceStep == RequestInv /\ NoOverCollection /\ [Next]_vars => NoOverCollection'
<1> SUFFICES ASSUME RequestInv, NoOverCollection, [Next]_vars, NEW e \in Emis
             PROVE  Outstanding(e)' >= 0
  BY DEF NoOverCollection
<1>0. Outstanding(e) >= 0 /\ \A r \in PostedOn(e) : r \in Requests /\ stage[r] = "OK"
  BY PostedAmounts DEF NoOverCollection, PostedOn
<1>1. ASSUME NEW c \in Collections,
             Submit(c) \/ ReceiveAnswer(c) \/ StopWaiting(c) \/ \E i \in Intents : FillIn(c, i)
      PROVE  Outstanding(e)' >= 0
  <2>1. PostedOn(e)' = PostedOn(e)
    BY <1>1 DEF Submit, ReceiveAnswer, StopWaiting, FillIn, PostedOn
  <2>2. \A r \in PostedOn(e) : Asked(r)' = Asked(r)
    BY <1>0, <1>1 DEF Submit, ReceiveAnswer, StopWaiting, FillIn, RequestInv, TypeOK,
       NothingBeforeForm, Asked, Requests
  <2> QED BY <1>0, <2>1, <2>2, SameBalance
<1>2. ASSUME NEW r \in Requests, ReplayStored(r) \/ Recognize(r) \/ Reject(r) \/ Start(r) \/ Fail(r)
      PROVE  Outstanding(e)' >= 0
  <2>1. UNCHANGED <<intent, payment>> /\ \A s \in Requests : stage[s] = "OK" => emi'[s] = emi[s]
    BY <1>2 DEF ReplayStored, Recognize, Reject, Start, Fail, RequestInv, TypeOK
  <2>2. PostedOn(e)' = PostedOn(e)
    BY <2>1 DEF PostedOn, RequestInv, AnswersNamePayments
  <2>3. \A s : Asked(s)' = Asked(s)
    BY <2>1 DEF Asked
  <2> QED BY <1>0, <2>2, <2>3, SameBalance
<1>3. ASSUME NEW r \in Requests, Post(r) PROVE Outstanding(e)' >= 0
  <2>1. Asked(r).amount <= Outstanding(emi[r])
    BY <1>3 DEF Post
  <2>2. Asked(r).amount \in Nat
    <3>1. Asked(r) \in Intents
      BY <1>3 DEF Post, RequestInv, NothingBeforeForm, FormsFilled, Asked, Requests
    <3> QED BY <3>1, IntentsFilled
  <2> QED BY <1>0, <1>3, <2>1, <2>2, PostBalance
<1>4. ASSUME NEW r \in Requests, Reverse(r) PROVE Outstanding(e)' >= 0
  BY <1>0, <1>4, ReverseBalance
<1>5. CASE UNCHANGED vars
  <2>1. PostedOn(e)' = PostedOn(e) /\ \A r : Asked(r)' = Asked(r)
    BY <1>5 DEF vars, PostedOn, Asked
  <2> QED BY <1>0, <2>1, SameBalance
<1> QED BY <1>1, <1>2, <1>3, <1>4, <1>5 DEF Next

LEMMA InitAnswers == Init => AnswerInv /\ NoOverCollection
<1> SUFFICES ASSUME Init PROVE AnswerInv /\ NoOverCollection
  OBVIOUS
<1>1. AnswerInv
  BY DEF Init, AnswerInv, AnswersFit, DoneWasAnswered
<1>2. ASSUME NEW e PROVE Outstanding(e) = Due
  <2>1. PostedOn(e) = {}
    BY DEF Init, PostedOn
  <2>2. SumFunction([r \in PostedOn(e) |-> Asked(r).amount]) = 0
    BY <2>1, SumOfNothing
  <2> QED BY <2>2, DueNatural DEF Outstanding
<1> QED BY <1>1, <1>2, DueNatural DEF NoOverCollection

\* However many cashiers, forms and scripts collect an EMI at once, and whatever is reversed
\* in between, its standing payments never exceed it.
THEOREM NothingOverCollected == Spec => []NoOverCollection
<1>1. Init => NoOverCollection
  BY InitAnswers
<1> QED BY <1>1, BalanceStep, RequestInvariant, PTL DEF Spec

\* What the operator is told was recorded was recorded: with the amount and the reference of
\* the form, and on the EMI that was chosen, whichever request's payment the answer names.
THEOREM SuccessMeansRecorded == Spec => []SuccessIsRecorded
<1>1. Init => AnswerInv
  BY InitAnswers
<1>2. RequestInv /\ AnswerInv => SuccessIsRecorded
  <2> SUFFICES ASSUME RequestInv, AnswerInv, NEW c \in Collections, view[c] = "DONE"
               PROVE  \E s \in Paid : /\ Asked(s).amount = intent[c].amount
                                      /\ Asked(s).reference = intent[c].reference
                                      /\ intent[c].emi \in {0, emi[s]}
    BY DEF SuccessIsRecorded
  <2>1. PICK r \in Requests : r[1] = c /\ stage[r] = "OK"
    BY DEF AnswerInv, DoneWasAnswered
  <2>2. result[r] \in Paid /\ Fits(r, result[r])
    BY <2>1 DEF RequestInv, AnswersNamePayments, AnswerInv, AnswersFit
  <2>3. Asked(r) = intent[c]
    BY <2>1 DEF Asked
  <2> QED BY <2>2, <2>3 DEF Fits
<1> QED BY <1>1, <1>2, AnswerStep, RequestInvariant, PTL DEF Spec
=============================================================================
