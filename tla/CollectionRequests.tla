------------------------- MODULE CollectionRequests -------------------------
(***************************************************************************)
(* Collecting money for the EMIs of one subscription over a network that   *)
(* delays requests and loses answers. Money handed over once, a            *)
(* collection, is submitted from one of three clients until one of its     *)
(* requests is answered with success:                                      *)
(*                                                                         *)
(*   COUNTER  the cashier page names the EMI; apiFetch gives each request  *)
(*            a key of its own, and the page stops waiting after 20 s      *)
(*   UNIFIED  the receivables form leaves the EMI to the server; it sends  *)
(*            a new key per submission, or none where the browser has no   *)
(*            crypto.randomUUID                                            *)
(*   SCRIPT   an API client that repeats its key with its request          *)
(*                                                                         *)
(* A collection of money is one request transaction (ATOMIC_REQUESTS) in   *)
(* two steps: its lookups without a lock, then, with the EMI locked, the   *)
(* checks, the inserts under their unique constraints and the commit.      *)
(* Method, finance account and date are the same for all.                  *)
(***************************************************************************)
EXTENDS Integers, FiniteSets, FiniteSetsExt, Functions

CONSTANTS
  Collections,  \* hand-overs of money
  Intents,      \* what an operator may fill in: user, client, EMI asked for, amount, reference
  Emis,         \* month numbers; 0 stands for none
  Due,          \* the amount of each EMI
  MaxAttempts,  \* bound on the submissions of one collection
  NoIntent,     \* the collection was not made yet
  NoReference,  \* the reference field is empty
  NoRequest

Clients == {"COUNTER", "UNIFIED", "UNIFIED_NO_UUID", "SCRIPT"}

ASSUME EmisNumbered == Emis \subseteq Nat \ {0}
ASSUME IntentsFilled ==
  /\ NoIntent \notin Intents
  /\ \A i \in Intents :
       /\ i.client \in Clients
       /\ i.amount \in Nat \ {0}
       /\ i.emi \in IF i.client = "COUNTER" THEN Emis ELSE {0}
ASSUME CollectionsFinite == IsFiniteSet(Collections)
ASSUME DueNatural == Due \in Nat
ASSUME AttemptsBounded == MaxAttempts \in Nat

Requests == Collections \X (1..MaxAttempts)
ASSUME NoRequestOutside == NoRequest \notin Requests

VARIABLES
  intent,   \* what each collection is: fixed once the form is filled in
  view,     \* the form of each collection: NEW, EDITING, WAITING for an answer, DONE
  attempt,  \* how often each collection was submitted
  stage,    \* UNSENT, SENT, RUNNING, then committed as OK or rolled back as FAILED
  emi,      \* the EMI that a running or committed request pays
  result,   \* the request whose payment a successful answer names
  payment   \* requests whose Payment row was committed, and of these the reversed

vars == <<intent, view, attempt, stage, emi, result, payment>>

TypeOK ==
  /\ intent \in [Collections -> Intents \union {NoIntent}]
  /\ view \in [Collections -> {"NEW", "EDITING", "WAITING", "DONE"}]
  /\ attempt \in [Collections -> 0..MaxAttempts]
  /\ stage \in [Requests -> {"UNSENT", "SENT", "RUNNING", "OK", "FAILED"}]
  /\ emi \in [Requests -> Emis \union {0}]
  /\ result \in [Requests -> Requests \union {NoRequest}]
  /\ payment \in [Requests -> {"NONE", "POSTED", "REVERSED"}]

Init ==
  /\ intent = [c \in Collections |-> NoIntent]
  /\ view = [c \in Collections |-> "NEW"]
  /\ attempt = [c \in Collections |-> 0]
  /\ stage = [r \in Requests |-> "UNSENT"]
  /\ emi = [r \in Requests |-> 0]
  /\ result = [r \in Requests |-> NoRequest]
  /\ payment = [r \in Requests |-> "NONE"]

-----------------------------------------------------------------------------
(* Rows *)

Asked(r) == intent[r[1]]

\* Mutant of Key: every request makes its own.
KeyPerRequest(r) == <<"REQUEST", r>>

\* The idempotency key of the payment: the fallback key is made of what was filled in.
Key(r) ==
  CASE Asked(r).client \in {"COUNTER", "UNIFIED"} -> <<"REQUEST", r>>
    [] Asked(r).client = "UNIFIED_NO_UUID" -> <<"ROUTED", <<Asked(r).amount, Asked(r).reference>>>>
    [] Asked(r).client = "SCRIPT" -> <<"REPEATED", <<r[1], 0>>>>

\* UnifiedCollectionIdempotency is unique per user and key.
SameKey(r, s) == Asked(r).user = Asked(s).user /\ Key(r) = Key(s)

\* Payment.reference_no is unique.
SameReference(r, s) ==
  Asked(r).reference = Asked(s).reference /\ Asked(r).reference # NoReference

\* Requests that also have a row of their own at the unified layer.
HasUnifiedRow(r) == Asked(r).client \in {"UNIFIED", "SCRIPT"}

Paid == {r \in Requests : payment[r] # "NONE"}

PostedOn(e) == {r \in Requests : payment[r] = "POSTED" /\ emi[r] = e}

\* _emi_outstanding_amount, without its floor at zero, which NoOverCollection says is never
\* reached from below.
Outstanding(e) == Due - SumFunction([r \in PostedOn(e) |-> Asked(r).amount])

Collectible == {e \in Emis : Outstanding(e) > 0}

\* Mutant of EmiFor: counts the settled ones.
EmiByCount(r) ==
  IF Asked(r).emi # 0 THEN Asked(r).emi ELSE Cardinality(Emis \ Collectible) + 1

\* The EMI named by the client, or the first with a balance.
EmiFor(r) ==
  IF Asked(r).emi # 0 THEN Asked(r).emi
  ELSE IF Collectible = {} THEN 0
  ELSE Min(Collectible)

-----------------------------------------------------------------------------
(* Clients *)

\* The operator fills in a form for the money received.
FillIn(c, i) ==
  /\ view[c] = "NEW"
  /\ intent' = [intent EXCEPT ![c] = i]
  /\ view' = [view EXCEPT ![c] = "EDITING"]
  /\ UNCHANGED <<attempt, stage, emi, result, payment>>

\* Submit, or submit again after an error: not while an answer is awaited.
Submit(c) ==
  /\ view[c] = "EDITING" /\ attempt[c] < MaxAttempts
  /\ attempt' = [attempt EXCEPT ![c] = @ + 1]
  /\ stage' = [stage EXCEPT ![<<c, attempt[c] + 1>>] = "SENT"]
  /\ view' = [view EXCEPT ![c] = "WAITING"]
  /\ UNCHANGED <<intent, emi, result, payment>>

\* The answer arrives: success closes the form, an error leaves it filled in.
ReceiveAnswer(c) ==
  /\ view[c] = "WAITING"
  /\ \E answered \in {"OK", "FAILED"} :
       /\ stage[<<c, attempt[c]>>] = answered
       /\ view' = [view EXCEPT ![c] = IF answered = "OK" THEN "DONE" ELSE "EDITING"]
  /\ UNCHANGED <<intent, attempt, stage, emi, result, payment>>

\* The page times out or the connection breaks, whatever became of the request. An answer
\* that comes later is dropped.
StopWaiting(c) ==
  /\ view[c] = "WAITING"
  /\ view' = [view EXCEPT ![c] = "EDITING"]
  /\ UNCHANGED <<intent, attempt, stage, emi, result, payment>>

-----------------------------------------------------------------------------
(* The server: collect_unified_receivable, route_collection, record_emi_payment *)

\* The payments that record_emi_payment finds: by reference, else by key.
ByReference(r) == {s \in Paid : SameReference(r, s)}
ByKey(r) == {s \in Paid : SameKey(r, s)}
Found(r) == IF ByReference(r) # {} THEN ByReference(r) ELSE ByKey(r)

\* The details that must agree, or the fingerprints made of them.
SameDetails(r, s) ==
  /\ emi[s] = EmiFor(r)
  /\ Asked(s).amount = Asked(r).amount
  /\ Asked(s).reference = Asked(r).reference

\* COMPLETED rows of the unified layer with the key of this request. They keep the answer.
StoredAnswers(r) ==
  {s \in Requests : stage[s] = "OK" /\ HasUnifiedRow(r) /\ HasUnifiedRow(s) /\ SameKey(r, s)}

\* The answer of an earlier request with this key is given again, whatever happened since.
ReplayStored(r) ==
  /\ stage[r] = "SENT"
  /\ \E s \in StoredAnswers(r) : result' = [result EXCEPT ![r] = result[s]]
  /\ stage' = [stage EXCEPT ![r] = "OK"]
  /\ UNCHANGED <<intent, view, attempt, emi, payment>>

\* Mutant of Recognize: the details are not compared.
RecognizeAny(r) ==
  /\ stage[r] = "SENT"
  /\ StoredAnswers(r) = {} /\ EmiFor(r) # 0
  /\ \E s \in Found(r) :
       /\ payment[s] = "POSTED"
       /\ result' = [result EXCEPT ![r] = s]
  /\ stage' = [stage EXCEPT ![r] = "OK"]
  /\ UNCHANGED <<intent, view, attempt, emi, payment>>

\* A payment with this reference or key and these details stands: it is the answer.
Recognize(r) ==
  /\ stage[r] = "SENT"
  /\ StoredAnswers(r) = {} /\ EmiFor(r) # 0
  /\ \E s \in Found(r) :
       /\ payment[s] = "POSTED" /\ SameDetails(r, s)
       /\ result' = [result EXCEPT ![r] = s]
  /\ stage' = [stage EXCEPT ![r] = "OK"]
  /\ UNCHANGED <<intent, view, attempt, emi, payment>>

\* No EMI is collectible, or the payment found was reversed or has other details.
Reject(r) ==
  /\ stage[r] = "SENT"
  /\ StoredAnswers(r) = {}
  /\ \/ EmiFor(r) = 0
     \/ \E s \in Found(r) : payment[s] = "REVERSED" \/ ~SameDetails(r, s)
  /\ stage' = [stage EXCEPT ![r] = "FAILED"]
  /\ UNCHANGED <<intent, view, attempt, emi, result, payment>>

\* Nothing is found. The keys are inserted as PENDING, which no other transaction sees.
Start(r) ==
  /\ stage[r] = "SENT"
  /\ StoredAnswers(r) = {} /\ EmiFor(r) # 0 /\ Found(r) = {}
  /\ stage' = [stage EXCEPT ![r] = "RUNNING"]
  /\ emi' = [emi EXCEPT ![r] = EmiFor(r)]
  /\ UNCHANGED <<intent, view, attempt, result, payment>>

\* Mutant of Post: the balance read before the lock is trusted.
PostUnlocked(r) ==
  /\ stage[r] = "RUNNING"
  /\ StoredAnswers(r) = {} /\ ByReference(r) = {} /\ ByKey(r) = {}
  /\ payment' = [payment EXCEPT ![r] = "POSTED"]
  /\ stage' = [stage EXCEPT ![r] = "OK"]
  /\ result' = [result EXCEPT ![r] = r]
  /\ UNCHANGED <<intent, view, attempt, emi>>

\* Mutant of Post: without unique constraints on keys and references.
PostUnconstrained(r) ==
  /\ stage[r] = "RUNNING"
  /\ Asked(r).amount <= Outstanding(emi[r])
  /\ payment' = [payment EXCEPT ![r] = "POSTED"]
  /\ stage' = [stage EXCEPT ![r] = "OK"]
  /\ result' = [result EXCEPT ![r] = r]
  /\ UNCHANGED <<intent, view, attempt, emi>>

\* The EMI is locked, its balance covers the amount, and no row committed meanwhile has the
\* same key or reference.
Post(r) ==
  /\ stage[r] = "RUNNING"
  /\ StoredAnswers(r) = {} /\ ByReference(r) = {} /\ ByKey(r) = {}
  /\ Asked(r).amount <= Outstanding(emi[r])
  /\ payment' = [payment EXCEPT ![r] = "POSTED"]
  /\ stage' = [stage EXCEPT ![r] = "OK"]
  /\ result' = [result EXCEPT ![r] = r]
  /\ UNCHANGED <<intent, view, attempt, emi>>

\* A constraint or a check fails, or posting the accounts does: everything is rolled back.
Fail(r) ==
  /\ stage[r] = "RUNNING"
  /\ stage' = [stage EXCEPT ![r] = "FAILED"]
  /\ emi' = [emi EXCEPT ![r] = 0]
  /\ UNCHANGED <<intent, view, attempt, result, payment>>

\* An administrator reverses a payment; its key and reference stay taken.
Reverse(r) ==
  /\ payment[r] = "POSTED"
  /\ payment' = [payment EXCEPT ![r] = "REVERSED"]
  /\ UNCHANGED <<intent, view, attempt, stage, emi, result>>

-----------------------------------------------------------------------------
Next ==
  \/ \E c \in Collections :
       \/ Submit(c) \/ ReceiveAnswer(c) \/ StopWaiting(c)
       \/ \E i \in Intents : FillIn(c, i)
  \/ \E r \in Requests :
       \/ ReplayStored(r) \/ Recognize(r) \/ Reject(r)
       \/ Start(r) \/ Post(r) \/ Fail(r) \/ Reverse(r)

Spec == Init /\ [][Next]_vars

-----------------------------------------------------------------------------
(* Properties *)

\* However many cashiers collect an EMI at once, its payments never exceed it.
NoOverCollection == \A e \in Emis : Outstanding(e) >= 0

\* A user's key stands for one payment, and so does a reference number, even when requests
\* that carry it run side by side, come late, or come after a reversal.
PaymentsDistinct ==
  \A r, s \in Paid : SameKey(r, s) \/ SameReference(r, s) => r = s

\* When the operator sees success a payment is recorded of the amount, the reference and,
\* if one was chosen, the EMI in the form: no answer stands for something else.
SuccessIsRecorded ==
  \A c \in Collections : view[c] = "DONE" =>
    \E s \in Paid :
      /\ Asked(s).amount = intent[c].amount
      /\ Asked(s).reference = intent[c].reference
      /\ intent[c].emi \in {0, emi[s]}

\* Collections whose requests repeat one key of their own.
KeyRepeated(c) ==
  view[c] # "NEW" /\ intent[c].client = "SCRIPT" /\ intent[c].reference = NoReference

Once == INSTANCE OncePerJob WITH
  Jobs <- Collections,
  Effects <- Requests,
  effects <- [c \in Collections |-> {r \in Paid : r[1] = c /\ KeyRepeated(c)}],
  told <- {c \in Collections : view[c] = "DONE" /\ KeyRepeated(c)}

\* "repeated collect/post calls with the same idempotency key do not double-apply": such
\* a collection is paid by one request at most, and told of only when it was paid.
RepeatedKeyAppliesOnce == Once!Spec

-----------------------------------------------------------------------------
(* What the repository says of resubmission and the clients do not keep *)

\* "Prevent duplicate submissions": money handed over once is recorded once. A form that
\* is submitted again after its answer was lost sends a new key.
CollectedOnce ==
  \A c \in Collections : \A r, s \in {q \in Paid : q[1] = c} : r = s
=============================================================================
