----------------------------- MODULE DailyJobs -----------------------------
(***************************************************************************)
(* The daily job that reminds of overdue EMIs.  Celery beat sends one       *)
(* message a day; a worker runs the job in one transaction under the key of *)
(* the date it starts on (job_runner.py), writes the reminders that are     *)
(* missing, tells every admin, and reports a failure once the failure is    *)
(* committed.  An admin's request can write the same reminders without any  *)
(* key.  Messages are acknowledged when they are taken, so a worker that is *)
(* killed takes its message with it.                                        *)
(*                                                                          *)
(* Nothing of a transaction is seen before it commits: the PENDING and      *)
(* RUNNING states of the job log are never visible, and whoever asks for a  *)
(* key that is being worked under waits for that transaction to end.  A     *)
(* task is stopped after an hour (CELERY_TASK_TIME_LIMIT), so no run        *)
(* outlives the day after its own and two keys are enough.                  *)
(***************************************************************************)
EXTENDS Naturals, FiniteSets

CONSTANTS
  Emis, Admins,
  Workers,       \* processes of the Celery worker (--concurrency)
  Desks,         \* requests of an admin that run the generator by hand
  MaxMessages,   \* bound on the messages waiting in the broker
  MaxRuns,       \* bound on the admin's requests
  MaxFaults      \* bound on runs that raise and on workers that are killed

ASSUME WorkersAreNotDesks == Workers \intersect Desks = {}
ASSUME FinitelyMany ==
  IsFiniteSet(Workers) /\ IsFiniteSet(Desks) /\ IsFiniteSet(Admins)
ASSUME NaturalBounds == {MaxMessages, MaxRuns, MaxFaults} \subseteq Nat

Generators == Workers \union Desks
Days == {"today", "yesterday"}

VARIABLES
  dispatched,  \* beat has sent the message of today
  messages,    \* messages in the broker
  overdue,     \* EMIs that are pending past their due date
  log,         \* the committed row of each day's key
  job,         \* what each worker and each request is doing
  reminders,   \* committed overdue reminders of each EMI
  notices,     \* committed notifications: day, kind, admin
  killed,      \* keys of which a run was killed, and none succeeded since
  silenced,    \* keys of which a worker was killed while it reported a failure,
               \* and no run failed since
  spent        \* how much of each bound was used

vars == <<dispatched, messages, overdue, log, job, reminders, notices, killed,
          silenced, spent>>

Idle ==
  [phase |-> "idle", day |-> "today", list |-> {}, todo |-> {}, made |-> {},
   telling |-> {}, told |-> {}, asked |-> {}]

Start(phase, day, list) ==
  [Idle EXCEPT !.phase = phase, !.day = day, !.list = list, !.todo = list]

\* Between the first statement and the commit of a run.
Inside(g) == job[g].phase \in {"body", "telling"}

\* Mutant of Held: the log row is read without a lock and has no unique key.
HeldByNobody(d) == FALSE

\* The key is inserted or locked by a transaction that has not ended.
Held(d) == \E w \in Workers : Inside(w) /\ job[w].day = d

Spend(what, bound) ==
  /\ spent[what] < bound
  /\ spent' = [spent EXCEPT ![what] = @ + 1]

Notices(d, kind, admins) == {<<d, kind, a>> : a \in admins}

-----------------------------------------------------------------------------
\* The surroundings: time, EMIs and beat.

Init ==
  /\ dispatched = FALSE
  /\ messages = 0
  /\ overdue \in SUBSET Emis
  /\ log = [d \in Days |-> "none"]
  /\ job = [g \in Generators |-> Idle]
  /\ reminders = [e \in Emis |-> 0]
  /\ notices = {}
  /\ killed = {}
  /\ silenced = {}
  /\ spent = [what \in {"runs", "faults"} |-> 0]

\* Mutant of NextDay: the key of the job does not name the date.
NextDayUndated ==
  /\ \A w \in Workers : job[w].day # "yesterday"
  /\ dispatched' = FALSE
  /\ UNCHANGED <<messages, overdue, log, job, reminders, notices, killed,
                 silenced, spent>>

\* Midnight: what was of today is of yesterday, and the key before that is not
\* used any more.
NextDay ==
  /\ \A w \in Workers : job[w].day # "yesterday"
  /\ dispatched' = FALSE
  /\ log' = [today |-> "none", yesterday |-> log["today"]]
  /\ job' = [g \in Generators |->
               IF g \in Workers /\ job[g].phase # "idle"
               THEN [job[g] EXCEPT !.day = "yesterday"] ELSE job[g]]
  /\ notices' = {<<"yesterday", n[2], n[3]>> :
                   n \in {m \in notices : m[1] = "today"}}
  /\ killed' = IF "today" \in killed THEN {"yesterday"} ELSE {}
  /\ silenced' = IF "today" \in silenced THEN {"yesterday"} ELSE {}
  /\ UNCHANGED <<messages, overdue, reminders, spent>>

FallOverdue(e) ==
  /\ e \notin overdue
  /\ overdue' = overdue \union {e}
  /\ UNCHANGED <<dispatched, messages, log, job, reminders, notices, killed,
                 silenced, spent>>

\* Paid or waived; a reversal can make the EMI overdue again.
Settle(e) ==
  /\ e \in overdue
  /\ overdue' = overdue \ {e}
  /\ UNCHANGED <<dispatched, messages, log, job, reminders, notices, killed,
                 silenced, spent>>

Beat ==
  /\ ~dispatched
  /\ messages < MaxMessages
  /\ dispatched' = TRUE
  /\ messages' = messages + 1
  /\ UNCHANGED <<overdue, log, job, reminders, notices, killed, silenced,
                 spent>>

-----------------------------------------------------------------------------
\* A worker: run_idempotent_job around the body of the task.

\* Mutant of Take: two workers take the same message.
TakeAnyway(w) ==
  /\ job[w].phase = "idle"
  /\ dispatched
  /\ messages' = messages - 1
  /\ job' = [job EXCEPT ![w] = Start("waiting", "today", {})]
  /\ UNCHANGED <<dispatched, overdue, log, reminders, notices, killed,
                 silenced, spent>>

\* The task asks for the key of the date at which it starts.
Take(w) ==
  /\ job[w].phase = "idle"
  /\ messages > 0
  /\ messages' = messages - 1
  /\ job' = [job EXCEPT ![w] = Start("waiting", "today", {})]
  /\ UNCHANGED <<dispatched, overdue, log, reminders, notices, killed,
                 silenced, spent>>

\* The lock on the row, or the unique key, lets the worker through.
Skip(w) ==
  /\ job[w].phase = "waiting"
  /\ ~Held(job[w].day)
  /\ log[job[w].day] = "SUCCESS"
  /\ job' = [job EXCEPT ![w] = Idle]
  /\ UNCHANGED <<dispatched, messages, overdue, log, reminders, notices,
                 killed, silenced, spent>>

Enter(w) ==
  LET d == job[w].day IN
  /\ job[w].phase = "waiting"
  /\ ~Held(d)
  /\ log[d] # "SUCCESS"
  /\ job' = [job EXCEPT ![w] = Start("body", d, overdue)]
  /\ UNCHANGED <<dispatched, messages, overdue, log, reminders, notices,
                 killed, silenced, spent>>

\* Mutant of Remind: the generator does not look for an existing reminder.
RemindAgain(g, e) ==
  /\ job[g].phase = "body"
  /\ e \in job[g].todo
  /\ job' = [job EXCEPT ![g].todo = @ \ {e}, ![g].made = @ \union {e}]
  /\ UNCHANGED <<dispatched, messages, overdue, log, reminders, notices,
                 killed, silenced, spent>>

\* One EMI of the list: a reminder unless a committed one exists.
Remind(g, e) ==
  /\ job[g].phase = "body"
  /\ e \in job[g].todo
  /\ job' = [job EXCEPT
       ![g].todo = @ \ {e},
       ![g].made = IF reminders[e] = 0 THEN @ \union {e} ELSE @]
  /\ UNCHANGED <<dispatched, messages, overdue, log, reminders, notices,
                 killed, silenced, spent>>

\* Mutant of EndBody: the loop leaves off before the end of the list.
EndBodyEarly(w) ==
  /\ job[w].phase = "body"
  /\ job' = [job EXCEPT ![w].phase = "telling",
                        ![w].telling = IF job[w].made = {} THEN {} ELSE Admins]
  /\ UNCHANGED <<dispatched, messages, overdue, log, reminders, notices,
                 killed, silenced, spent>>

\* Every active admin is told, when the run wrote a reminder.
EndBody(w) ==
  /\ job[w].phase = "body"
  /\ job[w].todo = {}
  /\ job' = [job EXCEPT ![w].phase = "telling",
                        ![w].telling = IF job[w].made = {} THEN {} ELSE Admins]
  /\ UNCHANGED <<dispatched, messages, overdue, log, reminders, notices,
                 killed, silenced, spent>>

TellAdmin(w, a) ==
  /\ job[w].phase = "telling"
  /\ a \in job[w].telling
  /\ job' = [job EXCEPT
       ![w].telling = @ \ {a},
       ![w].told = IF <<job[w].day, "made", a>> \in notices THEN @
                   ELSE @ \union {a}]
  /\ UNCHANGED <<dispatched, messages, overdue, log, reminders, notices,
                 killed, silenced, spent>>

\* What the transaction of g did becomes visible.
CommitReminders(g) ==
  reminders' = [e \in Emis |-> reminders[e] + IF e \in job[g].made THEN 1 ELSE 0]

CommitRun(w, outcome) ==
  LET d == job[w].day IN
  /\ CommitReminders(w)
  /\ notices' = notices \union Notices(d, "made", job[w].told)
  /\ log' = [log EXCEPT ![d] = outcome]

Succeed(w) ==
  /\ job[w].phase = "telling"
  /\ job[w].telling = {}
  /\ CommitRun(w, "SUCCESS")
  /\ job' = [job EXCEPT ![w] = Idle]
  /\ killed' = killed \ {job[w].day}
  /\ UNCHANGED <<dispatched, messages, overdue, silenced, spent>>

\* Mutant of Raise: the failure is saved and nobody is told.
RaiseSilently(w) ==
  /\ Inside(w)
  /\ Spend("faults", MaxFaults)
  /\ CommitRun(w, "FAILED")
  /\ job' = [job EXCEPT ![w] = Idle]
  /\ UNCHANGED <<dispatched, messages, overdue, killed, silenced>>

\* An exception of the body is caught inside the transaction: the run is
\* committed as FAILED with what it did so far, and then reported.
Raise(w) ==
  /\ Inside(w)
  /\ Spend("faults", MaxFaults)
  /\ CommitRun(w, "FAILED")
  /\ job' = [job EXCEPT
       ![w] = [Start("reporting", job[w].day, {}) EXCEPT !.telling = Admins]]
  /\ silenced' = silenced \ {job[w].day}
  /\ UNCHANGED <<dispatched, messages, overdue, killed>>

\* Mutant of Abort: the notifications are not written in the transaction.
AbortAfterTelling(w) ==
  /\ Inside(w)
  /\ Spend("faults", MaxFaults)
  /\ job' = [job EXCEPT ![w] = Idle]
  /\ notices' = notices \union Notices(job[w].day, "made", job[w].told)
  /\ UNCHANGED <<dispatched, messages, overdue, log, reminders, killed,
                 silenced>>

\* An error of the database leaves the transaction unusable: saving FAILED
\* raises too, all of it is rolled back and the task ends without a report.
Abort(w) ==
  /\ Inside(w)
  /\ Spend("faults", MaxFaults)
  /\ job' = [job EXCEPT ![w] = Idle]
  /\ UNCHANGED <<dispatched, messages, overdue, log, reminders, notices,
                 killed, silenced>>

\* notify_admins_of_job: each notification is looked up and then inserted in a
\* transaction of its own; the unique key ends the task of the second to insert.
LookUp(w, a) ==
  /\ job[w].phase = "reporting"
  /\ job[w].asked = {}
  /\ a \in job[w].telling
  /\ job' = IF <<job[w].day, "failed", a>> \in notices
            THEN [job EXCEPT ![w].telling = @ \ {a}]
            ELSE [job EXCEPT ![w].asked = {a}]
  /\ UNCHANGED <<dispatched, messages, overdue, log, reminders, notices,
                 killed, silenced, spent>>

Report(w) ==
  LET wanted == Notices(job[w].day, "failed", job[w].asked) IN
  /\ job[w].phase = "reporting"
  /\ job[w].asked # {}
  /\ wanted \intersect notices = {}
  /\ notices' = notices \union wanted
  /\ job' = [job EXCEPT ![w].telling = @ \ job[w].asked, ![w].asked = {}]
  /\ UNCHANGED <<dispatched, messages, overdue, log, reminders, killed,
                 silenced, spent>>

Collide(w) ==
  /\ job[w].phase = "reporting"
  /\ Notices(job[w].day, "failed", job[w].asked) \intersect notices # {}
  /\ job' = [job EXCEPT ![w] = Idle]
  /\ UNCHANGED <<dispatched, messages, overdue, log, reminders, notices,
                 killed, silenced, spent>>

Reported(w) ==
  /\ job[w].phase = "reporting"
  /\ job[w].telling = {}
  /\ job' = [job EXCEPT ![w] = Idle]
  /\ UNCHANGED <<dispatched, messages, overdue, log, reminders, notices,
                 killed, silenced, spent>>

\* The process dies, or is killed when the service stops.
Crash(w) ==
  /\ job[w].phase # "idle"
  /\ Spend("faults", MaxFaults)
  /\ job' = [job EXCEPT ![w] = Idle]
  /\ killed' = killed \union {job[w].day}
  /\ silenced' = IF job[w].phase = "reporting" THEN silenced \union {job[w].day}
                 ELSE silenced
  /\ UNCHANGED <<dispatched, messages, overdue, log, reminders, notices>>

-----------------------------------------------------------------------------
\* The request of an admin, in one transaction and without a key.

DeskStart(k) ==
  /\ job[k].phase = "idle"
  /\ Spend("runs", MaxRuns)
  /\ job' = [job EXCEPT ![k] = Start("body", "today", overdue)]
  /\ UNCHANGED <<dispatched, messages, overdue, log, reminders, notices,
                 killed, silenced>>

DeskCommit(k) ==
  /\ job[k].phase = "body"
  /\ job[k].todo = {}
  /\ CommitReminders(k)
  /\ job' = [job EXCEPT ![k] = Idle]
  /\ UNCHANGED <<dispatched, messages, overdue, log, notices, killed,
                 silenced, spent>>

\* An exception or a lost process rolls the request back.
DeskFail(k) ==
  /\ job[k].phase = "body"
  /\ job' = [job EXCEPT ![k] = Idle]
  /\ UNCHANGED <<dispatched, messages, overdue, log, reminders, notices,
                 killed, silenced, spent>>

-----------------------------------------------------------------------------
Environment ==
  \/ NextDay \/ Beat
  \/ \E e \in Emis : FallOverdue(e) \/ Settle(e)

\* What a worker does when nothing goes wrong.
Work(w) ==
  \/ Take(w) \/ Skip(w) \/ Enter(w) \/ EndBody(w) \/ Succeed(w)
  \/ \E e \in Emis : Remind(w, e)
  \/ \E a \in Admins : TellAdmin(w, a) \/ LookUp(w, a)
  \/ Report(w) \/ Collide(w) \/ Reported(w)

Fault(w) == Raise(w) \/ Abort(w) \/ Crash(w)

DeskWork(k) == DeskCommit(k) \/ DeskFail(k) \/ \E e \in Emis : Remind(k, e)

Next ==
  \/ Environment
  \/ \E w \in Workers : Work(w) \/ Fault(w)
  \/ \E k \in Desks : DeskStart(k) \/ DeskWork(k)

\* Days pass, beat is restarted when it stops and sends what is due, a worker
\* goes on with its task and takes the next one, and a request ends.
Fairness ==
  /\ WF_vars(NextDay) /\ WF_vars(Beat)
  /\ \A w \in Workers : WF_vars(Work(w))
  /\ \A k \in Desks : WF_vars(DeskWork(k))

Spec == Init /\ [][Next]_vars
FairSpec == Spec /\ Fairness

-----------------------------------------------------------------------------
Jobs ==
  [phase : {"idle", "waiting", "body", "telling", "reporting"}, day : Days,
   list : SUBSET Emis, todo : SUBSET Emis, made : SUBSET Emis,
   telling : SUBSET Admins, told : SUBSET Admins, asked : SUBSET Admins]

\* Every part of the state has its type.
TypeOK ==
  /\ dispatched \in BOOLEAN
  /\ messages \in Nat
  /\ overdue \subseteq Emis
  /\ log \in [Days -> {"none", "SUCCESS", "FAILED"}]
  /\ job \in [Generators -> Jobs]
  /\ reminders \in [Emis -> Nat]
  /\ notices \subseteq Days \X {"made", "failed"} \X Admins
  /\ killed \subseteq Days
  /\ silenced \subseteq Days
  /\ spent \in [{"runs", "faults"} -> Nat]

\* A key is logged SUCCESS only for the whole job: each EMI that the run set
\* out to remind of has a committed reminder then, whichever run, failed run or
\* request of an admin wrote it (job_runner.py, emi_reminder_jobs.py).
SuccessMeansReminded ==
  [][\A w \in Workers :
       /\ Inside(w)
       /\ job'[w].phase = "idle"
       /\ log'[job[w].day] = "SUCCESS"
       => \A e \in job[w].list : reminders'[e] > 0]_vars

Told(N) == Cardinality({n \in N : n[2] = "made"})

\* Admins are told of new reminders only together with the reminders: one
\* commit publishes both, and a run that is rolled back leaves neither.
ToldWithTheReminders ==
  [][Told(notices') > Told(notices) =>
       \E e \in Emis : reminders'[e] > reminders[e]]_vars

\* Runs under one key never overlap, and none begins after one succeeded: the
\* lock on the log row and its unique key serialise every worker.
OneRunPerKey ==
  \A v, w \in Workers :
    /\ Inside(v) /\ Inside(w) /\ job[v].day = job[w].day => v = w
    /\ Inside(w) => log[job[w].day] # "SUCCESS"

\* The generators that have a reminder of e written and not committed.
Racers(e) == {g \in Generators : e \in job[g].made}

\* However many days pass and runs fail, an EMI is reminded of at most once for
\* each generator that could have raced for the first reminder.
RemindedOncePerRacer ==
  \A e \in Emis :
    reminders[e] + Cardinality(Racers(e)) <= Cardinality(Generators)

\* The failure of key d is committed and w is telling the admins of it.
Reporting(w, d) == job[w].phase = "reporting" /\ job[w].day = d

\* When a run ended FAILED and nobody reports under its key, every admin has been
\* told, whichever of several failing runs wrote each notification: unless a worker
\* was killed in the middle of the report.  The code loses the report then, because
\* it is made after the commit and nothing takes it up again.  A run killed at any
\* other point excuses nothing.
FailureReachedAdmins ==
  \A d \in Days :
    /\ log[d] = "FAILED"
    /\ d \notin silenced
    /\ \A w \in Workers : ~Reporting(w, d)
    => \A a \in Admins : <<d, "failed", a>> \in notices

\* An EMI that stays overdue is reminded of in the end, although runs fail and
\* workers are killed: the run of a later day finds it without a reminder.
OverdueRemindedInTheEnd ==
  \A e \in Emis :
    e \in overdue ~> (reminders[e] > 0 \/ e \notin overdue)

\* "a killed run is retried safely" (subidha-celery.service:35): a day is not
\* over, with no message left that could do it, while a run killed on that day
\* has not been made up for.
KilledRunRetried ==
  "yesterday" \in killed =>
    \/ messages > 0
    \/ \E w \in Workers : job[w].phase # "idle"
=============================================================================
