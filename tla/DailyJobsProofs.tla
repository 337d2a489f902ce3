-------------------------- MODULE DailyJobsProofs --------------------------
(***************************************************************************)
(* What DailyJobs keeps for any number of EMIs, admins, workers, requests   *)
(* and faults.                                                             *)
(***************************************************************************)
EXTENDS DailyJobs, FiniteSetTheorems, TLAPS

-----------------------------------------------------------------------------
\* Types.

LEMMA IdleTyped == Idle \in Jobs
  BY DEF Idle, Jobs, Days

LEMMA StartTyped ==
  ASSUME NEW p \in {"idle", "waiting", "body", "telling", "reporting"},
         NEW d \in Days, NEW s \in SUBSET Emis
  PROVE  Start(p, d, s) \in Jobs
  BY DEF Start, Idle, Jobs, Days

LEMMA SpendTyped ==
  ASSUME TypeOK, NEW what \in {"runs", "faults"}, NEW bound, Spend(what, bound)
  PROVE  spent' \in [{"runs", "faults"} -> Nat]
  BY DEF TypeOK, Spend

\* A commit publishes reminders and notifications of the right types.
LEMMA CommitTyped ==
  ASSUME TypeOK, NEW w \in Workers, NEW outcome \in {"SUCCESS", "FAILED"},
         CommitRun(w, outcome)
  PROVE  /\ reminders' \in [Emis -> Nat]
         /\ notices' \subseteq Days \X {"made", "failed"} \X Admins
         /\ log' \in [Days -> {"none", "SUCCESS", "FAILED"}]
<1> w \in Generators
  BY DEF Generators
<1>1. job[w].day \in Days /\ job[w].told \in SUBSET Admins
  BY DEF TypeOK, Jobs
<1>2. reminders' \in [Emis -> Nat]
  BY DEF TypeOK, CommitRun, CommitReminders
<1>3. notices' \subseteq Days \X {"made", "failed"} \X Admins
  BY <1>1 DEF TypeOK, CommitRun, Notices
<1>4. log' \in [Days -> {"none", "SUCCESS", "FAILED"}]
  BY <1>1 DEF TypeOK, CommitRun
<1> QED
  BY <1>2, <1>3, <1>4

LEMMA InitTyped == Init => TypeOK
<1> SUFFICES ASSUME Init PROVE TypeOK
  OBVIOUS
<1>1. job \in [Generators -> Jobs]
  BY IdleTyped DEF Init
<1>2. /\ log \in [Days -> {"none", "SUCCESS", "FAILED"}]
      /\ reminders \in [Emis -> Nat]
      /\ spent \in [{"runs", "faults"} -> Nat]
  BY DEF Init
<1>3. /\ notices \subseteq Days \X {"made", "failed"} \X Admins
      /\ killed \subseteq Days /\ silenced \subseteq Days
      /\ overdue \subseteq Emis
  BY DEF Init
<1> QED
  BY <1>1, <1>2, <1>3 DEF Init, TypeOK

\* The steps that leave what is committed alone.
LEMMA WorkTyped ==
  ASSUME TypeOK, NEW w \in Workers, Work(w)
  PROVE  TypeOK'
<1> w \in Generators
  BY DEF Generators
<1> USE IdleTyped, StartTyped
<1>0. /\ job[w] \in Jobs
      /\ job[w].day \in Days
      /\ job[w].asked \in SUBSET Admins
  BY DEF TypeOK, Jobs
<1>1. CASE Take(w)
  BY <1>1 DEF TypeOK, Take, Days
<1>2. CASE Skip(w)
  BY <1>2 DEF TypeOK, Skip
<1>3. CASE Enter(w)
  BY <1>3, <1>0 DEF TypeOK, Enter
<1>4. CASE EndBody(w)
  <2>1. job' \in [Generators -> Jobs]
    <3> DEFINE new == [job[w] EXCEPT
                       !.phase = "telling",
                       !.telling = IF job[w].made = {} THEN {} ELSE Admins]
    <3>1. new \in Jobs
      BY <1>4, <1>0 DEF Jobs, EndBody
    <3>2. job' = [job EXCEPT ![w] = new]
      BY <1>4 DEF TypeOK, EndBody
    <3> QED
      BY <3>1, <3>2 DEF TypeOK
  <2> QED
    BY <1>4, <2>1 DEF TypeOK, EndBody
<1>5. CASE Succeed(w)
  <2>1. CommitRun(w, "SUCCESS")
    BY <1>5 DEF Succeed
  <2>2. job' \in [Generators -> Jobs] /\ killed' \subseteq Days
    BY <1>5 DEF TypeOK, Succeed
  <2> QED
    BY <1>5, <2>1, <2>2, CommitTyped DEF TypeOK, Succeed
<1>6. ASSUME NEW e \in Emis, Remind(w, e)
      PROVE  TypeOK'
  <2>1. job' \in [Generators -> Jobs]
    <3> DEFINE new == [job[w] EXCEPT
                       !.todo = @ \ {e},
                       !.made = IF reminders[e] = 0 THEN @ \union {e} ELSE @]
    <3>1. new \in Jobs
      BY <1>6, <1>0 DEF Jobs, Remind
    <3>2. job' = [job EXCEPT ![w] = new]
      BY <1>6 DEF TypeOK, Remind
    <3> QED
      BY <3>1, <3>2 DEF TypeOK
  <2> QED
    BY <1>6, <2>1 DEF TypeOK, Remind
<1>7. ASSUME NEW a \in Admins, TellAdmin(w, a)
      PROVE  TypeOK'
  <2>1. job' \in [Generators -> Jobs]
    <3> DEFINE new == [job[w] EXCEPT
                       !.telling = @ \ {a},
                       !.told = IF <<job[w].day, "made", a>> \in notices
                                THEN @ ELSE @ \union {a}]
    <3>1. new \in Jobs
      BY <1>7, <1>0 DEF Jobs, TellAdmin
    <3>2. job' = [job EXCEPT ![w] = new]
      BY <1>7 DEF TypeOK, TellAdmin
    <3> QED
      BY <3>1, <3>2 DEF TypeOK
  <2> QED
    BY <1>7, <2>1 DEF TypeOK, TellAdmin
<1>8. ASSUME NEW a \in Admins, LookUp(w, a)
      PROVE  TypeOK'
  <2>1. job' \in [Generators -> Jobs]
    BY <1>8, <1>0 DEF TypeOK, LookUp, Jobs
  <2> QED
    BY <1>8, <2>1 DEF TypeOK, LookUp
<1>9. CASE Report(w)
  <2>1. job' \in [Generators -> Jobs]
    BY <1>9, <1>0 DEF TypeOK, Report, Jobs
  <2>2. notices' \subseteq Days \X {"made", "failed"} \X Admins
    BY <1>9, <1>0 DEF TypeOK, Report, Notices
  <2> QED
    BY <1>9, <2>1, <2>2 DEF TypeOK, Report
<1>10. CASE Collide(w)
  BY <1>10 DEF TypeOK, Collide
<1>11. CASE Reported(w)
  BY <1>11 DEF TypeOK, Reported
<1> QED
  BY <1>1, <1>2, <1>3, <1>4, <1>5, <1>6, <1>7, <1>8, <1>9, <1>10, <1>11
     DEF Work

LEMMA FaultTyped ==
  ASSUME TypeOK, NEW w \in Workers, Fault(w)
  PROVE  TypeOK'
<1> w \in Generators
  BY DEF Generators
<1>0. job[w] \in Jobs /\ job[w].day \in Days
  BY DEF TypeOK, Jobs
<1>1. CASE Raise(w)
  <2>1. CommitRun(w, "FAILED") /\ Spend("faults", MaxFaults)
    BY <1>1 DEF Raise
  <2>2. [Start("reporting", job[w].day, {}) EXCEPT !.telling = Admins] \in Jobs
    BY <1>0 DEF Start, Idle, Jobs
  <2>3. job' \in [Generators -> Jobs]
    BY <1>1, <2>2 DEF TypeOK, Raise
  <2>4. spent' \in [{"runs", "faults"} -> Nat]
    BY <2>1, SpendTyped
  <2> QED
    BY <1>1, <2>1, <2>3, <2>4, CommitTyped DEF TypeOK, Raise
<1>2. CASE Abort(w)
  <2>1. spent' \in [{"runs", "faults"} -> Nat]
    BY <1>2, SpendTyped DEF Abort
  <2> QED
    BY <1>2, <2>1, IdleTyped DEF TypeOK, Abort
<1>3. CASE Crash(w)
  <2>1. spent' \in [{"runs", "faults"} -> Nat]
    BY <1>3, SpendTyped DEF Crash
  <2> QED
    BY <1>3, <1>0, <2>1, IdleTyped DEF TypeOK, Crash
<1> QED
  BY <1>1, <1>2, <1>3 DEF Fault

LEMMA DeskTyped ==
  ASSUME TypeOK, NEW k \in Desks, DeskStart(k) \/ DeskWork(k)
  PROVE  TypeOK'
<1> k \in Generators
  BY DEF Generators
<1>0. job[k] \in Jobs
  BY DEF TypeOK
<1>1. CASE DeskStart(k)
  <2>1. spent' \in [{"runs", "faults"} -> Nat]
    BY <1>1, SpendTyped DEF DeskStart
  <2>2. Start("body", "today", overdue) \in Jobs
    BY StartTyped DEF TypeOK, Days
  <2> QED
    BY <1>1, <2>1, <2>2 DEF TypeOK, DeskStart
<1>2. CASE DeskCommit(k)
  <2>1. reminders' \in [Emis -> Nat]
    BY <1>2 DEF TypeOK, DeskCommit, CommitReminders
  <2> QED
    BY <1>2, <2>1, IdleTyped DEF TypeOK, DeskCommit
<1>3. CASE DeskFail(k)
  BY <1>3, IdleTyped DEF TypeOK, DeskFail
<1>4. ASSUME NEW e \in Emis, Remind(k, e)
      PROVE  TypeOK'
  <2>1. job' \in [Generators -> Jobs]
    <3> DEFINE new == [job[k] EXCEPT
                       !.todo = @ \ {e},
                       !.made = IF reminders[e] = 0 THEN @ \union {e} ELSE @]
    <3>1. new \in Jobs
      BY <1>4, <1>0 DEF Jobs, Remind
    <3>2. job' = [job EXCEPT ![k] = new]
      BY <1>4 DEF TypeOK, Remind
    <3> QED
      BY <3>1, <3>2 DEF TypeOK
  <2> QED
    BY <1>4, <2>1 DEF TypeOK, Remind
<1> QED
  BY <1>1, <1>2, <1>3, <1>4 DEF DeskWork

LEMMA EnvironmentTyped ==
  ASSUME TypeOK, Environment
  PROVE  TypeOK'
<1>1. CASE NextDay
  <2>1. job' \in [Generators -> Jobs]
    <3>1. \A g \in Generators : [job[g] EXCEPT !.day = "yesterday"] \in Jobs
      BY DEF TypeOK, Jobs, Days
    <3> QED
      BY <1>1, <3>1 DEF TypeOK, NextDay
  <2>2. notices' \subseteq Days \X {"made", "failed"} \X Admins
    BY <1>1 DEF TypeOK, NextDay, Days
  <2>3. log' \in [Days -> {"none", "SUCCESS", "FAILED"}]
    BY <1>1 DEF TypeOK, NextDay, Days
  <2>4. killed' \subseteq Days /\ silenced' \subseteq Days
    BY <1>1 DEF NextDay, Days
  <2> QED
    BY <1>1, <2>1, <2>2, <2>3, <2>4 DEF TypeOK, NextDay
<1>2. CASE Beat
  BY <1>2 DEF TypeOK, Beat
<1>3. ASSUME NEW e \in Emis, FallOverdue(e) \/ Settle(e)
      PROVE  TypeOK'
  BY <1>3 DEF TypeOK, FallOverdue, Settle
<1> QED
  BY <1>1, <1>2, <1>3 DEF Environment

\* Whatever happens, each part of the state keeps its type.
THEOREM JobTypes == Spec => []TypeOK
<1>1. TypeOK /\ [Next]_vars => TypeOK'
  <2> SUFFICES ASSUME TypeOK, [Next]_vars PROVE TypeOK'
    OBVIOUS
  <2>1. CASE UNCHANGED vars
    BY <2>1 DEF TypeOK, vars
  <2> QED
    BY <2>1, WorkTyped, FaultTyped, DeskTyped, EnvironmentTyped DEF Next
<1> QED
  BY InitTyped, <1>1, PTL DEF Spec

-----------------------------------------------------------------------------
\* The kinds of steps that the invariants tell apart.

\* g ends, or is not inside a run.
Calm(g) ==
  /\ \E new :
       /\ job' = [job EXCEPT ![g] = new]
       /\ new.made \subseteq job[g].made
       /\ new.phase \notin {"body", "telling"}
  /\ UNCHANGED <<log, reminders>>

\* g goes on inside its run without touching the list.
Advance(g) ==
  /\ Inside(g)
  /\ \E new :
       /\ job' = [job EXCEPT ![g] = new]
       /\ new.day = job[g].day
       /\ new.list = job[g].list
       /\ new.todo = job[g].todo
       /\ new.made = job[g].made
       /\ new.phase = "telling"
       /\ new.todo = {} \/ job[g].phase = "telling"
  /\ UNCHANGED <<log, reminders>>

\* g starts on the list of overdue EMIs.
Begin(g) ==
  /\ \E d \in Days : job' = [job EXCEPT ![g] = Start("body", d, overdue)]
  /\ UNCHANGED <<log, reminders>>

\* g commits and leaves its run.
Commit(g) ==
  /\ CommitReminders(g)
  /\ \E new :
       /\ job' = [job EXCEPT ![g] = new]
       /\ new.made = {}
       /\ new.phase \notin {"body", "telling"}

Quiet == UNCHANGED <<job, log, reminders>>

LEMMA IdleShape == Idle.phase = "idle" /\ Idle.made = {}
  BY DEF Idle

LEMMA StartShape ==
  ASSUME NEW p, NEW d, NEW s
  PROVE  /\ Start(p, d, s).phase = p
         /\ Start(p, d, s).day = d
         /\ Start(p, d, s).list = s
         /\ Start(p, d, s).todo = s
         /\ Start(p, d, s).made = {}
  BY DEF Start, Idle

LEMMA ReportingShape ==
  ASSUME NEW d
  PROVE  /\ [Start("reporting", d, {}) EXCEPT !.telling = Admins].phase = "reporting"
         /\ [Start("reporting", d, {}) EXCEPT !.telling = Admins].made = {}
  BY DEF Start, Idle

LEMMA StepKinds ==
  ASSUME TypeOK, [Next]_vars
  PROVE  \/ NextDay
         \/ Quiet
         \/ \E g \in Generators :
              \/ Calm(g) \/ Advance(g)
              \/ g \in Workers /\ Enter(g)
              \/ g \in Desks /\ DeskStart(g)
              \/ \E e \in Emis : Remind(g, e)
              \/ g \in Workers /\ (Succeed(g) \/ Raise(g))
              \/ g \in Desks /\ DeskCommit(g)
<1> USE DEF Generators
<1>1. CASE UNCHANGED vars
  BY <1>1 DEF vars, Quiet
<1>2. CASE Environment
  BY <1>2 DEF Environment, Beat, FallOverdue, Settle, Quiet
<1>3. ASSUME NEW w \in Workers, Work(w) \/ Fault(w)
      PROVE  \/ Calm(w) \/ Advance(w) \/ Enter(w)
             \/ \E e \in Emis : Remind(w, e)
             \/ Succeed(w) \/ Raise(w)
  <2>1. CASE Take(w)
    <3> DEFINE new == Start("waiting", "today", {})
    <3>1. new.made = {} /\ new.phase = "waiting"
      BY StartShape
    <3> QED
      BY <2>1, <3>1 DEF Take, Calm
  <2>2. CASE Skip(w) \/ Collide(w) \/ Reported(w) \/ Abort(w) \/ Crash(w)
    <3>1. job' = [job EXCEPT ![w] = Idle] /\ UNCHANGED <<log, reminders>>
      BY <2>2 DEF Skip, Collide, Reported, Abort, Crash
    <3> QED
      BY <3>1, IdleShape DEF Calm
  <2>3. ASSUME NEW a \in Admins, LookUp(w, a)
        PROVE  Calm(w)
    <3>1. CASE <<job[w].day, "failed", a>> \in notices
      <4> DEFINE new == [job[w] EXCEPT !.telling = @ \ {a}]
      <4>1. job' = [job EXCEPT ![w] = new]
        BY <2>3, <3>1 DEF LookUp, TypeOK
      <4>2. new.made = job[w].made /\ new.phase = "reporting"
        BY <2>3 DEF LookUp, TypeOK, Jobs
      <4> QED
        BY <2>3, <4>1, <4>2 DEF LookUp, Calm
    <3>2. CASE <<job[w].day, "failed", a>> \notin notices
      <4> DEFINE new == [job[w] EXCEPT !.asked = {a}]
      <4>1. job' = [job EXCEPT ![w] = new]
        BY <2>3, <3>2 DEF LookUp, TypeOK
      <4>2. new.made = job[w].made /\ new.phase = "reporting"
        BY <2>3 DEF LookUp, TypeOK, Jobs
      <4> QED
        BY <2>3, <4>1, <4>2 DEF LookUp, Calm
    <3> QED
      BY <3>1, <3>2
  <2>4. CASE Report(w)
    <3> DEFINE new == [job[w] EXCEPT !.telling = @ \ job[w].asked,
                                     !.asked = {}]
    <3>1. job' = [job EXCEPT ![w] = new]
      BY <2>4 DEF Report, TypeOK
    <3>2. new.made = job[w].made /\ new.phase = "reporting"
      BY <2>4 DEF Report, TypeOK, Jobs
    <3> QED
      BY <2>4, <3>1, <3>2 DEF Report, Calm
  <2>5. CASE EndBody(w)
    <3> DEFINE new == [job[w] EXCEPT
                         !.phase = "telling",
                         !.telling = IF job[w].made = {} THEN {} ELSE Admins]
    <3>1. job' = [job EXCEPT ![w] = new]
      BY <2>5 DEF EndBody, TypeOK
    <3>2. /\ new.day = job[w].day /\ new.list = job[w].list
          /\ new.todo = job[w].todo /\ new.made = job[w].made
          /\ new.phase = "telling" /\ new.todo = {}
      BY <2>5 DEF EndBody, TypeOK, Jobs
    <3> QED
      BY <2>5, <3>1, <3>2 DEF EndBody, Advance, Inside
  <2>6. ASSUME NEW a \in Admins, TellAdmin(w, a)
        PROVE  Advance(w)
    <3> DEFINE new == [job[w] EXCEPT
                         !.telling = @ \ {a},
                         !.told = IF <<job[w].day, "made", a>> \in notices
                                  THEN @ ELSE @ \union {a}]
    <3>1. job' = [job EXCEPT ![w] = new]
      BY <2>6 DEF TellAdmin, TypeOK
    <3>2. /\ new.day = job[w].day /\ new.list = job[w].list
          /\ new.todo = job[w].todo /\ new.made = job[w].made
          /\ new.phase = "telling"
      BY <2>6 DEF TellAdmin, TypeOK, Jobs
    <3> QED
      BY <2>6, <3>1, <3>2 DEF TellAdmin, Advance, Inside
  <2> QED
    BY <1>3, <2>1, <2>2, <2>3, <2>4, <2>5, <2>6 DEF Work, Fault
<1>4. ASSUME NEW k \in Desks, DeskStart(k) \/ DeskWork(k)
      PROVE  \/ DeskStart(k) \/ DeskCommit(k) \/ Calm(k)
             \/ \E e \in Emis : Remind(k, e)
  BY <1>4 DEF DeskWork, DeskFail, Calm, Idle
<1> QED
  BY <1>1, <1>2, <1>3, <1>4 DEF Next

-----------------------------------------------------------------------------
\* Runs under one key exclude each other.

\* A step of g that enters no run and leaves the log alone.
LEMMA ExclusionKept ==
  ASSUME TypeOK, OneRunPerKey, NEW g \in Generators, NEW new,
         job' = [job EXCEPT ![g] = new], UNCHANGED log,
         new.phase \in {"body", "telling"} =>
           Inside(g) /\ new.day = job[g].day
  PROVE  OneRunPerKey'
<1>1. \A w \in Workers : Inside(w)' => Inside(w) /\ job'[w].day = job[w].day
  BY DEF TypeOK, Inside, Generators
<1> QED
  BY <1>1 DEF OneRunPerKey

LEMMA ExclusionAtCommit ==
  ASSUME TypeOK, OneRunPerKey, NEW w \in Workers, Succeed(w) \/ Raise(w)
  PROVE  OneRunPerKey'
<1> w \in Generators
  BY DEF Generators
<1>1. Inside(w)
  BY DEF Succeed, Raise, Inside
<1>2. \A v \in Workers : Inside(v)' =>
        v # w /\ Inside(v) /\ job'[v] = job[v]
  <2>1. CASE Succeed(w)
    BY <2>1, IdleShape DEF TypeOK, Succeed, Inside, Generators
  <2>2. CASE Raise(w)
    BY <2>2, ReportingShape DEF TypeOK, Raise, Inside, Generators
  <2> QED
    BY <2>1, <2>2
<1>3. \A v \in Workers : Inside(v)' => job[v].day # job[w].day
  BY <1>1, <1>2 DEF OneRunPerKey
<1>4. \E outcome : log' = [log EXCEPT ![job[w].day] = outcome]
  BY DEF Succeed, Raise, CommitRun
<1>5. \A v \in Workers : Inside(v)' => log'[job'[v].day] = log[job[v].day]
  BY <1>2, <1>3, <1>4 DEF TypeOK, Jobs, Generators
<1> QED
  BY <1>2, <1>5 DEF OneRunPerKey

LEMMA ExclusionStep ==
  ASSUME TypeOK, OneRunPerKey, [Next]_vars
  PROVE  OneRunPerKey'
<1>1. CASE NextDay
  <2>1. \A w \in Workers : Inside(w)' =>
          /\ Inside(w) /\ job[w].day = "today"
          /\ job'[w].day = "yesterday"
    BY <1>1 DEF TypeOK, NextDay, Inside, Generators, Jobs, Days
  <2>2. log'["yesterday"] = log["today"]
    BY <1>1 DEF NextDay
  <2> QED
    BY <2>1, <2>2 DEF OneRunPerKey
<1>2. CASE Quiet
  BY <1>2 DEF Quiet, OneRunPerKey, Inside
<1>3. ASSUME NEW g \in Generators,
             \/ Calm(g) \/ Advance(g) \/ \E e \in Emis : Remind(g, e)
      PROVE  OneRunPerKey'
  <2>1. CASE Calm(g)
    BY <2>1, ExclusionKept DEF Calm
  <2>2. CASE Advance(g)
    BY <2>2, ExclusionKept DEF Advance
  <2>3. ASSUME NEW e \in Emis, Remind(g, e)
        PROVE  OneRunPerKey'
    <3> DEFINE new == [job[g] EXCEPT
                 !.todo = @ \ {e},
                 !.made = IF reminders[e] = 0 THEN @ \union {e} ELSE @]
    <3>1. job' = [job EXCEPT ![g] = new]
      BY <2>3 DEF Remind, TypeOK
    <3>2. Inside(g) /\ new.day = job[g].day
      BY <2>3 DEF Remind, Inside, TypeOK, Jobs
    <3> HIDE DEF new
    <3> QED
      BY <2>3, <3>1, <3>2, ExclusionKept DEF Remind
  <2> QED
    BY <1>3, <2>1, <2>2, <2>3
<1>4. ASSUME NEW w \in Workers, Enter(w)
      PROVE  OneRunPerKey'
  <2>1. \A v \in Workers : Inside(v)' =>
          \/ v = w /\ job'[v].day = job[w].day
          \/ v # w /\ Inside(v) /\ job'[v] = job[v]
    BY <1>4 DEF TypeOK, Enter, Inside, Start, Idle, Generators
  <2> QED
    BY <1>4, <2>1 DEF OneRunPerKey, Enter, Held
<1>5. ASSUME NEW k \in Desks, DeskStart(k) \/ DeskCommit(k)
      PROVE  OneRunPerKey'
  <2>1. \A w \in Workers : job'[w] = job[w]
    BY <1>5, WorkersAreNotDesks DEF TypeOK, DeskStart, DeskCommit, Generators
  <2> QED
    BY <1>5, <2>1 DEF OneRunPerKey, Inside, DeskStart, DeskCommit
<1> QED
  BY <1>1, <1>2, <1>3, <1>4, <1>5, StepKinds, ExclusionAtCommit

\* The lock on the row of a key and its uniqueness let one run in at a time,
\* and none after a success, for any number of workers.
THEOREM KeyIsExclusive == Spec => []OneRunPerKey
<1>1. Init => OneRunPerKey
  BY DEF Init, OneRunPerKey, Inside, Idle, Generators
<1>2. TypeOK /\ OneRunPerKey /\ [Next]_vars => OneRunPerKey'
  BY ExclusionStep
<1> QED
  BY JobTypes, <1>1, <1>2, PTL DEF Spec

-----------------------------------------------------------------------------
\* Every EMI of a list is still to do, written, or reminded of already.

ListAccounted ==
  \A g \in Generators : Inside(g) =>
    /\ \A e \in job[g].list :
         e \in job[g].todo \/ e \in job[g].made \/ reminders[e] > 0
    /\ job[g].phase = "telling" => job[g].todo = {}

\* It is enough that the list of g is accounted for after a step of g.
LEMMA AccountedKept ==
  ASSUME TypeOK, ListAccounted, NEW g \in Generators, NEW new,
         job' = [job EXCEPT ![g] = new],
         \A e \in Emis : reminders[e] > 0 => reminders'[e] > 0,
         new.phase \in {"body", "telling"} =>
           /\ \A e \in new.list :
                e \in new.todo \/ e \in new.made \/ reminders'[e] > 0
           /\ new.phase = "telling" => new.todo = {}
  PROVE  ListAccounted'
<1> SUFFICES ASSUME NEW h \in Generators, Inside(h)'
             PROVE  /\ \A e \in job'[h].list :
                         \/ e \in job'[h].todo
                         \/ e \in job'[h].made
                         \/ reminders'[e] > 0
                    /\ job'[h].phase = "telling" => job'[h].todo = {}
  BY DEF ListAccounted
<1>1. CASE h = g
  BY <1>1 DEF TypeOK, Inside
<1>2. CASE h # g
  <2>1. job'[h] = job[h] /\ Inside(h)
    BY <1>2 DEF TypeOK, Inside
  <2>2. job[h].list \subseteq Emis
    BY DEF TypeOK, Jobs
  <2> QED
    BY <2>1, <2>2 DEF ListAccounted
<1> QED
  BY <1>1, <1>2

LEMMA CommitGrows ==
  ASSUME TypeOK, NEW g \in Generators, CommitReminders(g)
  PROVE  \A e \in Emis : /\ reminders[e] > 0 => reminders'[e] > 0
                         /\ e \in job[g].made => reminders'[e] > 0
  BY DEF TypeOK, CommitReminders

LEMMA CommitKinds ==
  ASSUME TypeOK, NEW g \in Generators,
         \/ g \in Workers /\ (Succeed(g) \/ Raise(g))
         \/ g \in Desks /\ DeskCommit(g)
  PROVE  Commit(g)
<1>1. CASE Succeed(g)
  BY <1>1, IdleShape DEF Succeed, CommitRun, Commit
<1>2. CASE Raise(g)
  BY <1>2, ReportingShape DEF Raise, CommitRun, Commit
<1>3. CASE DeskCommit(g)
  BY <1>3, IdleShape DEF DeskCommit, Commit
<1> QED
  BY <1>1, <1>2, <1>3

LEMMA BeginKinds ==
  ASSUME TypeOK, NEW g \in Generators, Enter(g) \/ DeskStart(g)
  PROVE  Begin(g)
<1>1. CASE Enter(g)
  <2>1. job[g].day \in Days
    BY DEF TypeOK, Jobs
  <2> QED
    BY <1>1, <2>1 DEF Enter, Begin
<1>2. CASE DeskStart(g)
  BY <1>2 DEF DeskStart, Begin, Days
<1> QED
  BY <1>1, <1>2

LEMMA AccountedStep ==
  ASSUME TypeOK, ListAccounted, [Next]_vars
  PROVE  ListAccounted'
<1>1. CASE NextDay
  <2>1. \A g \in Generators :
          /\ job'[g].phase = job[g].phase /\ job'[g].list = job[g].list
          /\ job'[g].todo = job[g].todo /\ job'[g].made = job[g].made
    BY <1>1 DEF TypeOK, NextDay, Jobs
  <2>2. reminders' = reminders
    BY <1>1 DEF NextDay
  <2> QED
    BY <2>1, <2>2 DEF ListAccounted, Inside
<1>2. CASE Quiet
  BY <1>2 DEF Quiet, ListAccounted, Inside
<1>3. ASSUME NEW g \in Generators, Calm(g)
      PROVE  ListAccounted'
  BY <1>3, AccountedKept DEF Calm
<1>4. ASSUME NEW g \in Generators, Advance(g)
      PROVE  ListAccounted'
  <2>1. PICK new :
          /\ job' = [job EXCEPT ![g] = new]
          /\ new.list = job[g].list /\ new.todo = job[g].todo
          /\ new.made = job[g].made /\ new.phase = "telling"
          /\ new.todo = {} \/ job[g].phase = "telling"
    BY <1>4 DEF Advance
  <2>2. Inside(g) /\ reminders' = reminders
    BY <1>4 DEF Advance
  <2>3. /\ \A e \in new.list :
             e \in new.todo \/ e \in new.made \/ reminders'[e] > 0
        /\ new.todo = {}
    BY <2>1, <2>2 DEF ListAccounted
  <2> QED
    BY <2>1, <2>2, <2>3, AccountedKept
<1>5. ASSUME NEW g \in Generators, Begin(g)
      PROVE  ListAccounted'
  <2>1. PICK d \in Days : job' = [job EXCEPT ![g] = Start("body", d, overdue)]
    BY <1>5 DEF Begin
  <2>2. reminders' = reminders
    BY <1>5 DEF Begin
  <2> DEFINE new == Start("body", d, overdue)
  <2>3. new.phase = "body" /\ new.list = new.todo
    BY StartShape
  <2> HIDE DEF new
  <2> QED
    BY <2>1, <2>2, <2>3, AccountedKept DEF new
<1>6. ASSUME NEW g \in Generators, NEW e \in Emis, Remind(g, e)
      PROVE  ListAccounted'
  <2> DEFINE new == [job[g] EXCEPT
               !.todo = @ \ {e},
               !.made = IF reminders[e] = 0 THEN @ \union {e} ELSE @]
  <2>1. job' = [job EXCEPT ![g] = new] /\ reminders' = reminders
    BY <1>6 DEF Remind, TypeOK
  <2>2. /\ new.phase = "body" /\ new.list = job[g].list
        /\ new.todo = job[g].todo \ {e}
        /\ new.made = IF reminders[e] = 0 THEN job[g].made \union {e}
                      ELSE job[g].made
    BY <1>6 DEF Remind, TypeOK, Jobs
  <2>3. reminders[e] \in Nat /\ Inside(g)
    BY <1>6 DEF TypeOK, Remind, Inside
  <2> HIDE DEF new
  <2>4. \A f \in new.list :
          f \in new.todo \/ f \in new.made \/ reminders'[f] > 0
    BY <2>1, <2>2, <2>3 DEF ListAccounted
  <2> QED
    BY <2>1, <2>2, <2>4, AccountedKept
<1>7. ASSUME NEW g \in Generators, Commit(g)
      PROVE  ListAccounted'
  BY <1>7, CommitGrows, AccountedKept DEF Commit
<1> QED
  BY <1>1, <1>2, <1>3, <1>4, <1>5, <1>6, <1>7, StepKinds, BeginKinds,
     CommitKinds

LEMMA SuccessStep ==
  ASSUME TypeOK, OneRunPerKey, ListAccounted, [Next]_vars
  PROVE  \A w \in Workers :
           /\ Inside(w)
           /\ job'[w].phase = "idle"
           /\ log'[job[w].day] = "SUCCESS"
           => \A e \in job[w].list : reminders'[e] > 0
<1> SUFFICES ASSUME NEW w \in Workers, Inside(w), job'[w].phase = "idle",
                    log'[job[w].day] = "SUCCESS"
             PROVE  \A e \in job[w].list : reminders'[e] > 0
  OBVIOUS
<1> w \in Generators
  BY DEF Generators
<1>1. log' # log
  BY DEF OneRunPerKey
<1>2. ~NextDay
  BY DEF TypeOK, NextDay, Inside, Jobs
<1>3. PICK v \in Workers : Succeed(v) \/ Raise(v)
  BY <1>1, <1>2, StepKinds
     DEF Quiet, Calm, Advance, Enter, DeskStart, DeskCommit, Remind
<1>4. v = w /\ Succeed(w)
  <2>1. CASE v # w
    BY <1>3, <2>1 DEF Succeed, Raise, TypeOK, Inside, Generators
  <2>2. CASE v = w /\ Raise(w)
    BY <2>2, ReportingShape DEF Raise, TypeOK
  <2> QED
    BY <1>3, <2>1, <2>2
<1>5. CommitReminders(w) /\ job[w].phase = "telling"
  BY <1>4 DEF Succeed, CommitRun
<1>6. \A e \in job[w].list : e \in job[w].made \/ reminders[e] > 0
  BY <1>5 DEF ListAccounted
<1>7. job[w].list \subseteq Emis
  BY DEF TypeOK, Jobs
<1> QED
  BY <1>5, <1>6, <1>7, CommitGrows

\* A key is logged SUCCESS only when its whole list is reminded of, however
\* many EMIs it has and whoever else writes reminders meanwhile.
THEOREM SuccessIsComplete == Spec => SuccessMeansReminded
<1>1. Init => ListAccounted
  BY DEF Init, ListAccounted, Inside, Idle
<1>2. TypeOK /\ ListAccounted /\ [Next]_vars => ListAccounted'
  BY AccountedStep
<1>3. TypeOK /\ OneRunPerKey /\ ListAccounted /\ [Next]_vars =>
        [\A w \in Workers :
           /\ Inside(w)
           /\ job'[w].phase = "idle"
           /\ log'[job[w].day] = "SUCCESS"
           => \A e \in job[w].list : reminders'[e] > 0]_vars
  BY SuccessStep
<1> QED
  BY JobTypes, KeyIsExclusive, <1>1, <1>2, <1>3, PTL
     DEF Spec, SuccessMeansReminded

-----------------------------------------------------------------------------
\* Duplicates are bounded by the generators that raced.

LEMMA RacersFinite ==
  ASSUME NEW e \in Emis
  PROVE  /\ IsFiniteSet(Generators) /\ IsFiniteSet(Racers(e))
         /\ Cardinality(Generators) \in Nat /\ Cardinality(Racers(e)) \in Nat
<1>1. IsFiniteSet(Generators)
  BY FinitelyMany, FS_Union DEF Generators
<1>2. Racers(e) \subseteq Generators
  BY DEF Racers
<1> QED
  BY <1>1, <1>2, FS_Subset, FS_CardinalityType

\* For each EMI a step of g leaves no reminder committed, or drops no more
\* than it publishes.
LEMMA RacersKept ==
  ASSUME TypeOK, TypeOK', RemindedOncePerRacer, NEW g \in Generators, NEW new,
         job' = [job EXCEPT ![g] = new],
         \A e \in Emis :
           \/ reminders'[e] = 0
           \/ /\ reminders'[e] = reminders[e]
              /\ e \in new.made => e \in job[g].made
           \/ /\ reminders'[e] = reminders[e] + 1
              /\ e \in job[g].made
              /\ e \notin new.made
  PROVE  RemindedOncePerRacer'
<1> SUFFICES ASSUME NEW e \in Emis
             PROVE  reminders'[e] + Cardinality(Racers(e)')
                      <= Cardinality(Generators)
  BY DEF RemindedOncePerRacer
<1>1. /\ reminders[e] \in Nat /\ reminders'[e] \in Nat
      /\ reminders[e] + Cardinality(Racers(e)) <= Cardinality(Generators)
  BY DEF TypeOK, RemindedOncePerRacer
<1>2. /\ IsFiniteSet(Generators) /\ IsFiniteSet(Racers(e))
      /\ Cardinality(Generators) \in Nat /\ Cardinality(Racers(e)) \in Nat
  BY RacersFinite
<1>3. \A h \in Generators : job'[h] = IF h = g THEN new ELSE job[h]
  BY DEF TypeOK
<1>4. CASE reminders'[e] = 0
  <2>1. Racers(e)' \subseteq Generators
    BY DEF Racers
  <2>2. Cardinality(Racers(e)') \in Nat
        /\ Cardinality(Racers(e)') <= Cardinality(Generators)
    BY <1>2, <2>1, FS_Subset, FS_CardinalityType
  <2> QED
    BY <1>1, <1>2, <1>4, <2>2
<1>5. CASE reminders'[e] = reminders[e] /\ (e \in new.made => e \in job[g].made)
  <2>1. Racers(e)' \subseteq Racers(e)
    BY <1>3, <1>5 DEF Racers
  <2>2. Cardinality(Racers(e)') \in Nat
        /\ Cardinality(Racers(e)') <= Cardinality(Racers(e))
    BY <1>2, <2>1, FS_Subset, FS_CardinalityType
  <2> QED
    BY <1>1, <1>2, <1>5, <2>2
<1>6. CASE /\ reminders'[e] = reminders[e] + 1
           /\ e \in job[g].made /\ e \notin new.made
  <2>1. Racers(e)' = Racers(e) \ {g} /\ g \in Racers(e)
    BY <1>3, <1>6 DEF Racers
  <2>2. Cardinality(Racers(e)') = Cardinality(Racers(e)) - 1
    BY <1>2, <2>1, FS_RemoveElement
  <2> QED
    BY <1>1, <1>2, <1>6, <2>2
<1> QED
  BY <1>4, <1>5, <1>6

LEMMA RacersStep ==
  ASSUME TypeOK, TypeOK', RemindedOncePerRacer, [Next]_vars
  PROVE  RemindedOncePerRacer'
<1>1. CASE NextDay
  <2>1. \A g \in Generators : job'[g].made = job[g].made
    BY <1>1 DEF TypeOK, NextDay, Jobs
  <2>2. reminders' = reminders
    BY <1>1 DEF NextDay
  <2>3. \A e \in Emis : Racers(e)' = Racers(e)
    BY <2>1 DEF Racers
  <2> QED
    BY <2>2, <2>3 DEF RemindedOncePerRacer
<1>2. CASE Quiet
  BY <1>2 DEF Quiet, RemindedOncePerRacer, Racers
<1>3. ASSUME NEW g \in Generators, Calm(g)
      PROVE  RemindedOncePerRacer'
  BY <1>3, RacersKept DEF Calm
<1>4. ASSUME NEW g \in Generators, Advance(g)
      PROVE  RemindedOncePerRacer'
  BY <1>4, RacersKept DEF Advance
<1>5. ASSUME NEW g \in Generators, Begin(g)
      PROVE  RemindedOncePerRacer'
  <2>1. PICK d \in Days : job' = [job EXCEPT ![g] = Start("body", d, overdue)]
    BY <1>5 DEF Begin
  <2>2. reminders' = reminders /\ Start("body", d, overdue).made = {}
    BY <1>5, StartShape DEF Begin
  <2> QED
    BY <2>1, <2>2, RacersKept
<1>6. ASSUME NEW g \in Generators, NEW e \in Emis, Remind(g, e)
      PROVE  RemindedOncePerRacer'
  <2> DEFINE new == [job[g] EXCEPT
               !.todo = @ \ {e},
               !.made = IF reminders[e] = 0 THEN @ \union {e} ELSE @]
  <2>1. job' = [job EXCEPT ![g] = new] /\ reminders' = reminders
    BY <1>6 DEF Remind, TypeOK
  <2>2. new.made = IF reminders[e] = 0 THEN job[g].made \union {e}
                   ELSE job[g].made
    BY DEF TypeOK, Jobs
  <2> HIDE DEF new
  <2> QED
    BY <2>1, <2>2, RacersKept
<1>7. ASSUME NEW g \in Generators, Commit(g)
      PROVE  RemindedOncePerRacer'
  <2>1. \A e \in Emis :
          reminders'[e] = reminders[e] + IF e \in job[g].made THEN 1 ELSE 0
    BY <1>7 DEF Commit, CommitReminders
  <2>2. \A e \in Emis : reminders[e] \in Nat
    BY DEF TypeOK
  <2>3. PICK new : job' = [job EXCEPT ![g] = new] /\ new.made = {}
    BY <1>7 DEF Commit
  <2>4. \A e \in Emis :
          \/ reminders'[e] = reminders[e]
          \/ reminders'[e] = reminders[e] + 1 /\ e \in job[g].made
    BY <2>1, <2>2
  <2> QED
    BY <2>3, <2>4, RacersKept
<1> QED
  BY <1>1, <1>2, <1>3, <1>4, <1>5, <1>6, <1>7, StepKinds, BeginKinds,
     CommitKinds

\* An EMI never has more reminders than there are generators that could race
\* for the first, for any number of days, failures and killed workers.
THEOREM DuplicatesAreRaces == Spec => []RemindedOncePerRacer
<1>1. Init => RemindedOncePerRacer
  <2> SUFFICES ASSUME Init, NEW e \in Emis
               PROVE  reminders[e] + Cardinality(Racers(e))
                        <= Cardinality(Generators)
    BY DEF RemindedOncePerRacer
  <2>1. Racers(e) = {} /\ reminders[e] = 0
    BY IdleShape DEF Init, Racers
  <2> QED
    BY <2>1, RacersFinite, FS_EmptySet
<1>2. TypeOK /\ TypeOK' /\ RemindedOncePerRacer /\ [Next]_vars
        => RemindedOncePerRacer'
  BY RacersStep
<1> QED
  BY JobTypes, <1>1, <1>2, PTL DEF Spec
-----------------------------------------------------------------------------
\* A failure is reported to every admin, by whichever worker does not collide.

Untold(d) == {a \in Admins : <<d, "failed", a>> \notin notices}

\* What w looked up and is about to insert was inserted by another since.
Colliding(w) ==
  Notices(job[w].day, "failed", job[w].asked) \intersect notices # {}

\* Who reports a failure still has every admin before it who was not told.
UntoldAreToTell ==
  \A w \in Workers, d \in Days :
    Reporting(w, d) => Untold(d) \subseteq job[w].telling

\* While an admin is not told, one of those who report will not collide: of two
\* that looked up the same admin, the first to insert goes on.
SomeoneTells ==
  \A d \in Days :
    log[d] = "FAILED" /\ d \notin silenced /\ Untold(d) # {} =>
      \E w \in Workers : Reporting(w, d) /\ ~Colliding(w)

ReportInv == UntoldAreToTell /\ SomeoneTells

LEMMA ReportInvSuffices ==
  ASSUME ReportInv
  PROVE  FailureReachedAdmins
<1> SUFFICES ASSUME NEW d \in Days, log[d] = "FAILED", d \notin silenced,
                    \A w \in Workers :
                      job[w].phase = "reporting" => job[w].day # d,
                    NEW a \in Admins
             PROVE  <<d, "failed", a>> \in notices
  BY DEF FailureReachedAdmins, Reporting
<1>1. Untold(d) = {}
  BY DEF ReportInv, SomeoneTells, Reporting
<1> QED
  BY <1>1 DEF Untold

\* A step of g, which reports neither before nor after.
LEMMA ReportsLeftAlone ==
  ASSUME TypeOK, ReportInv, NEW g \in Generators, NEW new,
         job' = [job EXCEPT ![g] = new],
         UNCHANGED <<log, notices>>, silenced \subseteq silenced',
         job[g].phase # "reporting", new.phase # "reporting"
  PROVE  ReportInv'
<1>1. \A w \in Generators : w # g => job'[w] = job[w]
  BY DEF TypeOK
<1>2. job'[g].phase # "reporting"
  BY DEF TypeOK
<1>3. \A w \in Workers, d \in Days :
        (Reporting(w, d) \/ Reporting(w, d)') => w # g /\ job'[w] = job[w]
  BY <1>1, <1>2 DEF Reporting, Generators
<1>4. \A d \in Days : Untold(d)' = Untold(d)
  BY DEF Untold
<1>5. UntoldAreToTell'
  BY <1>3, <1>4 DEF ReportInv, UntoldAreToTell, Reporting
<1>6. SomeoneTells'
  <2> SUFFICES ASSUME NEW d \in Days, log'[d] = "FAILED", d \notin silenced',
                      Untold(d)' # {}
               PROVE  \E w \in Workers : Reporting(w, d)' /\ ~Colliding(w)'
    BY DEF SomeoneTells
  <2>1. PICK w \in Workers : Reporting(w, d) /\ ~Colliding(w)
    BY <1>4 DEF ReportInv, SomeoneTells
  <2>2. job'[w] = job[w]
    BY <1>3, <2>1
  <2>3. Reporting(w, d)' /\ ~Colliding(w)'
    BY <2>1, <2>2 DEF Reporting, Colliding, Notices
  <2> QED
    BY <2>3
<1> QED
  BY <1>5, <1>6 DEF ReportInv

\* The commit of a run tells of reminders, never of a failure.
LEMMA CommitTellsNoFailure ==
  ASSUME NEW w \in Workers, NEW outcome, CommitRun(w, outcome)
  PROVE  \A d, a : <<d, "failed", a>> \in notices'
                     <=> <<d, "failed", a>> \in notices
  BY DEF CommitRun, Notices

LEMMA SameFailuresSameUntold ==
  ASSUME \A d, a : <<d, "failed", a>> \in notices'
                     <=> <<d, "failed", a>> \in notices
  PROVE  /\ \A d : Untold(d)' = Untold(d)
         /\ \A w : job'[w] = job[w] => Colliding(w)' = Colliding(w)
  BY DEF Untold, Colliding, Notices

LEMMA ReportsAtCommit ==
  ASSUME TypeOK, ReportInv, NEW g \in Workers, Succeed(g) \/ Raise(g)
  PROVE  ReportInv'
<1> g \in Generators
  BY DEF Generators
<1>1. PICK outcome \in {"SUCCESS", "FAILED"} : CommitRun(g, outcome)
  BY DEF Succeed, Raise
<1>2. /\ \A d : Untold(d)' = Untold(d)
      /\ \A w : job'[w] = job[w] => Colliding(w)' = Colliding(w)
  BY <1>1, CommitTellsNoFailure, SameFailuresSameUntold
<1>3. \A w \in Workers : w # g => job'[w] = job[w]
  BY DEF TypeOK, Generators, Succeed, Raise
<1>4. job[g].day \in Days /\ \A d \in Days : ~Reporting(g, d)
  BY DEF TypeOK, Jobs, Succeed, Raise, Inside, Reporting
<1>5. CASE Succeed(g)
  <2>1. job'[g].phase = "idle"
    BY <1>5, IdleShape DEF TypeOK, Succeed
  <2>2. UntoldAreToTell'
    BY <1>2, <1>3, <2>1 DEF ReportInv, UntoldAreToTell, Reporting
  <2>3. /\ log' = [log EXCEPT ![job[g].day] = "SUCCESS"]
        /\ silenced' = silenced
    BY <1>5 DEF Succeed, CommitRun
  <2>4. SomeoneTells'
    <3> SUFFICES ASSUME NEW d \in Days, log'[d] = "FAILED", d \notin silenced',
                        Untold(d)' # {}
                 PROVE  \E w \in Workers : Reporting(w, d)' /\ ~Colliding(w)'
      BY DEF SomeoneTells
    <3>1. log[d] = "FAILED" /\ d \notin silenced
      BY <1>4, <2>3 DEF TypeOK
    <3>2. PICK w \in Workers : Reporting(w, d) /\ ~Colliding(w)
      BY <1>2, <3>1 DEF ReportInv, SomeoneTells
    <3>3. job'[w] = job[w]
      BY <1>3, <1>4, <3>2
    <3> QED
      BY <1>2, <3>2, <3>3 DEF Reporting
  <2> QED
    BY <2>2, <2>4 DEF ReportInv
<1>6. CASE Raise(g)
  <2>1. /\ job'[g].phase = "reporting" /\ job'[g].day = job[g].day
        /\ job'[g].telling = Admins /\ job'[g].asked = {}
    BY <1>6 DEF TypeOK, Raise, Start, Idle
  <2>2. UntoldAreToTell'
    <3> SUFFICES ASSUME NEW w \in Workers, NEW d \in Days, Reporting(w, d)'
                 PROVE  Untold(d)' \subseteq job'[w].telling
      BY DEF UntoldAreToTell
    <3>1. CASE w = g
      BY <2>1, <3>1 DEF Untold
    <3>2. CASE w # g
      BY <1>2, <1>3, <3>2 DEF ReportInv, UntoldAreToTell, Reporting
    <3> QED
      BY <3>1, <3>2
  <2>3. /\ log' = [log EXCEPT ![job[g].day] = "FAILED"]
        /\ silenced' = silenced \ {job[g].day}
    BY <1>6 DEF Raise, CommitRun
  <2>4. SomeoneTells'
    <3> SUFFICES ASSUME NEW d \in Days, log'[d] = "FAILED", d \notin silenced',
                        Untold(d)' # {}
                 PROVE  \E w \in Workers : Reporting(w, d)' /\ ~Colliding(w)'
      BY DEF SomeoneTells
    <3>1. CASE d = job[g].day
      <4>1. Reporting(g, d)' /\ ~Colliding(g)'
        BY <2>1, <3>1 DEF Reporting, Colliding, Notices
      <4> QED
        BY <4>1
    <3>2. CASE d # job[g].day
      <4>1. log[d] = "FAILED" /\ d \notin silenced
        BY <1>4, <2>3, <3>2 DEF TypeOK
      <4>2. PICK w \in Workers : Reporting(w, d) /\ ~Colliding(w)
        BY <1>2, <4>1 DEF ReportInv, SomeoneTells
      <4>3. job'[w] = job[w]
        BY <1>3, <1>4, <4>2
      <4> QED
        BY <1>2, <4>2, <4>3 DEF Reporting
    <3> QED
      BY <3>1, <3>2
  <2> QED
    BY <2>2, <2>4 DEF ReportInv
<1> QED
  BY <1>5, <1>6

\* A worker that looks up an admin, ends its report, or collides.
LEMMA ReportsGoOn ==
  ASSUME TypeOK, ReportInv, NEW g \in Workers,
         \/ \E a \in Admins : LookUp(g, a)
         \/ Collide(g) \/ Reported(g)
  PROVE  ReportInv'
<1> g \in Generators
  BY DEF Generators
<1>1. /\ UNCHANGED <<log, notices, silenced>>
      /\ job[g].phase = "reporting" /\ job[g].day \in Days
  BY DEF LookUp, Collide, Reported, TypeOK, Jobs
<1>2. \A w \in Workers : w # g => job'[w] = job[w]
  BY DEF TypeOK, Generators, LookUp, Collide, Reported
<1>3. /\ \A d : Untold(d)' = Untold(d)
      /\ \A w : job'[w] = job[w] => Colliding(w)' = Colliding(w)
  BY <1>1, SameFailuresSameUntold
<1>4. /\ job'[g].phase = "reporting" =>
           /\ job'[g].day = job[g].day
           /\ Untold(job[g].day) \subseteq job'[g].telling
           /\ ~Colliding(g)'
      /\ job'[g].phase # "reporting" =>
           Colliding(g) \/ Untold(job[g].day) = {}
  <2>0. /\ Untold(job[g].day) \subseteq job[g].telling
        /\ job[g].telling \subseteq Admins
    BY <1>1 DEF ReportInv, UntoldAreToTell, Reporting, TypeOK, Jobs
  <2>1. ASSUME NEW a \in Admins, LookUp(g, a)
        PROVE  /\ job'[g].phase = "reporting"
               /\ job'[g].day = job[g].day
               /\ Untold(job[g].day) \subseteq job'[g].telling
               /\ ~Colliding(g)'
    <3>0. job[g].asked = {}
      BY <2>1 DEF LookUp
    <3>1. CASE <<job[g].day, "failed", a>> \in notices
      <4>1. /\ job'[g].phase = "reporting" /\ job'[g].day = job[g].day
            /\ job'[g].telling = job[g].telling \ {a}
            /\ job'[g].asked = {}
        BY <1>1, <2>1, <3>0, <3>1 DEF TypeOK, Jobs, LookUp
      <4>2. a \notin Untold(job[g].day)
        BY <3>1 DEF Untold
      <4> QED
        BY <2>0, <4>1, <4>2 DEF Colliding, Notices
    <3>2. CASE <<job[g].day, "failed", a>> \notin notices
      <4>1. /\ job'[g].phase = "reporting" /\ job'[g].day = job[g].day
            /\ job'[g].telling = job[g].telling
            /\ job'[g].asked = {a}
        BY <1>1, <2>1, <3>2 DEF TypeOK, Jobs, LookUp
      <4>2. notices' = notices
        BY <1>1
      <4> QED
        BY <2>0, <3>2, <4>1, <4>2 DEF Colliding, Notices
    <3> QED
      BY <3>1, <3>2
  <2>2. CASE Collide(g)
    BY <2>2, IdleShape DEF TypeOK, Collide, Colliding
  <2>3. CASE Reported(g)
    BY <2>0, <2>3, IdleShape DEF TypeOK, Reported
  <2> QED
    BY <2>1, <2>2, <2>3
<1>5. UntoldAreToTell'
  <2> SUFFICES ASSUME NEW w \in Workers, NEW d \in Days, Reporting(w, d)'
               PROVE  Untold(d)' \subseteq job'[w].telling
    BY DEF UntoldAreToTell
  <2>1. CASE w = g
    BY <1>3, <1>4, <2>1 DEF Reporting
  <2>2. CASE w # g
    BY <1>2, <1>3, <2>2 DEF ReportInv, UntoldAreToTell, Reporting
  <2> QED
    BY <2>1, <2>2
<1>6. SomeoneTells'
  <2> SUFFICES ASSUME NEW d \in Days, log'[d] = "FAILED", d \notin silenced',
                      Untold(d)' # {}
               PROVE  \E w \in Workers : Reporting(w, d)' /\ ~Colliding(w)'
    BY DEF SomeoneTells
  <2>1. PICK w \in Workers : Reporting(w, d) /\ ~Colliding(w)
    BY <1>1, <1>3 DEF ReportInv, SomeoneTells
  <2>2. CASE w # g
    BY <1>2, <1>3, <2>1, <2>2 DEF Reporting
  <2>3. CASE w = g
    BY <1>3, <1>4, <2>1, <2>3 DEF Reporting
  <2> QED
    BY <2>2, <2>3
<1> QED
  BY <1>5, <1>6 DEF ReportInv

\* The insert: whoever else asked for the same admin collides now, and g does
\* not.
LEMMA ReportsInsert ==
  ASSUME TypeOK, ReportInv, NEW g \in Workers, Report(g)
  PROVE  ReportInv'
<1> g \in Generators
  BY DEF Generators
<1>0. job[g].day \in Days /\ job[g].phase = "reporting"
  BY DEF TypeOK, Jobs, Report
<1>1. /\ UNCHANGED <<log, silenced>>
      /\ notices' = notices \union Notices(job[g].day, "failed", job[g].asked)
  BY DEF Report
<1>2. \A w \in Workers : w # g => job'[w] = job[w]
  BY DEF TypeOK, Generators, Report
<1>3. /\ job'[g].phase = "reporting" /\ job'[g].day = job[g].day
      /\ job'[g].telling = job[g].telling \ job[g].asked
      /\ job'[g].asked = {}
  BY <1>0 DEF TypeOK, Jobs, Report
<1>4. \A d : Untold(d)' = IF d = job[g].day THEN Untold(d) \ job[g].asked
                          ELSE Untold(d)
  BY <1>1 DEF Untold, Notices
<1>5. UntoldAreToTell'
  <2> SUFFICES ASSUME NEW w \in Workers, NEW d \in Days, Reporting(w, d)'
               PROVE  Untold(d)' \subseteq job'[w].telling
    BY DEF UntoldAreToTell
  <2>1. CASE w = g
    <3>1. d = job[g].day /\ Untold(d) \subseteq job[g].telling
      BY <1>0, <1>3, <2>1 DEF ReportInv, UntoldAreToTell, Reporting
    <3> QED
      BY <1>3, <1>4, <2>1, <3>1
  <2>2. CASE w # g
    <3>1. Untold(d) \subseteq job[w].telling /\ job'[w] = job[w]
      BY <1>2, <2>2 DEF ReportInv, UntoldAreToTell, Reporting
    <3> QED
      BY <1>4, <3>1
  <2> QED
    BY <2>1, <2>2
<1>6. SomeoneTells'
  <2> SUFFICES ASSUME NEW d \in Days, log'[d] = "FAILED", d \notin silenced',
                      Untold(d)' # {}
               PROVE  \E w \in Workers : Reporting(w, d)' /\ ~Colliding(w)'
    BY DEF SomeoneTells
  <2>1. CASE d = job[g].day
    <3>1. Reporting(g, d)' /\ ~Colliding(g)'
      BY <1>3, <2>1 DEF Reporting, Colliding, Notices
    <3> QED
      BY <3>1
  <2>2. CASE d # job[g].day
    <3>1. PICK w \in Workers : Reporting(w, d) /\ ~Colliding(w)
      BY <1>1, <1>4, <2>2 DEF ReportInv, SomeoneTells
    <3>2. job'[w] = job[w] /\ job[w].day = d
      BY <1>2, <2>2, <3>1 DEF Reporting
    <3>3. Notices(d, "failed", job[w].asked) \intersect notices' = {}
      BY <1>1, <2>2, <3>1, <3>2 DEF Colliding, Notices
    <3>4. Reporting(w, d)' /\ ~Colliding(w)'
      BY <3>1, <3>2, <3>3 DEF Reporting, Colliding
    <3> QED
      BY <3>4
  <2> QED
    BY <2>1, <2>2
<1> QED
  BY <1>5, <1>6 DEF ReportInv

\* A worker that is killed takes the report it was making with it, whose key is
\* excepted; if it was making none, every report goes on.
LEMMA ReportsKilled ==
  ASSUME TypeOK, ReportInv, NEW g \in Workers, Crash(g)
  PROVE  ReportInv'
<1> g \in Generators
  BY DEF Generators
<1>1. /\ UNCHANGED <<log, notices>>
      /\ silenced \subseteq silenced'
      /\ job[g].phase = "reporting" => job[g].day \in silenced'
  BY DEF Crash
<1>2. \A w \in Workers : w # g => job'[w] = job[w]
  BY DEF TypeOK, Generators, Crash
<1>3. job'[g].phase = "idle"
  BY IdleShape DEF TypeOK, Crash
<1>4. /\ \A d : Untold(d)' = Untold(d)
      /\ \A w : job'[w] = job[w] => Colliding(w)' = Colliding(w)
  BY <1>1, SameFailuresSameUntold
<1>5. UntoldAreToTell'
  BY <1>2, <1>3, <1>4 DEF ReportInv, UntoldAreToTell, Reporting
<1>6. SomeoneTells'
  <2> SUFFICES ASSUME NEW d \in Days, log'[d] = "FAILED", d \notin silenced',
                      Untold(d)' # {}
               PROVE  \E w \in Workers : Reporting(w, d)' /\ ~Colliding(w)'
    BY DEF SomeoneTells
  <2>1. PICK w \in Workers : Reporting(w, d) /\ ~Colliding(w)
    BY <1>1, <1>4 DEF ReportInv, SomeoneTells
  <2>2. w # g
    BY <1>1, <2>1 DEF Reporting
  <2> QED
    BY <1>2, <1>4, <2>1, <2>2 DEF Reporting
<1> QED
  BY <1>5, <1>6 DEF ReportInv

\* At midnight a report of today goes on as one of yesterday.
LEMMA ReportsOverMidnight ==
  ASSUME TypeOK, ReportInv, NextDay
  PROVE  ReportInv'
<1>1. /\ log' = [today |-> "none", yesterday |-> log["today"]]
      /\ "yesterday" \in silenced' <=> "today" \in silenced
  BY DEF NextDay
<1>2. \A a : /\ <<"yesterday", "failed", a>> \in notices'
                  <=> <<"today", "failed", a>> \in notices
             /\ <<"today", "failed", a>> \notin notices'
  BY DEF NextDay, TypeOK
<1>3. \A w \in Workers : job[w].phase = "reporting" =>
        /\ job[w].day = "today" /\ job'[w].day = "yesterday"
        /\ job'[w].phase = "reporting"
        /\ job'[w].telling = job[w].telling
        /\ job'[w].asked = job[w].asked
  BY DEF NextDay, TypeOK, Jobs, Days, Generators
<1>4. \A w \in Workers : job'[w].phase = "reporting" =>
        job[w].phase = "reporting"
  BY DEF NextDay, TypeOK, Jobs, Generators
<1>5. Untold("yesterday")' = Untold("today")
  BY <1>2 DEF Untold
<1>6. \A w \in Workers : job[w].phase = "reporting" =>
        Colliding(w)' = Colliding(w)
  <2> SUFFICES ASSUME NEW w \in Workers, job[w].phase = "reporting"
               PROVE  Colliding(w)' = Colliding(w)
    OBVIOUS
  <2>1. /\ Colliding(w) <=>
             \E a \in job[w].asked : <<"today", "failed", a>> \in notices
        /\ Colliding(w)' <=>
             \E a \in job[w].asked : <<"yesterday", "failed", a>> \in notices'
    BY <1>3 DEF Colliding, Notices
  <2>2. Colliding(w) \in BOOLEAN /\ Colliding(w)' \in BOOLEAN
    BY DEF Colliding
  <2> QED
    BY <1>2, <2>1, <2>2
<1>7. UntoldAreToTell'
  <2> SUFFICES ASSUME NEW w \in Workers, NEW d \in Days, Reporting(w, d)'
               PROVE  Untold(d)' \subseteq job'[w].telling
    BY DEF UntoldAreToTell
  <2>1. /\ d = "yesterday" /\ Reporting(w, "today")
        /\ job'[w].telling = job[w].telling
    BY <1>3, <1>4 DEF Reporting
  <2> QED
    BY <1>5, <2>1 DEF ReportInv, UntoldAreToTell, Days
<1>8. SomeoneTells'
  <2> SUFFICES ASSUME NEW d \in Days, log'[d] = "FAILED", d \notin silenced',
                      Untold(d)' # {}
               PROVE  \E w \in Workers : Reporting(w, d)' /\ ~Colliding(w)'
    BY DEF SomeoneTells
  <2>1. d = "yesterday" /\ log["today"] = "FAILED" /\ "today" \notin silenced
    BY <1>1 DEF Days
  <2>2. PICK w \in Workers : Reporting(w, "today") /\ ~Colliding(w)
    BY <1>5, <2>1 DEF ReportInv, SomeoneTells, Days
  <2> QED
    BY <1>3, <1>6, <2>1, <2>2 DEF Reporting
<1> QED
  BY <1>7, <1>8 DEF ReportInv

LEMMA ReportStep ==
  ASSUME TypeOK, ReportInv, [Next]_vars
  PROVE  ReportInv'
<1>1. CASE UNCHANGED <<log, notices, silenced, job>>
  BY <1>1 DEF ReportInv, UntoldAreToTell, SomeoneTells, Untold, Reporting,
              Colliding, Notices
<1>2. ASSUME NEW g \in Generators, NEW e \in Emis, Remind(g, e)
      PROVE  ReportInv'
  <2> DEFINE new == [job[g] EXCEPT
               !.todo = @ \ {e},
               !.made = IF reminders[e] = 0 THEN @ \union {e} ELSE @]
  <2>1. job' = [job EXCEPT ![g] = new] /\ new.phase = "body"
    BY <1>2 DEF Remind, TypeOK, Jobs
  <2>2. /\ UNCHANGED <<log, notices, silenced>>
        /\ job[g].phase # "reporting"
    BY <1>2 DEF Remind
  <2> HIDE DEF new
  <2> QED
    BY <2>1, <2>2, ReportsLeftAlone
<1>3. ASSUME NEW g \in Generators, NEW p \in {"waiting", "body"}, NEW d, NEW s,
             job' = [job EXCEPT ![g] = Start(p, d, s)],
             job[g].phase # "reporting", UNCHANGED <<log, notices, silenced>>
      PROVE  ReportInv'
  <2> DEFINE new == Start(p, d, s)
  <2>1. new.phase # "reporting"
    BY StartShape
  <2> HIDE DEF new
  <2> QED
    BY <1>3, <2>1, ReportsLeftAlone DEF new
<1>4. ASSUME NEW g \in Generators, job' = [job EXCEPT ![g] = Idle],
             job[g].phase # "reporting", UNCHANGED <<log, notices, silenced>>
      PROVE  ReportInv'
  BY <1>4, IdleShape, ReportsLeftAlone
<1>5. ASSUME NEW w \in Workers, Work(w)
      PROVE  ReportInv'
  <2> w \in Generators
    BY DEF Generators
  <2>1. CASE Take(w) \/ Enter(w)
    BY <1>3, <2>1 DEF Take, Enter
  <2>2. CASE Skip(w)
    BY <1>4, <2>2 DEF Skip
  <2>3. CASE EndBody(w)
    <3> DEFINE new == [job[w] EXCEPT
                         !.phase = "telling",
                         !.telling = IF job[w].made = {} THEN {} ELSE Admins]
    <3>1. job' = [job EXCEPT ![w] = new] /\ new.phase = "telling"
      BY <2>3 DEF EndBody, TypeOK, Jobs
    <3>2. /\ UNCHANGED <<log, notices, silenced>>
          /\ job[w].phase # "reporting"
      BY <2>3 DEF EndBody
    <3> HIDE DEF new
    <3> QED
      BY <3>1, <3>2, ReportsLeftAlone
  <2>4. ASSUME NEW a \in Admins, TellAdmin(w, a)
        PROVE  ReportInv'
    <3> DEFINE new == [job[w] EXCEPT
                         !.telling = @ \ {a},
                         !.told = IF <<job[w].day, "made", a>> \in notices
                                  THEN @ ELSE @ \union {a}]
    <3>1. job' = [job EXCEPT ![w] = new] /\ new.phase = "telling"
      BY <2>4 DEF TellAdmin, TypeOK, Jobs
    <3>2. /\ UNCHANGED <<log, notices, silenced>>
          /\ job[w].phase # "reporting"
      BY <2>4 DEF TellAdmin
    <3> HIDE DEF new
    <3> QED
      BY <3>1, <3>2, ReportsLeftAlone
  <2> QED
    BY <1>2, <1>5, <2>1, <2>2, <2>3, <2>4, ReportsAtCommit, ReportsGoOn,
       ReportsInsert
       DEF Work
<1>6. ASSUME NEW w \in Workers, Fault(w)
      PROVE  ReportInv'
  <2> w \in Generators
    BY DEF Generators
  <2>1. CASE Abort(w)
    BY <1>4, <2>1 DEF Abort, Inside
  <2> QED
    BY <1>6, <2>1, ReportsAtCommit, ReportsKilled DEF Fault
<1>7. ASSUME NEW k \in Desks, DeskStart(k) \/ DeskWork(k)
      PROVE  ReportInv'
  <2> k \in Generators
    BY DEF Generators
  <2>1. CASE DeskStart(k)
    BY <1>3, <2>1 DEF DeskStart
  <2>2. CASE DeskCommit(k) \/ DeskFail(k)
    BY <1>4, <2>2 DEF DeskCommit, DeskFail
  <2> QED
    BY <1>2, <1>7, <2>1, <2>2 DEF DeskWork
<1>8. CASE Environment
  BY <1>1, <1>8, ReportsOverMidnight DEF Environment, Beat, FallOverdue, Settle
<1> QED
  BY <1>1, <1>5, <1>6, <1>7, <1>8 DEF Next, vars

\* When a run ended FAILED and nobody reports under its key, every admin was told, for
\* any number of workers that fail and report at the same time, unless a worker was
\* killed while it reported the failure.  Runs killed at any other point make no
\* difference.
THEOREM FailuresAreReported == Spec => []FailureReachedAdmins
<1>1. Init => ReportInv
  <2> SUFFICES ASSUME Init PROVE ReportInv
    OBVIOUS
  <2>1. \A w \in Workers, d \in Days : ~Reporting(w, d)
    BY IdleShape DEF Init, Reporting, Generators
  <2>2. \A d \in Days : log[d] = "none"
    BY DEF Init
  <2> QED
    BY <2>1, <2>2 DEF ReportInv, UntoldAreToTell, SomeoneTells
<1>2. TypeOK /\ ReportInv /\ [Next]_vars => ReportInv'
  BY ReportStep
<1>3. ReportInv => FailureReachedAdmins
  BY ReportInvSuffices
<1> QED
  BY JobTypes, <1>1, <1>2, <1>3, PTL DEF Spec
-----------------------------------------------------------------------------
\* Admins are told of reminders by the commit that publishes the reminders.

MadeNotices(N) == {n \in N : n[2] = "made"}

\* A run has told, or has left to tell, an admin only if it wrote a reminder.
TellsOfMade ==
  \A w \in Workers :
    /\ job[w].told # {} => job[w].made # {}
    /\ job[w].phase = "telling" /\ job[w].telling # {} => job[w].made # {}

LEMMA NoticesFinite ==
  ASSUME NEW N, N \subseteq Days \X {"made", "failed"} \X Admins
  PROVE  IsFiniteSet(N)
<1> DEFINE Kinds == {"made", "failed"}
           P == (Days \X Kinds) \X Admins
           Q == Days \X Kinds \X Admins
           f == [p \in P |-> <<p[1][1], p[1][2], p[2]>>]
<1>1. IsFiniteSet(Days) /\ IsFiniteSet(Kinds)
  <2>1. Days = {"today"} \union {"yesterday"}
    BY DEF Days
  <2>2. Kinds = {"made"} \union {"failed"}
    OBVIOUS
  <2>3. /\ IsFiniteSet({"today"}) /\ IsFiniteSet({"yesterday"})
        /\ IsFiniteSet({"made"}) /\ IsFiniteSet({"failed"})
    BY FS_Singleton
  <2>4. IsFiniteSet({"today"} \union {"yesterday"})
    BY <2>3, FS_Union
  <2>5. IsFiniteSet({"made"} \union {"failed"})
    BY <2>3, FS_Union
  <2> QED
    BY <2>1, <2>2, <2>4, <2>5
<1>2. IsFiniteSet(P)
  <2>1. IsFiniteSet(Days \X Kinds)
    BY <1>1, FS_Product
  <2> QED
    BY <2>1, FinitelyMany, FS_Product
<1>3. f \in [P -> Q]
  OBVIOUS
<1>4. \A q \in Q : \E p \in P : f[p] = q
  <2> SUFFICES ASSUME NEW q \in Q PROVE \E p \in P : f[p] = q
    OBVIOUS
  <2> WITNESS <<<<q[1], q[2]>>, q[3]>> \in P
  <2> QED
    OBVIOUS
<1>5. f \in Surjection(P, Q)
  BY <1>3, <1>4 DEF Surjection
<1>6. IsFiniteSet(Q)
  BY <1>2, <1>5, FS_Surjection
<1> QED
  BY <1>6, FS_Subset

\* At midnight what was of today is renamed, and nothing is added.
LEMMA MidnightTellsNobody ==
  ASSUME TypeOK, NextDay
  PROVE  Told(notices') <= Told(notices)
<1> DEFINE M == {n \in notices : n[1] = "today" /\ n[2] = "made"}
           T == MadeNotices(notices')
           f == [n \in M |-> <<"yesterday", n[2], n[3]>>]
<1>1. f \in [M -> T]
  BY DEF TypeOK, NextDay, MadeNotices
<1>2. \A t \in T : \E n \in M : f[n] = t
  BY DEF TypeOK, NextDay, MadeNotices
<1>3. f \in Surjection(M, T)
  BY <1>1, <1>2 DEF Surjection
<1>4. M \subseteq MadeNotices(notices) /\ MadeNotices(notices) \subseteq notices
  BY DEF MadeNotices
<1>5. IsFiniteSet(M) /\ IsFiniteSet(MadeNotices(notices))
  BY <1>4, NoticesFinite DEF TypeOK
<1>6. Cardinality(M) <= Cardinality(MadeNotices(notices))
  BY <1>4, <1>5, FS_Subset
<1>7. IsFiniteSet(T) /\ Cardinality(T) <= Cardinality(M)
  BY <1>3, <1>5, FS_Surjection
<1>8. /\ Cardinality(T) \in Nat /\ Cardinality(M) \in Nat
      /\ Cardinality(MadeNotices(notices)) \in Nat
  BY <1>5, <1>7, FS_CardinalityType
<1>9. Cardinality(T) <= Cardinality(MadeNotices(notices))
  BY <1>6, <1>7, <1>8
<1> QED
  BY <1>9 DEF Told, MadeNotices

LEMMA ToldTyped ==
  ASSUME NEW N, N \subseteq Days \X {"made", "failed"} \X Admins
  PROVE  Told(N) \in Nat
<1>1. IsFiniteSet(MadeNotices(N))
  BY NoticesFinite DEF MadeNotices
<1> QED
  BY <1>1, FS_CardinalityType DEF Told, MadeNotices

\* Only a commit of a run, and midnight, touch the notifications of reminders.
LEMMA WhoTellsOfReminders ==
  ASSUME TypeOK, [Next]_vars
  PROVE  \/ MadeNotices(notices') = MadeNotices(notices)
         \/ NextDay
         \/ \E w \in Workers : Succeed(w) \/ Raise(w)
<1>1. CASE Environment
  BY <1>1 DEF Environment, Beat, FallOverdue, Settle
<1>2. ASSUME NEW w \in Workers, Work(w)
      PROVE  \/ MadeNotices(notices') = MadeNotices(notices)
             \/ Succeed(w)
  <2>1. CASE Report(w)
    BY <2>1 DEF Report, Notices, MadeNotices
  <2> QED
    BY <1>2, <2>1 DEF Work, Take, Skip, Enter, EndBody, Remind, TellAdmin,
                      LookUp, Collide, Reported
<1>3. ASSUME NEW w \in Workers, Fault(w)
      PROVE  notices' = notices \/ Raise(w)
  BY <1>3 DEF Fault, Abort, Crash
<1>4. ASSUME NEW k \in Desks, DeskStart(k) \/ DeskWork(k)
      PROVE  notices' = notices
  BY <1>4 DEF DeskStart, DeskWork, DeskCommit, DeskFail, Remind
<1> QED
  BY <1>1, <1>2, <1>3, <1>4 DEF Next, vars

LEMMA ToldStep ==
  ASSUME TypeOK, TellsOfMade, [Next]_vars, Told(notices') > Told(notices)
  PROVE  \E e \in Emis : reminders'[e] > reminders[e]
<1>0. Told(notices) \in Nat
  BY ToldTyped DEF TypeOK
<1>1. MadeNotices(notices') # MadeNotices(notices)
  <2>1. Told(notices') # Told(notices)
    BY <1>0
  <2> QED
    BY <2>1 DEF Told, MadeNotices
<1>2. CASE NextDay
  <2>1. Told(notices') <= Told(notices)
    BY <1>2, MidnightTellsNobody
  <2>2. Told(notices') \in Nat
    <3>1. TypeOK'
      BY <1>2, EnvironmentTyped DEF Environment
    <3> QED
      BY <3>1, ToldTyped DEF TypeOK
  <2> QED
    BY <1>0, <2>1, <2>2
<1>3. ASSUME NEW w \in Workers, Succeed(w) \/ Raise(w)
      PROVE  \E e \in Emis : reminders'[e] > reminders[e]
  <2> w \in Generators
    BY DEF Generators
  <2>1. /\ CommitReminders(w)
        /\ notices' = notices \union Notices(job[w].day, "made", job[w].told)
    BY <1>3 DEF Succeed, Raise, CommitRun
  <2>2. job[w].told # {}
    BY <1>1, <2>1 DEF Notices
  <2>3. PICK e \in job[w].made : TRUE
    BY <2>2 DEF TellsOfMade
  <2>4. e \in Emis /\ reminders[e] \in Nat
    BY DEF TypeOK, Jobs
  <2>5. reminders'[e] = reminders[e] + 1
    BY <2>1, <2>4 DEF CommitReminders
  <2> QED
    BY <2>4, <2>5
<1> QED
  BY <1>1, <1>2, <1>3, WhoTellsOfReminders

\* A step of g that tells only after it made a reminder.
LEMMA TellsKept ==
  ASSUME TypeOK, TellsOfMade, NEW g \in Generators, NEW new,
         job' = [job EXCEPT ![g] = new],
         g \in Workers =>
           /\ new.told # {} => new.made # {}
           /\ new.phase = "telling" /\ new.telling # {} => new.made # {}
  PROVE  TellsOfMade'
<1>1. \A w \in Workers : job'[w] = IF w = g THEN new ELSE job[w]
  BY DEF TypeOK, Generators
<1> QED
  BY <1>1 DEF TellsOfMade

LEMMA TellsStep ==
  ASSUME TypeOK, TellsOfMade, [Next]_vars
  PROVE  TellsOfMade'
<1>1. CASE UNCHANGED job
  BY <1>1 DEF TellsOfMade
<1>2. ASSUME NEW g \in Generators, NEW p \in {"waiting", "body"}, NEW d, NEW s,
             job' = [job EXCEPT ![g] = Start(p, d, s)]
      PROVE  TellsOfMade'
  <2> DEFINE new == Start(p, d, s)
  <2>1. new.told = {} /\ new.phase # "telling"
    BY DEF Start, Idle
  <2> HIDE DEF new
  <2> QED
    BY <1>2, <2>1, TellsKept DEF new
<1>3. ASSUME NEW g \in Generators, job' = [job EXCEPT ![g] = Idle]
      PROVE  TellsOfMade'
  <2>1. Idle.told = {} /\ Idle.phase = "idle"
    BY DEF Idle
  <2> QED
    BY <1>3, <2>1, TellsKept
<1>4. ASSUME NEW g \in Generators, NEW e \in Emis, Remind(g, e)
      PROVE  TellsOfMade'
  <2> DEFINE new == [job[g] EXCEPT
               !.todo = @ \ {e},
               !.made = IF reminders[e] = 0 THEN @ \union {e} ELSE @]
  <2>1. job' = [job EXCEPT ![g] = new] /\ new.phase = "body"
    BY <1>4 DEF Remind, TypeOK, Jobs
  <2>2. new.told = job[g].told /\ job[g].made \subseteq new.made
    BY DEF TypeOK, Jobs
  <2> HIDE DEF new
  <2>3. g \in Workers /\ new.told # {} => new.made # {}
    BY <2>2 DEF TellsOfMade
  <2> QED
    BY <2>1, <2>3, TellsKept
<1>5. ASSUME NEW w \in Workers, Work(w)
      PROVE  TellsOfMade'
  <2> w \in Generators
    BY DEF Generators
  <2>0. job[w].told # {} => job[w].made # {}
    BY DEF TellsOfMade
  <2>1. CASE Take(w) \/ Enter(w)
    BY <1>2, <2>1 DEF Take, Enter
  <2>2. CASE Skip(w) \/ Succeed(w) \/ Collide(w) \/ Reported(w)
    BY <1>3, <2>2 DEF Skip, Succeed, Collide, Reported
  <2>3. CASE EndBody(w)
    <3> DEFINE new == [job[w] EXCEPT
                         !.phase = "telling",
                         !.telling = IF job[w].made = {} THEN {} ELSE Admins]
    <3>1. job' = [job EXCEPT ![w] = new]
      BY <2>3 DEF EndBody, TypeOK
    <3>2. /\ new.told = job[w].told /\ new.made = job[w].made
          /\ new.telling # {} => job[w].made # {}
      BY DEF TypeOK, Jobs
    <3> HIDE DEF new
    <3> QED
      BY <2>0, <3>1, <3>2, TellsKept
  <2>4. ASSUME NEW a \in Admins, TellAdmin(w, a)
        PROVE  TellsOfMade'
    <3> DEFINE new == [job[w] EXCEPT
                         !.telling = @ \ {a},
                         !.told = IF <<job[w].day, "made", a>> \in notices
                                  THEN @ ELSE @ \union {a}]
    <3>1. job' = [job EXCEPT ![w] = new]
      BY <2>4 DEF TellAdmin, TypeOK
    <3>2. new.made = job[w].made
      BY DEF TypeOK, Jobs
    <3>3. job[w].made # {}
      BY <2>4 DEF TellAdmin, TellsOfMade
    <3> HIDE DEF new
    <3> QED
      BY <3>1, <3>2, <3>3, TellsKept
  <2>5. ASSUME NEW a \in Admins, LookUp(w, a)
        PROVE  TellsOfMade'
    <3>1. \A v \in Workers : /\ job'[v].told = job[v].told
                             /\ job'[v].made = job[v].made
                             /\ job'[v].phase = job[v].phase
                             /\ job'[v].phase = "telling" =>
                                  job'[v].telling = job[v].telling
      BY <2>5 DEF LookUp, TypeOK, Jobs, Generators
    <3> QED
      BY <3>1 DEF TellsOfMade
  <2>6. CASE Report(w)
    <3>1. \A v \in Workers : /\ job'[v].told = job[v].told
                             /\ job'[v].made = job[v].made
                             /\ job'[v].phase = job[v].phase
                             /\ job'[v].phase = "telling" =>
                                  job'[v].telling = job[v].telling
      BY <2>6 DEF Report, TypeOK, Jobs, Generators
    <3> QED
      BY <3>1 DEF TellsOfMade
  <2> QED
    BY <1>4, <1>5, <2>1, <2>2, <2>3, <2>4, <2>5, <2>6 DEF Work
<1>6. ASSUME NEW w \in Workers, Fault(w)
      PROVE  TellsOfMade'
  <2> w \in Generators
    BY DEF Generators
  <2>1. CASE Raise(w)
    <3> DEFINE new ==
          [Start("reporting", job[w].day, {}) EXCEPT !.telling = Admins]
    <3>1. new.told = {} /\ new.phase = "reporting"
      BY DEF Start, Idle
    <3>2. job' = [job EXCEPT ![w] = new]
      BY <2>1 DEF Raise
    <3> HIDE DEF new
    <3> QED
      BY <3>1, <3>2, TellsKept
  <2> QED
    BY <1>3, <1>6, <2>1 DEF Fault, Abort, Crash
<1>7. ASSUME NEW k \in Desks, DeskStart(k) \/ DeskWork(k)
      PROVE  TellsOfMade'
  <2> k \in Generators
    BY DEF Generators
  <2> QED
    BY <1>2, <1>3, <1>4, <1>7 DEF DeskStart, DeskWork, DeskCommit, DeskFail
<1>8. CASE NextDay
  <2>1. \A v \in Workers : /\ job'[v].told = job[v].told
                           /\ job'[v].made = job[v].made
                           /\ job'[v].phase = job[v].phase
                           /\ job'[v].telling = job[v].telling
    BY <1>8 DEF NextDay, TypeOK, Jobs, Generators
  <2> QED
    BY <2>1 DEF TellsOfMade
<1> QED
  BY <1>1, <1>5, <1>6, <1>7, <1>8
     DEF Next, Environment, Beat, FallOverdue, Settle, vars

\* No admin is told of new reminders but by the commit that publishes one, for
\* any number of EMIs, admins and workers.
THEOREM TellingFollowsReminders == Spec => ToldWithTheReminders
<1>1. Init => TellsOfMade
  BY DEF Init, TellsOfMade, Idle, Generators
<1>2. TypeOK /\ TellsOfMade /\ [Next]_vars => TellsOfMade'
  BY TellsStep
<1>3. TypeOK /\ TellsOfMade /\ [Next]_vars =>
        [Told(notices') > Told(notices) =>
           \E e \in Emis : reminders'[e] > reminders[e]]_vars
  BY ToldStep
<1> QED
  BY JobTypes, <1>1, <1>2, <1>3, PTL DEF Spec, ToldWithTheReminders
=============================================================================
