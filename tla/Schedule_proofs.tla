--------------------------- MODULE Schedule_proofs ---------------------------
(***************************************************************************)
(* For all values of the constants of Schedule: type correctness, that no  *)
(* day goes without its sweep, and that no charge lapses unwarned.         *)
(***************************************************************************)
EXTENDS Schedule, TLAPS

(* A tick that has stamped the day has a sweep to enqueue. *)
TickSweeps == tick.at = "stamped" => tick.kinds \in {<<"sweep">>, <<"digest", "sweep">>}

(* The types, by what changes together. *)
ClockType == clock \in Time /\ mishaps \in 0..MaxMishaps /\ up \in BOOLEAN /\ working \in BOOLEAN

SettingsType == setting \in Settings /\ edits \in 0..MaxEdits /\ hushed \in BOOLEAN

StampType ==
  /\ stamp \in Date \cup {NoDate}
  /\ keyed \in Date \cup {NoDate}
  /\ tick \in Tick
  /\ swept \in BOOLEAN
  /\ lost \in BOOLEAN

JobType == job \in [Key -> Job] /\ queue \in Seq(Key)

(* The queue holds the due rows, each once. *)
QueueOK ==
  /\ \A k \in Key : job[k].at = "due" <=> \E i \in 1..Len(queue) : queue[i] = k
  /\ \A i, j \in 1..Len(queue) : queue[i] = queue[j] => i = j

ChargeType ==
  /\ charge \in [Tx -> [status : {"new", "notified", "lapsed"}, at : Time]]
  /\ warned \subseteq Tx
  /\ behind \subseteq Of("digest")
  /\ lowered \in BOOLEAN

LEMMA TypeParts ==
  TypeOK <=> ClockType /\ SettingsType /\ StampType /\ JobType /\ QueueOK /\ ChargeType
<1>1. queue \in Seq(Key) => DOMAIN queue = 1..Len(queue)
  OBVIOUS
<1>. QED
  BY <1>1 DEF TypeOK, ClockType, SettingsType, StampType, JobType, QueueOK, ChargeType

LEMMA Constants ==
  /\ 0 \in Time /\ MaxMishaps \in Nat /\ MaxEdits \in Nat /\ MaxTime \in Nat
  /\ \A c \in Time : UtcDateOf[c] \in Date /\ \A z \in Zone : DateOf[z][c] \in Date
  /\ \A s \in Settings : s.zone \in Zone /\ s.enabled \in BOOLEAN /\ s.lapse \in Int
  BY ScheduleAssumption DEF Time

LEMMA InitTyped == Init => TypeOK /\ TickSweeps /\ DayIsSwept
<1> SUFFICES ASSUME Init PROVE TypeOK /\ TickSweeps /\ DayIsSwept
  OBVIOUS
<1> USE Constants DEF Init
<1>1. ClockType /\ SettingsType
  <2>1. clock \in Time /\ mishaps \in 0..MaxMishaps /\ edits \in 0..MaxEdits
    OBVIOUS
  <2>2. up \in BOOLEAN /\ working \in BOOLEAN /\ hushed \in BOOLEAN /\ setting \in Settings
    OBVIOUS
  <2>. QED
    BY <2>1, <2>2 DEF ClockType, SettingsType
<1>2. StampType
  BY DEF StampType, Tick, Idle
<1>3. JobType /\ QueueOK
  BY DEF JobType, QueueOK, Job, NoJob
<1>4. ChargeType
  BY DEF ChargeType
<1>5. TickSweeps /\ DayIsSwept
  BY DEF TickSweeps, DayIsSwept, Idle
<1> HIDE DEF Init
<1>. QED
  BY <1>1, <1>2, <1>3, <1>4, <1>5, TypeParts

-----------------------------------------------------------------------------
(* Every variable keeps its type. *)

LEMMA ClockStep ==
  ASSUME TypeOK, [Next]_vars
  PROVE  ClockType' /\ SettingsType'
<1>1. ClockType /\ SettingsType
  BY TypeParts
<1>2. UNCHANGED clock \/ (clock < MaxTime /\ clock' = clock + 1)
  <2>1. CASE Scheduler
    BY <2>1 DEF Scheduler, DueTasks, Enqueue, TickFails
  <2>2. CASE Worker
    BY <2>2 DEF Worker, Claim, BuildDigest, SendDigest, Sweep, Finish, FinishFails, Fails
  <2>3. CASE World
    BY <2>3 DEF World, Advance, Announce, SaveSettings, Elapse, ReviveDead, Crash, Start, StartFails
  <2>4. CASE UNCHANGED vars
    BY <2>4 DEF vars
  <2>. QED
    BY <2>1, <2>2, <2>3, <2>4 DEF Next
<1>3. UNCHANGED mishaps \/ Mishap
  <2>1. CASE Scheduler
    BY <2>1 DEF Scheduler, DueTasks, Enqueue, TickFails
  <2>2. CASE Worker
    BY <2>2 DEF Worker, Claim, BuildDigest, SendDigest, Sweep, Finish, FinishFails, Fails
  <2>3. CASE World
    BY <2>3 DEF World, Advance, Announce, SaveSettings, Elapse, ReviveDead, Crash, Start, StartFails
  <2>4. CASE UNCHANGED vars
    BY <2>4 DEF vars
  <2>. QED
    BY <2>1, <2>2, <2>3, <2>4 DEF Next
<1>4. UNCHANGED settings \/ Edit
  <2>1. CASE Scheduler
    BY <2>1 DEF Scheduler, DueTasks, Enqueue, TickFails
  <2>2. CASE Worker
    BY <2>2 DEF Worker, Claim, BuildDigest, SendDigest, Sweep, Finish, FinishFails, Fails
  <2>3. CASE World
    BY <2>3 DEF World, Advance, Announce, SaveSettings, Elapse, ReviveDead, Crash, Start, StartFails
  <2>4. CASE UNCHANGED vars
    BY <2>4 DEF vars
  <2>. QED
    BY <2>1, <2>2, <2>3, <2>4 DEF Next
<1>5. up' \in BOOLEAN /\ working' \in BOOLEAN
  BY <1>1 DEF ClockType, Next, Scheduler, Worker, World, Advance, Announce, SaveSettings, DueTasks, Enqueue, TickFails,
         Elapse, Claim, BuildDigest, SendDigest, Sweep, Finish, FinishFails, Fails, ReviveDead, Crash, Start,
         StartFails, vars, process
<1>6. setting' \in Settings /\ hushed' \in BOOLEAN
  BY <1>1, Constants DEF SettingsType, Next, Scheduler, Worker, World, Advance, Announce, SaveSettings, DueTasks, Enqueue,
         TickFails, Elapse, Claim, BuildDigest, SendDigest, Sweep, Finish, FinishFails, Fails, ReviveDead, Crash, Start,
         StartFails, vars, settings
<1>7. clock' \in Time
  BY <1>1, <1>2, Constants DEF ClockType, Time
<1>8. mishaps' \in 0..MaxMishaps
  BY <1>1, <1>3, Constants DEF ClockType, Mishap
<1>9. edits' \in 0..MaxEdits
  BY <1>1, <1>4, Constants DEF SettingsType, Edit, settings
<1>. QED
  BY <1>5, <1>6, <1>7, <1>8, <1>9 DEF ClockType, SettingsType

LEMMA StampStep ==
  ASSUME TypeOK, [Next]_vars
  PROVE  StampType'
<1>1. ClockType /\ SettingsType /\ StampType
  BY TypeParts
<1>2. Idle \in Tick
  BY Constants DEF Tick, Idle
<1>3. CASE DueTasks
  <2>1. Today \in Date
    BY <1>1, Constants DEF ClockType, SettingsType, Today
  <2>2. tick' \in Tick
    BY <1>1, <1>3 DEF DueTasks, Tasks, Tick, ClockType
  <2>. QED
    BY <1>1, <1>3, <2>1, <2>2 DEF DueTasks, StampType
<1>4. CASE Enqueue
  BY <1>1, <1>2, <1>4, Constants DEF Enqueue, StampType, UtcToday, ClockType
<1>5. CASE TickFails \/ Crash
  BY <1>1, <1>2, <1>5 DEF TickFails, Crash, StampType
<1>6. ASSUME NEW k \in Key, Sweep(k) PROVE StampType'
  BY <1>1, <1>6 DEF Sweep, StampType
<1>7. CASE UNCHANGED <<tick, stamps>>
  BY <1>1, <1>7 DEF StampType, stamps
<1>. QED
  BY <1>3, <1>4, <1>5, <1>6, <1>7
     DEF Next, Scheduler, Worker, World, Advance, Announce, SaveSettings, Elapse, Claim, BuildDigest, SendDigest,
         Finish, FinishFails, Fails, ReviveDead, Start, StartFails, vars, Of

LEMMA ChargeStep ==
  ASSUME TypeOK, [Next]_vars
  PROVE  ChargeType'
<1>1. ClockType /\ JobType /\ ChargeType
  BY TypeParts
<1>2. ASSUME NEW t \in Tx, Announce(t) PROVE ChargeType'
  BY <1>1, <1>2 DEF Announce, ClockType, ChargeType
<1>3. ASSUME NEW k \in Key, Sweep(k) PROVE ChargeType'
  BY <1>1, <1>3 DEF Sweep, ChargeType
<1>4. ASSUME NEW n \in 1..Len(queue), Claim(n) PROVE ChargeType'
  BY <1>1, <1>4 DEF Claim, ChargeType
<1>5. ASSUME NEW k \in Key, SendDigest(k) \/ Fails(k) PROVE ChargeType'
  <2>1. job[k].shows \subseteq Tx
    BY <1>1 DEF JobType, Job
  <2>2. warned' \subseteq Tx /\ behind' \subseteq Of("digest") /\ UNCHANGED charge
    BY <1>1, <1>5, <2>1 DEF SendDigest, Fails, ChargeType
  <2>3. lowered' \in BOOLEAN
    <3>1. CASE SendDigest(k)
      BY <3>1 DEF SendDigest
    <3>2. CASE Fails(k)
      BY <1>1, <3>2 DEF Fails, ChargeType
    <3>. QED
      BY <1>5, <3>1, <3>2
  <2>. QED
    BY <1>1, <2>2, <2>3 DEF ChargeType
<1>6. CASE ReviveDead
  BY <1>1, <1>6 DEF ReviveDead, ChargeType
<1>7. CASE UNCHANGED charges
  BY <1>1, <1>7 DEF ChargeType, charges
<1>8. CASE Enqueue \/ Start
  BY <1>1, <1>8 DEF Enqueue, Start, ChargeType
<1>9. ASSUME NEW s \in Settings, SaveSettings(s) PROVE ChargeType'
  <2>1. lowered' \in BOOLEAN
    BY <1>1, <1>9 DEF SaveSettings, ChargeType
  <2>. QED
    BY <1>1, <1>9, <2>1 DEF SaveSettings, ChargeType
<1>. QED
  BY <1>2, <1>3, <1>4, <1>5, <1>6, <1>7, <1>8, <1>9
     DEF Next, Scheduler, Worker, World, Advance, DueTasks, TickFails, Elapse, BuildDigest, Finish, FinishFails,
         Crash, StartFails, vars, Of

-----------------------------------------------------------------------------
(* Steps that change jobs and the queue. *)

LEMMA RowChanges ==
  ASSUME JobType, QueueOK, NEW k \in Key, NEW r \in Job, job' = [job EXCEPT ![k] = r],
         job[k].at # "due", r.at # "due", UNCHANGED queue
  PROVE  JobType' /\ QueueOK'
  BY DEF JobType, QueueOK

LEMMA RowIsDue ==
  ASSUME JobType, QueueOK, NEW k \in Key, NEW f \in [Key -> Job], job' = f,
         job[k].at # "due", f[k].at = "due",
         \A j \in Key \ {k} : f[j].at = "due" <=> job[j].at = "due",
         queue' = Append(queue, k)
  PROVE  JobType' /\ QueueOK'
<1>1. Len(queue) \in Nat /\ \A i \in 1..Len(queue) : queue[i] \in Key /\ queue[i] # k
  BY DEF JobType, QueueOK
<1>2. /\ queue' \in Seq(Key)
      /\ Len(queue') = Len(queue) + 1
      /\ \A i \in 1..Len(queue) : queue'[i] = queue[i]
      /\ queue'[Len(queue')] = k
  BY DEF JobType
<1>3. \A j \in Key : f[j].at = "due" <=> \E i \in 1..Len(queue') : queue'[i] = j
  <2> SUFFICES ASSUME NEW j \in Key PROVE f[j].at = "due" <=> \E i \in 1..Len(queue') : queue'[i] = j
    OBVIOUS
  <2>1. CASE j = k
    BY <1>1, <1>2, <2>1
  <2>2. CASE j # k
    <3>1. (\E i \in 1..Len(queue') : queue'[i] = j) <=> \E i \in 1..Len(queue) : queue[i] = j
      BY <1>1, <1>2, <2>2
    <3>. QED
      BY <2>2, <3>1 DEF QueueOK
  <2>. QED
    BY <2>1, <2>2
<1>4. \A i, j \in 1..Len(queue') : queue'[i] = queue'[j] => i = j
  BY <1>1, <1>2 DEF QueueOK
<1>. QED
  BY <1>2, <1>3, <1>4 DEF JobType, QueueOK

LEMMA JobStep ==
  ASSUME TypeOK, TickSweeps, [Next]_vars
  PROVE  JobType' /\ QueueOK'
<1>1. ClockType /\ StampType /\ JobType /\ QueueOK
  BY TypeParts
<1>2. NoJob \in Job /\ [NoJob EXCEPT !.at = "done"] \in Job
  BY Constants DEF NoJob, Job
<1>3. ASSUME NEW k \in Key, NEW at \in {"over", "stranded", "delayed", "dead"}, job[k].at # "due",
             job' = [job EXCEPT ![k] = At(k, at)], UNCHANGED queue
      PROVE  JobType' /\ QueueOK'
  <2>1. At(k, at) \in Job /\ At(k, at).at = at
    BY <1>1 DEF At, Job, JobType
  <2>. QED
    BY <1>1, <1>3, <2>1, RowChanges
<1>4. CASE Enqueue
  <2>0. \A at \in {"due", "delayed"} : New(at) \in Job /\ New(at).at = at
    <3> SUFFICES ASSUME NEW at \in {"due", "delayed"} PROVE New(at) \in Job /\ New(at).at = at
      OBVIOUS
    <3>1. New(at).at = at
      BY DEF New, NoJob
    <3>2. [NoJob EXCEPT !.at = at] \in Job
      BY <1>2 DEF Job
    <3>3. New(at) \in Job
      BY <1>1, <3>2 DEF New, Job, ClockType
    <3>. QED
      BY <3>1, <3>3
  <2> DEFINE first == <<Head(tick.kinds), UtcToday>>
             new == {k \in Key : IsFree(k) /\ \E i \in DOMAIN tick.kinds : k = <<tick.kinds[i], UtcToday>>}
             f == [k \in Key |-> IF k \notin new THEN job[k]
                                 ELSE New(IF k = first THEN "due" ELSE "delayed")]
  <2>1. /\ tick.at = "stamped"
        /\ job' = f
        /\ queue' = IF first \in new THEN Append(queue, first) ELSE queue
    BY <1>4 DEF Enqueue
  <2>2. f \in [Key -> Job]
    BY <1>1, <2>0 DEF JobType
  <2>3. \A k \in new : job[k].at # "due"
    BY DEF IsFree, Outstanding
  <2>4. new \subseteq Key /\ \A k \in Key : f[k].at = "due" <=> job[k].at = "due" \/ (k = first /\ k \in new)
    BY <2>0, <2>3
  <2> HIDE DEF first, new, f
  <2>5. CASE first \in new
    BY <1>1, <2>1, <2>2, <2>3, <2>4, <2>5, RowIsDue
  <2>6. CASE first \notin new
    BY <1>1, <2>1, <2>2, <2>4, <2>6 DEF JobType, QueueOK
  <2>. QED
    BY <2>5, <2>6
<1>5. ASSUME NEW k \in Key, Elapse(k) PROVE JobType' /\ QueueOK'
  <2>1. [job EXCEPT ![k].at = "due"] \in [Key -> Job]
    BY <1>1 DEF JobType, Job
  <2>2. /\ [job EXCEPT ![k].at = "due"][k].at = "due"
        /\ \A j \in Key \ {k} : [job EXCEPT ![k].at = "due"][j].at = job[j].at
    BY <1>1 DEF JobType, Job
  <2>3. job[k].at # "due" /\ job' = [job EXCEPT ![k].at = "due"] /\ queue' = Append(queue, k)
    BY <1>5 DEF Elapse
  <2>. QED
    BY <1>1, <2>1, <2>2, <2>3, RowIsDue
<1>6. ASSUME NEW n \in 1..Len(queue), Claim(n) PROVE JobType' /\ QueueOK'
  <2> DEFINE batch == {queue[i] : i \in 1..n}
  <2>1. /\ job' = [k \in Key |-> IF k \in batch THEN [job[k] EXCEPT !.at = "running"] ELSE job[k]]
        /\ queue' = SubSeq(queue, n + 1, Len(queue))
    BY <1>6 DEF Claim
  <2>2. Len(queue) \in Nat /\ n \in 1..Len(queue) /\ \A i \in 1..Len(queue) : queue[i] \in Key
    BY <1>1, <1>6 DEF JobType
  <2>3. /\ queue' \in Seq(Key)
        /\ Len(queue') = Len(queue) - n
        /\ \A i \in 1..Len(queue') : queue'[i] = queue[n + i]
    BY <1>1, <2>1, <2>2 DEF JobType
  <2>4. JobType'
    BY <1>1, <2>1, <2>3 DEF JobType, Job
  <2>5. ASSUME NEW k \in Key PROVE job'[k].at = "due" <=> \E i \in 1..Len(queue') : queue'[i] = k
    <3>1. job'[k].at = "due" <=> job[k].at = "due" /\ k \notin batch
      BY <1>1, <2>1 DEF JobType, Job
    <3>2. ASSUME job[k].at = "due", k \notin batch PROVE \E i \in 1..Len(queue') : queue'[i] = k
      <4>1. PICK i \in 1..Len(queue) : queue[i] = k
        BY <1>1, <3>2 DEF QueueOK
      <4>2. i > n
        BY <2>2, <3>2, <4>1
      <4>. QED
        <5>1. i - n \in 1..Len(queue')
          BY <2>2, <2>3, <4>2
        <5>2. queue'[i - n] = queue[n + (i - n)] /\ n + (i - n) = i
          BY <2>2, <2>3, <5>1
        <5>. QED
          BY <4>1, <5>1, <5>2
    <3>3. ASSUME NEW i \in 1..Len(queue'), queue'[i] = k PROVE job[k].at = "due" /\ k \notin batch
      <4>1. n + i \in 1..Len(queue) /\ queue[n + i] = k
        BY <2>2, <2>3, <3>3
      <4>2. \A j \in 1..n : j # n + i /\ j \in 1..Len(queue)
        BY <2>2, <4>1
      <4>. QED
        BY <1>1, <4>1, <4>2 DEF QueueOK
    <3>. QED
      BY <3>1, <3>2, <3>3
  <2>6. ASSUME NEW i \in 1..Len(queue'), NEW j \in 1..Len(queue'), queue'[i] = queue'[j] PROVE i = j
    <3>1. n + i \in 1..Len(queue) /\ n + j \in 1..Len(queue) /\ queue[n + i] = queue[n + j]
      BY <2>2, <2>3, <2>6
    <3>2. n + i = n + j
      BY <1>1, <3>1 DEF QueueOK
    <3>. QED
      BY <2>2, <2>3, <3>2
  <2>. QED
    BY <2>4, <2>5, <2>6 DEF QueueOK
<1>7. ASSUME NEW k \in Key, BuildDigest(k) PROVE JobType' /\ QueueOK'
  <2>1. CASE setting.enabled
    <3>1. [at |-> "built", since |-> job[k].since, shows |-> LapsingSoon, age |-> setting.lapse] \in Job
      <4>1. setting.lapse \in Int
        BY Constants, TypeParts DEF SettingsType
      <4>2. job[k].since \in Time /\ LapsingSoon \subseteq Tx
        BY <1>1 DEF JobType, Job, LapsingSoon
      <4>. QED
        BY <4>1, <4>2 DEF Job
    <3>. QED
      BY <1>1, <1>7, <2>1, <3>1, RowChanges DEF BuildDigest
  <2>2. CASE ~setting.enabled
    BY <1>3, <1>7, <2>2 DEF BuildDigest, Returns
  <2>. QED
    BY <2>1, <2>2
<1>8. ASSUME NEW k \in Key, SendDigest(k) \/ Sweep(k) \/ FinishFails(k) PROVE JobType' /\ QueueOK'
  BY <1>3, <1>8 DEF SendDigest, Sweep, FinishFails, Returns
<1>9. ASSUME NEW k \in Key, Fails(k) PROVE JobType' /\ QueueOK'
  BY <1>3, <1>9 DEF Fails
<1>10. CASE ReviveDead
  <2>1. job' \in [Key -> Job]
    BY <1>1, <1>10 DEF ReviveDead, JobType, Job
  <2>2. \A k \in Key : job'[k].at = "due" <=> job[k].at = "due"
    BY <1>1, <1>10 DEF ReviveDead, JobType, Job
  <2>. QED
    BY <1>1, <1>10, <2>1, <2>2 DEF ReviveDead, JobType, QueueOK
<1>11. CASE Start
  <2>1. job' \in [Key -> Job]
    BY <1>1, <1>11 DEF Start, At, JobType, Job
  <2>2. \A k \in Key : job'[k].at = "due" <=> job[k].at = "due"
    BY <1>11 DEF Start, Started, Orphans, At
  <2>. QED
    BY <1>1, <1>11, <2>1, <2>2 DEF Start, JobType, QueueOK
<1>12. CASE UNCHANGED jobs
  BY <1>1, <1>12 DEF jobs, JobType, QueueOK
<1>13. ASSUME NEW k \in Key, Finish(k) PROVE JobType' /\ QueueOK'
  BY <1>1, <1>2, <1>13, RowChanges DEF Finish, NoJob
<1>. QED
  BY <1>4, <1>5, <1>6, <1>7, <1>8, <1>9, <1>10, <1>11, <1>12, <1>13
     DEF Next, Scheduler, Worker, World, Advance, Announce, SaveSettings, DueTasks, TickFails, Crash, StartFails,
         vars, Of

LEMMA TypeStep ==
  ASSUME TypeOK, TickSweeps, [Next]_vars
  PROVE  TypeOK'
<1>1. /\ ClockType' /\ SettingsType' /\ StampType' /\ JobType' /\ QueueOK' /\ ChargeType'
  BY ClockStep, StampStep, JobStep, ChargeStep
<1>2. queue' \in Seq(Key) => DOMAIN queue' = 1..Len(queue')
  OBVIOUS
<1>. QED
  BY <1>1, <1>2 DEF TypeOK, ClockType, SettingsType, StampType, JobType, QueueOK, ChargeType

-----------------------------------------------------------------------------
(* The property. *)

LEMMA TickStep ==
  ASSUME TickSweeps, [Next]_vars
  PROVE  TickSweeps'
<1>1. CASE DueTasks
  BY <1>1 DEF DueTasks, Tasks, TickSweeps
<1>2. CASE tick' = Idle
  BY <1>2 DEF Idle, TickSweeps
<1>3. CASE UNCHANGED tick
  BY <1>3 DEF TickSweeps
<1>. QED
  BY <1>1, <1>2, <1>3
     DEF Next, Scheduler, Worker, World, Advance, Announce, SaveSettings, Enqueue, TickFails, Elapse, Claim,
         BuildDigest, SendDigest, Sweep, Finish, FinishFails, Fails, ReviveDead, Crash, Start, StartFails, vars

(* Only a digest is built. *)
OnlyDigestsBuilt == \A k \in Of("sweep") : job[k].at # "built"

LEMMA BuiltStep ==
  ASSUME TypeOK, OnlyDigestsBuilt, [Next]_vars
  PROVE  OnlyDigestsBuilt'
<1>1. JobType
  BY TypeParts
<1> SUFFICES ASSUME NEW k \in Of("sweep") PROVE job'[k].at # "built"
  BY DEF OnlyDigestsBuilt
<1>2. k \in Key /\ k \notin Of("digest") /\ job[k].at # "built"
  BY DEF Of, OnlyDigestsBuilt
<1>3. CASE Enqueue \/ Start \/ ReviveDead
  <2>1. CASE Enqueue
    <3>1. job'[k] = job[k] \/ \E at \in {"due", "delayed"} : job'[k] = New(at)
      BY <1>2, <2>1 DEF Enqueue
    <3>. QED
      BY <1>2, <3>1 DEF New, NoJob
  <2>2. CASE Start
    BY <1>2, <2>2 DEF Start, At
  <2>3. CASE ReviveDead
    BY <1>1, <1>2, <2>3 DEF ReviveDead, JobType, Job
  <2>. QED
    BY <1>3, <2>1, <2>2, <2>3
<1>4. ASSUME NEW n \in 1..Len(queue), Claim(n) PROVE job'[k].at # "built"
  BY <1>1, <1>2, <1>4 DEF Claim, JobType, Job
<1>5. ASSUME NEW j \in Key \ {k}, NEW r, job' = [job EXCEPT ![j] = r] PROVE job'[k].at # "built"
  BY <1>1, <1>2, <1>5 DEF JobType
<1>6. ASSUME NEW j \in Of("digest"), BuildDigest(j) \/ SendDigest(j) PROVE job'[k].at # "built"
  BY <1>2, <1>5, <1>6 DEF BuildDigest, SendDigest, Returns, Of
<1>7. ASSUME NEW j \in Key, Elapse(j) \/ Fails(j) \/ Finish(j) \/ FinishFails(j) \/ Sweep(j)
      PROVE  job'[k].at # "built"
  <2>1. CASE j # k
    BY <1>1, <1>2, <1>7, <2>1 DEF Elapse, Fails, Finish, FinishFails, Sweep, Returns, JobType
  <2>2. CASE j = k
    BY <1>1, <1>2, <1>7, <2>2 DEF Elapse, Fails, Finish, FinishFails, Sweep, Returns, At, NoJob, JobType, Job
  <2>. QED
    BY <2>1, <2>2
<1>8. CASE UNCHANGED job
  BY <1>2, <1>8
<1>. QED
  BY <1>3, <1>4, <1>6, <1>7, <1>8
     DEF Next, Scheduler, Worker, World, Advance, Announce, SaveSettings, DueTasks, TickFails, Crash, StartFails,
         vars, jobs, Of

Waits(k) == job[k].at \in {"delayed", "due", "running", "stranded", "dead"}

(* Of the jobs for the sweep, only Sweep itself takes one away. *)
LEMMA SweepWaits ==
  ASSUME TypeOK, TickSweeps, [Next]_vars, NEW k \in Of("sweep"), Waits(k)
  PROVE  Waits(k)' \/ swept'
<1>1. JobType /\ k \in Key /\ k \notin Of("digest")
  BY TypeParts DEF Of
<1> USE DEF Waits, Outstanding
<1>2. CASE Enqueue
  BY <1>1, <1>2 DEF Enqueue, New, NoJob, IsFree, JobType, Job
<1>3. ASSUME NEW j \in Key, Elapse(j) \/ Fails(j) \/ Finish(j) \/ FinishFails(j) PROVE Waits(k)'
  <2>1. CASE k # j
    BY <1>1, <1>3, <2>1 DEF Elapse, Fails, Finish, FinishFails, JobType
  <2>2. CASE k = j
    BY <1>1, <1>3, <2>2 DEF Elapse, Fails, Finish, FinishFails, At, JobType, Job
  <2>. QED
    BY <2>1, <2>2
<1>4. ASSUME NEW n \in 1..Len(queue), Claim(n) PROVE Waits(k)'
  BY <1>1, <1>4 DEF Claim, JobType, Job
<1>5. ASSUME NEW j \in Of("digest"), BuildDigest(j) \/ SendDigest(j) PROVE Waits(k)'
  <2>1. job'[k] = job[k]
    BY <1>1, <1>5 DEF BuildDigest, SendDigest, Returns, JobType
  <2>. QED
    BY <2>1
<1>6. ASSUME NEW j \in Key, Sweep(j) PROVE swept'
  BY <1>6 DEF Sweep
<1>7. CASE ReviveDead
  BY <1>1, <1>7 DEF ReviveDead, JobType, Job
<1>8. CASE Start
  BY <1>1, <1>8 DEF Start, Orphans, At, Started, JobType, Job
<1>9. CASE UNCHANGED job
  BY <1>9
<1>. QED
  BY <1>2, <1>3, <1>4, <1>5, <1>6, <1>7, <1>8, <1>9
     DEF Next, Scheduler, Worker, World, Advance, Announce, SaveSettings, DueTasks, TickFails, Crash, StartFails,
         vars, jobs, Of

LEMMA DayStep ==
  ASSUME TypeOK, TickSweeps, OnlyDigestsBuilt, DayIsSwept, [Next]_vars
  PROVE  DayIsSwept'
<1>1. ClockType /\ JobType
  BY TypeParts
<1>2. CASE DueTasks
  BY <1>2 DEF DueTasks, DayIsSwept
<1>3. CASE Enqueue
  <2>0. <<"sweep", UtcToday>> \in Key
    BY <1>1, Constants DEF Key, Kind, UtcToday, ClockType
  <2>1. PICK k \in Key : k = <<"sweep", UtcToday>>
    BY <2>0
  <2>2. \E i \in DOMAIN tick.kinds : tick.kinds[i] = "sweep"
    <3>1. CASE tick.kinds = <<"sweep">>
      BY <3>1
    <3>2. CASE tick.kinds = <<"digest", "sweep">>
      BY <3>2
    <3>. QED
      BY <1>3, <3>1, <3>2 DEF Enqueue, TickSweeps
  <2>3. Waits(k)' \/ lost'
    <3>1. CASE IsFree(k)
      <4>1. job'[k].at \in {"due", "delayed"}
        BY <1>3, <2>1, <2>2, <3>1 DEF Enqueue, New, NoJob
      <4>. QED
        BY <4>1 DEF Waits
    <3>2. CASE ~IsFree(k)
      <4>1. job'[k] = job[k]
        BY <1>3, <2>1, <3>2 DEF Enqueue
      <4>2. job[k].at \in {"delayed", "due", "running", "stranded", "over"}
        <5>1. job[k].at \in {"delayed", "due", "running", "stranded", "over", "built"}
          BY <1>1, <3>2 DEF IsFree, Outstanding, JobType, Job
        <5>2. job[k].at # "built"
          BY <2>1 DEF OnlyDigestsBuilt, Of
        <5>. QED
          BY <5>1, <5>2
      <4>3. job[k].at = "over" => lost'
        BY <1>3, <2>1 DEF Enqueue
      <4>. QED
        BY <4>1, <4>2, <4>3 DEF Waits
    <3>. QED
      BY <3>1, <3>2
  <2>4. keyed' = k[2]
    BY <1>3, <2>1 DEF Enqueue
  <2>. QED
    BY <2>1, <2>3, <2>4 DEF DayIsSwept, SweepRemains, Waits, Of
<1>4. CASE TickFails \/ Crash
  <2>1. CASE tick.at = "stamped"
    BY <1>4, <2>1 DEF TickFails, Crash, DayIsSwept
  <2>2. CASE tick.at # "stamped"
    BY <1>4, <2>2 DEF TickFails, Crash, DayIsSwept, SweepRemains, jobs
  <2>. QED
    BY <2>1, <2>2
<1>5. ASSUME UNCHANGED <<tick, lost, keyed>>, swept => swept' PROVE DayIsSwept'
  BY <1>5, SweepWaits DEF DayIsSwept, SweepRemains, Waits, Of
<1>. QED
  BY <1>2, <1>3, <1>4, <1>5
     DEF Next, Scheduler, Worker, World, Advance, Announce, SaveSettings, Elapse, Claim,
         BuildDigest, SendDigest, Sweep, Finish, FinishFails, Fails, ReviveDead, Start, StartFails, vars, stamps

-----------------------------------------------------------------------------
(* What LapseIsWarned rests on. *)

(* At most a day, and at most the lapse age. *)
Least(a) == IF a < Day THEN a ELSE Day

(* What a sweep enqueued at c with LAPSE_HOURS of a may lapse before it is    *)
(* too old to count.                                                          *)
LapsableAt(a, c) == {t \in Tx : charge[t].status = "notified" /\ charge[t].at + a + 1 < c + Least(a)}

MayLapse(c) == LapsableAt(setting.lapse, c)

(* A digest is due, and the worker claims it no later than this job. *)
DigestAhead(k) ==
  /\ job[k].at # "running"
  /\ \E i \in 1..Len(queue) : queue[i] \in Of("digest") /\ \A j \in 1..i : queue[j] # k

Covered(k) ==
  hushed \/ lowered \/ behind # {} \/ DigestAhead(k) \/ MayLapse(job[k].since) \subseteq warned

(* A row that runs, ran, or may run again. *)
Lives(k) == Outstanding(k) \/ job[k].at = "dead"

(* A sweep that waits has a digest before it, or all it may lapse is warned. *)
SweepsCovered == \A k \in Of("sweep") : Lives(k) => Covered(k)

(* A digest waits for another attempt, or runs, only after it was begun. *)
DigestsBegun == \A k \in Of("digest") : job[k].at \in {"delayed", "running", "built"} => k \in behind

(* A sweep is enqueued without a digest only when that is switched off. *)
HushedIsKnown ==
  /\ ~setting.enabled => hushed
  /\ tick.at = "stamped" /\ tick.kinds = <<"sweep">> => hushed

SinceOK == \A k \in Key : job[k].since <= clock

(* What was built is not posted so late that it misses what a sweep of that  *)
(* slot may lapse, with the LAPSE_HOURS of the digest: a digest lives into   *)
(* the next slot at most.                                                    *)
ShowsOK(k) ==
  /\ LapsableAt(job[k].age, clock) \subseteq job[k].shows
  /\ job[k].since = clock => LapsableAt(job[k].age, clock + 1) \subseteq job[k].shows

BuiltShows == working => \A k \in Of("digest") : job[k].at = "built" => ShowsOK(k)

WarnInv == SweepsCovered /\ DigestsBegun /\ HushedIsKnown /\ SinceOK /\ BuiltShows

IInv == TypeOK /\ TickSweeps /\ OnlyDigestsBuilt /\ DayIsSwept /\ WarnInv

LEMMA LeastBounds ==
  ASSUME NEW a \in Int
  PROVE  Least(a) \in Int /\ Least(a) <= a
  BY ScheduleAssumption DEF Least

LEMMA LapseBounds ==
  ASSUME SettingsType
  PROVE  /\ setting.lapse \in Int /\ WarnAge \in Int
         /\ WarnAge <= setting.lapse - Least(setting.lapse)
         /\ Shorter = Least(setting.lapse)
  BY ScheduleAssumption DEF SettingsType, Least, Shorter, WarnAge

LEMMA InitWarnInv == Init => WarnInv
<1> SUFFICES ASSUME Init PROVE WarnInv
  OBVIOUS
<1>1. \A k \in Key : job[k].at = "none" /\ job[k].since = 0
  BY DEF Init, NoJob
<1>2. Of("sweep") \subseteq Key /\ Of("digest") \subseteq Key
  BY DEF Of
<1>3. SweepsCovered /\ DigestsBegun /\ BuiltShows
  BY <1>1, <1>2 DEF SweepsCovered, Lives, Outstanding, DigestsBegun, BuiltShows
<1>4. HushedIsKnown
  BY DEF Init, HushedIsKnown, Idle
<1>5. SinceOK
  BY <1>1 DEF Init, SinceOK
<1>. QED
  BY <1>3, <1>4, <1>5 DEF WarnInv

(* An announcement comes too late for a sweep that is enqueued by the next   *)
(* slot, and no other step adds to what may lapse.                           *)
LEMMA LapsableShrinks ==
  ASSUME TypeOK, [Next]_vars, NEW a \in Int, NEW c \in Int, c <= clock + 1
  PROVE  LapsableAt(a, c)' \subseteq LapsableAt(a, c)
<1>1. ClockType /\ ChargeType /\ clock \in Int
  BY TypeParts DEF ClockType, Time
<1>2. ASSUME NEW t \in Tx, Announce(t) PROVE LapsableAt(a, c)' \subseteq LapsableAt(a, c)
  <2>1. ASSUME NEW u \in Tx \ {t} PROVE charge'[u] = charge[u]
    BY <1>1, <1>2, <2>1 DEF Announce, ChargeType
  <2>2. charge'[t].at = clock
    BY <1>1, <1>2 DEF Announce, ChargeType
  <2>3. ~(charge'[t].at + a + 1 < c + Least(a))
    BY <1>1, <2>2, LeastBounds
  <2>. QED
    BY <2>1, <2>3 DEF LapsableAt
<1>3. ASSUME NEW k \in Key, Sweep(k) PROVE LapsableAt(a, c)' \subseteq LapsableAt(a, c)
  BY <1>1, <1>3 DEF Sweep, ChargeType, LapsableAt
<1>4. CASE UNCHANGED charge
  BY <1>4 DEF LapsableAt
<1>. QED
  BY <1>2, <1>3, <1>4
     DEF Next, Scheduler, Worker, World, Advance, SaveSettings, DueTasks, Enqueue, TickFails, Elapse, Claim,
         BuildDigest, SendDigest, Finish, FinishFails, Fails, ReviveDead, Crash, Start, StartFails, vars, charges, Of

(* A later sweep, or one with fewer LAPSE_HOURS, may lapse more. *)
LEMMA LapsableGrows ==
  ASSUME TypeOK, NEW a \in Int, NEW b \in Int, b <= a, NEW c \in Int, NEW d \in Int, c <= d
  PROVE  LapsableAt(a, c) \subseteq LapsableAt(b, d)
<1>1. \A t \in Tx : charge[t].at \in Int
  BY TypeParts DEF ChargeType, Time
<1>2. Least(a) - a <= Least(b) - b
  BY ScheduleAssumption DEF Least
<1>. QED
  BY <1>1, <1>2, LeastBounds DEF LapsableAt

LEMMA MayLapseShrinks ==
  ASSUME TypeOK, [Next]_vars, ~lowered', NEW c \in Int, c <= clock + 1
  PROVE  MayLapse(c)' \subseteq MayLapse(c)
<1>1. setting.lapse \in Int /\ setting'.lapse \in Int
  BY ClockStep, TypeParts, Constants DEF SettingsType
<1>2. setting.lapse <= setting'.lapse
  <2>1. ASSUME NEW s \in Settings, SaveSettings(s) PROVE setting.lapse <= setting'.lapse
    <3>1. setting' = s /\ ~(s.lapse < setting.lapse)
      BY <2>1 DEF SaveSettings
    <3>. QED
      BY <1>1, <3>1
  <2>2. CASE UNCHANGED setting
    BY <1>1, <2>2
  <2>. QED
    BY <2>1, <2>2
       DEF Next, Scheduler, Worker, World, Advance, Announce, DueTasks, Enqueue, TickFails, Elapse, Claim,
           BuildDigest, SendDigest, Sweep, Finish, FinishFails, Fails, ReviveDead, Crash, Start, StartFails, vars, settings
<1>3. PICK a \in Int : a = setting'.lapse
  BY <1>1
<1>4. LapsableAt(a, c)' \subseteq LapsableAt(a, c)
  BY LapsableShrinks
<1>5. LapsableAt(a, c) \subseteq LapsableAt(setting.lapse, c)
  BY <1>1, <1>2, <1>3, LapsableGrows
<1>. QED
  BY <1>3, <1>4, <1>5 DEF MayLapse, LapsableAt

-----------------------------------------------------------------------------
(* The parts of WarnInv, but for the coverage of the sweeps. *)

LEMMA SinceStep ==
  ASSUME TypeOK, SinceOK, [Next]_vars
  PROVE  SinceOK'
<1>1. ClockType /\ JobType /\ clock \in Nat /\ \A k \in Key : job[k].since \in Nat
  BY TypeParts DEF ClockType, JobType, Job, Time
<1>2. clock' \in Nat /\ clock <= clock'
  <2>1. clock' = clock \/ clock' = clock + 1
    BY DEF Next, Scheduler, Worker, World, Advance, Announce, SaveSettings, DueTasks, Enqueue, TickFails, Elapse,
           Claim, BuildDigest, SendDigest, Sweep, Finish, FinishFails, Fails, ReviveDead, Crash, Start, StartFails, vars
  <2>. QED
    BY <1>1, <2>1
<1>3. ASSUME NEW k \in Key PROVE job'[k].since \in {job[k].since, clock, 0}
  <2> USE <1>1 DEF JobType
  <2>1. CASE Scheduler
    <3>1. CASE Enqueue
      <4>1. job'[k] = job[k] \/ \E at \in {"due", "delayed"} : job'[k] = New(at)
        BY <3>1 DEF Enqueue
      <4>. QED
        BY <4>1 DEF New, NoJob
    <3>2. CASE DueTasks \/ TickFails
      BY <3>2 DEF DueTasks, TickFails, jobs
    <3>. QED
      BY <2>1, <3>1, <3>2 DEF Scheduler
  <2>2. CASE Worker
    <3>1. ASSUME NEW n \in 1..Len(queue), Claim(n) PROVE job'[k].since = job[k].since
      BY <3>1 DEF Claim, Job
    <3>2. ASSUME NEW j \in Key, Fails(j) \/ FinishFails(j) PROVE job'[k].since = job[k].since
      <4>1. PICK at : job' = [job EXCEPT ![j] = At(j, at)]
        BY <3>2 DEF Fails, FinishFails
      <4>2. job'[k] = IF k = j THEN At(j, at) ELSE job[k]
        BY <4>1
      <4>. QED
        BY <4>2 DEF At
    <3>3. ASSUME NEW j \in Key, BuildDigest(j) \/ SendDigest(j) \/ Sweep(j) \/ Finish(j)
          PROVE  job'[k].since \in {job[k].since, 0}
      BY <3>3 DEF BuildDigest, SendDigest, Sweep, Finish, Returns, At, NoJob
    <3>. QED
      BY <2>2, <3>1, <3>2, <3>3 DEF Worker, Of
  <2>3. CASE World
    <3>1. ASSUME NEW j \in Key, Elapse(j) PROVE job'[k].since = job[k].since
      BY <3>1 DEF Elapse, Job
    <3>2. CASE Start \/ ReviveDead
      BY <3>2 DEF Start, ReviveDead, At, Job
    <3>. QED
      BY <2>3, <3>1, <3>2 DEF World, Advance, Announce, SaveSettings, Crash, StartFails, jobs
  <2>4. CASE UNCHANGED vars
    BY <2>4 DEF vars, jobs
  <2>. QED
    BY <2>1, <2>2, <2>3, <2>4 DEF Next
<1>. QED
  BY <1>1, <1>2, <1>3 DEF SinceOK

LEMMA HushStep ==
  ASSUME TickSweeps, HushedIsKnown, [Next]_vars
  PROVE  HushedIsKnown'
<1>1. CASE DueTasks
  BY <1>1 DEF DueTasks, Tasks, HushedIsKnown, settings
<1>2. ASSUME NEW s \in Settings, SaveSettings(s) PROVE HushedIsKnown'
  BY <1>2 DEF SaveSettings, HushedIsKnown
<1>3. CASE UNCHANGED <<setting, hushed>> /\ (tick' = Idle \/ UNCHANGED tick)
  BY <1>3 DEF HushedIsKnown, Idle
<1>. QED
  BY <1>1, <1>2, <1>3
     DEF Next, Scheduler, Worker, World, Advance, Announce, Enqueue, TickFails, Elapse, Claim,
         BuildDigest, SendDigest, Sweep, Finish, FinishFails, Fails, ReviveDead, Crash, Start, StartFails, vars, settings

LEMMA BegunStep ==
  ASSUME TypeOK, TickSweeps, DigestsBegun, [Next]_vars
  PROVE  DigestsBegun'
<1>1. JobType /\ ChargeType
  BY TypeParts
<1> SUFFICES ASSUME NEW k \in Of("digest"), job'[k].at \in {"delayed", "running", "built"}
             PROVE  k \in behind'
  BY DEF DigestsBegun
<1>2. k \in Key /\ k[1] = "digest" /\ k \notin Of("sweep")
  BY DEF Of
<1> USE <1>1, <1>2 DEF DigestsBegun, JobType
<1>3. CASE Enqueue
  <2>1. CASE job'[k] = job[k]
    BY <1>3, <2>1 DEF Enqueue
  <2>2. CASE job'[k] # job[k]
    <3>1. PICK i \in DOMAIN tick.kinds : k = <<tick.kinds[i], UtcToday>>
      BY <1>3, <2>2 DEF Enqueue
    <3>2. tick.kinds[i] = "digest"
      BY <1>2, <3>1
    <3>3. tick.kinds = <<"digest", "sweep">>
      BY <1>3, <3>2 DEF Enqueue, TickSweeps
    <3>4. k = <<Head(tick.kinds), UtcToday>>
      BY <3>1, <3>2, <3>3
    <3>. QED
      BY <1>3, <2>2, <3>4 DEF Enqueue, New, NoJob
  <2>. QED
    BY <2>1, <2>2
<1>4. ASSUME NEW n \in 1..Len(queue), Claim(n) PROVE k \in behind'
  BY <1>4 DEF Claim, Job
<1>5. ASSUME NEW j \in Key, Elapse(j) \/ Fails(j) \/ Finish(j) \/ FinishFails(j) PROVE k \in behind'
  <2>1. UNCHANGED behind
    BY <1>5 DEF Elapse, Fails, Finish, FinishFails, charges
  <2>2. CASE k # j
    <3>1. job'[k] = job[k]
      BY <1>5, <2>2 DEF Elapse, Fails, Finish, FinishFails
    <3>. QED
      BY <2>1, <3>1
  <2>3. CASE k = j
    BY <1>5, <2>1, <2>3 DEF Elapse, Fails, Finish, FinishFails, At, NoJob, Job
  <2>. QED
    BY <2>2, <2>3
<1>6. ASSUME NEW j \in Of("digest"), BuildDigest(j) PROVE k \in behind'
  BY <1>6 DEF BuildDigest, Returns, At, charges, Of
<1>7. ASSUME NEW j \in Of("digest"), SendDigest(j) PROVE k \in behind'
  <2>1. k # j /\ job'[k] = job[k]
    BY <1>7 DEF SendDigest, Returns, At, Of
  <2>. QED
    BY <1>7, <2>1 DEF SendDigest, Outstanding, Refused
<1>8. ASSUME NEW j \in Of("sweep"), Sweep(j) PROVE k \in behind'
  <2>1. job'[k] = job[k]
    BY <1>8 DEF Sweep, Returns, Of
  <2>. QED
    BY <1>8, <2>1 DEF Sweep
<1>9. CASE ReviveDead
  BY <1>9 DEF ReviveDead, Job
<1>10. CASE Start
  <2>1. CASE k \in Orphans
    BY <1>10, <2>1 DEF Start
  <2>2. CASE k \notin Orphans
    BY <1>10, <2>2 DEF Start
  <2>. QED
    BY <2>1, <2>2
<1>11. CASE UNCHANGED <<job, behind>>
  BY <1>11
<1>. QED
  BY <1>3, <1>4, <1>5, <1>6, <1>7, <1>8, <1>9, <1>10, <1>11
     DEF Next, Scheduler, Worker, World, Advance, Announce, SaveSettings, DueTasks, TickFails, Crash, StartFails,
         vars, jobs, charges

LEMMA ShowsStep ==
  ASSUME TypeOK, SinceOK, BuiltShows, [Next]_vars
  PROVE  BuiltShows'
<1>1. ClockType /\ JobType /\ ChargeType /\ clock \in Nat
  BY TypeParts DEF ClockType, Time
<1> SUFFICES ASSUME working', NEW k \in Of("digest"), job'[k].at = "built" PROVE ShowsOK(k)'
  BY DEF BuiltShows
<1>2. k \in Key /\ job[k].since \in Nat /\ job[k].since <= clock /\ job[k].age \in Int
  BY <1>1 DEF Of, JobType, Job, Time, SinceOK
<1>3. ASSUME UNCHANGED clock, job'[k] = job[k], working PROVE ShowsOK(k)'
  <2>1. ShowsOK(k)
    BY <1>3 DEF BuiltShows
  <2>2. PICK a \in Int, c \in Int : a = job[k].age /\ c = clock
    BY <1>1, <1>2
  <2>3. LapsableAt(a, c)' \subseteq LapsableAt(a, c) /\ LapsableAt(a, c + 1)' \subseteq LapsableAt(a, c + 1)
    BY <2>2, LapsableShrinks
  <2>4. /\ LapsableAt(a, c) \subseteq job[k].shows
        /\ job[k].since = c => LapsableAt(a, c + 1) \subseteq job[k].shows
    BY <2>1, <2>2 DEF ShowsOK
  <2>. QED
    BY <1>3, <2>2, <2>3, <2>4 DEF ShowsOK, LapsableAt
<1>4. CASE Advance
  <2>1. working /\ job'[k] = job[k] /\ clock' = clock + 1 /\ UNCHANGED charge
    BY <1>4 DEF Advance, jobs, charges, process
  <2>2. job[k].since = clock
    BY <1>2, <1>4, <2>1 DEF Advance, Outstanding
  <2>3. ShowsOK(k)
    BY <2>1 DEF BuiltShows
  <2>4. LapsableAt(job[k].age, clock)' = LapsableAt(job[k].age, clock + 1)
    BY <2>1 DEF LapsableAt
  <2>. QED
    BY <1>1, <2>1, <2>2, <2>3, <2>4 DEF ShowsOK
<1>5. ASSUME NEW j \in Of("digest"), BuildDigest(j) PROVE ShowsOK(k)'
  <2>1. CASE k # j
    <3>1. job'[k] = job[k]
      BY <1>1, <1>2, <1>5, <2>1 DEF BuildDigest, Returns, JobType
    <3>2. UNCHANGED <<clock, working>>
      BY <1>5 DEF BuildDigest, process
    <3>. QED
      BY <1>3, <3>1, <3>2
  <2>2. CASE k = j
    <3>1. job'[k].shows = LapsingSoon /\ job'[k].age = setting.lapse /\ UNCHANGED <<clock, charge>>
      BY <1>1, <1>2, <1>5, <2>2 DEF BuildDigest, Returns, At, JobType, charges
    <3>2. \A t \in Tx : charge[t].at \in Nat
      BY <1>1 DEF ChargeType, Time
    <3>3. LapsableAt(setting.lapse, clock) \subseteq LapsingSoon /\ LapsableAt(setting.lapse, clock + 1) \subseteq LapsingSoon
      <4>1. SettingsType
        BY TypeParts
      <4>. QED
        BY <1>1, <3>2, <4>1, LapseBounds, LeastBounds DEF LapsableAt, LapsingSoon
    <3>. QED
      BY <3>1, <3>3 DEF ShowsOK, LapsableAt
  <2>. QED
    BY <2>1, <2>2
<1>6. ASSUME NEW r \in Job, NEW j \in Key, job' = [job EXCEPT ![j] = r], r.at # "built",
             UNCHANGED <<clock, working>>
      PROVE ShowsOK(k)'
  <2>1. j # k
    BY <1>1, <1>2, <1>6 DEF JobType
  <2>2. job'[k] = job[k]
    BY <1>1, <1>2, <1>6, <2>1 DEF JobType
  <2>. QED
    BY <1>3, <1>6, <2>2
<1>7. ASSUME NEW j \in Key, Elapse(j) \/ SendDigest(j) \/ Sweep(j) \/ Finish(j) \/ FinishFails(j) \/ Fails(j)
      PROVE  ShowsOK(k)'
  <2>1. \E r \in Job : job' = [job EXCEPT ![j] = r] /\ r.at # "built"
    <3>1. CASE Elapse(j)
      <4>1. [job[j] EXCEPT !.at = "due"] \in Job /\ job' = [job EXCEPT ![j] = [job[j] EXCEPT !.at = "due"]]
        BY <1>1, <3>1 DEF Elapse, JobType, Job
      <4>. QED
        BY <4>1 DEF Job
    <3>2. CASE Finish(j)
      <4>1. [NoJob EXCEPT !.at = "done"] \in Job /\ [NoJob EXCEPT !.at = "done"].at = "done"
        BY Constants DEF NoJob, Job
      <4>2. job' = [job EXCEPT ![j] = [NoJob EXCEPT !.at = "done"]]
        BY <3>2 DEF Finish
      <4>. QED
        BY <4>1, <4>2
    <3>3. CASE SendDigest(j) \/ Sweep(j) \/ FinishFails(j) \/ Fails(j)
      <4>1. PICK at \in {"over", "delayed", "dead", "stranded"} : job' = [job EXCEPT ![j] = At(j, at)]
        BY <3>3 DEF SendDigest, Sweep, FinishFails, Fails, Returns
      <4>2. At(j, at) \in Job /\ At(j, at).at # "built"
        BY <1>1 DEF At, JobType, Job
      <4>. QED
        BY <4>1, <4>2
    <3>. QED
      BY <1>7, <3>1, <3>2, <3>3
  <2>2. UNCHANGED <<clock, working>>
    BY <1>7 DEF Elapse, SendDigest, Sweep, Finish, FinishFails, Fails, process
  <2>. QED
    BY <1>6, <2>1, <2>2
<1>8. CASE Enqueue
  <2>1. job'[k] = job[k]
    BY <1>2, <1>8 DEF Enqueue, New, NoJob
  <2>. QED
    BY <1>3, <1>8, <2>1 DEF Enqueue, process
<1>9. ASSUME NEW n \in 1..Len(queue), Claim(n) PROVE ShowsOK(k)'
  <2>1. job'[k] = job[k]
    BY <1>1, <1>2, <1>9 DEF Claim, JobType, Job
  <2>. QED
    BY <1>3, <1>9, <2>1 DEF Claim, process
<1>10. CASE ReviveDead
  <2>1. job'[k] = job[k]
    BY <1>1, <1>2, <1>10 DEF ReviveDead, JobType, Job
  <2>. QED
    BY <1>3, <1>10, <2>1 DEF ReviveDead, process
<1>11. CASE Start
  BY <1>1, <1>2, <1>11 DEF Start, Orphans, Started, At, JobType
<1>12. CASE UNCHANGED <<clock, working, job>>
  BY <1>3, <1>12
<1>13. CASE Crash
  BY <1>13 DEF Crash
<1>. QED
  BY <1>4, <1>5, <1>7, <1>8, <1>9, <1>10, <1>11, <1>12, <1>13
     DEF Next, Scheduler, Worker, World, Announce, SaveSettings, DueTasks, TickFails, StartFails, vars, jobs, process, Of

-----------------------------------------------------------------------------
(* The coverage of the sweeps. *)

LEMMA AheadKept ==
  ASSUME JobType, NEW k \in Key, DigestAhead(k), job'[k].at # "running",
         UNCHANGED queue \/ \E x \in Key : queue' = Append(queue, x)
  PROVE  DigestAhead(k)'
<1>1. PICK i \in 1..Len(queue) : queue[i] \in Of("digest") /\ \A j \in 1..i : queue[j] # k
  BY DEF DigestAhead
<1>2. CASE UNCHANGED queue
  BY <1>1, <1>2 DEF DigestAhead
<1>3. ASSUME NEW x \in Key, queue' = Append(queue, x) PROVE DigestAhead(k)'
  <2>1. i \in 1..Len(queue') /\ \A j \in 1..i : queue'[j] = queue[j]
    BY <1>3 DEF JobType
  <2>. QED
    BY <1>1, <2>1 DEF DigestAhead
<1>. QED
  BY <1>2, <1>3

(* A step that neither posts nor claims, and leaves the sweep as old as it was. *)
LEMMA CoverKept ==
  ASSUME TypeOK, SinceOK, [Next]_vars, NEW k \in Key, Covered(k),
         hushed => hushed', lowered => lowered', behind \subseteq behind', warned \subseteq warned',
         job'[k].since = job[k].since, job'[k].at = "running" => job[k].at = "running",
         UNCHANGED queue \/ \E x \in Key : queue' = Append(queue, x)
  PROVE  Covered(k)'
<1>1. ClockType /\ JobType
  BY TypeParts
<1>2. job[k].since \in Int /\ clock \in Int /\ job[k].since <= clock + 1
  BY <1>1 DEF ClockType, JobType, Job, Time, SinceOK
<1>3. DigestAhead(k) => DigestAhead(k)'
  BY <1>1, AheadKept DEF DigestAhead
<1>4. PICK s \in Int : s = job[k].since
  BY <1>2
<1>5. ~lowered' => MayLapse(s)' \subseteq MayLapse(s)
  BY <1>2, <1>4, MayLapseShrinks
<1>6. ~lowered' /\ MayLapse(job[k].since) \subseteq warned => MayLapse(job[k].since)' \subseteq warned'
  BY <1>4, <1>5 DEF MayLapse, LapsableAt
<1>. QED
  BY <1>3, <1>6 DEF Covered

LEMMA CoverEnqueue ==
  ASSUME TypeOK, TickSweeps, WarnInv, Enqueue, [Next]_vars, NEW k \in Of("sweep"), Lives(k)'
  PROVE  Covered(k)'
<1>1. ClockType /\ StampType /\ JobType /\ QueueOK /\ k \in Key
  BY TypeParts DEF Of
<1>2. PICK first \in Key : first = <<Head(tick.kinds), UtcToday>>
  <2>1. UtcToday \in Date
    BY <1>1, Constants DEF ClockType, UtcToday
  <2>2. Head(tick.kinds) \in Kind
    BY DEF Enqueue, TickSweeps, Kind
  <2>. QED
    BY <2>1, <2>2 DEF Key
<1>3. UNCHANGED <<hushed, warned, lowered>> /\ behind \subseteq behind'
  BY DEF Enqueue, settings
<1>4. UNCHANGED queue \/ \E x \in Key : queue' = Append(queue, x)
  BY <1>2 DEF Enqueue
<1>5. CASE job'[k] = job[k]
  <2>1. Covered(k)
    BY <1>5 DEF WarnInv, SweepsCovered, Lives, Outstanding
  <2>. QED
    BY <1>1, <1>3, <1>4, <1>5, <2>1, CoverKept DEF WarnInv
<1>6. CASE job'[k] # job[k]
  <2>1. CASE tick.kinds = <<"sweep">>
    BY <1>3, <2>1 DEF Enqueue, WarnInv, HushedIsKnown, Covered
  <2>2. CASE tick.kinds = <<"digest", "sweep">>
    <3>1. first \in Of("digest") /\ first # k
      BY <1>2, <2>2 DEF Of
    <3>2. job'[k].at = "delayed"
      BY <1>1, <1>2, <1>6, <3>1 DEF Enqueue, New, NoJob
    <3>3. job[k].at # "due"
      BY <1>1, <1>6 DEF Enqueue, IsFree, Outstanding
    <3>4. \A i \in 1..Len(queue) : queue[i] # k
      BY <1>1, <3>3 DEF QueueOK
    <3>5. CASE job[first].at = "due"
      <4>1. PICK i \in 1..Len(queue) : queue[i] = first
        BY <1>1, <3>5 DEF QueueOK
      <4>2. DigestAhead(k)
        <5>1. \A j \in 1..i : queue[j] # k
          BY <1>1, <3>4 DEF JobType
        <5>2. job[k].at # "running"
          BY <1>1, <1>6 DEF Enqueue, IsFree, Outstanding
        <5>. QED
          BY <3>1, <4>1, <5>1, <5>2 DEF DigestAhead
      <4>. QED
        BY <1>1, <1>4, <3>2, <4>2, AheadKept DEF Covered
    <3>6. CASE job[first].at \in {"delayed", "running", "built"}
      BY <1>3, <3>1, <3>6 DEF WarnInv, DigestsBegun, Covered
    <3>7. CASE IsFree(first)
      <4>1. queue' = Append(queue, first)
        <5>1. 1 \in DOMAIN tick.kinds /\ first = <<tick.kinds[1], UtcToday>>
          BY <1>2, <2>2
        <5>. QED
          BY <1>2, <3>7, <5>1 DEF Enqueue
      <4>2. /\ Len(queue') = Len(queue) + 1
            /\ queue'[Len(queue')] = first
            /\ \A i \in 1..Len(queue) : queue'[i] = queue[i]
        BY <1>1, <4>1 DEF JobType
      <4>3. Len(queue') \in 1..Len(queue') /\ \A j \in 1..Len(queue') : queue'[j] # k
        BY <1>1, <3>1, <3>4, <4>2 DEF JobType
      <4>. QED
        BY <3>1, <3>2, <4>2, <4>3 DEF Covered, DigestAhead
    <3>8. CASE Refused(first)
      <4>1. first \in behind'
        BY <1>2, <3>1, <3>8 DEF Enqueue
      <4>. QED
        BY <4>1 DEF Covered
    <3>. QED
      BY <1>1, <3>5, <3>6, <3>7, <3>8 DEF IsFree, Outstanding, Refused, JobType, Job
  <2>. QED
    BY <2>1, <2>2 DEF Enqueue, TickSweeps
<1>. QED
  BY <1>5, <1>6

LEMMA CoverClaim ==
  ASSUME TypeOK, WarnInv, [Next]_vars, NEW n \in 1..Len(queue), Claim(n), NEW k \in Of("sweep"), Lives(k)'
  PROVE  Covered(k)'
<1>1. ClockType /\ JobType /\ QueueOK /\ k \in Key /\ Len(queue) \in Nat
  BY TypeParts DEF Of, JobType
<1>2. /\ queue' = SubSeq(queue, n + 1, Len(queue))
      /\ behind' = behind \cup ({queue[i] : i \in 1..n} \cap Of("digest"))
      /\ UNCHANGED <<setting, hushed, lowered, warned, charge>>
      /\ job'[k].since = job[k].since
      /\ job'[k].at = "running" => job[k].at = "running" \/ \E i \in 1..n : queue[i] = k
      /\ Lives(k)
  <2>1. CASE k \in {queue[i] : i \in 1..n}
    <3>1. PICK i \in 1..n : queue[i] = k
      BY <2>1
    <3>2. job[k].at = "due"
      BY <1>1, <3>1 DEF QueueOK
    <3>3. job'[k].since = job[k].since
      BY <1>1, <2>1 DEF Claim, JobType, Job
    <3>. QED
      BY <3>1, <3>2, <3>3 DEF Claim, settings, Lives, Outstanding
  <2>2. CASE k \notin {queue[i] : i \in 1..n}
    <3>1. job'[k] = job[k]
      BY <1>1, <2>2 DEF Claim
    <3>. QED
      BY <3>1 DEF Claim, settings, Lives, Outstanding
  <2>. QED
    BY <2>1, <2>2
<1>3. Covered(k)
  BY <1>2 DEF WarnInv, SweepsCovered
<1>4. CASE hushed \/ lowered \/ behind # {}
  BY <1>2, <1>4 DEF Covered
<1>5. CASE MayLapse(job[k].since) \subseteq warned
  BY <1>2, <1>5 DEF Covered, MayLapse, LapsableAt
<1>6. CASE DigestAhead(k)
  <2>1. PICK i \in 1..Len(queue) : queue[i] \in Of("digest") /\ \A j \in 1..i : queue[j] # k
    BY <1>6 DEF DigestAhead
  <2>2. CASE i <= n
    <3>1. i \in 1..n
      BY <1>1, <2>1, <2>2
    <3>. QED
      BY <1>2, <2>1, <3>1 DEF Covered
  <2>3. CASE n < i
    <3>1. /\ Len(queue') = Len(queue) - n
          /\ \A j \in 1..Len(queue') : queue'[j] = queue[n + j]
      BY <1>1, <1>2 DEF JobType
    <3>2. i - n \in 1..Len(queue') /\ n + (i - n) = i
      BY <1>1, <2>1, <2>3, <3>1
    <3>3. queue'[i - n] = queue[i]
      BY <3>1, <3>2
    <3>4. \A j \in 1..(i - n) : queue'[j] # k
      <4> SUFFICES ASSUME NEW j \in 1..(i - n) PROVE queue'[j] # k
        OBVIOUS
      <4>1. j \in 1..Len(queue') /\ n + j \in 1..i
        BY <1>1, <2>1, <2>3, <3>1
      <4>. QED
        BY <2>1, <3>1, <4>1
    <3>5. job'[k].at # "running"
      <4>1. \A j \in 1..n : j \in 1..i
        BY <1>1, <2>1, <2>3
      <4>. QED
        BY <1>2, <1>6, <2>1, <4>1 DEF DigestAhead
    <3>. QED
      BY <2>1, <3>2, <3>3, <3>4, <3>5 DEF Covered, DigestAhead
  <2>. QED
    BY <1>1, <2>1, <2>2, <2>3
<1>. QED
  BY <1>3, <1>4, <1>5, <1>6 DEF Covered

(* What is posted warns of all that any sweep there is may lapse, unless      *)
(* LAPSE_HOURS was lowered since it was built.                                *)
LEMMA CoverSend ==
  ASSUME TypeOK, WarnInv, working, NEW d \in Of("digest"), SendDigest(d), NEW k \in Of("sweep")
  PROVE  Covered(k)'
<1>1. ClockType /\ JobType /\ k \in Key /\ d \in Key /\ k # d
  BY TypeParts DEF Of
<1>2. job[k].since \in Int /\ clock \in Int /\ job[k].since <= clock
  BY <1>1 DEF ClockType, JobType, Job, Time, WarnInv, SinceOK
<1>3. LapsableAt(job[d].age, clock) \subseteq job[d].shows
  BY DEF SendDigest, WarnInv, BuiltShows, ShowsOK
<1>4. CASE lowered'
  BY <1>4 DEF Covered
<1>5. CASE ~lowered'
  <2>1. setting.lapse \in Int /\ job[d].age \in Int
    BY <1>1, TypeParts, Constants DEF SettingsType, JobType, Job
  <2>2. job[d].age <= setting.lapse
    <3>1. ~(setting.lapse < job[d].age)
      BY <1>5 DEF SendDigest
    <3>. QED
      BY <2>1, <3>1
  <2>3. MayLapse(job[k].since) \subseteq LapsableAt(job[d].age, clock)
    BY <1>2, <2>1, <2>2, LapsableGrows DEF MayLapse
  <2>4. job'[k] = job[k] /\ UNCHANGED <<charge, setting>> /\ warned' = warned \cup job[d].shows
    BY <1>1 DEF SendDigest, Returns, JobType, settings
  <2>5. MayLapse(job[k].since)' = MayLapse(job[k].since)
    BY <2>4 DEF MayLapse, LapsableAt
  <2>. QED
    BY <1>3, <2>3, <2>4, <2>5 DEF Covered
<1>. QED
  BY <1>4, <1>5

LEMMA CoverStep ==
  ASSUME TypeOK, TickSweeps, WarnInv, [Next]_vars
  PROVE  SweepsCovered'
<1>1. ClockType /\ JobType
  BY TypeParts
<1> SUFFICES ASSUME NEW k \in Of("sweep"), Lives(k)' PROVE Covered(k)'
  BY DEF SweepsCovered
<1>2. k \in Key /\ k \notin Of("digest")
  BY DEF Of
<1>3. ASSUME hushed => hushed', lowered => lowered', behind \subseteq behind', warned \subseteq warned',
             job'[k].since = job[k].since, job'[k].at = "running" => job[k].at = "running", Lives(k),
             UNCHANGED queue \/ \E x \in Key : queue' = Append(queue, x)
      PROVE  Covered(k)'
  BY <1>2, <1>3, CoverKept DEF WarnInv, SweepsCovered
<1> USE DEF Lives, Outstanding
<1>4. CASE up /\ Enqueue
  BY <1>4, CoverEnqueue
<1>5. ASSUME NEW n \in 1..Len(queue), Claim(n) PROVE Covered(k)'
  BY <1>5, CoverClaim
<1>6. ASSUME working, NEW d \in Of("digest"), SendDigest(d) PROVE Covered(k)'
  BY <1>6, CoverSend
<1>7. ASSUME NEW j \in Key, Elapse(j) PROVE Covered(k)'
  <2>1. job'[k].since = job[k].since /\ (job'[k].at = "running" => job[k].at = "running") /\ Lives(k)
    BY <1>1, <1>2, <1>7 DEF Elapse, JobType, Job
  <2>. QED
    BY <1>3, <1>7, <2>1 DEF Elapse, settings, charges
<1>8. ASSUME NEW j \in Key, Fails(j) \/ FinishFails(j) \/ Finish(j) PROVE Covered(k)'
  <2>1. job'[k].since = job[k].since /\ (job'[k].at = "running" => job[k].at = "running") /\ Lives(k)
    <3>1. CASE j # k
      BY <1>1, <1>2, <1>8, <3>1 DEF Fails, FinishFails, Finish, JobType
    <3>2. CASE j = k
      BY <1>1, <1>2, <1>8, <3>2 DEF Fails, FinishFails, Finish, At, NoJob, JobType, Job
    <3>. QED
      BY <3>1, <3>2
  <2>2. warned \subseteq warned' /\ UNCHANGED <<hushed, lowered, behind, queue>>
    BY <1>8 DEF Fails, FinishFails, Finish, settings, charges
  <2>. QED
    BY <1>3, <2>1, <2>2
<1>9. ASSUME NEW d \in Of("digest"), BuildDigest(d) PROVE Covered(k)'
  <2>1. job'[k] = job[k]
    BY <1>1, <1>2, <1>9 DEF BuildDigest, Returns, JobType
  <2>. QED
    BY <1>3, <1>9, <2>1 DEF BuildDigest, settings, charges
<1>10. ASSUME NEW j \in Of("sweep"), Sweep(j) PROVE Covered(k)'
  <2>1. job'[k].since = job[k].since /\ (job'[k].at = "running" => job[k].at = "running") /\ Lives(k)
    BY <1>1, <1>2, <1>10 DEF Sweep, Returns, At, JobType
  <2>. QED
    BY <1>3, <1>10, <2>1 DEF Sweep, settings
<1>11. CASE ReviveDead
  <2>1. job'[k].since = job[k].since /\ (job'[k].at = "running" => job[k].at = "running") /\ Lives(k)
    BY <1>1, <1>2, <1>11 DEF ReviveDead, JobType, Job
  <2>. QED
    BY <1>3, <1>11, <2>1 DEF ReviveDead
<1>12. CASE Start
  <2>1. job'[k].since = job[k].since /\ (job'[k].at = "running" => job[k].at = "running") /\ Lives(k)
    BY <1>1, <1>2, <1>12 DEF Start, Orphans, Started, At, JobType, Job
  <2>. QED
    BY <1>3, <1>12, <2>1 DEF Start, settings
<1>13. ASSUME NEW s \in Settings, SaveSettings(s) PROVE Covered(k)'
  BY <1>3, <1>13 DEF SaveSettings, jobs
<1>14. CASE UNCHANGED <<hushed, lowered, behind, warned, jobs>>
  BY <1>3, <1>14 DEF jobs
<1>. QED
  BY <1>4, <1>5, <1>6, <1>7, <1>8, <1>9, <1>10, <1>11, <1>12, <1>13, <1>14
     DEF Next, Scheduler, Worker, World, Advance, Announce, DueTasks, TickFails, Crash, StartFails, vars, charges,
         settings

-----------------------------------------------------------------------------
LEMMA Inductive == Spec => []IInv
<1>1. IInv /\ [Next]_vars => IInv'
  <2>1. IInv /\ [Next]_vars => WarnInv'
    BY CoverStep, BegunStep, HushStep, SinceStep, ShowsStep DEF IInv, WarnInv
  <2>. QED
    BY <2>1, TypeStep, TickStep, BuiltStep, DayStep DEF IInv
<1>2. Init => IInv
  <2>1. Init => OnlyDigestsBuilt
    BY DEF Init, OnlyDigestsBuilt, Of, NoJob
  <2>. QED
    BY <2>1, InitTyped, InitWarnInv DEF IInv
<1>. QED
  BY <1>1, <1>2, PTL DEF Spec

(* Every variable of the scheduler keeps its type, and the queue holds each  *)
(* due job of the day's tasks once.                                          *)
THEOREM TypeCorrect == Spec => []TypeOK
  BY Inductive, PTL DEF IInv

(* A day that _due_tasks has stamped gets a lapse sweep: one ran since, or     *)
(* the one under that day's key will run or is dead and shown, unless the tick *)
(* ended between the stamp and _enqueue, or the key was still held by a sweep  *)
(* that was over before its _finish.                                           *)
THEOREM DaySwept == Spec => []DayIsSwept
  BY Inductive, PTL DEF IInv

(* What LapseIsWarned says of one step. *)
LEMMA LapseStep ==
  ASSUME IInv, [Next]_vars, NEW t \in Tx, charge'[t].status = "lapsed", charge[t].status # "lapsed"
  PROVE  \/ t \in warned
         \/ behind # {}
         \/ hushed
         \/ lowered
         \/ \E k \in Of("sweep") : job[k].at = "running" /\ clock - job[k].since >= Shorter
<1>1. ClockType /\ JobType /\ ChargeType /\ WarnInv /\ SettingsType
  BY TypeParts DEF IInv
<1>2. PICK k \in Of("sweep") : Sweep(k)
  <2>1. ASSUME NEW u \in Tx, Announce(u) PROVE FALSE
    BY <1>1, <2>1 DEF Announce, ChargeType
  <2>2. CASE UNCHANGED charge
    BY <2>2
  <2>. QED
    BY <2>1, <2>2
       DEF Next, Scheduler, Worker, World, Advance, SaveSettings, DueTasks, Enqueue, TickFails, Elapse, Claim,
           BuildDigest, SendDigest, Finish, FinishFails, Fails, ReviveDead, Crash, Start, StartFails, vars, charges
<1>3. /\ job[k].at = "running"
      /\ charge[t].status = "notified"
      /\ charge[t].at < clock - setting.lapse
  BY <1>2 DEF Sweep
<1>4. Covered(k) /\ ~DigestAhead(k)
  BY <1>1, <1>3 DEF WarnInv, SweepsCovered, Lives, Outstanding, DigestAhead
<1>5. CASE clock - job[k].since < Shorter
  <2>1. job[k].since \in Int /\ clock \in Int /\ charge[t].at \in Int
    BY <1>1 DEF ClockType, JobType, Job, ChargeType, Time, Of
  <2>2. charge[t].at + setting.lapse + 1 < job[k].since + Least(setting.lapse)
    BY <1>1, <1>3, <1>5, <2>1, LapseBounds, LeastBounds
  <2>3. t \in MayLapse(job[k].since)
    BY <1>3, <2>2 DEF MayLapse, LapsableAt
  <2>. QED
    BY <1>4, <2>3 DEF Covered
<1>6. CASE clock - job[k].since >= Shorter
  BY <1>3, <1>6
<1>7. clock \in Int /\ job[k].since \in Int
  BY <1>1 DEF ClockType, JobType, Job, Time, Of
<1>. QED
  BY <1>1, <1>5, <1>6, <1>7, LapseBounds, LeastBounds

(* sweep_lapsed takes no charge that a posted digest has not shown, while the *)
(* digest is on, gets through, and was built with no more LAPSE_HOURS than    *)
(* the sweep reads, and the sweep is of the last day: the order of _enqueue   *)
(* is enough, whatever the crashes, retries, revivals and key clashes.        *)
THEOREM LapsesAreWarned == Spec => LapseIsWarned
<1>1. IInv /\ [Next]_vars =>
        [\A t \in Tx :
           charge'[t].status = "lapsed" /\ charge[t].status # "lapsed" =>
             \/ t \in warned
             \/ behind # {}
             \/ hushed
             \/ lowered
             \/ \E k \in Of("sweep") : job[k].at = "running" /\ clock - job[k].since >= Shorter]_vars
  BY LapseStep
<1>. QED
  BY <1>1, Inductive, PTL DEF Spec, LapseIsWarned
=============================================================================
