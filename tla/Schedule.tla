------------------------------ MODULE Schedule ------------------------------
(***************************************************************************)
(* The scheduler (services/scheduler.py): one tick reads and stamps the    *)
(* local day in one session and enqueues the day's jobs in another, under  *)
(* keys that hold the UTC day. The worker runs digest and lapse sweep      *)
(* (discordbot/tasks.py, services/ingest.py), and the process may end at   *)
(* any moment. Time passes in slots, a few a day.                          *)
(***************************************************************************)
EXTENDS Integers, Sequences

CONSTANTS Tx,             \* charges
          Date,           \* calendar days
          NoDate,         \* nothing stamped yet
          Zone,           \* time zones
          DateOf,         \* the local day of a slot, by zone
          UtcDateOf,      \* the UTC day of a slot
          Hours,          \* values of DIGEST_HOUR
          Open,           \* the slots at or after the hour, by zone and hour
          Day,            \* slots of 24 hours
          Settings,       \* what the settings form may say
          MaxTime,        \* bound: the last slot
          MaxMishaps,     \* bound: failed jobs and sessions, restarts
          MaxEdits        \* bound: changes of the settings, revivals

Time == 0..MaxTime

ASSUME ScheduleAssumption ==
  /\ NoDate \notin Date
  /\ DateOf \in [Zone -> [Time -> Date]]
  /\ UtcDateOf \in [Time -> Date]
  /\ Open \in [Zone -> [Hours -> SUBSET Time]]
  /\ Day \in Nat
  /\ Settings \subseteq [zone : Zone, enabled : BOOLEAN, hour : Hours, lapse : Int]
  /\ MaxTime \in Nat
  /\ MaxMishaps \in Nat
  /\ MaxEdits \in Nat

VARIABLES
  clock,      \* the current slot
  up,         \* the process runs
  working,    \* and so does its worker
  setting,    \* the business time zone, DIGEST_ENABLED, DIGEST_HOUR, and
              \* LAPSE_HOURS in slots
  edits,      \* how many changes so far
  stamp,      \* runtime.last_digest_date: a local day
  tick,       \* the tick under way
  job,        \* the jobs of the day's tasks, by key
  queue,      \* those that are due, by next_run_at
  charge,     \* transactions: status and notified_at
  mishaps,    \* how many failures so far
  hushed,     \* history: the digest was switched off
  lowered,    \* history: LAPSE_HOURS was lowered since the last posted digest was built
  warned,     \* history: charges that a posted digest showed as lapsing soon
  behind,     \* history: digests begun, or refused for a row that is over, and yet
              \* to be posted; a post makes up for those that were given up
  swept,      \* history: a sweep ran since the last stamp
  lost,       \* history: the last stamp was of a tick that got no sweep
  keyed       \* history: the UTC day that the last _enqueue put in its keys

process == <<up, working>>

settings == <<setting, edits, hushed>>

stamps == <<stamp, swept, lost, keyed>>

jobs == <<job, queue>>

charges == <<charge, warned, behind, lowered>>

vars == <<clock, process, settings, tick, stamps, jobs, charges, mishaps>>

Kind == {"digest", "sweep"}

Key == Kind \X Date

(* A job is over when its handler has returned and _finish is yet to say so;  *)
(* it is stranded when _finish failed: its row is running until a restart.    *)
Job ==
  [at : {"none", "delayed", "due", "running", "built", "over", "stranded", "done", "dead"},
   since : Time,       \* created_at
   shows : SUBSET Tx,  \* what the digest that was built shows as lapsing soon
   age : Int]          \* and LAPSE_HOURS as it was read for that

NoJob == [at |-> "none", since |-> 0, shows |-> {}, age |-> 0]

At(k, at) == [at |-> at, since |-> job[k].since, shows |-> {}, age |-> 0]

Outstanding(k) == job[k].at \notin {"none", "done", "dead"}

Started == {k \in Key : job[k].at \in {"running", "built", "over"}}

Of(kind) == {k \in Key : k[1] = kind}

Today == DateOf[setting.zone][clock]

UtcToday == UtcDateOf[clock]

Tick ==
  [at : {"idle", "stamped"},
   kinds : {<<>>, <<"sweep">>, <<"digest", "sweep">>},
   since : Time]

Idle == [at |-> "idle", kinds |-> <<>>, since |-> 0]

Mishap ==
  /\ mishaps < MaxMishaps
  /\ mishaps' = mishaps + 1

Edit ==
  /\ edits < MaxEdits
  /\ edits' = edits + 1

Init ==
  /\ clock = 0
  /\ up = TRUE
  /\ working = TRUE
  /\ setting \in {s \in Settings : s.enabled}
  /\ edits = 0
  /\ stamp = NoDate
  /\ tick = Idle
  /\ job = [k \in Key |-> NoJob]
  /\ queue = <<>>
  /\ charge = [t \in Tx |-> [status |-> "new", at |-> 0]]
  /\ mishaps = 0
  /\ hushed = FALSE
  /\ lowered = FALSE
  /\ warned = {}
  /\ behind = {}
  /\ swept = TRUE
  /\ lost = FALSE
  /\ keyed = NoDate

-----------------------------------------------------------------------------
(* The world. *)

(* While the worker runs, what was begun in a slot may see the next one,     *)
(* and no later one: eight attempts take minutes.                           *)
Advance ==
  /\ clock < MaxTime
  /\ up => tick.at = "idle" \/ tick.since = clock
  /\ working => \A k \in Key : Outstanding(k) /\ job[k].at # "stranded" => job[k].since = clock
  /\ clock' = clock + 1
  /\ UNCHANGED <<process, settings, tick, stamps, jobs, charges, mishaps>>

(* _record_notification *)
Announce(t) ==
  /\ charge[t].status = "new"
  /\ charge' = [charge EXCEPT ![t] = [status |-> "notified", at |-> clock]]
  /\ UNCHANGED <<clock, process, settings, tick, stamps, jobs, warned, behind, lowered, mishaps>>

(* settings_save: one form writes them all. *)
SaveSettings(s) ==
  /\ s # setting
  /\ Edit
  /\ setting' = s
  /\ hushed' = (hushed \/ ~s.enabled)
  /\ lowered' = (lowered \/ s.lapse < setting.lapse)
  /\ UNCHANGED <<clock, process, tick, stamps, jobs, charge, warned, behind, mishaps>>

-----------------------------------------------------------------------------
(* run_forever *)

(* Mutant: the sweep first. *)
TasksSwapped == IF setting.enabled THEN <<"sweep", "digest">> ELSE <<"sweep">>

(* Digest first, sweep second. (The sync of the accounts, when QuickBooks   *)
(* is connected, comes third and meets neither.)                            *)
Tasks == IF setting.enabled THEN <<"digest", "sweep">> ELSE <<"sweep">>

(* _due_tasks; otherwise nothing is due and _enqueue is not called. *)
DueTasks ==
  /\ tick.at = "idle"
  /\ clock \in Open[setting.zone][setting.hour]
  /\ stamp # Today
  /\ tick' = [at |-> "stamped", kinds |-> Tasks, since |-> clock]
  /\ stamp' = Today
  /\ swept' = FALSE
  /\ lost' = FALSE
  /\ UNCHANGED <<clock, process, settings, keyed, jobs, charges, mishaps>>

(* Mutant: the key is not looked up. *)
IsFreeAlways(k) == TRUE

(* Mutant: a key is good for one job. *)
IsFreeOnce(k) == job[k].at = "none"

(* enqueue: a finished row gives its key away. *)
IsFree(k) == ~Outstanding(k)

New(at) == [NoJob EXCEPT !.at = at, !.since = clock]

(* The key is refused to the day's job, and the one that has it is over.     *)
Refused(k) == job[k].at \in {"over", "stranded"}

(* _enqueue: the first task now, each other 20 seconds after the one before. *)
Enqueue ==
  LET first == <<Head(tick.kinds), UtcToday>>
      new == {k \in Key : IsFree(k) /\ \E i \in DOMAIN tick.kinds : k = <<tick.kinds[i], UtcToday>>}
  IN  /\ tick.at = "stamped"
      /\ tick' = Idle
      /\ job' = [k \in Key |-> IF k \notin new THEN job[k]
                               ELSE New(IF k = first THEN "due" ELSE "delayed")]
      /\ queue' = IF first \in new THEN Append(queue, first) ELSE queue
      /\ keyed' = UtcToday
      /\ lost' = (job[<<"sweep", UtcToday>>].at = "over")
      /\ behind' = behind \cup {k \in Of("digest") : k = first /\ Refused(k)}
      /\ UNCHANGED <<clock, process, settings, stamp, swept, charge, warned, lowered, mishaps>>

(* A session of the tick raises: the exception is logged, the next tick     *)
(* starts anew.                                                            *)
TickFails ==
  /\ tick.at # "idle"
  /\ Mishap
  /\ tick' = Idle
  /\ lost' = (lost \/ tick.at = "stamped")
  /\ UNCHANGED <<clock, process, settings, stamp, swept, keyed, jobs, charges>>

-----------------------------------------------------------------------------
(* The worker, as far as JobQueue has it: due rows in the order of           *)
(* next_run_at, a batch at a time; other kinds take the rest of the batch.   *)

(* next_run_at has come. *)
Elapse(k) ==
  /\ job[k].at = "delayed"
  /\ job' = [job EXCEPT ![k].at = "due"]
  /\ queue' = Append(queue, k)
  /\ UNCHANGED <<clock, process, settings, tick, stamps, charges, mishaps>>

Claim(n) ==
  LET batch == {queue[i] : i \in 1..n}
  IN  /\ Started = {}
      /\ job' = [k \in Key |-> IF k \in batch THEN [job[k] EXCEPT !.at = "running"] ELSE job[k]]
      /\ queue' = SubSeq(queue, n + 1, Len(queue))
      /\ behind' = behind \cup (batch \cap Of("digest"))
      /\ UNCHANGED <<clock, process, settings, tick, stamps, charge, warned, lowered, mishaps>>

(* lapse_hours less a day, and not less than nothing. *)
WarnAge == IF setting.lapse > Day THEN setting.lapse - Day ELSE 0

LapsingSoon == {t \in Tx : charge[t].status = "notified" /\ charge[t].at <= clock - WarnAge}

(* The handler returns; its row is still running. *)
Returns(k) == job' = [job EXCEPT ![k] = At(k, "over")]

(* _build_digest, which reads the settings again; switched off meanwhile:    *)
(* nothing is sent.                                                          *)
BuildDigest(k) ==
  /\ job[k].at = "running"
  /\ IF setting.enabled
     THEN job' = [job EXCEPT ![k] = [at |-> "built", since |-> job[k].since,
                                     shows |-> LapsingSoon, age |-> setting.lapse]]
     ELSE Returns(k)
  /\ UNCHANGED <<clock, process, settings, tick, stamps, queue, charges, mishaps>>

(* digest: every chunk is posted. *)
SendDigest(k) ==
  /\ job[k].at = "built"
  /\ Returns(k)
  /\ warned' = warned \cup job[k].shows
  /\ behind' = {j \in behind \ {k} : Outstanding(j) /\ ~Refused(j)}
  /\ lowered' = (setting.lapse < job[k].age)
  /\ UNCHANGED <<clock, process, settings, tick, stamps, queue, charge, mishaps>>

(* The session of sweep_lapsed, which reads LAPSE_HOURS again. *)
Sweep(k) ==
  /\ job[k].at = "running"
  /\ charge' = [t \in Tx |->
                  IF charge[t].status = "notified" /\ charge[t].at < clock - setting.lapse
                  THEN [status |-> "lapsed", at |-> charge[t].at]
                  ELSE charge[t]]
  /\ Returns(k)
  /\ swept' = TRUE
  /\ UNCHANGED <<clock, process, settings, tick, stamp, lost, keyed, queue, warned,
                 behind, lowered, mishaps>>

(* _finish, in a session of its own: only now is the key free. *)
Finish(k) ==
  /\ job[k].at = "over"
  /\ job' = [job EXCEPT ![k] = [NoJob EXCEPT !.at = "done"]]
  /\ UNCHANGED <<clock, process, settings, tick, stamps, queue, charges, mishaps>>

(* _finish fails; gather drops the exception. *)
FinishFails(k) ==
  /\ job[k].at = "over"
  /\ Mishap
  /\ job' = [job EXCEPT ![k] = At(k, "stranded")]
  /\ UNCHANGED <<clock, process, settings, tick, stamps, queue, charges>>

(* An exception: the digest may have posted some of its chunks. The row     *)
(* waits for its next attempt, or this was the last, or _finish fails too.  *)
Fails(k) ==
  /\ job[k].at \in {"running", "built"}
  /\ Mishap
  /\ \E at \in {"delayed", "dead", "stranded"} : job' = [job EXCEPT ![k] = At(k, at)]
  /\ \E S \in SUBSET job[k].shows : warned' = warned \cup S
  /\ UNCHANGED <<clock, process, settings, tick, stamps, queue, charge, behind, lowered>>

(* revive_dead: every dead row is pending again. *)
ReviveDead ==
  /\ \E k \in Key : job[k].at = "dead"
  /\ Edit
  /\ job' = [k \in Key |-> IF job[k].at = "dead" THEN [job[k] EXCEPT !.at = "delayed"] ELSE job[k]]
  /\ behind' = behind \cup {k \in Of("digest") : job[k].at = "dead"}
  /\ UNCHANGED <<clock, process, setting, hushed, tick, stamps, queue, charge,
                 warned, lowered, mishaps>>

(* The process ends. (Without a worker it is restarted as often as need be.) *)
Crash ==
  /\ up
  /\ IF working THEN Mishap ELSE UNCHANGED mishaps
  /\ up' = FALSE
  /\ working' = FALSE
  /\ tick' = Idle
  /\ lost' = (lost \/ tick.at = "stamped")
  /\ UNCHANGED <<clock, settings, stamp, swept, keyed, jobs, charges>>

(* reset_orphaned_jobs: what ran, and what is stranded. *)
Orphans == Started \cup {k \in Key : job[k].at = "stranded"}

(* It is started again: what ran is due again. *)
Start ==
  /\ ~up
  /\ up' = TRUE
  /\ working' = TRUE
  /\ job' = [k \in Key |-> IF k \in Orphans THEN At(k, "delayed") ELSE job[k]]
  /\ behind' = behind \cup (Orphans \cap Of("digest"))
  /\ UNCHANGED <<clock, settings, tick, stamps, queue, charge, warned, lowered, mishaps>>

(* It is started again, and reset_orphaned_jobs fails: the worker is over,   *)
(* the scheduler and the web UI go on.                                       *)
StartFails ==
  /\ ~up
  /\ up' = TRUE
  /\ UNCHANGED <<clock, working, settings, tick, stamps, jobs, charges, mishaps>>

-----------------------------------------------------------------------------
Scheduler == up /\ (DueTasks \/ Enqueue \/ TickFails)

Worker ==
  /\ working
  /\ \/ \E n \in 1..Len(queue) : Claim(n)
     \/ \E k \in Key : Fails(k) \/ Finish(k) \/ FinishFails(k)
     \/ \E k \in Of("digest") : BuildDigest(k) \/ SendDigest(k)
     \/ \E k \in Of("sweep") : Sweep(k)

(* The bot and the web UI are of the same process. *)
World ==
  \/ Advance \/ Crash \/ Start \/ StartFails
  \/ /\ up
     /\ \/ ReviveDead
        \/ \E k \in Key : Elapse(k)
        \/ \E t \in Tx : Announce(t)
        \/ \E s \in Settings : SaveSettings(s)

Next == Scheduler \/ Worker \/ World

Spec == Init /\ [][Next]_vars

-----------------------------------------------------------------------------
(* Every variable has its type, and the queue holds each due row once: a     *)
(* second enqueue of an outstanding key adds nothing.                       *)
TypeOK ==
  /\ clock \in Time
  /\ setting \in Settings
  /\ {up, working, hushed, lowered, swept, lost} \subseteq BOOLEAN
  /\ edits \in 0..MaxEdits
  /\ mishaps \in 0..MaxMishaps
  /\ {stamp, keyed} \subseteq Date \cup {NoDate}
  /\ tick \in Tick
  /\ job \in [Key -> Job]
  /\ queue \in Seq(Key)
  /\ \A k \in Key : (job[k].at = "due") <=> \E i \in DOMAIN queue : queue[i] = k
  /\ \A i, j \in DOMAIN queue : queue[i] = queue[j] => i = j
  /\ charge \in [Tx -> [status : {"new", "notified", "lapsed"}, at : Time]]
  /\ warned \subseteq Tx
  /\ behind \subseteq Of("digest")

(* The sweep under the key of the last stamp is yet to run, or dead. *)
SweepRemains ==
  \E k \in Of("sweep") :
    /\ k[2] = keyed
    /\ job[k].at \in {"delayed", "due", "running", "stranded", "dead"}

(* Once a day is stamped a sweep runs, or the sweep under that day's key will *)
(* run (a stranded one after the next restart) or is dead and shown: no       *)
(* restart, change of settings or key of another day makes a day go without.  *)
(* The exceptions: the tick ended between its stamp and its jobs, or the key  *)
(* was held by the row of a sweep that was over before its _finish.           *)
DayIsSwept == swept \/ lost \/ tick.at = "stamped" \/ SweepRemains

Shorter == IF setting.lapse < Day THEN setting.lapse ELSE Day

(* A sweep lapses no charge that the digest did not warn of, unless the      *)
(* sweep is left over from too long ago, a digest was begun or refused and   *)
(* did not get through, the digest was switched off, or LAPSE_HOURS was      *)
(* lowered since the last digest was built.                                  *)
LapseIsWarned ==
  [][\A t \in Tx :
       charge'[t].status = "lapsed" /\ charge[t].status # "lapsed" =>
         \/ t \in warned
         \/ behind # {}
         \/ hushed
         \/ lowered
         \/ \E k \in Of("sweep") : job[k].at = "running" /\ clock - job[k].since >= Shorter]_vars
=============================================================================
