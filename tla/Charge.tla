------------------------------- MODULE Charge -------------------------------
(***************************************************************************)
(* The announcement of charges: the notify handler and its three sessions  *)
(* and finalize, which takes the announcement down (discordbot/tasks.py),  *)
(* against receipts that come and go, silencing, resending and deleting    *)
(* charges (services/ingest.py, web/routes_ui.py), whose rowids are reused. *)
(* Jobs are kept by key: JobQueue shows that a key has one row and one     *)
(* coroutine, and which rows may be lost.                                  *)
(***************************************************************************)
EXTENDS Integers, FiniteSets

CONSTANTS MaxTx,       \* bound: largest rowid of the transactions table
          MaxBirths,   \* bound: charges ever made
          MaxMsg,      \* bound: messages ever posted
          MaxResends,  \* bound: resends of one charge
          MaxLinks,    \* bound: finalize jobs of one charge at a time
          MaxMishaps   \* bound: failures, restarts, changes of mind

ASSUME ChargeAssumption ==
  /\ MaxTx \in Nat
  /\ MaxBirths \in Nat
  /\ MaxMsg \in Nat
  /\ MaxResends \in Nat
  /\ MaxLinks \in Nat
  /\ MaxMishaps \in Nat

VARIABLES
  charge,     \* transactions, by rowid
  message,    \* the announcements in the channel, and their discord_messages
  ask,        \* jobs of kind discord.notify
  sending,    \* the coroutines of notify
  takedown,   \* jobs of kind discord.delete_message
  final,      \* jobs of kind discord.finalize
  finalizing, \* the coroutines of finalize
  births,     \* how many charges were made so far
  mishaps,    \* how many of those so far
  resent,     \* history: charges announced again by hand
  stray,      \* history: messages posted by a run that did not record them
  late,       \* history: messages posted or recorded by a run without a row
  refused,    \* history: messages whose delete job was given up
  robbed,     \* history: charges whose job another run's _finish closed
  reopened    \* history: settled charges that were set to ask again

vars == <<charge, message, ask, sending, takedown, final, finalizing, births, mishaps,
          resent, stray, late, refused, robbed, reopened>>

finals == <<final, finalizing, reopened>>

Tx == 1..MaxTx

Id == 1..MaxBirths

Msg == 1..MaxMsg

(* notify:{tx.id} is <<tx, 0>>; notify:{tx.id}:{time} is one of the others.  *)
Ask == Tx \X (0..MaxResends)

(* finalize:{tx.id}:{min(attachment_ids)} *)
Final == Tx \X (1..MaxLinks)

(* attached is receipt_attached; closed is verified, ignored or              *)
(* no_receipt_required; silenced ones are no_receipt_required too.           *)
Status == {"absent", "new", "notified", "needs_attention", "lapsed", "attached", "closed", "silenced"}

Asking == {"new", "notified", "needs_attention", "lapsed"}

Charge ==
  [id : 0..MaxBirths,     \* history: which charge this is, 0 for none
   status : Status,
   msg : 0..MaxMsg,       \* notify_message_id, 0 for none
   told : BOOLEAN,        \* notified_at is set
   resends : 0..MaxResends]

NoCharge == [id |-> 0, status |-> "absent", msg |-> 0, told |-> FALSE, resends |-> 0]

Message ==
  [about : 0..MaxBirths,  \* the charge its text shows, 0 when not posted
   up : BOOLEAN,          \* in the channel
   tx : 0..MaxTx]         \* transaction_id of its discord_messages row, 0 for none

NoMessage == [about |-> 0, up |-> FALSE, tx |-> 0]

JobState == {"none", "pending", "running", "dead"}

Run ==
  [at : {"idle", "started", "loaded", "sent", "ok", "failed"},
   about : 0..MaxBirths,
   msg : 0..MaxMsg]

NoRun == [at |-> "idle", about |-> 0, msg |-> 0]

FinalRun ==
  [at : {"idle", "started", "loaded", "ok", "failed"},
   msg : 0..MaxMsg]       \* the announcement it is to delete

NoFinalRun == [at |-> "idle", msg |-> 0]

Present == {t \in Tx : charge[t].status # "absent"}

AsksOf(t) == {k \in Ask : k[1] = t}

Outstanding(k) == ask[k] \in {"pending", "running"}

(* discard_for_transaction: a coroutine of a discarded row runs on.          *)
AskWithout(S) == [k \in Ask |-> IF k[1] \in S THEN "none" ELSE ask[k]]

FinalWithout(S) == [k \in Final |-> IF k[1] \in S THEN "none" ELSE final[k]]

(* enqueue of discord.delete_message for the messages M. *)
TakedownWith(M) ==
  [m \in Msg |-> IF m \in M THEN "pending" ELSE takedown[m]]

Mishap ==
  /\ mishaps < MaxMishaps
  /\ mishaps' = mishaps + 1

Init ==
  /\ charge = [t \in Tx |-> NoCharge]
  /\ message = [m \in Msg |-> NoMessage]
  /\ ask = [k \in Ask |-> "none"]
  /\ sending = [k \in Ask |-> NoRun]
  /\ takedown = [m \in Msg |-> "none"]
  /\ final = [k \in Final |-> "none"]
  /\ finalizing = [k \in Final |-> NoFinalRun]
  /\ births = 0
  /\ mishaps = 0
  /\ resent = {}
  /\ stray = {}
  /\ late = {}
  /\ refused = {}
  /\ robbed = {}
  /\ reopened = {}

-----------------------------------------------------------------------------
(* Charges come and are settled. *)

(* SQLite's rowid: one more than the largest in use. *)
IsNextTx(t) ==
  /\ \A u \in Present : u < t
  /\ t = 1 \/ t - 1 \in Present

(* The end of ingest_message: new, needs_attention when no rule parses it,  *)
(* or filed by a merchant rule and not announced.                           *)
Ingest(t, status) ==
  /\ IsNextTx(t)
  /\ births < MaxBirths
  /\ births' = births + 1
  /\ charge' = [charge EXCEPT ![t] = [NoCharge EXCEPT !.id = births + 1, !.status = status]]
  /\ ask' = IF status = "closed" \/ Outstanding(<<t, 0>>) THEN ask
            ELSE [ask EXCEPT ![<<t, 0>>] = "pending"]
  /\ UNCHANGED <<finals, message, sending, takedown, mishaps, resent, stray, late, refused, robbed>>

(* attach_orphan and assign_orphan: no job, and a settled charge stays so. *)
AttachByHand(t) ==
  /\ charge[t].status \in Asking
  /\ charge' = [charge EXCEPT ![t].status = "attached"]
  /\ UNCHANGED <<finals, message, ask, sending, takedown, births, mishaps, resent, stray, late, refused, robbed>>

(* _link_attachments, whatever the status of the charge. *)
Link(t, n) ==
  /\ t \in Present
  /\ charge' = [charge EXCEPT ![t].status = "attached"]
  /\ final' = IF final[<<t, n>>] \in {"pending", "running"} THEN final
              ELSE [final EXCEPT ![<<t, n>>] = "pending"]
  /\ UNCHANGED <<message, ask, sending, takedown, finalizing, births, mishaps, resent, stray, late, refused, robbed, reopened>>

(* detach, when it takes the last receipt. *)
Detach(t) ==
  /\ Mishap
  /\ charge[t].status = "attached"
  /\ charge' = [charge EXCEPT ![t].status = "notified"]
  /\ reopened' = reopened \cup {charge[t].id}
  /\ UNCHANGED <<message, ask, sending, takedown, final, finalizing, births, resent, stray, late, refused, robbed>>

(* update_transaction's status field, and /skip. *)
SetStatus(t, status) ==
  /\ Mishap
  /\ t \in Present
  /\ status # charge[t].status
  /\ charge' = [charge EXCEPT ![t].status = status]
  /\ reopened' = IF status \in Asking /\ charge[t].status \notin Asking
                 THEN reopened \cup {charge[t].id} ELSE reopened
  /\ UNCHANGED <<message, ask, sending, takedown, final, finalizing, births, resent, stray, late, refused, robbed>>

(* sweep_lapsed *)
SweepLapsed(S) ==
  /\ S # {}
  /\ \A t \in S : charge[t].status \in {"new", "notified"} /\ charge[t].told
  /\ charge' = [t \in Tx |-> IF t \in S THEN [charge[t] EXCEPT !.status = "lapsed"] ELSE charge[t]]
  /\ UNCHANGED <<finals, message, ask, sending, takedown, births, mishaps, resent, stray, late, refused, robbed>>

(* Mutant: a status that the table does not know. *)
ReparseAsParsed(t) ==
  /\ charge[t].status = "needs_attention"
  /\ charge' = [charge EXCEPT ![t].status = "parsed"]
  /\ UNCHANGED <<finals, message, ask, sending, takedown, births, mishaps, resent, stray, late, refused, robbed>>

(* reparse: the stored mail of an unparsed charge now matches a rule. *)
Reparse(t) ==
  /\ charge[t].status = "needs_attention"
  /\ charge' = [charge EXCEPT ![t].status = IF charge[t].told THEN "notified" ELSE "new"]
  /\ UNCHANGED <<finals, message, ask, sending, takedown, births, mishaps, resent, stray, late, refused, robbed>>

Silenced(S) ==
  [t \in Tx |-> IF t \in S THEN [id |-> charge[t].id, status |-> "silenced", msg |-> 0,
                                 told |-> charge[t].told, resends |-> charge[t].resends]
                ELSE charge[t]]

(* Mutant: a merchant is silenced, what is in the channel stays. *)
SilenceQuietly(S) ==
  /\ S # {}
  /\ \A t \in S : charge[t].status \in Asking
  /\ charge' = Silenced(S)
  /\ ask' = AskWithout(S)
  /\ final' = FinalWithout(S)
  /\ UNCHANGED <<message, sending, takedown, finalizing, births, mishaps, resent, stray, late, refused, robbed, reopened>>

(* silence_merchant, for the charges S of the merchant. *)
Silence(S) ==
  /\ S # {}
  /\ \A t \in S : charge[t].status \in Asking
  /\ charge' = Silenced(S)
  /\ ask' = AskWithout(S)
  /\ final' = FinalWithout(S)
  /\ takedown' = TakedownWith({charge[t].msg : t \in S})
  /\ UNCHANGED <<message, sending, finalizing, births, mishaps, resent, stray, late, refused, robbed, reopened>>

(* The message id is cleared, for notify skips a charge that has one. *)
Unannounced(c) ==
  [id |-> c.id, status |-> c.status, msg |-> 0, told |-> c.told, resends |-> c.resends + 1]

(* Mutant: a resend whose key is that of the first announcement. *)
ResendSameKey(t) ==
  /\ Mishap
  /\ t \in Present
  /\ charge[t].resends < MaxResends
  /\ charge' = [charge EXCEPT ![t] = Unannounced(charge[t])]
  /\ ask' = IF Outstanding(<<t, 0>>) THEN ask ELSE [ask EXCEPT ![<<t, 0>>] = "pending"]
  /\ resent' = resent \cup {charge[t].id}
  /\ UNCHANGED <<finals, message, sending, takedown, births, stray, late, refused, robbed>>

(* resend_notification, whatever the status of the charge. *)
Resend(t) ==
  /\ Mishap
  /\ t \in Present
  /\ charge[t].resends < MaxResends
  /\ charge' = [charge EXCEPT ![t] = Unannounced(charge[t])]
  /\ ask' = [ask EXCEPT ![<<t, charge[t].resends + 1>>] = "pending"]
  /\ resent' = resent \cup {charge[t].id}
  /\ UNCHANGED <<finals, message, sending, takedown, births, stray, late, refused, robbed>>

(* The messages whose discord_messages row refers to t. *)
RecordsOf(t) == {m \in Msg : message[m].tx = t}

Unrecorded(t) ==
  [m \in Msg |-> IF m \in RecordsOf(t) THEN [message[m] EXCEPT !.tx = 0] ELSE message[m]]

(* Mutant: a charge is deleted, its jobs are not. *)
DeleteKeepingJobs(t) ==
  /\ t \in Present
  /\ charge' = [charge EXCEPT ![t] = NoCharge]
  /\ message' = Unrecorded(t)
  /\ takedown' = TakedownWith(RecordsOf(t))
  /\ UNCHANGED <<finals, ask, sending, births, mishaps, resent, stray, late, refused, robbed>>

(* delete_transaction; that it leaves out messages with deleted_at set only  *)
(* spares it jobs for messages that are gone.                                *)
DeleteTransaction(t) ==
  /\ t \in Present
  /\ charge' = [charge EXCEPT ![t] = NoCharge]
  /\ message' = Unrecorded(t)
  /\ ask' = AskWithout({t})
  /\ final' = FinalWithout({t})
  /\ takedown' = TakedownWith(RecordsOf(t))
  /\ UNCHANGED <<sending, finalizing, births, mishaps, resent, stray, late, refused, robbed, reopened>>

-----------------------------------------------------------------------------
(* notify *)

Busy == \/ \E k \in Ask : sending[k].at # "idle"
        \/ \E k \in Final : finalizing[k].at # "idle"

Claimed(S, F) ==
  /\ S # {} \/ F # {}
  /\ \A k \in S : ask[k] = "pending"
  /\ \A k \in F : final[k] = "pending"
  /\ ask' = [k \in Ask |-> IF k \in S THEN "running" ELSE ask[k]]
  /\ sending' = [k \in Ask |-> IF k \in S THEN [NoRun EXCEPT !.at = "started"] ELSE sending[k]]
  /\ final' = [k \in Final |-> IF k \in F THEN "running" ELSE final[k]]
  /\ finalizing' = [k \in Final |-> IF k \in F THEN [NoFinalRun EXCEPT !.at = "started"]
                                   ELSE finalizing[k]]
  /\ UNCHANGED <<charge, message, takedown, births, mishaps, resent, stray, late, refused, robbed, reopened>>

(* Mutant: the next batch does not wait for the runs of finalize. *)
ClaimBesides(S, F) ==
  /\ \A k \in Ask : sending[k].at = "idle"
  /\ \A k \in F : finalizing[k].at = "idle"
  /\ Claimed(S, F)

(* A batch: which rows are due is JobQueue's concern. *)
Claim(S, F) ==
  /\ ~Busy
  /\ Claimed(S, F)

(* Mutant: a charge that has its message is announced again. *)
LoadAnyway(k) ==
  /\ sending[k].at = "started"
  /\ sending' = [sending EXCEPT ![k] =
       IF k[1] \notin Present THEN [@ EXCEPT !.at = "ok"]
       ELSE [at |-> "loaded", about |-> charge[k[1]].id, msg |-> 0]]
  /\ UNCHANGED <<finals, charge, message, ask, takedown, births, mishaps, resent, stray, late, refused, robbed>>

(* _load_notification: nothing to do without a charge, or with a message id. *)
Load(k) ==
  /\ sending[k].at = "started"
  /\ sending' = [sending EXCEPT ![k] =
       IF k[1] \notin Present \/ charge[k[1]].msg # 0 THEN [@ EXCEPT !.at = "ok"]
       ELSE [at |-> "loaded", about |-> charge[k[1]].id, msg |-> 0]]
  /\ UNCHANGED <<finals, charge, message, ask, takedown, births, mishaps, resent, stray, late, refused, robbed>>

IsNextMsg(m) ==
  /\ message[m].about = 0
  /\ \A n \in Msg : n < m => message[n].about # 0

Belated(k, m) == IF ask[k] = "running" THEN late ELSE late \cup {m}

Posted(m, id) == [message EXCEPT ![m] = [about |-> id, up |-> TRUE, tx |-> 0]]

(* channel.send *)
Send(k, m) ==
  /\ sending[k].at = "loaded"
  /\ IsNextMsg(m)
  /\ message' = Posted(m, sending[k].about)
  /\ sending' = [sending EXCEPT ![k] = [at |-> "sent", about |-> sending[k].about, msg |-> m]]
  /\ late' = Belated(k, m)
  /\ UNCHANGED <<finals, charge, ask, takedown, births, mishaps, resent, stray, refused, robbed>>

(* The call raises (as a failed load would), and nobody knows whether the    *)
(* message was posted.                                                       *)
SendRaises(k) ==
  /\ sending[k].at = "loaded"
  /\ Mishap
  /\ \/ UNCHANGED <<message, stray, robbed>>
     \/ \E m \in Msg : /\ IsNextMsg(m)
                       /\ message' = Posted(m, sending[k].about)
                       /\ stray' = stray \cup {m}
  /\ sending' = [sending EXCEPT ![k].at = "failed"]
  /\ UNCHANGED <<finals, charge, ask, takedown, births, resent, late, refused, robbed>>

(* The charge once its announcement m is recorded. *)
Told(c, m) ==
  [id |-> c.id, msg |-> m, told |-> TRUE, resends |-> c.resends,
   status |-> IF c.status = "new" THEN "notified" ELSE c.status]

(* _record_notification: by rowid, whatever charge is there now. *)
Record(k) ==
  LET t == k[1]
      m == sending[k].msg
  IN  /\ sending[k].at = "sent"
      /\ IF t \in Present
         THEN /\ charge' = [charge EXCEPT ![t] = Told(charge[t], m)]
              /\ message' = [message EXCEPT ![m].tx = t]
         ELSE UNCHANGED <<charge, message>>
      /\ late' = Belated(k, m)
      /\ sending' = [sending EXCEPT ![k].at = "ok"]
      /\ UNCHANGED <<finals, ask, takedown, births, mishaps, resent, stray, refused, robbed>>

RecordRaises(k) ==
  /\ sending[k].at = "sent"
  /\ Mishap
  /\ stray' = stray \cup {sending[k].msg}
  /\ sending' = [sending EXCEPT ![k].at = "failed"]
  /\ UNCHANGED <<finals, charge, message, ask, takedown, births, resent, late, refused, robbed>>

(* _finish: a failed job waits for its next attempt, or was on its last.    *)
Finish(k) ==
  /\ sending[k].at \in {"ok", "failed"}
  /\ ask[k] = "running"
  /\ \E after \in IF sending[k].at = "ok" THEN {"none"} ELSE {"pending", "dead"} :
       ask' = [ask EXCEPT ![k] = after]
  /\ sending' = [sending EXCEPT ![k] = NoRun]
  /\ UNCHANGED <<finals, charge, message, takedown, births, mishaps, resent, stray, late, refused, robbed>>

(* _finish by rowid, when the row was discarded: it closes nothing, or a    *)
(* pending job that was given the rowid (JobQueue has which).               *)
ClosesAnother ==
  \/ UNCHANGED <<ask, takedown, final, refused, robbed>>
  \/ \E j \in Ask : /\ ask[j] = "pending"
                    /\ ask' = [ask EXCEPT ![j] = "none"]
                    /\ robbed' = robbed \cup {charge[j[1]].id}
                    /\ UNCHANGED <<takedown, final, refused>>
  \/ \E j \in Final : /\ final[j] = "pending"
                      /\ final' = [final EXCEPT ![j] = "none"]
                      /\ UNCHANGED <<ask, takedown, refused, robbed>>
  \/ \E m \in Msg : /\ takedown[m] = "pending"
                    /\ takedown' = [takedown EXCEPT ![m] = "none"]
                    /\ refused' = refused \cup {m}
                    /\ UNCHANGED <<ask, final, robbed>>

FinishWithoutRow(k) ==
  /\ sending[k].at \in {"ok", "failed"}
  /\ ask[k] # "running"
  /\ sending' = [sending EXCEPT ![k] = NoRun]
  /\ ClosesAnother
  /\ UNCHANGED <<charge, message, finalizing, births, mishaps, resent, stray, late, reopened>>

-----------------------------------------------------------------------------
(* finalize, as far as it concerns the announcement (Capture has the rest). *)

(* _load_finalize *)
LoadFinal(k) ==
  /\ finalizing[k].at = "started"
  /\ finalizing' = [finalizing EXCEPT ![k] =
       IF k[1] \notin Present THEN [@ EXCEPT !.at = "ok"]
       ELSE [at |-> "loaded", msg |-> charge[k[1]].msg]]
  /\ UNCHANGED <<charge, message, ask, sending, takedown, final, births, mishaps, resent, stray, late, refused, robbed, reopened>>

Cleared(m) == [message EXCEPT ![m].up = FALSE]

(* The announcement is deleted; or there is none, the setting keeps it, or   *)
(* Discord refuses, which is logged.                                         *)
Clear(k) ==
  /\ finalizing[k].at = "loaded"
  /\ \/ UNCHANGED message
     \/ finalizing[k].msg # 0 /\ message' = Cleared(finalizing[k].msg)
  /\ finalizing' = [finalizing EXCEPT ![k].at = "ok"]
  /\ UNCHANGED <<charge, ask, sending, takedown, final, births, mishaps, resent, stray, late, refused, robbed, reopened>>

(* A file fails verification, the confirmation or _mark_deleted raises. *)
FinalRaises(k) ==
  /\ finalizing[k].at \in {"started", "loaded"}
  /\ Mishap
  /\ \/ UNCHANGED message
     \/ finalizing[k].msg # 0 /\ message' = Cleared(finalizing[k].msg)
  /\ finalizing' = [finalizing EXCEPT ![k].at = "failed"]
  /\ UNCHANGED <<charge, ask, sending, takedown, final, births, resent, stray, late, refused, robbed, reopened>>

FinishFinal(k) ==
  /\ finalizing[k].at \in {"ok", "failed"}
  /\ final[k] = "running"
  /\ \E after \in IF finalizing[k].at = "ok" THEN {"none"} ELSE {"pending", "dead"} :
       final' = [final EXCEPT ![k] = after]
  /\ finalizing' = [finalizing EXCEPT ![k] = NoFinalRun]
  /\ UNCHANGED <<charge, message, ask, sending, takedown, births, mishaps, resent, stray, late, refused, robbed, reopened>>

FinishFinalWithoutRow(k) ==
  /\ finalizing[k].at \in {"ok", "failed"}
  /\ final[k] # "running"
  /\ finalizing' = [finalizing EXCEPT ![k] = NoFinalRun]
  /\ ClosesAnother
  /\ UNCHANGED <<charge, message, sending, births, mishaps, resent, stray, late, reopened>>

-----------------------------------------------------------------------------
(* delete_message: claim, handler and finish in one step; a second run finds *)
(* the message gone.                                                         *)

TakeDown(m) ==
  /\ takedown[m] = "pending"
  /\ takedown' = [takedown EXCEPT ![m] = "none"]
  /\ message' = [message EXCEPT ![m].up = FALSE]
  /\ UNCHANGED <<finals, charge, ask, sending, births, mishaps, resent, stray, late, refused, robbed>>

(* Forbidden is logged and the job is done; other errors are retried. *)
TakeDownFails(m) ==
  /\ takedown[m] = "pending"
  /\ Mishap
  /\ \/ /\ takedown' = [takedown EXCEPT ![m] = "none"]
        /\ refused' = refused \cup {m}
     \/ takedown' = [takedown EXCEPT ![m] = "dead"] /\ UNCHANGED refused
  /\ UNCHANGED <<finals, charge, message, ask, sending, births, resent, stray, late, robbed>>

(* revive_dead *)
ReviveDead ==
  /\ \/ \E k \in Ask : ask[k] = "dead"
     \/ \E k \in Final : final[k] = "dead"
     \/ \E m \in Msg : takedown[m] = "dead"
  /\ ask' = [k \in Ask |-> IF ask[k] = "dead" THEN "pending" ELSE ask[k]]
  /\ final' = [k \in Final |-> IF final[k] = "dead" THEN "pending" ELSE final[k]]
  /\ takedown' = [m \in Msg |-> IF takedown[m] = "dead" THEN "pending" ELSE takedown[m]]
  /\ UNCHANGED <<charge, message, sending, finalizing, births, mishaps, resent, stray, late, refused, robbed, reopened>>

(* The process ends at any moment and is started again. *)
Restart ==
  /\ Mishap
  /\ stray' = stray \cup {sending[k].msg : k \in {j \in Ask : sending[j].at = "sent"}}
  /\ sending' = [k \in Ask |-> NoRun]
  /\ finalizing' = [k \in Final |-> NoFinalRun]
  /\ ask' = [k \in Ask |-> IF ask[k] = "running" THEN "pending" ELSE ask[k]]
  /\ final' = [k \in Final |-> IF final[k] = "running" THEN "pending" ELSE final[k]]
  /\ UNCHANGED <<charge, message, takedown, births, resent, late, refused, robbed, reopened>>

-----------------------------------------------------------------------------
World ==
  \/ \E t \in Tx, status \in {"new", "needs_attention", "closed"} : Ingest(t, status)
  \/ \E S \in SUBSET Tx : SweepLapsed(S)
  \/ Restart

(* The web forms and the channel. *)
Hand ==
  \/ \E t \in Tx : \/ AttachByHand(t) \/ Detach(t) \/ Reparse(t) \/ Resend(t) \/ DeleteTransaction(t)
                  \/ \E n \in 1..MaxLinks : Link(t, n)
                  \/ \E status \in Status \ {"absent", "silenced"} : SetStatus(t, status)
  \/ \E S \in SUBSET Tx : Silence(S)
  \/ ReviveDead

Worker ==
  \/ \E S \in SUBSET Ask, F \in SUBSET Final : Claim(S, F)
  \/ \E k \in Ask : \/ Load(k) \/ SendRaises(k) \/ Record(k) \/ RecordRaises(k)
                    \/ Finish(k) \/ FinishWithoutRow(k)
                    \/ \E m \in Msg : Send(k, m)
  \/ \E k \in Final : \/ LoadFinal(k) \/ Clear(k) \/ FinalRaises(k)
                      \/ FinishFinal(k) \/ FinishFinalWithoutRow(k)
  \/ \E m \in Msg : TakeDown(m) \/ TakeDownFails(m)

Next == World \/ Hand \/ Worker

Spec == Init /\ [][Next]_vars

-----------------------------------------------------------------------------
(* Every variable has its type. *)
TypeOK ==
  /\ charge \in [Tx -> Charge]
  /\ message \in [Msg -> Message]
  /\ ask \in [Ask -> JobState]
  /\ sending \in [Ask -> Run]
  /\ takedown \in [Msg -> JobState]
  /\ births \in 0..MaxBirths
  /\ mishaps \in 0..MaxMishaps
  /\ final \in [Final -> JobState]
  /\ finalizing \in [Final -> FinalRun]
  /\ resent \cup robbed \cup reopened \subseteq 0..MaxBirths
  /\ stray \cup late \cup refused \subseteq 0..MaxMsg

(* A charge that still asks for a receipt has a message, or a job that will  *)
(* post one (dead jobs wait on the health page): no crash, resend, silence   *)
(* of another charge or reuse of its rowid leaves it waiting for nothing,    *)
(* only a run without a row that closed its job; but one that was settled    *)
(* and asks again, because its receipt was detached, is not announced.       *)
AskIsOwed ==
  \A t \in Tx :
    charge[t].status \in Asking /\ charge[t].msg = 0 =>
      charge[t].id \in robbed \cup reopened \/ \E k \in AsksOf(t) : ask[k] # "none"

(* The message that a charge which asks has on record is in the channel and  *)
(* shows this charge: finalize and delete_message only delete those of       *)
(* settled, silenced and deleted charges, though they work from rowids and   *)
(* message ids read before; unless the charge was settled and asks again, or *)
(* the message was recorded by a run without a row.                          *)
AskIsInChannel ==
  \A t \in Tx :
    charge[t].status \in Asking /\ charge[t].msg # 0 =>
      \/ message[charge[t].msg].up /\ message[charge[t].msg].about = charge[t].id
      \/ charge[t].msg \in late
      \/ charge[t].id \in reopened

(* A reply to an announcement finds the charge that it announced, not one    *)
(* that got its rowid since; unless the run that recorded the message had    *)
(* lost its row before.                                                      *)
ReplyFindsItsCharge ==
  \A m \in Msg :
    message[m].tx # 0 =>
      charge[message[m].tx].id = message[m].about \/ m \in late

(* A charge is announced once: again only by hand, when a message was posted *)
(* and its run ended before it was recorded, or by a run without a row.      *)
AnnouncedOnce ==
  \A m, n \in Msg :
    /\ message[m].about # 0
    /\ message[m].about = message[n].about
    /\ message[m].about \notin resent
    /\ {m, n} \cap (stray \cup late) = {}
    => m = n

InFlight(m) == \E k \in Ask : sending[k].at = "sent" /\ sending[k].msg = m

(* No current charge has this identity. *)
Gone(id) == \A t \in Tx : charge[t].id # id

IsSilenced(id) == \E t \in Tx : charge[t].id = id /\ charge[t].status = "silenced"

(* The announcement of a charge that was deleted or silenced is taken down:  *)
(* its delete job is outstanding or dead; unless it was posted or recorded   *)
(* behind the program's back, may not be deleted, or was asked for again.    *)
AskIsWithdrawn ==
  \A m \in Msg :
    /\ message[m].up
    /\ \/ Gone(message[m].about)
       \/ IsSilenced(message[m].about) /\ message[m].about \notin resent
    => takedown[m] # "none" \/ m \in stray \cup late \cup refused \/ InFlight(m)
=============================================================================
