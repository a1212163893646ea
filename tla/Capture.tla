------------------------------ MODULE Capture ------------------------------
(***************************************************************************)
(* From a Discord message with receipts to its deletion: the bot stores     *)
(* each attachment and links it to a charge (discordbot/bot.py), a finalize *)
(* job checks the files and deletes the message (discordbot/tasks.py), and  *)
(* the web UI moves and removes receipts meanwhile (web/routes_ui.py).      *)
(* A job is known here by its idempotency key; JobQueue has the table.      *)
(***************************************************************************)
EXTENDS Integers, FiniteSetsExt

CONSTANTS Message,      \* Discord messages that carry receipts
          Size,         \* how many attachments each of them has
          Photo,        \* contents, as far as sha256 tells them apart
          PhotoOf,      \* the content of an attachment
          MaxTx,        \* bound: largest transaction id (and short code)
          MaxAtt,       \* bound: largest rowid of the attachments table
          MaxMishaps,   \* bound: process ends and damaged files
          MaxEdits      \* bound: edits by hand, in the web UI or by command

Part == UNION {{m} \X (1..Size[m]) : m \in Message}

ASSUME CaptureAssumption ==
  /\ Size \in [Message -> Nat \ {0}]
  /\ PhotoOf \in [Part -> Photo]
  /\ {MaxTx, MaxAtt, MaxMishaps, MaxEdits} \subseteq Nat

Tx == 1..MaxTx
NoTx == 0
AttId == 1..MaxAtt
NoPart == <<>>

VARIABLES
  channel,   \* the messages in the Discord channel
  capture,   \* _capture_message, and the picker it may leave, by message
  disk,      \* the stored file of an attachment: "none", "good", "bad"
  rows,      \* the attachments table
  recorded,  \* messages with a row in discord_messages
  charge,    \* the status of a transaction, "absent" when it has no row
  job,       \* the outstanding and finished finalize jobs, by key
  run,       \* the finalize coroutines, by the key of their job
  edits,     \* how many edits so far
  mishaps,   \* how many mishaps so far
  gated,     \* history: attachments that finalize found durable and linked
  adrift     \* history: charges whose status no longer follows its receipts

vars == <<channel, capture, disk, rows, recorded, charge, job, run, edits,
          mishaps, gated, adrift>>

(* Statuses that the code below treats alike: "open" is new, notified or     *)
(* needs_attention; "settled" is verified, no_receipt_required or ignored.   *)
Status == {"open", "lapsed", "attached", "settled"}

Capturing ==
  [at : {"idle", "reading", "stored", "resolving", "linking", "asking", "over"},
   next : Nat,                \* the attachment of the message it has come to
   ids : SUBSET AttId,        \* attachment_ids
   options : SUBSET Tx]       \* the charge addressed or found, or those on offer

NewCapture == [at |-> "idle", next |-> 1, ids |-> {}, options |-> {}]

Over == [NewCapture EXCEPT !.at = "over"]

Attached == [part : Part \cup {NoPart}, tx : Tx \cup {NoTx}, source_deleted : BOOLEAN]

NoRow == [part |-> NoPart, tx |-> NoTx, source_deleted |-> FALSE]

Key == Tx \X AttId            \* finalize:{tx.id}:{min(attachment_ids)}

Job == [status : {"none", "pending", "running", "done", "dead"}, ids : SUBSET AttId]

NoJob == [status |-> "none", ids |-> {}]

Run ==
  [at : {"idle", "claimed", "loaded", "deleting", "returned"},
   ids : SUBSET AttId,        \* the payload's attachment_ids
   todo : SUBSET Message,     \* receipt messages still to delete
   deleted : BOOLEAN]         \* whether something was deleted

NoRun == [at |-> "idle", ids |-> {}, todo |-> {}, deleted |-> FALSE]

-----------------------------------------------------------------------------
Existing == {t \in Tx : charge[t] # "absent"}

RowIds == {a \in AttId : rows[a].part # NoPart}

Linked(t) == {a \in RowIds : rows[a].tx = t}

MessageOf(a) == rows[a].part[1]

(* SQLite gives a row the rowid after the largest one in use.                *)
IsNext(i, used) == /\ \A j \in used : j < i
                   /\ i = 1 \/ i - 1 \in used

(* UniqueConstraint(transaction_id, sha256)                                  *)
Clash(S, t) ==
  \E a \in S, b \in S \cup Linked(t) :
    a # b /\ PhotoOf[rows[a].part] = PhotoOf[rows[b].part]

Relinked(S, t) == [a \in AttId |-> IF a \in S THEN [rows[a] EXCEPT !.tx = t] ELSE rows[a]]

(* Mutant: only an open charge is closed by a receipt attached by hand.      *)
ClosedUnlessLapsed(status) == IF status = "open" THEN "attached" ELSE status

(* A receipt attached in the web UI leaves a status set by a human alone.    *)
Closed(status) == IF status \in {"open", "lapsed"} THEN "attached" ELSE status

Init ==
  /\ channel = [m \in Message |-> "unsent"]
  /\ capture = [m \in Message |-> NewCapture]
  /\ disk = [p \in Part |-> "none"]
  /\ rows = [a \in AttId |-> NoRow]
  /\ recorded = {}
  /\ charge = [t \in Tx |-> "absent"]
  /\ job = [k \in Key |-> NoJob]
  /\ run = [k \in Key |-> NoRun]
  /\ edits = 0
  /\ mishaps = 0
  /\ gated = {}
  /\ adrift = {}

-----------------------------------------------------------------------------
(* The bot: on_message, _capture_message and the picker's callback.          *)

(* A message that replies to a charge's notification or names its code, or   *)
(* neither; on_message has let its channel and its author through.           *)
Send(m, address) ==
  /\ channel[m] = "unsent"
  /\ channel' = [channel EXCEPT ![m] = "present"]
  /\ capture' = [capture EXCEPT ![m] = [@ EXCEPT !.at = "reading", !.options = address]]
  /\ UNCHANGED <<disk, rows, recorded, charge, job, run, edits, mishaps, gated, adrift>>

(* Mutant: goes on to match a message none of whose attachments was stored.  *)
AdvancedWithout(c, m) ==
  IF c.next < Size[m] THEN [c EXCEPT !.next = @ + 1, !.at = "reading"]
  ELSE [c EXCEPT !.at = "resolving"]

(* The for loop's next turn; after the last one, return if nothing is stored.*)
Advanced(c, m) ==
  IF c.next < Size[m] THEN [c EXCEPT !.next = @ + 1, !.at = "reading"]
  ELSE IF c.ids = {} THEN Over ELSE [c EXCEPT !.at = "resolving"]

(* The download or store_receipt_bytes raises: told to the uploader later.   *)
StoreFails(m) ==
  /\ capture[m].at = "reading"
  /\ capture' = [capture EXCEPT ![m] = Advanced(@, m)]
  /\ UNCHANGED <<channel, disk, rows, recorded, charge, job, run, edits, mishaps, gated, adrift>>

Store(m) ==
  /\ capture[m].at = "reading"
  /\ disk' = [disk EXCEPT ![<<m, capture[m].next>>] = "good"]
  /\ capture' = [capture EXCEPT ![m].at = "stored"]
  /\ UNCHANGED <<channel, rows, recorded, charge, job, run, edits, mishaps, gated, adrift>>

Persist(m, a) ==
  /\ capture[m].at = "stored"
  /\ m \notin recorded
  /\ IsNext(a, RowIds)
  /\ rows' = [rows EXCEPT ![a] = [NoRow EXCEPT !.part = <<m, capture[m].next>>]]
  /\ recorded' = recorded \cup {m}
  /\ capture' = [capture EXCEPT ![m] = Advanced([@ EXCEPT !.ids = capture[m].ids \cup {a}], m)]
  /\ UNCHANGED <<channel, disk, charge, job, run, edits, mishaps, gated, adrift>>

(* discord_messages.message_id is unique: the second attachment of a message *)
(* raises, and the exception leaves _capture_message.                        *)
PersistRaises(m) ==
  /\ capture[m].at = "stored"
  /\ m \in recorded
  /\ capture' = [capture EXCEPT ![m] = Over]
  /\ UNCHANGED <<channel, disk, rows, recorded, charge, job, run, edits, mishaps, gated, adrift>>

(* matching.resolve: the charge addressed, else the only open one, else a    *)
(* picker with the open ones, or with the recent ones when none is open.     *)
Resolve(m, at, options) ==
  LET address == capture[m].options \cap Existing
      open == {t \in Tx : charge[t] = "open"}
  IN /\ capture[m].at = "resolving"
     /\ \/ at = "linking" /\ options = address /\ address # {}
        \/ address = {} /\ Cardinality(open) = 1 /\ at = "linking" /\ options = open
        \/ address = {} /\ Cardinality(open) > 1 /\ at = "asking" /\ options = open
        \/ /\ address = {} /\ open = {} /\ options \subseteq Existing
           /\ at = IF options = {} THEN "over" ELSE "asking"
     /\ capture' = [capture EXCEPT ![m] = IF at = "over" THEN Over
                                         ELSE [@ EXCEPT !.at = at, !.options = options]]
     /\ UNCHANGED <<channel, disk, rows, recorded, charge, job, run, edits, mishaps, gated, adrift>>

(* Mutant: links whatever row the id names now.                              *)
LinkableAny(ids) == ids \cap RowIds

(* The captured files that no charge has yet.                                *)
Linkable(ids) == {a \in ids \cap RowIds : rows[a].tx = NoTx}

Enqueued(k, ids) ==
  IF job[k].status \in {"pending", "running"} THEN job
  ELSE [job EXCEPT ![k] = [status |-> "pending", ids |-> ids]]

(* _link_attachments, which finds its charge by short code.                  *)
LinkAttachments(m, t) ==
  LET ids == capture[m].ids
      free == Linkable(ids)
  IN /\ capture' = [capture EXCEPT ![m] = Over]
     /\ \/ /\ charge[t] = "absent" \/ free = {} \/ Clash(free, t)
           /\ UNCHANGED <<rows, charge, job, adrift>>
        \/ /\ charge[t] # "absent" /\ free # {} /\ ~Clash(free, t)
           /\ rows' = Relinked(free, t)
           /\ charge' = [charge EXCEPT ![t] = "attached"]
           /\ job' = Enqueued(<<t, Min(ids)>>, ids)
           /\ adrift' = adrift \ {t}
     /\ UNCHANGED <<channel, disk, recorded, run, edits, mishaps, gated>>

(* At once, or when the uploader answers the picker.                         *)
Link(m, t) ==
  /\ capture[m].at \in {"linking", "asking"}
  /\ t \in capture[m].options
  /\ LinkAttachments(m, t)

(* "None of these", or nobody answers: the receipt stays an orphan.          *)
Hold(m) ==
  /\ capture[m].at = "asking"
  /\ capture' = [capture EXCEPT ![m] = Over]
  /\ UNCHANGED <<channel, disk, rows, recorded, charge, job, run, edits, mishaps, gated, adrift>>

-----------------------------------------------------------------------------
(* The finalize job.                                                         *)

Claim(k) ==
  /\ job[k].status = "pending"
  /\ run[k].at = "idle"
  /\ job' = [job EXCEPT ![k].status = "running"]
  /\ run' = [run EXCEPT ![k] = [NoRun EXCEPT !.at = "claimed", !.ids = job[k].ids]]
  /\ UNCHANGED <<channel, capture, disk, rows, recorded, charge, edits, mishaps, gated, adrift>>

(* The payload's attachments that belong to the charge.                      *)
Mine(k) == {a \in run[k].ids : rows[a].tx = k[1]}

(* Mutant: trusts the rows, as if the files were still what they were.       *)
DurableAssumed(S) == \A a \in S : rows[a].part # NoPart

(* storage.assert_durable, for each of them.                                 *)
Durable(S) == \A a \in S : disk[rows[a].part] = "good"

(* _load_finalize                                                            *)
Load(k) ==
  /\ run[k].at = "claimed"
  /\ charge[k[1]] # "absent"
  /\ Durable(Mine(k))
  /\ run' = [run EXCEPT ![k] = [@ EXCEPT !.at = "loaded",
                                          !.todo = {MessageOf(a) : a \in Mine(k)}]]
  /\ gated' = gated \cup {rows[a].part : a \in {b \in Mine(k) : disk[rows[b].part] = "good"}}
  /\ UNCHANGED <<channel, capture, disk, rows, recorded, charge, job, edits, mishaps, adrift>>

LoadNothing(k) ==
  /\ run[k].at = "claimed"
  /\ charge[k[1]] = "absent"
  /\ run' = [run EXCEPT ![k] = [NoRun EXCEPT !.at = "returned"]]
  /\ UNCHANGED <<channel, capture, disk, rows, recorded, charge, job, edits, mishaps, gated, adrift>>

(* "Receipt stored" is posted, if it is to be, before anything is deleted.   *)
Confirm(k) ==
  /\ run[k].at = "loaded"
  /\ run' = [run EXCEPT ![k].at = "deleting"]
  /\ UNCHANGED <<channel, capture, disk, rows, recorded, charge, job, edits, mishaps, gated, adrift>>

(* Deleted now, or found deleted already.                                    *)
DeleteReceipt(k, m) ==
  /\ run[k].at = "deleting"
  /\ m \in run[k].todo
  /\ channel' = [channel EXCEPT ![m] = "deleted"]
  /\ run' = [run EXCEPT ![k] = [@ EXCEPT !.todo = run[k].todo \ {m}, !.deleted = TRUE]]
  /\ UNCHANGED <<capture, disk, rows, recorded, charge, job, edits, mishaps, gated, adrift>>

(* The settings keep it, or there is no permission, or another HTTP error,   *)
(* which is logged, and that is all.                                         *)
DeleteRefused(k, m) ==
  /\ run[k].at = "deleting"
  /\ m \in run[k].todo
  /\ run' = [run EXCEPT ![k].todo = @ \ {m}]
  /\ UNCHANGED <<channel, capture, disk, rows, recorded, charge, job, edits, mishaps, gated, adrift>>

(* The charge's own message comes last and may be deleted too (notice); if   *)
(* anything was, _mark_deleted marks every attachment of the payload.        *)
Mark(k, notice) ==
  /\ run[k].at = "deleting"
  /\ run[k].todo = {}
  /\ run' = [run EXCEPT ![k] = [NoRun EXCEPT !.at = "returned"]]
  /\ rows' = [a \in AttId |->
                IF a \in run[k].ids \cap RowIds /\ (run[k].deleted \/ notice)
                THEN [rows[a] EXCEPT !.source_deleted = TRUE] ELSE rows[a]]
  /\ UNCHANGED <<channel, capture, disk, recorded, charge, job, edits, mishaps, gated, adrift>>

(* The handler is over.  It raises when a file is not durable, the gateway   *)
(* is gone, the confirmation cannot be posted or recorded, or a deletion     *)
(* ends in an error that is not Discord's: _finish then has it tried again,  *)
(* until its attempts are used up.                                           *)
Finish(k, status) ==
  /\ \/ run[k].at = "returned" /\ status = "done"
     \/ run[k].at \in {"claimed", "loaded", "deleting"} /\ status \in {"pending", "dead"}
  /\ run' = [run EXCEPT ![k] = NoRun]
  /\ job' = IF job[k].status = "running" THEN [job EXCEPT ![k].status = status] ELSE job
  /\ UNCHANGED <<channel, capture, disk, rows, recorded, charge, edits, mishaps, gated, adrift>>

(* revive_dead, from the health page.                                        *)
ReviveDead ==
  /\ \E k \in Key : job[k].status = "dead"
  /\ job' = [k \in Key |-> IF job[k].status = "dead"
                           THEN [job[k] EXCEPT !.status = "pending"] ELSE job[k]]
  /\ UNCHANGED <<channel, capture, disk, rows, recorded, charge, run, edits, mishaps, gated, adrift>>

-----------------------------------------------------------------------------
(* Edits by hand.                                                            *)

Edit == edits < MaxEdits /\ edits' = edits + 1

(* The orphan queue's form, with its check that the receipt is unassigned.   *)
AssignOrphan(a, t) ==
  /\ Edit
  /\ a \in RowIds /\ t \in Existing
  /\ rows[a].tx = NoTx
  /\ ~Clash({a}, t)
  /\ rows' = Relinked({a}, t)
  /\ charge' = [charge EXCEPT ![t] = Closed(@)]
  /\ UNCHANGED <<channel, capture, disk, recorded, job, run, mishaps, gated, adrift>>

(* The charge page's form, which has no such check: submitted from a page    *)
(* that is out of date, it takes the receipt from another charge.            *)
AttachOrphan(a, t) ==
  /\ Edit
  /\ a \in RowIds /\ t \in Existing
  /\ ~Clash({a}, t)
  /\ rows' = Relinked({a}, t)
  /\ charge' = [charge EXCEPT ![t] = Closed(@)]
  /\ adrift' = IF rows[a].tx \in Tx \ {t} THEN adrift \cup {rows[a].tx} ELSE adrift
  /\ UNCHANGED <<channel, capture, disk, recorded, job, run, mishaps, gated>>

(* Mutant: counts the receipt that is being detached.                        *)
RemainingWithIt(a) == Linked(rows[a].tx)

(* The charge's other receipts.                                              *)
Remaining(a) == Linked(rows[a].tx) \ {a}

Detach(a) ==
  /\ Edit
  /\ a \in RowIds /\ rows[a].tx # NoTx
  /\ LET t == rows[a].tx
     IN charge' = IF Remaining(a) = {} /\ charge[t] = "attached"
                  THEN [charge EXCEPT ![t] = "open"] ELSE charge
  /\ rows' = Relinked({a}, NoTx)
  /\ UNCHANGED <<channel, capture, disk, recorded, job, run, mishaps, gated, adrift>>

(* Only an orphan can be deleted; its file goes with it.                     *)
DeleteAttachment(a) ==
  /\ Edit
  /\ a \in RowIds /\ rows[a].tx = NoTx
  /\ disk' = [disk EXCEPT ![rows[a].part] = "bad"]
  /\ rows' = [rows EXCEPT ![a] = NoRow]
  /\ UNCHANGED <<channel, capture, recorded, charge, job, run, mishaps, gated, adrift>>

(* discard_for_transaction                                                   *)
Discarded(t) == [k \in Key |-> IF k[1] = t THEN NoJob ELSE job[k]]

DeleteTransaction(t, delete_receipts) ==
  LET S == Linked(t)
  IN /\ Edit
     /\ t \in Existing
     /\ disk' = [p \in Part |-> IF delete_receipts /\ \E a \in S : rows[a].part = p
                                THEN "bad" ELSE disk[p]]
     /\ rows' = IF delete_receipts
                THEN [a \in AttId |-> IF a \in S THEN NoRow ELSE rows[a]]
                ELSE Relinked(S, NoTx)
     /\ charge' = [charge EXCEPT ![t] = "absent"]
     /\ job' = Discarded(t)
     /\ adrift' = adrift \ {t}
     /\ UNCHANGED <<channel, capture, recorded, run, mishaps, gated>>

(* update_transaction's status field and the /skip command.                  *)
SetStatus(t, status) ==
  /\ Edit
  /\ t \in Existing
  /\ status # charge[t]
  /\ charge' = [charge EXCEPT ![t] = status]
  /\ adrift' = adrift \cup {t}
  /\ UNCHANGED <<channel, capture, disk, rows, recorded, job, run, mishaps, gated>>

(* silence_merchant, for one of the charges it files.                        *)
Silence(t) ==
  /\ Edit
  /\ charge[t] \in {"open", "lapsed"}
  /\ Linked(t) = {}
  /\ charge' = [charge EXCEPT ![t] = "settled"]
  /\ job' = Discarded(t)
  /\ UNCHANGED <<channel, capture, disk, rows, recorded, run, mishaps, gated, adrift>>

-----------------------------------------------------------------------------
(* Charges come in by mail, filed at once if a merchant rule says so, and    *)
(* those that never got a receipt lapse.                                     *)

Ingest(t, status) ==
  /\ IsNext(t, Existing)
  /\ status \in {"open", "settled"}
  /\ charge' = [charge EXCEPT ![t] = status]
  /\ UNCHANGED <<channel, capture, disk, rows, recorded, job, run, edits, mishaps, gated, adrift>>

SweepLapsed(S) ==
  /\ S # {} /\ \A t \in S : charge[t] = "open"
  /\ charge' = [t \in Tx |-> IF t \in S THEN "lapsed" ELSE charge[t]]
  /\ UNCHANGED <<channel, capture, disk, rows, recorded, job, run, edits, mishaps, gated, adrift>>

Mishap == mishaps < MaxMishaps /\ mishaps' = mishaps + 1

(* A file of the data volume is lost or changed.                             *)
Damage(p) ==
  /\ Mishap
  /\ disk[p] = "good"
  /\ disk' = [disk EXCEPT ![p] = "bad"]
  /\ UNCHANGED <<channel, capture, rows, recorded, charge, job, run, edits, gated, adrift>>

(* The process ends and starts again: pickers and captures are forgotten,    *)
(* reset_orphaned_jobs makes running jobs pending.                           *)
Restart ==
  /\ Mishap
  /\ capture' = [m \in Message |-> IF capture[m].at = "idle" THEN capture[m]
                                   ELSE Over]
  /\ job' = [k \in Key |-> IF job[k].status = "running"
                           THEN [job[k] EXCEPT !.status = "pending"] ELSE job[k]]
  /\ run' = [k \in Key |-> NoRun]
  /\ UNCHANGED <<channel, disk, rows, recorded, charge, edits, gated, adrift>>

-----------------------------------------------------------------------------
Bot ==
  \E m \in Message :
    \/ \E address \in {{}} \cup {{t} : t \in Tx} : Send(m, address)
    \/ StoreFails(m) \/ Store(m) \/ PersistRaises(m) \/ Hold(m)
    \/ \E a \in AttId : Persist(m, a)
    \/ \E at \in {"linking", "asking", "over"}, options \in SUBSET Tx : Resolve(m, at, options)
    \/ \E t \in Tx : Link(m, t)

Worker ==
  \E k \in Key :
    \/ Claim(k) \/ Load(k) \/ LoadNothing(k) \/ Confirm(k)
    \/ \E m \in Message : DeleteReceipt(k, m) \/ DeleteRefused(k, m)
    \/ \E notice \in BOOLEAN : Mark(k, notice)
    \/ \E status \in {"done", "pending", "dead"} : Finish(k, status)

Hand ==
  \/ \E a \in AttId, t \in Tx : AssignOrphan(a, t) \/ AttachOrphan(a, t)
  \/ \E a \in AttId : Detach(a) \/ DeleteAttachment(a)
  \/ \E t \in Tx : \/ \E delete_receipts \in BOOLEAN : DeleteTransaction(t, delete_receipts)
                   \/ \E status \in Status : SetStatus(t, status)
                   \/ Silence(t)
  \/ ReviveDead

World ==
  \/ \E t \in Tx, status \in {"open", "settled"} : Ingest(t, status)
  \/ \E S \in SUBSET Tx : SweepLapsed(S)
  \/ \E p \in Part : Damage(p)
  \/ Restart

Next == Bot \/ Worker \/ Hand \/ World

Spec == Init /\ [][Next]_vars

-----------------------------------------------------------------------------
(* Every variable has its type; a capture that matches has something to      *)
(* match, as min(attachment_ids) requires.                                   *)
TypeOK ==
  /\ channel \in [Message -> {"unsent", "present", "deleted"}]
  /\ capture \in [Message -> Capturing]
  /\ \A m \in Message : capture[m].at \in {"resolving", "linking", "asking"} => capture[m].ids # {}
  /\ disk \in [Part -> {"none", "good", "bad"}]
  /\ rows \in [AttId -> Attached]
  /\ recorded \subseteq Message
  /\ charge \in [Tx -> Status \cup {"absent"}]
  /\ job \in [Key -> Job]
  /\ run \in [Key -> Run]
  /\ edits \in 0..MaxEdits
  /\ mishaps \in 0..MaxMishaps
  /\ gated \subseteq Part
  /\ adrift \subseteq Tx

(* The rule of bot.py: a source message is deleted only after finalize found *)
(* the file of one of its receipts intact on disk, whatever was retried,     *)
(* detached, removed or damaged in between.                                  *)
DeletedMeansVerified ==
  \A m \in Message : channel[m] = "deleted" => \E p \in gated : p[1] = m

(* A receipt that has a charge keeps it until a human takes it away: a       *)
(* picker answered late does not undo an assignment from the orphan queue,   *)
(* and only the charge page's form (which marks the charge adrift) does.     *)
LinkIsKept ==
  [][\A a \in AttId :
       rows[a].tx # NoTx /\ rows'[a].tx \notin {NoTx, rows[a].tx}
         => rows[a].tx \in adrift']_vars

(* receipt_attached is "at least one receipt captured" through every link,   *)
(* detach and delete, unless the status was set by hand or the charge page   *)
(* moved the receipt.                                                        *)
AttachedHasReceipt ==
  \A t \in Tx \ adrift : charge[t] = "attached" => Linked(t) # {}

(* A charge that has a receipt is never open or lapsed, so it is neither     *)
(* offered in a picker, nor swept, nor taken for the only open one.          *)
ReceiptClosesCharge ==
  \A t \in Tx \ adrift : Linked(t) # {} => charge[t] \in {"attached", "settled"}

(* README: "A failed capture never deletes anything"; the reply about a      *)
(* failed attachment says that the message has been left in place.           *)
FailedCaptureDeletesNothing ==
  \A p \in Part : disk[p] = "none" => channel[p[1]] # "deleted"

(* models.py: source_deleted is true once the source message has been        *)
(* deleted.                                                                  *)
SourceDeletedMeansGone ==
  \A a \in RowIds : rows[a].source_deleted => channel[MessageOf(a)] = "deleted"
=============================================================================
