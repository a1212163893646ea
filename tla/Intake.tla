------------------------------- MODULE Intake -------------------------------
(***************************************************************************)
(* The mail poller (services/ingest.py, services/graph.py): pages of a     *)
(* delta query, one fetch per mail, one session per mail, and the cursor   *)
(* saved in a session of its own, against changed settings, deletions by   *)
(* hand, failures of Graph and restarts.                                   *)
(***************************************************************************)
EXTENDS Integers, FiniteSets

CONSTANTS Item,        \* Graph messages, numbered in the order received
          Mid,         \* mails, by internet_message_id
          MidOf,       \* the mail an item is; a moved mail is a new item
          Folder,      \* mail folders
          FolderOf,    \* the folder an item is in
          NoFolder,    \* Graph is not configured yet
          Refused,     \* mails the envelope filter turns away
          MaxMishaps,  \* bound: failed calls and sessions, expiries, restarts
          MaxEdits     \* bound: what people do in the web UI

ASSUME IntakeAssumption ==
  /\ Item \subseteq Nat
  /\ MidOf \in [Item -> Mid]
  /\ FolderOf \in [Item -> Folder]
  /\ NoFolder \notin Folder
  /\ Refused \subseteq Mid
  /\ MaxMishaps \in Nat
  /\ MaxEdits \in Nat

VARIABLES
  mailbox,   \* where each item is: still to come, there, or gone
  folder,    \* the configured folder
  link,      \* the stored delta link: a folder, and the items it has given
  raw,       \* raw_emails
  charges,   \* how many transactions derive from each mail
  poll,      \* the poll in flight
  mishaps,   \* how many failures so far
  edits,     \* how many edits so far
  excused,   \* history: mails without a charge that were given up
  overtaken  \* history: the stored link was fetched for older settings

vars == <<mailbox, folder, link, raw, charges, poll, mishaps, edits, excused, overtaken>>

Link == [folder : Folder \cup {NoFolder}, seen : SUBSET Item]

NoLink == [folder |-> NoFolder, seen |-> {}]

Poll ==
  [at : {"idle", "listing", "reading"},
   folder : Folder \cup {NoFolder},  \* as _read_poll_config found it
   cursor : Link,                    \* what the next delta link will stand for
   full : BOOLEAN,                   \* a sync from nothing
   ids : SUBSET Item,                \* listed, not fetched yet
   got : SUBSET Item,                \* fetched, not ingested yet
   moved : BOOLEAN]                  \* history: the settings changed meanwhile

Idle == [at |-> "idle", folder |-> NoFolder, cursor |-> NoLink, full |-> FALSE,
         ids |-> {}, got |-> {}, moved |-> FALSE]

Mids(S) == {MidOf[i] : i \in S}

Settled == {m \in Mid : charges[m] > 0} \cup excused

(* A mail that is given up; one that has its charge already loses nothing. *)
GivenUp(m) == IF charges[m] = 0 THEN excused \cup {m} ELSE excused

Mishap ==
  /\ mishaps < MaxMishaps
  /\ mishaps' = mishaps + 1

Edit ==
  /\ edits < MaxEdits
  /\ edits' = edits + 1

Init ==
  /\ mailbox = [i \in Item |-> "future"]
  /\ folder = NoFolder
  /\ link = NoLink
  /\ raw = {}
  /\ charges = [m \in Mid |-> 0]
  /\ poll = Idle
  /\ mishaps = 0
  /\ edits = 0
  /\ excused = {}
  /\ overtaken = FALSE

-----------------------------------------------------------------------------
(* The mailbox. *)

Deliver(i) ==
  /\ mailbox[i] = "future"
  /\ mailbox' = [mailbox EXCEPT ![i] = "there"]
  /\ UNCHANGED <<folder, link, raw, charges, poll, mishaps, edits, excused, overtaken>>

(* Deleted, or moved, which makes another item of the same mail. *)
Leave(i) ==
  /\ mailbox[i] = "there"
  /\ Edit
  /\ mailbox' = [mailbox EXCEPT ![i] = "gone"]
  /\ UNCHANGED <<folder, link, raw, charges, poll, mishaps, excused, overtaken>>

-----------------------------------------------------------------------------
(* poll_once *)

Full(f) == [folder |-> f, seen |-> {}]

(* _read_poll_config: with a link the folder is the link's, whatever is     *)
(* configured.                                                             *)
ReadConfig ==
  /\ poll.at = "idle"
  /\ folder # NoFolder
  /\ poll' = [Idle EXCEPT !.at = "listing",
                          !.folder = folder,
                          !.cursor = IF link = NoLink THEN Full(folder) ELSE link,
                          !.full = (link = NoLink)]
  /\ UNCHANGED <<mailbox, folder, link, raw, charges, mishaps, edits, excused, overtaken>>

Unseen ==
  {i \in Item : /\ mailbox[i] = "there"
                /\ FolderOf[i] = poll.cursor.folder
                /\ i \notin poll.cursor.seen}

(* A page that has a next link. *)
Page(i) ==
  /\ poll.at = "listing"
  /\ i \in Unseen
  /\ poll' = [poll EXCEPT !.ids = poll.ids \cup {i},
                          !.cursor = [poll.cursor EXCEPT !.seen = poll.cursor.seen \cup {i}]]
  /\ UNCHANGED <<mailbox, folder, link, raw, charges, mishaps, edits, excused, overtaken>>

(* The page that has the delta link. *)
LastPage ==
  /\ poll.at = "listing"
  /\ poll' = [poll EXCEPT !.at = "reading",
                          !.ids = poll.ids \cup Unseen,
                          !.cursor = [poll.cursor EXCEPT !.seen = poll.cursor.seen \cup Unseen]]
  /\ UNCHANGED <<mailbox, folder, link, raw, charges, mishaps, edits, excused, overtaken>>

(* 410 for a delta link: what was listed is dropped, the folder is listed anew. *)
Expired ==
  /\ poll.at = "listing"
  /\ ~poll.full
  /\ Mishap
  /\ poll' = [Idle EXCEPT !.at = "listing",
                          !.folder = poll.folder,
                          !.cursor = Full(poll.folder),
                          !.full = TRUE,
                          !.moved = poll.moved]
  /\ UNCHANGED <<mailbox, folder, link, raw, charges, edits, excused, overtaken>>

(* A GraphError: attempts used up, credential rejected, 410 on a full sync. *)
ListFails ==
  /\ poll.at = "listing"
  /\ Mishap
  /\ poll' = Idle
  /\ UNCHANGED <<mailbox, folder, link, raw, charges, edits, excused, overtaken>>

Fetch(i) ==
  /\ poll.at = "reading"
  /\ i \in poll.ids
  /\ mailbox[i] = "there"
  /\ poll' = [poll EXCEPT !.ids = poll.ids \ {i}, !.got = poll.got \cup {i}]
  /\ UNCHANGED <<mailbox, folder, link, raw, charges, mishaps, edits, excused, overtaken>>

(* get_message answers None: the item is gone, or the call fails. *)
FetchFails(i) ==
  /\ poll.at = "reading"
  /\ i \in poll.ids
  /\ \/ mailbox[i] = "gone" /\ UNCHANGED mishaps
     \/ Mishap
  /\ poll' = [poll EXCEPT !.ids = poll.ids \ {i}]
  /\ excused' = GivenUp(MidOf[i])
  /\ UNCHANGED <<mailbox, folder, link, raw, charges, edits, overtaken>>

(* ingest_batch takes the mails in the order received. *)
IsNext(i) ==
  /\ poll.at = "reading"
  /\ poll.ids = {}
  /\ i \in poll.got
  /\ \A j \in poll.got : i <= j

Taken(i) == [poll EXCEPT !.got = poll.got \ {i}]

(* One RawEmail and the charge that derives from it, in one session. *)
Recorded(m) ==
  /\ raw' = raw \cup {m}
  /\ charges' = [charges EXCEPT ![m] = charges[m] + 1]
  /\ excused' = excused \ {m}

(* Mutant: a mail is recorded however often it comes. *)
IngestAgain(i) ==
  /\ IsNext(i)
  /\ poll' = Taken(i)
  /\ Recorded(MidOf[i])
  /\ UNCHANGED <<mailbox, folder, link, mishaps, edits, overtaken>>

(* ingest_message *)
Ingest(i) ==
  /\ IsNext(i)
  /\ poll' = Taken(i)
  /\ \/ MidOf[i] \in raw /\ UNCHANGED <<raw, charges, excused>>
     \/ /\ MidOf[i] \in Refused \ raw
        /\ excused' = GivenUp(MidOf[i])
        /\ UNCHANGED <<raw, charges>>
     \/ MidOf[i] \notin raw \cup Refused /\ Recorded(MidOf[i])
  /\ UNCHANGED <<mailbox, folder, link, mishaps, edits, overtaken>>

(* An exception in the session of one mail: rolled back, logged, skipped. *)
IngestFails(i) ==
  /\ IsNext(i)
  /\ Mishap
  /\ poll' = Taken(i)
  /\ excused' = GivenUp(MidOf[i])
  /\ UNCHANGED <<mailbox, folder, link, raw, charges, edits, overtaken>>

(* Mutant: the link is saved before the batch is ingested. *)
SaveEarly ==
  /\ poll.at = "reading"
  /\ poll.ids = {}
  /\ link' = poll.cursor
  /\ poll' = IF poll.got = {} THEN Idle ELSE poll
  /\ overtaken' = (poll.moved \/ (overtaken /\ ~poll.full))
  /\ UNCHANGED <<mailbox, folder, raw, charges, mishaps, edits, excused>>

(* _save_poll_result *)
Save ==
  /\ poll.at = "reading"
  /\ poll.ids = {}
  /\ poll.got = {}
  /\ link' = poll.cursor
  /\ poll' = Idle
  /\ overtaken' = (poll.moved \/ (overtaken /\ ~poll.full))
  /\ UNCHANGED <<mailbox, folder, raw, charges, mishaps, edits, excused>>

(* Another exception in the poll, or the end of the process. *)
PollLost ==
  /\ poll.at # "idle"
  /\ Mishap
  /\ poll' = Idle
  /\ UNCHANGED <<mailbox, folder, link, raw, charges, edits, excused, overtaken>>

-----------------------------------------------------------------------------
(* The web UI. *)

Noticed == [poll EXCEPT !.moved = (poll.at # "idle")]

(* The first configuration does not count as an edit. *)
Reconfigure == IF folder = NoFolder THEN UNCHANGED edits ELSE Edit

(* Mutant: a folder change that keeps the link. *)
SaveSettingsOnly(f) ==
  /\ f # folder
  /\ Reconfigure
  /\ folder' = f
  /\ poll' = Noticed
  /\ UNCHANGED <<mailbox, link, raw, charges, mishaps, excused, overtaken>>

(* settings_save: a changed folder empties the stored link. *)
SaveSettings(f) ==
  /\ f # folder
  /\ Reconfigure
  /\ folder' = f
  /\ link' = NoLink
  /\ poll' = Noticed
  /\ overtaken' = FALSE
  /\ UNCHANGED <<mailbox, raw, charges, mishaps, excused>>

(* simulate_email: an internet_message_id of its own. *)
SimulateEmail(m) ==
  /\ m \notin Mids(Item) \cup raw \cup Refused
  /\ Edit
  /\ Recorded(m)
  /\ UNCHANGED <<mailbox, folder, link, poll, mishaps, overtaken>>

(* Mutant: a charge that is gone is deleted once more. *)
DeleteAgain(m) ==
  /\ Edit
  /\ charges' = [charges EXCEPT ![m] = charges[m] - 1]
  /\ raw' = raw \ {m}
  /\ excused' = excused \cup {m}
  /\ UNCHANGED <<mailbox, folder, link, poll, mishaps, overtaken>>

(* delete_transaction takes the mail with it. *)
DeleteTransaction(m) ==
  /\ charges[m] > 0
  /\ Edit
  /\ charges' = [charges EXCEPT ![m] = charges[m] - 1]
  /\ raw' = IF charges[m] = 1 THEN raw \ {m} ELSE raw
  /\ excused' = IF charges[m] = 1 THEN excused \cup {m} ELSE excused
  /\ UNCHANGED <<mailbox, folder, link, poll, mishaps, overtaken>>

-----------------------------------------------------------------------------
Poller ==
  \/ ReadConfig \/ LastPage \/ Expired \/ ListFails \/ Save \/ PollLost
  \/ \E i \in Item : Page(i) \/ Fetch(i) \/ FetchFails(i) \/ Ingest(i) \/ IngestFails(i)

Hand ==
  \/ \E f \in Folder : SaveSettings(f)
  \/ \E m \in Mid : SimulateEmail(m) \/ DeleteTransaction(m)

Next ==
  \/ Poller
  \/ Hand
  \/ \E i \in Item : Deliver(i) \/ Leave(i)

(* poll_forever never gives up; calls return or fail; threads run to their  *)
(* commit.                                                                 *)
Fairness ==
  /\ WF_vars(ReadConfig)
  /\ WF_vars(LastPage)
  /\ \A i \in Item : WF_vars(Fetch(i) \/ FetchFails(i))
  /\ \A i \in Item : WF_vars(Ingest(i) \/ IngestFails(i))
  /\ WF_vars(Save)

Spec == Init /\ [][Next]_vars

LiveSpec == Spec /\ Fairness

-----------------------------------------------------------------------------
(* Every variable has its type. *)
TypeOK ==
  /\ mailbox \in [Item -> {"future", "there", "gone"}]
  /\ folder \in Folder \cup {NoFolder}
  /\ link \in Link
  /\ raw \subseteq Mid
  /\ charges \in [Mid -> Nat]
  /\ poll \in Poll
  /\ mishaps \in 0..MaxMishaps
  /\ edits \in 0..MaxEdits
  /\ excused \subseteq Mid
  /\ overtaken \in BOOLEAN

(* A mail is deduplicated exactly while a charge derives from it: none is    *)
(* shut out by a RawEmail that has no charge, and none has two charges,      *)
(* however often pages are delivered again and charges deleted.              *)
OneChargePerMail ==
  \A m \in Mid : charges[m] = IF m \in raw THEN 1 ELSE 0

(* What the stored link has passed is on record, was deleted by hand, is      *)
(* refused by the envelope filter, or was given up by one of the two errors   *)
(* that a poll survives: get_message that answers None, and an exception in   *)
(* the session of one mail. Nothing else between a page and its link loses a  *)
(* mail: no end of the process, expired link, repeated page, or changed       *)
(* folder. (NothingIsDropped is about those two.)                             *)
CursorCoversSettled == \A i \in link.seen : MidOf[i] \in Settled

(* The stored link belongs to the configured folder, so polls read that      *)
(* folder; unless a poll begun under older settings saved its link after     *)
(* the settings did.                                                         *)
LinkFollowsSettings ==
  link = NoLink \/ link.folder = folder \/ overtaken

(* What settings_save says: "Changing the mailbox or folder invalidates the  *)
(* delta cursor", so no stored link belongs to another folder.              *)
LinkIsOfFolder == link = NoLink \/ link.folder = folder

(* What ingest.py says: "Never drop a charge", and the README, "Nothing is    *)
(* ever dropped": a mail that the stored link passes while it lies in the     *)
(* folder, and that the filter accepts, has its charge. (Of runs in which     *)
(* nobody deletes one.)                                                       *)
NothingIsDropped ==
  [][\A i \in link'.seen \ link.seen :
       mailbox[i] = "there" /\ MidOf[i] \notin Refused => charges[MidOf[i]] > 0]_vars

(* A mail that lies in the configured folder is settled in the end, unless   *)
(* it leaves the folder, the settings change, or the link was overtaken.     *)
EveryMailSettles ==
  \A i \in Item :
    mailbox[i] = "there" /\ FolderOf[i] = folder ~>
      \/ MidOf[i] \in Settled
      \/ mailbox[i] = "gone"
      \/ FolderOf[i] # folder
      \/ overtaken

(* Intake implements Ledger: the link acknowledges what it has passed.       *)
Abstract == INSTANCE Ledger WITH acknowledged <- Mids(link.seen)

LedgerKept == Abstract!Spec
=============================================================================
