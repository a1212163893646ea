---------------------------- MODULE Intake_proofs ----------------------------
(***************************************************************************)
(* Type correctness and safety of Intake, and that it implements Ledger,   *)
(* for all values of the constants.                                        *)
(***************************************************************************)
EXTENDS Intake, TLAPS

(* What the poll's next link will pass is settled, or still in its hands.   *)
PollCovers ==
  poll.at # "idle" =>
    \A i \in poll.cursor.seen : MidOf[i] \in Settled \/ i \in poll.ids \cup poll.got

(* Whose folder a poll reads, as long as nobody changed the settings.       *)
PollFollows ==
  poll.at # "idle" =>
    /\ poll.moved \/ poll.folder = folder
    /\ poll.moved \/ (overtaken /\ ~poll.full) \/ poll.cursor.folder = folder

IInv ==
  /\ TypeOK
  /\ OneChargePerMail
  /\ CursorCoversSettled
  /\ PollCovers
  /\ LinkFollowsSettings
  /\ PollFollows

LEMMA NoLinkType == NoLink \in Link
  BY DEF NoLink, Link

LEMMA IdleType == Idle \in Poll
  BY NoLinkType DEF Idle, Poll

LEMMA InitIInv == Init => IInv
<1> SUFFICES ASSUME Init PROVE IInv
  OBVIOUS
<1>1. TypeOK
  <2>1. mishaps \in 0..MaxMishaps /\ edits \in 0..MaxEdits
    BY IntakeAssumption DEF Init
  <2>2. charges \in [Mid -> Nat] /\ mailbox \in [Item -> {"future", "there", "gone"}]
    BY DEF Init
  <2>. QED
    BY <2>1, <2>2, NoLinkType, IdleType DEF Init, TypeOK
<1>2. OneChargePerMail
  BY DEF Init, OneChargePerMail
<1>3. CursorCoversSettled /\ LinkFollowsSettings
  BY DEF Init, CursorCoversSettled, LinkFollowsSettings, NoLink
<1>4. PollCovers /\ PollFollows
  BY DEF Init, PollCovers, PollFollows, Idle
<1>. QED
  BY <1>1, <1>2, <1>3, <1>4 DEF IInv

(* The types alone are inductive once a charge is deleted only if it is there. *)
LEMMA TypeStep ==
  ASSUME TypeOK, [Next]_vars
  PROVE  TypeOK'
<1> USE IntakeAssumption DEF TypeOK, Poll, Link
<1>1. CASE ReadConfig
  BY <1>1 DEF ReadConfig, Idle, Full
<1>2. CASE LastPage
  BY <1>2 DEF LastPage, Unseen
<1>3. CASE Expired
  <2>1. [folder |-> poll.folder, seen |-> {}] \in Link
    OBVIOUS
  <2>2. poll' \in Poll
    BY <1>3, <2>1 DEF Expired, Idle, Full
  <2>. QED
    BY <1>3, <2>2 DEF Expired, Mishap
<1>4. CASE ListFails \/ PollLost
  BY <1>4, IdleType DEF ListFails, PollLost, Mishap
<1>5. CASE Save
  BY <1>5, IdleType DEF Save
<1>6. ASSUME NEW i \in Item, Page(i) PROVE TypeOK'
  BY <1>6 DEF Page, Unseen
<1>7. ASSUME NEW i \in Item, Fetch(i) PROVE TypeOK'
  BY <1>7 DEF Fetch
<1>8. ASSUME NEW i \in Item, FetchFails(i) PROVE TypeOK'
  BY <1>8 DEF FetchFails, GivenUp, Mishap
<1>9. ASSUME NEW i \in Item, Ingest(i) PROVE TypeOK'
  BY <1>9 DEF Ingest, Taken, GivenUp, Recorded
<1>10. ASSUME NEW i \in Item, IngestFails(i) PROVE TypeOK'
  BY <1>10 DEF IngestFails, Taken, GivenUp, Mishap
<1>11. ASSUME NEW f \in Folder, SaveSettings(f) PROVE TypeOK'
  <2>1. poll' \in Poll
    BY <1>11 DEF SaveSettings, Noticed
  <2>2. edits' \in 0..MaxEdits
    BY <1>11 DEF SaveSettings, Reconfigure, Edit
  <2>. QED
    BY <1>11, <2>1, <2>2, NoLinkType DEF SaveSettings
<1>12. ASSUME NEW m \in Mid, SimulateEmail(m) PROVE TypeOK'
  BY <1>12 DEF SimulateEmail, Recorded, Edit
<1>13. ASSUME NEW m \in Mid, DeleteTransaction(m) PROVE TypeOK'
  BY <1>13 DEF DeleteTransaction, Edit
<1>14. ASSUME NEW i \in Item, Deliver(i) \/ Leave(i) PROVE TypeOK'
  BY <1>14 DEF Deliver, Leave, Edit
<1>15. CASE UNCHANGED vars
  BY <1>15 DEF vars
<1>. QED
  BY <1>1, <1>2, <1>3, <1>4, <1>5, <1>6, <1>7, <1>8, <1>9, <1>10, <1>11, <1>12, <1>13, <1>14, <1>15
     DEF Next, Poller, Hand

-----------------------------------------------------------------------------
(* What a step does to the mails that are settled, and to their charges.    *)

LEMMA StepSettles ==
  ASSUME TypeOK, OneChargePerMail, [Next]_vars
  PROVE  /\ Settled \subseteq Settled'
         /\ OneChargePerMail'
<1> USE DEF TypeOK, OneChargePerMail, Settled
<1>1. ASSUME UNCHANGED <<charges, raw, excused>>
      PROVE  Settled \subseteq Settled' /\ OneChargePerMail'
  BY <1>1
<1>2. ASSUME NEW m \in Mid, excused' = GivenUp(m), UNCHANGED <<charges, raw>>
      PROVE  Settled \subseteq Settled' /\ OneChargePerMail'
  BY <1>2 DEF GivenUp
<1>3. ASSUME NEW m \in Mid \ raw, Recorded(m)
      PROVE  Settled \subseteq Settled' /\ OneChargePerMail'
  <2>1. charges[m] = 0 /\ charges'[m] = 1
    BY <1>3 DEF Recorded
  <2>2. \A n \in Mid \ {m} : charges'[n] = charges[n]
    BY <1>3 DEF Recorded
  <2>. QED
    BY <1>3, <2>1, <2>2 DEF Recorded
<1>4. ASSUME NEW i \in Item, FetchFails(i) \/ IngestFails(i)
      PROVE  Settled \subseteq Settled' /\ OneChargePerMail'
  BY <1>4, <1>2, IntakeAssumption DEF FetchFails, IngestFails
<1>5. ASSUME NEW i \in Item, Ingest(i)
      PROVE  Settled \subseteq Settled' /\ OneChargePerMail'
  BY <1>5, <1>1, <1>2, <1>3, IntakeAssumption DEF Ingest
<1>6. ASSUME NEW m \in Mid, SimulateEmail(m)
      PROVE  Settled \subseteq Settled' /\ OneChargePerMail'
  BY <1>6, <1>3 DEF SimulateEmail
<1>7. ASSUME NEW m \in Mid, DeleteTransaction(m)
      PROVE  Settled \subseteq Settled' /\ OneChargePerMail'
  <2>1. charges[m] = 1 /\ charges'[m] = 0
    BY <1>7 DEF DeleteTransaction
  <2>2. \A n \in Mid \ {m} : charges'[n] = charges[n]
    BY <1>7 DEF DeleteTransaction
  <2>. QED
    BY <1>7, <2>1, <2>2 DEF DeleteTransaction
<1>. QED
  BY <1>1, <1>4, <1>5, <1>6, <1>7
     DEF Next, Poller, Hand, ReadConfig, LastPage, Expired, ListFails, Save, PollLost, Page,
         Fetch, SaveSettings, Deliver, Leave, vars

(* What one mail's failure or ingest does to it. *)
LEMMA MailIsSettled ==
  ASSUME TypeOK, OneChargePerMail, NEW i \in Item, FetchFails(i) \/ Ingest(i) \/ IngestFails(i)
  PROVE  MidOf[i] \in Settled'
<1> USE IntakeAssumption DEF TypeOK, OneChargePerMail, Settled
<1>1. CASE FetchFails(i) \/ IngestFails(i)
  BY <1>1 DEF FetchFails, IngestFails, GivenUp
<1>2. CASE Ingest(i)
  BY <1>2 DEF Ingest, GivenUp, Recorded
<1>. QED
  BY <1>1, <1>2

(* The cursors pass only what is settled. *)
LEMMA StepCovers ==
  ASSUME TypeOK, OneChargePerMail, CursorCoversSettled, PollCovers, [Next]_vars
  PROVE  CursorCoversSettled' /\ PollCovers'
<1> USE DEF CursorCoversSettled, PollCovers
<1>0. Settled \subseteq Settled'
  BY StepSettles
<1>1. ASSUME UNCHANGED link, UNCHANGED poll \/ poll' = Idle
      PROVE  CursorCoversSettled' /\ PollCovers'
  BY <1>0, <1>1 DEF Idle
<1>2. CASE ReadConfig
  BY <1>0, <1>2 DEF ReadConfig, Full, Idle
<1>3. CASE LastPage
  BY <1>0, <1>3 DEF LastPage, TypeOK, Poll, Link
<1>4. CASE Expired
  BY <1>0, <1>4 DEF Expired, Full, Idle
<1>5. CASE Save
  BY <1>0, <1>5 DEF Save, Idle
<1>6. ASSUME NEW i \in Item, Page(i) PROVE CursorCoversSettled' /\ PollCovers'
  BY <1>0, <1>6 DEF Page, TypeOK, Poll, Link
<1>7. ASSUME NEW i \in Item, Fetch(i) PROVE CursorCoversSettled' /\ PollCovers'
  BY <1>0, <1>7 DEF Fetch, TypeOK, Poll, Link
<1>8. ASSUME NEW i \in Item, FetchFails(i) PROVE CursorCoversSettled' /\ PollCovers'
  BY <1>0, <1>8, MailIsSettled DEF FetchFails, TypeOK, Poll, Link
<1>9. ASSUME NEW i \in Item, Ingest(i) \/ IngestFails(i) PROVE CursorCoversSettled' /\ PollCovers'
  BY <1>0, <1>9, MailIsSettled DEF Ingest, IngestFails, Taken, TypeOK, Poll, Link
<1>10. ASSUME NEW f \in Folder, SaveSettings(f) PROVE CursorCoversSettled' /\ PollCovers'
  BY <1>0, <1>10 DEF SaveSettings, Noticed, NoLink, TypeOK, Poll
<1>. QED
  BY <1>1, <1>2, <1>3, <1>4, <1>5, <1>6, <1>7, <1>8, <1>9, <1>10
     DEF Next, Poller, Hand, ListFails, PollLost, SimulateEmail, DeleteTransaction, Deliver, Leave, vars

(* Which folder the link and the poll are about. *)
LEMMA StepFollows ==
  ASSUME TypeOK, LinkFollowsSettings, PollFollows, [Next]_vars
  PROVE  LinkFollowsSettings' /\ PollFollows'
<1> USE DEF LinkFollowsSettings, PollFollows
<1>1. ASSUME UNCHANGED <<link, folder, overtaken>>, UNCHANGED poll \/ poll' = Idle
      PROVE  LinkFollowsSettings' /\ PollFollows'
  BY <1>1 DEF Idle
<1>2. CASE ReadConfig
  BY <1>2 DEF ReadConfig, Full, Idle
<1>3. CASE LastPage
  BY <1>3 DEF LastPage, TypeOK, Poll, Link
<1>4. CASE Expired
  BY <1>4 DEF Expired, Full, Idle
<1>5. CASE Save
  BY <1>5 DEF Save, Idle
<1>6. ASSUME NEW i \in Item, Page(i) PROVE LinkFollowsSettings' /\ PollFollows'
  BY <1>6 DEF Page, TypeOK, Poll, Link
<1>7. ASSUME NEW i \in Item, Fetch(i) \/ FetchFails(i) PROVE LinkFollowsSettings' /\ PollFollows'
  BY <1>7 DEF Fetch, FetchFails, TypeOK, Poll, Link
<1>8. ASSUME NEW i \in Item, Ingest(i) \/ IngestFails(i) PROVE LinkFollowsSettings' /\ PollFollows'
  BY <1>8 DEF Ingest, IngestFails, Taken, TypeOK, Poll, Link
<1>9. ASSUME NEW f \in Folder, SaveSettings(f) PROVE LinkFollowsSettings' /\ PollFollows'
  BY <1>9 DEF SaveSettings, Noticed, TypeOK, Poll
<1>. QED
  BY <1>1, <1>2, <1>3, <1>4, <1>5, <1>6, <1>7, <1>8, <1>9
     DEF Next, Poller, Hand, ListFails, PollLost, SimulateEmail, DeleteTransaction, Deliver, Leave, vars

LEMMA Inductive == Spec => []IInv
<1>1. IInv /\ [Next]_vars => IInv'
  BY TypeStep, StepSettles, StepCovers, StepFollows DEF IInv
<1>. QED
  BY <1>1, InitIInv, PTL DEF Spec

(* Every variable of the poller keeps its type. *)
THEOREM TypeCorrect == Spec => []TypeOK
  BY Inductive, PTL DEF IInv

(* ingest_message and delete_transaction keep raw_emails and transactions in *)
(* step: a mail is deduplicated exactly while it has its one charge.         *)
THEOREM OneCharge == Spec => []OneChargePerMail
  BY Inductive, PTL DEF IInv

(* The delta link never passes a mail that is neither on record nor given up *)
(* by a failure, the filter or a person, whatever crashes between pages,     *)
(* fetches, sessions and _save_poll_result.                                  *)
THEOREM CursorIsSafe == Spec => []CursorCoversSettled
  BY Inductive, PTL DEF IInv

(* The link is of the configured folder, unless a poll in flight saved its   *)
(* link after settings_save cleared it.                                      *)
THEOREM LinkFollows == Spec => []LinkFollowsSettings
  BY Inductive, PTL DEF IInv

-----------------------------------------------------------------------------
(* The refinement of Ledger. *)

LEMMA SettledIsAbstract == TypeOK => Settled = Abstract!Settled
  BY DEF Settled, Abstract!Settled

(* The three ways a step is seen by Ledger, apart from an acknowledgement.  *)
LEMMA StepImplements ==
  ASSUME IInv, [Next]_vars
  PROVE  [Abstract!Next]_<<charges, excused, Mids(link.seen)>>
<1> USE IntakeAssumption DEF IInv, TypeOK, Abstract!Next
<1>1. ASSUME UNCHANGED <<charges, excused, link>>
      PROVE  [Abstract!Next]_<<charges, excused, Mids(link.seen)>>
  BY <1>1 DEF Mids
<1>2. ASSUME NEW m \in Mid, excused' = GivenUp(m), UNCHANGED <<charges, link>>
      PROVE  [Abstract!Next]_<<charges, excused, Mids(link.seen)>>
  BY <1>2 DEF GivenUp, Abstract!Excuse, Mids
<1>3. ASSUME NEW m \in Mid \ raw, Recorded(m), UNCHANGED link
      PROVE  [Abstract!Next]_<<charges, excused, Mids(link.seen)>>
  <2>1. charges[m] = 0
    BY DEF OneChargePerMail
  <2>2. Abstract!Record(m)
    BY <1>3, <2>1 DEF Recorded, Abstract!Record, Mids
  <2>. QED
    BY <2>2
<1>4. CASE Save
  <2>1. Mids(poll.cursor.seen) \subseteq Settled
    BY <1>4 DEF Save, PollCovers, Mids
  <2>2. Abstract!Acknowledge(Mids(poll.cursor.seen))
    BY <1>4, <2>1, SettledIsAbstract DEF Save, Abstract!Acknowledge
  <2>3. Mids(poll.cursor.seen) \in SUBSET Mid
    BY DEF Mids, Poll, Link
  <2>. QED
    BY <2>2, <2>3
<1>5. ASSUME NEW i \in Item, FetchFails(i) \/ IngestFails(i)
      PROVE  [Abstract!Next]_<<charges, excused, Mids(link.seen)>>
  BY <1>5, <1>2 DEF FetchFails, IngestFails
<1>6. ASSUME NEW i \in Item, Ingest(i)
      PROVE  [Abstract!Next]_<<charges, excused, Mids(link.seen)>>
  BY <1>6, <1>1, <1>2, <1>3 DEF Ingest
<1>7. ASSUME NEW f \in Folder, SaveSettings(f)
      PROVE  [Abstract!Next]_<<charges, excused, Mids(link.seen)>>
  <2>1. Mids(link.seen)' = {}
    BY <1>7 DEF SaveSettings, NoLink, Mids
  <2>2. Abstract!Acknowledge({})
    BY <1>7, <2>1 DEF SaveSettings, Abstract!Acknowledge
  <2>. QED
    BY <2>2
<1>8. ASSUME NEW m \in Mid, SimulateEmail(m)
      PROVE  [Abstract!Next]_<<charges, excused, Mids(link.seen)>>
  BY <1>8, <1>3 DEF SimulateEmail
<1>9. ASSUME NEW m \in Mid, DeleteTransaction(m)
      PROVE  [Abstract!Next]_<<charges, excused, Mids(link.seen)>>
  <2>1. charges[m] = 1
    BY <1>9 DEF DeleteTransaction, OneChargePerMail
  <2>2. Abstract!Forget(m)
    BY <1>9, <2>1 DEF DeleteTransaction, Abstract!Forget, Mids
  <2>. QED
    BY <2>2
<1>. QED
  BY <1>1, <1>4, <1>5, <1>6, <1>7, <1>8, <1>9
     DEF Next, Poller, Hand, ReadConfig, LastPage, Expired, ListFails, PollLost, Page, Fetch,
         Deliver, Leave, vars

(* The poller implements Ledger: seen from the database, every mail is       *)
(* recorded, given up or forgotten in one step, and acknowledged only then.  *)
THEOREM ImplementsLedger == Spec => LedgerKept
<1>1. Init => Abstract!Init
  BY DEF Init, Abstract!Init, NoLink, Mids
<1>2. IInv /\ [Next]_vars => [Abstract!Next]_(Abstract!vars)
  BY StepImplements DEF Abstract!vars
<1>. QED
  BY <1>1, <1>2, Inductive, PTL DEF Spec, LedgerKept, Abstract!Spec
=============================================================================
