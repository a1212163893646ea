---------------------------- MODULE Charge_proofs ----------------------------
(***************************************************************************)
(* Type correctness of Charge, that a charge which asks for a receipt is   *)
(* owed its announcement, and that a reply finds the charge announced, for *)
(* all values of the constants.                                            *)
(***************************************************************************)
EXTENDS Charge, TLAPS

(* A rowid in use has an identity, and a job has its charge. *)
JobsHaveCharge ==
  /\ \A t \in Tx : charge[t].status # "absent" => charge[t].id # 0
  /\ \A k \in Ask : ask[k] # "none" => /\ charge[k[1]].status # "absent"
                                       /\ k[2] <= charge[k[1]].resends

(* A run that kept its row is about the charge that is there. *)
RunIsAbout ==
  \A k \in Ask :
    /\ sending[k].at \in {"loaded", "sent"} =>
         /\ sending[k].about # 0
         /\ ask[k] = "running" => charge[k[1]].id = sending[k].about
    /\ sending[k].at = "sent" =>
         /\ sending[k].msg \in Msg
         /\ message[sending[k].msg].about = sending[k].about

RecordsHaveCharge ==
  \A m \in Msg : message[m].tx # 0 => charge[message[m].tx].status # "absent"

(* A run that ends well leaves a message, or a job of a later round. *)
RunIsCovered ==
  \A k \in Ask :
    /\ ask[k] = "running"
    /\ sending[k].at = "ok"
    /\ charge[k[1]].status \in Asking
    /\ charge[k[1]].msg = 0
    => \/ charge[k[1]].id \in robbed \cup reopened
       \/ \E j \in AsksOf(k[1]) : j[2] > k[2] /\ ask[j] # "none"

IInv ==
  /\ TypeOK
  /\ JobsHaveCharge
  /\ RunIsAbout
  /\ RecordsHaveCharge
  /\ ReplyFindsItsCharge
  /\ RunIsCovered
  /\ AskIsOwed

LEMMA NoChargeType == NoCharge \in Charge
  BY ChargeAssumption DEF NoCharge, Charge, Status

LEMMA NoRunType == NoRun \in Run
  BY ChargeAssumption DEF NoRun, Run

LEMMA NoFinalRunType == NoFinalRun \in FinalRun
  BY ChargeAssumption DEF NoFinalRun, FinalRun

LEMMA AskParts ==
  ASSUME NEW k \in Ask
  PROVE  k[1] \in Tx /\ k[2] \in 0..MaxResends /\ k = <<k[1], k[2]>>
  BY DEF Ask

LEMMA FinalParts ==
  ASSUME NEW k \in Final
  PROVE  k[1] \in Tx
  BY DEF Final

LEMMA InitIInv == Init => IInv
<1> SUFFICES ASSUME Init PROVE IInv
  OBVIOUS
<1>1. TypeOK
  <2>1. births \in 0..MaxBirths /\ mishaps \in 0..MaxMishaps
    BY ChargeAssumption DEF Init
  <2>2. message \in [Msg -> Message]
    BY ChargeAssumption DEF Init, NoMessage, Message
  <2>3. ask \in [Ask -> JobState] /\ takedown \in [Msg -> JobState] /\ final \in [Final -> JobState]
    BY DEF Init, JobState
  <2>. QED
    BY <2>1, <2>2, <2>3, NoChargeType, NoRunType, NoFinalRunType DEF Init, TypeOK
<1>2. JobsHaveCharge /\ AskIsOwed
  BY DEF Init, JobsHaveCharge, AskIsOwed, NoCharge, Asking
<1>3. RunIsAbout /\ RunIsCovered
  BY DEF Init, RunIsAbout, RunIsCovered, NoRun
<1>4. RecordsHaveCharge /\ ReplyFindsItsCharge
  BY DEF Init, RecordsHaveCharge, ReplyFindsItsCharge, NoMessage
<1>. QED
  BY <1>1, <1>2, <1>3, <1>4 DEF IInv

-----------------------------------------------------------------------------
(* Steps that only change the status of a charge, and those of finalize.     *)
Restatus(t) ==
  \/ AttachByHand(t) \/ Detach(t) \/ Reparse(t)
  \/ \E n \in 1..MaxLinks : Link(t, n)
  \/ \E status \in Status \ {"absent", "silenced"} : SetStatus(t, status)

Finalizer(k) ==
  LoadFinal(k) \/ Clear(k) \/ FinalRaises(k) \/ FinishFinal(k) \/ FinishFinalWithoutRow(k)

LEMMA NextCases ==
  ASSUME [Next]_vars
  PROVE  \/ World
         \/ \E t \in Tx : Restatus(t) \/ Resend(t) \/ DeleteTransaction(t)
         \/ \E S \in SUBSET Tx : Silence(S)
         \/ ReviveDead
         \/ \E S \in SUBSET Ask, F \in SUBSET Final : Claim(S, F)
         \/ \E k \in Ask : \/ Load(k) \/ SendRaises(k) \/ Record(k) \/ RecordRaises(k)
                           \/ Finish(k) \/ FinishWithoutRow(k)
                           \/ \E m \in Msg : Send(k, m)
         \/ \E k \in Final : Finalizer(k)
         \/ \E m \in Msg : TakeDown(m) \/ TakeDownFails(m)
         \/ UNCHANGED vars
<1>1. CASE Hand
  BY <1>1 DEF Hand, Restatus
<1>2. CASE Worker
  BY <1>2 DEF Worker, Finalizer
<1>. QED
  BY <1>1, <1>2 DEF Next

LEMMA RestatusFrame ==
  ASSUME TypeOK, NEW t \in Tx, Restatus(t)
  PROVE  /\ UNCHANGED <<message, ask, sending, takedown, finalizing, births, resent, stray, late, refused, robbed>>
         /\ reopened \subseteq reopened'
         /\ \A u \in Tx \ {t} : charge'[u] = charge[u]
         /\ \A u \in Tx : /\ charge'[u].id = charge[u].id /\ charge'[u].msg = charge[u].msg
                          /\ charge'[u].resends = charge[u].resends
                          /\ charge'[u].status = "absent" <=> charge[u].status = "absent"
                          /\ charge'[u].status = "silenced" => charge[u].status = "silenced"
                          /\ charge'[u].status \in Asking =>
                               charge[u].status \in Asking \/ charge[u].id \in reopened'
<1> DEFINE To(status) == charge' = [charge EXCEPT ![t].status = status]
           G == \A u \in Tx : /\ charge'[u].id = charge[u].id /\ charge'[u].msg = charge[u].msg
                              /\ charge'[u].resends = charge[u].resends
                              /\ charge'[u].status = "absent" <=> charge[u].status = "absent"
                              /\ charge'[u].status = "silenced" => charge[u].status = "silenced"
                              /\ charge'[u].status \in Asking =>
                                   charge[u].status \in Asking \/ charge[u].id \in reopened'
<1>1. /\ UNCHANGED <<message, ask, sending, takedown, finalizing, births, resent, stray, late, refused, robbed>>
      /\ reopened \subseteq reopened'
      /\ \A u \in Tx \ {t} : charge'[u] = charge[u]
  BY DEF Restatus, AttachByHand, Detach, Reparse, Link, SetStatus, finals, TypeOK
<1>2. ASSUME NEW status \in Status \ {"absent", "silenced"}, To(status), charge[t].status # "absent",
             status \in Asking => charge[t].status \in Asking \/ charge[t].id \in reopened'
      PROVE  G
  <2>1. charge'[t] = [charge[t] EXCEPT !.status = status] /\ charge[t] \in Charge
    BY <1>2 DEF TypeOK
  <2>2. /\ charge'[t].id = charge[t].id /\ charge'[t].msg = charge[t].msg
        /\ charge'[t].resends = charge[t].resends /\ charge'[t].status = status
    BY <2>1 DEF Charge
  <2>. QED
    BY <1>1, <1>2, <2>2
<1>3. CASE AttachByHand(t)
  <2>1. To("attached") /\ charge[t].status # "absent"
    BY <1>3 DEF AttachByHand, Asking
  <2>2. "attached" \in Status \ {"absent", "silenced"} /\ "attached" \notin Asking
    BY DEF Asking, Status
  <2>. QED
    BY <1>1, <1>2, <2>1, <2>2
<1>4. CASE Detach(t)
  BY <1>2, <1>4 DEF Detach, Asking, Status
<1>5. CASE Reparse(t)
  <2>1. To("notified") \/ To("new")
    BY <1>5 DEF Reparse
  <2>2. charge[t].status \in Asking /\ charge[t].status # "absent"
    BY <1>5 DEF Reparse, Asking
  <2>3. "notified" \in Status \ {"absent", "silenced"} /\ "new" \in Status \ {"absent", "silenced"}
    BY DEF Status
  <2>. QED
    BY <1>1, <1>2, <2>1, <2>2, <2>3
<1>6. ASSUME NEW n \in 1..MaxLinks, Link(t, n) PROVE G
  BY <1>2, <1>6 DEF Link, Present, Asking, Status
<1>7. ASSUME NEW status \in Status \ {"absent", "silenced"}, SetStatus(t, status) PROVE G
  BY <1>2, <1>7 DEF SetStatus, Present
<1>. QED
  BY <1>1, <1>3, <1>4, <1>5, <1>6, <1>7 DEF Restatus

(* A run without a row robs an asking charge, or gives up a deletion.        *)
LEMMA ClosesFrame ==
  ASSUME TypeOK, ClosesAnother
  PROVE  /\ ask' \in [Ask -> JobState] /\ final' \in [Final -> JobState] /\ takedown' \in [Msg -> JobState]
         /\ robbed \subseteq robbed' /\ robbed' \subseteq 0..MaxBirths
         /\ refused \subseteq refused' /\ refused' \subseteq 0..MaxMsg
         /\ \A k \in Ask : \/ ask'[k] = ask[k]
                           \/ ask[k] = "pending" /\ ask'[k] = "none" /\ charge[k[1]].id \in robbed'
         /\ \A k \in Final : final'[k] = final[k] \/ (final[k] = "pending" /\ final'[k] = "none")
         /\ \A m \in Msg : \/ takedown'[m] = takedown[m]
                           \/ takedown[m] = "pending" /\ takedown'[m] = "none" /\ m \in refused'
<1> USE DEF TypeOK
<1>1. \A k \in Ask : charge[k[1]].id \in 0..MaxBirths
  BY AskParts DEF Charge
<1>2. "none" \in JobState
  BY DEF JobState
<1>3. CASE UNCHANGED <<ask, takedown, final, refused, robbed>>
  BY <1>3
<1>4. ASSUME NEW j \in Ask, ask[j] = "pending", ask' = [ask EXCEPT ![j] = "none"],
             robbed' = robbed \cup {charge[j[1]].id}, UNCHANGED <<takedown, final, refused>>
      PROVE  /\ ask' \in [Ask -> JobState] /\ robbed \subseteq robbed' /\ robbed' \subseteq 0..MaxBirths
             /\ \A k \in Ask : \/ ask'[k] = ask[k]
                               \/ ask[k] = "pending" /\ ask'[k] = "none" /\ charge[k[1]].id \in robbed'
  BY <1>1, <1>2, <1>4
<1>5. ASSUME NEW j \in Final, final[j] = "pending", final' = [final EXCEPT ![j] = "none"]
      PROVE  /\ final' \in [Final -> JobState]
             /\ \A k \in Final : final'[k] = final[k] \/ (final[k] = "pending" /\ final'[k] = "none")
  BY <1>2, <1>5
<1>6. ASSUME NEW n \in Msg, takedown[n] = "pending", takedown' = [takedown EXCEPT ![n] = "none"],
             refused' = refused \cup {n}
      PROVE  /\ takedown' \in [Msg -> JobState] /\ refused \subseteq refused' /\ refused' \subseteq 0..MaxMsg
             /\ \A m \in Msg : \/ takedown'[m] = takedown[m]
                               \/ takedown[m] = "pending" /\ takedown'[m] = "none" /\ m \in refused'
  BY <1>2, <1>6 DEF Msg
<1>. QED
  BY <1>3, <1>4, <1>5, <1>6 DEF ClosesAnother

LEMMA FinalizerFrame ==
  ASSUME TypeOK, NEW k \in Final, Finalizer(k)
  PROVE  /\ UNCHANGED <<charge, sending, births, resent, stray, late, reopened>>
         /\ message' \in [Msg -> Message]
         /\ \A m \in Msg : /\ message'[m].about = message[m].about /\ message'[m].tx = message[m].tx
                           /\ message'[m].up => message[m].up
         /\ UNCHANGED <<ask, takedown, refused, robbed>> \/ ClosesAnother
<1>1. /\ UNCHANGED <<charge, sending, births, resent, stray, late, reopened>>
      /\ UNCHANGED <<ask, takedown, refused, robbed>> \/ ClosesAnother
  BY DEF Finalizer, LoadFinal, Clear, FinalRaises, FinishFinal, FinishFinalWithoutRow
<1>2. CASE UNCHANGED message
  BY <1>1, <1>2 DEF TypeOK
<1>3. ASSUME NEW n, message' = Cleared(n)
      PROVE  /\ message' \in [Msg -> Message]
             /\ \A m \in Msg : /\ message'[m].about = message[m].about /\ message'[m].tx = message[m].tx
                               /\ message'[m].up => message[m].up
  BY <1>3 DEF Cleared, TypeOK, Message
<1>4. UNCHANGED message \/ \E n : message' = Cleared(n)
  BY DEF Finalizer, LoadFinal, Clear, FinalRaises, FinishFinal, FinishFinalWithoutRow
<1>. QED
  BY <1>1, <1>2, <1>3, <1>4

(* Both frames in the form that invariants about the runs of notify need.    *)
LEMMA FinalizerAsks ==
  ASSUME TypeOK, NEW k \in Final, Finalizer(k)
  PROVE  /\ \A j \in Ask : \/ ask'[j] = ask[j]
                           \/ ask[j] = "pending" /\ ask'[j] = "none" /\ charge[j[1]].id \in robbed'
         /\ robbed \subseteq robbed'
         /\ refused \subseteq refused'
         /\ \A m \in Msg : \/ takedown'[m] = takedown[m]
                           \/ takedown[m] = "pending" /\ takedown'[m] = "none" /\ m \in refused'
<1>1. CASE UNCHANGED <<ask, takedown, refused, robbed>>
  BY <1>1
<1>2. CASE ClosesAnother
  BY <1>2, ClosesFrame
<1>. QED
  BY <1>1, <1>2, FinalizerFrame

-----------------------------------------------------------------------------
(* Taking a message down leaves what its text shows, and its row. *)
LEMMA TakeDownKeeps ==
  ASSUME TypeOK, NEW m \in Msg, TakeDown(m) \/ TakeDownFails(m)
  PROVE  /\ message' \in [Msg -> Message]
         /\ \A n \in Msg : message'[n].tx = message[n].tx /\ message'[n].about = message[n].about
<1>1. CASE message' = [message EXCEPT ![m].up = FALSE]
  BY <1>1 DEF TypeOK, Message
<1>2. CASE UNCHANGED message
  BY <1>2 DEF TypeOK
<1>. QED
  BY <1>1, <1>2 DEF TakeDown, TakeDownFails

LEMMA TypeStep ==
  ASSUME TypeOK, [Next]_vars
  PROVE  TypeOK'
<1> USE ChargeAssumption, NoChargeType, NoRunType, NoFinalRunType DEF TypeOK
<1>1. ASSUME NEW t \in Tx, NEW status \in {"new", "needs_attention", "closed"}, Ingest(t, status)
      PROVE  TypeOK'
  <2>1. births' \in 0..MaxBirths
    BY <1>1 DEF Ingest
  <2>2. charge' \in [Tx -> Charge]
    BY <1>1, <2>1 DEF Ingest, NoCharge, Charge, Status
  <2>3. ask' \in [Ask -> JobState]
    BY <1>1 DEF Ingest, JobState, Ask
  <2>. QED
    BY <1>1, <2>1, <2>2, <2>3 DEF Ingest, finals
<1>2. ASSUME NEW S \in SUBSET Tx, SweepLapsed(S) PROVE TypeOK'
  <2>1. charge' \in [Tx -> Charge]
    BY <1>2 DEF SweepLapsed, Charge, Status
  <2>. QED
    BY <1>2, <2>1 DEF SweepLapsed, finals
<1>3. CASE Restart
  <2>1. ask' \in [Ask -> JobState] /\ final' \in [Final -> JobState]
    BY <1>3 DEF Restart, JobState
  <2>2. {sending[k].msg : k \in {j \in Ask : sending[j].at = "sent"}} \subseteq 0..MaxMsg
    BY DEF Run
  <2>. QED
    BY <1>3, <2>1, <2>2 DEF Restart, Mishap
<1>4. ASSUME NEW t \in Tx, Restatus(t) PROVE TypeOK'
  <2> DEFINE To(status) == charge' = [charge EXCEPT ![t].status = status]
  <2>1. ASSUME NEW status \in Status, To(status) PROVE charge' \in [Tx -> Charge]
    <3>1. [charge[t] EXCEPT !.status = status] \in Charge
      BY DEF Charge
    <3>. QED
      BY <2>1, <3>1
  <2>2. \E status \in Status : To(status)
    BY <1>4 DEF Restatus, AttachByHand, Detach, Reparse, Link, SetStatus, Status
  <2>3. /\ UNCHANGED <<message, ask, sending, takedown, finalizing, births, resent, stray, late, refused, robbed>>
    BY <1>4, RestatusFrame
  <2>4. mishaps' \in 0..MaxMishaps
    <3>1. Mishap \/ UNCHANGED mishaps
      BY <1>4 DEF Restatus, AttachByHand, Detach, Reparse, Link, SetStatus
    <3>. QED
      BY <3>1 DEF Mishap
  <2>5. final' \in [Final -> JobState]
    BY <1>4 DEF Restatus, AttachByHand, Detach, Reparse, Link, SetStatus, finals, JobState, Final
  <2>6. reopened' \subseteq 0..MaxBirths
    <3>1. charge[t].id \in 0..MaxBirths
      BY DEF Charge
    <3>2. reopened' \subseteq reopened \cup {charge[t].id}
      BY <1>4 DEF Restatus, AttachByHand, Detach, Reparse, Link, SetStatus, finals
    <3>. QED
      BY <3>1, <3>2
  <2>. QED
    BY <2>1, <2>2, <2>3, <2>4, <2>5, <2>6
<1>5. ASSUME NEW t \in Tx, Resend(t) PROVE TypeOK'
  <2>1. charge' \in [Tx -> Charge]
    <3>1. charge[t] \in Charge /\ charge[t].resends + 1 \in 0..MaxResends
      BY <1>5 DEF Resend, Charge
    <3>2. Unannounced(charge[t]) \in Charge
      BY <3>1 DEF Unannounced, Charge
    <3>. QED
      BY <1>5, <3>2 DEF Resend
  <2>2. ask' \in [Ask -> JobState]
    BY <1>5 DEF Resend, JobState, Ask, Charge
  <2>3. charge[t].id \in 0..MaxBirths
    BY DEF Charge
  <2>. QED
    BY <1>5, <2>1, <2>2, <2>3 DEF Resend, Mishap, finals
<1>6. ASSUME NEW t \in Tx, DeleteTransaction(t) PROVE TypeOK'
  <2>1. message' \in [Msg -> Message]
    BY <1>6 DEF DeleteTransaction, Unrecorded, RecordsOf, Message
  <2>. QED
    BY <1>6, <2>1 DEF DeleteTransaction, AskWithout, FinalWithout, TakedownWith, JobState
<1>7. ASSUME NEW S \in SUBSET Tx, Silence(S) PROVE TypeOK'
  <2>1. charge' \in [Tx -> Charge]
    BY <1>7 DEF Silence, Silenced, Charge, Status
  <2>. QED
    BY <1>7, <2>1 DEF Silence, AskWithout, FinalWithout, TakedownWith, JobState
<1>8. CASE ReviveDead
  BY <1>8 DEF ReviveDead, JobState
<1>9. ASSUME NEW S \in SUBSET Ask, NEW F \in SUBSET Final, Claim(S, F) PROVE TypeOK'
  <2>1. sending' \in [Ask -> Run] /\ finalizing' \in [Final -> FinalRun]
    <3>1. [NoRun EXCEPT !.at = "started"] \in Run /\ [NoFinalRun EXCEPT !.at = "started"] \in FinalRun
      BY DEF NoRun, Run, NoFinalRun, FinalRun
    <3>. QED
      BY <1>9, <3>1 DEF Claim, Claimed
  <2>2. ask' \in [Ask -> JobState] /\ final' \in [Final -> JobState]
    BY <1>9 DEF Claim, Claimed, JobState
  <2>. QED
    BY <1>9, <2>1, <2>2 DEF Claim, Claimed
<1>10. ASSUME NEW k \in Ask, Load(k) PROVE TypeOK'
  <2>1. sending' \in [Ask -> Run]
    <3>1. ASSUME NEW run \in Run, sending' = [sending EXCEPT ![k] = run] PROVE sending' \in [Ask -> Run]
      BY <3>1
    <3>2. [sending[k] EXCEPT !.at = "ok"] \in Run
      BY AskParts DEF Run
    <3>3. charge[k[1]].id \in 0..MaxBirths
      BY AskParts DEF Charge
    <3>4. [at |-> "loaded", about |-> charge[k[1]].id, msg |-> 0] \in Run
      BY <3>3 DEF Run
    <3>. QED
      BY <1>10, <3>1, <3>2, <3>4 DEF Load
  <2>. QED
    BY <1>10, <2>1 DEF Load, finals
<1>11. ASSUME NEW k \in Ask, SendRaises(k) PROVE TypeOK'
  <2>1. sending' \in [Ask -> Run]
    <3>1. sending' = [sending EXCEPT ![k].at = "failed"]
      BY <1>11 DEF SendRaises
    <3>. QED
      BY <3>1 DEF Run
  <2>2. sending[k].about \in 0..MaxBirths
    BY DEF Run
  <2>3. \A m \in Msg : Posted(m, sending[k].about) \in [Msg -> Message]
    BY <2>2 DEF Posted, Message
  <2>4. message' \in [Msg -> Message] /\ stray' \subseteq stray \cup Msg
    BY <1>11, <2>3 DEF SendRaises
  <2>5. mishaps' \in 0..MaxMishaps
    BY <1>11 DEF SendRaises, Mishap
  <2>6. stray' \cup late' \cup refused' \subseteq 0..MaxMsg
    BY <1>11, <2>4 DEF SendRaises, Msg
  <2>. QED
    BY <1>11, <2>1, <2>4, <2>5, <2>6 DEF SendRaises, finals
<1>12. ASSUME NEW k \in Ask, Record(k) PROVE TypeOK'
  <2>1. sending' \in [Ask -> Run] /\ sending[k].msg \in 0..MaxMsg
    BY <1>12 DEF Record, Run
  <2>2. message' \in [Msg -> Message]
    <3>1. ASSUME NEW m \in Msg, NEW t \in Tx, message' = [message EXCEPT ![m].tx = t]
          PROVE  message' \in [Msg -> Message]
      <4>1. message[m] \in Message /\ t \in 0..MaxTx
        BY DEF Tx
      <4>2. [message[m] EXCEPT !.tx = t] \in Message
        BY <4>1 DEF Message
      <4>. QED
        BY <3>1, <4>2
    <3>2. CASE sending[k].msg \in Msg
      BY <1>12, <3>1, <3>2, AskParts DEF Record
    <3>3. CASE sending[k].msg \notin Msg
      BY <1>12, <3>3 DEF Record
    <3>. QED
      BY <3>2, <3>3
  <2>3. ASSUME NEW c \in Charge PROVE Told(c, sending[k].msg) \in Charge
    BY <2>1 DEF Told, Charge, Status
  <2>4. charge' \in [Tx -> Charge]
    BY <1>12, <2>3, AskParts DEF Record
  <2>. QED
    BY <1>12, <2>1, <2>2, <2>4 DEF Record, Belated, finals
<1>13. ASSUME NEW k \in Ask, RecordRaises(k) PROVE TypeOK'
  <2>1. sending' \in [Ask -> Run] /\ sending[k].msg \in 0..MaxMsg
    BY <1>13 DEF RecordRaises, Run
  <2>. QED
    BY <1>13, <2>1 DEF RecordRaises, Mishap, finals
<1>14. ASSUME NEW k \in Ask, Finish(k) \/ FinishWithoutRow(k) PROVE TypeOK'
  <2>1. sending' \in [Ask -> Run]
    BY <1>14 DEF Finish, FinishWithoutRow
  <2>2. CASE Finish(k)
    BY <2>1, <2>2 DEF Finish, JobState, finals
  <2>3. CASE FinishWithoutRow(k)
    BY <2>1, <2>3, ClosesFrame DEF FinishWithoutRow
  <2>. QED
    BY <1>14, <2>2, <2>3
<1>15. ASSUME NEW k \in Ask, NEW m \in Msg, Send(k, m) PROVE TypeOK'
  <2>1. sending' \in [Ask -> Run]
    <3>1. [at |-> "sent", about |-> sending[k].about, msg |-> m] \in Run
      BY DEF Run, Msg
    <3>. QED
      BY <1>15, <3>1 DEF Send
  <2>2. message' \in [Msg -> Message]
    BY <1>15 DEF Send, Posted, Run, Message
  <2>3. stray' \cup late' \cup refused' \subseteq 0..MaxMsg
    BY <1>15 DEF Send, Belated, Msg
  <2>. QED
    BY <1>15, <2>1, <2>2, <2>3 DEF Send, finals
<1>16. ASSUME NEW m \in Msg, TakeDown(m) \/ TakeDownFails(m) PROVE TypeOK'
  <2>1. takedown' \in [Msg -> JobState] /\ message' \in [Msg -> Message]
    BY <1>16, TakeDownKeeps DEF TakeDown, TakeDownFails, JobState
  <2>2. stray' \cup late' \cup refused' \subseteq 0..MaxMsg
    BY <1>16 DEF TakeDown, TakeDownFails, Msg
  <2>3. mishaps' \in 0..MaxMishaps
    BY <1>16 DEF TakeDown, TakeDownFails, Mishap
  <2>. QED
    BY <1>16, <2>1, <2>2, <2>3 DEF TakeDown, TakeDownFails, finals
<1>17. ASSUME NEW k \in Final, Finalizer(k) PROVE TypeOK'
  <2>1. finalizing' \in [Final -> FinalRun]
    <3>1. CASE LoadFinal(k)
      BY <3>1, FinalParts DEF LoadFinal, FinalRun, Charge
    <3>2. CASE Clear(k) \/ FinalRaises(k)
      <4>1. ASSUME NEW at \in {"ok", "failed"}, finalizing' = [finalizing EXCEPT ![k].at = at]
            PROVE  finalizing' \in [Final -> FinalRun]
        BY <4>1 DEF FinalRun
      <4>. QED
        BY <3>2, <4>1 DEF Clear, FinalRaises
    <3>3. CASE FinishFinal(k) \/ FinishFinalWithoutRow(k)
      BY <3>3 DEF FinishFinal, FinishFinalWithoutRow
    <3>. QED
      BY <1>17, <3>1, <3>2, <3>3 DEF Finalizer
  <2>2. message' \in [Msg -> Message] /\ UNCHANGED <<charge, sending, births, resent, stray, late, reopened>>
    BY <1>17, FinalizerFrame
  <2>3. mishaps' \in 0..MaxMishaps
    BY <1>17 DEF Finalizer, LoadFinal, Clear, FinalRaises, FinishFinal, FinishFinalWithoutRow, Mishap
  <2>4. CASE FinishFinalWithoutRow(k)
    BY <2>1, <2>2, <2>3, <2>4, ClosesFrame DEF FinishFinalWithoutRow
  <2>5. CASE FinishFinal(k)
    BY <2>1, <2>2, <2>3, <2>5 DEF FinishFinal, JobState
  <2>. QED
    BY <1>17, <2>1, <2>2, <2>3, <2>4, <2>5 DEF Finalizer, LoadFinal, Clear, FinalRaises
<1>18. CASE UNCHANGED vars
  BY <1>18 DEF vars
<1>. QED
  BY <1>1, <1>2, <1>3, <1>4, <1>5, <1>6, <1>7, <1>8, <1>9, <1>10, <1>11, <1>12, <1>13, <1>14, <1>15, <1>16, <1>17, <1>18, NextCases DEF World
-----------------------------------------------------------------------------
(* A rowid is new only when no charge has it. *)
LEMMA NextTxIsFree ==
  ASSUME NEW t \in Tx, IsNextTx(t)
  PROVE  charge[t].status = "absent"
  BY DEF IsNextTx, Present, Tx

LEMMA JobsStep ==
  ASSUME TypeOK, JobsHaveCharge, [Next]_vars
  PROVE  JobsHaveCharge'
<1> USE ChargeAssumption, AskParts DEF TypeOK, JobsHaveCharge
<1>1. ASSUME NEW t \in Tx, NEW status \in {"new", "needs_attention", "closed"}, Ingest(t, status)
      PROVE  JobsHaveCharge'
  <2>1. charge'[t].status = status /\ charge'[t].id # 0 /\ charge'[t].resends = 0
    BY <1>1 DEF Ingest, NoCharge
  <2>2. \A u \in Tx \ {t} : charge'[u] = charge[u]
    BY <1>1 DEF Ingest
  <2>3. \A k \in Ask : ask'[k] = ask[k] \/ k = <<t, 0>>
    BY <1>1 DEF Ingest
  <2>4. \A k \in AsksOf(t) : ask[k] = "none"
    BY <1>1, NextTxIsFree DEF Ingest, AsksOf
  <2>5. \A k \in Ask : ask'[k] # "none" => k = <<t, 0>> \/ k[1] # t
    BY <2>3, <2>4 DEF AsksOf
  <2>6. ASSUME NEW k \in Ask, ask'[k] # "none"
        PROVE  charge'[k[1]].status # "absent" /\ k[2] <= charge'[k[1]].resends
    <3>1. CASE k = <<t, 0>>
      BY <1>1, <2>1, <3>1
    <3>2. CASE k[1] # t
      BY <2>2, <2>3, <2>6, <3>2
    <3>. QED
      BY <2>5, <2>6, <3>1, <3>2
  <2>. QED
    BY <2>1, <2>2, <2>6
<1>2. ASSUME NEW S \in SUBSET Tx, SweepLapsed(S) PROVE JobsHaveCharge'
  <2>1. \A t \in Tx : /\ charge'[t].id = charge[t].id
                      /\ charge'[t].resends = charge[t].resends
                      /\ charge'[t].status = "absent" <=> charge[t].status = "absent"
    BY <1>2 DEF SweepLapsed, Charge
  <2>. QED
    BY <1>2, <2>1 DEF SweepLapsed
<1>3. CASE Restart
  BY <1>3 DEF Restart
<1>4. ASSUME NEW t \in Tx, Restatus(t) PROVE JobsHaveCharge'
  <2>1. \A u \in Tx : /\ charge'[u].id = charge[u].id
                      /\ charge'[u].resends = charge[u].resends
                      /\ charge'[u].status = "absent" <=> charge[u].status = "absent"
    BY <1>4, RestatusFrame
  <2>. QED
    BY <1>4, <2>1, RestatusFrame
<1>5. ASSUME NEW t \in Tx, Resend(t) PROVE JobsHaveCharge'
  <2>1. \A u \in Tx : /\ charge'[u].id = charge[u].id
                      /\ charge'[u].resends >= charge[u].resends
                      /\ charge'[u].status = charge[u].status
    BY <1>5 DEF Resend, Unannounced, Charge
  <2>2. charge'[t].resends = charge[t].resends + 1 /\ charge[t].status # "absent"
    BY <1>5 DEF Resend, Unannounced, Present
  <2>3. \A k \in Ask : ask'[k] = ask[k] \/ k = <<t, charge[t].resends + 1>>
    BY <1>5 DEF Resend
  <2>4. \A u \in Tx : charge[u].resends \in Nat /\ charge'[u].resends \in Nat
    BY <1>5, TypeStep DEF Charge
  <2>5. ASSUME NEW k \in Ask, ask'[k] # "none"
        PROVE  charge'[k[1]].status # "absent" /\ k[2] <= charge'[k[1]].resends
    <3>1. CASE k = <<t, charge[t].resends + 1>>
      BY <2>1, <2>2, <3>1
    <3>2. CASE ask'[k] = ask[k]
      BY <2>1, <2>4, <2>5, <3>2
    <3>. QED
      BY <2>3, <3>1, <3>2
  <2>. QED
    BY <2>1, <2>5
<1>6. ASSUME NEW t \in Tx, DeleteTransaction(t) PROVE JobsHaveCharge'
  BY <1>6 DEF DeleteTransaction, AskWithout, NoCharge
<1>7. ASSUME NEW S \in SUBSET Tx, Silence(S) PROVE JobsHaveCharge'
  BY <1>7 DEF Silence, Silenced, AskWithout, Asking
<1>8. CASE ReviveDead
  BY <1>8 DEF ReviveDead
<1>9. ASSUME NEW S \in SUBSET Ask, NEW F \in SUBSET Final, Claim(S, F) PROVE JobsHaveCharge'
  BY <1>9 DEF Claim, Claimed
<1>10. ASSUME NEW k \in Ask, Record(k) PROVE JobsHaveCharge'
  <2>1. \A u \in Tx : /\ charge'[u].id = charge[u].id
                      /\ charge'[u].resends = charge[u].resends
                      /\ charge'[u].status = "absent" <=> charge[u].status = "absent"
    BY <1>10 DEF Record, Told, Present
  <2>. QED
    BY <1>10, <2>1 DEF Record
<1>11. ASSUME UNCHANGED charge, \A k \in Ask : ask[k] = "none" => ask'[k] = "none" PROVE JobsHaveCharge'
  BY <1>11
<1>12. ASSUME UNCHANGED <<charge, ask>> PROVE JobsHaveCharge'
  BY <1>12
<1>13. ASSUME NEW k \in Ask, Load(k) \/ SendRaises(k) \/ RecordRaises(k) PROVE JobsHaveCharge'
  BY <1>12, <1>13 DEF Load, SendRaises, RecordRaises
<1>14. ASSUME NEW k \in Ask, NEW m \in Msg, Send(k, m) PROVE JobsHaveCharge'
  BY <1>12, <1>14 DEF Send
<1>15. ASSUME NEW m \in Msg, TakeDown(m) \/ TakeDownFails(m) PROVE JobsHaveCharge'
  BY <1>12, <1>15 DEF TakeDown, TakeDownFails
<1>16. ASSUME NEW k \in Ask, Finish(k) \/ FinishWithoutRow(k) PROVE JobsHaveCharge'
  BY <1>11, <1>16, ClosesFrame DEF Finish, FinishWithoutRow
<1>17. ASSUME NEW k \in Final, Finalizer(k) PROVE JobsHaveCharge'
  BY <1>11, <1>17, FinalizerFrame, FinalizerAsks
<1>18. CASE UNCHANGED vars
  BY <1>12, <1>18 DEF vars
<1>. QED
  BY <1>1, <1>2, <1>3, <1>4, <1>5, <1>6, <1>7, <1>8, <1>9, <1>10, <1>13, <1>14, <1>15, <1>16, <1>17, <1>18,
     NextCases DEF World

LEMMA RecordIsOfTx ==
  ASSUME TypeOK, NEW m \in Msg, message[m].tx # 0
  PROVE  message[m].tx \in Tx
  BY ChargeAssumption DEF TypeOK, Message, Tx

LEMMA RecordsStep ==
  ASSUME TypeOK, JobsHaveCharge, RunIsAbout, RecordsHaveCharge, ReplyFindsItsCharge, [Next]_vars
  PROVE  RecordsHaveCharge' /\ ReplyFindsItsCharge'
<1> DEFINE G == RecordsHaveCharge /\ ReplyFindsItsCharge
<1> USE ChargeAssumption DEF TypeOK, RecordsHaveCharge, ReplyFindsItsCharge
<1>1. ASSUME NEW t \in Tx, NEW status \in {"new", "needs_attention", "closed"}, Ingest(t, status)
      PROVE  G'
  <2>1. \A m \in Msg : message[m].tx # t
    BY <1>1, NextTxIsFree DEF Ingest, Tx
  <2>. QED
    BY <1>1, <2>1 DEF Ingest, Message, Tx
<1>2. ASSUME UNCHANGED <<message, late>>,
             \A t \in Tx : /\ charge'[t].id = charge[t].id
                           /\ charge'[t].status = "absent" <=> charge[t].status = "absent"
      PROVE  G'
  BY <1>2, RecordIsOfTx
<1>3. ASSUME NEW S \in SUBSET Tx, SweepLapsed(S) PROVE G'
  BY <1>2, <1>3 DEF SweepLapsed, Charge
<1>4. CASE Restart \/ ReviveDead
  BY <1>2, <1>4 DEF Restart, ReviveDead
<1>5. ASSUME NEW t \in Tx, Restatus(t) PROVE G'
  BY <1>2, <1>5, RestatusFrame
<1>6. ASSUME NEW t \in Tx, Resend(t) PROVE G'
  BY <1>2, <1>6 DEF Resend, Unannounced, Charge
<1>7. ASSUME NEW S \in SUBSET Tx, Silence(S) PROVE G'
  BY <1>2, <1>7 DEF Silence, Silenced, Asking
<1>8. ASSUME NEW t \in Tx, DeleteTransaction(t) PROVE G'
  <2>1. \A m \in Msg : message'[m].tx # 0 => message'[m] = message[m] /\ message[m].tx # t
    BY <1>8 DEF DeleteTransaction, Unrecorded, RecordsOf, Message
  <2>. QED
    BY <1>8, <2>1 DEF DeleteTransaction, Message, Tx
<1>9. ASSUME NEW S \in SUBSET Ask, NEW F \in SUBSET Final, Claim(S, F) PROVE G'
  BY <1>2, <1>9 DEF Claim, Claimed
<1>10. ASSUME NEW k \in Ask, Load(k) \/ RecordRaises(k) \/ Finish(k) \/ FinishWithoutRow(k) PROVE G'
  BY <1>2, <1>10 DEF Load, RecordRaises, Finish, FinishWithoutRow
<1>11. ASSUME NEW k \in Ask, NEW m \in Msg, UNCHANGED charge, late \subseteq late',
              message' = Posted(m, sending[k].about)
       PROVE  G'
  BY <1>11 DEF Posted
<1>12. ASSUME NEW k \in Ask, SendRaises(k) PROVE G'
  BY <1>2, <1>11, <1>12 DEF SendRaises
<1>13. ASSUME NEW k \in Ask, NEW m \in Msg, Send(k, m) PROVE G'
  BY <1>11, <1>13 DEF Send, Belated
<1>14. ASSUME NEW k \in Ask, Record(k) PROVE G'
  <2> DEFINE t == k[1]
             m == sending[k].msg
  <2>1. \A u \in Tx : charge'[u].id = charge[u].id /\ (charge'[u].status = "absent" <=> charge[u].status = "absent")
    BY <1>14 DEF Record, Told, Present
  <2>2. m \in Msg /\ message[m].about = sending[k].about /\ t \in Tx
    BY <1>14, AskParts DEF Record, RunIsAbout
  <2>3. CASE t \in Present
    <3>1. \A n \in Msg : /\ message'[n].about = message[n].about
                         /\ message'[n].tx = IF n = m THEN t ELSE message[n].tx
      BY <1>14, <2>2, <2>3 DEF Record, Message
    <3>2. late' = Belated(k, m) /\ charge[t].status # "absent"
      BY <1>14, <2>3 DEF Record, Present
    <3>3. charge[t].id = message[m].about \/ m \in late'
      BY <1>14, <2>2, <3>2 DEF Record, RunIsAbout, Belated
    <3>4. late \subseteq late'
      BY <3>2 DEF Belated
    <3>. QED
      <4>1. ASSUME NEW n \in Msg, message'[n].tx # 0
            PROVE  /\ charge'[message'[n].tx].status # "absent"
                   /\ charge'[message'[n].tx].id = message'[n].about \/ n \in late'
        <5>1. CASE n = m
          BY <2>1, <2>2, <3>1, <3>2, <3>3, <5>1
        <5>2. CASE n # m
          BY <2>1, <3>1, <3>4, <4>1, <5>2, RecordIsOfTx
        <5>. QED
          BY <5>1, <5>2
      <4>. QED
        BY <4>1
  <2>4. CASE t \notin Present
    BY <1>14, <2>4 DEF Record, Belated
  <2>. QED
    BY <2>3, <2>4
<1>15. ASSUME NEW m \in Msg, TakeDown(m) \/ TakeDownFails(m) PROVE G'
  <2>1. \A n \in Msg : message'[n].tx = message[n].tx /\ message'[n].about = message[n].about
    BY <1>15, TakeDownKeeps
  <2>. QED
    BY <1>15, <2>1 DEF TakeDown, TakeDownFails
<1>16. ASSUME NEW k \in Final, Finalizer(k) PROVE G'
  BY <1>16, RecordIsOfTx, FinalizerFrame
<1>17. CASE UNCHANGED vars
  BY <1>2, <1>17 DEF vars
<1>. QED
  BY <1>1, <1>3, <1>4, <1>5, <1>6, <1>7, <1>8, <1>9, <1>10, <1>12, <1>13, <1>14, <1>15, <1>16, <1>17,
     NextCases DEF World

LEMMA RunStep ==
  ASSUME TypeOK, JobsHaveCharge, RunIsAbout, [Next]_vars
  PROVE  RunIsAbout'
<1> USE ChargeAssumption, AskParts DEF TypeOK, RunIsAbout
<1>1. ASSUME UNCHANGED sending,
             \A m \in Msg : message'[m].about = message[m].about,
             \A k \in Ask : ask'[k] = "running" =>
               ask[k] = "running" /\ charge'[k[1]].id = charge[k[1]].id
      PROVE  RunIsAbout'
  BY <1>1
<1>2. ASSUME NEW t \in Tx, NEW status \in {"new", "needs_attention", "closed"}, Ingest(t, status)
      PROVE  RunIsAbout'
  <2>1. \A k \in AsksOf(t) : ask[k] = "none"
    BY <1>2, NextTxIsFree DEF Ingest, AsksOf, JobsHaveCharge
  <2>2. \A k \in Ask : ask'[k] = "running" => ask[k] = "running"
    BY <1>2 DEF Ingest
  <2>3. \A u \in Tx \ {t} : charge'[u] = charge[u]
    BY <1>2 DEF Ingest
  <2>. QED
    BY <1>1, <1>2, <2>1, <2>2, <2>3 DEF Ingest, AsksOf
<1>3. ASSUME NEW S \in SUBSET Tx, SweepLapsed(S) PROVE RunIsAbout'
  <2>1. \A t \in Tx : charge'[t].id = charge[t].id
    BY <1>3 DEF SweepLapsed, Charge
  <2>. QED
    BY <1>1, <1>3, <2>1 DEF SweepLapsed
<1>4. CASE Restart
  BY <1>4 DEF Restart, NoRun
<1>5. ASSUME NEW t \in Tx, Restatus(t) PROVE RunIsAbout'
  <2>1. \A u \in Tx : charge'[u].id = charge[u].id
    BY <1>5, RestatusFrame
  <2>. QED
    BY <1>1, <1>5, <2>1, RestatusFrame
<1>6. ASSUME NEW t \in Tx, Resend(t) PROVE RunIsAbout'
  <2>1. \A u \in Tx : charge'[u].id = charge[u].id
    BY <1>6 DEF Resend, Unannounced, Charge
  <2>2. \A k \in Ask : ask'[k] = "running" => ask[k] = "running"
    BY <1>6 DEF Resend
  <2>. QED
    BY <1>1, <1>6, <2>1, <2>2 DEF Resend
<1>7. ASSUME NEW S \in SUBSET Tx, Silence(S) PROVE RunIsAbout'
  <2>1. \A u \in Tx : charge'[u].id = charge[u].id
    BY <1>7 DEF Silence, Silenced
  <2>2. \A k \in Ask : ask'[k] = "running" => ask[k] = "running"
    BY <1>7 DEF Silence, AskWithout
  <2>. QED
    BY <1>1, <1>7, <2>1, <2>2 DEF Silence
<1>8. ASSUME NEW t \in Tx, DeleteTransaction(t) PROVE RunIsAbout'
  <2>1. \A k \in Ask : ask'[k] = "running" => ask[k] = "running" /\ k[1] # t
    BY <1>8 DEF DeleteTransaction, AskWithout
  <2>2. \A u \in Tx \ {t} : charge'[u] = charge[u]
    BY <1>8 DEF DeleteTransaction
  <2>3. \A m \in Msg : message'[m].about = message[m].about
    BY <1>8 DEF DeleteTransaction, Unrecorded, Message
  <2>. QED
    BY <1>1, <1>8, <2>1, <2>2, <2>3 DEF DeleteTransaction
<1>9. CASE ReviveDead
  BY <1>1, <1>9 DEF ReviveDead
<1>10. ASSUME NEW S \in SUBSET Ask, NEW F \in SUBSET Final, Claim(S, F) PROVE RunIsAbout'
  <2>1. \A k \in Ask : sending'[k].at \notin {"loaded", "sent"}
    BY <1>10 DEF Claim, Claimed, Busy, NoRun
  <2>. QED
    BY <2>1
<1>11. ASSUME NEW k \in Ask, Load(k) PROVE RunIsAbout'
  <2>1. \A j \in Ask \ {k} : sending'[j] = sending[j]
    BY <1>11 DEF Load
  <2>2. \/ sending'[k].at = "ok"
        \/ sending'[k] = [at |-> "loaded", about |-> charge[k[1]].id, msg |-> 0] /\ k[1] \in Present
    BY <1>11 DEF Load, Run
  <2>. QED
    BY <1>11, <2>1, <2>2 DEF Load, JobsHaveCharge, Present
<1>12. ASSUME NEW k \in Ask, sending'[k].at \notin {"loaded", "sent"},
              \A j \in Ask \ {k} : sending'[j] = sending[j],
              \A j \in Ask : sending[j].at = "sent" =>
                message'[sending[j].msg].about = message[sending[j].msg].about,
              \A u \in Tx : charge'[u].id = charge[u].id,
              \A j \in Ask \ {k} : ask'[j] = "running" => ask[j] = "running"
       PROVE  RunIsAbout'
  BY <1>12
<1>13. ASSUME NEW m \in Msg, IsNextMsg(m)
       PROVE  \A k \in Ask : sending[k].at = "sent" => sending[k].msg # m
  BY <1>13 DEF IsNextMsg
<1>14. ASSUME NEW k \in Ask, SendRaises(k) PROVE RunIsAbout'
  <2>1. sending' = [sending EXCEPT ![k].at = "failed"] /\ UNCHANGED <<charge, ask>>
    BY <1>14 DEF SendRaises
  <2>2. \A j \in Ask : sending[j].at = "sent" => message'[sending[j].msg].about = message[sending[j].msg].about
    BY <1>14, <1>13 DEF SendRaises, Posted
  <2>3. sending'[k].at = "failed"
    BY <2>1 DEF Run
  <2>. QED
    BY <1>12, <2>1, <2>2, <2>3
<1>15. ASSUME NEW k \in Ask, NEW m \in Msg, Send(k, m) PROVE RunIsAbout'
  <2>1. \A n \in Msg : message'[n].about = IF n = m THEN sending[k].about ELSE message[n].about
    BY <1>15 DEF Send, Posted
  <2>2. sending'[k] = [at |-> "sent", about |-> sending[k].about, msg |-> m]
    BY <1>15 DEF Send
  <2>3. \A j \in Ask \ {k} : sending'[j] = sending[j]
    BY <1>15 DEF Send
  <2>4. \A j \in Ask : sending[j].at = "sent" => sending[j].msg # m
    BY <1>15, <1>13 DEF Send
  <2>. QED
    BY <1>15, <2>1, <2>2, <2>3, <2>4 DEF Send
<1>16. ASSUME NEW k \in Ask, Record(k) PROVE RunIsAbout'
  <2>1. \A u \in Tx : charge'[u].id = charge[u].id
    BY <1>16 DEF Record, Told, Present
  <2>2. \A n \in Msg : message'[n].about = message[n].about
    <3>1. CASE UNCHANGED message
      BY <3>1
    <3>2. CASE message' = [message EXCEPT ![sending[k].msg].tx = k[1]]
      BY <3>2 DEF Message
    <3>. QED
      BY <1>16, <3>1, <3>2 DEF Record
  <2>3. sending'[k].at = "ok" /\ (\A j \in Ask \ {k} : sending'[j] = sending[j]) /\ UNCHANGED ask
    BY <1>16 DEF Record, Run
  <2>. QED
    BY <1>12, <2>1, <2>2, <2>3
<1>17. ASSUME NEW k \in Ask, RecordRaises(k) PROVE RunIsAbout'
  <2>1. sending'[k].at = "failed" /\ \A j \in Ask \ {k} : sending'[j] = sending[j]
    BY <1>17 DEF RecordRaises, Run
  <2>. QED
    BY <1>12, <1>17, <2>1 DEF RecordRaises
<1>18. ASSUME NEW k \in Ask, Finish(k) \/ FinishWithoutRow(k) PROVE RunIsAbout'
  <2>1. sending'[k].at = "idle" /\ \A j \in Ask \ {k} : sending'[j] = sending[j]
    BY <1>18 DEF Finish, FinishWithoutRow, NoRun
  <2>2. \A j \in Ask \ {k} : ask'[j] = "running" => ask[j] = "running"
    BY <1>18, ClosesFrame DEF Finish, FinishWithoutRow
  <2>3. UNCHANGED <<charge, message>>
    BY <1>18 DEF Finish, FinishWithoutRow
  <2>. QED
    BY <1>12, <2>1, <2>2, <2>3
<1>19. ASSUME NEW m \in Msg, TakeDown(m) \/ TakeDownFails(m) PROVE RunIsAbout'
  <2>1. \A n \in Msg : message'[n].about = message[n].about
    <3>1. UNCHANGED message \/ message' = [message EXCEPT ![m].up = FALSE]
      BY <1>19 DEF TakeDown, TakeDownFails
    <3>. QED
      BY <3>1 DEF Message
  <2>. QED
    BY <1>1, <1>19, <2>1 DEF TakeDown, TakeDownFails
<1>20. ASSUME NEW k \in Final, Finalizer(k) PROVE RunIsAbout'
  BY <1>1, <1>20, FinalizerFrame, FinalizerAsks
<1>21. CASE UNCHANGED vars
  BY <1>1, <1>21 DEF vars
<1>. QED
  BY <1>2, <1>3, <1>4, <1>5, <1>6, <1>7, <1>8, <1>9, <1>10, <1>11, <1>14, <1>15, <1>16, <1>17, <1>18, <1>19, <1>20,
     <1>21, NextCases DEF World

(* A charge that waits for its announcement keeps a job through a step. *)
LEMMA OwedStep ==
  ASSUME TypeOK, JobsHaveCharge, RunIsAbout, RunIsCovered, AskIsOwed, [Next]_vars
  PROVE  RunIsCovered' /\ AskIsOwed'
<1> DEFINE G == RunIsCovered /\ AskIsOwed
<1> USE ChargeAssumption, AskParts DEF TypeOK, RunIsCovered, AskIsOwed, AsksOf
(* Steps after which no charge waits that did not, and no job is gone.      *)
<1>1. ASSUME \A t \in Tx : charge'[t].status \in Asking /\ charge'[t].msg = 0 =>
               \/ charge'[t].id \in reopened'
               \/ charge[t].status \in Asking /\ charge[t].msg = 0 /\ charge'[t].id = charge[t].id,
             robbed \subseteq robbed', reopened \subseteq reopened',
             \A k \in Ask : ask[k] # "none" /\ charge'[k[1]].status \in Asking => ask'[k] # "none",
             \A k \in Ask : ask'[k] = "running" /\ sending'[k].at = "ok"
               /\ charge'[k[1]].status \in Asking /\ charge'[k[1]].msg = 0
               => ask[k] = "running" /\ sending[k].at = "ok"
      PROVE  G'
  BY <1>1
<1>2. ASSUME NEW t \in Tx, NEW status \in {"new", "needs_attention", "closed"}, Ingest(t, status)
      PROVE  G'
  <2>1. charge'[t].status = status
    BY <1>2 DEF Ingest, NoCharge
  <2>2. \A u \in Tx \ {t} : charge'[u] = charge[u]
    BY <1>2 DEF Ingest
  <2>3. \A k \in Ask : k[1] = t => ask[k] = "none"
    BY <1>2, NextTxIsFree DEF Ingest, JobsHaveCharge
  <2>4. <<t, 0>> \in Ask /\ <<t, 0>>[1] = t
    BY DEF Ask
  <2>5. status # "closed" => ask'[<<t, 0>>] = "pending"
    BY <1>2, <2>3, <2>4 DEF Ingest, Outstanding
  <2>6. \A k \in Ask : k[1] # t => ask'[k] = ask[k]
    BY <1>2, <2>4 DEF Ingest
  <2>7. \A k \in Ask : k[1] = t => ask'[k] # "running"
    BY <1>2, <2>3 DEF Ingest
  <2>8. UNCHANGED <<sending, robbed, reopened>>
    BY <1>2 DEF Ingest, finals
  <2>9. AskIsOwed'
    <3>1. SUFFICES ASSUME NEW u \in Tx, charge'[u].status \in Asking, charge'[u].msg = 0,
                          charge'[u].id \notin robbed' \cup reopened'
                   PROVE  \E k \in AsksOf(u) : ask'[k] # "none"
      BY DEF AskIsOwed, AsksOf
    <3>2. CASE u = t
      BY <2>1, <2>4, <2>5, <3>1, <3>2 DEF Asking, AsksOf
    <3>3. CASE u # t
      BY <2>2, <2>6, <2>8, <3>1, <3>3 DEF AskIsOwed, AsksOf
    <3>. QED
      BY <3>2, <3>3
  <2>10. RunIsCovered'
    BY <2>2, <2>6, <2>7, <2>8
  <2>. QED
    BY <2>9, <2>10
<1>3. ASSUME NEW S \in SUBSET Tx, SweepLapsed(S) PROVE G'
  <2>1. \A t \in Tx : /\ charge'[t].id = charge[t].id /\ charge'[t].msg = charge[t].msg
                      /\ charge'[t].status \in Asking => charge[t].status \in Asking
    BY <1>3 DEF SweepLapsed, Asking, Charge
  <2>. QED
    BY <1>1, <1>3, <2>1 DEF SweepLapsed, finals
<1>4. CASE Restart
  BY <1>1, <1>4 DEF Restart, NoRun
<1>5. ASSUME NEW t \in Tx, Restatus(t) PROVE G'
  BY <1>1, <1>5, RestatusFrame
<1>6. ASSUME NEW t \in Tx, Resend(t) PROVE G'
  <2> DEFINE r == <<t, charge[t].resends + 1>>
  <2>1. r \in Ask /\ r[1] = t /\ r[2] = charge[t].resends + 1
    BY <1>6 DEF Resend, Ask, Charge
  <2>2. ask' = [ask EXCEPT ![r] = "pending"]
    BY <1>6 DEF Resend
  <2>3. ask'[r] = "pending" /\ \A k \in Ask : k # r => ask'[k] = ask[k]
    BY <2>1, <2>2
  <2>4. \A u \in Tx \ {t} : charge'[u] = charge[u]
    BY <1>6 DEF Resend
  <2>5. charge[t].resends \in Nat
    BY DEF Charge
  <2>6. \A k \in Ask : k[1] = t /\ ask[k] # "none" => k[2] < r[2]
    BY <2>1, <2>5 DEF JobsHaveCharge
  <2>7. UNCHANGED <<sending, robbed, reopened>>
    BY <1>6 DEF Resend, finals
  <2>8. AskIsOwed'
    <3>1. ASSUME NEW u \in Tx \ {t}, charge'[u].status \in Asking, charge'[u].msg = 0
          PROVE  charge'[u].id \in (robbed \cup reopened)' \/ \E k \in AsksOf(u) : ask'[k] # "none"
      BY <2>1, <2>3, <2>4, <2>7, <3>1
    <3>2. r \in AsksOf(t) /\ ask'[r] # "none"
      BY <2>1, <2>3
    <3>. QED
      BY <3>1, <3>2
  <2>9. ASSUME NEW k \in Ask, ask'[k] = "running", sending'[k].at = "ok",
               charge'[k[1]].status \in Asking, charge'[k[1]].msg = 0
        PROVE  \/ charge'[k[1]].id \in (robbed \cup reopened)'
               \/ \E j \in AsksOf(k[1]) : j[2] > k[2] /\ ask'[j] # "none"
    <3>1. k # r /\ ask[k] = "running"
      BY <2>3, <2>9
    <3>2. CASE k[1] = t
      BY <2>1, <2>3, <2>6, <3>1, <3>2
    <3>3. CASE k[1] # t
      <4>1. charge'[k[1]] = charge[k[1]]
        BY <2>4, <3>3
      <4>2. \/ charge[k[1]].id \in robbed \cup reopened
            \/ \E j \in AsksOf(k[1]) : j[2] > k[2] /\ ask[j] # "none"
        BY <2>7, <2>9, <3>1, <4>1
      <4>. QED
        BY <2>1, <2>3, <2>7, <3>3, <4>1, <4>2
    <3>. QED
      BY <3>2, <3>3
  <2>. QED
    BY <2>8, <2>9
<1>7. ASSUME NEW t \in Tx, DeleteTransaction(t) PROVE G'
  <2>1. charge'[t].status \notin Asking /\ \A u \in Tx \ {t} : charge'[u] = charge[u]
    BY <1>7 DEF DeleteTransaction, NoCharge, Asking
  <2>2. \A k \in Ask : ask'[k] = IF k[1] = t THEN "none" ELSE ask[k]
    BY <1>7 DEF DeleteTransaction, AskWithout
  <2>. QED
    BY <1>1, <1>7, <2>1, <2>2 DEF DeleteTransaction
<1>8. ASSUME NEW S \in SUBSET Tx, Silence(S) PROVE G'
  <2>1. \A u \in Tx : IF u \in S THEN charge'[u].status \notin Asking ELSE charge'[u] = charge[u]
    BY <1>8 DEF Silence, Silenced, Asking
  <2>2. \A k \in Ask : ask'[k] = IF k[1] \in S THEN "none" ELSE ask[k]
    BY <1>8 DEF Silence, AskWithout
  <2>. QED
    BY <1>1, <1>8, <2>1, <2>2 DEF Silence
<1>9. CASE ReviveDead
  BY <1>1, <1>9 DEF ReviveDead
<1>10. ASSUME NEW S \in SUBSET Ask, NEW F \in SUBSET Final, Claim(S, F) PROVE G'
  <2>1. \A k \in Ask : sending'[k].at # "ok"
    BY <1>10 DEF Claim, Claimed, Busy, NoRun
  <2>. QED
    BY <1>1, <1>10, <2>1 DEF Claim, Claimed
<1>11. ASSUME NEW k \in Ask, Load(k) PROVE G'
  <2>1. \A j \in Ask \ {k} : sending'[j] = sending[j]
    BY <1>11 DEF Load
  <2>2. sending'[k].at = "ok" => charge[k[1]].status \notin Asking \/ charge[k[1]].msg # 0
    BY <1>11 DEF Load, Present, Asking
  <2>. QED
    BY <1>1, <1>11, <2>1, <2>2 DEF Load, finals
<1>12. ASSUME NEW k \in Ask, SendRaises(k) \/ RecordRaises(k) PROVE G'
  <2>1. sending'[k].at = "failed" /\ \A j \in Ask \ {k} : sending'[j] = sending[j]
    BY <1>12 DEF SendRaises, RecordRaises, Run
  <2>. QED
    BY <1>1, <1>12, <2>1 DEF SendRaises, RecordRaises, finals
<1>13. ASSUME NEW k \in Ask, NEW m \in Msg, Send(k, m) PROVE G'
  <2>1. sending'[k].at = "sent" /\ \A j \in Ask \ {k} : sending'[j] = sending[j]
    BY <1>13 DEF Send
  <2>. QED
    BY <1>1, <1>13, <2>1 DEF Send, finals
<1>14. ASSUME NEW k \in Ask, Record(k) PROVE G'
  <2>1. sending[k].msg \in Msg /\ sending[k].msg # 0
    BY <1>14 DEF Record, RunIsAbout, Msg
  <2>2. \A u \in Tx \ {k[1]} : charge'[u] = charge[u]
    BY <1>14 DEF Record
  <2>3. charge'[k[1]].status \notin Asking \/ charge'[k[1]].msg # 0
    BY <1>14, <2>1 DEF Record, Told, Present, Asking
  <2>4. \A j \in Ask \ {k} : sending'[j] = sending[j]
    BY <1>14 DEF Record
  <2>. QED
    BY <1>1, <1>14, <2>2, <2>3, <2>4 DEF Record, finals
<1>15. ASSUME NEW k \in Ask, Finish(k) PROVE G'
  <2>1. \A j \in Ask : j # k => ask'[j] = ask[j] /\ sending'[j] = sending[j]
    BY <1>15 DEF Finish
  <2>2. sending'[k].at # "ok" /\ UNCHANGED <<charge, robbed, reopened>>
    BY <1>15 DEF Finish, NoRun, finals
  <2>3. CASE sending[k].at = "failed"
    <3>1. ask'[k] # "none"
      BY <1>15, <2>3 DEF Finish
    <3>. QED
      BY <1>1, <2>1, <2>2, <3>1
  <2>4. CASE sending[k].at = "ok"
    <3>1. ask[k] = "running"
      BY <1>15 DEF Finish
    <3>2. \A t \in Tx : charge[t].status \in Asking /\ charge[t].msg = 0 =>
            \/ charge[t].id \in robbed \cup reopened
            \/ \E j \in AsksOf(t) : j # k /\ ask[j] # "none"
      <4>1. SUFFICES ASSUME NEW t \in Tx, charge[t].status \in Asking, charge[t].msg = 0,
                            charge[t].id \notin robbed \cup reopened
                     PROVE  \E j \in AsksOf(t) : j # k /\ ask[j] # "none"
        OBVIOUS
      <4>2. CASE k[1] = t
        <5>1. PICK j \in AsksOf(t) : j[2] > k[2] /\ ask[j] # "none"
          BY <2>4, <3>1, <4>1, <4>2
        <5>. QED
          BY <5>1
      <4>3. CASE k[1] # t
        BY <4>1, <4>3
      <4>. QED
        BY <4>2, <4>3
    <3>3. AskIsOwed'
      BY <2>1, <2>2, <3>2
    <3>4. \A j \in Ask : /\ ask'[j] = "running" /\ sending'[j].at = "ok"
                         /\ charge[j[1]].status \in Asking /\ charge[j[1]].msg = 0
                         /\ charge[j[1]].id \notin robbed \cup reopened
            => \E l \in AsksOf(j[1]) : l[2] > j[2] /\ l # k /\ ask[l] # "none"
      <4>1. SUFFICES ASSUME NEW j \in Ask, ask'[j] = "running", sending'[j].at = "ok",
                            charge[j[1]].status \in Asking, charge[j[1]].msg = 0,
                            charge[j[1]].id \notin robbed \cup reopened
                     PROVE  \E l \in AsksOf(j[1]) : l[2] > j[2] /\ l # k /\ ask[l] # "none"
        OBVIOUS
      <4>2. j # k /\ ask[j] = "running" /\ sending[j].at = "ok"
        BY <2>1, <2>2, <4>1
      <4>3. PICK l \in AsksOf(j[1]) : l[2] > j[2] /\ ask[l] # "none"
        BY <4>1, <4>2
      <4>4. CASE l = k
        <5>1. PICK n \in AsksOf(k[1]) : n[2] > k[2] /\ ask[n] # "none"
          BY <2>4, <3>1, <4>1, <4>3, <4>4
        <5>2. n \in AsksOf(j[1]) /\ n # k /\ n[2] > j[2]
          BY <4>3, <4>4, <5>1
        <5>. QED
          BY <5>1, <5>2
      <4>5. CASE l # k
        BY <4>3, <4>5
      <4>. QED
        BY <4>4, <4>5
    <3>5. RunIsCovered'
      BY <2>1, <2>2, <3>4
    <3>. QED
      BY <3>3, <3>5
  <2>. QED
    BY <1>15, <2>3, <2>4 DEF Finish, finals
(* A run without a row closes at most the job of a charge it robs.          *)
<1>16. ASSUME UNCHANGED <<charge, reopened>>, robbed \subseteq robbed',
              \A j \in Ask : sending'[j].at = "ok" => sending[j].at = "ok",
              \A j \in Ask : \/ ask'[j] = ask[j]
                             \/ ask[j] = "pending" /\ ask'[j] = "none" /\ charge[j[1]].id \in robbed'
       PROVE  G'
  <2>1. \A t \in Tx, l \in Ask : l[1] = t /\ ask[l] # "none" => charge[t].id \in robbed' \/ ask'[l] # "none"
    BY <1>16
  <2>2. \A l \in Ask : ask'[l] = "running" => ask[l] = "running"
    BY <1>16
  <2>3. AskIsOwed'
    BY <1>16, <2>1
  <2>4. RunIsCovered'
    BY <1>16, <2>1, <2>2
  <2>. QED
    BY <2>3, <2>4
<1>17. ASSUME NEW k \in Ask, FinishWithoutRow(k) PROVE G'
  <2>1. UNCHANGED <<charge, reopened>> /\ \A j \in Ask : sending'[j].at = "ok" => sending[j].at = "ok"
    BY <1>17 DEF FinishWithoutRow, NoRun
  <2>. QED
    BY <1>17, <1>16, <2>1, ClosesFrame DEF FinishWithoutRow
<1>18. ASSUME NEW m \in Msg, TakeDown(m) \/ TakeDownFails(m) PROVE G'
  BY <1>1, <1>18 DEF TakeDown, TakeDownFails, finals
<1>19. ASSUME NEW k \in Final, Finalizer(k) PROVE G'
  BY <1>16, <1>19, FinalizerFrame, FinalizerAsks
<1>20. CASE UNCHANGED vars
  BY <1>1, <1>20 DEF vars
<1>. QED
  BY <1>2, <1>3, <1>4, <1>5, <1>6, <1>7, <1>8, <1>9, <1>10, <1>11, <1>12, <1>13, <1>14, <1>15, <1>17, <1>18, <1>19,
     <1>20, NextCases DEF World

-----------------------------------------------------------------------------
LEMMA Invariance == Spec => []IInv
<1>1. IInv /\ [Next]_vars => IInv'
  BY TypeStep, JobsStep, RecordsStep, RunStep, OwedStep DEF IInv
<1>. QED
  BY <1>1, InitIInv, PTL DEF Spec

(* The variables of Charge have their types.                                *)
THEOREM TypeCorrect == Spec => []TypeOK
  BY Invariance, PTL DEF IInv

(* notify and _finish: a charge that asks for a receipt is owed its          *)
(* announcement as long as it has none.                                      *)
THEOREM Owed == Spec => []AskIsOwed
  BY Invariance, PTL DEF IInv

(* _record_notification and delete_transaction: the record of a message      *)
(* leads to the charge that the message shows, though rowids are reused.     *)
THEOREM ReplyFinds == Spec => []ReplyFindsItsCharge
  BY Invariance, PTL DEF IInv
=============================================================================
