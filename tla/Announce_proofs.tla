--------------------------- MODULE Announce_proofs ---------------------------
(***************************************************************************)
(* A charge is announced once, the announcement of one that was deleted or *)
(* silenced is taken down, and that of one that asks is not: the three     *)
(* properties of Charge that are about the messages themselves, for all    *)
(* values of the constants.                                                *)
(***************************************************************************)
EXTENDS Charge_proofs

(* Posted by a run that recorded it, or still may, with its row. *)
Clean(m) == message[m].about # 0 /\ m \notin stray \cup late

Unresent(t) == charge[t].id \notin resent

(* The messages that show the charge which has rowid t now. *)
Shows(m, t) == charge[t].id = message[m].about

Holds(k) == ask[k] = "running"

(* Identities are never given twice. *)
IdsOK ==
  /\ \A t \in Tx : charge[t].id <= births /\ (charge[t].resends # 0 => charge[t].id \in resent)
  /\ \A t, u \in Tx : charge[t].id = charge[u].id /\ charge[t].id # 0 => t = u
  /\ \A m \in Msg : message[m].about <= births
  /\ \A k \in Ask : sending[k].about <= births
  /\ \A i \in resent : i <= births

(* After a message, no run with a row posts another one. *)
NoSecond ==
  \A m \in Msg, t \in Tx :
    Clean(m) /\ Shows(m, t) /\ Unresent(t) =>
      \/ ask[<<t, 0>>] = "none"
      \/ charge[t].msg # 0 /\ ~(Holds(<<t, 0>>) /\ sending[<<t, 0>>].at \in {"loaded", "sent"})
      \/ Holds(<<t, 0>>) /\ sending[<<t, 0>>].at = "sent" /\ sending[<<t, 0>>].msg = m

SilencedAsksNothing ==
  \A t \in Tx :
    charge[t].status = "silenced" /\ Unresent(t) => \A k \in AsksOf(t) : ask[k] = "none"

InHand(k) == sending[k].at \in {"started", "loaded", "sent"}

(* The runs of a charge lose their rows together. *)
RowsGoTogether ==
  \A k, j \in Ask : k[1] = j[1] /\ InHand(k) /\ InHand(j) /\ Holds(j) => Holds(k)

(* A message in the channel that nobody is about to record or to delete. *)
Standing(m) ==
  message[m].up /\ m \notin stray \cup late \cup refused /\ ~InFlight(m) /\ takedown[m] = "none"

(* The runs of its charge have not lost their rows: silencing the charge,    *)
(* which takes them, would delete it.                                        *)
RowlessIsOver ==
  \A k \in Ask, m \in Msg :
    InHand(k) /\ ~Holds(k) /\ Clean(m) /\ Shows(m, k[1]) /\ Unresent(k[1]) => ~Standing(m)

StandingIsRecorded == \A m \in Msg : Standing(m) => message[m].tx # 0

(* It is the one that silencing its charge would delete. *)
StandingIsCurrent ==
  \A m \in Msg :
    Standing(m) /\ message[m].tx # 0 /\ message[m].about \notin resent =>
      charge[message[m].tx].msg = m /\ charge[message[m].tx].status # "silenced"

JInv ==
  /\ IdsOK
  /\ NoSecond
  /\ AnnouncedOnce
  /\ SilencedAsksNothing
  /\ RowsGoTogether
  /\ RowlessIsOver
  /\ StandingIsRecorded
  /\ StandingIsCurrent

-----------------------------------------------------------------------------
(* What a step may do to the messages. *)

LEMMA HistoryGrows ==
  ASSUME TypeOK, [Next]_vars
  PROVE  stray \subseteq stray' /\ late \subseteq late' /\ refused \subseteq refused' /\ resent \subseteq resent'
<1>1. CASE World \/ ReviveDead
  BY <1>1 DEF World, Ingest, SweepLapsed, Restart, ReviveDead
<1>2. ASSUME NEW t \in Tx, Restatus(t) PROVE UNCHANGED <<stray, late, refused, resent>>
  BY <1>2, RestatusFrame
<1>3. ASSUME NEW t \in Tx, Resend(t) \/ DeleteTransaction(t)
      PROVE  UNCHANGED <<stray, late, refused>> /\ resent \subseteq resent'
  BY <1>3 DEF Resend, DeleteTransaction
<1>4. ASSUME NEW S \in SUBSET Tx, Silence(S) PROVE UNCHANGED <<stray, late, refused, resent>>
  BY <1>4 DEF Silence
<1>5. ASSUME NEW S \in SUBSET Ask, NEW F \in SUBSET Final, Claim(S, F)
      PROVE  UNCHANGED <<stray, late, refused, resent>>
  BY <1>5 DEF Claim, Claimed
<1>6. ASSUME NEW k \in Ask, Load(k) \/ SendRaises(k) \/ Record(k) \/ RecordRaises(k) \/ Finish(k)
      PROVE  stray \subseteq stray' /\ late \subseteq late' /\ UNCHANGED <<refused, resent>>
  BY <1>6 DEF Load, SendRaises, Record, RecordRaises, Finish, Belated
<1>7. ASSUME NEW k \in Ask, NEW m \in Msg, Send(k, m) PROVE late \subseteq late' /\ UNCHANGED <<stray, refused, resent>>
  BY <1>7 DEF Send, Belated
<1>8. ASSUME NEW k \in Ask, FinishWithoutRow(k) PROVE refused \subseteq refused' /\ UNCHANGED <<stray, late, resent>>
  BY <1>8, ClosesFrame DEF FinishWithoutRow
<1>9. ASSUME NEW k \in Final, Finalizer(k) PROVE refused \subseteq refused' /\ UNCHANGED <<stray, late, resent>>
  BY <1>9, FinalizerFrame, FinalizerAsks
<1>10. ASSUME NEW m \in Msg, TakeDown(m) \/ TakeDownFails(m)
       PROVE  refused \subseteq refused' /\ UNCHANGED <<stray, late, resent>>
  BY <1>10 DEF TakeDown, TakeDownFails
<1>11. CASE UNCHANGED vars
  BY <1>11 DEF vars
<1>. QED
  BY <1>1, <1>2, <1>3, <1>4, <1>5, <1>6, <1>7, <1>8, <1>9, <1>10, <1>11, NextCases

(* A new clean message comes from a run with its row. *)
LEMMA CleanStep ==
  ASSUME TypeOK, [Next]_vars, NEW m \in Msg, Clean(m)'
  PROVE  \/ Clean(m) /\ message'[m].about = message[m].about
         \/ \E k \in Ask : Send(k, m) /\ Holds(k)
<1> DEFINE G == \/ Clean(m) /\ message'[m].about = message[m].about
                \/ \E k \in Ask : Send(k, m) /\ Holds(k)
<1> USE DEF Clean
<1>1. ASSUME message'[m].about = message[m].about PROVE G
  BY <1>1, HistoryGrows
<1>2. CASE World
  BY <1>1, <1>2 DEF World, Ingest, SweepLapsed, Restart
<1>3. ASSUME NEW t \in Tx, DeleteTransaction(t) PROVE G
  BY <1>1, <1>3 DEF DeleteTransaction, Unrecorded, TypeOK, Message
<1>4. ASSUME UNCHANGED message PROVE G
  BY <1>1, <1>4
<1>5. ASSUME NEW k \in Ask, SendRaises(k) PROVE G
  <2>1. CASE UNCHANGED message
    BY <1>1, <2>1
  <2>2. ASSUME NEW n \in Msg, message' = Posted(n, sending[k].about), stray' = stray \cup {n} PROVE G
    <3>1. n # m
      BY <2>2
    <3>2. message'[m].about = message[m].about
      BY <2>2, <3>1 DEF Posted, TypeOK
    <3>. QED
      BY <1>1, <3>2
  <2>. QED
    BY <1>5, <2>1, <2>2 DEF SendRaises
<1>6. ASSUME NEW k \in Ask, NEW n \in Msg, Send(k, n) PROVE G
  <2>1. CASE n = m
    BY <1>6, <2>1 DEF Send, Belated, Holds
  <2>2. CASE n # m
    <3>1. message'[m].about = message[m].about
      BY <1>6, <2>2 DEF Send, Posted, TypeOK
    <3>. QED
      BY <1>1, <3>1
  <2>. QED
    BY <2>1, <2>2
<1>7. ASSUME NEW k \in Ask, Record(k) PROVE G
  <2>1. message'[m].about = message[m].about
    BY <1>7 DEF Record, TypeOK, Message
  <2>. QED
    BY <1>1, <2>1
<1>8. ASSUME NEW n \in Msg, TakeDown(n) \/ TakeDownFails(n) PROVE G
  <2>1. message'[m].about = message[m].about
    BY <1>8 DEF TakeDown, TakeDownFails, TypeOK, Message
  <2>. QED
    BY <1>1, <2>1
<1>9. ASSUME NEW k \in Ask, Load(k) \/ RecordRaises(k) \/ Finish(k) \/ FinishWithoutRow(k) PROVE G
  BY <1>4, <1>9 DEF Load, RecordRaises, Finish, FinishWithoutRow
<1>10. ASSUME NEW k \in Final, Finalizer(k) PROVE G
  BY <1>1, <1>10, FinalizerFrame
<1>11. ASSUME NEW t \in Tx, Restatus(t) PROVE G
  BY <1>4, <1>11, RestatusFrame
<1>12. ASSUME NEW t \in Tx, Resend(t) PROVE G
  BY <1>4, <1>12 DEF Resend
<1>13. CASE ReviveDead \/ UNCHANGED vars \/ (\E S \in SUBSET Tx : Silence(S))
                       \/ \E S \in SUBSET Ask, F \in SUBSET Final : Claim(S, F)
  BY <1>4, <1>13 DEF ReviveDead, vars, Silence, Claim, Claimed
<1>. QED
  BY <1>2, <1>3, <1>5, <1>6, <1>7, <1>8, <1>9, <1>10, <1>11, <1>12, <1>13, NextCases

(* A message comes to stand only by being recorded. *)
LEMMA StandingStep ==
  ASSUME TypeOK, RunIsAbout, [Next]_vars, NEW m \in Msg, Standing(m)'
  PROVE  \/ Standing(m)
         \/ \E k \in Ask : Record(k) /\ m = sending[k].msg
<1> DEFINE G == \/ Standing(m)
                \/ \E k \in Ask : Record(k) /\ m = sending[k].msg
<1> USE DEF Standing
<1>1. m \notin stray' \cup late' \cup refused' /\ takedown'[m] = "none" /\ message'[m].up
  OBVIOUS
<1>2. ASSUME message[m].up, takedown[m] = "none",
             \A k \in Ask : sending[k].at = "sent" /\ sending[k].msg = m =>
               sending'[k].at = "sent" /\ sending'[k].msg = m
      PROVE  G
  BY <1>1, <1>2, HistoryGrows DEF InFlight
<1>3. ASSUME UNCHANGED <<message, sending>>, takedown[m] = "none" PROVE G
  BY <1>1, <1>2, <1>3
<1>4. CASE Restart
  <2>1. \A k \in Ask : sending[k].at = "sent" => sending[k].msg # m
    BY <1>1, <1>4 DEF Restart
  <2>. QED
    BY <1>1, <1>2, <1>4, <2>1 DEF Restart
<1>5. CASE World
  BY <1>1, <1>3, <1>4, <1>5 DEF World, Ingest, SweepLapsed
<1>6. ASSUME NEW t \in Tx, DeleteTransaction(t) PROVE G
  <2>1. message[m].up
    BY <1>1, <1>6 DEF DeleteTransaction, Unrecorded, TypeOK, Message
  <2>. QED
    BY <1>1, <1>2, <1>6, <2>1 DEF DeleteTransaction, TakedownWith
<1>7. ASSUME NEW S \in SUBSET Tx, Silence(S) PROVE G
  BY <1>1, <1>3, <1>7 DEF Silence, TakedownWith
<1>8. CASE ReviveDead
  BY <1>1, <1>3, <1>8 DEF ReviveDead
<1>9. ASSUME NEW t \in Tx, Restatus(t) \/ Resend(t) PROVE G
  <2>1. CASE Restatus(t)
    BY <1>1, <1>3, <2>1, RestatusFrame
  <2>2. CASE Resend(t)
    BY <1>1, <1>3, <2>2 DEF Resend
  <2>. QED
    BY <1>9, <2>1, <2>2
<1>10. ASSUME NEW k \in Ask, sending[k].at # "sent", \A j \in Ask \ {k} : sending'[j] = sending[j],
              UNCHANGED <<message, takedown>>
       PROVE  G
  BY <1>1, <1>2, <1>10
<1>11. ASSUME NEW k \in Ask, Load(k) \/ Finish(k) PROVE G
  <2>1. sending[k].at # "sent" /\ UNCHANGED <<message, takedown>>
    BY <1>11 DEF Load, Finish
  <2>2. \A j \in Ask \ {k} : sending'[j] = sending[j]
    BY <1>11 DEF Load, Finish, TypeOK
  <2>. QED
    BY <1>10, <2>1, <2>2
<1>12. ASSUME NEW k \in Ask, FinishWithoutRow(k) PROVE G
  <2>1. takedown[m] = "none"
    BY <1>1, <1>12, ClosesFrame DEF FinishWithoutRow
  <2>2. sending[k].at # "sent" /\ (\A j \in Ask \ {k} : sending'[j] = sending[j]) /\ UNCHANGED message
    BY <1>12 DEF FinishWithoutRow
  <2>. QED
    BY <1>1, <1>2, <2>1, <2>2
<1>13. ASSUME NEW S \in SUBSET Ask, NEW F \in SUBSET Final, Claim(S, F) PROVE G
  BY <1>1, <1>2, <1>13 DEF Claim, Claimed, Busy
<1>14. ASSUME NEW k \in Ask, SendRaises(k) PROVE G
  <2>1. sending[k].at # "sent" /\ (\A j \in Ask \ {k} : sending'[j] = sending[j]) /\ UNCHANGED takedown
    BY <1>14 DEF SendRaises
  <2>2. message[m].up
    <3>1. ASSUME NEW n \in Msg, message' = Posted(n, sending[k].about), stray' = stray \cup {n}
          PROVE  message[m].up
      <4>1. n # m
        BY <1>1, <3>1
      <4>. QED
        BY <1>1, <3>1, <4>1 DEF Posted, TypeOK
    <3>. QED
      BY <1>1, <1>14, <3>1 DEF SendRaises
  <2>. QED
    BY <1>1, <1>2, <2>1, <2>2
<1>15. ASSUME NEW k \in Ask, NEW n \in Msg, Send(k, n) PROVE G
  <2>1. sending[k].at # "sent" /\ (\A j \in Ask \ {k} : sending'[j] = sending[j]) /\ UNCHANGED takedown
    BY <1>15 DEF Send
  <2>2. sending'[k].at = "sent" /\ sending'[k].msg = n
    BY <1>15 DEF Send, TypeOK
  <2>3. n # m
    BY <2>2 DEF InFlight
  <2>4. message[m].up
    BY <1>1, <1>15, <2>3 DEF Send, Posted
  <2>. QED
    BY <1>1, <1>2, <2>1, <2>4
<1>16. ASSUME NEW k \in Ask, Record(k) PROVE G
  <2>1. CASE m = sending[k].msg
    BY <1>16, <2>1
  <2>2. CASE m # sending[k].msg
    <3>1. \A j \in Ask \ {k} : sending'[j] = sending[j]
      BY <1>16 DEF Record
    <3>2. message[m].up
      BY <1>1, <1>16, <2>2 DEF Record, TypeOK, Message
    <3>3. UNCHANGED takedown
      BY <1>16 DEF Record
    <3>. QED
      BY <1>1, <1>2, <2>2, <3>1, <3>2, <3>3
  <2>. QED
    BY <2>1, <2>2
<1>17. ASSUME NEW k \in Ask, RecordRaises(k) PROVE G
  <2>1. sending[k].msg # m /\ (\A j \in Ask \ {k} : sending'[j] = sending[j]) /\ UNCHANGED <<message, takedown>>
    BY <1>1, <1>17 DEF RecordRaises
  <2>. QED
    BY <1>1, <1>2, <2>1
<1>18. ASSUME NEW n \in Msg, TakeDown(n) PROVE G
  <2>1. n # m
    BY <1>1, <1>18 DEF TakeDown, TypeOK, Message
  <2>. QED
    BY <1>1, <1>2, <1>18, <2>1 DEF TakeDown
<1>19. ASSUME NEW n \in Msg, TakeDownFails(n) PROVE G
  <2>1. takedown[m] = "none"
    BY <1>1, <1>19 DEF TakeDownFails, TypeOK
  <2>. QED
    BY <1>1, <1>3, <1>19, <2>1 DEF TakeDownFails
<1>20. ASSUME NEW k \in Final, Finalizer(k) PROVE G
  BY <1>1, <1>2, <1>20, FinalizerFrame, FinalizerAsks
<1>21. CASE UNCHANGED vars
  BY <1>1, <1>3, <1>21 DEF vars
<1>. QED
  BY <1>5, <1>6, <1>7, <1>8, <1>9, <1>11, <1>12, <1>13, <1>14, <1>15, <1>16, <1>17, <1>18, <1>19, <1>20,
     <1>21, NextCases

-----------------------------------------------------------------------------
(* Identities *)

LEMMA IdTypes ==
  ASSUME TypeOK
  PROVE  /\ births \in Nat
         /\ \A t \in Tx : charge[t].id \in Nat /\ charge[t].resends \in Nat
         /\ \A m \in Msg : message[m].about \in Nat
         /\ \A k \in Ask : sending[k].about \in Nat
  BY ChargeAssumption DEF TypeOK, Charge, Message, Run

LEMMA IdsStep ==
  ASSUME TypeOK, JobsHaveCharge, IdsOK, [Next]_vars
  PROVE  IdsOK'
<1> USE IdTypes DEF IdsOK
<1>1. ASSUME NEW t \in Tx, NEW status \in {"new", "needs_attention", "closed"}, Ingest(t, status)
      PROVE  IdsOK'
  <2>1. charge'[t].id = births + 1 /\ charge'[t].resends = 0 /\ births' = births + 1
    BY <1>1 DEF Ingest, NoCharge, TypeOK
  <2>2. \A u \in Tx \ {t} : charge'[u] = charge[u]
    BY <1>1 DEF Ingest, TypeOK
  <2>3. UNCHANGED <<message, sending, resent>>
    BY <1>1 DEF Ingest
  <2>4. \A u \in Tx : charge[u].id < charge'[t].id /\ charge[u].id <= births'
    BY <2>1
  <2>5. \A u \in Tx : charge'[u].id <= births' /\ (charge'[u].resends # 0 => charge'[u].id \in resent')
    BY <2>1, <2>2, <2>3, <2>4
  <2>6. ASSUME NEW u \in Tx, NEW v \in Tx, charge'[u].id = charge'[v].id, charge'[u].id # 0
        PROVE  u = v
    <3>1. CASE u = t \/ v = t
      BY <2>2, <2>4, <2>6, <3>1
    <3>2. CASE u # t /\ v # t
      BY <2>2, <2>6, <3>2
    <3>. QED
      BY <3>1, <3>2
  <2>7. /\ \A m \in Msg : message'[m].about <= births'
        /\ \A k \in Ask : sending'[k].about <= births'
        /\ \A i \in resent' : i <= births'
    <3>1. \A i \in resent : i \in Nat
      BY DEF TypeOK
    <3>. QED
      BY <2>1, <2>3, <3>1
  <2>. QED
    BY <2>5, <2>6, <2>7
(* A step that makes and asks for nothing.                                  *)
<1>2. ASSUME \A t \in Tx : charge'[t].id = charge[t].id /\ charge'[t].resends = charge[t].resends,
             \A m \in Msg : message'[m].about = message[m].about
                              \/ \E k \in Ask : message'[m].about = sending[k].about,
             \A k \in Ask : \/ sending'[k].about \in {0, sending[k].about}
                            \/ \E t \in Tx : sending'[k].about = charge[t].id,
             UNCHANGED <<births, resent>>
      PROVE  IdsOK'
  BY <1>2
<1>3. ASSUME NEW S \in SUBSET Tx, SweepLapsed(S) PROVE IdsOK'
  <2>1. \A t \in Tx : charge'[t].id = charge[t].id /\ charge'[t].resends = charge[t].resends
    BY <1>3 DEF SweepLapsed, TypeOK, Charge
  <2>. QED
    BY <1>2, <1>3, <2>1 DEF SweepLapsed
<1>4. CASE Restart
  BY <1>2, <1>4 DEF Restart, NoRun
<1>5. ASSUME NEW t \in Tx, Restatus(t) PROVE IdsOK'
  <2>1. \A u \in Tx : charge'[u].id = charge[u].id /\ charge'[u].resends = charge[u].resends
    BY <1>5, RestatusFrame
  <2>. QED
    BY <1>2, <1>5, <2>1, RestatusFrame
<1>6. ASSUME NEW t \in Tx, Resend(t) PROVE IdsOK'
  <2>1. \A u \in Tx : charge'[u].id = charge[u].id /\ (u # t => charge'[u] = charge[u])
    BY <1>6 DEF Resend, Unannounced, TypeOK
  <2>2. resent' = resent \cup {charge[t].id} /\ UNCHANGED <<births, message, sending>>
    BY <1>6 DEF Resend
  <2>. QED
    BY <2>1, <2>2
<1>7. ASSUME NEW t \in Tx, DeleteTransaction(t) PROVE IdsOK'
  <2>1. charge'[t].id = 0 /\ charge'[t].resends = 0 /\ \A u \in Tx \ {t} : charge'[u] = charge[u]
    BY <1>7 DEF DeleteTransaction, NoCharge, TypeOK
  <2>2. \A m \in Msg : message'[m].about = message[m].about
    BY <1>7 DEF DeleteTransaction, Unrecorded, TypeOK, Message
  <2>3. UNCHANGED <<births, sending, resent>>
    BY <1>7 DEF DeleteTransaction
  <2>. QED
    BY <2>1, <2>2, <2>3
<1>8. ASSUME NEW S \in SUBSET Tx, Silence(S) PROVE IdsOK'
  <2>1. \A t \in Tx : charge'[t].id = charge[t].id /\ charge'[t].resends = charge[t].resends
    BY <1>8 DEF Silence, Silenced
  <2>. QED
    BY <1>2, <1>8, <2>1 DEF Silence
<1>9. CASE ReviveDead
  BY <1>2, <1>9 DEF ReviveDead
<1>10. ASSUME NEW S \in SUBSET Ask, NEW F \in SUBSET Final, Claim(S, F) PROVE IdsOK'
  <2>1. \A k \in Ask : sending'[k].about \in {0, sending[k].about}
    BY <1>10 DEF Claim, Claimed, NoRun
  <2>. QED
    BY <1>2, <1>10, <2>1 DEF Claim, Claimed
<1>11. ASSUME NEW k \in Ask, Load(k) PROVE IdsOK'
  <2>1. \A j \in Ask : sending'[j].about \in {sending[j].about, charge[k[1]].id}
    BY <1>11 DEF Load, TypeOK, Run
  <2>. QED
    BY <1>2, <1>11, <2>1, AskParts DEF Load
<1>12. ASSUME NEW k \in Ask, SendRaises(k) PROVE IdsOK'
  <2>1. \A j \in Ask : sending'[j].about = sending[j].about
    BY <1>12 DEF SendRaises, TypeOK, Run
  <2>2. \A m \in Msg : message'[m].about \in {message[m].about, sending[k].about}
    BY <1>12 DEF SendRaises, Posted, TypeOK
  <2>. QED
    BY <1>2, <1>12, <2>1, <2>2 DEF SendRaises
<1>13. ASSUME NEW k \in Ask, Record(k) PROVE IdsOK'
  <2>1. \A t \in Tx : charge'[t].id = charge[t].id /\ charge'[t].resends = charge[t].resends
    BY <1>13 DEF Record, Told, TypeOK
  <2>2. \A m \in Msg : message'[m].about = message[m].about
    BY <1>13 DEF Record, TypeOK, Message
  <2>3. \A j \in Ask : sending'[j].about = sending[j].about
    BY <1>13 DEF Record, TypeOK, Run
  <2>. QED
    BY <1>2, <1>13, <2>1, <2>2, <2>3 DEF Record
<1>14. ASSUME NEW k \in Ask, RecordRaises(k) PROVE IdsOK'
  <2>1. \A j \in Ask : sending'[j].about = sending[j].about
    BY <1>14 DEF RecordRaises, TypeOK, Run
  <2>. QED
    BY <1>2, <1>14, <2>1 DEF RecordRaises
<1>15. ASSUME NEW k \in Ask, Finish(k) \/ FinishWithoutRow(k) PROVE IdsOK'
  <2>1. \A j \in Ask : sending'[j].about \in {0, sending[j].about}
    BY <1>15 DEF Finish, FinishWithoutRow, NoRun, TypeOK
  <2>2. UNCHANGED <<charge, message, births, resent>>
    BY <1>15 DEF Finish, FinishWithoutRow
  <2>. QED
    BY <1>2, <2>1, <2>2
<1>16. ASSUME NEW k \in Ask, NEW m \in Msg, Send(k, m) PROVE IdsOK'
  <2>1. \A j \in Ask : sending'[j].about = sending[j].about
    BY <1>16 DEF Send, TypeOK
  <2>2. \A n \in Msg : message'[n].about \in {message[n].about, sending[k].about}
    BY <1>16 DEF Send, Posted, TypeOK
  <2>. QED
    BY <1>2, <1>16, <2>1, <2>2 DEF Send
<1>17. ASSUME NEW m \in Msg, TakeDown(m) \/ TakeDownFails(m) PROVE IdsOK'
  <2>1. \A n \in Msg : message'[n].about = message[n].about
    BY <1>17 DEF TakeDown, TakeDownFails, TypeOK, Message
  <2>. QED
    BY <1>2, <1>17, <2>1 DEF TakeDown, TakeDownFails
<1>18. ASSUME NEW k \in Final, Finalizer(k) PROVE IdsOK'
  BY <1>2, <1>18, FinalizerFrame
<1>19. CASE UNCHANGED vars
  BY <1>19 DEF vars
<1>. QED
  BY <1>1, <1>3, <1>4, <1>5, <1>6, <1>7, <1>8, <1>9, <1>10, <1>11, <1>12, <1>13, <1>14, <1>15, <1>16, <1>17, <1>18,
     <1>19, NextCases DEF World

(* The first round is the only one of a charge that was not asked for again. *)
LEMMA FirstRound ==
  ASSUME TypeOK, JobsHaveCharge, IdsOK, NEW k \in Ask, ask[k] # "none", Unresent(k[1])
  PROVE  k = <<k[1], 0>>
<1>1. charge[k[1]].resends = 0
  BY AskParts DEF IdsOK, Unresent
<1>2. k[2] <= 0 /\ k[2] \in Nat
  BY <1>1, AskParts, ChargeAssumption DEF JobsHaveCharge
<1>. QED
  BY <1>2, AskParts

LEMMA SilencedStep ==
  ASSUME TypeOK, JobsHaveCharge, IdsOK, SilencedAsksNothing, [Next]_vars
  PROVE  SilencedAsksNothing'
<1> USE DEF SilencedAsksNothing, AsksOf, Unresent
<1>1. ASSUME \A t \in Tx : charge'[t].status = "silenced" =>
               charge[t].status = "silenced" /\ charge'[t].id = charge[t].id,
             \A k \in Ask : charge'[k[1]].status = "silenced" /\ ask[k] = "none" => ask'[k] = "none"
      PROVE  SilencedAsksNothing'
  BY <1>1, HistoryGrows
<1>2. ASSUME NEW t \in Tx, NEW status \in {"new", "needs_attention", "closed"}, Ingest(t, status)
      PROVE  SilencedAsksNothing'
  <2>1. charge'[t].status # "silenced" /\ \A u \in Tx \ {t} : charge'[u] = charge[u]
    BY <1>2 DEF Ingest, NoCharge, TypeOK
  <2>2. \A k \in Ask : k[1] # t => ask'[k] = ask[k]
    BY <1>2 DEF Ingest, TypeOK
  <2>. QED
    BY <1>1, <2>1, <2>2
<1>3. ASSUME NEW S \in SUBSET Tx, SweepLapsed(S) PROVE SilencedAsksNothing'
  <2>1. \A t \in Tx : charge'[t].status = "silenced" =>
               charge[t].status = "silenced" /\ charge'[t].id = charge[t].id
    BY <1>3 DEF SweepLapsed, TypeOK, Charge
  <2>. QED
    BY <1>1, <1>3, <2>1 DEF SweepLapsed
<1>4. CASE Restart
  BY <1>1, <1>4 DEF Restart
<1>5. ASSUME NEW t \in Tx, Restatus(t) PROVE SilencedAsksNothing'
  <2>1. \A u \in Tx : charge'[u].status = "silenced" =>
               charge[u].status = "silenced" /\ charge'[u].id = charge[u].id
    BY <1>5, RestatusFrame
  <2>. QED
    BY <1>1, <1>5, <2>1, RestatusFrame
<1>6. ASSUME NEW t \in Tx, Resend(t) PROVE SilencedAsksNothing'
  <2>1. charge'[t].id \in resent' /\ \A u \in Tx \ {t} : charge'[u] = charge[u]
    BY <1>6 DEF Resend, Unannounced, TypeOK
  <2>2. \A k \in Ask : k[1] # t => ask'[k] = ask[k]
    BY <1>6 DEF Resend, TypeOK
  <2>. QED
    BY <2>1, <2>2, AskParts, HistoryGrows
<1>7. ASSUME NEW t \in Tx, DeleteTransaction(t) PROVE SilencedAsksNothing'
  <2>1. charge'[t].status # "silenced" /\ \A u \in Tx \ {t} : charge'[u] = charge[u]
    BY <1>7 DEF DeleteTransaction, NoCharge, TypeOK
  <2>2. \A k \in Ask : ask[k] = "none" => ask'[k] = "none"
    BY <1>7 DEF DeleteTransaction, AskWithout
  <2>. QED
    BY <1>1, <2>1, <2>2
<1>8. ASSUME NEW S \in SUBSET Tx, Silence(S) PROVE SilencedAsksNothing'
  <2>1. \A k \in Ask : ask'[k] = IF k[1] \in S THEN "none" ELSE ask[k]
    BY <1>8 DEF Silence, AskWithout
  <2>2. \A t \in Tx : t \notin S => charge'[t] = charge[t]
    BY <1>8 DEF Silence, Silenced
  <2>. QED
    BY <2>1, <2>2, HistoryGrows
<1>9. CASE ReviveDead
  BY <1>1, <1>9 DEF ReviveDead
<1>10. ASSUME NEW S \in SUBSET Ask, NEW F \in SUBSET Final, Claim(S, F) PROVE SilencedAsksNothing'
  BY <1>1, <1>10 DEF Claim, Claimed
<1>11. ASSUME NEW k \in Ask, Load(k) \/ SendRaises(k) \/ RecordRaises(k) PROVE SilencedAsksNothing'
  BY <1>1, <1>11 DEF Load, SendRaises, RecordRaises
<1>12. ASSUME NEW k \in Ask, NEW m \in Msg, Send(k, m) PROVE SilencedAsksNothing'
  BY <1>1, <1>12 DEF Send
<1>13. ASSUME NEW k \in Ask, Record(k) PROVE SilencedAsksNothing'
  <2>1. \A t \in Tx : charge'[t].status = "silenced" =>
               charge[t].status = "silenced" /\ charge'[t].id = charge[t].id
    BY <1>13 DEF Record, Told, TypeOK
  <2>. QED
    BY <1>1, <1>13, <2>1 DEF Record
<1>14. ASSUME NEW k \in Ask, Finish(k) \/ FinishWithoutRow(k) PROVE SilencedAsksNothing'
  <2>1. \A j \in Ask : ask[j] = "none" => ask'[j] = "none"
    BY <1>14, ClosesFrame DEF Finish, FinishWithoutRow, TypeOK
  <2>. QED
    BY <1>1, <1>14, <2>1 DEF Finish, FinishWithoutRow
<1>15. ASSUME NEW m \in Msg, TakeDown(m) \/ TakeDownFails(m) PROVE SilencedAsksNothing'
  BY <1>1, <1>15 DEF TakeDown, TakeDownFails
<1>16. ASSUME NEW k \in Final, Finalizer(k) PROVE SilencedAsksNothing'
  BY <1>1, <1>16, FinalizerFrame, FinalizerAsks
<1>17. CASE UNCHANGED vars
  BY <1>1, <1>17 DEF vars
<1>. QED
  BY <1>2, <1>3, <1>4, <1>5, <1>6, <1>7, <1>8, <1>9, <1>10, <1>11, <1>12, <1>13, <1>14, <1>15, <1>16,
     <1>17, NextCases DEF World

(* The runs in hand keep their rows, but for those of the charges S. *)
RowsLost(S) ==
  \A k \in Ask : InHand(k)' => InHand(k) /\ (Holds(k)' <=> (Holds(k) /\ k[1] \notin S))

LEMMA RowsStep ==
  ASSUME TypeOK, JobsHaveCharge, [Next]_vars
  PROVE  \/ RowsLost({})
         \/ \E t \in Tx : DeleteTransaction(t) /\ RowsLost({t})
         \/ \E S \in SUBSET Tx : Silence(S) /\ RowsLost(S)
         \/ \A k \in Ask : InHand(k)' => Holds(k)'
<1> USE DEF InHand, Holds, RowsLost
<1>1. ASSUME UNCHANGED sending, \A k \in Ask : ask'[k] = "running" <=> ask[k] = "running"
      PROVE  RowsLost({})
  BY <1>1
<1>2. ASSUME NEW t \in Tx, NEW status \in {"new", "needs_attention", "closed"}, Ingest(t, status)
      PROVE  RowsLost({})
  <2>1. \A k \in Ask : ask'[k] = "running" <=> ask[k] = "running"
    BY <1>2 DEF Ingest, Outstanding, TypeOK
  <2>. QED
    BY <1>1, <1>2, <2>1 DEF Ingest
<1>3. ASSUME NEW t \in Tx, Resend(t) PROVE RowsLost({})
  <2>1. \A k \in Ask : k = <<t, charge[t].resends + 1>> => ask[k] = "none"
    BY <1>3, IdTypes DEF JobsHaveCharge
  <2>2. \A k \in Ask : ask'[k] = "running" <=> ask[k] = "running"
    BY <1>3, <2>1 DEF Resend, TypeOK
  <2>. QED
    BY <1>1, <1>3, <2>2 DEF Resend
<1>4. CASE Restart
  BY <1>4 DEF Restart, NoRun
<1>5. ASSUME NEW t \in Tx, DeleteTransaction(t) PROVE RowsLost({t})
  BY <1>5 DEF DeleteTransaction, AskWithout
<1>6. ASSUME NEW S \in SUBSET Tx, Silence(S) PROVE RowsLost(S)
  BY <1>6 DEF Silence, AskWithout
<1>7. CASE ReviveDead
  BY <1>1, <1>7 DEF ReviveDead
<1>8. ASSUME NEW S \in SUBSET Ask, NEW F \in SUBSET Final, Claim(S, F) PROVE \A k \in Ask : InHand(k)' => Holds(k)'
  BY <1>8 DEF Claim, Claimed, Busy, TypeOK
<1>9. ASSUME NEW k \in Ask, \A j \in Ask \ {k} : sending'[j] = sending[j],
             InHand(k)' => InHand(k) /\ (Holds(k)' <=> Holds(k)),
             \A j \in Ask \ {k} : ask'[j] = "running" <=> ask[j] = "running"
      PROVE  RowsLost({})
  BY <1>9
<1>10. ASSUME NEW k \in Ask, Load(k) \/ SendRaises(k) \/ Record(k) \/ RecordRaises(k) PROVE RowsLost({})
  <2>1. UNCHANGED ask /\ InHand(k) /\ \A j \in Ask \ {k} : sending'[j] = sending[j]
    BY <1>10 DEF Load, SendRaises, Record, RecordRaises, TypeOK
  <2>. QED
    BY <1>9, <2>1
<1>11. ASSUME NEW k \in Ask, NEW m \in Msg, Send(k, m) PROVE RowsLost({})
  <2>1. UNCHANGED ask /\ InHand(k) /\ \A j \in Ask \ {k} : sending'[j] = sending[j]
    BY <1>11 DEF Send, TypeOK
  <2>. QED
    BY <1>9, <2>1
<1>12. ASSUME NEW k \in Ask, Finish(k) \/ FinishWithoutRow(k) PROVE RowsLost({})
  <2>1. ~InHand(k)' /\ \A j \in Ask \ {k} : sending'[j] = sending[j]
    BY <1>12 DEF Finish, FinishWithoutRow, NoRun, TypeOK
  <2>2. \A j \in Ask \ {k} : ask'[j] = "running" <=> ask[j] = "running"
    BY <1>12, ClosesFrame DEF Finish, FinishWithoutRow, TypeOK
  <2>. QED
    BY <1>9, <2>1, <2>2
<1>13. CASE UNCHANGED <<ask, sending>>
  BY <1>1, <1>13
<1>14. CASE World
  <2>1. CASE Restart
    BY <1>4, <2>1
  <2>2. ASSUME NEW S \in SUBSET Tx, SweepLapsed(S) PROVE RowsLost({})
    BY <1>13, <2>2 DEF SweepLapsed
  <2>. QED
    BY <1>2, <1>4, <1>14, <2>2 DEF World
<1>15. ASSUME NEW t \in Tx, Restatus(t) PROVE RowsLost({})
  BY <1>13, <1>15, RestatusFrame
<1>16. ASSUME NEW k \in Final, Finalizer(k) PROVE RowsLost({})
  <2>1. \A j \in Ask : ask'[j] = "running" <=> ask[j] = "running"
    BY <1>16, FinalizerAsks
  <2>. QED
    BY <1>1, <1>16, <2>1, FinalizerFrame
<1>17. ASSUME NEW m \in Msg, TakeDown(m) \/ TakeDownFails(m) PROVE RowsLost({})
  BY <1>13, <1>17 DEF TakeDown, TakeDownFails
<1>18. CASE UNCHANGED vars
  BY <1>13, <1>18 DEF vars
<1>. QED
  BY <1>3, <1>5, <1>6, <1>7, <1>8, <1>10, <1>11, <1>12, <1>14, <1>15, <1>16, <1>17, <1>18, NextCases

LEMMA TogetherStep ==
  ASSUME TypeOK, JobsHaveCharge, RowsGoTogether, [Next]_vars
  PROVE  RowsGoTogether'
<1>1. ASSUME NEW S \in SUBSET Tx, RowsLost(S) PROVE RowsGoTogether'
  BY <1>1 DEF RowsLost, RowsGoTogether, InHand, Holds
<1>2. ASSUME \A k \in Ask : InHand(k)' => Holds(k)' PROVE RowsGoTogether'
  BY <1>2 DEF RowsGoTogether, InHand, Holds
<1>. QED
  BY <1>1, <1>2, RowsStep

(* A charge keeps its identity, or loses it; only a new one gets another. *)
LEMMA IdentityStep ==
  ASSUME TypeOK, IdsOK, [Next]_vars, NEW t \in Tx, NEW m \in Msg, Clean(m), Shows(m, t)',
         message'[m].about = message[m].about
  PROVE  Shows(m, t) /\ charge'[t].id = charge[t].id /\ (Unresent(t)' => Unresent(t))
<1> USE HistoryGrows DEF Shows, Unresent, Clean
<1>1. SUFFICES ASSUME charge'[t].id # charge[t].id PROVE FALSE
  OBVIOUS
<1>2. message[m].about # 0 /\ charge'[t].id = message[m].about
  OBVIOUS
<1>3. ASSUME NEW u \in Tx, NEW status \in {"new", "needs_attention", "closed"}, Ingest(u, status) PROVE FALSE
  <2>1. charge'[t].id \in {charge[t].id, births + 1}
    BY <1>3 DEF Ingest, NoCharge, TypeOK
  <2>. QED
    BY <1>1, <1>2, <2>1, IdTypes DEF IdsOK
<1>4. ASSUME NEW u \in Tx, DeleteTransaction(u) PROVE FALSE
  <2>1. charge'[t].id \in {charge[t].id, 0}
    BY <1>4 DEF DeleteTransaction, NoCharge, TypeOK
  <2>. QED
    BY <1>1, <1>2, <2>1
<1>5. CASE UNCHANGED charge
  BY <1>1, <1>5
<1>6. ASSUME NEW S \in SUBSET Tx, SweepLapsed(S) PROVE FALSE
  BY <1>1, <1>6 DEF SweepLapsed, TypeOK, Charge
<1>7. ASSUME NEW u \in Tx, Restatus(u) \/ Resend(u) PROVE FALSE
  BY <1>1, <1>7, RestatusFrame DEF Resend, Unannounced, TypeOK
<1>8. ASSUME NEW S \in SUBSET Tx, Silence(S) PROVE FALSE
  BY <1>1, <1>8 DEF Silence, Silenced
<1>9. ASSUME NEW k \in Ask, Record(k) PROVE FALSE
  BY <1>1, <1>9 DEF Record, Told, TypeOK
<1>10. CASE World
  BY <1>3, <1>5, <1>6, <1>10 DEF World, Restart
<1>11. ASSUME NEW k \in Ask,
              \/ Load(k) \/ SendRaises(k) \/ RecordRaises(k) \/ Finish(k) \/ FinishWithoutRow(k)
              \/ \E n \in Msg : Send(k, n)
       PROVE  FALSE
  BY <1>5, <1>11 DEF Load, SendRaises, RecordRaises, Finish, FinishWithoutRow, Send
<1>12. ASSUME NEW k \in Final, Finalizer(k) PROVE FALSE
  BY <1>5, <1>12, FinalizerFrame
<1>13. ASSUME NEW n \in Msg, TakeDown(n) \/ TakeDownFails(n) PROVE FALSE
  BY <1>5, <1>13 DEF TakeDown, TakeDownFails
<1>14. CASE ReviveDead \/ UNCHANGED vars \/ \E S \in SUBSET Ask, F \in SUBSET Final : Claim(S, F)
  BY <1>5, <1>14 DEF ReviveDead, vars, Claim, Claimed
<1>. QED
  BY <1>4, <1>7, <1>8, <1>9, <1>10, <1>11, <1>12, <1>13, <1>14, NextCases

(* The run that posts m is about the charge that m shows. *)
LEMMA SendShows ==
  ASSUME TypeOK, RunIsAbout, IdsOK, NEW k \in Ask, NEW m \in Msg, Send(k, m), Holds(k),
         NEW t \in Tx, Shows(m, t)'
  PROVE  t = k[1] /\ message'[m].about = charge[k[1]].id /\ charge[k[1]].id # 0
<1>1. message'[m].about = sending[k].about /\ charge' = charge
  BY DEF Send, Posted, TypeOK
<1>2. sending[k].about = charge[k[1]].id /\ sending[k].about # 0
  BY DEF Send, RunIsAbout, Holds
<1>. QED
  BY <1>1, <1>2, AskParts DEF Shows, IdsOK

(* The recorded charge of a standing message. *)
LEMMA StandingShows ==
  ASSUME TypeOK, JobsHaveCharge, RecordsHaveCharge, ReplyFindsItsCharge, IdsOK, StandingIsRecorded,
         StandingIsCurrent, NEW m \in Msg, Standing(m), NEW t \in Tx, Shows(m, t), Unresent(t)
  PROVE  message[m].tx = t /\ charge[t].msg = m /\ charge[t].status # "silenced"
<1>1. message[m].tx # 0 /\ message[m].tx \in Tx
  BY RecordIsOfTx DEF StandingIsRecorded
<1>2. charge[message[m].tx].id = message[m].about /\ charge[message[m].tx].id # 0
  BY <1>1 DEF Standing, ReplyFindsItsCharge, RecordsHaveCharge, JobsHaveCharge
<1>3. message[m].tx = t
  BY <1>1, <1>2 DEF Shows, IdsOK
<1>. QED
  BY <1>1, <1>2, <1>3 DEF StandingIsCurrent, Unresent

LEMMA RowlessStep ==
  ASSUME TypeOK, JobsHaveCharge, RunIsAbout, RecordsHaveCharge, ReplyFindsItsCharge, IdsOK, RowsGoTogether,
         RowlessIsOver, StandingIsRecorded, StandingIsCurrent, [Next]_vars
  PROVE  RowlessIsOver'
<1>1. SUFFICES ASSUME NEW k \in Ask, NEW m \in Msg, InHand(k)', ~Holds(k)', Clean(m)',
                      Shows(m, k[1])', Unresent(k[1])', Standing(m)'
               PROVE  FALSE
  BY DEF RowlessIsOver, InHand, Holds, Clean, Shows, Unresent
<1>2. k[1] \in Tx
  BY AskParts
<1>3. ASSUME NEW j \in Ask, Send(j, m) PROVE FALSE
  BY <1>1, <1>3 DEF Send, Standing, InFlight, TypeOK
<1>4. Clean(m) /\ message'[m].about = message[m].about
  BY <1>1, <1>3, CleanStep
<1>5. Shows(m, k[1]) /\ charge'[k[1]].id = charge[k[1]].id /\ Unresent(k[1])
  BY <1>1, <1>2, <1>4, IdentityStep
<1>6. CASE Standing(m)
  <2>1. InHand(k) => Holds(k)
    BY <1>4, <1>5, <1>6 DEF RowlessIsOver
  <2>2. CASE RowsLost({})
    BY <1>1, <2>1, <2>2 DEF RowsLost, InHand, Holds
  <2>3. ASSUME NEW t \in Tx, DeleteTransaction(t), RowsLost({t}) PROVE FALSE
    <3>1. k[1] = t
      BY <1>1, <2>1, <2>3 DEF RowsLost, InHand, Holds
    <3>2. charge'[t].id = 0
      BY <2>3 DEF DeleteTransaction, NoCharge, TypeOK
    <3>. QED
      BY <1>4, <1>5, <3>1, <3>2 DEF Clean, Shows
  <2>4. ASSUME NEW S \in SUBSET Tx, Silence(S), RowsLost(S) PROVE FALSE
    <3>1. k[1] \in S
      BY <1>1, <2>1, <2>4 DEF RowsLost, InHand, Holds
    <3>2. charge[k[1]].msg = m
      BY <1>2, <1>5, <1>6, StandingShows
    <3>3. takedown'[m] = "pending"
      BY <2>4, <3>1, <3>2 DEF Silence, TakedownWith
    <3>. QED
      BY <1>1, <3>3 DEF Standing
  <2>5. CASE \A j \in Ask : InHand(j)' => Holds(j)'
    BY <1>1, <2>5
  <2>. QED
    BY <2>2, <2>3, <2>4, <2>5, RowsStep
<1>7. ASSUME NEW j \in Ask, Record(j), m = sending[j].msg PROVE FALSE
  <2>1. Holds(j) /\ InHand(j)
    BY <1>1, <1>7 DEF Record, Belated, Clean, Holds, InHand
  <2>2. charge[j[1]].id = message[m].about /\ message[m].about # 0
    BY <1>7, <2>1 DEF Record, RunIsAbout, Holds
  <2>3. j[1] = k[1]
    BY <1>2, <1>5, <2>2, AskParts DEF Shows, IdsOK
  <2>4. InHand(k) /\ ~Holds(k)
    BY <1>1, <1>7 DEF Record, InHand, Holds, TypeOK
  <2>. QED
    BY <2>1, <2>3, <2>4 DEF RowsGoTogether
<1>. QED
  BY <1>1, <1>6, <1>7, StandingStep

(* The run that posts m has the row of the first round. *)
LEMMA SendIsFirst ==
  ASSUME TypeOK, JobsHaveCharge, RunIsAbout, IdsOK, NEW k \in Ask, NEW m \in Msg, Send(k, m), Holds(k),
         NEW t \in Tx, Shows(m, t)', Unresent(t)
  PROVE  k = <<t, 0>>
<1>1. t = k[1]
  BY SendShows
<1>2. ask[k] # "none"
  BY DEF Holds
<1>. QED
  BY <1>1, <1>2, FirstRound

LEMMA AnnouncedStep ==
  ASSUME TypeOK, JobsHaveCharge, RunIsAbout, IdsOK, NoSecond, AnnouncedOnce, [Next]_vars
  PROVE  AnnouncedOnce'
<1>1. SUFFICES ASSUME NEW m \in Msg, NEW n \in Msg, Clean(m)', Clean(n)', m # n,
                      message'[m].about = message'[n].about, message'[m].about \notin resent'
               PROVE  FALSE
  BY DEF AnnouncedOnce, Clean
<1>2. CASE Clean(m) /\ message'[m].about = message[m].about /\ Clean(n) /\ message'[n].about = message[n].about
  BY <1>1, <1>2, HistoryGrows DEF AnnouncedOnce, Clean
<1>3. ASSUME NEW k \in Ask, NEW p \in Msg, NEW q \in Msg, Send(k, p), Holds(k), p # q,
             Clean(p)', Clean(q)', message'[p].about = message'[q].about, message'[p].about \notin resent'
      PROVE  FALSE
  <2> DEFINE t == k[1]
  <2>1. message'[p].about = sending[k].about /\ message'[q] = message[q] /\ charge' = charge
    BY <1>3 DEF Send, Posted, TypeOK
  <2>2. sending[k].at = "loaded" /\ charge[t].id = sending[k].about
    BY <1>3 DEF Send, RunIsAbout, Holds
  <2>3. t \in Tx /\ Shows(q, t) /\ Unresent(t) /\ Clean(q)
    BY <1>3, <2>1, <2>2, AskParts, HistoryGrows DEF Shows, Unresent, Clean
  <2>4. k = <<t, 0>>
    BY <1>3, <2>3, FirstRound DEF Holds
  <2>. QED
    BY <1>3, <2>2, <2>3, <2>4 DEF NoSecond, Holds
<1>4. CASE \E k \in Ask : Send(k, m) /\ Holds(k)
  BY <1>1, <1>3, <1>4
<1>5. CASE \E k \in Ask : Send(k, n) /\ Holds(k)
  BY <1>1, <1>3, <1>5
<1>. QED
  BY <1>1, <1>2, <1>4, <1>5, CleanStep

(* No step lets a second run post about a charge that m announces. *)
LEMMA NoSecondStep ==
  ASSUME TypeOK, JobsHaveCharge, RunIsAbout, IdsOK, NoSecond, [Next]_vars
  PROVE  NoSecond'
<1>1. SUFFICES ASSUME NEW m \in Msg, NEW t \in Tx, Clean(m)', Shows(m, t)', Unresent(t)'
               PROVE  (\/ ask[<<t, 0>>] = "none"
                       \/ charge[t].msg # 0 /\ ~(Holds(<<t, 0>>) /\ sending[<<t, 0>>].at \in {"loaded", "sent"})
                       \/ Holds(<<t, 0>>) /\ sending[<<t, 0>>].at = "sent" /\ sending[<<t, 0>>].msg = m)'
  BY DEF NoSecond
<1> DEFINE f == <<t, 0>>
           Unasked == ask[f] = "none"
           Recorded == charge[t].msg # 0 /\ ~(Holds(f) /\ sending[f].at \in {"loaded", "sent"})
           Mine == Holds(f) /\ sending[f].at = "sent" /\ sending[f].msg = m
           G == Unasked' \/ Recorded' \/ Mine'
<1>2. f \in Ask /\ f[1] = t
  BY ChargeAssumption DEF Ask
<1>3. ASSUME NEW k \in Ask, Send(k, m), Holds(k) PROVE G
  <2>1. Unresent(t)
    BY <1>1, <1>3 DEF Send, Unresent
  <2>2. k = f
    BY <1>1, <1>3, <2>1, SendIsFirst
  <2>. QED
    BY <1>2, <1>3, <2>2 DEF Send, Holds, TypeOK
<1>4. SUFFICES ASSUME Clean(m), message'[m].about = message[m].about PROVE G
  BY <1>1, <1>3, CleanStep
<1>5. Shows(m, t) /\ charge'[t].id = charge[t].id /\ Unresent(t)
  BY <1>1, <1>4, IdentityStep
<1>6. Unasked \/ Recorded \/ Mine
  BY <1>4, <1>5 DEF NoSecond
<1> USE DEF Holds
(* Steps that leave the first round and the recorded message alone.         *)
<1>7. ASSUME sending'[f] = sending[f], charge'[t].msg = charge[t].msg,
             ask'[f] = "running" <=> ask[f] = "running", ask[f] = "none" => ask'[f] = "none"
      PROVE  G
  BY <1>6, <1>7
<1>8. ASSUME NEW u \in Tx, NEW status \in {"new", "needs_attention", "closed"}, Ingest(u, status) PROVE G
  <2>1. u # t
    <3>1. CASE u = t
      <4>1. charge'[t].id = births + 1
        BY <1>8, <3>1 DEF Ingest, NoCharge, TypeOK
      <4>2. charge[t].id < births + 1
        BY IdTypes DEF IdsOK
      <4>. QED
        BY <1>5, <4>1, <4>2, IdTypes
    <3>. QED
      BY <3>1
  <2>2. charge'[t] = charge[t] /\ ask'[f] = ask[f]
    BY <1>2, <1>8, <2>1 DEF Ingest, TypeOK
  <2>. QED
    BY <1>7, <1>8, <2>2 DEF Ingest
<1>9. ASSUME NEW S \in SUBSET Tx, SweepLapsed(S) PROVE G
  <2>1. charge'[t].msg = charge[t].msg
    BY <1>9 DEF SweepLapsed, TypeOK, Charge
  <2>. QED
    BY <1>7, <1>9, <2>1 DEF SweepLapsed
<1>10. CASE Restart
  <2>1. ~Mine
    BY <1>1, <1>2, <1>10 DEF Restart, Clean
  <2>. QED
    BY <1>2, <1>6, <1>10, <2>1 DEF Restart, NoRun, TypeOK
<1>11. ASSUME NEW u \in Tx, Restatus(u) PROVE G
  <2>1. charge'[t].msg = charge[t].msg
    BY <1>11, RestatusFrame
  <2>. QED
    BY <1>7, <1>11, <2>1, RestatusFrame
<1>12. ASSUME NEW u \in Tx, Resend(u) PROVE G
  <2>1. u # t
    <3>1. CASE u = t
      BY <1>1, <1>5, <1>12, <3>1 DEF Resend, Unresent
    <3>. QED
      BY <3>1
  <2>2. charge'[t] = charge[t] /\ ask'[f] = ask[f]
    BY <1>2, <1>12, <2>1 DEF Resend, TypeOK
  <2>. QED
    BY <1>7, <1>12, <2>2 DEF Resend
<1>13. ASSUME NEW u \in Tx, DeleteTransaction(u) PROVE G
  <2>1. u # t
    <3>1. CASE u = t
      <4>1. charge'[t].id = 0
        BY <1>13, <3>1 DEF DeleteTransaction, NoCharge, TypeOK
      <4>. QED
        BY <1>4, <1>5, <4>1 DEF Clean, Shows
    <3>. QED
      BY <3>1
  <2>2. charge'[t] = charge[t] /\ ask'[f] = ask[f]
    BY <1>2, <1>13, <2>1 DEF DeleteTransaction, AskWithout, TypeOK
  <2>. QED
    BY <1>7, <1>13, <2>2 DEF DeleteTransaction
<1>14. ASSUME NEW S \in SUBSET Tx, Silence(S) PROVE G
  <2>1. ask'[f] = IF t \in S THEN "none" ELSE ask[f]
    BY <1>2, <1>14 DEF Silence, AskWithout
  <2>2. t \notin S => charge'[t] = charge[t]
    BY <1>14 DEF Silence, Silenced
  <2>3. UNCHANGED sending
    BY <1>14 DEF Silence
  <2>. QED
    BY <1>7, <2>1, <2>2, <2>3
<1>15. CASE ReviveDead
  BY <1>2, <1>7, <1>15 DEF ReviveDead
<1>16. ASSUME NEW S \in SUBSET Ask, NEW F \in SUBSET Final, Claim(S, F) PROVE G
  <2>1. sending[f].at = "idle" /\ sending'[f].at \in {"idle", "started"} /\ charge' = charge
    BY <1>2, <1>16 DEF Claim, Claimed, Busy, NoRun, TypeOK
  <2>2. ask[f] = "none" => ask'[f] = "none"
    BY <1>2, <1>16 DEF Claim, Claimed
  <2>. QED
    BY <1>6, <2>1, <2>2
(* A step of one run.                                                       *)
<1>17. ASSUME NEW k \in Ask, UNCHANGED <<charge, ask>>, k # f => sending'[f] = sending[f],
              k = f => sending'[f].at \in {"ok", "failed"}, k = f => ~Mine
       PROVE  G
  BY <1>6, <1>7, <1>17
<1>18. ASSUME NEW k \in Ask, Load(k) PROVE G
  <2>1. sending[k].at = "started" /\ UNCHANGED <<charge, ask>>
    BY <1>18 DEF Load
  <2>2. k # f => sending'[f] = sending[f]
    BY <1>2, <1>18 DEF Load, TypeOK
  <2>3. k = f /\ charge[t].msg # 0 => sending'[f].at = "ok"
    BY <1>2, <1>18 DEF Load, TypeOK, Run
  <2>. QED
    BY <1>6, <1>7, <2>1, <2>2, <2>3
<1>19. ASSUME NEW k \in Ask, SendRaises(k) PROVE G
  <2>1. sending[k].at = "loaded" /\ UNCHANGED <<charge, ask>>
    BY <1>19 DEF SendRaises
  <2>2. (k # f => sending'[f] = sending[f]) /\ (k = f => sending'[f].at = "failed")
    BY <1>2, <1>19 DEF SendRaises, TypeOK, Run
  <2>. QED
    BY <1>17, <2>1, <2>2
<1>20. ASSUME NEW k \in Ask, NEW n \in Msg, Send(k, n) PROVE G
  <2>1. sending[k].at = "loaded" /\ UNCHANGED <<charge, ask>>
    BY <1>20 DEF Send
  <2>2. k # f => sending'[f] = sending[f]
    BY <1>2, <1>20 DEF Send, TypeOK
  <2>. QED
    BY <1>6, <1>7, <2>1, <2>2
<1>21. ASSUME NEW k \in Ask, Record(k) PROVE G
  <2>1. sending[k].at = "sent" /\ UNCHANGED ask /\ sending[k].msg # 0
    BY <1>21 DEF Record, RunIsAbout, Msg
  <2>2. (k # f => sending'[f] = sending[f]) /\ (k = f => sending'[f].at = "ok")
    BY <1>2, <1>21 DEF Record, TypeOK, Run
  <2>3. charge'[t].msg = charge[t].msg \/ charge'[t].msg # 0
    BY <1>21, <2>1 DEF Record, Told, TypeOK
  <2>4. k = f /\ t \in Present => charge'[t].msg # 0
    BY <1>2, <1>21, <2>1 DEF Record, Told, TypeOK
  <2>5. ask[f] # "none" => t \in Present
    BY <1>2 DEF JobsHaveCharge, Present
  <2>6. CASE k = f
    <3>1. CASE ask[f] = "none"
      BY <2>1, <3>1
    <3>2. CASE ask[f] # "none"
      BY <2>2, <2>4, <2>5, <2>6, <3>2
    <3>. QED
      BY <3>1, <3>2
  <2>7. CASE k # f
    BY <1>6, <2>1, <2>2, <2>3, <2>7
  <2>. QED
    BY <2>6, <2>7
<1>22. ASSUME NEW k \in Ask, RecordRaises(k) PROVE G
  <2>1. UNCHANGED <<charge, ask>> /\ m # sending[k].msg
    BY <1>1, <1>22 DEF RecordRaises, Clean
  <2>2. (k # f => sending'[f] = sending[f]) /\ (k = f => sending'[f].at = "failed")
    BY <1>2, <1>22 DEF RecordRaises, TypeOK, Run
  <2>. QED
    BY <1>17, <2>1, <2>2
<1>23. ASSUME NEW k \in Ask, Finish(k) \/ FinishWithoutRow(k) PROVE G
  <2>1. sending[k].at \notin {"loaded", "sent"} /\ UNCHANGED charge
    BY <1>23 DEF Finish, FinishWithoutRow
  <2>2. (k # f => sending'[f] = sending[f]) /\ (k = f => sending'[f].at = "idle")
    BY <1>2, <1>23 DEF Finish, FinishWithoutRow, NoRun, TypeOK
  <2>3. ask[f] = "none" => ask'[f] = "none"
    BY <1>2, <1>23, ClosesFrame DEF Finish, FinishWithoutRow, TypeOK
  <2>4. k # f => ask'[f] = "none" \/ (ask'[f] = "running" <=> ask[f] = "running")
    BY <1>2, <1>23, ClosesFrame DEF Finish, FinishWithoutRow, TypeOK
  <2>5. CASE k = f
    BY <1>6, <2>1, <2>2, <2>3, <2>5
  <2>6. CASE k # f
    BY <1>7, <2>1, <2>2, <2>3, <2>4, <2>6
  <2>. QED
    BY <2>5, <2>6
<1>24. ASSUME NEW n \in Msg, TakeDown(n) \/ TakeDownFails(n) PROVE G
  BY <1>7, <1>24 DEF TakeDown, TakeDownFails
<1>25. ASSUME NEW k \in Final, Finalizer(k) PROVE G
  BY <1>2, <1>7, <1>25, FinalizerFrame, FinalizerAsks
<1>26. CASE UNCHANGED vars
  BY <1>7, <1>26 DEF vars
<1>. QED
  BY <1>8, <1>9, <1>10, <1>11, <1>12, <1>13, <1>14, <1>15, <1>16, <1>18, <1>19, <1>20, <1>21, <1>22, <1>23, <1>24, <1>25,
     <1>26, NextCases DEF World

-----------------------------------------------------------------------------
LEMMA RecordedStep ==
  ASSUME TypeOK, JobsHaveCharge, RunIsAbout, IdsOK, RecordsHaveCharge, StandingIsRecorded, [Next]_vars
  PROVE  StandingIsRecorded'
<1>1. SUFFICES ASSUME NEW m \in Msg, Standing(m)' PROVE message'[m].tx # 0
  BY DEF StandingIsRecorded
<1>2. takedown'[m] = "none"
  BY <1>1 DEF Standing
<1>3. ASSUME NEW k \in Ask, Record(k), m = sending[k].msg PROVE message'[m].tx # 0
  <2>1. k[1] \in Present
    <3>1. ask[k] = "running"
      BY <1>1, <1>3 DEF Record, Belated, Standing
    <3>. QED
      BY <3>1, AskParts DEF JobsHaveCharge, Present
  <2>. QED
    BY <1>3, <2>1, AskParts, ChargeAssumption DEF Record, Tx, TypeOK, Message
<1>4. SUFFICES ASSUME message[m].tx # 0 PROVE message'[m].tx # 0
  BY <1>1, <1>3, StandingStep DEF StandingIsRecorded
<1>5. ASSUME NEW t \in Tx, DeleteTransaction(t) PROVE message'[m].tx # 0
  <2>1. m \notin RecordsOf(t)
    BY <1>2, <1>5 DEF DeleteTransaction, TakedownWith
  <2>. QED
    BY <1>4, <1>5, <2>1 DEF DeleteTransaction, Unrecorded
<1>6. CASE World
  BY <1>4, <1>6 DEF World, Ingest, SweepLapsed, Restart
<1>7. ASSUME UNCHANGED message PROVE message'[m].tx # 0
  BY <1>4, <1>7
<1>8. ASSUME NEW k \in Ask, NEW n \in Msg, message' = Posted(n, sending[k].about), IsNextMsg(n),
             n = m => m \in stray' \/ InFlight(m)'
      PROVE  message'[m].tx # 0
  <2>1. n # m
    BY <1>1, <1>8 DEF Standing
  <2>. QED
    BY <1>4, <1>8, <2>1 DEF Posted, TypeOK
<1>9. ASSUME NEW k \in Ask, SendRaises(k) PROVE message'[m].tx # 0
  BY <1>4, <1>8, <1>9 DEF SendRaises
<1>10. ASSUME NEW k \in Ask, NEW n \in Msg, Send(k, n) PROVE message'[m].tx # 0
  <2>1. sending'[k].at = "sent" /\ sending'[k].msg = n
    BY <1>10 DEF Send, TypeOK
  <2>. QED
    BY <1>8, <1>10, <2>1 DEF Send, InFlight
<1>11. ASSUME NEW k \in Ask, Record(k) PROVE message'[m].tx # 0
  BY <1>3, <1>4, <1>11, AskParts DEF Record, TypeOK
<1>12. ASSUME NEW n \in Msg, TakeDown(n) \/ TakeDownFails(n) PROVE message'[m].tx # 0
  BY <1>4, <1>12 DEF TakeDown, TakeDownFails, TypeOK, Message
<1>13. ASSUME NEW k \in Ask, Load(k) \/ RecordRaises(k) \/ Finish(k) \/ FinishWithoutRow(k)
       PROVE  message'[m].tx # 0
  BY <1>7, <1>13 DEF Load, RecordRaises, Finish, FinishWithoutRow
<1>14. ASSUME NEW k \in Final, Finalizer(k) PROVE message'[m].tx # 0
  BY <1>4, <1>14, FinalizerFrame
<1>15. ASSUME NEW t \in Tx, Restatus(t) \/ Resend(t) PROVE message'[m].tx # 0
  BY <1>7, <1>15, RestatusFrame DEF Resend
<1>16. CASE ReviveDead \/ UNCHANGED vars \/ (\E S \in SUBSET Tx : Silence(S))
                       \/ \E S \in SUBSET Ask, F \in SUBSET Final : Claim(S, F)
  BY <1>7, <1>16 DEF ReviveDead, vars, Silence, Claim, Claimed
<1>. QED
  BY <1>5, <1>6, <1>9, <1>10, <1>11, <1>12, <1>13, <1>14, <1>15, <1>16, NextCases

(* What silencing a charge would delete is what the channel shows. *)
LEMMA CurrentStep ==
  ASSUME TypeOK, JobsHaveCharge, RunIsAbout, RecordsHaveCharge, ReplyFindsItsCharge, IdsOK, NoSecond,
         SilencedAsksNothing, RowlessIsOver, StandingIsRecorded, StandingIsCurrent, [Next]_vars
  PROVE  StandingIsCurrent'
<1>1. SUFFICES ASSUME NEW m \in Msg, Standing(m)', message'[m].tx # 0, message'[m].about \notin resent'
               PROVE  (charge[message[m].tx].msg = m /\ charge[message[m].tx].status # "silenced")'
  BY DEF StandingIsCurrent
<1> DEFINE G == (charge[message[m].tx].msg = m /\ charge[message[m].tx].status # "silenced")'
<1>2. m \notin stray' \cup late' /\ takedown'[m] = "none" /\ message'[m].up
  BY <1>1 DEF Standing
<1>3. ASSUME NEW k \in Ask, Record(k), m = sending[k].msg PROVE G
  <2>1. ask[k] = "running" /\ k[1] \in Tx
    BY <1>2, <1>3, AskParts DEF Record, Belated
  <2>2. k[1] \in Present
    BY <2>1 DEF JobsHaveCharge, Present
  <2>3. message'[m].tx = k[1] /\ message'[m].about = message[m].about
    BY <1>3, <2>2 DEF Record, TypeOK, Message
  <2>4. charge'[k[1]].msg = m /\ (charge'[k[1]].status = "silenced" => charge[k[1]].status = "silenced")
    BY <1>3, <2>1, <2>2 DEF Record, Told, TypeOK
  <2>5. message[m].about = charge[k[1]].id
    BY <1>3, <2>1 DEF Record, RunIsAbout
  <2>6. charge[k[1]].status # "silenced"
    BY <1>1, <2>1, <2>3, <2>5, HistoryGrows DEF SilencedAsksNothing, Unresent, AsksOf
  <2>. QED
    BY <2>3, <2>4, <2>6
<1>4. SUFFICES ASSUME Standing(m), \A k \in Ask : Record(k) => m # sending[k].msg PROVE G
  BY <1>1, <1>3, StandingStep
<1>5. message[m].tx # 0 /\ message[m].tx \in Tx
  BY <1>4, RecordIsOfTx DEF StandingIsRecorded
<1>6. PICK t \in Tx : t = message[m].tx
  BY <1>5
<1>7. message'[m].tx = t /\ message'[m].about = message[m].about
  <2> DEFINE H == message'[m].tx = t /\ message'[m].about = message[m].about
  <2>1. CASE UNCHANGED message
    BY <1>6, <2>1
  <2>2. ASSUME NEW u \in Tx, DeleteTransaction(u) PROVE H
    BY <1>1, <1>6, <2>2 DEF DeleteTransaction, Unrecorded, TypeOK, Message
  <2>3. ASSUME NEW k \in Ask, NEW n \in Msg, message' = Posted(n, sending[k].about) PROVE H
    BY <1>1, <1>6, <2>3 DEF Posted, TypeOK
  <2>4. ASSUME NEW k \in Ask, SendRaises(k) PROVE H
    BY <2>1, <2>3, <2>4 DEF SendRaises
  <2>5. ASSUME NEW k \in Ask, Record(k) PROVE H
    BY <1>4, <1>6, <2>5 DEF Record, TypeOK
  <2>6. ASSUME NEW n \in Msg, TakeDown(n) PROVE H
    BY <1>6, <2>6 DEF TakeDown, TypeOK, Message
  <2>7. CASE World
    BY <2>1, <2>7 DEF World, Ingest, SweepLapsed, Restart
  <2>8. ASSUME NEW k \in Ask, \/ Load(k) \/ RecordRaises(k) \/ Finish(k) \/ FinishWithoutRow(k)
                             \/ \E n \in Msg : Send(k, n)
        PROVE  H
    BY <2>1, <2>3, <2>8 DEF Load, RecordRaises, Finish, FinishWithoutRow, Send
  <2>9. ASSUME NEW k \in Final, Finalizer(k) PROVE H
    BY <1>6, <2>9, FinalizerFrame
  <2>10. ASSUME NEW u \in Tx, Restatus(u) \/ Resend(u) PROVE H
    BY <2>1, <2>10, RestatusFrame DEF Resend
  <2>11. CASE ReviveDead \/ UNCHANGED vars \/ (\E S \in SUBSET Tx : Silence(S))
                         \/ \E S \in SUBSET Ask, F \in SUBSET Final : Claim(S, F)
    BY <2>1, <2>11 DEF ReviveDead, vars, Silence, Claim, Claimed
  <2>12. ASSUME NEW n \in Msg, TakeDownFails(n) PROVE H
    BY <2>1, <2>12 DEF TakeDownFails
  <2>. QED
    BY <2>2, <2>4, <2>5, <2>6, <2>7, <2>8, <2>9, <2>10, <2>11, <2>12, NextCases
<1>8. charge[t].id = message[m].about /\ charge[t].id # 0 /\ charge[t].status # "absent"
  BY <1>2, <1>5, <1>6, HistoryGrows DEF ReplyFindsItsCharge, RecordsHaveCharge, JobsHaveCharge
<1>9. Unresent(t) /\ Clean(m) /\ Shows(m, t)
  BY <1>1, <1>2, <1>7, <1>8, HistoryGrows DEF Unresent, Clean, Shows
<1>10. charge[t].msg = m /\ charge[t].status # "silenced"
  BY <1>4, <1>5, <1>6, <1>8, <1>9 DEF StandingIsCurrent, Unresent
<1>11. SUFFICES charge'[t].msg = m /\ charge'[t].status # "silenced"
  BY <1>7
<1>12. CASE UNCHANGED charge
  BY <1>10, <1>12
<1> DEFINE H == charge'[t].msg = m /\ charge'[t].status # "silenced"
<1>13. ASSUME NEW u \in Tx, NEW status \in {"new", "needs_attention", "closed"}, Ingest(u, status) PROVE H
  BY <1>8, <1>10, <1>13, NextTxIsFree DEF Ingest, TypeOK
<1>14. ASSUME NEW S \in SUBSET Tx, SweepLapsed(S) PROVE H
  BY <1>10, <1>14 DEF SweepLapsed, TypeOK, Charge
<1>15. ASSUME NEW u \in Tx, Restatus(u) PROVE H
  BY <1>10, <1>15, RestatusFrame
<1>16. ASSUME NEW u \in Tx, Resend(u) PROVE H
  <2>1. u # t
    BY <1>1, <1>7, <1>8, <1>16 DEF Resend
  <2>. QED
    BY <1>10, <1>16, <2>1 DEF Resend, TypeOK
<1>17. ASSUME NEW u \in Tx, DeleteTransaction(u) PROVE H
  <2>1. u # t
    BY <1>2, <1>6, <1>17 DEF DeleteTransaction, TakedownWith, RecordsOf
  <2>. QED
    BY <1>10, <1>17, <2>1 DEF DeleteTransaction, TypeOK
<1>18. ASSUME NEW S \in SUBSET Tx, Silence(S) PROVE H
  <2>1. t \notin S
    BY <1>2, <1>10, <1>18 DEF Silence, TakedownWith
  <2>. QED
    BY <1>10, <1>18, <2>1 DEF Silence, Silenced
<1>19. ASSUME NEW k \in Ask, Record(k) PROVE H
  <2>1. CASE k[1] # t
    BY <1>10, <1>19, <2>1 DEF Record, TypeOK
  <2>2. CASE k[1] = t
    <3>1. CASE Holds(k)
      <4>1. k = <<t, 0>>
        BY <1>9, <2>2, <3>1, FirstRound DEF Holds
      <4>2. sending[<<t, 0>>].at = "sent" /\ sending[<<t, 0>>].msg # m
        BY <1>4, <1>19, <4>1 DEF Record
      <4>. QED
        BY <1>9, <3>1, <4>1, <4>2 DEF NoSecond, Holds
    <3>2. CASE ~Holds(k)
      BY <1>4, <1>9, <1>19, <2>2, <3>2 DEF RowlessIsOver, Record, InHand
    <3>. QED
      BY <3>1, <3>2
  <2>. QED
    BY <2>1, <2>2
<1>20. CASE World
  BY <1>12, <1>13, <1>14, <1>20 DEF World, Restart
<1>21. ASSUME NEW k \in Ask,
              \/ Load(k) \/ SendRaises(k) \/ RecordRaises(k) \/ Finish(k) \/ FinishWithoutRow(k)
              \/ \E n \in Msg : Send(k, n)
       PROVE  H
  BY <1>12, <1>21 DEF Load, SendRaises, RecordRaises, Finish, FinishWithoutRow, Send
<1>22. ASSUME NEW k \in Final, Finalizer(k) PROVE H
  BY <1>12, <1>22, FinalizerFrame
<1>23. ASSUME NEW n \in Msg, TakeDown(n) \/ TakeDownFails(n) PROVE H
  BY <1>12, <1>23 DEF TakeDown, TakeDownFails
<1>24. CASE ReviveDead \/ UNCHANGED vars \/ \E S \in SUBSET Ask, F \in SUBSET Final : Claim(S, F)
  BY <1>12, <1>24 DEF ReviveDead, vars, Claim, Claimed
<1>. QED
  BY <1>15, <1>16, <1>17, <1>18, <1>19, <1>20, <1>21, <1>22, <1>23, <1>24, NextCases

-----------------------------------------------------------------------------
LEMMA InitJInv == Init => JInv
<1> SUFFICES ASSUME Init PROVE JInv
  OBVIOUS
<1>1. \A m \in Msg : message[m].about = 0 /\ ~message[m].up
  BY DEF Init, NoMessage
<1>2. \A k \in Ask : sending[k].at = "idle" /\ sending[k].about = 0 /\ ask[k] = "none"
  BY DEF Init, NoRun
<1>3. \A t \in Tx : charge[t].id = 0 /\ charge[t].resends = 0 /\ charge[t].status = "absent"
  BY DEF Init, NoCharge
<1>4. IdsOK
  BY <1>1, <1>2, <1>3 DEF IdsOK, Init
<1>5. NoSecond /\ AnnouncedOnce /\ RowlessIsOver
  BY <1>1 DEF NoSecond, AnnouncedOnce, RowlessIsOver, Clean
<1>6. SilencedAsksNothing /\ RowsGoTogether
  BY <1>2, <1>3 DEF SilencedAsksNothing, RowsGoTogether, InHand
<1>7. StandingIsRecorded /\ StandingIsCurrent
  BY <1>1 DEF StandingIsRecorded, StandingIsCurrent, Standing
<1>. QED
  BY <1>4, <1>5, <1>6, <1>7 DEF JInv

LEMMA Announcements == Spec => []JInv
<1>1. IInv /\ JInv /\ [Next]_vars => JInv'
  <2> SUFFICES ASSUME IInv, JInv, [Next]_vars PROVE JInv'
    OBVIOUS
  <2>1. IdsOK' /\ SilencedAsksNothing' /\ RowsGoTogether'
    BY IdsStep, SilencedStep, TogetherStep DEF IInv, JInv
  <2>2. NoSecond' /\ AnnouncedOnce'
    BY NoSecondStep, AnnouncedStep DEF IInv, JInv
  <2>3. RowlessIsOver'
    BY RowlessStep DEF IInv, JInv
  <2>4. StandingIsRecorded' /\ StandingIsCurrent'
    BY RecordedStep, CurrentStep DEF IInv, JInv
  <2>. QED
    BY <2>1, <2>2, <2>3, <2>4 DEF JInv
<1>. QED
  BY <1>1, InitJInv, Invariance, PTL DEF Spec

(* notify: a charge is announced by one message, whatever failed or was      *)
(* started again, unless a message was posted and not recorded, or its run  *)
(* had lost its row.                                                         *)
THEOREM Once == Spec => []AnnouncedOnce
  BY Announcements, PTL DEF JInv

(* silence_merchant and delete_transaction: the announcement of a charge     *)
(* that is gone or silenced is going to be deleted from the channel.        *)
THEOREM Withdrawn == Spec => []AskIsWithdrawn
<1>1. IInv /\ JInv => AskIsWithdrawn
  <2>1. SUFFICES ASSUME IInv, JInv, NEW m \in Msg, message[m].up,
                        takedown[m] = "none", m \notin stray \cup late \cup refused, ~InFlight(m)
                 PROVE  /\ ~Gone(message[m].about)
                        /\ message[m].about \notin resent => ~IsSilenced(message[m].about)
    BY DEF AskIsWithdrawn
  <2>2. Standing(m)
    BY <2>1 DEF Standing
  <2>3. message[m].tx # 0 /\ message[m].tx \in Tx
    BY <2>1, <2>2, RecordIsOfTx DEF IInv, JInv, StandingIsRecorded
  <2>4. charge[message[m].tx].id = message[m].about /\ message[m].about # 0
    BY <2>1, <2>3 DEF IInv, ReplyFindsItsCharge, RecordsHaveCharge, JobsHaveCharge
  <2>5. ASSUME message[m].about \notin resent PROVE ~IsSilenced(message[m].about)
    <3>1. charge[message[m].tx].status # "silenced"
      BY <2>1, <2>2, <2>3, <2>5 DEF JInv, StandingIsCurrent
    <3>. QED
      BY <2>1, <2>3, <2>4, <3>1 DEF JInv, IdsOK, IsSilenced
  <2>. QED
    BY <2>3, <2>4, <2>5 DEF Gone
<1>. QED
  BY <1>1, Announcements, Invariance, PTL

-----------------------------------------------------------------------------
(* What a charge has on record is in the channel as long as it asks. *)

(* A charge that does not ask, or asks again. *)
Settled(t) == charge[t].status \notin Asking \/ charge[t].id \in reopened

UnpostedIsUnknown ==
  \A m \in Msg : message[m].about = 0 => message[m].tx = 0 /\ takedown[m] = "none"

(* The message on record was posted, is recorded for this charge alone, and  *)
(* nobody asked to delete it.                                                *)
CurrentIsRecorded ==
  \A t \in Tx :
    charge[t].msg # 0 =>
      /\ charge[t].msg \in Msg
      /\ message[charge[t].msg].tx = t
      /\ message[charge[t].msg].about # 0
      /\ takedown[charge[t].msg] = "none"

(* Nobody else knows a message that its run has yet to record. *)
SentIsFresh ==
  \A k \in Ask :
    sending[k].at = "sent" =>
      /\ message[sending[k].msg].tx = 0
      /\ message[sending[k].msg].up
      /\ takedown[sending[k].msg] = "none"
      /\ \A j \in Ask \ {k} : sending[j].at = "sent" => sending[j].msg # sending[k].msg
      /\ \A f \in Final : finalizing[f].msg # sending[k].msg

JobIsOfSettled ==
  \A k \in Final : final[k] # "none" => charge[k[1]].status # "absent" /\ Settled(k[1])

(* A run of finalize that lost its row before it read the charge may find    *)
(* another one, but none that a run with a row has announced since.          *)
RunFindsSettled ==
  \A k \in Final :
    finalizing[k].at = "started" /\ final[k] # "running" =>
      /\ \A j \in AsksOf(k[1]) : ask[j] # "running"
      /\ charge[k[1]].msg \in {0} \cup late \/ Settled(k[1])

RunDeletesSettled ==
  \A k \in Final :
    finalizing[k].msg # 0 =>
      /\ finalizing[k].msg \in Msg
      /\ message[finalizing[k].msg].about # 0
      /\ \A t \in Tx :
           charge[t].msg = finalizing[k].msg => finalizing[k].msg \in late \/ Settled(t)

CurrentIsUp ==
  \A t \in Tx :
    charge[t].msg # 0 => message[charge[t].msg].up \/ charge[t].msg \in late \/ Settled(t)

CInv ==
  /\ UnpostedIsUnknown
  /\ CurrentIsRecorded
  /\ SentIsFresh
  /\ JobIsOfSettled
  /\ RunFindsSettled
  /\ RunDeletesSettled
  /\ CurrentIsUp

(* What a step may do to a charge: it comes, goes, or keeps its identity. *)
LEMMA ChargeStep ==
  ASSUME TypeOK, [Next]_vars, NEW t \in Tx
  PROVE  \/ charge[t].status = "absent" /\ charge'[t].msg = 0
         \/ charge'[t].status = "absent" /\ charge'[t].msg = 0
         \/ /\ charge'[t].status = "absent" <=> charge[t].status = "absent"
            /\ Settled(t) => Settled(t)'
            /\ \/ charge'[t].msg \in {0, charge[t].msg}
               \/ \E k \in Ask : Record(k) /\ k[1] = t /\ t \in Present /\ charge'[t].msg = sending[k].msg
<1> DEFINE G == \/ charge[t].status = "absent" /\ charge'[t].msg = 0
                \/ charge'[t].status = "absent" /\ charge'[t].msg = 0
                \/ /\ charge'[t].status = "absent" <=> charge[t].status = "absent"
                   /\ Settled(t) => Settled(t)'
                   /\ \/ charge'[t].msg \in {0, charge[t].msg}
                      \/ \E k \in Ask : Record(k) /\ k[1] = t /\ t \in Present /\ charge'[t].msg = sending[k].msg
<1> USE DEF Settled
<1>1. ASSUME charge'[t] = charge[t], reopened \subseteq reopened' PROVE G
  BY <1>1
<1>2. ASSUME UNCHANGED <<charge, reopened>> PROVE G
  BY <1>1, <1>2
<1>3. ASSUME NEW u \in Tx, NEW status \in {"new", "needs_attention", "closed"}, Ingest(u, status) PROVE G
  <2>1. CASE u = t
    <3>1. charge'[t].msg = 0
      BY <1>3, <2>1 DEF Ingest, NoCharge, TypeOK
    <3>2. charge[t].status = "absent"
      BY <1>3, <2>1, NextTxIsFree DEF Ingest
    <3>. QED
      BY <3>1, <3>2
  <2>2. CASE u # t
    BY <1>1, <1>3, <2>2 DEF Ingest, TypeOK, finals
  <2>. QED
    BY <2>1, <2>2
<1>4. ASSUME NEW S \in SUBSET Tx, SweepLapsed(S) PROVE G
  <2>1. CASE t \in S
    <3>1. charge'[t] = [charge[t] EXCEPT !.status = "lapsed"] /\ charge[t].status \in Asking /\ charge[t] \in Charge
      BY <1>4, <2>1 DEF SweepLapsed, Asking, TypeOK
    <3>2. charge'[t].id = charge[t].id /\ charge'[t].msg = charge[t].msg /\ charge'[t].status = "lapsed"
      BY <3>1 DEF Charge
    <3>3. UNCHANGED reopened
      BY <1>4 DEF SweepLapsed, finals
    <3>. QED
      BY <3>1, <3>2, <3>3 DEF Asking
  <2>2. CASE t \notin S
    BY <1>1, <1>4, <2>2 DEF SweepLapsed, finals
  <2>. QED
    BY <2>1, <2>2
<1>5. ASSUME NEW u \in Tx, Restatus(u) PROVE G
  BY <1>5, RestatusFrame
<1>6. ASSUME NEW u \in Tx, Resend(u) PROVE G
  <2>1. UNCHANGED reopened /\ \A v \in Tx \ {u} : charge'[v] = charge[v]
    BY <1>6 DEF Resend, finals, TypeOK
  <2>2. charge'[u] = Unannounced(charge[u])
    BY <1>6 DEF Resend, TypeOK
  <2>3. CASE t = u
    BY <2>1, <2>2, <2>3 DEF Unannounced
  <2>. QED
    BY <1>1, <2>1, <2>3
<1>7. ASSUME NEW u \in Tx, DeleteTransaction(u) PROVE G
  BY <1>7 DEF DeleteTransaction, NoCharge, TypeOK
<1>8. ASSUME NEW S \in SUBSET Tx, Silence(S) PROVE G
  <2>1. CASE t \in S
    <3>1. charge'[t].msg = 0 /\ charge'[t].status = "silenced" /\ charge[t].status \in Asking
      BY <1>8, <2>1 DEF Silence, Silenced
    <3>. QED
      BY <3>1 DEF Asking
  <2>2. CASE t \notin S
    BY <1>1, <1>8, <2>2 DEF Silence, Silenced
  <2>. QED
    BY <2>1, <2>2
<1>9. ASSUME NEW k \in Ask, Record(k) PROVE G
  <2>1. UNCHANGED reopened
    BY <1>9 DEF Record, finals
  <2>2. CASE k[1] = t /\ t \in Present
    <3>1. charge'[t] = Told(charge[t], sending[k].msg)
      BY <1>9, <2>2 DEF Record, TypeOK
    <3>2. charge'[t].msg = sending[k].msg /\ charge'[t].id = charge[t].id
      BY <3>1 DEF Told
    <3>3. charge'[t].status = IF charge[t].status = "new" THEN "notified" ELSE charge[t].status
      BY <3>1 DEF Told
    <3>. QED
      BY <1>9, <2>1, <2>2, <3>2, <3>3 DEF Asking
  <2>3. CASE ~(k[1] = t /\ t \in Present)
    <3>1. charge'[t] = charge[t]
      BY <1>9, <2>3 DEF Record, TypeOK
    <3>. QED
      BY <1>1, <2>1, <3>1
  <2>. QED
    BY <2>2, <2>3
<1>10. ASSUME NEW k \in Ask, \/ Load(k) \/ SendRaises(k) \/ RecordRaises(k) \/ Finish(k) \/ FinishWithoutRow(k)
                             \/ \E n \in Msg : Send(k, n)
       PROVE  G
  BY <1>2, <1>10 DEF Load, SendRaises, RecordRaises, Finish, FinishWithoutRow, Send, finals
<1>11. ASSUME NEW k \in Final, Finalizer(k) PROVE G
  BY <1>2, <1>11, FinalizerFrame
<1>12. ASSUME NEW n \in Msg, TakeDown(n) \/ TakeDownFails(n) PROVE G
  BY <1>2, <1>12 DEF TakeDown, TakeDownFails, finals
<1>13. CASE Restart \/ ReviveDead \/ UNCHANGED vars \/ \E S \in SUBSET Ask, F \in SUBSET Final : Claim(S, F)
  BY <1>2, <1>13 DEF Restart, ReviveDead, vars, Claim, Claimed
<1>. QED
  BY <1>3, <1>4, <1>5, <1>6, <1>7, <1>8, <1>9, <1>10, <1>11, <1>12, <1>13, NextCases DEF World

(* What a step may do to a message and its delete job. *)
LEMMA MessageStep ==
  ASSUME TypeOK, [Next]_vars, NEW m \in Msg
  PROVE  /\ message[m].about # 0 => message'[m].about = message[m].about
         /\ \/ message'[m].tx \in {0, message[m].tx}
            \/ \E k \in Ask : Record(k) /\ m = sending[k].msg /\ message'[m].tx = k[1]
         /\ message'[m].tx = message[m].tx \/ message[m].about = 0
              \/ (\E t \in Tx : DeleteTransaction(t) /\ message[m].tx = t)
              \/ \E k \in Ask : Record(k) /\ m = sending[k].msg
         /\ message[m].up => \/ message'[m].up \/ takedown[m] = "pending"
                             \/ \E f \in Final : finalizing[f].msg = m
         /\ \/ takedown[m] = "none" => takedown'[m] = "none"
            \/ \E t \in Tx : DeleteTransaction(t) /\ message[m].tx = t
            \/ \E t \in Tx : charge[t].msg = m /\ charge'[t].msg = 0
<1> DEFINE Kept == /\ message'[m].about = message[m].about
                   /\ message'[m].tx = message[m].tx
                   /\ message[m].up => message'[m].up
           Quiet == takedown[m] = "none" => takedown'[m] = "none"
           G == /\ message[m].about # 0 => message'[m].about = message[m].about
                /\ \/ message'[m].tx \in {0, message[m].tx}
                   \/ \E k \in Ask : Record(k) /\ m = sending[k].msg /\ message'[m].tx = k[1]
                /\ message'[m].tx = message[m].tx \/ message[m].about = 0
                     \/ (\E t \in Tx : DeleteTransaction(t) /\ message[m].tx = t)
                     \/ \E k \in Ask : Record(k) /\ m = sending[k].msg
                /\ message[m].up => \/ message'[m].up \/ takedown[m] = "pending"
                                    \/ \E f \in Final : finalizing[f].msg = m
                /\ \/ Quiet
                   \/ \E t \in Tx : DeleteTransaction(t) /\ message[m].tx = t
                   \/ \E t \in Tx : charge[t].msg = m /\ charge'[t].msg = 0
<1>1. ASSUME Kept, Quiet PROVE G
  BY <1>1
<1>2. ASSUME UNCHANGED message, Quiet PROVE G
  BY <1>1, <1>2
<1>3. CASE World
  BY <1>2, <1>3 DEF World, Ingest, SweepLapsed, Restart
<1>4. ASSUME NEW t \in Tx, Restatus(t) PROVE G
  BY <1>2, <1>4, RestatusFrame
<1>5. ASSUME NEW t \in Tx, DeleteTransaction(t) PROVE G
  <2>1. CASE message[m].tx = t
    <3>1. message'[m] = [message[m] EXCEPT !.tx = 0] /\ message[m] \in Message
      BY <1>5, <2>1 DEF DeleteTransaction, Unrecorded, RecordsOf, TypeOK
    <3>2. message'[m].about = message[m].about /\ message'[m].tx = 0 /\ message'[m].up = message[m].up
      BY <3>1 DEF Message
    <3>. QED
      BY <1>5, <2>1, <3>2
  <2>2. CASE message[m].tx # t
    BY <1>1, <1>5, <2>2 DEF DeleteTransaction, Unrecorded, RecordsOf, TakedownWith
  <2>. QED
    BY <2>1, <2>2
<1>6. ASSUME NEW S \in SUBSET Tx, Silence(S) PROVE G
  <2>1. UNCHANGED message
    BY <1>6 DEF Silence
  <2>2. CASE \E t \in S : charge[t].msg = m
    <3>1. PICK t \in S : charge[t].msg = m
      BY <2>2
    <3>2. charge'[t].msg = 0 /\ t \in Tx
      BY <1>6 DEF Silence, Silenced
    <3>. QED
      BY <2>1, <3>1, <3>2
  <2>3. CASE \A t \in S : charge[t].msg # m
    BY <1>2, <1>6, <2>1, <2>3 DEF Silence, TakedownWith
  <2>. QED
    BY <2>2, <2>3
<1>7. ASSUME NEW k \in Ask, Record(k) PROVE G
  <2>1. Quiet
    BY <1>7 DEF Record
  <2>2. CASE UNCHANGED message
    BY <1>2, <2>1, <2>2
  <2>3. CASE message' = [message EXCEPT ![sending[k].msg].tx = k[1]]
    <3>1. CASE m = sending[k].msg
      <4>1. message'[m] = [message[m] EXCEPT !.tx = k[1]] /\ message[m] \in Message
        BY <2>3, <3>1 DEF TypeOK
      <4>2. message'[m].about = message[m].about /\ message'[m].tx = k[1] /\ message'[m].up = message[m].up
        BY <4>1 DEF Message
      <4>. QED
        BY <1>7, <2>1, <3>1, <4>2
    <3>2. CASE m # sending[k].msg
      BY <1>1, <2>1, <2>3, <3>2 DEF TypeOK
    <3>. QED
      BY <3>1, <3>2
  <2>. QED
    BY <1>7, <2>2, <2>3 DEF Record
<1>8. ASSUME NEW n \in Msg, NEW id, IsNextMsg(n), message' = Posted(n, id), Quiet PROVE G
  <2>1. CASE n = m
    <3>1. message[m].about = 0 /\ message'[m].tx = 0 /\ message'[m].up
      BY <1>8, <2>1 DEF IsNextMsg, Posted, TypeOK
    <3>. QED
      BY <1>8, <3>1
  <2>2. CASE n # m
    BY <1>1, <1>8, <2>2 DEF Posted, TypeOK
  <2>. QED
    BY <2>1, <2>2
<1>9. ASSUME NEW k \in Ask, SendRaises(k) \/ \E n \in Msg : Send(k, n) PROVE G
  BY <1>2, <1>8, <1>9 DEF SendRaises, Send
<1>10. ASSUME NEW k \in Ask, Load(k) \/ RecordRaises(k) \/ Finish(k) PROVE G
  BY <1>2, <1>10 DEF Load, RecordRaises, Finish
<1>11. ASSUME NEW k \in Ask, FinishWithoutRow(k) PROVE G
  BY <1>2, <1>11, ClosesFrame DEF FinishWithoutRow
<1>12. ASSUME NEW f \in Final, Finalizer(f) PROVE G
  <2>1. Quiet /\ message'[m].about = message[m].about /\ message'[m].tx = message[m].tx
    BY <1>12, FinalizerFrame, FinalizerAsks
  <2>2. UNCHANGED message \/ message' = Cleared(finalizing[f].msg)
    BY <1>12 DEF Finalizer, LoadFinal, Clear, FinalRaises, FinishFinal, FinishFinalWithoutRow
  <2>3. CASE m = finalizing[f].msg
    BY <2>1, <2>3
  <2>4. CASE m # finalizing[f].msg
    <3>1. message'[m].up = message[m].up
      BY <2>2, <2>4 DEF Cleared, TypeOK
    <3>. QED
      BY <1>1, <2>1, <3>1
  <2>. QED
    BY <2>3, <2>4
<1>13. ASSUME NEW n \in Msg, TakeDown(n) PROVE G
  <2>1. Quiet /\ (n = m => takedown[m] = "pending")
    BY <1>13 DEF TakeDown, TypeOK
  <2>2. message'[m].about = message[m].about /\ message'[m].tx = message[m].tx
    BY <1>13 DEF TakeDown, TypeOK, Message
  <2>3. n # m => message'[m].up = message[m].up
    BY <1>13 DEF TakeDown, TypeOK
  <2>. QED
    BY <2>1, <2>2, <2>3
<1>14. ASSUME NEW n \in Msg, TakeDownFails(n) PROVE G
  BY <1>2, <1>14 DEF TakeDownFails, TypeOK
<1>15. ASSUME NEW t \in Tx, Resend(t) PROVE G
  BY <1>2, <1>15 DEF Resend
<1>16. CASE ReviveDead \/ UNCHANGED vars \/ \E S \in SUBSET Ask, F \in SUBSET Final : Claim(S, F)
  BY <1>2, <1>16 DEF ReviveDead, vars, Claim, Claimed
<1>. QED
  BY <1>3, <1>4, <1>5, <1>6, <1>7, <1>9, <1>10, <1>11, <1>12, <1>13, <1>14, <1>15, <1>16, NextCases

LEMMA SendingStep ==
  ASSUME TypeOK, [Next]_vars, NEW k \in Ask, sending'[k].at = "sent"
  PROVE  \/ sending'[k] = sending[k] /\ ~Record(k)
         \/ \E m \in Msg : Send(k, m)
<1> DEFINE G == \/ sending'[k] = sending[k] /\ ~Record(k)
                \/ \E m \in Msg : Send(k, m)
<1>1. ~Record(k)
  BY DEF Record, TypeOK, Run
<1>2. ASSUME UNCHANGED sending PROVE G
  BY <1>1, <1>2
<1>3. ASSUME NEW j \in Ask, \/ Load(j) \/ SendRaises(j) \/ Record(j) \/ RecordRaises(j)
                            \/ Finish(j) \/ FinishWithoutRow(j)
      PROVE  G
  <2>1. \A i \in Ask \ {j} : sending'[i] = sending[i]
    BY <1>3 DEF Load, SendRaises, Record, RecordRaises, Finish, FinishWithoutRow, TypeOK
  <2>2. CASE Load(j) \/ Finish(j) \/ FinishWithoutRow(j)
    <3>1. sending'[j].at # "sent"
      BY <2>2 DEF Load, Finish, FinishWithoutRow, NoRun, TypeOK, Run
    <3>. QED
      BY <1>1, <2>1, <3>1
  <2>3. CASE SendRaises(j) \/ Record(j) \/ RecordRaises(j)
    <3>1. sending'[j].at \in {"ok", "failed"}
      BY <2>3 DEF SendRaises, Record, RecordRaises, TypeOK, Run
    <3>. QED
      BY <1>1, <2>1, <3>1
  <2>. QED
    BY <1>3, <2>2, <2>3
<1>4. ASSUME NEW j \in Ask, NEW m \in Msg, Send(j, m) PROVE G
  BY <1>1, <1>4 DEF Send, TypeOK
<1>5. ASSUME NEW S \in SUBSET Ask, NEW F \in SUBSET Final, Claim(S, F) PROVE G
  BY <1>1, <1>5 DEF Claim, Claimed, NoRun
<1>6. CASE Restart
  BY <1>6 DEF Restart, NoRun
<1>7. ASSUME NEW t \in Tx, Restatus(t) \/ Resend(t) \/ DeleteTransaction(t) PROVE G
  BY <1>2, <1>7, RestatusFrame DEF Resend, DeleteTransaction
<1>8. ASSUME NEW f \in Final, Finalizer(f) PROVE G
  BY <1>2, <1>8, FinalizerFrame
<1>9. ASSUME NEW m \in Msg, TakeDown(m) \/ TakeDownFails(m) PROVE G
  BY <1>2, <1>9 DEF TakeDown, TakeDownFails
<1>10. CASE ReviveDead \/ UNCHANGED vars \/ \E S \in SUBSET Tx : Silence(S)
  BY <1>2, <1>10 DEF ReviveDead, vars, Silence
<1>. QED
  BY <1>2, <1>3, <1>4, <1>5, <1>6, <1>7, <1>8, <1>9, <1>10, NextCases DEF World, Ingest, SweepLapsed

(* A run of finalize learns of a message only by reading its charge. *)
LEMMA FinalizingStep ==
  ASSUME TypeOK, [Next]_vars, NEW f \in Final
  PROVE  \/ finalizing'[f].msg \in {0, finalizing[f].msg}
         \/ finalizing[f].at = "started" /\ finalizing'[f].msg = charge[f[1]].msg /\ UNCHANGED <<charge, message, late, reopened>>
<1> DEFINE G == \/ finalizing'[f].msg \in {0, finalizing[f].msg}
                \/ finalizing[f].at = "started" /\ finalizing'[f].msg = charge[f[1]].msg /\ UNCHANGED <<charge, message, late, reopened>>
<1>1. ASSUME UNCHANGED finalizing PROVE G
  BY <1>1
<1>2. ASSUME NEW g \in Final, Finalizer(g) PROVE G
  <2>1. CASE LoadFinal(g)
    BY <2>1 DEF LoadFinal, TypeOK, FinalRun
  <2>2. CASE Clear(g) \/ FinalRaises(g)
    BY <2>2 DEF Clear, FinalRaises, TypeOK, FinalRun
  <2>3. CASE FinishFinal(g) \/ FinishFinalWithoutRow(g)
    BY <2>3 DEF FinishFinal, FinishFinalWithoutRow, NoFinalRun, TypeOK
  <2>. QED
    BY <1>2, <2>1, <2>2, <2>3 DEF Finalizer
<1>3. ASSUME NEW S \in SUBSET Ask, NEW F \in SUBSET Final, Claim(S, F) PROVE G
  BY <1>3 DEF Claim, Claimed, NoFinalRun
<1>4. CASE Restart
  BY <1>4 DEF Restart, NoFinalRun
<1>5. ASSUME NEW t \in Tx, Restatus(t) \/ Resend(t) \/ DeleteTransaction(t) PROVE G
  BY <1>1, <1>5, RestatusFrame DEF Resend, DeleteTransaction, finals
<1>6. ASSUME NEW k \in Ask, \/ Load(k) \/ SendRaises(k) \/ Record(k) \/ RecordRaises(k)
                            \/ Finish(k) \/ FinishWithoutRow(k) \/ \E m \in Msg : Send(k, m)
      PROVE  G
  BY <1>1, <1>6 DEF Load, SendRaises, Record, RecordRaises, Finish, FinishWithoutRow, Send, finals
<1>7. ASSUME NEW m \in Msg, TakeDown(m) \/ TakeDownFails(m) PROVE G
  BY <1>1, <1>7 DEF TakeDown, TakeDownFails, finals
<1>8. CASE ReviveDead \/ UNCHANGED vars \/ \E S \in SUBSET Tx : Silence(S)
  BY <1>1, <1>8 DEF ReviveDead, vars, Silence
<1>. QED
  BY <1>1, <1>2, <1>3, <1>4, <1>5, <1>6, <1>7, <1>8, NextCases DEF World, Ingest, SweepLapsed, finals

(* A run of finalize that has not read its charge loses its row with those   *)
(* of notify; while it is there, no batch is claimed.                        *)
LEMMA RowlessFinalStep ==
  ASSUME TypeOK, [Next]_vars, NEW f \in Final, finalizing'[f].at = "started", final'[f] # "running"
  PROVE  \/ /\ finalizing[f].at = "started" /\ final[f] # "running"
            /\ \A k \in Ask : ask'[k] = "running" => ask[k] = "running"
         \/ /\ \A k \in AsksOf(f[1]) : ask'[k] # "running"
            /\ charge'[f[1]].msg = 0
<1> DEFINE G == \/ /\ finalizing[f].at = "started" /\ final[f] # "running"
                   /\ \A k \in Ask : ask'[k] = "running" => ask[k] = "running"
                \/ /\ \A k \in AsksOf(f[1]) : ask'[k] # "running"
                   /\ charge'[f[1]].msg = 0
<1>1. ASSUME finalizing'[f] = finalizing[f], final[f] = "running" => final'[f] = "running",
             \A k \in Ask : ask'[k] = "running" => ask[k] = "running"
      PROVE  G
  BY <1>1
<1>2. ASSUME UNCHANGED <<finalizing, final>>, \A k \in Ask : ask'[k] = "running" => ask[k] = "running" PROVE G
  BY <1>1, <1>2
<1>3. ASSUME NEW t \in Tx, NEW status \in {"new", "needs_attention", "closed"}, Ingest(t, status) PROVE G
  <2>1. \A k \in Ask : ask'[k] = "running" => ask[k] = "running"
    BY <1>3 DEF Ingest, TypeOK
  <2>. QED
    BY <1>2, <1>3, <2>1 DEF Ingest, finals
<1>4. CASE Restart
  BY <1>4 DEF Restart, NoFinalRun
<1>5. ASSUME NEW t \in Tx, Restatus(t) PROVE G
  <2>1. UNCHANGED <<finalizing, ask>>
    BY <1>5, RestatusFrame
  <2>2. final[f] = "running" => final'[f] = "running"
    BY <1>5 DEF Restatus, AttachByHand, Detach, Reparse, Link, SetStatus, finals, TypeOK
  <2>. QED
    BY <1>1, <2>1, <2>2
<1>6. ASSUME NEW t \in Tx, Resend(t) PROVE G
  <2>1. \A k \in Ask : ask'[k] = "running" => ask[k] = "running"
    BY <1>6 DEF Resend, TypeOK
  <2>. QED
    BY <1>2, <1>6, <2>1 DEF Resend, finals
<1>7. ASSUME NEW t \in Tx, DeleteTransaction(t) PROVE G
  <2>1. CASE f[1] = t
    BY <1>7, <2>1 DEF DeleteTransaction, AskWithout, AsksOf, NoCharge, TypeOK
  <2>2. CASE f[1] # t
    BY <1>1, <1>7, <2>2 DEF DeleteTransaction, AskWithout, FinalWithout
  <2>. QED
    BY <2>1, <2>2
<1>8. ASSUME NEW S \in SUBSET Tx, Silence(S) PROVE G
  <2>1. CASE f[1] \in S
    BY <1>8, <2>1, FinalParts DEF Silence, Silenced, AskWithout, AsksOf
  <2>2. CASE f[1] \notin S
    BY <1>1, <1>8, <2>2 DEF Silence, AskWithout, FinalWithout
  <2>. QED
    BY <2>1, <2>2
<1>9. CASE ReviveDead
  BY <1>1, <1>9 DEF ReviveDead
<1>10. ASSUME NEW S \in SUBSET Ask, NEW F \in SUBSET Final, Claim(S, F) PROVE G
  <2>1. finalizing[f].at = "idle"
    BY <1>10 DEF Claim, Busy
  <2>. QED
    BY <1>10, <2>1 DEF Claim, Claimed
<1>11. ASSUME NEW k \in Ask, \/ Load(k) \/ SendRaises(k) \/ Record(k) \/ RecordRaises(k)
                             \/ \E m \in Msg : Send(k, m)
       PROVE  G
  BY <1>2, <1>11 DEF Load, SendRaises, Record, RecordRaises, Send, finals
<1>12. ASSUME NEW k \in Ask, Finish(k) PROVE G
  BY <1>2, <1>12 DEF Finish, finals, TypeOK
<1>13. ASSUME NEW k \in Ask, FinishWithoutRow(k) PROVE G
  BY <1>1, <1>13, ClosesFrame DEF FinishWithoutRow
<1>14. ASSUME NEW g \in Final, Finalizer(g) PROVE G
  <2>1. \A k \in Ask : ask'[k] = "running" => ask[k] = "running"
    BY <1>14, FinalizerAsks
  <2>2. f # g => finalizing'[f] = finalizing[f]
    BY <1>14 DEF Finalizer, LoadFinal, Clear, FinalRaises, FinishFinal, FinishFinalWithoutRow, TypeOK
  <2>3. f # g /\ final[f] = "running" => final'[f] = "running"
    BY <1>14, ClosesFrame DEF Finalizer, LoadFinal, Clear, FinalRaises, FinishFinal, FinishFinalWithoutRow, TypeOK
  <2>4. f # g
    BY <1>14 DEF Finalizer, LoadFinal, Clear, FinalRaises, FinishFinal, FinishFinalWithoutRow, NoFinalRun,
                 TypeOK, FinalRun
  <2>. QED
    BY <1>1, <2>1, <2>2, <2>3, <2>4
<1>15. ASSUME NEW m \in Msg, TakeDown(m) \/ TakeDownFails(m) PROVE G
  BY <1>2, <1>15 DEF TakeDown, TakeDownFails, finals
<1>16. CASE UNCHANGED vars
  BY <1>2, <1>16 DEF vars
<1>17. ASSUME NEW S \in SUBSET Tx, SweepLapsed(S) PROVE G
  BY <1>2, <1>17 DEF SweepLapsed, finals
<1>. QED
  BY <1>3, <1>4, <1>5, <1>6, <1>7, <1>8, <1>9, <1>10, <1>11, <1>12, <1>13, <1>14, <1>15, <1>16, <1>17,
     NextCases DEF World

(* The steps of CInv, one part at a time. *)
LEMMA UnpostedStep ==
  ASSUME TypeOK, RunIsAbout, UnpostedIsUnknown, CurrentIsRecorded, [Next]_vars
  PROVE  UnpostedIsUnknown'
<1>1. SUFFICES ASSUME NEW m \in Msg, message'[m].about = 0
               PROVE  message'[m].tx = 0 /\ takedown'[m] = "none"
  BY DEF UnpostedIsUnknown
<1>2. message[m].about = 0 /\ message[m].tx = 0 /\ takedown[m] = "none"
  BY <1>1, MessageStep DEF UnpostedIsUnknown
<1>3. ASSUME NEW k \in Ask, Record(k) PROVE m # sending[k].msg
  BY <1>2, <1>3 DEF Record, RunIsAbout
<1>4. message'[m].tx = 0
  BY <1>2, <1>3, MessageStep
<1>5. takedown'[m] = "none"
  <2>1. \A t \in Tx : message[m].tx # t /\ charge[t].msg # m
    BY <1>2 DEF CurrentIsRecorded, Tx, Msg
  <2>. QED
    BY <1>2, <2>1, MessageStep
<1>. QED
  BY <1>4, <1>5

LEMMA CurrentIsRecordedStep ==
  ASSUME TypeOK, RunIsAbout, RecordsHaveCharge, CurrentIsRecorded, SentIsFresh, [Next]_vars
  PROVE  CurrentIsRecorded'
<1>1. SUFFICES ASSUME NEW t \in Tx, charge'[t].msg # 0
               PROVE  /\ charge'[t].msg \in Msg
                      /\ message'[charge'[t].msg].tx = t
                      /\ message'[charge'[t].msg].about # 0
                      /\ takedown'[charge'[t].msg] = "none"
  BY DEF CurrentIsRecorded
<1> DEFINE m == charge'[t].msg
           G == m \in Msg /\ message'[m].tx = t /\ message'[m].about # 0 /\ takedown'[m] = "none"
<1>2. ASSUME NEW k \in Ask, Record(k), k[1] = t, t \in Present, m = sending[k].msg PROVE G
  <2>1. m \in Msg /\ message[m].about # 0 /\ takedown[m] = "none"
    BY <1>2 DEF Record, RunIsAbout, SentIsFresh
  <2>2. message'[m].about # 0
    BY <2>1, MessageStep
  <2>3. message'[m].tx = t
    BY <1>2, <2>1 DEF Record, TypeOK, Message
  <2>4. takedown'[m] = "none"
    BY <1>2, <2>1 DEF Record
  <2>. QED
    BY <2>1, <2>2, <2>3, <2>4
<1>3. CASE m = charge[t].msg
  <2>1. m \in Msg /\ message[m].tx = t /\ message[m].about # 0 /\ takedown[m] = "none"
    BY <1>1, <1>3 DEF CurrentIsRecorded
  <2>2. ASSUME NEW u \in Tx, DeleteTransaction(u) PROVE u # t
    BY <1>1, <2>2 DEF DeleteTransaction, NoCharge, TypeOK
  <2>3. ASSUME NEW k \in Ask, Record(k) PROVE m # sending[k].msg
    BY <2>1, <2>3 DEF Record, SentIsFresh, Tx
  <2>4. ASSUME NEW u \in Tx, charge[u].msg = m, charge'[u].msg = 0 PROVE FALSE
    <3>1. message[m].tx = u
      BY <1>1, <2>4 DEF CurrentIsRecorded
    <3>. QED
      BY <1>1, <2>1, <2>4, <3>1
  <2>5. message'[m].tx = t
    BY <2>1, <2>2, <2>3, MessageStep
  <2>6. takedown'[m] = "none"
    BY <2>1, <2>2, <2>4, MessageStep
  <2>. QED
    BY <2>1, <2>5, <2>6, MessageStep
<1>. QED
  BY <1>1, <1>2, <1>3, ChargeStep

(* A message that a run has sent and not recorded is no charge's. *)
LEMMA SentIsNoCurrent ==
  ASSUME CurrentIsRecorded, SentIsFresh, RunIsAbout, NEW k \in Ask, sending[k].at = "sent"
  PROVE  /\ \A t \in Tx : charge[t].msg # sending[k].msg
         /\ \A t \in Tx : message[sending[k].msg].tx # t
         /\ sending[k].msg \in Msg /\ sending[k].msg # 0
BY DEF CurrentIsRecorded, SentIsFresh, RunIsAbout, Tx, Msg

LEMMA SentIsFreshStep ==
  ASSUME TypeOK, RunIsAbout, UnpostedIsUnknown, CurrentIsRecorded, SentIsFresh, RunDeletesSettled, [Next]_vars
  PROVE  SentIsFresh'
<1>1. SUFFICES ASSUME NEW k \in Ask, sending'[k].at = "sent"
               PROVE  /\ message'[sending'[k].msg].tx = 0
                      /\ message'[sending'[k].msg].up
                      /\ takedown'[sending'[k].msg] = "none"
                      /\ \A j \in Ask \ {k} : sending'[j].at = "sent" => sending'[j].msg # sending'[k].msg
                      /\ \A f \in Final : finalizing'[f].msg # sending'[k].msg
  BY DEF SentIsFresh
<1> DEFINE m == sending'[k].msg
           G == /\ message'[m].tx = 0
                /\ message'[m].up
                /\ takedown'[m] = "none"
                /\ \A j \in Ask \ {k} : sending'[j].at = "sent" => sending'[j].msg # m
                /\ \A f \in Final : finalizing'[f].msg # m
<1>2. CASE sending'[k] = sending[k] /\ ~Record(k)
  <2>1. sending[k].at = "sent" /\ m = sending[k].msg
    BY <1>1, <1>2
  <2>2. m \in Msg /\ m # 0 /\ \A t \in Tx : charge[t].msg # m /\ message[m].tx # t
    BY <2>1, SentIsNoCurrent
  <2>3. message[m].tx = 0 /\ message[m].up /\ takedown[m] = "none" /\ \A f \in Final : finalizing[f].msg # m
    BY <2>1 DEF SentIsFresh
  <2>4. ASSUME NEW j \in Ask, Record(j) PROVE m # sending[j].msg
    BY <1>2, <2>1, <2>4 DEF Record, SentIsFresh
  <2>5. message'[m].tx = 0
    BY <2>2, <2>3, <2>4, MessageStep
  <2>6. message'[m].up
    BY <2>2, <2>3, MessageStep
  <2>7. takedown'[m] = "none"
    BY <2>2, <2>3, MessageStep
  <2>8. ASSUME NEW j \in Ask \ {k}, sending'[j].at = "sent" PROVE sending'[j].msg # m
    <3>1. CASE sending'[j] = sending[j]
      BY <2>1, <2>8, <3>1 DEF SentIsFresh
    <3>2. ASSUME NEW n \in Msg, Send(j, n) PROVE sending'[j].msg # m
      <4>1. sending'[j].msg = n /\ message[n].about = 0
        BY <3>2 DEF Send, IsNextMsg, TypeOK
      <4>2. message[m].about # 0
        BY <2>1 DEF RunIsAbout
      <4>. QED
        BY <4>1, <4>2
    <3>. QED
      BY <2>8, <3>1, <3>2, SendingStep
  <2>9. ASSUME NEW f \in Final PROVE finalizing'[f].msg # m
    BY <2>2, <2>3, FinalizingStep, FinalParts
  <2>. QED
    BY <2>5, <2>6, <2>7, <2>8, <2>9
<1>3. ASSUME NEW n \in Msg, Send(k, n) PROVE G
  <2>1. m = n /\ message[n].about = 0 /\ \A j \in Ask \ {k} : sending'[j] = sending[j]
    BY <1>3 DEF Send, IsNextMsg, TypeOK
  <2>2. message'[n].tx = 0 /\ message'[n].up
    BY <1>3 DEF Send, Posted, TypeOK
  <2>3. takedown'[n] = "none" /\ UNCHANGED finalizing
    BY <1>3, <2>1 DEF Send, UnpostedIsUnknown, finals
  <2>4. \A j \in Ask : sending[j].at = "sent" => sending[j].msg # n
    BY <2>1 DEF RunIsAbout
  <2>5. \A f \in Final : finalizing[f].msg # n
    BY <2>1 DEF RunDeletesSettled, Msg
  <2>. QED
    BY <2>1, <2>2, <2>3, <2>4, <2>5
<1>. QED
  BY <1>1, <1>2, <1>3, SendingStep

LEMMA SettledStays ==
  ASSUME TypeOK, [Next]_vars, NEW t \in Tx, charge[t].status # "absent", charge'[t].status # "absent", Settled(t)
  PROVE  Settled(t)'
BY ChargeStep

LEMMA JobIsOfSettledStep ==
  ASSUME TypeOK, JobIsOfSettled, [Next]_vars
  PROVE  JobIsOfSettled'
<1>1. SUFFICES ASSUME NEW k \in Final, final'[k] # "none"
               PROVE  charge'[k[1]].status # "absent" /\ Settled(k[1])'
  BY DEF JobIsOfSettled, Settled
<1> DEFINE t == k[1]
           G == charge'[t].status # "absent" /\ Settled(t)'
<1>2. t \in Tx
  BY FinalParts
<1>3. ASSUME NEW n \in 1..MaxLinks, Link(t, n) PROVE G
  BY <1>2, <1>3 DEF Link, Settled, Asking, TypeOK, Charge
<1>4. ASSUME final[k] # "none", charge'[t].status # "absent" PROVE G
  BY <1>2, <1>4, SettledStays DEF JobIsOfSettled
(* Steps that keep every charge. *)
<1>5. ASSUME final[k] = "none" => final'[k] = "none",
             charge[t].status # "absent" => charge'[t].status # "absent"
      PROVE  G
  BY <1>1, <1>4, <1>5 DEF JobIsOfSettled
<1>6. ASSUME UNCHANGED charge, final[k] = "none" => final'[k] = "none" PROVE G
  BY <1>5, <1>6
<1>7. ASSUME NEW u \in Tx, NEW status \in {"new", "needs_attention", "closed"}, Ingest(u, status) PROVE G
  <2>1. u = t => charge'[t].status # "absent"
    BY <1>7 DEF Ingest, NoCharge, TypeOK
  <2>2. u # t => charge'[t] = charge[t]
    BY <1>7 DEF Ingest, TypeOK
  <2>. QED
    BY <1>5, <1>7, <2>1, <2>2 DEF Ingest, finals
<1>8. ASSUME NEW S \in SUBSET Tx, SweepLapsed(S) PROVE G
  <2>1. charge[t].status # "absent" => charge'[t].status # "absent"
    BY <1>2, <1>8 DEF SweepLapsed, TypeOK, Charge
  <2>. QED
    BY <1>5, <1>8, <2>1 DEF SweepLapsed, finals
<1>9. CASE Restart \/ ReviveDead
  BY <1>6, <1>9 DEF Restart, ReviveDead
<1>10. ASSUME NEW u \in Tx, Restatus(u) PROVE G
  <2>1. charge[t].status # "absent" => charge'[t].status # "absent"
    BY <1>2, <1>10, RestatusFrame
  <2>2. CASE \E n \in 1..MaxLinks : Link(u, n)
    <3>1. PICK n \in 1..MaxLinks : Link(u, n)
      BY <2>2
    <3>2. u = t \/ final'[k] = final[k]
      BY <3>1 DEF Link, TypeOK
    <3>. QED
      BY <1>3, <1>5, <2>1, <3>1, <3>2
  <2>3. CASE UNCHANGED final
    BY <1>5, <2>1, <2>3
  <2>. QED
    BY <1>10, <2>2, <2>3 DEF Restatus, AttachByHand, Detach, Reparse, SetStatus, finals
<1>11. ASSUME NEW u \in Tx, Resend(u) PROVE G
  <2>1. charge'[t].status = charge[t].status
    BY <1>2, <1>11 DEF Resend, Unannounced, TypeOK
  <2>. QED
    BY <1>5, <1>11, <2>1 DEF Resend, finals
<1>12. ASSUME NEW u \in Tx, DeleteTransaction(u) PROVE G
  <2>1. u # t /\ final'[k] = final[k]
    BY <1>1, <1>12 DEF DeleteTransaction, FinalWithout
  <2>2. charge'[t] = charge[t]
    BY <1>12, <2>1 DEF DeleteTransaction, TypeOK
  <2>. QED
    BY <1>5, <2>1, <2>2
<1>13. ASSUME NEW S \in SUBSET Tx, Silence(S) PROVE G
  <2>1. t \notin S /\ final'[k] = final[k]
    BY <1>1, <1>13 DEF Silence, FinalWithout
  <2>2. charge'[t] = charge[t]
    BY <1>2, <1>13, <2>1 DEF Silence, Silenced
  <2>. QED
    BY <1>5, <2>1, <2>2
<1>14. ASSUME NEW S \in SUBSET Ask, NEW F \in SUBSET Final, Claim(S, F) PROVE G
  BY <1>6, <1>14 DEF Claim, Claimed
<1>15. ASSUME NEW j \in Ask, \/ Load(j) \/ SendRaises(j) \/ RecordRaises(j) \/ Finish(j)
                             \/ \E m \in Msg : Send(j, m)
       PROVE  G
  BY <1>6, <1>15 DEF Load, SendRaises, RecordRaises, Finish, Send, finals
<1>16. ASSUME NEW j \in Ask, Record(j) PROVE G
  <2>1. charge[t].status # "absent" => charge'[t].status # "absent"
    BY <1>2, <1>16 DEF Record, Told, TypeOK
  <2>. QED
    BY <1>5, <1>16, <2>1 DEF Record, finals
<1>17. ASSUME NEW j \in Ask, FinishWithoutRow(j) PROVE G
  BY <1>6, <1>17, ClosesFrame DEF FinishWithoutRow
<1>18. ASSUME NEW f \in Final, Finalizer(f) PROVE G
  <2>1. final[k] = "none" => final'[k] = "none"
    BY <1>18, ClosesFrame DEF Finalizer, LoadFinal, Clear, FinalRaises, FinishFinal, FinishFinalWithoutRow, TypeOK
  <2>. QED
    BY <1>6, <1>18, <2>1, FinalizerFrame
<1>19. ASSUME NEW m \in Msg, TakeDown(m) \/ TakeDownFails(m) PROVE G
  BY <1>6, <1>19 DEF TakeDown, TakeDownFails, finals
<1>20. CASE UNCHANGED vars
  BY <1>6, <1>20 DEF vars
<1>. QED
  BY <1>7, <1>8, <1>9, <1>10, <1>11, <1>12, <1>13, <1>14, <1>15, <1>16, <1>17, <1>18, <1>19, <1>20,
     NextCases DEF World

LEMMA RunFindsStep ==
  ASSUME TypeOK, JobsHaveCharge, RunFindsSettled, [Next]_vars
  PROVE  RunFindsSettled'
<1>1. SUFFICES ASSUME NEW k \in Final, finalizing'[k].at = "started", final'[k] # "running"
               PROVE  /\ \A j \in AsksOf(k[1]) : ask'[j] # "running"
                      /\ charge'[k[1]].msg \in {0} \cup late' \/ Settled(k[1])'
  BY DEF RunFindsSettled, AsksOf, Settled
<1> DEFINE t == k[1]
<1>2. t \in Tx
  BY FinalParts
<1>3. CASE (\A j \in AsksOf(t) : ask'[j] # "running") /\ charge'[t].msg = 0
  BY <1>3
<1>4. CASE /\ finalizing[k].at = "started" /\ final[k] # "running"
           /\ \A j \in Ask : ask'[j] = "running" => ask[j] = "running"
  <2>1. \A j \in AsksOf(t) : ask[j] # "running" /\ ask'[j] # "running"
    BY <1>4 DEF RunFindsSettled, AsksOf
  <2>2. charge[t].msg \in {0} \cup late \/ Settled(t)
    BY <1>4 DEF RunFindsSettled
  <2>3. ASSUME NEW j \in Ask, Record(j), j[1] = t, charge'[t].msg = sending[j].msg
        PROVE  charge'[t].msg \in late'
    BY <2>1, <2>3 DEF Record, Belated, AsksOf
  <2>4. charge'[t].msg \in {0} \cup late' \/ Settled(t)'
    <3>1. CASE charge[t].status = "absent" \/ charge'[t].status = "absent"
      BY <1>2, <2>2, <2>3, <3>1, ChargeStep, HistoryGrows DEF Settled, Asking
    <3>2. CASE charge[t].status # "absent" /\ charge'[t].status # "absent"
      BY <1>2, <2>2, <2>3, <3>2, ChargeStep, HistoryGrows
    <3>. QED
      BY <3>1, <3>2
  <2>. QED
    BY <2>1, <2>4
<1>. QED
  BY <1>1, <1>3, <1>4, RowlessFinalStep

LEMMA RunDeletesStep ==
  ASSUME TypeOK, RecordsHaveCharge, CurrentIsRecorded, SentIsFresh, JobIsOfSettled, RunFindsSettled,
         RunDeletesSettled, [Next]_vars
  PROVE  RunDeletesSettled'
<1>1. SUFFICES ASSUME NEW k \in Final, finalizing'[k].msg # 0
               PROVE  /\ finalizing'[k].msg \in Msg
                      /\ message'[finalizing'[k].msg].about # 0
                      /\ \A t \in Tx : charge'[t].msg = finalizing'[k].msg =>
                                         finalizing'[k].msg \in late' \/ Settled(t)'
  BY DEF RunDeletesSettled, Settled
<1> DEFINE m == finalizing'[k].msg
(* It was so before: of the message it read, or now reads. *)
<1>2. /\ m \in Msg /\ message[m].about # 0
      /\ \A t \in Tx : charge[t].msg = m => m \in late \/ Settled(t)
  <2>1. CASE m = finalizing[k].msg
    BY <1>1, <2>1 DEF RunDeletesSettled
  <2>2. CASE finalizing[k].at = "started" /\ m = charge[k[1]].msg
    <3>1. m \in Msg /\ message[m].about # 0 /\ message[m].tx = k[1]
      BY <1>1, <2>2, FinalParts DEF CurrentIsRecorded
    <3>2. m \in late \/ Settled(k[1])
      BY <1>1, <2>2 DEF JobIsOfSettled, RunFindsSettled
    <3>3. \A t \in Tx : charge[t].msg = m => t = k[1]
      BY <1>1, <3>1 DEF CurrentIsRecorded
    <3>. QED
      BY <3>1, <3>2, <3>3
  <2>. QED
    BY <1>1, <2>1, <2>2, FinalizingStep
<1>3. message'[m].about # 0
  BY <1>2, MessageStep
<1>4. ASSUME NEW t \in Tx, charge'[t].msg = m PROVE m \in late' \/ Settled(t)'
  <2>1. ASSUME NEW j \in Ask, Record(j), m = sending[j].msg PROVE FALSE
    <3>1. UNCHANGED finalizing
      BY <2>1 DEF Record, finals
    <3>. QED
      BY <2>1, <3>1 DEF Record, SentIsFresh
  <2>2. CASE charge'[t].status = "absent"
    BY <2>2 DEF Settled, Asking
  <2>3. CASE charge'[t].status # "absent"
    <3>1. charge[t].msg = m /\ (Settled(t) => Settled(t)')
      BY <1>1, <1>4, <2>1, <2>3, ChargeStep
    <3>. QED
      BY <1>2, <3>1, HistoryGrows
  <2>. QED
    BY <2>2, <2>3
<1>. QED
  BY <1>2, <1>3, <1>4

LEMMA CurrentIsUpStep ==
  ASSUME TypeOK, RunIsAbout, CurrentIsRecorded, SentIsFresh, RunDeletesSettled, CurrentIsUp, [Next]_vars
  PROVE  CurrentIsUp'
<1>1. SUFFICES ASSUME NEW t \in Tx, charge'[t].msg # 0
               PROVE  message'[charge'[t].msg].up \/ charge'[t].msg \in late' \/ Settled(t)'
  BY DEF CurrentIsUp, Settled
<1> DEFINE m == charge'[t].msg
<1>2. ASSUME NEW k \in Ask, Record(k), m = sending[k].msg PROVE message'[m].up
  <2>1. m \in Msg /\ message[m].up /\ takedown[m] = "none" /\ \A f \in Final : finalizing[f].msg # m
    BY <1>2 DEF Record, RunIsAbout, SentIsFresh
  <2>. QED
    BY <2>1, MessageStep
<1>3. CASE charge'[t].status = "absent"
  BY <1>3 DEF Settled, Asking
<1>4. CASE m = charge[t].msg /\ (Settled(t) => Settled(t)')
  <2>1. m \in Msg /\ takedown[m] = "none"
    BY <1>1, <1>4 DEF CurrentIsRecorded
  <2>2. message[m].up \/ m \in late \/ Settled(t)
    BY <1>1, <1>4 DEF CurrentIsUp
  <2>3. ASSUME NEW f \in Final, finalizing[f].msg = m PROVE m \in late \/ Settled(t)
    BY <1>1, <1>4, <2>3 DEF RunDeletesSettled
  <2>. QED
    BY <1>4, <2>1, <2>2, <2>3, MessageStep, HistoryGrows
<1>. QED
  BY <1>1, <1>2, <1>3, <1>4, ChargeStep

LEMMA Channel == Spec => []CInv
<1>1. Init => CInv
  BY DEF Init, CInv, UnpostedIsUnknown, CurrentIsRecorded, SentIsFresh, JobIsOfSettled, RunFindsSettled,
         RunDeletesSettled, CurrentIsUp, NoCharge, NoMessage, NoRun, NoFinalRun
<1>2. IInv /\ CInv /\ [Next]_vars => CInv'
  <2> SUFFICES ASSUME IInv, CInv, [Next]_vars PROVE CInv'
    OBVIOUS
  <2>1. UnpostedIsUnknown' /\ CurrentIsRecorded'
    BY UnpostedStep, CurrentIsRecordedStep DEF IInv, CInv
  <2>2. SentIsFresh' /\ CurrentIsUp'
    BY SentIsFreshStep, CurrentIsUpStep DEF IInv, CInv
  <2>3. JobIsOfSettled' /\ RunFindsSettled' /\ RunDeletesSettled'
    BY JobIsOfSettledStep, RunFindsStep, RunDeletesStep DEF IInv, CInv
  <2>. QED
    BY <2>1, <2>2, <2>3 DEF CInv
<1>. QED
  BY <1>1, <1>2, Invariance, PTL DEF Spec

(* finalize, silence_merchant and delete_transaction: what a charge that     *)
(* asks has on record is in the channel and shows it, though finalize reads  *)
(* and deletes by rowid and message id while rows come and go.               *)
THEOREM InChannel == Spec => []AskIsInChannel
<1>1. IInv /\ CInv => AskIsInChannel
  <2>1. SUFFICES ASSUME IInv, CInv, NEW t \in Tx, charge[t].status \in Asking, charge[t].msg # 0,
                        charge[t].msg \notin late, charge[t].id \notin reopened
                 PROVE  message[charge[t].msg].up /\ message[charge[t].msg].about = charge[t].id
    BY DEF AskIsInChannel
  <2>2. charge[t].msg \in Msg /\ message[charge[t].msg].tx = t /\ t # 0
    BY <2>1 DEF CInv, CurrentIsRecorded, Tx
  <2>3. message[charge[t].msg].about = charge[t].id
    BY <2>1, <2>2 DEF IInv, ReplyFindsItsCharge
  <2>4. message[charge[t].msg].up
    BY <2>1 DEF CInv, CurrentIsUp, Settled
  <2>. QED
    BY <2>3, <2>4
<1>. QED
  BY <1>1, Channel, Invariance, PTL
=============================================================================
