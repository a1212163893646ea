--------------------------- MODULE Capture_proofs ---------------------------
(***************************************************************************)
(* Capture's safety, for every number of messages, attachments, charges,    *)
(* edits and mishaps.                                                       *)
(***************************************************************************)
EXTENDS Capture, TLAPS

(* A capture is at one of the attachments of its message.                    *)
NextOK == \A m \in Message : capture[m].next \in 1..Size[m]

(* A rowid that is not in use refers to no charge, and a receipt refers to a *)
(* charge that exists.                                                       *)
RefOK ==
  /\ \A a \in AttId : rows[a].part = NoPart => rows[a].tx = NoTx
  /\ \A a \in AttId : rows[a].tx # NoTx => charge[rows[a].tx] # "absent"
  /\ \A t \in adrift : charge[t] # "absent"

(* What a finalize coroutine is about to delete has passed the gate.         *)
TodoVerified ==
  \A k \in Key : \A m \in run[k].todo : \E p \in gated : p[1] = m

Typed == TypeOK /\ NextOK

Safe == TodoVerified /\ DeletedMeansVerified

Agree == RefOK /\ AttachedHasReceipt /\ ReceiptClosesCharge

IInv == Typed /\ Safe /\ Agree

-----------------------------------------------------------------------------
(* An attachment is a message and a number, and it is not NoPart's message.  *)
LEMMA PartType ==
  /\ \A m \in Message, n \in Nat : n \in 1..Size[m] => <<m, n>> \in Part
  /\ \A p \in Part : p[1] \in Message
BY DEF Part

(* Steps that touch neither the channel, nor the gate, nor what a coroutine  *)
(* is about to delete.                                                       *)
LEMMA SafeFrame ==
  ASSUME Safe, UNCHANGED <<channel, gated>>,
         \A k \in Key : run'[k].todo \subseteq run[k].todo
  PROVE  Safe'
BY DEF Safe, TodoVerified, DeletedMeansVerified

(* Steps that touch neither receipts nor charges.                            *)
LEMMA AgreeFrame ==
  ASSUME Agree, UNCHANGED <<rows, charge, adrift>>
  PROVE  Agree'
BY DEF Agree, RefOK, AttachedHasReceipt, ReceiptClosesCharge, Linked, RowIds

(* The empty state of a first start.                                         *)
LEMMA InitInv == Init => IInv
<1> SUFFICES ASSUME Init PROVE IInv
  OBVIOUS
<1>1. Typed
  BY CaptureAssumption DEF Init, Typed, TypeOK, NextOK, NewCapture, Capturing,
     NoRow, Attached, NoJob, Job, NoRun, Run
<1>2. Safe
  BY DEF Init, Safe, TodoVerified, DeletedMeansVerified, NoRun
<1>3. Agree
  BY DEF Init, Agree, RefOK, AttachedHasReceipt, ReceiptClosesCharge, Linked, RowIds, NoRow
<1> QED BY <1>1, <1>2, <1>3 DEF IInv

-----------------------------------------------------------------------------
(* The for loop over the attachments never runs past the last one, and it    *)
(* goes on to match only when a row was inserted.                            *)
LEMMA AdvancedType ==
  ASSUME NEW m \in Message, NEW c \in Capturing, c.next \in 1..Size[m],
         c.at \in {"reading", "stored"}
  PROVE  /\ Advanced(c, m) \in Capturing
         /\ Advanced(c, m).next \in 1..Size[m]
         /\ Advanced(c, m).at \in {"resolving", "linking", "asking"}
              => Advanced(c, m).ids # {}
<1>1. Size[m] \in Nat \ {0}
  BY CaptureAssumption
<1>2. CASE c.next < Size[m]
  <2>1. Advanced(c, m) = [at |-> "reading", next |-> c.next + 1,
                          ids |-> c.ids, options |-> c.options]
    BY <1>2 DEF Advanced, Capturing
  <2> QED BY <1>1, <1>2, <2>1 DEF Capturing
<1>3. CASE ~(c.next < Size[m]) /\ c.ids = {}
  BY <1>1, <1>3 DEF Advanced, Capturing, Over, NewCapture
<1>4. CASE ~(c.next < Size[m]) /\ c.ids # {}
  BY <1>1, <1>4 DEF Advanced, Capturing
<1> QED BY <1>2, <1>3, <1>4

(* A step of one capture that leaves its record well formed keeps the types. *)
LEMMA CaptureType ==
  ASSUME Typed, NEW m \in Message, NEW c \in Capturing,
         capture' = [capture EXCEPT ![m] = c],
         c.next \in 1..Size[m],
         c.at \in {"resolving", "linking", "asking"} => c.ids # {},
         UNCHANGED <<channel, disk, rows, recorded, charge, job, run, edits, mishaps, gated, adrift>>
  PROVE  Typed'
BY DEF Typed, TypeOK, NextOK

(* Two fields of a capture's record are set.                                 *)
LEMMA CaptureFields ==
  ASSUME NEW c \in Capturing, NEW at, NEW options, NEW d,
         d = [c EXCEPT !.at = at, !.options = options]
  PROVE  d = [at |-> at, next |-> c.next, ids |-> c.ids, options |-> options]
BY DEF Capturing

(* A failed attachment, a message that no row can be added for, a picker     *)
(* without an answer.                                                        *)
LEMMA CaptureOnlyInv ==
  ASSUME IInv, NEW m \in Message, StoreFails(m) \/ PersistRaises(m) \/ Hold(m)
  PROVE  IInv'
<1> USE DEF IInv
<1>1. capture[m] \in Capturing /\ capture[m].next \in 1..Size[m] /\ Size[m] \in Nat \ {0}
  BY CaptureAssumption DEF Typed, TypeOK, NextOK
<1>2. UNCHANGED <<channel, disk, rows, recorded, charge, job, run, edits, mishaps, gated, adrift>>
  BY DEF StoreFails, PersistRaises, Hold
<1>3. Over \in Capturing /\ Over.next \in 1..Size[m] /\ Over.at = "over"
  BY <1>1 DEF Over, NewCapture, Capturing
<1>4. Typed'
  <2>1. CASE StoreFails(m)
    <3> DEFINE c == Advanced(capture[m], m)
    <3>1. capture[m].at = "reading" /\ capture' = [capture EXCEPT ![m] = c]
      BY <2>1 DEF StoreFails, Typed, TypeOK
    <3>2. /\ c \in Capturing /\ c.next \in 1..Size[m]
          /\ c.at \in {"resolving", "linking", "asking"} => c.ids # {}
      BY <1>1, <3>1, AdvancedType
    <3> QED BY <1>2, <3>1, <3>2, CaptureType
  <2>2. CASE PersistRaises(m) \/ Hold(m)
    <3>1. capture' = [capture EXCEPT ![m] = Over]
      BY <2>2 DEF PersistRaises, Hold
    <3> QED BY <1>2, <1>3, <3>1, CaptureType
  <2> QED BY <2>1, <2>2
<1>5. Safe' /\ Agree'
  BY <1>2, SafeFrame, AgreeFrame
<1> QED BY <1>4, <1>5

(* matching.resolve.                                                         *)
LEMMA ResolveInv ==
  ASSUME IInv, NEW m \in Message, NEW at \in {"linking", "asking", "over"},
         NEW options \in SUBSET Tx, Resolve(m, at, options)
  PROVE  IInv'
<1> USE DEF IInv
<1> DEFINE c == IF at = "over" THEN Over
                ELSE [at |-> at, next |-> capture[m].next,
                      ids |-> capture[m].ids, options |-> options]
<1>1. capture[m] \in Capturing /\ capture[m].next \in 1..Size[m] /\ Size[m] \in Nat \ {0}
  BY CaptureAssumption DEF Typed, TypeOK, NextOK
<1>2. capture[m].at = "resolving" /\ capture[m].ids # {}
  BY DEF Resolve, Typed, TypeOK
<1>3. capture' = [capture EXCEPT ![m] = c]
  <2> DEFINE d == [at |-> at, next |-> capture[m].next,
                   ids |-> capture[m].ids, options |-> options]
  <2>1. [capture[m] EXCEPT !.at = at, !.options = options] = d
    BY <1>1, CaptureFields
  <2> HIDE DEF d
  <2>2. capture' = [capture EXCEPT ![m] = IF at = "over" THEN Over ELSE d]
    BY <2>1 DEF Resolve
  <2> QED BY <2>2 DEF d
<1>4. c \in Capturing /\ c.next \in 1..Size[m] /\ (c.at # "over" => c.ids # {})
  BY <1>1, <1>2 DEF Over, NewCapture, Capturing
<1>5. UNCHANGED <<channel, disk, rows, recorded, charge, job, run, edits, mishaps, gated, adrift>>
  BY DEF Resolve
<1>6. Typed'
  <2> HIDE DEF c
  <2> QED BY <1>3, <1>4, <1>5, CaptureType
<1>7. Safe' /\ Agree'
  BY <1>5, SafeFrame, AgreeFrame
<1> QED BY <1>6, <1>7

(* A message arrives.                                                        *)
LEMMA SendInv ==
  ASSUME IInv, NEW m \in Message, NEW address \in {{}} \cup {{t} : t \in Tx},
         Send(m, address)
  PROVE  IInv'
<1> USE DEF IInv
<1> DEFINE c == [at |-> "reading", next |-> capture[m].next,
                 ids |-> capture[m].ids, options |-> address]
<1>1. capture[m] \in Capturing /\ capture[m].next \in 1..Size[m]
  BY DEF Typed, TypeOK, NextOK
<1>2. capture' = [capture EXCEPT ![m] = c]
  <2>1. [capture[m] EXCEPT !.at = "reading", !.options = address] = c
    BY <1>1, CaptureFields
  <2> HIDE DEF c
  <2> QED BY <2>1 DEF Send
<1>3. c \in Capturing /\ c.next \in 1..Size[m] /\ c.at = "reading"
  BY <1>1 DEF Capturing
<1>4. Typed'
  <2> HIDE DEF c
  <2> QED BY <1>2, <1>3 DEF Send, Typed, TypeOK, NextOK
<1>5. Safe'
  BY DEF Send, Safe, TodoVerified, DeletedMeansVerified, Typed, TypeOK
<1>6. Agree'
  BY AgreeFrame DEF Send
<1> QED BY <1>4, <1>5, <1>6

(* A file is written.                                                        *)
LEMMA StoreInv ==
  ASSUME IInv, NEW m \in Message, Store(m)
  PROVE  IInv'
<1> USE DEF IInv
<1> DEFINE c == [at |-> "stored", next |-> capture[m].next,
                 ids |-> capture[m].ids, options |-> capture[m].options]
<1>1. capture[m] \in Capturing /\ capture[m].next \in 1..Size[m]
  BY DEF Typed, TypeOK, NextOK
<1>2. capture' = [capture EXCEPT ![m] = c]
  <2>1. [capture[m] EXCEPT !.at = "stored"] = c
    BY <1>1 DEF Capturing
  <2> HIDE DEF c
  <2> QED BY <2>1 DEF Store
<1>3. c \in Capturing /\ c.next \in 1..Size[m] /\ c.at = "stored"
  BY <1>1 DEF Capturing
<1>4. Typed'
  <2> HIDE DEF c
  <2> QED BY <1>2, <1>3 DEF Store, Typed, TypeOK, NextOK
<1>5. Safe' /\ Agree'
  BY SafeFrame, AgreeFrame DEF Store
<1> QED BY <1>4, <1>5

(* The row of a receipt that was just stored.                                *)
LEMMA FreshRow ==
  ASSUME NEW p, NEW r, r = [NoRow EXCEPT !.part = p]
  PROVE  r = [part |-> p, tx |-> NoTx, source_deleted |-> FALSE]
BY DEF NoRow

(* A row is inserted; its rowid was free, so no charge loses a receipt.      *)
LEMMA PersistInv ==
  ASSUME IInv, NEW m \in Message, NEW a \in AttId, Persist(m, a)
  PROVE  IInv'
<1> USE DEF IInv
<1> DEFINE p == <<m, capture[m].next>>
           b == [at |-> capture[m].at, next |-> capture[m].next,
                 ids |-> capture[m].ids \cup {a}, options |-> capture[m].options]
           c == Advanced(b, m)
           r == [part |-> p, tx |-> NoTx, source_deleted |-> FALSE]
<1>1. capture[m] \in Capturing /\ capture[m].next \in 1..Size[m] /\ capture[m].at = "stored"
  BY DEF Persist, Typed, TypeOK, NextOK
<1>2. b \in Capturing /\ b.next \in 1..Size[m] /\ b.at = "stored"
  BY <1>1 DEF Capturing
<1>3. /\ c \in Capturing /\ c.next \in 1..Size[m]
      /\ c.at \in {"resolving", "linking", "asking"} => c.ids # {}
  <2> HIDE DEF b
  <2> QED BY <1>2, AdvancedType
<1>4. capture' = [capture EXCEPT ![m] = c]
  <2>1. [capture[m] EXCEPT !.ids = capture[m].ids \cup {a}] = b
    BY <1>1 DEF Capturing
  <2>2. capture' = [capture EXCEPT ![m] =
                      Advanced([capture[m] EXCEPT !.ids = capture[m].ids \cup {a}], m)]
    BY DEF Persist
  <2> HIDE DEF b
  <2> QED BY <2>1, <2>2
<1>5. p \in Part /\ p # NoPart
  BY <1>1, PartType DEF Capturing, NoPart
<1>6. r \in Attached /\ rows' = [rows EXCEPT ![a] = r]
  <2>1. [NoRow EXCEPT !.part = p] = r
    BY FreshRow
  <2>2. r \in Attached
    BY <1>5 DEF Attached
  <2> HIDE DEF r
  <2> QED BY <2>1, <2>2 DEF Persist
<1>7. a \notin RowIds /\ rows[a].tx = NoTx
  BY DEF Persist, IsNext, Agree, RefOK, RowIds, AttId
<1>8. UNCHANGED <<channel, disk, charge, job, run, edits, mishaps, gated, adrift>> /\ recorded' \subseteq Message
  BY DEF Persist, Typed, TypeOK
<1>9. Typed'
  <2> HIDE DEF c, r
  <2> QED BY <1>3, <1>4, <1>6, <1>8 DEF Typed, TypeOK, NextOK
<1>10. Safe'
  BY <1>8, SafeFrame
<1>11. Agree'
  <2>1. \A t \in Tx : Linked(t)' = Linked(t)
    BY <1>5, <1>6, <1>7 DEF Linked, RowIds, Typed, TypeOK, Tx, NoTx
  <2> QED BY <1>5, <1>6, <1>7, <1>8, <2>1 DEF Agree, RefOK, AttachedHasReceipt, ReceiptClosesCharge, Typed, TypeOK
<1> QED BY <1>9, <1>10, <1>11

(* A receipt keeps its file when it is moved to another charge or to none.   *)
LEMMA RelinkedType ==
  ASSUME Typed, NEW S \in SUBSET AttId, NEW t \in Tx \cup {NoTx}
  PROVE  /\ Relinked(S, t) \in [AttId -> Attached]
         /\ \A a \in AttId : /\ Relinked(S, t)[a].part = rows[a].part
                             /\ Relinked(S, t)[a].tx = IF a \in S THEN t ELSE rows[a].tx
BY DEF Typed, TypeOK, Relinked, Attached

LEMMA EnqueuedType ==
  ASSUME Typed, NEW k, NEW ids \in SUBSET AttId
  PROVE  Enqueued(k, ids) \in [Key -> Job]
<1> DEFINE j == [status |-> "pending", ids |-> ids]
<1>1. j \in Job
  BY DEF Job
<1> HIDE DEF j
<1>2. [job EXCEPT ![k] = j] \in [Key -> Job] /\ job \in [Key -> Job]
  BY <1>1 DEF Typed, TypeOK
<1> QED BY <1>2 DEF Enqueued, j

(* Only orphans are taken, so no other charge loses a receipt, and the       *)
(* charge that gets them is closed.                                          *)
LEMMA LinkInv ==
  ASSUME IInv, NEW m \in Message, NEW t \in Tx, Link(m, t)
  PROVE  IInv'
<1> USE DEF IInv
<1> DEFINE ids == capture[m].ids
           free == Linkable(ids)
<1>1. capture[m] \in Capturing /\ ids \in SUBSET AttId /\ free \in SUBSET RowIds
  BY DEF Typed, TypeOK, Capturing, Linkable
<1>2. Over \in Capturing /\ Over.next \in 1..Size[m] /\ Over.at = "over"
  BY CaptureAssumption DEF Over, NewCapture, Capturing
<1>3. /\ capture' = [capture EXCEPT ![m] = Over]
      /\ UNCHANGED <<channel, disk, recorded, run, edits, mishaps, gated>>
  BY DEF Link, LinkAttachments
<1>4. Safe'
  BY <1>3, SafeFrame
<1>5. CASE UNCHANGED <<rows, charge, job, adrift>>
  BY <1>2, <1>3, <1>4, <1>5, CaptureType, AgreeFrame
<1>6. CASE /\ charge[t] # "absent" /\ free # {}
           /\ rows' = Relinked(free, t)
           /\ charge' = [charge EXCEPT ![t] = "attached"]
           /\ job' = Enqueued(<<t, Min(ids)>>, ids)
           /\ adrift' = adrift \ {t}
  <2>1. job' \in [Key -> Job]
    BY <1>1, <1>6, EnqueuedType
  <2>2. /\ rows' \in [AttId -> Attached]
        /\ \A a \in AttId : /\ rows'[a].part = rows[a].part
                            /\ rows'[a].tx = IF a \in free THEN t ELSE rows[a].tx
    <3>1. RowIds \subseteq AttId
      BY DEF RowIds
    <3>2. free \in SUBSET AttId
      BY <1>1, <3>1, Zenon
    <3>3. /\ Relinked(free, t) \in [AttId -> Attached]
          /\ \A a \in AttId : /\ Relinked(free, t)[a].part = rows[a].part
                              /\ Relinked(free, t)[a].tx = IF a \in free THEN t ELSE rows[a].tx
      <4> HIDE DEF free
      <4>1. Typed /\ t \in Tx \cup {NoTx}
        OBVIOUS
      <4>. QED
        BY ONLY <3>2, <4>1, RelinkedType
    <3>. QED
      BY <1>6, <3>3
  <2>3. Typed'
    BY <1>2, <1>3, <1>6, <2>1, <2>2 DEF Typed, TypeOK, NextOK, Status
  <2>4. \A u \in Tx : Linked(u)' = IF u = t THEN Linked(u) \cup free ELSE Linked(u)
    BY <1>1, <2>2 DEF Linked, RowIds, Linkable, Tx, NoTx
  <2>5. /\ \A u \in Tx : charge'[u] = IF u = t THEN "attached" ELSE charge[u]
        /\ \A u \in adrift' : u # t /\ u \in adrift
        /\ \A u \in Tx : u = t \/ u \in adrift' \/ u \notin adrift
    BY <1>6 DEF Typed, TypeOK
  <2>6. RefOK'
    BY <1>1, <2>2, <2>5 DEF Agree, RefOK, RowIds, Typed, TypeOK, Attached, Tx, NoTx
  <2>7. AttachedHasReceipt'
    BY <1>6, <2>4, <2>5 DEF Agree, AttachedHasReceipt
  <2>8. ReceiptClosesCharge'
    BY <2>4, <2>5 DEF Agree, ReceiptClosesCharge
  <2> QED BY <1>4, <2>3, <2>6, <2>7, <2>8 DEF Agree
<1> QED BY <1>5, <1>6 DEF Link, LinkAttachments

-----------------------------------------------------------------------------
(* A step of the finalize coroutine of a key, which may change its job, the  *)
(* receipts' flags, the channel and the gate.                                *)
LEMMA RunType ==
  ASSUME Typed, NEW k \in Key, NEW r \in Run,
         run' = [run EXCEPT ![k] = r],
         channel' \in [Message -> {"unsent", "present", "deleted"}],
         rows' \in [AttId -> Attached], job' \in [Key -> Job], gated' \subseteq Part,
         UNCHANGED <<capture, disk, recorded, charge, edits, mishaps, adrift>>
  PROVE  Typed'
BY DEF Typed, TypeOK, NextOK

(* A coroutine's record after the assignments that its steps make.           *)
LEMMA ClaimFields ==
  ASSUME NEW at, NEW ids, NEW d, d = [NoRun EXCEPT !.at = at, !.ids = ids]
  PROVE  d = [at |-> at, ids |-> ids, todo |-> {}, deleted |-> FALSE]
BY DEF NoRun

LEMMA LoadFields ==
  ASSUME NEW r \in Run, NEW at, NEW todo, NEW d, d = [r EXCEPT !.at = at, !.todo = todo]
  PROVE  d = [at |-> at, ids |-> r.ids, todo |-> todo, deleted |-> r.deleted]
BY DEF Run

LEMMA DeleteFields ==
  ASSUME NEW r \in Run, NEW todo, NEW deleted, NEW d,
         d = [r EXCEPT !.todo = todo, !.deleted = deleted]
  PROVE  d = [at |-> r.at, ids |-> r.ids, todo |-> todo, deleted |-> deleted]
BY DEF Run

(* Nothing to delete, and out of the way.                                    *)
LEMMA ReturnedType ==
  /\ NoRun \in Run /\ NoRun.todo = {}
  /\ [NoRun EXCEPT !.at = "returned"] \in Run
  /\ [NoRun EXCEPT !.at = "returned"].todo = {}
BY DEF NoRun, Run

LEMMA ClaimInv ==
  ASSUME IInv, NEW k \in Key, Claim(k)
  PROVE  IInv'
<1> USE DEF IInv
<1> DEFINE r == [at |-> "claimed", ids |-> job[k].ids, todo |-> {}, deleted |-> FALSE]
<1>1. run[k] \in Run /\ job[k].ids \in SUBSET AttId
  BY DEF Typed, TypeOK, Job
<1>2. r \in Run /\ r.todo = {}
  BY <1>1 DEF Run
<1>3. run' = [run EXCEPT ![k] = r]
  <2>1. [NoRun EXCEPT !.at = "claimed", !.ids = job[k].ids] = r
    BY <1>1, ClaimFields
  <2> HIDE DEF r
  <2> QED BY <2>1 DEF Claim
<1>4. job' \in [Key -> Job]
  BY DEF Claim, Typed, TypeOK, Job
<1> HIDE DEF r
<1>5. Typed'
  BY <1>2, <1>3, <1>4, RunType DEF Claim, Typed, TypeOK
<1>6. Safe'
  BY <1>2, <1>3, SafeFrame DEF Claim, Typed, TypeOK
<1>7. Agree'
  BY AgreeFrame DEF Claim
<1> QED BY <1>5, <1>6, <1>7

(* A receipt of the payload that belongs to the charge has a file.           *)
LEMMA MineType ==
  ASSUME IInv, NEW k \in Key, NEW a \in Mine(k)
  PROVE  a \in AttId /\ rows[a].part \in Part /\ MessageOf(a) \in Message
<1>1. a \in AttId /\ rows[a].tx = k[1] /\ k[1] \in Tx
  BY DEF IInv, Typed, TypeOK, Mine, Run, Key
<1>2. rows[a].part # NoPart
  BY <1>1 DEF IInv, Agree, RefOK, Tx, NoTx
<1> QED BY <1>1, <1>2, PartType DEF IInv, Typed, TypeOK, Attached, MessageOf

(* The gate: what is to be deleted is what was found durable.                *)
LEMMA LoadInv ==
  ASSUME IInv, NEW k \in Key, Load(k)
  PROVE  IInv'
<1> USE DEF IInv
<1> DEFINE todo == {MessageOf(a) : a \in Mine(k)}
           r == [at |-> "loaded", ids |-> run[k].ids, todo |-> todo, deleted |-> run[k].deleted]
<1>1. run[k] \in Run
  BY DEF Typed, TypeOK
<1>2. todo \in SUBSET Message
  BY MineType
<1>3. r \in Run
  BY <1>1, <1>2 DEF Run
<1>4. run' = [run EXCEPT ![k] = r]
  <2> HIDE DEF todo
  <2>1. [run[k] EXCEPT !.at = "loaded", !.todo = todo] = r
    BY <1>1, LoadFields
  <2> HIDE DEF r
  <2> QED BY <2>1 DEF Load, todo
<1>5. gated' = gated \cup {rows[a].part : a \in Mine(k)}
  BY DEF Load, Durable
<1>6. gated' \subseteq Part
  BY <1>5, MineType DEF Typed, TypeOK
<1>7. UNCHANGED <<channel, capture, disk, rows, recorded, charge, job, edits, mishaps, adrift>>
  BY DEF Load
<1>8. Typed'
  <2> HIDE DEF r
  <2> QED BY <1>3, <1>4, <1>6, <1>7, RunType DEF Typed, TypeOK
<1>9. Safe'
  <2>1. \A m \in todo : \E p \in gated' : p[1] = m
    BY <1>5 DEF MessageOf
  <2>2. \A j \in Key : run'[j].todo = IF j = k THEN todo ELSE run[j].todo
    <3>1. r.todo = todo
      OBVIOUS
    <3> HIDE DEF r
    <3> QED BY <1>4, <3>1 DEF Typed, TypeOK
  <2> HIDE DEF todo, r
  <2>3. TodoVerified'
    BY <1>5, <2>1, <2>2 DEF Safe, TodoVerified
  <2> QED BY <1>5, <1>7, <2>3 DEF Safe, DeletedMeansVerified
<1>10. Agree'
  BY <1>7, AgreeFrame
<1> QED BY <1>8, <1>9, <1>10

(* Steps of the coroutine that delete nothing.                               *)
LEMMA QuietRunInv ==
  ASSUME IInv, NEW k \in Key,
         \/ LoadNothing(k) \/ Confirm(k)
         \/ \E m \in Message : DeleteRefused(k, m)
         \/ \E status \in {"done", "pending", "dead"} : Finish(k, status)
  PROVE  IInv'
<1> USE DEF IInv
<1>1. run[k] \in Run /\ run \in [Key -> Run]
  BY DEF Typed, TypeOK
<1>2. \E r \in Run : run' = [run EXCEPT ![k] = r] /\ r.todo \subseteq run[k].todo
  <2>1. CASE LoadNothing(k)
    BY <2>1, ReturnedType DEF LoadNothing
  <2>2. CASE Confirm(k)
    <3> DEFINE r == [run[k] EXCEPT !.at = "deleting"]
    <3>1. r \in Run /\ r.todo = run[k].todo
      BY <1>1 DEF Run
    <3> QED BY <2>2, <3>1 DEF Confirm
  <2>3. ASSUME NEW m \in Message, DeleteRefused(k, m)
        PROVE  \E r \in Run : run' = [run EXCEPT ![k] = r] /\ r.todo \subseteq run[k].todo
    <3> DEFINE r == [run[k] EXCEPT !.todo = run[k].todo \ {m}]
    <3>1. r \in Run /\ r.todo \subseteq run[k].todo
      BY <1>1 DEF Run
    <3> QED BY <2>3, <3>1 DEF DeleteRefused
  <2>4. CASE \E status \in {"done", "pending", "dead"} : Finish(k, status)
    BY <2>4, ReturnedType DEF Finish
  <2> QED BY <2>1, <2>2, <2>3, <2>4
<1>3. job' \in [Key -> Job]
  BY DEF LoadNothing, Confirm, DeleteRefused, Finish, Typed, TypeOK, Job
<1>4. UNCHANGED <<channel, capture, disk, rows, recorded, charge, edits, mishaps, gated, adrift>>
  BY DEF LoadNothing, Confirm, DeleteRefused, Finish
<1>5. Typed'
  BY <1>2, <1>3, <1>4, RunType DEF Typed, TypeOK
<1>6. Safe'
  BY <1>1, <1>2, <1>4, SafeFrame
<1>7. Agree'
  BY <1>4, AgreeFrame
<1> QED BY <1>5, <1>6, <1>7

(* Only a message that passed the gate is deleted.                           *)
LEMMA DeleteReceiptInv ==
  ASSUME IInv, NEW k \in Key, NEW m \in Message, DeleteReceipt(k, m)
  PROVE  IInv'
<1> USE DEF IInv
<1> DEFINE todo == run[k].todo \ {m}
           r == [at |-> run[k].at, ids |-> run[k].ids, todo |-> todo, deleted |-> TRUE]
<1>1. run[k] \in Run /\ run \in [Key -> Run]
  BY DEF Typed, TypeOK
<1>2. r \in Run /\ r.todo \subseteq run[k].todo
  BY <1>1 DEF Run
<1>3. run' = [run EXCEPT ![k] = r]
  <2>1. [run[k] EXCEPT !.todo = run[k].todo \ {m}, !.deleted = TRUE] = r
    BY <1>1, DeleteFields
  <2> HIDE DEF r
  <2> QED BY <2>1 DEF DeleteReceipt
<1> HIDE DEF r
<1>4. channel' = [channel EXCEPT ![m] = "deleted"] /\ m \in run[k].todo
  BY DEF DeleteReceipt
<1>5. UNCHANGED <<capture, disk, rows, recorded, charge, job, edits, mishaps, gated, adrift>>
  BY DEF DeleteReceipt
<1>6. Typed'
  BY <1>2, <1>3, <1>4, <1>5, RunType DEF Typed, TypeOK
<1>7. Safe'
  <2>1. \A j \in Key : run'[j].todo \subseteq run[j].todo
    BY <1>1, <1>2, <1>3
  <2>2. TodoVerified'
    BY <1>5, <2>1 DEF Safe, TodoVerified
  <2>3. DeletedMeansVerified'
    BY <1>4, <1>5 DEF Safe, TodoVerified, DeletedMeansVerified, Typed, TypeOK
  <2> QED BY <2>2, <2>3 DEF Safe
<1>8. Agree'
  BY <1>5, AgreeFrame
<1> QED BY <1>6, <1>7, <1>8

(* The flags of the payload's receipts.                                      *)
LEMMA MarkInv ==
  ASSUME IInv, NEW k \in Key, NEW notice \in BOOLEAN, Mark(k, notice)
  PROVE  IInv'
<1> USE DEF IInv
<1>1. /\ rows' \in [AttId -> Attached]
      /\ \A a \in AttId : rows'[a].part = rows[a].part /\ rows'[a].tx = rows[a].tx
  <2>1. \A a \in AttId : rows[a] \in Attached
    BY DEF Typed, TypeOK
  <2>2. \A a \in AttId : LET marked == [rows[a] EXCEPT !.source_deleted = TRUE]
                         IN  marked \in Attached /\ marked.part = rows[a].part /\ marked.tx = rows[a].tx
    BY ONLY <2>1 DEF Attached
  <2>. QED
    BY ONLY <2>1, <2>2, Mark(k, notice) DEF Mark
<1>2. /\ run' = [run EXCEPT ![k] = [NoRun EXCEPT !.at = "returned"]]
      /\ UNCHANGED <<channel, capture, disk, recorded, charge, job, edits, mishaps, gated, adrift>>
  BY DEF Mark
<1>3. Typed'
  BY <1>1, <1>2, ReturnedType, RunType DEF Typed, TypeOK
<1>4. Safe'
  BY <1>2, ReturnedType, SafeFrame DEF Typed, TypeOK
<1>5. Agree'
  <2>1. \A t \in Tx : Linked(t)' = Linked(t)
    BY <1>1 DEF Linked, RowIds
  <2> QED BY <1>1, <1>2, <2>1 DEF Agree, RefOK, AttachedHasReceipt, ReceiptClosesCharge
<1> QED BY <1>3, <1>4, <1>5

-----------------------------------------------------------------------------
(* Edits by hand, and what comes by mail or with time, leave the captures    *)
(* and the coroutines alone.                                                 *)
LEMMA HandType ==
  ASSUME Typed,
         disk' \in [Part -> {"none", "good", "bad"}],
         rows' \in [AttId -> Attached],
         charge' \in [Tx -> Status \cup {"absent"}],
         job' \in [Key -> Job],
         edits' \in 0..MaxEdits, mishaps' \in 0..MaxMishaps, adrift' \subseteq Tx,
         UNCHANGED <<channel, capture, recorded, run, gated>>
  PROVE  Typed'
BY DEF Typed, TypeOK, NextOK

LEMMA EditType ==
  ASSUME Typed, Edit
  PROVE  edits' \in 0..MaxEdits
BY CaptureAssumption DEF Typed, TypeOK, Edit

LEMMA DiscardedType ==
  ASSUME Typed, NEW t
  PROVE  Discarded(t) \in [Key -> Job]
BY DEF Typed, TypeOK, Discarded, NoJob, Job

(* The charge that gets the receipt is closed; the one that loses it is      *)
(* adrift.                                                                   *)
LEMMA AttachInv ==
  ASSUME IInv, NEW a \in AttId, NEW t \in Tx, AssignOrphan(a, t) \/ AttachOrphan(a, t)
  PROVE  IInv'
<1> USE DEF IInv
<1>1. /\ a \in RowIds /\ charge[t] # "absent"
      /\ rows' = Relinked({a}, t)
      /\ charge' = [charge EXCEPT ![t] = Closed(charge[t])]
      /\ adrift' = IF rows[a].tx \in Tx \ {t} THEN adrift \cup {rows[a].tx} ELSE adrift
      /\ UNCHANGED <<channel, capture, disk, recorded, job, run, mishaps, gated>>
  BY DEF AssignOrphan, AttachOrphan, Existing, Tx, NoTx
<1>2. /\ rows' \in [AttId -> Attached]
      /\ \A b \in AttId : /\ rows'[b].part = rows[b].part
                          /\ rows'[b].tx = IF b \in {a} THEN t ELSE rows[b].tx
  BY <1>1, RelinkedType
<1>3. Closed(charge[t]) \in {"attached", "settled"} /\ Closed(charge[t]) \in Status
  BY <1>1 DEF Closed, Status, Typed, TypeOK
<1>4. charge' \in [Tx -> Status \cup {"absent"}] /\ adrift' \subseteq Tx
  BY <1>1, <1>3 DEF Typed, TypeOK
<1>5. edits' \in 0..MaxEdits
  BY EditType DEF AssignOrphan, AttachOrphan
<1>6. Typed'
  BY <1>1, <1>2, <1>4, <1>5, HandType DEF Typed, TypeOK
<1>7. Safe'
  BY <1>1, SafeFrame
<1>8. Agree'
  <2>1. \A u \in Tx : charge'[u] = IF u = t THEN Closed(charge[t]) ELSE charge[u]
    BY <1>1 DEF Typed, TypeOK
  <2>2. a \in Linked(t)'
    BY <1>1, <1>2 DEF Linked, RowIds
  <2>3. \A u \in Tx \ adrift' : u # t => Linked(u)' = Linked(u)
    BY <1>1, <1>2 DEF Linked, RowIds
  <2>4. \A u \in Tx \ adrift' : u \in Tx \ adrift
    BY <1>1
  <2>5. RefOK'
    <3>1. \A b \in AttId : rows'[b].part = NoPart => rows'[b].tx = NoTx
      BY <1>1, <1>2 DEF Agree, RefOK, RowIds
    <3>2. \A b \in AttId : rows'[b].tx # NoTx => charge'[rows'[b].tx] # "absent"
      BY <1>2, <1>3, <2>1 DEF Agree, RefOK, Typed, TypeOK, Attached
    <3>3. \A u \in adrift' : charge'[u] # "absent"
      BY <1>1, <1>3, <1>4, <2>1 DEF Agree, RefOK, RowIds, Tx, NoTx
    <3> QED BY <3>1, <3>2, <3>3 DEF RefOK
  <2>6. AttachedHasReceipt'
    BY <2>1, <2>2, <2>3, <2>4 DEF Agree, AttachedHasReceipt
  <2>7. ReceiptClosesCharge'
    BY <1>3, <2>1, <2>3, <2>4 DEF Agree, ReceiptClosesCharge
  <2> QED BY <2>5, <2>6, <2>7 DEF Agree
<1> QED BY <1>6, <1>7, <1>8

(* A charge that loses its last receipt is open again.                       *)
LEMMA DetachInv ==
  ASSUME IInv, NEW a \in AttId, Detach(a)
  PROVE  IInv'
<1> USE DEF IInv
<1>0. PICK t : t = rows[a].tx
  OBVIOUS
<1>1. /\ a \in RowIds /\ t = rows[a].tx /\ t # NoTx
      /\ charge' = IF Remaining(a) = {} /\ charge[t] = "attached"
                   THEN [charge EXCEPT ![t] = "open"] ELSE charge
      /\ rows' = Relinked({a}, NoTx)
      /\ UNCHANGED <<channel, capture, disk, recorded, job, run, mishaps, gated, adrift>>
  BY <1>0 DEF Detach
<1>2. t \in Tx /\ NoTx \notin Tx
  BY <1>1 DEF Typed, TypeOK, Attached, Tx, NoTx
<1>3. /\ rows' \in [AttId -> Attached]
      /\ \A b \in AttId : /\ rows'[b].part = rows[b].part
                          /\ rows'[b].tx = IF b \in {a} THEN NoTx ELSE rows[b].tx
  <2>1. {a} \in SUBSET AttId /\ NoTx \in Tx \cup {NoTx} /\ rows' = Relinked({a}, NoTx)
    BY <1>1
  <2> QED BY <2>1, RelinkedType
<1>4. charge' \in [Tx -> Status \cup {"absent"}]
  BY <1>1 DEF Typed, TypeOK, Status
<1>5. Typed'
  BY <1>1, <1>3, <1>4, EditType, HandType DEF Detach, Typed, TypeOK
<1>6. Safe'
  BY <1>1, SafeFrame
<1>7. Agree'
  <2>1. \A u \in Tx : charge'[u] = IF u = t /\ Remaining(a) = {} /\ charge[t] = "attached"
                                  THEN "open" ELSE charge[u]
    BY <1>1 DEF Typed, TypeOK
  <2>2. Linked(t)' = Remaining(a)
    BY <1>1, <1>2, <1>3 DEF Linked, RowIds, Remaining
  <2>3. \A u \in Tx : u # t => Linked(u)' = Linked(u)
    BY <1>1, <1>2, <1>3 DEF Linked, RowIds
  <2>4. a \in Linked(t)
    BY <1>1 DEF Linked
  <2>5. RefOK'
    <3>1. \A b \in AttId : rows'[b].part = NoPart => rows'[b].tx = NoTx
      BY <1>1, <1>2, <1>3 DEF Agree, RefOK
    <3>2. \A u \in Tx : charge[u] # "absent" => charge'[u] # "absent"
      BY <2>1
    <3>3. \A b \in AttId : rows[b].tx \in Tx \cup {NoTx}
      BY DEF Typed, TypeOK, Attached
    <3>4. \A b \in AttId : rows'[b].tx # NoTx => charge'[rows'[b].tx] # "absent"
      BY <1>2, <1>3, <3>2, <3>3 DEF Agree, RefOK
    <3>5. \A u \in adrift' : charge'[u] # "absent"
      BY <1>1, <1>2, <3>2 DEF Agree, RefOK, Typed, TypeOK
    <3>. QED
      BY <3>1, <3>4, <3>5 DEF RefOK
  <2>6. AttachedHasReceipt'
    BY <1>1, <2>1, <2>2, <2>3 DEF Agree, AttachedHasReceipt
  <2>7. ReceiptClosesCharge'
    BY <1>1, <2>1, <2>2, <2>3, <2>4 DEF Agree, ReceiptClosesCharge
  <2> QED BY <2>5, <2>6, <2>7 DEF Agree
<1> QED BY <1>5, <1>6, <1>7

LEMMA DeleteAttachmentInv ==
  ASSUME IInv, NEW a \in AttId, DeleteAttachment(a)
  PROVE  IInv'
<1> USE DEF IInv
<1>1. /\ rows[a].tx = NoTx
      /\ disk' = [disk EXCEPT ![rows[a].part] = "bad"]
      /\ rows' = [rows EXCEPT ![a] = NoRow]
      /\ UNCHANGED <<channel, capture, recorded, charge, job, run, mishaps, gated, adrift>>
  BY DEF DeleteAttachment
<1>2. NoRow \in Attached /\ NoRow.part = NoPart /\ NoRow.tx = NoTx
  BY DEF NoRow, Attached
<1>3. /\ rows' \in [AttId -> Attached]
      /\ \A b \in AttId : rows'[b] = IF b = a THEN NoRow ELSE rows[b]
  BY <1>1, <1>2 DEF Typed, TypeOK
<1>4. Typed'
  BY <1>1, <1>3, EditType, HandType DEF DeleteAttachment, Typed, TypeOK
<1>5. Safe'
  BY <1>1, SafeFrame
<1>6. Agree'
  <2>1. \A t \in Tx : Linked(t)' = Linked(t)
    BY <1>1, <1>2, <1>3 DEF Linked, RowIds, Tx, NoTx
  <2> QED BY <1>1, <1>2, <1>3, <2>1 DEF Agree, RefOK, AttachedHasReceipt, ReceiptClosesCharge
<1> QED BY <1>4, <1>5, <1>6

(* The receipts of a charge go with it, or become orphans.                   *)
LEMMA DeleteTransactionInv ==
  ASSUME IInv, NEW t \in Tx, NEW delete_receipts \in BOOLEAN,
         DeleteTransaction(t, delete_receipts)
  PROVE  IInv'
<1> USE DEF IInv
<1> DEFINE S == Linked(t)
<1>1. /\ charge' = [charge EXCEPT ![t] = "absent"]
      /\ job' = Discarded(t)
      /\ adrift' = adrift \ {t}
      /\ UNCHANGED <<channel, capture, recorded, run, mishaps, gated>>
  BY DEF DeleteTransaction
<1>2. S \in SUBSET AttId /\ NoRow \in Attached /\ NoRow.part = NoPart /\ NoRow.tx = NoTx
  BY DEF Linked, RowIds, NoRow, Attached
<1>3. /\ rows' \in [AttId -> Attached]
      /\ \A b \in AttId : IF b \in S THEN rows'[b].tx = NoTx
                          ELSE rows'[b].part = rows[b].part /\ rows'[b].tx = rows[b].tx
  <2> HIDE DEF S
  <2>1. CASE delete_receipts
    <3>1. rows' = [a \in AttId |-> IF a \in S THEN NoRow ELSE rows[a]]
      BY <2>1 DEF DeleteTransaction, S
    <3> QED BY <1>2, <3>1 DEF Typed, TypeOK
  <2>2. CASE ~delete_receipts
    <3>1. rows' = Relinked(S, NoTx)
      BY <2>2 DEF DeleteTransaction, S
    <3>2. /\ rows' \in [AttId -> Attached]
          /\ \A b \in AttId : /\ rows'[b].part = rows[b].part
                              /\ rows'[b].tx = IF b \in S THEN NoTx ELSE rows[b].tx
      BY <1>2, <3>1, RelinkedType
    <3> QED BY <3>2
  <2> QED BY <2>1, <2>2
<1>4. disk' \in [Part -> {"none", "good", "bad"}]
  BY DEF DeleteTransaction, Typed, TypeOK
<1>5. edits' \in 0..MaxEdits /\ job' \in [Key -> Job]
  BY <1>1, EditType, DiscardedType DEF DeleteTransaction
<1>6. charge' \in [Tx -> Status \cup {"absent"}] /\ adrift' \subseteq Tx
  BY <1>1 DEF Typed, TypeOK
<1>7. Typed'
  BY <1>1, <1>3, <1>4, <1>5, <1>6, HandType DEF Typed, TypeOK
<1>8. Safe'
  BY <1>1, SafeFrame
<1>9. Agree'
  <2>1. \A u \in Tx : charge'[u] = IF u = t THEN "absent" ELSE charge[u]
    BY <1>1 DEF Typed, TypeOK
  <2>2. NoTx \notin Tx /\ \A a \in AttId : rows[a].part = NoPart => rows[a].tx = NoTx
    BY DEF Tx, NoTx, Agree, RefOK
  <2>3. \A b \in AttId : b \in S <=> rows[b].tx = t
    BY <2>2 DEF Linked, RowIds
  <2>4. \A u \in Tx : u # t => Linked(u)' = Linked(u)
    <3> HIDE DEF S
    <3> QED BY <1>3, <2>2, <2>3 DEF Linked, RowIds
  <2>5. RefOK'
    <3> HIDE DEF S
    <3>1. \A b \in AttId : rows'[b].tx # t
      BY <1>3, <2>2, <2>3
    <3>2. \A b \in AttId : rows'[b].part = NoPart => rows'[b].tx = NoTx
      BY <1>3, <2>2
    <3>3. \A b \in AttId : rows'[b].tx # NoTx => charge'[rows'[b].tx] # "absent"
      BY <1>3, <2>1, <3>1 DEF Agree, RefOK, Typed, TypeOK, Attached
    <3>4. \A u \in adrift' : charge'[u] # "absent"
      BY <1>1, <1>6, <2>1 DEF Agree, RefOK
    <3> QED BY <3>2, <3>3, <3>4 DEF RefOK
  <2>6. Linked(t)' = {}
    <3> HIDE DEF S
    <3> QED BY <1>3, <2>2, <2>3 DEF Linked, RowIds
  <2>7. AttachedHasReceipt'
    BY <1>1, <2>1, <2>4 DEF Agree, AttachedHasReceipt
  <2>8. ReceiptClosesCharge'
    BY <1>1, <2>1, <2>4, <2>6 DEF Agree, ReceiptClosesCharge
  <2> QED BY <2>5, <2>7, <2>8 DEF Agree
<1> QED BY <1>7, <1>8, <1>9

(* A status set by a human or by a rule.                                     *)
LEMMA SetStatusInv ==
  ASSUME IInv, NEW t \in Tx,
         Silence(t) \/ \E status \in Status : SetStatus(t, status)
  PROVE  IInv'
<1> USE DEF IInv
<1>1. PICK status \in Status : charge' = [charge EXCEPT ![t] = status]
  BY DEF Silence, SetStatus, Status
<1>2. /\ charge[t] # "absent"
      /\ UNCHANGED <<channel, capture, disk, rows, recorded, run, mishaps, gated>>
      /\ \/ adrift' = adrift /\ charge'[t] = "settled" /\ Linked(t) = {}
         \/ adrift' = adrift \cup {t}
  BY DEF Silence, SetStatus, Existing, Typed, TypeOK
<1>3. charge' \in [Tx -> Status \cup {"absent"}] /\ adrift' \subseteq Tx
  BY <1>1, <1>2 DEF Typed, TypeOK
<1>4. edits' \in 0..MaxEdits /\ job' \in [Key -> Job]
  BY EditType, DiscardedType DEF Silence, SetStatus, Typed, TypeOK
<1>5. Typed'
  BY <1>2, <1>3, <1>4, HandType DEF Typed, TypeOK
<1>6. Safe'
  BY <1>2, SafeFrame
<1>7. Agree'
  <2>1. \A u \in Tx : charge'[u] = IF u = t THEN status ELSE charge[u]
    BY <1>1 DEF Typed, TypeOK
  <2>2. \A u \in Tx : Linked(u)' = Linked(u)
    BY <1>2 DEF Linked, RowIds
  <2>3. status # "absent"
    BY DEF Status
  <2>4. RefOK'
    BY <1>2, <1>3, <2>1, <2>3 DEF Agree, RefOK, Typed, TypeOK, Attached
  <2>5. AttachedHasReceipt'
    BY <1>2, <2>1, <2>2 DEF Agree, AttachedHasReceipt
  <2>6. ReceiptClosesCharge'
    BY <1>2, <2>1, <2>2 DEF Agree, ReceiptClosesCharge
  <2> QED BY <2>4, <2>5, <2>6 DEF Agree
<1> QED BY <1>5, <1>6, <1>7

(* A charge whose id was free has no receipt yet.                            *)
LEMMA IngestInv ==
  ASSUME IInv, NEW t \in Tx, NEW status \in {"open", "settled"}, Ingest(t, status)
  PROVE  IInv'
<1> USE DEF IInv
<1>1. /\ charge' = [charge EXCEPT ![t] = status]
      /\ UNCHANGED <<channel, capture, disk, rows, recorded, job, run, edits, mishaps, gated, adrift>>
  BY DEF Ingest
<1>2. charge[t] = "absent"
  BY DEF Ingest, IsNext, Existing, Tx
<1>3. charge' \in [Tx -> Status \cup {"absent"}]
  BY <1>1 DEF Typed, TypeOK, Status
<1>4. Typed'
  BY <1>1, <1>3, HandType DEF Typed, TypeOK
<1>5. Safe'
  BY <1>1, SafeFrame
<1>6. Agree'
  <2>1. \A u \in Tx : charge'[u] = IF u = t THEN status ELSE charge[u]
    BY <1>1 DEF Typed, TypeOK
  <2>2. \A u \in Tx : Linked(u)' = Linked(u)
    BY <1>1 DEF Linked, RowIds
  <2>3. Linked(t) = {} /\ t \notin adrift
    BY <1>2 DEF Agree, RefOK, Linked, RowIds, Tx, NoTx
  <2>4. RefOK'
    BY <1>1, <2>1 DEF Agree, RefOK, Typed, TypeOK, Attached
  <2>5. AttachedHasReceipt'
    BY <1>1, <2>1, <2>2 DEF Agree, AttachedHasReceipt
  <2>6. ReceiptClosesCharge'
    BY <1>1, <2>1, <2>2, <2>3 DEF Agree, ReceiptClosesCharge
  <2> QED BY <2>4, <2>5, <2>6 DEF Agree
<1> QED BY <1>4, <1>5, <1>6

(* Only an open charge lapses, and an open charge has no receipt.            *)
LEMMA SweepLapsedInv ==
  ASSUME IInv, NEW S \in SUBSET Tx, SweepLapsed(S)
  PROVE  IInv'
<1> USE DEF IInv
<1>1. /\ \A t \in S : charge[t] = "open"
      /\ charge' = [t \in Tx |-> IF t \in S THEN "lapsed" ELSE charge[t]]
      /\ UNCHANGED <<channel, capture, disk, rows, recorded, job, run, edits, mishaps, gated, adrift>>
  BY DEF SweepLapsed
<1>2. charge' \in [Tx -> Status \cup {"absent"}]
  BY <1>1 DEF Typed, TypeOK, Status
<1>3. Typed'
  BY <1>1, <1>2, HandType DEF Typed, TypeOK
<1>4. Safe'
  BY <1>1, SafeFrame
<1>5. Agree'
  <2>1. \A u \in Tx : Linked(u)' = Linked(u)
    BY <1>1 DEF Linked, RowIds
  <2>2. RefOK'
    BY <1>1 DEF Agree, RefOK, Typed, TypeOK, Attached
  <2>3. AttachedHasReceipt'
    BY <1>1, <2>1 DEF Agree, AttachedHasReceipt
  <2>4. ReceiptClosesCharge'
    BY <1>1, <2>1 DEF Agree, ReceiptClosesCharge
  <2> QED BY <2>2, <2>3, <2>4 DEF Agree
<1> QED BY <1>3, <1>4, <1>5

(* Jobs come back to life, files are damaged, the process starts again.      *)
LEMMA MishapInv ==
  ASSUME IInv, ReviveDead \/ Restart \/ \E p \in Part : Damage(p)
  PROVE  IInv'
<1> USE DEF IInv
<1>1. UNCHANGED <<channel, rows, recorded, charge, edits, gated, adrift>>
  BY DEF ReviveDead, Restart, Damage
<1>2. job' \in [Key -> Job]
  <2>1. CASE ReviveDead
    BY <2>1 DEF ReviveDead, Typed, TypeOK, Job
  <2>2. CASE Restart
    BY <2>2 DEF Restart, Typed, TypeOK, Job
  <2>3. ASSUME NEW p \in Part, Damage(p) PROVE job' \in [Key -> Job]
    BY <2>3 DEF Damage, Typed, TypeOK
  <2>. QED
    BY <2>1, <2>2, <2>3
<1>3. run' \in [Key -> Run] /\ \A k \in Key : run'[k].todo \subseteq run[k].todo
  BY ReturnedType DEF ReviveDead, Restart, Damage, Typed, TypeOK
<1>4. mishaps' \in 0..MaxMishaps
  BY CaptureAssumption DEF ReviveDead, Restart, Damage, Mishap, Typed, TypeOK
<1>5. disk' \in [Part -> {"none", "good", "bad"}]
  BY DEF ReviveDead, Restart, Damage, Typed, TypeOK
<1>6. \A m \in Message : Over \in Capturing /\ Over.next \in 1..Size[m] /\ Over.at = "over"
  BY CaptureAssumption DEF Over, NewCapture, Capturing
<1>7. /\ capture' \in [Message -> Capturing]
      /\ \A m \in Message : capture'[m] \in {capture[m], Over}
  BY <1>6 DEF ReviveDead, Restart, Damage, Typed, TypeOK
<1>8. /\ \A m \in Message : capture'[m].next \in 1..Size[m]
      /\ \A m \in Message :
           capture'[m].at \in {"resolving", "linking", "asking"} => capture'[m].ids # {}
  BY <1>6, <1>7 DEF Typed, TypeOK, NextOK
<1>9. Typed'
  BY <1>1, <1>2, <1>3, <1>4, <1>5, <1>7, <1>8 DEF Typed, TypeOK, NextOK
<1>10. Safe' /\ Agree'
  BY <1>1, <1>3, SafeFrame, AgreeFrame
<1> QED BY <1>9, <1>10

-----------------------------------------------------------------------------
(* The invariant is inductive.                                               *)
LEMMA NextInv == IInv /\ [Next]_vars => IInv'
<1> SUFFICES ASSUME IInv, [Next]_vars PROVE IInv'
  OBVIOUS
<1>1. CASE Bot
  <2>1. PICK m \in Message :
          \/ \E address \in {{}} \cup {{t} : t \in Tx} : Send(m, address)
          \/ StoreFails(m) \/ Store(m) \/ PersistRaises(m) \/ Hold(m)
          \/ \E a \in AttId : Persist(m, a)
          \/ \E at \in {"linking", "asking", "over"}, options \in SUBSET Tx :
               Resolve(m, at, options)
          \/ \E t \in Tx : Link(m, t)
    BY <1>1 DEF Bot
  <2> QED BY <2>1, SendInv, CaptureOnlyInv, StoreInv, PersistInv, ResolveInv, LinkInv
<1>2. CASE Worker
  <2>1. PICK k \in Key :
          \/ Claim(k) \/ Load(k) \/ LoadNothing(k) \/ Confirm(k)
          \/ \E m \in Message : DeleteReceipt(k, m) \/ DeleteRefused(k, m)
          \/ \E notice \in BOOLEAN : Mark(k, notice)
          \/ \E status \in {"done", "pending", "dead"} : Finish(k, status)
    BY <1>2 DEF Worker
  <2> QED BY <2>1, ClaimInv, LoadInv, QuietRunInv, DeleteReceiptInv, MarkInv
<1>3. CASE Hand
  BY <1>3, AttachInv, DetachInv, DeleteAttachmentInv, DeleteTransactionInv,
     SetStatusInv, MishapInv DEF Hand
<1>4. CASE World
  BY <1>4, IngestInv, SweepLapsedInv, MishapInv DEF World
<1>5. CASE UNCHANGED vars
  BY <1>5 DEF vars, IInv, Typed, TypeOK, NextOK, Safe, TodoVerified, DeletedMeansVerified,
     Agree, RefOK, AttachedHasReceipt, ReceiptClosesCharge, Linked, RowIds
<1> QED BY <1>1, <1>2, <1>3, <1>4, <1>5 DEF Next

(* Every reachable state has all of it.                                      *)
THEOREM Invariance == Spec => []IInv
BY InitInv, NextInv, PTL DEF Spec

(* Every variable keeps its type, and a capture that has come to matching    *)
(* has a row to match: min(attachment_ids) never sees an empty list.         *)
THEOREM TypeCorrect == Spec => []TypeOK
<1>1. IInv => TypeOK
  BY DEF IInv, Typed
<1> QED BY <1>1, Invariance, PTL

(* A source message is deleted only after finalize found the file of one of  *)
(* its receipts intact, whatever is retried, detached, removed or damaged.   *)
THEOREM DeletionIsGated == Spec => []DeletedMeansVerified
<1>1. IInv => DeletedMeansVerified
  BY DEF IInv, Safe
<1> QED BY <1>1, Invariance, PTL

(* A charge is receipt_attached only while it has a receipt, unless its      *)
(* status was set by hand or the charge page moved the receipt.              *)
THEOREM AttachedIsBacked == Spec => []AttachedHasReceipt
<1>1. IInv => AttachedHasReceipt
  BY DEF IInv, Agree
<1> QED BY <1>1, Invariance, PTL

(* A charge with a receipt is never offered, swept or guessed at again, with *)
(* the same exceptions.                                                      *)
THEOREM ReceiptCloses == Spec => []ReceiptClosesCharge
<1>1. IInv => ReceiptClosesCharge
  BY DEF IInv, Agree
<1> QED BY <1>1, Invariance, PTL

(* What LinkIsKept says of a step.                                           *)
Kept ==
  \A a \in AttId :
    rows[a].tx # NoTx /\ rows'[a].tx \notin {NoTx, rows[a].tx} => rows[a].tx \in adrift'

LEMMA StepKeeps == IInv /\ [Next]_vars => Kept
<1> SUFFICES ASSUME IInv, [Next]_vars PROVE Kept
  OBVIOUS
<1>1. CASE UNCHANGED rows
  BY <1>1 DEF Kept
<1>2. ASSUME NEW m \in Message, NEW a \in AttId, Persist(m, a)
      PROVE  Kept
  <2>1. rows[a].tx = NoTx
    BY <1>2 DEF Persist, IsNext, IInv, Agree, RefOK, RowIds, AttId
  <2>2. \A b \in AttId : b # a => rows'[b] = rows[b]
    BY <1>2 DEF Persist, IInv, Typed, TypeOK
  <2> QED BY <2>1, <2>2 DEF Kept
<1>3. ASSUME NEW m \in Message, NEW t \in Tx, Link(m, t), ~UNCHANGED rows
      PROVE  Kept
  <2> DEFINE free == Linkable(capture[m].ids)
  <2>1. rows' = Relinked(free, t) /\ free \in SUBSET AttId /\ \A a \in free : rows[a].tx = NoTx
    BY <1>3 DEF Link, LinkAttachments, Linkable, RowIds
  <2>2. \A a \in AttId : rows'[a].tx = IF a \in free THEN t ELSE rows[a].tx
    BY <2>1, RelinkedType DEF IInv
  <2> QED BY <2>1, <2>2 DEF Kept
<1>4. ASSUME NEW k \in Key, NEW notice \in BOOLEAN, Mark(k, notice)
      PROVE  Kept
  <2>1. \A a \in AttId : rows'[a].tx = rows[a].tx
    BY <1>4 DEF Mark, IInv, Typed, TypeOK, Attached
  <2> QED BY <2>1 DEF Kept
<1>5. ASSUME NEW a \in AttId, NEW t \in Tx, AssignOrphan(a, t) \/ AttachOrphan(a, t)
      PROVE  Kept
  <2>1. \A b \in AttId : rows'[b].tx = IF b \in {a} THEN t ELSE rows[b].tx
    <3>1. {a} \in SUBSET AttId /\ rows' = Relinked({a}, t) /\ t \in Tx \cup {NoTx}
      BY <1>5 DEF AssignOrphan, AttachOrphan
    <3> QED BY <3>1, RelinkedType DEF IInv
  <2>2. rows[a].tx \in Tx \cup {NoTx}
    BY DEF IInv, Typed, TypeOK, Attached
  <2>3. rows[a].tx = NoTx \/ rows[a].tx = t \/ rows[a].tx \in adrift'
    BY <1>5, <2>2 DEF AssignOrphan, AttachOrphan
  <2> QED BY <2>1, <2>3 DEF Kept
<1>6. ASSUME NEW a \in AttId, Detach(a) \/ DeleteAttachment(a)
      PROVE  Kept
  <2>1. \A b \in AttId : rows'[b].tx \in {NoTx, rows[b].tx}
    <3>1. CASE Detach(a)
      <4>1. {a} \in SUBSET AttId /\ rows' = Relinked({a}, NoTx) /\ NoTx \in Tx \cup {NoTx}
        BY <3>1 DEF Detach
      <4>2. \A b \in AttId : rows'[b].tx = IF b \in {a} THEN NoTx ELSE rows[b].tx
        BY <4>1, RelinkedType DEF IInv
      <4> QED BY <4>2
    <3>2. CASE DeleteAttachment(a)
      BY <3>2 DEF DeleteAttachment, NoRow, IInv, Typed, TypeOK
    <3> QED BY <1>6, <3>1, <3>2
  <2> QED BY <2>1 DEF Kept
<1>7. ASSUME NEW t \in Tx, NEW delete_receipts \in BOOLEAN, DeleteTransaction(t, delete_receipts)
      PROVE  Kept
  <2>1. \A b \in AttId : rows'[b].tx \in {NoTx, rows[b].tx}
    <3>1. CASE delete_receipts
      BY <1>7, <3>1 DEF DeleteTransaction, NoRow, IInv, Typed, TypeOK
    <3>2. CASE ~delete_receipts
      <4>1. rows' = Relinked(Linked(t), NoTx) /\ Linked(t) \in SUBSET AttId
        BY <1>7, <3>2 DEF DeleteTransaction, Linked, RowIds
      <4>2. \A b \in AttId : rows'[b].tx = IF b \in Linked(t) THEN NoTx ELSE rows[b].tx
        <5> DEFINE S == Linked(t)
        <5> HIDE DEF S
        <5>1. S \in SUBSET AttId /\ rows' = Relinked(S, NoTx) /\ NoTx \in Tx \cup {NoTx}
          BY <4>1 DEF S
        <5>2. \A b \in AttId : rows'[b].tx = IF b \in S THEN NoTx ELSE rows[b].tx
          BY <5>1, RelinkedType DEF IInv
        <5> QED BY <5>2 DEF S
      <4> QED BY <4>2
    <3> QED BY <3>1, <3>2
  <2> QED BY <2>1 DEF Kept
<1>8. CASE Bot
  BY <1>1, <1>2, <1>3, <1>8 DEF Bot, Send, StoreFails, Store, PersistRaises, Hold, Resolve
<1>9. CASE Worker
  BY <1>1, <1>4, <1>9 DEF Worker, Claim, Load, LoadNothing, Confirm, DeleteReceipt,
     DeleteRefused, Finish
<1>10. CASE Hand
  BY <1>1, <1>5, <1>6, <1>7, <1>10 DEF Hand, SetStatus, Silence, ReviveDead
<1>11. CASE World
  BY <1>1, <1>11 DEF World, Ingest, SweepLapsed, Damage, Restart
<1> QED BY <1>1, <1>8, <1>9, <1>10, <1>11 DEF Next, vars

(* A receipt that has a charge keeps it until a human takes it away, however *)
(* late a picker is answered.                                                *)
THEOREM LinksAreKept == Spec => LinkIsKept
<1>1. IInv /\ [Next]_vars => [Kept]_vars
  BY StepKeeps
<1>2. Spec => [][Kept]_vars
  BY <1>1, Invariance, PTL DEF Spec
<1> QED BY <1>2, PTL DEF LinkIsKept, Kept
=============================================================================
