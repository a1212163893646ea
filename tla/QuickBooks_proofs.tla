-------------------------- MODULE QuickBooks_proofs --------------------------
(***************************************************************************)
(* Type correctness and the three safety invariants of QuickBooks, for all *)
(* values of the constants.                                                *)
(***************************************************************************)
EXTENDS QuickBooks, TLAPS

Holds(s) == sync[s].at \in {"posting", "storing"}

Stores(s) == sync[s].at = "storing"

(* What is referred to was issued. *)
Refs ==
  /\ store.refresh \in 0..Len(token)
  /\ callback.token \in 0..Len(token)
  /\ revoking \in 0..Len(token)
  /\ callback.at = "storing" => callback.token # 0
  /\ \A s \in Sync : sync[s].held \in 0..Len(token) /\ (Holds(s) => sync[s].held # 0)

(* A grant is named by its first token, and is of one company. *)
Grants ==
  /\ \A i \in 1..Len(token) : token[i].grant <= i
  /\ \A i, j \in 1..Len(token) : token[i].grant = token[j].grant => token[i].realm = token[j].realm

(* A token received and not stored yet is known to its receiver only. *)
Fresh ==
  /\ \A s \in Sync :
       Stores(s) =>
         /\ sync[s].held # store.refresh
         /\ \A q \in Sync : q # s /\ Holds(q) => sync[q].held # sync[s].held
  /\ callback.at = "storing" =>
       /\ callback.token # store.refresh
       /\ \A s \in Sync : Holds(s) => sync[s].held # callback.token

Alive(t) == t \in good \/ GrantOf(t) \in gone

(* So nobody else can use it up. *)
FreshAlive ==
  /\ \A s \in Sync : Stores(s) => Alive(sync[s].held)
  /\ callback.at = "storing" => Alive(callback.token)

IInv ==
  /\ TypeOK
  /\ Refs
  /\ Grants
  /\ Fresh
  /\ FreshAlive
  /\ RotationIsKept
  /\ TokensOfCompany
  /\ PickerIsOfCompany

LEMMA InitIInv == Init => IInv
<1> SUFFICES ASSUME Init PROVE IInv
  OBVIOUS
<1> USE DEF Init
<1>1. TypeOK
  <2>1. token \in Seq(Token)
    OBVIOUS
  <2>2. Len(token) <= MaxTokens
    BY QuickBooksAssumption
  <2>3. good \subseteq DOMAIN token
    OBVIOUS
  <2>4. store \in Store
    BY QuickBooksAssumption DEF Store, TokenId
  <2>5. cache \in [Account -> {"absent", "active", "inactive"}]
    OBVIOUS
  <2>6. states \in 0..MaxStates /\ mishaps \in 0..MaxMishaps
    BY QuickBooksAssumption
  <2>7. callback \in Callback
    BY QuickBooksAssumption DEF Callback, NoCallback, TokenId
  <2>8. sync \in [Sync -> Syncing]
    BY QuickBooksAssumption DEF Syncing, NotSyncing, TokenId, Request
  <2>9. revoking \in TokenId
    BY QuickBooksAssumption DEF TokenId
  <2>10. gone \subseteq 1..MaxTokens
    OBVIOUS
  <2>11. crossed \in BOOLEAN
    OBVIOUS
  <2>12. store.refresh = store.access
    OBVIOUS
  <2> HIDE DEF Init
  <2>. QED
    BY <2>1, <2>2, <2>3, <2>4, <2>5, <2>6, <2>7, <2>8, <2>9, <2>10, <2>11, <2>12 DEF TypeOK
<1>2. Refs /\ Fresh /\ FreshAlive
  BY DEF Refs, Fresh, FreshAlive, Holds, Stores, NoCallback, NotSyncing
<1>3. Grants
  BY DEF Grants
<1>4. RotationIsKept /\ TokensOfCompany /\ PickerIsOfCompany
  BY DEF RotationIsKept, TokensOfCompany, PickerIsOfCompany
<1>. QED
  BY <1>1, <1>2, <1>3, <1>4 DEF IInv

-----------------------------------------------------------------------------
(* What Intuit's answer with a new pair changes, and keeps. *)
LEMMA Issued ==
  ASSUME TypeOK, NEW g \in 0..MaxTokens, NEW r \in Realm, Issue(g, r)
  PROVE  /\ Len(token) \in Nat
         /\ Len(token') = Len(token) + 1
         /\ Len(token') <= MaxTokens
         /\ token' \in Seq(Token)
         /\ \A i \in 1..Len(token) : token'[i] = token[i]
         /\ token'[Len(token')] = [grant |-> IF g = 0 THEN Len(token') ELSE g, realm |-> r]
<1>1. Len(token) \in Nat /\ token \in Seq(Token)
  BY DEF TypeOK
<1> DEFINE pair == [grant |-> IF g = 0 THEN Len(token) + 1 ELSE g, realm |-> r]
<1>2. pair \in Token
  BY <1>1, QuickBooksAssumption DEF Issue, Token
<1>3. token' = Append(token, pair)
  BY DEF Issue
<1>. QED
  BY <1>1, <1>2, <1>3, QuickBooksAssumption DEF Issue

(* The types, by what changes together. *)
IntuitType ==
  /\ token \in Seq(Token)
  /\ Len(token) <= MaxTokens
  /\ good \subseteq DOMAIN token
  /\ gone \subseteq 1..MaxTokens

StoreType == store \in Store /\ store.refresh = store.access

CacheType == cache \in [Account -> {"absent", "active", "inactive"}]

CountType == states \in 0..MaxStates /\ mishaps \in 0..MaxMishaps /\ crossed \in BOOLEAN

BrowserType == callback \in Callback /\ revoking \in TokenId

SyncType == sync \in [Sync -> Syncing]

LEMMA TypeParts ==
  TypeOK <=> IntuitType /\ StoreType /\ CacheType /\ CountType /\ BrowserType /\ SyncType
  BY DEF TypeOK, IntuitType, StoreType, CacheType, CountType, BrowserType, SyncType

LEMMA Grant ==
  ASSUME IntuitType
  PROVE  \A t \in 1..Len(token) : token[t] \in Token /\ GrantOf(t) \in 1..MaxTokens
<1>1. token \in [1..Len(token) -> Token] /\ Len(token) \in Nat
  BY DEF IntuitType
<1>. QED
  BY <1>1 DEF GrantOf, Token

LEMMA GrantsHeldType ==
  ASSUME IntuitType, Refs, NEW S \in SUBSET Sync
  PROVE  GrantsHeld(S) \subseteq 1..MaxTokens
<1> SUFFICES ASSUME NEW s \in S, sync[s].at = "storing" PROVE GrantOf(sync[s].held) \in 1..MaxTokens
  BY DEF GrantsHeld
<1>1. sync[s].held \in 1..Len(token)
  BY DEF Refs, Holds, IntuitType
<1>. QED
  BY <1>1, Grant

LEMMA RotatesIssues ==
  ASSUME TypeOK, Refs, NEW s \in Sync, Rotates(s)
  PROVE  /\ Len(token) \in Nat
         /\ Len(token') = Len(token) + 1
         /\ Len(token') <= MaxTokens
         /\ token' \in Seq(Token)
         /\ \A i \in 1..Len(token) : token'[i] = token[i]
         /\ sync[s].held \in 1..Len(token)
         /\ token'[Len(token')] = [grant |-> GrantOf(sync[s].held), realm |-> token[sync[s].held].realm]
<1>1. Len(token) \in Nat /\ IntuitType
  BY TypeParts DEF IntuitType
<1>2. sync[s].held \in 1..Len(token)
  BY <1>1 DEF Rotates, Refs, Holds
<1>3. GrantOf(sync[s].held) \in 1..MaxTokens /\ token[sync[s].held].realm \in Realm
  BY <1>1, <1>2, Grant DEF Token
<1>. QED
  BY <1>1, <1>2, <1>3, Issued DEF Rotates

-----------------------------------------------------------------------------
(* Every variable keeps its type. *)

LEMMA StoreStep ==
  ASSUME TypeOK, Refs, [Next]_vars
  PROVE  StoreType'
<1>1. StoreType /\ IntuitType /\ Len(token) \in Nat
  BY TypeParts DEF IntuitType
<1> USE DEF StoreType, Store, TokenId
<1>2. CASE Connect
  BY <1>1, <1>2 DEF Connect
<1>3. CASE CallbackRefused
  BY <1>1, <1>3 DEF CallbackRefused
<1>4. CASE ExchangeRejected
  BY <1>1, <1>4 DEF ExchangeRejected
<1>5. CASE ExchangeWrite
  <2>1. callback.token \in 1..Len(token)
    BY <1>1, <1>5 DEF ExchangeWrite, Refs
  <2>2. token[callback.token].realm \in Realm /\ callback.token \in 0..MaxTokens
    BY <1>1, <2>1, Grant, QuickBooksAssumption DEF Token, IntuitType
  <2>. QED
    BY <1>1, <1>5, <2>2 DEF ExchangeWrite, Connected
<1>6. CASE CallbackCommits
  BY <1>1, <1>6 DEF CallbackCommits
<1>7. CASE Disconnect
  <2>1. 0 \in 0..MaxTokens
    BY QuickBooksAssumption
  <2>2. store' = [store EXCEPT !.refresh = 0, !.access = 0, !.realm = NoRealm, !.company = NoRealm]
    BY <1>7 DEF Disconnect, Cleared
  <2>. QED
    BY <1>1, <2>1, <2>2
<1>8. ASSUME NEW s \in Sync, StoreTokens(s) PROVE StoreType'
  <2>1. sync[s].held \in 0..MaxTokens
    BY <1>1, QuickBooksAssumption DEF Refs, IntuitType
  <2>. QED
    BY <1>1, <1>8, <2>1 DEF StoreTokens, Stored
<1>9. ASSUME NEW s \in Sync, Merge(s) PROVE StoreType'
  <2>1. sync[s].realm \in Realm \cup {NoRealm}
    BY TypeParts DEF SyncType, Syncing
  <2>. QED
    BY <1>1, <1>9, <2>1 DEF Merge
<1>10. ASSUME UNCHANGED store PROVE StoreType'
  BY <1>1, <1>10
<1> HIDE DEF StoreType
<1>. QED
  BY <1>2, <1>3, <1>4, <1>5, <1>6, <1>7, <1>8, <1>9, <1>10
     DEF Next, CallbackStep, SyncStep, CallbackBegins, ExchangePost, ExchangeBusy, CallbackRaises, Raises,
         Revoke, RevokeFails, Enter, ReadToken, Rotate, RotateRejected, Answered, Unauthorised,
         SyncBusy, SyncFails, AnswerLost, Restart, vars

LEMMA IntuitStep ==
  ASSUME TypeOK, Refs, [Next]_vars
  PROVE  IntuitType'
<1>1. IntuitType /\ Len(token) \in Nat /\ Len(token) <= MaxTokens
  BY TypeParts DEF IntuitType
<1>2. ASSUME NEW G \in SUBSET (1..MaxTokens), gone' = gone \cup G, UNCHANGED intuit PROVE IntuitType'
  BY <1>1, <1>2 DEF IntuitType, intuit
<1>3. callback.at = "storing" => callback.token \in 1..MaxTokens
  BY <1>1, QuickBooksAssumption DEF Refs
<1>4. CASE ExchangePost
  <2>1. PICK r \in Realm : Issue(0, r)
    BY <1>4 DEF ExchangePost
  <2>0. 0 \in 0..MaxTokens
    BY QuickBooksAssumption
  <2>2. Len(token') = Len(token) + 1 /\ Len(token') <= MaxTokens /\ token' \in Seq(Token)
    BY <2>0, <2>1, Issued
  <2>. QED
    BY <1>1, <1>4, <2>2 DEF ExchangePost, IntuitType
<1>5. ASSUME NEW s \in Sync, Rotate(s) \/ AnswerLost(s) PROVE IntuitType'
  <2>1. Rotates(s)
    BY <1>5 DEF Rotate, AnswerLost
  <2>2. /\ Len(token') = Len(token) + 1 /\ Len(token') <= MaxTokens /\ token' \in Seq(Token)
        /\ sync[s].held \in 1..Len(token)
    BY <2>1, RotatesIssues
  <2>3. good' \subseteq DOMAIN token'
    BY <1>1, <2>1, <2>2 DEF Rotates, IntuitType
  <2>4. GrantOf(sync[s].held) \in 1..MaxTokens
    BY <1>1, <2>2, Grant
  <2>5. gone' \subseteq 1..MaxTokens
    BY <1>1, <1>5, <2>4 DEF Rotate, AnswerLost, IntuitType
  <2>. QED
    BY <2>2, <2>3, <2>5 DEF IntuitType
<1>6. CASE Revoke
  <2>1. GrantOf(revoking) \in 1..MaxTokens
    BY <1>1, <1>6, Grant DEF Revoke, Refs
  <2>. QED
    BY <1>1, <1>6, <2>1 DEF Revoke, IntuitType
<1>7. CASE CallbackRaises \/ ExchangeBusy
  BY <1>2, <1>3, <1>7 DEF CallbackRaises, ExchangeBusy, Raises
<1>8. ASSUME NEW s \in Sync, SyncBusy(s) \/ SyncFails(s) PROVE IntuitType'
  BY <1>1, <1>2, <1>8, GrantsHeldType DEF SyncBusy, SyncFails
<1>9. CASE Restart
  <2>1. GrantsHeld(Sync) \subseteq 1..MaxTokens
    BY <1>1, GrantsHeldType
  <2>2. {t \in {callback.token} : callback.at = "storing"} \subseteq 1..MaxTokens
    BY <1>3
  <2>. QED
    BY <1>1, <1>9, <2>1, <2>2 DEF Restart, IntuitType, intuit
<1>10. ASSUME UNCHANGED <<token, good, gone>> PROVE IntuitType'
  BY <1>1, <1>10 DEF IntuitType
<1>. QED
  BY <1>4, <1>5, <1>6, <1>7, <1>8, <1>9, <1>10
     DEF Next, CallbackStep, SyncStep, Connect, CallbackRefused, CallbackBegins, ExchangeRejected, ExchangeWrite,
         CallbackCommits, Disconnect, RevokeFails, Enter, ReadToken, RotateRejected, StoreTokens, Answered,
         Unauthorised, Merge, vars, intuit

LEMMA SyncTypeStep ==
  ASSUME TypeOK, Refs, [Next]_vars
  PROVE  SyncType'
<1>1. SyncType /\ IntuitType /\ Len(token) \in Nat /\ MaxTokens \in Nat
  BY TypeParts, QuickBooksAssumption DEF IntuitType
<1>2. store.refresh \in TokenId /\ store.access \in TokenId /\ store.realm \in Realm \cup {NoRealm}
  BY TypeParts DEF StoreType, Store
<1>3. NotSyncing \in Syncing
  BY <1>1 DEF NotSyncing, Syncing, TokenId, Request
<1>4. ASSUME NEW s \in Sync, sync' = Ended(s) PROVE SyncType'
  BY <1>1, <1>3, <1>4 DEF SyncType, Ended
<1>5. ASSUME NEW s \in Sync, Enter(s) PROVE SyncType'
  <2>1. PICK at \in {"reading", "accounts"}, a \in TokenId :
          sync' = [sync EXCEPT ![s] = [NotSyncing EXCEPT !.at = at, !.realm = store.realm, !.access = a]]
    <3>1. PICK at \in {"reading", "accounts"} :
            sync' = [sync EXCEPT ![s] = [NotSyncing EXCEPT !.at = at, !.realm = store.realm,
                                         !.access = IF at = "reading" THEN 0 ELSE store.access]]
      BY <1>5 DEF Enter
    <3>2. (IF at = "reading" THEN 0 ELSE store.access) \in TokenId
      BY <1>1, <1>2 DEF TokenId
    <3>. QED
      BY <3>1, <3>2
  <2>2. [NotSyncing EXCEPT !.at = at, !.realm = store.realm, !.access = a] \in Syncing
    BY <1>2, <1>3 DEF Syncing, Request
  <2>. QED
    BY <1>1, <2>1, <2>2 DEF SyncType
<1>6. ASSUME NEW s \in Sync, ReadToken(s) PROVE SyncType'
  BY <1>1, <1>2, <1>4, <1>6 DEF ReadToken, SyncType, Syncing
<1>7. ASSUME NEW s \in Sync, Rotate(s) PROVE SyncType'
  <2>1. Len(token) + 1 \in TokenId
    <3>1. Rotates(s)
      BY <1>7 DEF Rotate
    <3>2. Len(token') = Len(token) + 1 /\ Len(token') <= MaxTokens
      BY <3>1, RotatesIssues
    <3>. QED
      BY <3>2, <1>1 DEF TokenId
  <2>. QED
    BY <1>1, <1>7, <2>1 DEF Rotate, SyncType, Syncing
<1>8. ASSUME NEW s \in Sync, StoreTokens(s) PROVE SyncType'
  <2>1. sync[s] \in Syncing /\ 0 \in TokenId
    BY <1>1 DEF SyncType, TokenId
  <2>2. [sync[s] EXCEPT !.at = sync[s].for, !.access = sync[s].held, !.held = 0] \in Syncing
    BY <2>1 DEF Syncing, Request
  <2>3. sync' = [sync EXCEPT ![s] = [sync[s] EXCEPT !.at = sync[s].for, !.access = sync[s].held, !.held = 0]]
    BY <1>8 DEF StoreTokens
  <2>. QED
    BY <1>1, <2>2, <2>3 DEF SyncType
<1>9. ASSUME NEW s \in Sync, Answered(s) PROVE SyncType'
  <2>1. sync[s] \in Syncing /\ 0 \in TokenId
    BY <1>1 DEF SyncType, TokenId
  <2>2. /\ [sync[s] EXCEPT !.at = "company", !.for = "company", !.tried = FALSE] \in Syncing
        /\ [sync[s] EXCEPT !.at = "merging", !.access = 0, !.tried = FALSE] \in Syncing
    BY <2>1 DEF Syncing, Request
  <2>3. \/ sync' = [sync EXCEPT ![s] = [sync[s] EXCEPT !.at = "company", !.for = "company", !.tried = FALSE]]
        \/ sync' = [sync EXCEPT ![s] = [sync[s] EXCEPT !.at = "merging", !.access = 0, !.tried = FALSE]]
    BY <1>9 DEF Answered
  <2>4. ASSUME NEW run \in Syncing, sync' = [sync EXCEPT ![s] = run] PROVE SyncType'
    BY <1>1, <2>4 DEF SyncType
  <2>. QED
    BY <2>2, <2>3, <2>4
<1>10. ASSUME NEW s \in Sync, Unauthorised(s) PROVE SyncType'
  <2>1. [sync[s] EXCEPT !.at = "reading", !.access = 0, !.tried = TRUE] \in Syncing
    <3>1. sync[s] \in Syncing /\ 0 \in TokenId
      BY <1>1 DEF SyncType, TokenId
    <3>. QED
      BY <3>1 DEF Syncing
  <2>2. \/ sync' = Ended(s)
        \/ sync' = [sync EXCEPT ![s] = [sync[s] EXCEPT !.at = "reading", !.access = 0, !.tried = TRUE]]
    BY <1>10 DEF Unauthorised
  <2>. QED
    BY <1>1, <1>4, <2>1, <2>2 DEF SyncType
<1>11. CASE Restart
  BY <1>3, <1>11 DEF Restart, SyncType
<1>12. ASSUME UNCHANGED sync PROVE SyncType'
  BY <1>1, <1>12 DEF SyncType
<1>. QED
  BY <1>4, <1>5, <1>6, <1>7, <1>8, <1>9, <1>10, <1>11, <1>12
     DEF Next, CallbackStep, SyncStep, Connect, CallbackRefused, CallbackBegins, ExchangePost, ExchangeRejected,
         ExchangeWrite, ExchangeBusy, CallbackRaises, Raises, CallbackCommits, Disconnect, Revoke, RevokeFails,
         RotateRejected, Merge, SyncBusy, SyncFails, AnswerLost, vars

LEMMA BrowserStep ==
  ASSUME TypeOK, Refs, [Next]_vars
  PROVE  BrowserType'
<1>1. BrowserType /\ IntuitType /\ Len(token) \in Nat /\ MaxTokens \in Nat
  BY TypeParts, QuickBooksAssumption DEF IntuitType
<1>2. store.refresh \in TokenId
  BY TypeParts DEF StoreType, Store
<1>3. NoCallback \in Callback /\ 0 \in TokenId
  BY <1>1 DEF NoCallback, Callback, TokenId
<1>4. ASSUME UNCHANGED revoking \/ revoking' = 0, callback' = NoCallback PROVE BrowserType'
  BY <1>1, <1>3, <1>4 DEF BrowserType
<1>5. ASSUME UNCHANGED callback, revoking' \in TokenId PROVE BrowserType'
  BY <1>1, <1>5 DEF BrowserType
<1>6. CASE CallbackBegins
  BY <1>1, <1>3, <1>6 DEF CallbackBegins, BrowserType, Callback
<1>7. CASE ExchangePost
  <2>1. PICK r \in Realm : Issue(0, r)
    BY <1>7 DEF ExchangePost
  <2>2. Len(token) + 1 \in TokenId
    BY <1>1, <2>1 DEF Issue, TokenId
  <2>. QED
    BY <1>1, <1>7, <2>2 DEF ExchangePost, BrowserType, Callback
<1>8. CASE ExchangeWrite
  BY <1>1, <1>8 DEF ExchangeWrite, BrowserType, Callback
<1>9. CASE Disconnect
  BY <1>2, <1>5, <1>9 DEF Disconnect
<1>10. CASE Revoke \/ RevokeFails
  BY <1>3, <1>5, <1>10 DEF Revoke, RevokeFails
<1>11. ASSUME UNCHANGED <<callback, revoking>> PROVE BrowserType'
  BY <1>1, <1>11 DEF BrowserType
<1>. QED
  BY <1>4, <1>6, <1>7, <1>8, <1>9, <1>10, <1>11
     DEF Next, CallbackStep, SyncStep, Connect, CallbackRefused, ExchangeRejected,
         ExchangeBusy, CallbackRaises, Raises, CallbackCommits, Enter, ReadToken, Rotate, RotateRejected,
         StoreTokens, Answered, Unauthorised, Merge, SyncBusy, SyncFails, AnswerLost, Restart, vars, browser

LEMMA CountStep ==
  ASSUME TypeOK, [Next]_vars
  PROVE  CountType' /\ CacheType'
<1>1. CountType /\ CacheType /\ MaxStates \in Nat /\ MaxMishaps \in Nat
  BY TypeParts, QuickBooksAssumption
<1>2. CountType'
  <2>1. states' \in 0..MaxStates
    <3>1. UNCHANGED states \/ (states < MaxStates /\ states' = states + 1)
      BY DEF Next, CallbackStep, SyncStep, Connect, CallbackRefused, CallbackBegins, ExchangePost,
       ExchangeRejected, ExchangeWrite, ExchangeBusy, CallbackRaises, Raises, CallbackCommits, Disconnect, Revoke,
       RevokeFails, Enter, ReadToken, Rotate, RotateRejected, StoreTokens, Answered, Unauthorised, Merge, SyncBusy,
       SyncFails, AnswerLost, Restart, vars, browser
    <3>. QED
      BY <1>1, <3>1 DEF CountType
  <2>2. mishaps' \in 0..MaxMishaps
    <3>1. UNCHANGED mishaps \/ (mishaps < MaxMishaps /\ mishaps' = mishaps + 1)
      BY DEF Mishap, Next, CallbackStep, SyncStep, Connect, CallbackRefused, CallbackBegins, ExchangePost,
       ExchangeRejected, ExchangeWrite, ExchangeBusy, CallbackRaises, Raises, CallbackCommits, Disconnect, Revoke,
       RevokeFails, Enter, ReadToken, Rotate, RotateRejected, StoreTokens, Answered, Unauthorised, Merge, SyncBusy,
       SyncFails, AnswerLost, Restart, vars
    <3>. QED
      BY <1>1, <3>1 DEF CountType
  <2>3. crossed' \in BOOLEAN
    BY <1>1 DEF CountType, Next, CallbackStep, SyncStep, Connect, CallbackRefused, CallbackBegins, ExchangePost,
       ExchangeRejected, ExchangeWrite, ExchangeBusy, CallbackRaises, Raises, CallbackCommits, Disconnect, Revoke,
       RevokeFails, Enter, ReadToken, Rotate, RotateRejected, StoreTokens, Answered, Unauthorised, Merge, SyncBusy,
       SyncFails, AnswerLost, Restart, vars
  <2>. QED
    BY <2>1, <2>2, <2>3 DEF CountType
<1>3. CacheType'
  <2>1. ASSUME NEW s \in Sync, Merge(s) PROVE CacheType'
    BY <1>1, <2>1 DEF Merge, Merged, CacheType
  <2>. QED
    BY <1>1, <2>1 DEF CacheType, Next, CallbackStep, SyncStep, Connect, CallbackRefused, CallbackBegins, ExchangePost,
       ExchangeRejected, ExchangeWrite, ExchangeBusy, CallbackRaises, Raises, CallbackCommits, Disconnect, Revoke,
       RevokeFails, Enter, ReadToken, Rotate, RotateRejected, StoreTokens, Answered, Unauthorised, SyncBusy,
       SyncFails, AnswerLost, Restart, vars
<1>. QED
  BY <1>2, <1>3

LEMMA TypeStep ==
  ASSUME TypeOK, Refs, [Next]_vars
  PROVE  TypeOK'
<1>1. /\ StoreType' /\ IntuitType' /\ SyncType' /\ BrowserType' /\ CountType' /\ CacheType'
  BY StoreStep, IntuitStep, SyncTypeStep, BrowserStep, CountStep
<1>. QED
  BY <1>1 DEF TypeOK, IntuitType, StoreType, CacheType, CountType, BrowserType, SyncType

-----------------------------------------------------------------------------
(* Pairs are added, never changed. *)
LEMMA TokensStay ==
  ASSUME TypeOK, Refs, [Next]_vars
  PROVE  /\ Len(token) \in Nat /\ Len(token') \in Nat /\ Len(token) <= Len(token')
         /\ \A i \in 1..Len(token) : token'[i] = token[i]
<1>1. Len(token) \in Nat /\ 0 \in 0..MaxTokens
  BY TypeParts, QuickBooksAssumption DEF IntuitType
<1>2. CASE ExchangePost
  <2>1. PICK r \in Realm : Issue(0, r)
    BY <1>2 DEF ExchangePost
  <2>2. Len(token') = Len(token) + 1 /\ \A i \in 1..Len(token) : token'[i] = token[i]
    BY <1>1, <2>1, Issued
  <2>. QED
    BY <1>1, <2>2
<1>3. ASSUME NEW s \in Sync, Rotates(s)
      PROVE  Len(token') = Len(token) + 1 /\ \A i \in 1..Len(token) : token'[i] = token[i]
  BY <1>3, RotatesIssues
<1>4. ASSUME NEW s \in Sync, Rotate(s) \/ AnswerLost(s)
      PROVE  Len(token') = Len(token) + 1 /\ \A i \in 1..Len(token) : token'[i] = token[i]
  BY <1>3, <1>4 DEF Rotate, AnswerLost
<1>5. CASE UNCHANGED token
  BY <1>1, <1>5
<1>6. CASE \E s \in Sync : Rotate(s) \/ AnswerLost(s)
  BY <1>1, <1>4, <1>6
<1>. QED
  BY <1>2, <1>5, <1>6
     DEF Next, CallbackStep, SyncStep, Connect, CallbackRefused, CallbackBegins, ExchangeRejected, ExchangeWrite,
         ExchangeBusy, CallbackRaises, Raises, CallbackCommits, Disconnect, Revoke, RevokeFails, Enter, ReadToken,
         RotateRejected, StoreTokens, Answered, Unauthorised, Merge, SyncBusy, SyncFails, Restart, vars, intuit

LEMMA GrantsStep ==
  ASSUME TypeOK, Refs, Grants, [Next]_vars
  PROVE  Grants'
<1>1. Len(token) \in Nat /\ 0 \in 0..MaxTokens /\ IntuitType
  BY TypeParts, QuickBooksAssumption DEF IntuitType
<1>2. \A t \in 1..Len(token) : token[t].grant \in 1..MaxTokens
  BY <1>1, Grant DEF GrantOf
<1>3. CASE ExchangePost
  <2>1. PICK r \in Realm : Issue(0, r)
    BY <1>3 DEF ExchangePost
  <2>2. /\ Len(token') = Len(token) + 1
        /\ \A i \in 1..Len(token) : token'[i] = token[i]
        /\ token'[Len(token')] = [grant |-> Len(token'), realm |-> r]
    BY <1>1, <2>1, Issued
  <2>3. \A i \in 1..Len(token') : i = Len(token') \/ i \in 1..Len(token)
    BY <1>1, <2>2
  <2>4. \A i \in 1..Len(token') : token'[i].grant <= i
    BY <1>1, <1>2, <2>2, <2>3 DEF Grants
  <2>5. \A i \in 1..Len(token) : token'[i].grant # Len(token')
    BY <1>1, <1>2, <2>2 DEF Grants
  <2>6. \A i, j \in 1..Len(token') :
          token'[i].grant = token'[j].grant => token'[i].realm = token'[j].realm
    BY <2>2, <2>3, <2>5 DEF Grants
  <2>. QED
    BY <2>4, <2>6 DEF Grants
<1>4. ASSUME NEW s \in Sync, Rotates(s) PROVE Grants'
  <2> DEFINE h == sync[s].held
  <2>1. /\ Len(token') = Len(token) + 1
        /\ \A i \in 1..Len(token) : token'[i] = token[i]
        /\ h \in 1..Len(token)
        /\ token'[Len(token')] = [grant |-> token[h].grant, realm |-> token[h].realm]
    BY <1>4, RotatesIssues DEF GrantOf
  <2> HIDE DEF h
  <2>2. \A i \in 1..Len(token') :
          \E j \in 1..Len(token) : j <= i /\ token'[i].grant = token[j].grant /\ token'[i].realm = token[j].realm
    <3> SUFFICES ASSUME NEW i \in 1..Len(token')
                 PROVE  \E j \in 1..Len(token) : /\ j <= i
                                               /\ token'[i].grant = token[j].grant
                                               /\ token'[i].realm = token[j].realm
      OBVIOUS
    <3>1. CASE i \in 1..Len(token)
      BY <2>1, <3>1
    <3>2. CASE i = Len(token')
      BY <1>1, <2>1, <3>2
    <3>. QED
      BY <1>1, <2>1, <3>1, <3>2
  <2>3. \A i \in 1..Len(token') : token'[i].grant <= i
    <3> SUFFICES ASSUME NEW i \in 1..Len(token') PROVE token'[i].grant <= i
      OBVIOUS
    <3>1. PICK j \in 1..Len(token) : j <= i /\ token'[i].grant = token[j].grant
      BY <2>2
    <3>2. token[j].grant <= j /\ token[j].grant \in Nat
      BY <1>2 DEF Grants
    <3>. QED
      BY <1>1, <3>1, <3>2
  <2>4. \A i, j \in 1..Len(token') : token'[i].grant = token'[j].grant => token'[i].realm = token'[j].realm
    <3> SUFFICES ASSUME NEW i \in 1..Len(token'), NEW j \in 1..Len(token'), token'[i].grant = token'[j].grant
                 PROVE  token'[i].realm = token'[j].realm
      OBVIOUS
    <3>1. PICK k \in 1..Len(token) : token'[i].grant = token[k].grant /\ token'[i].realm = token[k].realm
      BY <2>2
    <3>2. PICK l \in 1..Len(token) : token'[j].grant = token[l].grant /\ token'[j].realm = token[l].realm
      BY <2>2
    <3>. QED
      BY <3>1, <3>2 DEF Grants
  <2>. QED
    BY <2>3, <2>4 DEF Grants
<1>5. CASE UNCHANGED token
  BY <1>5 DEF Grants
<1>6. CASE \E s \in Sync : Rotate(s) \/ AnswerLost(s)
  BY <1>4, <1>6 DEF Rotate, AnswerLost
<1>. QED
  BY <1>3, <1>5, <1>6
     DEF Next, CallbackStep, SyncStep, Connect, CallbackRefused, CallbackBegins, ExchangeRejected, ExchangeWrite,
         ExchangeBusy, CallbackRaises, Raises, CallbackCommits, Disconnect, Revoke, RevokeFails, Enter, ReadToken,
         RotateRejected, StoreTokens, Answered, Unauthorised, Merge, SyncBusy, SyncFails, Restart, vars, intuit

(* What a step does to the tokens that the jobs hold. *)
LEMMA SyncMoves ==
  ASSUME SyncType, [Next]_vars
  PROVE  \/ UNCHANGED sync
         \/ Restart /\ \A q \in Sync : sync'[q] = NotSyncing
         \/ \E s \in Sync :
              /\ \A q \in Sync \ {s} : sync'[q] = sync[q]
              /\ \/ ReadToken(s) /\ store.refresh # 0 /\ Holds(s)' /\ ~Stores(s)' /\ sync'[s].held = store.refresh
                 \/ Rotate(s) /\ Stores(s)' /\ sync'[s].held = Len(token) + 1
                 \/ /\ ~Rotate(s)
                    /\ ~Holds(s)'
                    /\ sync'[s].held = sync[s].held \/ sync'[s].held = 0
<1> USE DEF Holds, Stores
<1> DEFINE Goal ==
      \E s \in Sync :
        /\ \A q \in Sync \ {s} : sync'[q] = sync[q]
        /\ \/ ReadToken(s) /\ store.refresh # 0 /\ Holds(s)' /\ ~Stores(s)' /\ sync'[s].held = store.refresh
           \/ Rotate(s) /\ Stores(s)' /\ sync'[s].held = Len(token) + 1
           \/ /\ ~Rotate(s)
              /\ ~Holds(s)'
              /\ sync'[s].held = sync[s].held \/ sync'[s].held = 0
<1>1. ASSUME NEW s \in Sync, ReadToken(s), store.refresh # 0 PROVE Goal
  BY <1>1 DEF ReadToken, SyncType, Syncing
<1>2. ASSUME NEW s \in Sync, Rotate(s) PROVE Goal
  BY <1>2 DEF Rotate, SyncType, Syncing
<1>3. ASSUME NEW s \in Sync, sync' = Ended(s) PROVE Goal
  <2>1. sync'[s] = NotSyncing
    BY <1>3 DEF Ended, SyncType
  <2>2. ~Rotate(s)
    BY <2>1 DEF Rotate, NotSyncing, SyncType, Syncing
  <2>. QED
    BY <1>3, <2>1, <2>2 DEF Ended, SyncType, NotSyncing
<1>4. ASSUME NEW s \in Sync, Enter(s) PROVE Goal
  <2>1. ~Rotate(s)
    BY <1>4 DEF Enter, Rotate, Rotates
  <2>2. sync[s] \in Syncing /\ \A q \in Sync \ {s} : sync'[q] = sync[q]
    BY <1>4 DEF Enter, SyncType
  <2>3. sync'[s].at \in {"reading", "accounts"} /\ sync'[s].held = 0
    BY <1>4 DEF Enter, SyncType, NotSyncing
  <2>. QED
    BY <2>1, <2>2, <2>3
<1>5. ASSUME NEW s \in Sync, StoreTokens(s) PROVE Goal
  <2>1. ~Rotate(s)
    BY <1>5 DEF StoreTokens, Rotate, Rotates
  <2>2. sync[s] \in Syncing /\ \A q \in Sync \ {s} : sync'[q] = sync[q]
    BY <1>5 DEF StoreTokens, SyncType
  <2>3. sync'[s].at \in Request /\ sync'[s].held = 0
    BY <1>5, <2>2 DEF StoreTokens, SyncType, Syncing
  <2>. QED
    BY <2>1, <2>2, <2>3 DEF Request
<1>6. ASSUME NEW s \in Sync, Answered(s) PROVE Goal
  <2>1. ~Rotate(s)
    BY <1>6 DEF Answered, Rotate, Rotates, Request
  <2>2. sync[s] \in Syncing /\ \A q \in Sync \ {s} : sync'[q] = sync[q]
    BY <1>6 DEF Answered, SyncType
  <2>3. sync'[s].at \in {"company", "merging"} /\ sync'[s].held = sync[s].held
    BY <1>6, <2>2 DEF Answered, SyncType, Syncing
  <2>. QED
    BY <2>1, <2>2, <2>3
<1>7. ASSUME NEW s \in Sync, Unauthorised(s) PROVE Goal
  BY <1>3, <1>7 DEF Unauthorised, SyncType, Syncing, Rotate, Rotates, Request
<1>8. CASE Restart
  BY <1>8 DEF Restart
<1> HIDE DEF Goal
<1>9. UNCHANGED sync \/ Restart \/ Goal
  BY <1>1, <1>2, <1>3, <1>4, <1>5, <1>6, <1>7
     DEF Next, CallbackStep, SyncStep, Connect, CallbackRefused, CallbackBegins, ExchangePost, ExchangeRejected,
         ExchangeWrite, ExchangeBusy, CallbackRaises, Raises, CallbackCommits, Disconnect, Revoke, RevokeFails,
         ReadToken, RotateRejected, Merge, SyncBusy, SyncFails, AnswerLost, vars
<1>. QED
  BY <1>8, <1>9 DEF Goal

(* What becomes of the stored token. *)
LEMMA RefreshMoves ==
  ASSUME StoreType, [Next]_vars
  PROVE  \/ UNCHANGED store.refresh
         \/ Disconnect /\ store'.refresh = 0
         \/ ExchangeWrite /\ store'.refresh = callback.token
         \/ \E s \in Sync : StoreTokens(s) /\ store'.refresh = sync[s].held
<1> USE DEF StoreType, Store
<1>1. CASE ExchangeWrite
  BY <1>1 DEF ExchangeWrite, Connected
<1>2. CASE Disconnect
  BY <1>2 DEF Disconnect, Cleared
<1>3. ASSUME NEW s \in Sync, StoreTokens(s) PROVE store'.refresh = sync[s].held
  BY <1>3 DEF StoreTokens, Stored
<1>4. ASSUME NEW x, store' = [store EXCEPT !.state = x] \/ store' = [store EXCEPT !.company = x]
      PROVE  UNCHANGED store.refresh
  BY <1>4
<1>. QED
  BY <1>1, <1>2, <1>3, <1>4
     DEF Next, CallbackStep, SyncStep, Connect, CallbackRefused, CallbackBegins, ExchangePost, ExchangeRejected,
         ExchangeBusy, CallbackRaises, Raises, CallbackCommits, Revoke, RevokeFails, Enter, ReadToken, Rotate,
         RotateRejected, Answered, Unauthorised, Merge, SyncBusy, SyncFails, AnswerLost, Restart, vars

LEMMA RefsStep ==
  ASSUME TypeOK, Refs, [Next]_vars
  PROVE  Refs'
<1>1. Len(token) \in Nat /\ Len(token') \in Nat /\ Len(token) <= Len(token')
  BY TokensStay
<1>2. StoreType /\ SyncType /\ BrowserType
  BY TypeParts
<1>3. ASSUME NEW s \in Sync, Rotates(s) PROVE Len(token') = Len(token) + 1
  BY <1>3, RotatesIssues
<1>4. ASSUME ExchangePost PROVE Len(token') = Len(token) + 1
  <2>1. PICK r \in Realm : Issue(0, r)
    BY <1>4 DEF ExchangePost
  <2>2. 0 \in 0..MaxTokens
    BY QuickBooksAssumption
  <2>. QED
    BY <2>1, <2>2, Issued
<1>5. store'.refresh \in 0..Len(token)
  BY <1>1, <1>2, RefreshMoves DEF Refs
<1>6. /\ callback'.token \in 0..Len(token')
      /\ callback'.at = "storing" => callback'.token # 0
  <2>1. CASE UNCHANGED callback
    BY <1>1, <2>1 DEF Refs
  <2>2. CASE callback' = NoCallback
    BY <1>1, <2>2 DEF NoCallback
  <2>3. CASE CallbackBegins
    BY <1>1, <2>3 DEF CallbackBegins
  <2>4. CASE ExchangePost
    BY <1>1, <1>2, <1>4, <2>4 DEF ExchangePost, BrowserType, Callback
  <2>5. CASE ExchangeWrite
    BY <1>1, <1>2, <2>5 DEF ExchangeWrite, BrowserType, Callback, Refs
  <2>. QED
    BY <2>1, <2>2, <2>3, <2>4, <2>5
       DEF Next, CallbackStep, SyncStep, Connect, CallbackRefused, ExchangeRejected,
           ExchangeBusy, CallbackRaises, Raises, CallbackCommits, Disconnect, Revoke, RevokeFails, Enter, ReadToken,
           Rotate, RotateRejected, StoreTokens, Answered, Unauthorised, Merge, SyncBusy, SyncFails, AnswerLost,
           Restart, vars, browser
<1>7. revoking' \in 0..Len(token')
  <2>1. revoking' \in {revoking, store.refresh, 0}
    BY DEF Next, CallbackStep, SyncStep, Connect, CallbackRefused, CallbackBegins, ExchangePost, ExchangeRejected,
           ExchangeWrite, ExchangeBusy, CallbackRaises, Raises, CallbackCommits, Disconnect, Revoke, RevokeFails,
           Enter, ReadToken, Rotate, RotateRejected, StoreTokens, Answered, Unauthorised, Merge, SyncBusy, SyncFails,
           AnswerLost, Restart, vars, browser
  <2>. QED
    BY <1>1, <2>1 DEF Refs
<1>8. ASSUME NEW q \in Sync PROVE sync'[q].held \in 0..Len(token') /\ (Holds(q)' => sync'[q].held # 0)
  <2>1. CASE sync'[q] = sync[q]
    BY <1>1, <2>1 DEF Refs, Holds
  <2>2. CASE sync'[q] = NotSyncing
    BY <1>1, <2>2 DEF NotSyncing, Holds
  <2>3. CASE ReadToken(q) /\ store.refresh # 0 /\ sync'[q].held = store.refresh
    BY <1>1, <2>3 DEF Refs
  <2>4. CASE Rotate(q) /\ sync'[q].held = Len(token) + 1
    BY <1>1, <1>3, <2>4 DEF Rotate
  <2>5. CASE ~Holds(q)' /\ sync'[q].held \in {sync[q].held, 0}
    BY <1>1, <2>5 DEF Refs
  <2>. QED
    BY <1>2, <2>1, <2>2, <2>3, <2>4, <2>5, SyncMoves
<1>. QED
  BY <1>1, <1>5, <1>6, <1>7, <1>8 DEF Refs

LEMMA FreshStep ==
  ASSUME TypeOK, Refs, Fresh, [Next]_vars
  PROVE  Fresh'
<1>1. Len(token) \in Nat /\ SyncType /\ StoreType /\ BrowserType
  BY TypeParts DEF IntuitType
<1> DEFINE new == Len(token) + 1
<1>2. store.refresh # new /\ callback.token # new /\ \A q \in Sync : sync[q].held # new
  BY <1>1 DEF Refs
<1>3. \/ UNCHANGED store.refresh
      \/ UNCHANGED <<sync, callback>> /\ store'.refresh = 0
      \/ UNCHANGED sync /\ store'.refresh = callback.token /\ callback.at = "storing" /\ callback'.at = "committing"
      \/ \E s \in Sync : StoreTokens(s) /\ store'.refresh = sync[s].held /\ Stores(s) /\ ~Holds(s)'
  <2>1. CASE ExchangeWrite
    BY <1>1, <2>1 DEF ExchangeWrite, Connected, StoreType, Store, BrowserType, Callback
  <2>2. ASSUME Disconnect, store'.refresh = 0 PROVE UNCHANGED <<sync, callback>>
    BY <2>2 DEF Disconnect
  <2>3. ASSUME NEW s \in Sync, StoreTokens(s) PROVE Stores(s) /\ ~Holds(s)'
    BY <1>1, <2>3 DEF StoreTokens, SyncType, Syncing, Request, Stores, Holds
  <2>. QED
    BY <1>1, <2>1, <2>2, <2>3, RefreshMoves DEF ExchangeWrite
<1>4. \/ UNCHANGED callback
      \/ callback'.at # "storing"
      \/ UNCHANGED <<sync, store>> /\ callback'.token = new
  <2>1. CASE ExchangePost
    BY <1>1, <2>1 DEF ExchangePost, BrowserType, Callback
  <2>2. CASE ExchangeWrite
    BY <1>1, <2>2 DEF ExchangeWrite, BrowserType, Callback
  <2>3. CASE CallbackBegins
    BY <2>3 DEF CallbackBegins
  <2>4. CASE callback' = NoCallback
    BY <2>4 DEF NoCallback
  <2>. QED
    BY <2>1, <2>2, <2>3, <2>4
       DEF Next, CallbackStep, SyncStep, Connect, CallbackRefused, ExchangeRejected,
           ExchangeBusy, CallbackRaises, Raises, CallbackCommits, Disconnect, Revoke, RevokeFails, Enter, ReadToken,
           Rotate, RotateRejected, StoreTokens, Answered, Unauthorised, Merge, SyncBusy, SyncFails, AnswerLost,
           Restart, vars, browser
<1>5. ASSUME NEW s \in Sync, Stores(s)', NEW q \in Sync, q # s, Holds(q)'
      PROVE  sync'[q].held # sync'[s].held
  <2>1. CASE UNCHANGED sync
    BY <1>5, <2>1 DEF Fresh, Holds, Stores
  <2>2. CASE sync'[s] = sync[s]
    BY <1>1, <1>2, <1>5, <2>2, SyncMoves DEF Fresh, Holds, Stores, NotSyncing
  <2>3. CASE Rotate(s) /\ sync'[s].held = new /\ sync'[q] = sync[q]
    BY <1>2, <2>3
  <2>. QED
    BY <1>1, <1>5, <2>1, <2>2, <2>3, SyncMoves DEF Holds, Stores, NotSyncing
<1>6. ASSUME NEW s \in Sync, Stores(s)' PROVE sync'[s].held # store'.refresh
  <2>1. CASE UNCHANGED store.refresh
    <3>1. (Stores(s) /\ sync'[s] = sync[s]) \/ sync'[s].held = new
      BY <1>6, SyncMoves, <1>1 DEF Stores, Holds, NotSyncing
    <3>. QED
      BY <1>2, <2>1, <3>1 DEF Fresh
  <2>2. CASE UNCHANGED sync /\ store'.refresh = 0
    BY <1>6, <2>2 DEF Refs, Holds, Stores
  <2>3. CASE UNCHANGED sync /\ store'.refresh = callback.token /\ callback.at = "storing"
    BY <1>6, <2>3 DEF Fresh, Holds, Stores
  <2>4. ASSUME NEW p \in Sync, StoreTokens(p), store'.refresh = sync[p].held, Stores(p), ~Holds(p)'
        PROVE  sync'[s].held # store'.refresh
    <3>1. s # p
      BY <1>6, <2>4 DEF Holds, Stores
    <3>2. sync'[s] = sync[s]
      BY <1>1, <2>4, <3>1 DEF StoreTokens, SyncType
    <3>. QED
      BY <1>6, <2>4, <3>1, <3>2 DEF Fresh, Holds, Stores
  <2>. QED
    BY <1>3, <2>1, <2>2, <2>3, <2>4
<1>7. ASSUME callback'.at = "storing" PROVE callback'.token # store'.refresh
  <2>1. CASE UNCHANGED <<sync, store>> /\ callback'.token = new
    BY <1>2, <2>1
  <2>2. CASE UNCHANGED callback
    <3>1. CASE UNCHANGED store.refresh
      BY <1>7, <2>2, <3>1 DEF Fresh
    <3>2. CASE store'.refresh = 0
      BY <1>7, <2>2, <3>2 DEF Refs
    <3>3. ASSUME NEW p \in Sync, store'.refresh = sync[p].held, Stores(p)
          PROVE  callback'.token # store'.refresh
      BY <1>7, <2>2, <3>3 DEF Fresh, Stores, Holds
    <3>. QED
      BY <1>3, <1>7, <3>1, <3>2, <3>3
  <2>. QED
    BY <1>4, <1>7, <2>1, <2>2
<1>8. ASSUME callback'.at = "storing", NEW s \in Sync, Holds(s)' PROVE sync'[s].held # callback'.token
  <2>1. CASE UNCHANGED <<sync, store>> /\ callback'.token = new
    BY <1>2, <2>1
  <2>2. CASE UNCHANGED callback
    <3>1. \/ Holds(s) /\ sync'[s] = sync[s]
          \/ sync'[s].held = store.refresh
          \/ sync'[s].held = new
      BY <1>8, SyncMoves, <1>1 DEF Holds, NotSyncing
    <3>. QED
      BY <1>2, <1>8, <2>2, <3>1 DEF Fresh
  <2>. QED
    BY <1>4, <1>8, <2>1, <2>2
<1>. QED
  BY <1>5, <1>6, <1>7, <1>8 DEF Fresh

(* Who is alive stays so, unless the token is used up. *)
LEMMA AliveStays ==
  ASSUME TypeOK, Refs, [Next]_vars, NEW t \in 1..Len(token), Alive(t),
         \A s \in Sync : Rotate(s) \/ AnswerLost(s) => sync[s].held # t
  PROVE  Alive(t)'
<1>1. Len(token) \in Nat /\ token'[t] = token[t]
  BY TokensStay
<1>2. GrantOf(t)' = GrantOf(t)
  BY <1>1 DEF GrantOf
<1>3. CASE Revoke
  BY <1>2, <1>3 DEF Revoke, Alive, TypeOK
<1>4. ASSUME NEW s \in Sync, Rotate(s) \/ AnswerLost(s) PROVE Alive(t)'
  BY <1>2, <1>4 DEF Rotate, AnswerLost, Rotates, Alive
<1>5. ASSUME good \subseteq good', gone \subseteq gone' PROVE Alive(t)'
  BY <1>2, <1>5 DEF Alive
<1>. QED
  BY <1>3, <1>4, <1>5
     DEF Next, CallbackStep, SyncStep, Connect, CallbackRefused, CallbackBegins, ExchangePost, ExchangeRejected,
         ExchangeWrite, ExchangeBusy, CallbackRaises, Raises, CallbackCommits, Disconnect, RevokeFails, Enter,
         ReadToken, RotateRejected, StoreTokens, Answered, Unauthorised, Merge, SyncBusy, SyncFails, Restart,
         vars, intuit

LEMMA FreshAliveStep ==
  ASSUME TypeOK, Refs, Fresh, FreshAlive, [Next]_vars
  PROVE  FreshAlive'
<1>1. Len(token) \in Nat /\ SyncType /\ BrowserType
  BY TypeParts DEF IntuitType
<1>2. ASSUME NEW t \in 1..Len(token), Alive(t), \A q \in Sync : Rotate(q) \/ AnswerLost(q) => sync[q].held # t
      PROVE  t \in good' \/ GrantOf(t)' \in gone'
  BY <1>2, AliveStays DEF Alive
<1>5. ASSUME NEW q \in Sync, Rotate(q) \/ AnswerLost(q)
      PROVE  Holds(q) /\ ~Stores(q)
  BY <1>5 DEF Rotate, AnswerLost, Rotates, Holds, Stores
<1>3. ASSUME NEW s \in Sync, Stores(s)'
      PROVE  sync'[s].held \in good' \/ token'[sync'[s].held].grant \in gone'
  <2>1. CASE Rotate(s) /\ sync'[s].held = Len(token) + 1
    BY <2>1 DEF Rotate, Rotates
  <2>2. CASE Stores(s) /\ sync'[s] = sync[s]
    <3>1. PICK t \in 1..Len(token) : t = sync[s].held
      BY <1>1, <2>2 DEF Refs, Holds, Stores
    <3>2. Alive(t)
      BY <2>2, <3>1 DEF FreshAlive
    <3>3. \A q \in Sync : Rotate(q) \/ AnswerLost(q) => sync[q].held # t
      BY <1>5, <2>2, <3>1 DEF Fresh, Holds, Stores
    <3>. QED
      BY <1>2, <2>2, <3>1, <3>2, <3>3 DEF GrantOf
  <2>. QED
    BY <1>1, <1>3, <2>1, <2>2, SyncMoves DEF Holds, Stores, NotSyncing
<1>4. ASSUME callback'.at = "storing"
      PROVE  callback'.token \in good' \/ token'[callback'.token].grant \in gone'
  <2>1. CASE ExchangePost
    BY <1>1, <2>1 DEF ExchangePost, BrowserType, Callback
  <2>2. CASE UNCHANGED callback
    <3>1. PICK t \in 1..Len(token) : t = callback.token
      BY <1>1, <1>4, <2>2 DEF Refs
    <3>2. Alive(t)
      BY <1>4, <2>2, <3>1 DEF FreshAlive
    <3>3. \A q \in Sync : Rotate(q) \/ AnswerLost(q) => sync[q].held # t
      BY <1>4, <1>5, <2>2, <3>1 DEF Fresh
    <3>. QED
      BY <1>2, <2>2, <3>1, <3>2, <3>3 DEF GrantOf
  <2>3. CASE ExchangeWrite
    BY <1>1, <1>4, <2>3 DEF ExchangeWrite, BrowserType, Callback
  <2>4. CASE CallbackBegins
    BY <1>4, <2>4 DEF CallbackBegins
  <2>5. CASE callback' = NoCallback
    BY <1>4, <2>5 DEF NoCallback
  <2>. QED
    BY <2>1, <2>2, <2>3, <2>4, <2>5
       DEF Next, CallbackStep, SyncStep, Connect, CallbackRefused, ExchangeRejected,
           ExchangeBusy, CallbackRaises, Raises, CallbackCommits, Disconnect, Revoke, RevokeFails, Enter, ReadToken,
           Rotate, RotateRejected, StoreTokens, Answered, Unauthorised, Merge, SyncBusy, SyncFails, AnswerLost,
           Restart, vars, browser
<1>. QED
  BY <1>3, <1>4 DEF FreshAlive, Alive, GrantOf, Stores

-----------------------------------------------------------------------------
(* The properties. *)

(* A job with a token to store goes on, stores it, or its loss is on record. *)
LEMMA StoringStays ==
  ASSUME SyncType, [Next]_vars, NEW s \in Sync, Stores(s)
  PROVE  sync'[s] = sync[s] \/ StoreTokens(s) \/ GrantOf(sync[s].held) \in gone'
<1>1. CASE Restart
  BY <1>1 DEF Restart, GrantsHeld, Stores
<1>2. CASE SyncBusy(s) \/ SyncFails(s)
  BY <1>2 DEF SyncBusy, SyncFails, GrantsHeld, Stores
<1>3. ASSUME NEW q \in Sync, Enter(q) \/ SyncStep(q) \/ SyncFails(q) \/ AnswerLost(q), q # s
      PROVE  sync'[s] = sync[s]
  BY <1>3 DEF Enter, SyncStep, ReadToken, Rotate, RotateRejected, StoreTokens, Answered, Unauthorised, Merge,
         SyncBusy, SyncFails, AnswerLost, Ended, SyncType
<1>4. ~Enter(s) /\ ~AnswerLost(s) /\ (SyncStep(s) => StoreTokens(s) \/ SyncBusy(s))
  BY DEF Enter, SyncStep, ReadToken, Rotate, RotateRejected, Rotates, Answered, Unauthorised, Merge, AnswerLost,
         Stores, Request
<1>. QED
  BY <1>1, <1>2, <1>3, <1>4
     DEF Next, CallbackStep, Connect, CallbackRefused, CallbackBegins, ExchangePost, ExchangeRejected, ExchangeWrite,
         ExchangeBusy, CallbackRaises, Raises, CallbackCommits, Disconnect, Revoke, RevokeFails, vars

LEMMA RotationStep ==
  ASSUME TypeOK, Refs, Fresh, FreshAlive, RotationIsKept, [Next]_vars
  PROVE  RotationIsKept'
<1>1. Len(token) \in Nat /\ SyncType /\ BrowserType /\ StoreType
  BY TypeParts DEF IntuitType
<1> DEFINE Kept == \/ store'.refresh \in good'
                   \/ token'[store'.refresh].grant \in gone'
                   \/ \E s \in Sync : /\ sync'[s].at = "storing"
                                      /\ token'[sync'[s].held].grant = token'[store'.refresh].grant
<1>2. SUFFICES ASSUME store'.refresh # 0 PROVE Kept
  BY DEF RotationIsKept, GrantOf
<1>3. ASSUME UNCHANGED store.refresh PROVE Kept
  <2>1. PICK t \in 1..Len(token) : t = store.refresh
    BY <1>1, <1>2, <1>3 DEF Refs
  <2>2. token'[t] = token[t]
    BY TokensStay
  <2>3. CASE Alive(t)
    <3>1. ASSUME NEW p \in Sync, Rotate(p), sync[p].held = t PROVE Kept
      BY <1>1, <1>3, <2>1, <2>2, <3>1, RotatesIssues, SyncMoves DEF Rotate, SyncType, Syncing, GrantOf
    <3>2. ASSUME NEW p \in Sync, AnswerLost(p), sync[p].held = t PROVE Kept
      BY <1>3, <2>1, <2>2, <3>2 DEF AnswerLost, GrantOf
    <3>3. ASSUME \A s \in Sync : Rotate(s) \/ AnswerLost(s) => sync[s].held # t PROVE Kept
      BY <1>3, <2>1, <2>3, <3>3, AliveStays DEF Alive, GrantOf
    <3>. QED
      BY <3>1, <3>2, <3>3
  <2>4. ASSUME NEW s \in Sync, Stores(s), GrantOf(sync[s].held) = GrantOf(t) PROVE Kept
    <3>1. sync[s].held \in 1..Len(token)
      BY <1>1, <2>4 DEF Refs, Holds, Stores
    <3>2. token'[sync[s].held] = token[sync[s].held]
      BY <3>1, TokensStay
    <3>3. CASE sync'[s] = sync[s]
      BY <1>3, <2>1, <2>2, <2>4, <3>2, <3>3 DEF Stores, GrantOf
    <3>4. CASE GrantOf(sync[s].held) \in gone'
      BY <1>3, <2>1, <2>2, <2>4, <3>4 DEF GrantOf
    <3>5. ~StoreTokens(s)
      BY <1>1, <1>3, <2>4, RefreshMoves DEF StoreTokens, Stored, StoreType, Store, Fresh
    <3>. QED
      BY <1>1, <2>4, <3>3, <3>4, <3>5, StoringStays
  <2>. QED
    BY <1>2, <1>3, <2>1, <2>3, <2>4 DEF RotationIsKept, Alive, Stores
<1>4. ASSUME ExchangeWrite, store'.refresh = callback.token PROVE Kept
  BY <1>4 DEF ExchangeWrite, FreshAlive, Alive, GrantOf, intuit
<1>5. ASSUME NEW s \in Sync, StoreTokens(s), store'.refresh = sync[s].held PROVE Kept
  BY <1>5 DEF StoreTokens, FreshAlive, Alive, GrantOf, Stores, intuit
<1>. QED
  BY <1>1, <1>2, <1>3, <1>4, <1>5, RefreshMoves

LEMMA CompanyStep ==
  ASSUME TypeOK, Refs, Grants, TokensOfCompany, [Next]_vars
  PROVE  TokensOfCompany'
<1>1. Len(token) \in Nat /\ StoreType /\ IntuitType
  BY TypeParts DEF IntuitType
<1>2. ASSUME UNCHANGED <<store.refresh, store.realm, crossed>> PROVE TokensOfCompany'
  <2>1. store.refresh # 0 => token'[store.refresh] = token[store.refresh]
    BY <1>1, TokensStay DEF Refs
  <2>. QED
    BY <1>2, <2>1 DEF TokensOfCompany
<1>3. ASSUME NEW x, store' = [store EXCEPT !.state = x] \/ store' = [store EXCEPT !.company = x]
      PROVE  UNCHANGED <<store.refresh, store.realm>>
  BY <1>1, <1>3 DEF StoreType, Store
<1>4. CASE ExchangeWrite
  <2>1. callback.token \in 1..Len(token)
    BY <1>1, <1>4 DEF ExchangeWrite, Refs
  <2>2. token[callback.token].realm \in Realm
    BY <1>1, <2>1, Grant DEF Token
  <2>3. /\ store'.refresh = callback.token
        /\ store'.realm = token[callback.token].realm
        /\ UNCHANGED token
    BY <1>1, <1>4 DEF ExchangeWrite, Connected, StoreType, Store, intuit
  <2>. QED
    BY <2>1, <2>2, <2>3, QuickBooksAssumption DEF TokensOfCompany
<1>5. CASE Disconnect
  BY <1>1, <1>5 DEF Disconnect, Cleared, StoreType, Store, TokensOfCompany
<1>6. ASSUME NEW s \in Sync, StoreTokens(s) PROVE TokensOfCompany'
  <2>1. sync[s].held \in 1..Len(token)
    BY <1>1, <1>6 DEF StoreTokens, Refs, Holds
  <2>2. store'.refresh = sync[s].held /\ UNCHANGED <<store.realm, token>>
    BY <1>1, <1>6 DEF StoreTokens, Stored, StoreType, Store, intuit
  <2>3. SUFFICES ASSUME ~crossed' PROVE TokensOfCompany'
    BY DEF TokensOfCompany
  <2>4. ~crossed /\ store.refresh # 0 /\ token[store.refresh].grant = token[sync[s].held].grant
    BY <1>6, <2>3 DEF StoreTokens, GrantOf
  <2>5. token[store.refresh].realm = token[sync[s].held].realm
    BY <1>1, <2>1, <2>4 DEF Refs, Grants
  <2>. QED
    BY <2>1, <2>2, <2>4, <2>5 DEF TokensOfCompany
<1>. QED
  BY <1>2, <1>3, <1>4, <1>5, <1>6
     DEF Next, CallbackStep, SyncStep, Connect, CallbackRefused, CallbackBegins, ExchangePost, ExchangeRejected,
         ExchangeBusy, CallbackRaises, Raises, CallbackCommits, Revoke, RevokeFails, Enter, ReadToken, Rotate,
         RotateRejected, Answered, Unauthorised, Merge, SyncBusy, SyncFails, AnswerLost, Restart, vars

LEMMA PickerStep ==
  ASSUME TypeOK, PickerIsOfCompany, [Next]_vars
  PROVE  PickerIsOfCompany'
<1>1. StoreType /\ SyncType
  BY TypeParts
<1>2. ASSUME UNCHANGED <<cache, store.company>> PROVE PickerIsOfCompany'
  BY <1>2 DEF PickerIsOfCompany
<1>3. ASSUME NEW x, store' = [store EXCEPT !.state = x] PROVE UNCHANGED store.company
  BY <1>1, <1>3 DEF StoreType, Store
<1>4. ASSUME NEW t, store' = Connected(t) \/ store' = Stored(t) PROVE UNCHANGED store.company
  BY <1>1, <1>4 DEF Connected, Stored, StoreType, Store
<1>5. CASE Disconnect
  BY <1>1, <1>5 DEF Disconnect, Cleared, StoreType, Store, PickerIsOfCompany
<1>6. ASSUME NEW s \in Sync, Merge(s) PROVE PickerIsOfCompany'
  <2>1. store'.company = sync[s].realm
    BY <1>1, <1>6 DEF Merge, StoreType, Store
  <2>2. CASE sync[s].realm = NoRealm
    BY <2>1, <2>2 DEF PickerIsOfCompany
  <2>3. CASE sync[s].realm # NoRealm
    <3>1. Chart[sync[s].realm] \subseteq Account
      BY <1>1, <2>3, QuickBooksAssumption DEF SyncType, Syncing
    <3>2. \A a \in Account : cache'[a] = "active" <=> a \in Chart[sync[s].realm]
      BY <1>6 DEF Merge, Merged
    <3>. QED
      BY <2>1, <3>1, <3>2 DEF PickerIsOfCompany
  <2>. QED
    BY <2>2, <2>3
<1>. QED
  BY <1>2, <1>3, <1>4, <1>5, <1>6
     DEF Next, CallbackStep, SyncStep, Connect, CallbackRefused, CallbackBegins, ExchangePost, ExchangeRejected,
         ExchangeWrite, ExchangeBusy, CallbackRaises, Raises, CallbackCommits, Revoke, RevokeFails, Enter, ReadToken,
         Rotate, RotateRejected, StoreTokens, Answered, Unauthorised, SyncBusy, SyncFails, AnswerLost, Restart, vars

-----------------------------------------------------------------------------
LEMMA Inductive == Spec => []IInv
<1>1. IInv /\ [Next]_vars => IInv'
  BY TypeStep, RefsStep, GrantsStep, FreshStep, FreshAliveStep, RotationStep, CompanyStep, PickerStep DEF IInv
<1>. QED
  BY <1>1, InitIInv, PTL DEF Spec

(* Every variable of the connection keeps its type, and both tokens are      *)
(* stored and cleared together.                                              *)
THEOREM TypeCorrect == Spec => []TypeOK
  BY Inductive, PTL DEF IInv

(* refresh_tokens never leaves a used-up refresh token in the settings: it is *)
(* good, or its successor is about to be stored, or the grant was revoked or  *)
(* its successor lost with a call, a write or the process.                   *)
THEOREM Rotation == Spec => []RotationIsKept
  BY Inductive, PTL DEF IInv

(* The stored tokens are of the stored company, unless a refresh under way    *)
(* stored its pair over a disconnect or a reconnect.                         *)
THEOREM Tokens == Spec => []TokensOfCompany
  BY Inductive, PTL DEF IInv

(* upsert_accounts and the name of the company are written together, so the  *)
(* accounts on offer are those of the company that is named.                 *)
THEOREM Picker == Spec => []PickerIsOfCompany
  BY Inductive, PTL DEF IInv
=============================================================================
