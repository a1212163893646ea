----------------------------- MODULE QuickBooks -----------------------------
(***************************************************************************)
(* The QuickBooks connection: the OAuth round trip (web/routes_qbo.py),    *)
(* tokens that rotate on every use (services/qbo.py) and the sync of the   *)
(* chart of accounts (services/qbo_sync.py). The requests of the browser,  *)
(* the sync jobs and Intuit interleave at every await; the process may end *)
(* at any of them.                                                         *)
(***************************************************************************)
EXTENDS Integers, Sequences

CONSTANTS Realm,          \* companies
          NoRealm,        \* the empty setting
          Account,        \* ids of accounts; companies may share them
          Chart,          \* the active accounts of each company
          Sync,           \* coroutines that may run qbo.sync_accounts
          MaxTokens,      \* bound: token pairs that Intuit issues
          MaxStates,      \* bound: authorisations begun
          MaxMishaps      \* bound: failed requests and process ends

ASSUME QuickBooksAssumption ==
  /\ NoRealm \notin Realm
  /\ Chart \in [Realm -> SUBSET Account]
  /\ MaxTokens \in Nat
  /\ MaxStates \in Nat
  /\ MaxMishaps \in Nat

VARIABLES
  token,      \* Intuit: the pairs issued, each with its grant and its company
  good,       \* Intuit: refresh tokens that it accepts
  store,      \* the settings
  cache,      \* qbo_accounts
  states,     \* how many authorisations were begun
  callback,   \* the request to /qbo/callback under way
  revoking,   \* the token that disconnect has yet to revoke
  sync,       \* the sync jobs
  mishaps,    \* how many failures so far
  gone,       \* history: grants that were revoked, or whose last token nobody stored
  crossed     \* history: a refresh stored its tokens over those of another grant

intuit == <<token, good>>

browser == <<states, callback, revoking>>

vars == <<intuit, store, cache, browser, sync, mishaps, gone, crossed>>

TokenId == 0..MaxTokens    \* 0: none

Token == [grant : 1..MaxTokens, realm : Realm]

(* Of the OAuth state: whether one is expected. *)
Store ==
  [realm : Realm \cup {NoRealm}, refresh : TokenId, access : TokenId,
   state : BOOLEAN, company : Realm \cup {NoRealm}]

Callback ==
  [at : {"idle", "posting", "storing", "committing"},
   token : TokenId,
   holds : BOOLEAN]    \* its session has written, and holds SQLite's write lock

NoCallback == [at |-> "idle", token |-> 0, holds |-> FALSE]

Request == {"accounts", "company"}

Syncing ==
  [at : {"idle", "reading", "posting", "storing", "merging"} \cup Request,
   for : Request,          \* the request that a refresh goes back to
   realm : Realm \cup {NoRealm},
   access : TokenId,
   held : TokenId,         \* the refresh token read, then the one received
   tried : BOOLEAN]        \* this request has refreshed

NotSyncing ==
  [at |-> "idle", for |-> "accounts", realm |-> NoRealm, access |-> 0, held |-> 0, tried |-> FALSE]

Locked == callback.at # "idle" /\ callback.holds

GrantOf(t) == token[t].grant

(* A pair of the grant, or of a new one. *)
Issue(g, r) ==
  LET t == Len(token) + 1
  IN  /\ t <= MaxTokens
      /\ token' = Append(token, [grant |-> IF g = 0 THEN t ELSE g, realm |-> r])

Mishap ==
  /\ mishaps < MaxMishaps
  /\ mishaps' = mishaps + 1

Init ==
  /\ token = <<>>
  /\ good = {}
  /\ store = [realm |-> NoRealm, refresh |-> 0, access |-> 0, state |-> FALSE, company |-> NoRealm]
  /\ cache = [a \in Account |-> "absent"]
  /\ states = 0
  /\ callback = NoCallback
  /\ revoking = 0
  /\ sync = [s \in Sync |-> NotSyncing]
  /\ mishaps = 0
  /\ gone = {}
  /\ crossed = FALSE

-----------------------------------------------------------------------------
(* Connecting. *)

(* connect: the state is a fresh random value, and the only one expected. *)
Connect ==
  /\ ~Locked
  /\ states < MaxStates
  /\ states' = states + 1
  /\ store' = [store EXCEPT !.state = TRUE]
  /\ UNCHANGED <<intuit, cache, callback, revoking, sync, mishaps, gone, crossed>>

(* callback with another state, one that is 15 minutes old, or no code. *)
CallbackRefused ==
  /\ callback.at = "idle"
  /\ store.state
  /\ store' = [store EXCEPT !.state = FALSE]
  /\ UNCHANGED <<intuit, cache, browser, sync, mishaps, gone, crossed>>

(* callback with the state it expects, which it resets in its session. The   *)
(* second set_setting flushes the first, if the row of the time stamp has to *)
(* be read again: the session refers to it weakly.                           *)
CallbackBegins ==
  /\ callback.at = "idle"
  /\ store.state
  /\ \E h \in BOOLEAN : callback' = [at |-> "posting", token |-> 0, holds |-> h]
  /\ UNCHANGED <<intuit, store, cache, states, revoking, sync, mishaps, gone, crossed>>

(* exchange_code: Intuit takes the code, of the company that gave consent. *)
ExchangePost ==
  /\ callback.at = "posting"
  /\ \E r \in Realm : Issue(0, r)
  /\ good' = good \cup {Len(token) + 1}
  /\ callback' = [callback EXCEPT !.at = "storing", !.token = Len(token) + 1]
  /\ UNCHANGED <<store, cache, states, revoking, sync, mishaps, gone, crossed>>

(* It does not: a QboAuthError, and the callback redirects. *)
ExchangeRejected ==
  /\ callback.at = "posting"
  /\ callback' = NoCallback
  /\ store' = [store EXCEPT !.state = FALSE]
  /\ UNCHANGED <<intuit, cache, states, revoking, sync, mishaps, gone, crossed>>

(* Mutant: the tokens only. *)
ConnectedTokens(t) == [store EXCEPT !.refresh = t, !.access = t]

Connected(t) == [store EXCEPT !.refresh = t, !.access = t, !.realm = token[t].realm]

(* exchange_code's own session *)
ExchangeWrite ==
  /\ callback.at = "storing"
  /\ ~Locked
  /\ store' = Connected(callback.token)
  /\ callback' = [callback EXCEPT !.at = "committing"]
  /\ crossed' = FALSE
  /\ UNCHANGED <<intuit, cache, states, revoking, sync, mishaps, gone>>

(* The end of the request's session. *)
CallbackCommits ==
  /\ callback.at = "committing"
  /\ store' = [store EXCEPT !.state = FALSE]
  /\ callback' = NoCallback
  /\ UNCHANGED <<intuit, cache, states, revoking, sync, mishaps, gone, crossed>>

(* Any other exception rolls the session back, and the reset with it. *)
Raises ==
  /\ callback' = NoCallback
  /\ gone' = gone \cup {t \in {callback.token} : callback.at = "storing"}
  /\ UNCHANGED <<intuit, store, cache, states, revoking, sync, crossed>>

(* An httpx error: the request fails, or its answer is lost. *)
CallbackRaises ==
  /\ callback.at \in {"posting", "storing"}
  /\ Mishap
  /\ Raises

(* Mutant: no busy_timeout. *)
ExchangeWaits == FALSE

(* busy_timeout has passed: the lock is that of the callback itself. *)
ExchangeBusy ==
  /\ callback.at = "storing"
  /\ Locked
  /\ Raises
  /\ UNCHANGED mishaps

(* Mutant: the access token is left. *)
ClearedPartly(s) ==
  [s EXCEPT !.refresh = 0, !.realm = NoRealm, !.company = NoRealm]

(* clear_tokens *)
Cleared(s) ==
  [s EXCEPT !.refresh = 0, !.access = 0, !.realm = NoRealm, !.company = NoRealm]

(* disconnect commits, then revokes. *)
Disconnect ==
  /\ ~Locked
  /\ revoking = 0
  /\ store.realm # NoRealm
  /\ revoking' = store.refresh
  /\ store' = Cleared(store)
  /\ crossed' = FALSE
  /\ UNCHANGED <<intuit, cache, states, callback, sync, mishaps, gone>>

(* revoke: Intuit ends the grant. *)
Revoke ==
  LET ended == {t \in DOMAIN token : GrantOf(t) = GrantOf(revoking)}
  IN  /\ revoking # 0
      /\ good' = good \ ended
      /\ gone' = gone \cup {GrantOf(revoking)}
      /\ revoking' = 0
      /\ UNCHANGED <<token, store, cache, states, callback, sync, mishaps, crossed>>

(* Best effort. *)
RevokeFails ==
  /\ revoking # 0
  /\ Mishap
  /\ revoking' = 0
  /\ UNCHANGED <<intuit, store, cache, states, callback, sync, gone, crossed>>

-----------------------------------------------------------------------------
(* sync_accounts *)

Ended(s) == [sync EXCEPT ![s] = NotSyncing]

(* QboClient.__aenter__ reads the settings; whether the access token's      *)
(* expiry is near is the clock's business. Not connected: nothing to do.    *)
Enter(s) ==
  /\ sync[s].at = "idle"
  /\ store.realm # NoRealm
  /\ \E at \in {"reading", "accounts"} :
       /\ store.access = 0 => at = "reading"
       /\ sync' = [sync EXCEPT ![s] = [NotSyncing EXCEPT
                                         !.at = at, !.realm = store.realm,
                                         !.access = IF at = "reading" THEN 0 ELSE store.access]]
  /\ UNCHANGED <<intuit, store, cache, browser, mishaps, gone, crossed>>

(* refresh_tokens, read; without a token it is QboNotConnected, and the job *)
(* returns.                                                                 *)
ReadToken(s) ==
  /\ sync[s].at = "reading"
  /\ sync' = IF store.refresh = 0 THEN Ended(s)
             ELSE [sync EXCEPT ![s].at = "posting", ![s].held = store.refresh]
  /\ UNCHANGED <<intuit, store, cache, browser, mishaps, gone, crossed>>

(* Intuit gives a new pair for a refresh token, which is thereby used up. *)
Rotates(s) ==
  /\ sync[s].at = "posting"
  /\ sync[s].held \in good
  /\ Issue(GrantOf(sync[s].held), token[sync[s].held].realm)
  /\ good' = (good \ {sync[s].held}) \cup {Len(token) + 1}

(* refresh_tokens, post *)
Rotate(s) ==
  /\ Rotates(s)
  /\ sync' = [sync EXCEPT ![s].at = "storing", ![s].held = Len(token) + 1]
  /\ UNCHANGED <<store, cache, browser, mishaps, gone, crossed>>

(* The token is used up or revoked, or the bound is met: a QboAuthError. *)
RotateRejected(s) ==
  /\ sync[s].at = "posting"
  /\ sync[s].held \notin good \/ Len(token) = MaxTokens
  /\ sync' = Ended(s)
  /\ UNCHANGED <<intuit, store, cache, browser, mishaps, gone, crossed>>

(* Mutant: only the access token is kept. *)
StoredAccess(t) == [store EXCEPT !.access = t]

(* store_tokens *)
Stored(t) == [store EXCEPT !.refresh = t, !.access = t]

(* refresh_tokens, write, and back to where it was called *)
StoreTokens(s) ==
  LET t == sync[s].held
  IN  /\ sync[s].at = "storing"
      /\ ~Locked
      /\ store' = Stored(t)
      /\ sync' = [sync EXCEPT ![s].at = sync[s].for, ![s].access = t, ![s].held = 0]
      /\ crossed' = (crossed \/ store.refresh = 0 \/ GrantOf(store.refresh) # GrantOf(t))
      /\ UNCHANGED <<intuit, cache, browser, mishaps, gone>>

(* _request answers: the accounts, then the name of the company. Intuit gives *)
(* a company's data for a token of that company.                             *)
Answered(s) ==
  /\ sync[s].at \in Request
  /\ token[sync[s].access].realm = sync[s].realm
  /\ sync' = IF sync[s].at = "accounts"
             THEN [sync EXCEPT ![s].at = "company", ![s].for = "company", ![s].tried = FALSE]
             ELSE [sync EXCEPT ![s].at = "merging", ![s].access = 0, ![s].tried = FALSE]
  /\ UNCHANGED <<intuit, store, cache, browser, mishaps, gone, crossed>>

(* A 401, which Intuit may answer at any time: an access token has its hour,  *)
(* and may end early. One refresh and one retry, then a QboAuthError.        *)
Unauthorised(s) ==
  /\ sync[s].at \in Request
  /\ sync' = IF sync[s].tried THEN Ended(s)
             ELSE [sync EXCEPT ![s].at = "reading", ![s].access = 0, ![s].tried = TRUE]
  /\ UNCHANGED <<intuit, store, cache, browser, mishaps, gone, crossed>>

(* Mutant: what QuickBooks no longer returns is left as it was. *)
MergedOnly(rows) == [a \in Account |-> IF a \in rows THEN "active" ELSE cache[a]]

(* upsert_accounts: deactivated, never deleted *)
Merged(rows) ==
  [a \in Account |-> CASE a \in rows -> "active"
                       [] a \notin rows /\ cache[a] = "active" -> "inactive"
                       [] OTHER -> cache[a]]

(* The write of sync_accounts. *)
Merge(s) ==
  /\ sync[s].at = "merging"
  /\ ~Locked
  /\ cache' = Merged(Chart[sync[s].realm])
  /\ store' = [store EXCEPT !.company = sync[s].realm]
  /\ sync' = Ended(s)
  /\ UNCHANGED <<intuit, browser, mishaps, gone, crossed>>

GrantsHeld(S) == {GrantOf(sync[s].held) : s \in {x \in S : sync[x].at = "storing"}}

(* A callback's session has the write lock for longer than busy_timeout. *)
SyncBusy(s) ==
  /\ sync[s].at \in {"storing", "merging"}
  /\ Locked
  /\ gone' = gone \cup GrantsHeld({s})
  /\ sync' = Ended(s)
  /\ UNCHANGED <<intuit, store, cache, browser, mishaps, crossed>>

(* A request fails, too often for _request: the job raises. *)
SyncFails(s) ==
  /\ sync[s].at # "idle"
  /\ Mishap
  /\ gone' = gone \cup GrantsHeld({s})
  /\ sync' = Ended(s)
  /\ UNCHANGED <<intuit, store, cache, browser, crossed>>

(* Intuit has rotated the token, and the answer is lost. *)
AnswerLost(s) ==
  /\ Rotates(s)
  /\ Mishap
  /\ gone' = gone \cup {GrantOf(sync[s].held)}
  /\ sync' = Ended(s)
  /\ UNCHANGED <<store, cache, browser, crossed>>

-----------------------------------------------------------------------------
(* The process ends and is started again. *)
Restart ==
  /\ Mishap
  /\ callback' = NoCallback
  /\ revoking' = 0
  /\ sync' = [s \in Sync |-> NotSyncing]
  /\ gone' = gone \cup GrantsHeld(Sync) \cup {t \in {callback.token} : callback.at = "storing"}
  /\ UNCHANGED <<intuit, store, cache, states, crossed>>

CallbackStep ==
  ExchangePost \/ ExchangeRejected \/ ExchangeWrite \/ ExchangeBusy \/ CallbackCommits

SyncStep(s) ==
  \/ ReadToken(s) \/ Rotate(s) \/ RotateRejected(s) \/ StoreTokens(s)
  \/ Answered(s) \/ Unauthorised(s) \/ Merge(s) \/ SyncBusy(s)

Next ==
  \/ Connect \/ CallbackRefused \/ CallbackBegins \/ CallbackStep \/ CallbackRaises
  \/ Disconnect \/ Revoke \/ RevokeFails
  \/ \E s \in Sync : Enter(s) \/ SyncStep(s) \/ SyncFails(s) \/ AnswerLost(s)
  \/ Restart

Spec == Init /\ [][Next]_vars

-----------------------------------------------------------------------------
(* Every variable has its type, and the two tokens are stored and cleared    *)
(* together.                                                                 *)
TypeOK ==
  /\ token \in Seq(Token)
  /\ Len(token) <= MaxTokens
  /\ good \subseteq DOMAIN token
  /\ store \in Store
  /\ cache \in [Account -> {"absent", "active", "inactive"}]
  /\ states \in 0..MaxStates
  /\ callback \in Callback
  /\ revoking \in TokenId
  /\ sync \in [Sync -> Syncing]
  /\ mishaps \in 0..MaxMishaps
  /\ gone \subseteq 1..MaxTokens
  /\ crossed \in BOOLEAN
  /\ store.refresh = store.access

(* Losing the rotated refresh token means losing the connection: the stored  *)
(* one is good, or a refresh is about to store its successor, or the grant   *)
(* was revoked or its successor lost with a request, a write or the process. *)
RotationIsKept ==
  store.refresh # 0 =>
    \/ store.refresh \in good
    \/ GrantOf(store.refresh) \in gone
    \/ \E s \in Sync : sync[s].at = "storing" /\ GrantOf(sync[s].held) = GrantOf(store.refresh)

(* The tokens are of the connected company, and there are none without one,  *)
(* unless a refresh that was under way during a disconnect or a reconnect    *)
(* has stored what it got.                                                   *)
TokensOfCompany ==
  \/ crossed
  \/ /\ store.realm = NoRealm <=> store.refresh = 0
     /\ store.refresh # 0 => token[store.refresh].realm = store.realm

(* The categories on offer are the chart of one company, the one that is     *)
(* named, however the syncs of two connections overlap.                      *)
PickerIsOfCompany ==
  store.company # NoRealm => {a \in Account : cache[a] = "active"} = Chart[store.company]

(* Neither a callback nor a sync is ever stuck, not even the callback that    *)
(* waits for the write lock of its own session, or the sync that has a       *)
(* rotated token to store meanwhile.                                         *)
NobodyIsStuck ==
  /\ callback.at # "idle" => ENABLED CallbackStep
  /\ \A s \in Sync : sync[s].at # "idle" => ENABLED SyncStep(s)
=============================================================================
