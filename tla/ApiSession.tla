----------------------------- MODULE ApiSession -----------------------------
(***************************************************************************)
(* The signed-in session of the browser: the API client that answers a 401 *)
(* with one token refresh per page and queues the other requests behind    *)
(* it, the check of a stored session after a page load, login and logout.  *)
(* Every tab runs its own copy of the client; localStorage is shared.      *)
(* Tokens are numbered in the order they are issued.  The provider is      *)
(* Cognito, whose answers to the browser are external.                     *)
(***************************************************************************)
EXTENDS Naturals, FiniteSets

CONSTANTS Tabs,
          Requests,   \* the API calls the pages make
          Tab,        \* the tab that makes each of them
          AuthCalls,  \* the ones whose URL contains /api/auth/
          Users,
          NoUser,
          MaxTokens   \* bound: access tokens issued

ASSUME SessionAssumption ==
  /\ Tab \in [Requests -> Tabs]
  /\ AuthCalls \subseteq Requests
  /\ IsFiniteSet(Requests)
  /\ NoUser \notin Users
  /\ MaxTokens \in Nat

VARIABLES
  access,      \* localStorage auth_token (and id_token), 0 when absent
  refresh,     \* localStorage refresh_token: the user it belongs to
  profile,     \* localStorage user
  issued,      \* access tokens issued so far
  owner,       \* the user each of them was issued to
  valid,       \* the ones a server still accepts
  page,        \* auth slice of each tab, and what its store has loaded
  refreshing,  \* isRefreshing of each tab
  queue,       \* failedQueue of each tab
  flow,        \* refreshToken() calls of each tab, by their caller
  request,     \* [pc, token, retry] of each API call
  sends        \* history: how often each of them went out

storage    == <<access, refresh, profile>>
tokenVars  == <<issued, owner, valid>>
clientVars == <<refreshing, queue, flow>>
callVars   == <<request, sends>>
vars == <<storage, tokenVars, page, clientVars, callVars>>

-----------------------------------------------------------------------------
Tokens   == 0 .. MaxTokens
MaybeUser == Users \cup {NoUser}
Callers  == {"client", "start"}   \* the 401 handler, validateSession

(* login: the token a login waits with for the profile, 0 when none does.  *)
(* shown: the users whose data the slices of the store hold.               *)
Page == [account : MaybeUser, validated : BOOLEAN, leaving : BOOLEAN,
         login : Tokens, shown : SUBSET MaybeUser]
Flow == [step : {"none", "session"}, user : {NoUser}]
        \cup [step : {"asked"}, user : Users]
Pc   == {"idle", "sent", "granted", "denied", "error", "waiting", "leading",
         "ok", "failed", "hung", "dropped"}
Call == [pc : Pc, token : Tokens, retry : BOOLEAN]

InFlight == {"sent", "granted", "denied", "error", "waiting", "leading"}
Settled  == {"ok", "failed", "hung", "dropped"}

TypeOK ==
  /\ access \in 0 .. issued
  /\ refresh \in MaybeUser
  /\ profile \in MaybeUser
  /\ issued \in Tokens
  /\ owner \in [Tokens -> MaybeUser]
  /\ valid \subseteq 1 .. issued
  /\ page \in [Tabs -> Page]
  /\ refreshing \in [Tabs -> BOOLEAN]
  /\ queue \in [Tabs -> SUBSET Requests]
  /\ flow \in [Tabs -> [Callers -> Flow]]
  /\ request \in [Requests -> Call]
  /\ sends \in [Requests -> Nat]

-----------------------------------------------------------------------------
NewPage == [account |-> NoUser, validated |-> FALSE, leaving |-> FALSE,
            login |-> 0, shown |-> {}]
NoFlow  == [step |-> "none", user |-> NoUser]

Init ==
  /\ access = 0
  /\ refresh = NoUser
  /\ profile = NoUser
  /\ issued = 0
  /\ owner = [k \in Tokens |-> NoUser]
  /\ valid = {}
  /\ page = [t \in Tabs |-> NewPage]
  /\ refreshing = [t \in Tabs |-> FALSE]
  /\ queue = [t \in Tabs |-> {}]
  /\ flow = [t \in Tabs |-> [c \in Callers |-> NoFlow]]
  /\ request = [r \in Requests |-> [pc |-> "idle", token |-> 0, retry |-> FALSE]]
  /\ sends = [r \in Requests |-> 0]

(* clearStoredSession *)
ClearStorage == access' = 0 /\ refresh' = NoUser /\ profile' = NoUser

(* A new access token of u, stored as auth_token. *)
Issue(u) ==
  /\ issued < MaxTokens
  /\ issued' = issued + 1
  /\ owner' = [owner EXCEPT ![issued + 1] = u]
  /\ valid' = valid \cup {issued + 1}
  /\ access' = issued + 1

-----------------------------------------------------------------------------
(* API calls.                                                              *)

SetPc(r, pc) == request' = [request EXCEPT ![r].pc = pc]

(* The request interceptor takes the token from localStorage, if any. *)
Send(r) ==
  /\ request[r].pc = "idle"
  /\ page[Tab[r]].account # NoUser
  /\ page[Tab[r]].validated
  /\ request' = [request EXCEPT
       ![r] = [pc |-> "sent", token |-> access, retry |-> FALSE]]
  /\ sends' = [sends EXCEPT ![r] = @ + 1]
  /\ UNCHANGED <<storage, tokenVars, page, clientVars>>

(* The service answers, or the call fails in another way. *)
Serve(r) ==
  /\ request[r].pc = "sent"
  /\ \/ request[r].token \in valid /\ SetPc(r, "granted")
     \/ request[r].token \notin valid /\ SetPc(r, "denied")
     \/ SetPc(r, "error")
  /\ UNCHANGED <<storage, tokenVars, page, clientVars, sends>>

(* The answer reaches the slice that asked. *)
Deliver(r) ==
  /\ request[r].pc = "granted"
  /\ SetPc(r, "ok")
  /\ page' = [page EXCEPT ![Tab[r]].shown = @ \cup {owner[request[r].token]}]
  /\ UNCHANGED <<storage, tokenVars, clientVars, sends>>

(* Any other error, or a second 401, is passed to the caller. *)
Reject(r) ==
  /\ \/ request[r].pc = "error"
     \/ request[r].pc = "denied" /\ request[r].retry
  /\ SetPc(r, "failed")
  /\ UNCHANGED <<storage, tokenVars, page, clientVars, sends>>

(* A 401 of an auth endpoint ends the session; the caller never hears. *)
DenyAuthCall(r) ==
  /\ request[r].pc = "denied"
  /\ ~request[r].retry
  /\ r \in AuthCalls
  /\ ClearStorage
  /\ page' = [page EXCEPT ![Tab[r]].leaving = TRUE]
  /\ SetPc(r, "hung")
  /\ UNCHANGED <<tokenVars, clientVars, sends>>

Refused(r) == request[r].pc = "denied" /\ ~request[r].retry /\ r \notin AuthCalls

(* A refresh is under way: wait for its token.  _retry stays unset. *)
Enqueue(r) ==
  /\ Refused(r)
  /\ refreshing[Tab[r]]
  /\ queue' = [queue EXCEPT ![Tab[r]] = @ \cup {r}]
  /\ SetPc(r, "waiting")
  /\ UNCHANGED <<storage, tokenVars, page, refreshing, flow, sends>>

(* Mutant: _retry stays unset here, too. *)
Unmarked(r) == [pc |-> "leading", token |-> request[r].token, retry |-> FALSE]

Leading(r) == [pc |-> "leading", token |-> request[r].token, retry |-> TRUE]

(* The first 401 starts the refresh. *)
Lead(r) ==
  LET t == Tab[r] IN
  /\ Refused(r)
  /\ ~refreshing[t]
  /\ refresh # NoUser
  /\ request' = [request EXCEPT ![r] = Leading(r)]
  /\ refreshing' = [refreshing EXCEPT ![t] = TRUE]
  /\ flow' = [flow EXCEPT ![t]["client"] = [step |-> "session", user |-> NoUser]]
  /\ UNCHANGED <<storage, tokenVars, page, queue, sends>>

(* No refresh token in localStorage: refreshAccessToken throws before its  *)
(* try block, so nothing is cleared and the page stays where it is.        *)
LeadInVain(r) ==
  /\ Refused(r)
  /\ ~refreshing[Tab[r]]
  /\ refresh = NoUser
  /\ request' = [request EXCEPT
       ![r] = [pc |-> "hung", token |-> request[r].token, retry |-> TRUE]]
  /\ UNCHANGED <<storage, tokenVars, page, clientVars, sends>>

Receive(r) ==
  Deliver(r) \/ Reject(r) \/ DenyAuthCall(r) \/ Enqueue(r) \/ Lead(r) \/ LeadInVain(r)

-----------------------------------------------------------------------------
(* CognitoAuthService.refreshToken, called by the 401 handler ("client")   *)
(* or by validateSession after a page load ("start").                      *)

SetFlow(t, c, f) == flow' = [flow EXCEPT ![t][c] = f]

(* Mutant: the refresh token is not read again after getSession.           *)
AskUnread(t, c) ==
  /\ flow[t][c].step = "session"
  /\ SetFlow(t, c, [step |-> "asked", user |-> refresh])
  /\ UNCHANGED <<storage, tokenVars, page, refreshing, queue, callVars>>

(* getSession succeeds, the refresh token is read, refreshSession begins. *)
AskCognito(t, c) ==
  /\ flow[t][c].step = "session"
  /\ refresh # NoUser
  /\ SetFlow(t, c, [step |-> "asked", user |-> refresh])
  /\ UNCHANGED <<storage, tokenVars, page, refreshing, queue, callVars>>

(* The call that leads a refresh and the ones that wait for it. *)
Leaders(t) == {r \in Requests : Tab[r] = t /\ request[r].pc = "leading"}

(* Mutant: processQueue is not called with the new token. *)
HeldAlone(t) == Leaders(t)

Held(t) == queue[t] \cup Leaders(t)

Resend(R, k) ==
  /\ request' = [r \in Requests |->
       IF r \in R THEN [pc |-> "sent", token |-> k, retry |-> request[r].retry]
       ELSE request[r]]
  /\ sends' = [r \in Requests |-> IF r \in R THEN sends[r] + 1 ELSE sends[r]]

(* Mutant: without its finally, a failed refresh leaves isRefreshing set. *)
EndIfStored(t) == refreshing' = [refreshing EXCEPT ![t] = access' = 0]

(* The finally block. *)
EndRefreshing(t) == refreshing' = [refreshing EXCEPT ![t] = FALSE]

(* The new tokens are stored, whatever happened to the session meanwhile. *)
ClientRefreshed(t) ==
  /\ flow[t]["client"].step = "asked"
  /\ Issue(flow[t]["client"].user)
  /\ Resend(Held(t), issued + 1)
  /\ queue' = [queue EXCEPT ![t] = {}]
  /\ EndRefreshing(t)
  /\ SetFlow(t, "client", NoFlow)
  /\ UNCHANGED <<refresh, profile, page>>

(* The session is cleared and the page leaves for /login; the waiting      *)
(* calls fail, the leading one never answers.                              *)
ClientNotRefreshed(t) ==
  /\ flow[t]["client"].step # "none"
  /\ ClearStorage
  /\ page' = [page EXCEPT ![t].leaving = TRUE]
  /\ request' = [r \in Requests |->
       IF r \in queue[t] THEN [request[r] EXCEPT !.pc = "failed"]
       ELSE IF r \in Leaders(t) THEN [request[r] EXCEPT !.pc = "hung"]
       ELSE request[r]]
  /\ queue' = [queue EXCEPT ![t] = {}]
  /\ EndRefreshing(t)
  /\ SetFlow(t, "client", NoFlow)
  /\ UNCHANGED <<tokenVars, sends>>

SessionValidated(t) ==
  /\ flow[t]["start"].step = "asked"
  /\ Issue(flow[t]["start"].user)
  /\ page' = [page EXCEPT ![t].validated = TRUE]
  /\ SetFlow(t, "start", NoFlow)
  /\ UNCHANGED <<refresh, profile, refreshing, queue, callVars>>

SessionNotValidated(t) ==
  /\ flow[t]["start"].step # "none"
  /\ ClearStorage
  /\ page' = [page EXCEPT ![t] = [account |-> NoUser, validated |-> TRUE,
       leaving |-> @.leaving, login |-> @.login, shown |-> @.shown]]
  /\ SetFlow(t, "start", NoFlow)
  /\ UNCHANGED <<tokenVars, refreshing, queue, callVars>>

ClientRefresh(t) == AskCognito(t, "client") \/ ClientRefreshed(t) \/ ClientNotRefreshed(t)
Validation(t) == AskCognito(t, "start") \/ SessionValidated(t) \/ SessionNotValidated(t)

-----------------------------------------------------------------------------
(* Users, pages and time.                                                  *)

(* authenticateUser succeeds: the tokens are stored, the profile is asked. *)
Login(t, u) ==
  /\ page[t].account = NoUser
  /\ page[t].login = 0
  /\ ~page[t].leaving
  /\ Issue(u)
  /\ refresh' = u
  /\ page' = [page EXCEPT ![t].login = issued + 1]
  /\ UNCHANGED <<profile, clientVars, callVars>>

(* The profile, or the fallback one, reaches loginAsync.fulfilled. *)
LoggedIn(t) ==
  LET u == owner[page[t].login] IN
  /\ page[t].login # 0
  /\ page' = [page EXCEPT ![t] = [account |-> u, validated |-> TRUE,
       leaving |-> @.leaving, login |-> 0, shown |-> @.shown]]
  /\ profile' = u
  /\ UNCHANGED <<access, refresh, tokenVars, clientVars, callVars>>

(* The profile request, an auth endpoint, is answered with 401. *)
LoginDenied(t) ==
  /\ page[t].login # 0
  /\ page[t].login \notin valid
  /\ ClearStorage
  /\ page' = [page EXCEPT ![t] = [account |-> @.account, validated |-> @.validated,
       leaving |-> TRUE, login |-> 0, shown |-> @.shown]]
  /\ UNCHANGED <<tokenVars, clientVars, callVars>>

(* By the user, or by useSessionTimeout after 30 idle minutes of this tab. *)
Logout(t) ==
  /\ page[t].account # NoUser
  /\ ClearStorage
  /\ page' = [page EXCEPT ![t] = [account |-> NoUser, validated |-> FALSE,
       leaving |-> @.leaving, login |-> @.login, shown |-> {}]]
  /\ UNCHANGED <<tokenVars, clientVars, callVars>>

(* The page is loaded, by the user or by window.location: all that was in  *)
(* memory is gone, the calls that were never answered too, and the auth    *)
(* slice starts from localStorage.                                         *)
Load(t) ==
  /\ page' = [page EXCEPT ![t] =
       [NewPage EXCEPT !.account = IF access # 0 THEN profile ELSE NoUser]]
  /\ refreshing' = [refreshing EXCEPT ![t] = FALSE]
  /\ queue' = [queue EXCEPT ![t] = {}]
  /\ flow' = [flow EXCEPT ![t] = [c \in Callers |-> NoFlow]]
  /\ request' = [r \in Requests |->
       IF Tab[r] = t /\ request[r].pc \in InFlight \cup {"hung"}
       THEN [request[r] EXCEPT !.pc = "dropped"] ELSE request[r]]
  /\ UNCHANGED <<storage, tokenVars, sends>>

(* ProtectedRoute has a stored session that this page has not checked. *)
Validate(t) ==
  /\ page[t].account # NoUser
  /\ ~page[t].validated
  /\ flow[t]["start"].step = "none"
  /\ SetFlow(t, "start", [step |-> "session", user |-> NoUser])
  /\ UNCHANGED <<storage, tokenVars, page, refreshing, queue, callVars>>

Expire(k) ==
  /\ k \in valid
  /\ valid' = valid \ {k}
  /\ UNCHANGED <<storage, issued, owner, page, clientVars, callVars>>

Next ==
  \/ \E r \in Requests : Send(r) \/ Serve(r) \/ Receive(r)
  \/ \E t \in Tabs : ClientRefresh(t) \/ Validation(t) \/ Validate(t)
                     \/ LoggedIn(t) \/ LoginDenied(t) \/ Logout(t) \/ Load(t)
  \/ \E t \in Tabs, u \in Users : Login(t, u)
  \/ \E k \in Tokens : Expire(k)

Spec == Init /\ [][Next]_vars

(* Services and Cognito answer or the call times out, and the page's event *)
(* loop runs the handlers.                                                 *)
Fairness ==
  /\ \A r \in Requests : WF_vars(Serve(r)) /\ WF_vars(Receive(r))
  /\ \A t \in Tabs : WF_vars(ClientRefresh(t))

FairSpec == Spec /\ Fairness

-----------------------------------------------------------------------------
(* Safety.                                                                 *)

(* While isRefreshing, one call of the tab leads and the queue holds the   *)
(* waiting ones; otherwise nobody leads, waits or is refreshed.  Fails     *)
(* when a finished refresh leaves a call behind in failedQueue.            *)
OneLeader(t) ==
  IF refreshing[t]
  THEN /\ \E r \in Leaders(t) : Leaders(t) = {r}
       /\ flow[t]["client"].step # "none"
  ELSE /\ Leaders(t) = {}
       /\ flow[t]["client"].step = "none"
QueueExact(t) ==
  /\ queue[t] = {r \in Requests : Tab[r] = t /\ request[r].pc = "waiting"}
  /\ queue[t] # {} => refreshing[t]
LeaderInv == \A t \in Tabs : OneLeader(t) /\ QueueExact(t)

(* A call goes out once, and once more for every call of its tab that ever *)
(* led a refresh: 401s never become an endless loop of refreshes, although *)
(* the calls of the queue are not marked with _retry.                      *)
Retried(t) == {r \in Requests : Tab[r] = t /\ request[r].retry}
RetryBounded == \A r \in Requests : sends[r] <= 1 + Cardinality(Retried(Tab[r]))

(* Why: during a refresh its leader is already counted, and nothing is     *)
(* sent again before the refresh is over.                                  *)
SendsInv == \A r \in Requests :
  /\ request[r].pc = "idle" => sends[r] = 0 /\ ~request[r].retry
  /\ request[r].pc = "leading" => request[r].retry
  /\ refreshing[Tab[r]] => sends[r] <= Cardinality(Retried(Tab[r]))

(* "Page is navigating to /login" (client.ts:238): a call whose error is   *)
(* suppressed belongs to a page that is leaving.                           *)
HungLeaves == \A r \in Requests : request[r].pc = "hung" => page[Tab[r]].leaving

(* A page never holds data of anyone but its signed-in user (store.ts:32). *)
OwnDataOnly ==
  \A t \in Tabs : page[t].account # NoUser => page[t].shown \subseteq {page[t].account}

(* The two tokens of localStorage belong to one user. *)
SessionOfOneUser == access # 0 /\ refresh # NoUser => owner[access] = refresh

(* After a logout only a login stores tokens again (session.ts:2). *)
StorageFilled == access = 0 /\ access' # 0
NothingKept ==
  [][StorageFilled => \E t \in Tabs : page[t].login # page'[t].login]_vars

(* Liveness: no call waits for ever in the queue or behind its own         *)
(* refresh.  It is answered or fails, ends with its page, or the handler   *)
(* itself gives it up ("hung", see HungLeaves for when that is a mistake). *)
RequestsSettle ==
  \A r \in Requests : request[r].pc \in InFlight ~> request[r].pc \in Settled

-----------------------------------------------------------------------------
(* Under which circumstances the refuted claims hold after all.            *)

Asked(t, c) == flow[t][c].step = "asked"

(* Nobody logs in while a refresh of another user is at Cognito.           *)
LoginAfterRefreshes ==
  [][\A t \in Tabs, u \in Users : Login(t, u) =>
       \A s \in Tabs, c \in Callers : Asked(s, c) => flow[s][c].user = u]_vars

(* Something of v is left in the browser: in localStorage, in a page, in a *)
(* refresh, or in a call that will be answered.                            *)
Present(v) ==
  \/ v \in {refresh, profile}
  \/ access # 0 /\ owner[access] = v
  \/ \E t \in Tabs :
       \/ page[t].account = v
       \/ v \in page[t].shown
       \/ page[t].login # 0 /\ owner[page[t].login] = v
       \/ \E c \in Callers : flow[t][c].user = v
  \/ \E r \in Requests : request[r].pc \in InFlight /\ owner[request[r].token] = v

(* Nobody logs in before everything of the previous user is gone.          *)
LoginToEmptyBrowser ==
  [][\A t \in Tabs, u \in Users : Login(t, u) => \A v \in Users : Present(v) => v = u]_vars

(* The stored session ends only when no refresh is at Cognito.             *)
SessionEnds == refresh # NoUser /\ refresh' = NoUser
EndsAfterRefreshes ==
  [][SessionEnds => \A t \in Tabs, c \in Callers : ~Asked(t, c)']_vars

(* ... and only with every page: one that does not leave for /login has no *)
(* account, no login and no call under way.                                *)
SignedOut(t) ==
  /\ page[t].account = NoUser
  /\ page[t].login = 0
  /\ \A r \in Requests : Tab[r] = t => request[r].pc \notin InFlight
EndsInEveryPage == [][SessionEnds => \A t \in Tabs : page'[t].leaving \/ SignedOut(t)']_vars

(* The inductive invariants behind them.                                   *)
OneUserInv ==
  refresh # NoUser =>
    /\ access # 0 => owner[access] = refresh
    /\ \A t \in Tabs, c \in Callers : Asked(t, c) => flow[t][c].user = refresh

PresentInv ==
  /\ \A u, v \in Users : Present(u) /\ Present(v) => u = v
  /\ owner[0] = NoUser
  /\ \A k \in 1 .. issued : owner[k] \in Users
  /\ \A r \in Requests : request[r].pc = "granted" => request[r].token \in 1 .. issued
  /\ \A t \in Tabs : page[t].shown \subseteq Users

StoredInv ==
  /\ access # 0 <=> refresh # NoUser
  /\ \A t \in Tabs, c \in Callers : Asked(t, c) => refresh # NoUser

LeavingInv ==
  /\ HungLeaves
  /\ refresh = NoUser => \A t \in Tabs : page[t].leaving \/ SignedOut(t)
=============================================================================
