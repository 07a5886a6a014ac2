-------------------------- MODULE ApiSession_proofs --------------------------
(***************************************************************************)
(* Proofs about ApiSession, for every number of tabs, calls, users and     *)
(* tokens.                                                                 *)
(***************************************************************************)
EXTENDS ApiSession, FiniteSetTheorems, TLAPS

(* One field of a record of the model changes, the others keep their type. *)
LEMMA CallType ==
  ASSUME NEW x \in Call, NEW pc \in Pc
  PROVE  [x EXCEPT !.pc = pc] \in Call
BY DEF Call

LEMMA PageType ==
  ASSUME NEW x \in Page
  PROVE  /\ [x EXCEPT !.leaving = TRUE] \in Page
         /\ [x EXCEPT !.validated = TRUE] \in Page
         /\ \A u \in MaybeUser : [x EXCEPT !.account = u] \in Page
         /\ \A k \in Tokens : [x EXCEPT !.login = k] \in Page
         /\ \A u \in MaybeUser : [x EXCEPT !.shown = @ \cup {u}] \in Page
BY DEF Page

LEMMA SetPcType ==
  ASSUME request \in [Requests -> Call], NEW r \in Requests, NEW pc \in Pc, SetPc(r, pc)
  PROVE  request' \in [Requests -> Call]
<1>1. [request[r] EXCEPT !.pc = pc] \in Call
  BY CallType
<1> QED
  BY <1>1 DEF SetPc

LEMMA SetFlowType ==
  ASSUME flow \in [Tabs -> [Callers -> Flow]], NEW t \in Tabs, NEW c \in Callers,
         NEW f \in Flow, SetFlow(t, c, f)
  PROVE  flow' \in [Tabs -> [Callers -> Flow]]
BY DEF SetFlow

LEMMA FlowValues ==
  /\ NoFlow \in Flow
  /\ [step |-> "session", user |-> NoUser] \in Flow
  /\ \A u \in Users : [step |-> "asked", user |-> u] \in Flow
BY DEF NoFlow, Flow

LEMMA StorageType ==
  ASSUME TypeOK, ClearStorage
  PROVE  /\ access' = 0
         /\ refresh' \in MaybeUser
         /\ profile' \in MaybeUser
BY DEF ClearStorage, MaybeUser

LEMMA IssueType ==
  ASSUME TypeOK, NEW u \in Users, Issue(u)
  PROVE  /\ issued' = issued + 1
         /\ issued' \in Tokens
         /\ access' \in 0 .. issued'
         /\ valid' \subseteq 1 .. issued'
         /\ owner' \in [Tokens -> MaybeUser]
<1>1. issued \in Nat /\ issued + 1 \in Tokens /\ issued' = issued + 1
  BY SessionAssumption DEF Issue, TypeOK, Tokens
<1>2. valid' \subseteq 1 .. (issued + 1)
  BY <1>1 DEF Issue, TypeOK
<1>3. access' = issued + 1
  BY DEF Issue
<1>4. owner' \in [Tokens -> MaybeUser]
  BY <1>1 DEF Issue, TypeOK, MaybeUser
<1> QED
  BY <1>1, <1>2, <1>3, <1>4

(* Every step keeps the types.                                              *)
LEMMA TypeStays ==
  ASSUME TypeOK, [Next]_vars
  PROVE  TypeOK'
<1> USE DEF storage, tokenVars, clientVars, callVars
<1>1. ASSUME NEW r \in Requests, Send(r) PROVE TypeOK'
  <2>1. [pc |-> "sent", token |-> access, retry |-> FALSE] \in Call
    BY SessionAssumption DEF TypeOK, Call, Pc, Tokens
  <2>2. request' \in [Requests -> Call] /\ sends' \in [Requests -> Nat]
    BY <1>1, <2>1 DEF Send, TypeOK
  <2> QED
    BY <1>1, <2>2 DEF Send, TypeOK
<1>2. ASSUME NEW r \in Requests, Serve(r) PROVE TypeOK'
  <2>1. request' \in [Requests -> Call]
    BY <1>2, SetPcType DEF Serve, TypeOK, Pc
  <2> QED
    BY <1>2, <2>1 DEF Serve, TypeOK
<1>3. ASSUME NEW r \in Requests, Deliver(r) PROVE TypeOK'
  <2>1. request' \in [Requests -> Call]
    BY <1>3, SetPcType DEF Deliver, TypeOK, Pc
  <2>2. Tab[r] \in Tabs /\ owner[request[r].token] \in MaybeUser
    BY SessionAssumption DEF TypeOK, Call
  <2>3. page' \in [Tabs -> Page]
    BY <1>3, <2>2, PageType DEF Deliver, TypeOK
  <2> QED
    BY <1>3, <2>1, <2>3 DEF Deliver, TypeOK
<1>4. ASSUME NEW r \in Requests, Reject(r) PROVE TypeOK'
  <2>1. request' \in [Requests -> Call]
    BY <1>4, SetPcType DEF Reject, TypeOK, Pc
  <2> QED
    BY <1>4, <2>1 DEF Reject, TypeOK
<1>5. ASSUME NEW r \in Requests, DenyAuthCall(r) PROVE TypeOK'
  <2>1. request' \in [Requests -> Call]
    BY <1>5, SetPcType DEF DenyAuthCall, TypeOK, Pc
  <2>2. page' \in [Tabs -> Page]
    BY <1>5, PageType, SessionAssumption DEF DenyAuthCall, TypeOK
  <2>3. access' = 0 /\ refresh' \in MaybeUser /\ profile' \in MaybeUser
    BY <1>5, StorageType DEF DenyAuthCall
  <2> QED
    BY <1>5, <2>1, <2>2, <2>3 DEF DenyAuthCall, TypeOK, Tokens
<1>6. ASSUME NEW r \in Requests, Enqueue(r) PROVE TypeOK'
  <2>1. request' \in [Requests -> Call]
    BY <1>6, SetPcType DEF Enqueue, TypeOK, Pc
  <2>2. queue' \in [Tabs -> SUBSET Requests]
    BY <1>6, SessionAssumption DEF Enqueue, TypeOK
  <2> QED
    BY <1>6, <2>1, <2>2 DEF Enqueue, TypeOK
<1>7. ASSUME NEW r \in Requests, Lead(r) PROVE TypeOK'
  <2>1. Leading(r) \in Call
    BY DEF Leading, TypeOK, Call, Pc
  <2>2. request' \in [Requests -> Call]
    BY <1>7, <2>1 DEF Lead, TypeOK
  <2>3. flow' \in [Tabs -> [Callers -> Flow]]
    BY <1>7, FlowValues, SessionAssumption DEF Lead, TypeOK, Callers
  <2>4. refreshing' \in [Tabs -> BOOLEAN]
    BY <1>7 DEF Lead, TypeOK
  <2> QED
    BY <1>7, <2>2, <2>3, <2>4 DEF Lead, TypeOK
<1>8. ASSUME NEW r \in Requests, LeadInVain(r) PROVE TypeOK'
  <2>1. [pc |-> "hung", token |-> request[r].token, retry |-> TRUE] \in Call
    BY DEF TypeOK, Call, Pc
  <2>2. request' \in [Requests -> Call]
    BY <1>8, <2>1 DEF LeadInVain, TypeOK
  <2> QED
    BY <1>8, <2>2 DEF LeadInVain, TypeOK
<1>9. ASSUME NEW t \in Tabs, NEW c \in Callers, AskCognito(t, c) PROVE TypeOK'
  <2>1. [step |-> "asked", user |-> refresh] \in Flow
    BY <1>9, FlowValues DEF AskCognito, TypeOK, MaybeUser
  <2>2. flow' \in [Tabs -> [Callers -> Flow]]
    BY <1>9, <2>1, SetFlowType DEF AskCognito, TypeOK
  <2> QED
    BY <1>9, <2>2 DEF AskCognito, TypeOK
<1>10. ASSUME NEW t \in Tabs, ClientRefreshed(t) PROVE TypeOK'
  <2>1. flow[t]["client"].user \in Users
    BY <1>10 DEF ClientRefreshed, TypeOK, Flow, Callers
  <2>2. /\ issued' = issued + 1
        /\ issued' \in Tokens
        /\ access' \in 0 .. issued'
        /\ valid' \subseteq 1 .. issued'
        /\ owner' \in [Tokens -> MaybeUser]
    BY <1>10, <2>1, IssueType DEF ClientRefreshed
  <2>3. \A r \in Requests :
          [pc |-> "sent", token |-> issued + 1, retry |-> request[r].retry] \in Call
    BY <2>2 DEF TypeOK, Call, Pc
  <2>4. request' \in [Requests -> Call] /\ sends' \in [Requests -> Nat]
    BY <1>10, <2>3 DEF ClientRefreshed, Resend, TypeOK
  <2>5. flow' \in [Tabs -> [Callers -> Flow]]
    BY <1>10, FlowValues, SetFlowType DEF ClientRefreshed, TypeOK, Callers
  <2>6. /\ queue' \in [Tabs -> SUBSET Requests]
        /\ refreshing' \in [Tabs -> BOOLEAN]
    BY <1>10 DEF ClientRefreshed, EndRefreshing, TypeOK
  <2> QED
    BY <1>10, <2>2, <2>4, <2>5, <2>6 DEF ClientRefreshed, TypeOK
<1>11. ASSUME NEW t \in Tabs, ClientNotRefreshed(t) PROVE TypeOK'
  <2>1. \A r \in Requests : /\ [request[r] EXCEPT !.pc = "failed"] \in Call
                            /\ [request[r] EXCEPT !.pc = "hung"] \in Call
    BY CallType DEF TypeOK, Pc
  <2>2. request' \in [Requests -> Call]
    BY <1>11, <2>1 DEF ClientNotRefreshed, TypeOK
  <2>3. page' \in [Tabs -> Page]
    BY <1>11, PageType DEF ClientNotRefreshed, TypeOK
  <2>4. access' = 0 /\ refresh' \in MaybeUser /\ profile' \in MaybeUser
    BY <1>11, StorageType DEF ClientNotRefreshed
  <2>5. flow' \in [Tabs -> [Callers -> Flow]]
    BY <1>11, FlowValues, SetFlowType DEF ClientNotRefreshed, TypeOK, Callers
  <2>6. /\ queue' \in [Tabs -> SUBSET Requests]
        /\ refreshing' \in [Tabs -> BOOLEAN]
    BY <1>11 DEF ClientNotRefreshed, EndRefreshing, TypeOK
  <2> QED
    BY <1>11, <2>2, <2>3, <2>4, <2>5, <2>6 DEF ClientNotRefreshed, TypeOK, Tokens
<1>12. ASSUME NEW t \in Tabs, SessionValidated(t) PROVE TypeOK'
  <2>1. flow[t]["start"].user \in Users
    BY <1>12 DEF SessionValidated, TypeOK, Flow, Callers
  <2>2. /\ issued' \in Tokens
        /\ access' \in 0 .. issued'
        /\ valid' \subseteq 1 .. issued'
        /\ owner' \in [Tokens -> MaybeUser]
    BY <1>12, <2>1, IssueType DEF SessionValidated
  <2>3. page' \in [Tabs -> Page]
    BY <1>12, PageType DEF SessionValidated, TypeOK
  <2>4. flow' \in [Tabs -> [Callers -> Flow]]
    BY <1>12, FlowValues, SetFlowType DEF SessionValidated, TypeOK, Callers
  <2> QED
    BY <1>12, <2>2, <2>3, <2>4 DEF SessionValidated, TypeOK
<1>13. ASSUME NEW t \in Tabs, SessionNotValidated(t) PROVE TypeOK'
  <2>1. [account |-> NoUser, validated |-> TRUE, leaving |-> page[t].leaving,
         login |-> page[t].login, shown |-> page[t].shown] \in Page
    BY DEF TypeOK, Page, MaybeUser
  <2>2. page' \in [Tabs -> Page]
    BY <1>13, <2>1 DEF SessionNotValidated, TypeOK
  <2>3. access' = 0 /\ refresh' \in MaybeUser /\ profile' \in MaybeUser
    BY <1>13, StorageType DEF SessionNotValidated
  <2>4. flow' \in [Tabs -> [Callers -> Flow]]
    BY <1>13, FlowValues, SetFlowType DEF SessionNotValidated, TypeOK, Callers
  <2> QED
    BY <1>13, <2>2, <2>3, <2>4 DEF SessionNotValidated, TypeOK, Tokens
<1>14. ASSUME NEW t \in Tabs, NEW u \in Users, Login(t, u) PROVE TypeOK'
  <2>2. /\ issued' = issued + 1
        /\ issued' \in Tokens
        /\ access' \in 0 .. issued'
        /\ valid' \subseteq 1 .. issued'
        /\ owner' \in [Tokens -> MaybeUser]
    BY <1>14, IssueType DEF Login
  <2>3. page' \in [Tabs -> Page]
    BY <1>14, <2>2, PageType DEF Login, TypeOK
  <2> QED
    BY <1>14, <2>2, <2>3 DEF Login, TypeOK, MaybeUser
<1>15. ASSUME NEW t \in Tabs, LoggedIn(t) PROVE TypeOK'
  <2>1. owner[page[t].login] \in MaybeUser
    BY DEF TypeOK, Page
  <2>2. [account |-> owner[page[t].login], validated |-> TRUE,
         leaving |-> page[t].leaving, login |-> 0, shown |-> page[t].shown] \in Page
    BY <2>1, SessionAssumption DEF TypeOK, Page, Tokens
  <2>3. page' \in [Tabs -> Page]
    BY <1>15, <2>2 DEF LoggedIn, TypeOK
  <2> QED
    BY <1>15, <2>1, <2>3 DEF LoggedIn, TypeOK
<1>16. ASSUME NEW t \in Tabs, LoginDenied(t) PROVE TypeOK'
  <2>2. [account |-> page[t].account, validated |-> page[t].validated,
         leaving |-> TRUE, login |-> 0, shown |-> page[t].shown] \in Page
    BY SessionAssumption DEF TypeOK, Page, Tokens
  <2>3. page' \in [Tabs -> Page]
    BY <1>16, <2>2 DEF LoginDenied, TypeOK
  <2>4. access' = 0 /\ refresh' \in MaybeUser /\ profile' \in MaybeUser
    BY <1>16, StorageType DEF LoginDenied
  <2> QED
    BY <1>16, <2>3, <2>4 DEF LoginDenied, TypeOK, Tokens
<1>17. ASSUME NEW t \in Tabs, Logout(t) PROVE TypeOK'
  <2>2. [account |-> NoUser, validated |-> FALSE, leaving |-> page[t].leaving,
         login |-> page[t].login, shown |-> {}] \in Page
    BY DEF TypeOK, Page, MaybeUser
  <2>3. page' \in [Tabs -> Page]
    BY <1>17, <2>2 DEF Logout, TypeOK
  <2>4. access' = 0 /\ refresh' \in MaybeUser /\ profile' \in MaybeUser
    BY <1>17, StorageType DEF Logout
  <2> QED
    BY <1>17, <2>3, <2>4 DEF Logout, TypeOK, Tokens
<1>18. ASSUME NEW t \in Tabs, Load(t) PROVE TypeOK'
  <2>0. NewPage \in Page
    BY SessionAssumption DEF NewPage, Page, Tokens, MaybeUser
  <2>1. \A u \in MaybeUser : [NewPage EXCEPT !.account = u] \in Page
    BY <2>0, PageType
  <2>2. (IF access # 0 THEN profile ELSE NoUser) \in MaybeUser
    BY DEF TypeOK, MaybeUser
  <2>3. page' \in [Tabs -> Page]
    BY <1>18, <2>1, <2>2 DEF Load, TypeOK
  <2>4. \A r \in Requests : [request[r] EXCEPT !.pc = "dropped"] \in Call
    BY CallType DEF TypeOK, Pc
  <2>5. request' \in [Requests -> Call]
    BY <1>18, <2>4 DEF Load, TypeOK
  <2>6. flow' \in [Tabs -> [Callers -> Flow]]
    BY <1>18, FlowValues DEF Load, TypeOK
  <2>7. /\ queue' \in [Tabs -> SUBSET Requests]
        /\ refreshing' \in [Tabs -> BOOLEAN]
    BY <1>18 DEF Load, TypeOK
  <2> QED
    BY <1>18, <2>3, <2>5, <2>6, <2>7 DEF Load, TypeOK
<1>19. ASSUME NEW t \in Tabs, Validate(t) PROVE TypeOK'
  <2>1. flow' \in [Tabs -> [Callers -> Flow]]
    BY <1>19, FlowValues, SetFlowType DEF Validate, TypeOK, Callers
  <2> QED
    BY <1>19, <2>1 DEF Validate, TypeOK
<1>20. ASSUME NEW k \in Tokens, Expire(k) PROVE TypeOK'
  BY <1>20 DEF Expire, TypeOK
<1>21. CASE UNCHANGED vars
  BY <1>21 DEF vars, TypeOK
<1> QED
  BY <1>1, <1>2, <1>3, <1>4, <1>5, <1>6, <1>7, <1>8, <1>9, <1>10, <1>11, <1>12,
     <1>13, <1>14, <1>15, <1>16, <1>17, <1>18, <1>19, <1>20, <1>21
     DEF Next, Receive, ClientRefresh, Validation, Callers

(* Every variable keeps its type.                                          *)
THEOREM TypeCorrect == Spec => []TypeOK
<1>1. Init => TypeOK
  <2> SUFFICES ASSUME Init PROVE TypeOK
    OBVIOUS
  <2>1. NewPage \in Page
    BY SessionAssumption DEF NewPage, Page, Tokens, MaybeUser
  <2>2. [pc |-> "idle", token |-> 0, retry |-> FALSE] \in Call
    BY SessionAssumption DEF Call, Pc, Tokens
  <2>3. flow \in [Tabs -> [Callers -> Flow]]
    BY FlowValues DEF Init
  <2>4. page \in [Tabs -> Page] /\ request \in [Requests -> Call]
    BY <2>1, <2>2 DEF Init
  <2>5. issued \in Tokens /\ access \in 0 .. issued /\ valid \subseteq 1 .. issued
    BY SessionAssumption DEF Init, Tokens
  <2> QED
    BY <2>3, <2>4, <2>5 DEF Init, TypeOK, MaybeUser
<1>2. TypeOK /\ [Next]_vars => TypeOK'
  BY TypeStays
<1> QED
  BY <1>1, <1>2, PTL DEF Spec

-----------------------------------------------------------------------------
(* A tab whose flag, queue and flow stay, and none of whose calls begins   *)
(* or ends leading or waiting, keeps its part of LeaderInv.                *)
LEMMA TabUnmoved ==
  ASSUME NEW s \in Tabs, OneLeader(s), QueueExact(s),
         refreshing'[s] = refreshing[s],
         queue'[s] = queue[s],
         flow[s]["client"].step = "none" <=> flow'[s]["client"].step = "none",
         \A r \in Requests : Tab[r] = s =>
            /\ request[r].pc = "leading" <=> request'[r].pc = "leading"
            /\ request[r].pc = "waiting" <=> request'[r].pc = "waiting"
  PROVE  OneLeader(s)' /\ QueueExact(s)'
<1>1. Leaders(s)' = Leaders(s)
  BY DEF Leaders
<1>2. {r \in Requests : Tab[r] = s /\ request[r].pc = "waiting"}
       = {r \in Requests : Tab[r] = s /\ request'[r].pc = "waiting"}
  OBVIOUS
<1>3. OneLeader(s)'
  BY <1>1 DEF OneLeader
<1> QED
  BY <1>2, <1>3 DEF QueueExact

(* A tab whose refresh is over: nobody of it leads or waits any more.      *)
LEMMA TabEnded ==
  ASSUME NEW s \in Tabs,
         refreshing'[s] = FALSE,
         queue'[s] = {},
         flow'[s]["client"].step = "none",
         \A r \in Requests : Tab[r] = s => request'[r].pc \notin {"leading", "waiting"}
  PROVE  OneLeader(s)' /\ QueueExact(s)'
BY DEF OneLeader, QueueExact, Leaders

(* Steps that leave the client's variables alone.                          *)
LEMMA ClientUnmoved ==
  ASSUME LeaderInv, UNCHANGED clientVars,
         \A r \in Requests :
            /\ request[r].pc = "leading" <=> request'[r].pc = "leading"
            /\ request[r].pc = "waiting" <=> request'[r].pc = "waiting"
  PROVE  LeaderInv'
BY TabUnmoved DEF LeaderInv, clientVars

(* Steps of a call that neither leads nor waits, before or after.          *)
LEMMA SetPcUnmoved ==
  ASSUME TypeOK, LeaderInv, UNCHANGED clientVars, NEW r \in Requests, NEW pc \in Pc,
         SetPc(r, pc), {request[r].pc, pc} \cap {"leading", "waiting"} = {}
  PROVE  LeaderInv'
<1>1. \A q \in Requests : request'[q] = IF q = r THEN [request[r] EXCEPT !.pc = pc]
                                        ELSE request[q]
  BY DEF SetPc, TypeOK
<1>2. [request[r] EXCEPT !.pc = pc].pc = pc
  BY DEF TypeOK, Call
<1> QED
  BY <1>1, <1>2, ClientUnmoved

(* Steps of the other flow, or of a flow that goes on.                     *)
LEMMA FlowUnmoved ==
  ASSUME TypeOK, LeaderInv, UNCHANGED <<refreshing, queue, request>>,
         NEW t \in Tabs, NEW c \in Callers, NEW f \in Flow, SetFlow(t, c, f),
         c = "start" \/ (flow[t][c].step # "none" /\ f.step # "none")
  PROVE  LeaderInv'
<1>1. flow' = [flow EXCEPT ![t] = [@ EXCEPT ![c] = f]]
  BY DEF SetFlow
<1>2. \A s \in Tabs : flow[s]["client"].step = "none" <=> flow'[s]["client"].step = "none"
  BY DEF SetFlow, TypeOK, Callers
<1> QED
  BY <1>2, TabUnmoved DEF LeaderInv

(* One refresh per page, and its queue holds the waiting calls exactly:    *)
(* client.ts 206-243.                                                      *)
LEMMA LeaderStep == TypeOK /\ LeaderInv /\ [Next]_vars => LeaderInv'
<1> SUFFICES ASSUME TypeOK, LeaderInv, [Next]_vars PROVE LeaderInv'
  OBVIOUS
<1> USE DEF callVars
<1>1. ASSUME NEW r \in Requests, Send(r) PROVE LeaderInv'
  <2>1. \A q \in Requests : request'[q] =
           IF q = r THEN [pc |-> "sent", token |-> access, retry |-> FALSE] ELSE request[q]
    BY <1>1 DEF Send, TypeOK
  <2> QED
    BY <1>1, <2>1, ClientUnmoved DEF Send
<1>2. ASSUME NEW r \in Requests, Serve(r) PROVE LeaderInv'
  BY <1>2, SetPcUnmoved DEF Serve, Pc
<1>3. ASSUME NEW r \in Requests, Deliver(r) PROVE LeaderInv'
  BY <1>3, SetPcUnmoved DEF Deliver, Pc
<1>4. ASSUME NEW r \in Requests, Reject(r) PROVE LeaderInv'
  BY <1>4, SetPcUnmoved DEF Reject, Pc
<1>5. ASSUME NEW r \in Requests, DenyAuthCall(r) PROVE LeaderInv'
  BY <1>5, SetPcUnmoved DEF DenyAuthCall, Pc
<1>6. ASSUME NEW r \in Requests, Enqueue(r), NEW s \in Tabs
      PROVE  OneLeader(s)' /\ QueueExact(s)'
  <2>1. \A q \in Requests : request'[q] = IF q = r THEN [request[r] EXCEPT !.pc = "waiting"]
                                          ELSE request[q]
    BY <1>6 DEF Enqueue, SetPc, TypeOK
  <2>2. [request[r] EXCEPT !.pc = "waiting"].pc = "waiting"
    BY DEF TypeOK, Call
  <2>3. OneLeader(s) /\ QueueExact(s)
    BY DEF LeaderInv
  <2>4. request[r].pc = "denied" /\ refreshing' = refreshing /\ flow' = flow
    BY <1>6 DEF Enqueue, Refused
  <2>5. CASE s # Tab[r]
    BY <1>6, <2>1, <2>3, <2>4, <2>5, TabUnmoved DEF Enqueue, TypeOK
  <2>6. CASE s = Tab[r]
    <3>1. Leaders(s)' = Leaders(s)
      BY <2>1, <2>2, <2>4 DEF Leaders
    <3>2. queue'[s] = queue[s] \cup {r} /\ refreshing[s]
      BY <1>6, <2>6 DEF Enqueue, TypeOK
    <3>3. {q \in Requests : Tab[q] = s /\ request'[q].pc = "waiting"}
           = {q \in Requests : Tab[q] = s /\ request[q].pc = "waiting"} \cup {r}
      BY <2>1, <2>2, <2>6
    <3> QED
      BY <2>3, <2>4, <3>1, <3>2, <3>3 DEF OneLeader, QueueExact
  <2> QED
    BY <2>5, <2>6
<1>7. ASSUME NEW r \in Requests, Lead(r), NEW s \in Tabs
      PROVE  OneLeader(s)' /\ QueueExact(s)'
  <2>1. \A q \in Requests : request'[q] = IF q = r THEN Leading(r) ELSE request[q]
    BY <1>7 DEF Lead, TypeOK
  <2>2. Leading(r).pc = "leading" /\ request[r].pc = "denied"
    BY <1>7 DEF Leading, Lead, Refused
  <2>3. OneLeader(s) /\ QueueExact(s)
    BY DEF LeaderInv
  <2>4. flow' = [flow EXCEPT ![Tab[r]]["client"] = [step |-> "session", user |-> NoUser]]
        /\ refreshing' = [refreshing EXCEPT ![Tab[r]] = TRUE] /\ queue' = queue
        /\ ~refreshing[Tab[r]]
    BY <1>7 DEF Lead
  <2>5. CASE s # Tab[r]
    <3>1. flow'[s] = flow[s] /\ refreshing'[s] = refreshing[s]
      BY <2>4, <2>5 DEF TypeOK
    <3> QED
      BY <2>1, <2>3, <2>4, <2>5, <3>1, TabUnmoved
  <2>6. CASE s = Tab[r]
    <3>1. Leaders(s) = {} /\ queue[s] = {}
      BY <2>3, <2>4, <2>6 DEF OneLeader, QueueExact
    <3>2. Leaders(s)' = {r}
      BY <2>1, <2>2, <2>6, <3>1 DEF Leaders
    <3>3. queue'[s] = {} /\ refreshing'[s]
      BY <2>4, <2>6, <3>1 DEF TypeOK
    <3>4. flow'[s]["client"].step = "session"
      BY <2>4, <2>6 DEF TypeOK, Callers
    <3>5. {q \in Requests : Tab[q] = s /\ request'[q].pc = "waiting"} = {}
      BY <2>1, <2>2, <2>3, <3>1 DEF QueueExact
    <3> QED
      BY <3>2, <3>3, <3>4, <3>5 DEF OneLeader, QueueExact
  <2> QED
    BY <2>5, <2>6
<1>8. ASSUME NEW r \in Requests, LeadInVain(r) PROVE LeaderInv'
  <2>1. \A q \in Requests : request'[q] =
           IF q = r THEN [pc |-> "hung", token |-> request[r].token, retry |-> TRUE]
           ELSE request[q]
    BY <1>8 DEF LeadInVain, TypeOK
  <2> QED
    BY <1>8, <2>1, ClientUnmoved DEF LeadInVain, Refused
<1>9. ASSUME NEW t \in Tabs, NEW c \in Callers, AskCognito(t, c) PROVE LeaderInv'
  <2>1. [step |-> "asked", user |-> refresh] \in Flow
    BY <1>9, FlowValues DEF AskCognito, TypeOK, MaybeUser
  <2> QED
    BY <1>9, <2>1, FlowUnmoved DEF AskCognito
<1>10. ASSUME NEW t \in Tabs, ClientRefreshed(t), NEW s \in Tabs
       PROVE  OneLeader(s)' /\ QueueExact(s)'
  <2>1. OneLeader(s) /\ QueueExact(s) /\ QueueExact(t)
    BY DEF LeaderInv
  <2>2. \A q \in Requests : request'[q] =
           IF q \in Held(t)
           THEN [pc |-> "sent", token |-> issued + 1, retry |-> request[q].retry]
           ELSE request[q]
    BY <1>10 DEF ClientRefreshed, Resend
  <2>3. Held(t) = {q \in Requests : Tab[q] = t /\ request[q].pc \in {"leading", "waiting"}}
    BY <2>1 DEF Held, Leaders, QueueExact
  <2>4. CASE s = t
    <3>1. queue'[s] = {} /\ refreshing'[s] = FALSE /\ flow'[s]["client"].step = "none"
      BY <1>10, <2>4 DEF ClientRefreshed, EndRefreshing, SetFlow, NoFlow, TypeOK, Callers
    <3>2. \A q \in Requests : Tab[q] = s => request'[q].pc \notin {"leading", "waiting"}
      <4> SUFFICES ASSUME NEW q \in Requests, Tab[q] = s
                   PROVE  request'[q].pc \notin {"leading", "waiting"}
        OBVIOUS
      <4>1. CASE q \in Held(t)
        <5>1. request'[q] = [pc |-> "sent", token |-> issued + 1, retry |-> request[q].retry]
          BY <2>2, <4>1
        <5>2. request'[q].pc = "sent"
          BY <5>1
        <5> QED
          BY <5>2
      <4>2. CASE q \notin Held(t)
        BY <2>2, <2>3, <2>4, <4>2
      <4> QED
        BY <4>1, <4>2
    <3> QED
      BY <3>1, <3>2, TabEnded
  <2>5. CASE s # t
    <3>1. queue'[s] = queue[s] /\ refreshing'[s] = refreshing[s] /\ flow'[s] = flow[s]
      BY <1>10, <2>5 DEF ClientRefreshed, EndRefreshing, SetFlow, TypeOK
    <3> QED
      BY <2>1, <2>2, <2>3, <2>5, <3>1, TabUnmoved
  <2> QED
    BY <2>4, <2>5
<1>11. ASSUME NEW t \in Tabs, ClientNotRefreshed(t), NEW s \in Tabs
       PROVE  OneLeader(s)' /\ QueueExact(s)'
  <2>1. OneLeader(s) /\ QueueExact(s) /\ QueueExact(t)
    BY DEF LeaderInv
  <2>2. \A q \in Requests : request'[q] =
           IF q \in queue[t] THEN [request[q] EXCEPT !.pc = "failed"]
           ELSE IF q \in Leaders(t) THEN [request[q] EXCEPT !.pc = "hung"]
           ELSE request[q]
    BY <1>11 DEF ClientNotRefreshed
  <2>3. /\ queue[t] = {q \in Requests : Tab[q] = t /\ request[q].pc = "waiting"}
        /\ Leaders(t) = {q \in Requests : Tab[q] = t /\ request[q].pc = "leading"}
    BY <2>1 DEF Leaders, QueueExact
  <2>4. \A q \in Requests : /\ [request[q] EXCEPT !.pc = "failed"].pc = "failed"
                            /\ [request[q] EXCEPT !.pc = "hung"].pc = "hung"
    BY DEF TypeOK, Call
  <2>5. CASE s = t
    <3>1. queue'[s] = {} /\ refreshing'[s] = FALSE /\ flow'[s]["client"].step = "none"
      BY <1>11, <2>5 DEF ClientNotRefreshed, EndRefreshing, SetFlow, NoFlow, TypeOK, Callers
    <3>2. \A q \in Requests : Tab[q] = s => request'[q].pc \notin {"leading", "waiting"}
      BY <2>2, <2>3, <2>4, <2>5
    <3> QED
      BY <3>1, <3>2, TabEnded
  <2>6. CASE s # t
    <3>1. queue'[s] = queue[s] /\ refreshing'[s] = refreshing[s] /\ flow'[s] = flow[s]
      BY <1>11, <2>6 DEF ClientNotRefreshed, EndRefreshing, SetFlow, TypeOK
    <3> QED
      BY <2>1, <2>2, <2>3, <2>6, <3>1, TabUnmoved
  <2> QED
    BY <2>5, <2>6
<1>12. ASSUME NEW t \in Tabs, SessionValidated(t) PROVE LeaderInv'
  BY <1>12, FlowValues, FlowUnmoved DEF SessionValidated, Callers
<1>13. ASSUME NEW t \in Tabs, SessionNotValidated(t) PROVE LeaderInv'
  BY <1>13, FlowValues, FlowUnmoved DEF SessionNotValidated, Callers
<1>14. ASSUME NEW t \in Tabs, NEW u \in Users, Login(t, u) PROVE LeaderInv'
  BY <1>14, ClientUnmoved DEF Login
<1>15. ASSUME NEW t \in Tabs, LoggedIn(t) \/ LoginDenied(t) \/ Logout(t) PROVE LeaderInv'
  BY <1>15, ClientUnmoved DEF LoggedIn, LoginDenied, Logout
<1>16. ASSUME NEW t \in Tabs, Load(t), NEW s \in Tabs
       PROVE  OneLeader(s)' /\ QueueExact(s)'
  <2>1. OneLeader(s) /\ QueueExact(s)
    BY DEF LeaderInv
  <2>2. \A q \in Requests : request'[q] =
           IF Tab[q] = t /\ request[q].pc \in InFlight \cup {"hung"}
           THEN [request[q] EXCEPT !.pc = "dropped"] ELSE request[q]
    BY <1>16 DEF Load
  <2>3. \A q \in Requests : [request[q] EXCEPT !.pc = "dropped"].pc = "dropped"
    BY DEF TypeOK, Call
  <2>4. CASE s = t
    <3>1. queue'[s] = {} /\ refreshing'[s] = FALSE /\ flow'[s]["client"].step = "none"
      BY <1>16, <2>4 DEF Load, NoFlow, TypeOK, Callers
    <3>2. \A q \in Requests : Tab[q] = s => request'[q].pc \notin {"leading", "waiting"}
      BY <2>2, <2>3, <2>4 DEF InFlight
    <3> QED
      BY <3>1, <3>2, TabEnded
  <2>5. CASE s # t
    <3>1. queue'[s] = queue[s] /\ refreshing'[s] = refreshing[s] /\ flow'[s] = flow[s]
      BY <1>16, <2>5 DEF Load, TypeOK
    <3> QED
      BY <2>1, <2>2, <2>5, <3>1, TabUnmoved
  <2> QED
    BY <2>4, <2>5
<1>17. ASSUME NEW t \in Tabs, Validate(t) PROVE LeaderInv'
  BY <1>17, FlowValues, FlowUnmoved DEF Validate, Callers
<1>18. ASSUME NEW k \in Tokens, Expire(k) PROVE LeaderInv'
  BY <1>18, ClientUnmoved DEF Expire
<1>19. CASE UNCHANGED vars
  BY <1>19, ClientUnmoved DEF vars
<1>20. ASSUME NEW r \in Requests, Enqueue(r) \/ Lead(r) PROVE LeaderInv'
  BY <1>6, <1>7, <1>20 DEF LeaderInv
<1>21. ASSUME NEW t \in Tabs, ClientRefreshed(t) \/ ClientNotRefreshed(t) \/ Load(t)
       PROVE  LeaderInv'
  BY <1>10, <1>11, <1>16, <1>21 DEF LeaderInv
<1> QED
  BY <1>1, <1>2, <1>3, <1>4, <1>5, <1>8, <1>9, <1>12, <1>13, <1>14, <1>15, <1>17,
     <1>18, <1>19, <1>20, <1>21 DEF Next, Receive, ClientRefresh, Validation, Callers

THEOREM LeaderInvariant == Spec => []LeaderInv
<1>1. Init => LeaderInv
  <2> SUFFICES ASSUME Init, NEW t \in Tabs PROVE OneLeader(t) /\ QueueExact(t)
    BY DEF LeaderInv
  <2>1. \A r \in Requests : request[r].pc = "idle"
    BY DEF Init
  <2>2. ~refreshing[t] /\ queue[t] = {} /\ flow[t]["client"].step = "none"
    BY DEF Init, NoFlow, Callers
  <2> QED
    BY <2>1, <2>2 DEF OneLeader, QueueExact, Leaders
<1> QED
  BY <1>1, LeaderStep, TypeCorrect, PTL DEF Spec

-----------------------------------------------------------------------------
(* How often a call goes out.                                              *)

LEMMA RetriedFinite ==
  ASSUME NEW t
  PROVE  IsFiniteSet(Retried(t)) /\ Cardinality(Retried(t)) \in Nat
<1>1. Retried(t) \in SUBSET Requests
  BY DEF Retried
<1> QED
  BY <1>1, SessionAssumption, FS_Subset, FS_CardinalityType

(* The count of the calls that led only grows.                             *)
LEMMA RetriedGrows ==
  ASSUME NEW t, \A r \in Requests : request[r].retry => request'[r].retry
  PROVE  Cardinality(Retried(t)) <= Cardinality(Retried(t)')
<1>1. Retried(t) \in SUBSET (Retried(t)') /\ Retried(t)' \in SUBSET Requests
  BY DEF Retried
<1>2. IsFiniteSet(Retried(t)')
  BY <1>1, SessionAssumption, FS_Subset
<1> QED
  BY <1>1, <1>2, FS_Subset

(* A step that sends nothing, forgets no _retry, and begins no refresh.    *)
LEMMA SendsQuiet ==
  ASSUME TypeOK, SendsInv, RetryBounded, sends' = sends,
         \A r \in Requests :
           /\ request'[r].pc = "idle" => request'[r] = request[r]
           /\ request'[r].pc = "leading" => request[r].pc = "leading"
           /\ request[r].retry => request'[r].retry,
         \A t \in Tabs : refreshing'[t] => refreshing[t]
  PROVE  (SendsInv /\ RetryBounded)'
<1> SUFFICES ASSUME NEW r \in Requests
    PROVE  /\ request'[r].pc = "idle" => sends'[r] = 0 /\ ~request'[r].retry
           /\ request'[r].pc = "leading" => request'[r].retry
           /\ refreshing'[Tab[r]] => sends'[r] <= Cardinality(Retried(Tab[r])')
           /\ sends'[r] <= 1 + Cardinality(Retried(Tab[r])')
  BY DEF SendsInv, RetryBounded
<1> DEFINE n == Cardinality(Retried(Tab[r]))
           m == Cardinality(Retried(Tab[r])')
<1>1. n \in Nat /\ m \in Nat /\ n <= m
  <2>1. IsFiniteSet(Retried(Tab[r])')
    <3>1. Retried(Tab[r])' \in SUBSET Requests
      BY DEF Retried
    <3> QED
      BY <3>1, SessionAssumption, FS_Subset
  <2> QED
    BY <2>1, RetriedFinite, RetriedGrows, FS_CardinalityType
<1>2. Tab[r] \in Tabs /\ sends[r] \in Nat
  BY SessionAssumption DEF TypeOK
<1>3. /\ request[r].pc = "idle" => sends[r] = 0 /\ ~request[r].retry
      /\ request[r].pc = "leading" => request[r].retry
      /\ refreshing[Tab[r]] => sends[r] <= n
      /\ sends[r] <= 1 + n
  BY DEF SendsInv, RetryBounded
<1> HIDE DEF n, m
<1>4. /\ refreshing'[Tab[r]] => sends[r] <= m
      /\ sends[r] <= 1 + m
  BY <1>1, <1>2, <1>3
<1> QED
  BY <1>3, <1>4 DEF m

(* A step of one call that changes its pc only, and neither starts it over *)
(* nor lets it lead.                                                       *)
LEMMA SendsSetPc ==
  ASSUME TypeOK, SendsInv, RetryBounded, UNCHANGED <<sends, refreshing>>,
         NEW r \in Requests, NEW pc \in Pc \ {"idle", "leading"}, SetPc(r, pc)
  PROVE  (SendsInv /\ RetryBounded)'
<1>1. \A q \in Requests : request'[q] = IF q = r THEN [request[r] EXCEPT !.pc = pc]
                                        ELSE request[q]
  BY DEF SetPc, TypeOK
<1>2. [request[r] EXCEPT !.pc = pc].pc = pc
      /\ [request[r] EXCEPT !.pc = pc].retry = request[r].retry
  BY DEF TypeOK, Call
<1> QED
  BY <1>1, <1>2, SendsQuiet

LEMMA RetryStep ==
  TypeOK /\ LeaderInv /\ SendsInv /\ RetryBounded /\ [Next]_vars
    => (SendsInv /\ RetryBounded)'
<1> SUFFICES ASSUME TypeOK, LeaderInv, SendsInv, RetryBounded, [Next]_vars
    PROVE  (SendsInv /\ RetryBounded)'
  OBVIOUS
<1> USE DEF clientVars, callVars
<1>1. ASSUME NEW r \in Requests, Send(r) PROVE (SendsInv /\ RetryBounded)'
  <2>1. \A q \in Requests :
           /\ request'[q] = IF q = r
                THEN [pc |-> "sent", token |-> access, retry |-> FALSE] ELSE request[q]
           /\ sends'[q] = IF q = r THEN sends[r] + 1 ELSE sends[q]
    BY <1>1 DEF Send, TypeOK
  <2>2. sends[r] = 0 /\ ~request[r].retry
    BY <1>1 DEF Send, SendsInv
  <2>3. \A t : Retried(t)' = Retried(t)
    BY <2>1, <2>2 DEF Retried
  <2>4. ASSUME refreshing[Tab[r]] PROVE 1 <= Cardinality(Retried(Tab[r]))
    <3>1. Tab[r] \in Tabs
      BY SessionAssumption
    <3>2. PICK q \in Requests : Tab[q] = Tab[r] /\ request[q].pc = "leading"
      BY <2>4, <3>1 DEF LeaderInv, OneLeader, Leaders
    <3>3. q \in Retried(Tab[r])
      BY <3>2 DEF SendsInv, Retried
    <3> QED
      BY <3>3, RetriedFinite, FS_EmptySet
  <2>5. refreshing' = refreshing
    BY <1>1 DEF Send
  <2>6. SendsInv'
    BY <2>1, <2>2, <2>3, <2>4, <2>5 DEF SendsInv
  <2>7. RetryBounded'
    BY <2>1, <2>2, <2>3, RetriedFinite DEF RetryBounded
  <2> QED
    BY <2>6, <2>7
<1>2. ASSUME NEW r \in Requests,
             Serve(r) \/ Deliver(r) \/ Reject(r) \/ DenyAuthCall(r) \/ Enqueue(r)
      PROVE  (SendsInv /\ RetryBounded)'
  BY <1>2, SendsSetPc DEF Serve, Deliver, Reject, DenyAuthCall, Enqueue, Pc
<1>3. ASSUME NEW r \in Requests, Lead(r) PROVE (SendsInv /\ RetryBounded)'
  <2> DEFINE t == Tab[r]
  <2>1. \A q \in Requests : request'[q] = IF q = r THEN Leading(r) ELSE request[q]
    BY <1>3 DEF Lead, TypeOK
  <2>2. Leading(r).pc = "leading" /\ Leading(r).retry /\ ~request[r].retry
    BY <1>3 DEF Leading, Lead, Refused
  <2>3. Retried(t)' = Retried(t) \cup {r} /\ r \notin Retried(t)
    BY <2>1, <2>2 DEF Retried
  <2>4. \A s : s # t => Retried(s)' = Retried(s)
    BY <2>1, <2>2 DEF Retried
  <2>5. Cardinality(Retried(t)') = Cardinality(Retried(t)) + 1
    BY <2>3, RetriedFinite, FS_AddElement
  <2>6. \A q \in Requests : sends'[q] = sends[q] /\ sends[q] \in Nat
    BY <1>3 DEF Lead, TypeOK
  <2>7. \A s : s # t => refreshing'[s] = refreshing[s]
    BY <1>3 DEF Lead, TypeOK
  <2> SUFFICES ASSUME NEW q \in Requests
      PROVE  /\ request'[q].pc = "idle" => sends'[q] = 0 /\ ~request'[q].retry
             /\ request'[q].pc = "leading" => request'[q].retry
             /\ refreshing'[Tab[q]] => sends'[q] <= Cardinality(Retried(Tab[q])')
             /\ sends'[q] <= 1 + Cardinality(Retried(Tab[q])')
    BY DEF SendsInv, RetryBounded
  <2>8. /\ request'[q].pc = "idle" => sends'[q] = 0 /\ ~request'[q].retry
        /\ request'[q].pc = "leading" => request'[q].retry
    BY <2>1, <2>2, <2>6 DEF SendsInv
  <2>9. CASE Tab[q] = t
    BY <2>5, <2>6, <2>8, <2>9, RetriedFinite DEF RetryBounded
  <2>10. CASE Tab[q] # t
    BY <2>4, <2>6, <2>7, <2>8, <2>10 DEF SendsInv, RetryBounded
  <2> QED
    BY <2>9, <2>10
<1>4. ASSUME NEW r \in Requests, LeadInVain(r) PROVE (SendsInv /\ RetryBounded)'
  <2>1. \A q \in Requests : request'[q] =
           IF q = r THEN [pc |-> "hung", token |-> request[r].token, retry |-> TRUE]
           ELSE request[q]
    BY <1>4 DEF LeadInVain, TypeOK
  <2> QED
    BY <1>4, <2>1, SendsQuiet DEF LeadInVain
<1>5. ASSUME NEW t \in Tabs, ClientRefreshed(t) PROVE (SendsInv /\ RetryBounded)'
  <2>1. \A q \in Requests :
           /\ request'[q] = IF q \in Held(t)
                THEN [pc |-> "sent", token |-> issued + 1, retry |-> request[q].retry]
                ELSE request[q]
           /\ sends'[q] = IF q \in Held(t) THEN sends[q] + 1 ELSE sends[q]
    BY <1>5 DEF ClientRefreshed, Resend
  <2>2. \A q \in Requests :
           /\ request'[q].retry = request[q].retry
           /\ q \in Held(t) => request'[q].pc = "sent"
           /\ q \notin Held(t) => request'[q] = request[q]
    <3> SUFFICES ASSUME NEW q \in Requests
        PROVE  /\ request'[q].retry = request[q].retry
               /\ q \in Held(t) => request'[q].pc = "sent"
               /\ q \notin Held(t) => request'[q] = request[q]
      OBVIOUS
    <3>1. CASE q \in Held(t)
      <4>1. request'[q] = [pc |-> "sent", token |-> issued + 1, retry |-> request[q].retry]
        BY <2>1, <3>1
      <4> QED
        BY <3>1, <4>1
    <3>2. CASE q \notin Held(t)
      BY <2>1, <3>2
    <3> QED
      BY <3>1, <3>2
  <2>3. \A s : Retried(s)' = Retried(s)
    BY <2>2 DEF Retried
  <2>4. refreshing[t] /\ ~refreshing'[t]
    BY <1>5 DEF ClientRefreshed, EndRefreshing, LeaderInv, OneLeader, TypeOK
  <2>5. \A s \in Tabs : s # t => refreshing'[s] = refreshing[s]
    BY <1>5 DEF ClientRefreshed, EndRefreshing, TypeOK
  <2>6. \A q \in Held(t) : q \in Requests /\ Tab[q] = t
    BY DEF Held, Leaders, LeaderInv, QueueExact
  <2> SUFFICES ASSUME NEW q \in Requests
      PROVE  /\ request'[q].pc = "idle" => sends'[q] = 0 /\ ~request'[q].retry
             /\ request'[q].pc = "leading" => request'[q].retry
             /\ refreshing'[Tab[q]] => sends'[q] <= Cardinality(Retried(Tab[q])')
             /\ sends'[q] <= 1 + Cardinality(Retried(Tab[q])')
    BY DEF SendsInv, RetryBounded
  <2>7. sends[q] \in Nat /\ Tab[q] \in Tabs /\ Cardinality(Retried(Tab[q])) \in Nat
    BY SessionAssumption, RetriedFinite DEF TypeOK
  <2>8. CASE q \in Held(t)
    <3>1. sends[q] <= Cardinality(Retried(Tab[q]))
      BY <2>4, <2>6, <2>8 DEF SendsInv
    <3>2. sends'[q] = sends[q] + 1 /\ request'[q].pc = "sent" /\ ~refreshing'[Tab[q]]
      BY <2>1, <2>2, <2>4, <2>6, <2>8
    <3> QED
      BY <2>3, <2>7, <3>1, <3>2
  <2>9. CASE q \notin Held(t)
    <3>1. sends'[q] = sends[q] /\ request'[q] = request[q]
      BY <2>1, <2>2, <2>9
    <3>2. refreshing'[Tab[q]] => refreshing[Tab[q]]
      BY <2>4, <2>5, <2>7
    <3> QED
      BY <2>3, <3>1, <3>2 DEF SendsInv, RetryBounded
  <2> QED
    BY <2>8, <2>9
<1>6. ASSUME NEW t \in Tabs, ClientNotRefreshed(t) PROVE (SendsInv /\ RetryBounded)'
  <2>1. \A q \in Requests : request'[q] \in
           {request[q], [request[q] EXCEPT !.pc = "failed"], [request[q] EXCEPT !.pc = "hung"]}
    BY <1>6 DEF ClientNotRefreshed
  <2>2. \A q \in Requests :
           /\ [request[q] EXCEPT !.pc = "failed"].pc = "failed"
           /\ [request[q] EXCEPT !.pc = "failed"].retry = request[q].retry
           /\ [request[q] EXCEPT !.pc = "hung"].pc = "hung"
           /\ [request[q] EXCEPT !.pc = "hung"].retry = request[q].retry
    BY DEF TypeOK, Call
  <2>3. \A s \in Tabs : refreshing'[s] => refreshing[s]
    BY <1>6 DEF ClientNotRefreshed, EndRefreshing, TypeOK
  <2> QED
    BY <1>6, <2>1, <2>2, <2>3, SendsQuiet DEF ClientNotRefreshed
<1>7. ASSUME NEW t \in Tabs, Load(t) PROVE (SendsInv /\ RetryBounded)'
  <2>1. \A q \in Requests :
           request'[q] \in {request[q], [request[q] EXCEPT !.pc = "dropped"]}
    BY <1>7 DEF Load
  <2>2. \A q \in Requests :
           /\ [request[q] EXCEPT !.pc = "dropped"].pc = "dropped"
           /\ [request[q] EXCEPT !.pc = "dropped"].retry = request[q].retry
    BY DEF TypeOK, Call
  <2>3. \A s \in Tabs : refreshing'[s] => refreshing[s]
    BY <1>7 DEF Load, TypeOK
  <2> QED
    BY <1>7, <2>1, <2>2, <2>3, SendsQuiet DEF Load
<1>8. ASSUME UNCHANGED <<refreshing, request, sends>> PROVE (SendsInv /\ RetryBounded)'
  BY <1>8, SendsQuiet
<1>9. ASSUME NEW t \in Tabs, NEW c \in Callers,
             \/ AskCognito(t, c) \/ SessionValidated(t) \/ SessionNotValidated(t)
             \/ Validate(t) \/ LoggedIn(t) \/ LoginDenied(t) \/ Logout(t)
      PROVE  (SendsInv /\ RetryBounded)'
  BY <1>8, <1>9 DEF AskCognito, SessionValidated, SessionNotValidated, Validate, LoggedIn,
     LoginDenied, Logout
<1>10. ASSUME NEW t \in Tabs, NEW u \in Users, Login(t, u) PROVE (SendsInv /\ RetryBounded)'
  BY <1>8, <1>10 DEF Login
<1>11. ASSUME NEW k \in Tokens, Expire(k) PROVE (SendsInv /\ RetryBounded)'
  BY <1>8, <1>11 DEF Expire
<1>12. CASE UNCHANGED vars
  BY <1>8, <1>12 DEF vars
<1> QED
  BY <1>1, <1>2, <1>3, <1>4, <1>5, <1>6, <1>7, <1>9, <1>10, <1>11, <1>12
     DEF Next, Receive, ClientRefresh, Validation, Callers

(* A 401 never becomes an endless loop of refreshes: a call goes out at    *)
(* most once more than there are calls of its tab that led a refresh.      *)
THEOREM RetriesBounded == Spec => []RetryBounded
<1>1. Init => SendsInv /\ RetryBounded
  <2> SUFFICES ASSUME Init, NEW r \in Requests
      PROVE  /\ sends[r] = 0 /\ ~request[r].retry /\ request[r].pc = "idle"
             /\ ~refreshing[Tab[r]]
             /\ 0 <= 1 + Cardinality(Retried(Tab[r]))
    BY DEF Init, SendsInv, RetryBounded
  <2> QED
    BY SessionAssumption, RetriedFinite DEF Init
<1> QED
  BY <1>1, RetryStep, LeaderInvariant, TypeCorrect, PTL DEF Spec

-----------------------------------------------------------------------------
(* What one step may do to each part of the state, whoever takes it.       *)

(* localStorage is cleared, gets a token of a refresh, or that of a login. *)
StorageStep ==
  \/ UNCHANGED <<access, refresh, issued, owner>>
  \/ ClearStorage /\ UNCHANGED <<issued, owner>>
  \/ /\ \E t \in Tabs, c \in Callers : Asked(t, c) /\ Issue(flow[t][c].user)
     /\ UNCHANGED refresh
  \/ \E t \in Tabs, u \in Users : Login(t, u)

ProfileStep ==
  \/ profile' \in {profile, NoUser}
  \/ \E t \in Tabs : page[t].login # 0 /\ profile' = owner[page[t].login]

(* A refresh is asked for with the refresh token of the moment.            *)
FlowStep ==
  \A t \in Tabs, c \in Callers : Asked(t, c)' =>
    \/ flow'[t][c] = flow[t][c]
    \/ /\ refresh # NoUser
       /\ flow'[t][c].user = refresh
       /\ UNCHANGED <<storage, tokenVars>>

(* A page's account comes from its login or from localStorage, its data    *)
(* from an answered call.                                                  *)
PageStep ==
  \A t \in Tabs :
    /\ \/ page'[t].account \in {page[t].account, NoUser}
       \/ access # 0 /\ page'[t].account = profile
       \/ page[t].login # 0 /\ page'[t].account = owner[page[t].login]
    /\ \/ page'[t].login \in {page[t].login, 0}
       \/ page'[t].login = issued + 1 /\ \E u \in Users : Login(t, u)
    /\ \A v \in page'[t].shown : v \in page[t].shown
         \/ \E r \in Requests : request[r].pc = "granted" /\ owner[request[r].token] = v
    /\ page[t].leaving => page'[t].leaving \/ Load(t)

(* A call goes out with the token of the moment, or with a refreshed one.  *)
RequestStep ==
  \A r \in Requests :
    /\ request'[r].pc \in InFlight =>
         \/ request[r].pc \in InFlight /\ request'[r].token = request[r].token
         \/ /\ page[Tab[r]].account # NoUser
            /\ request'[r].token = access
            /\ UNCHANGED <<storage, tokenVars>>
         \/ /\ \E t \in Tabs : Asked(t, "client") /\ Issue(flow[t]["client"].user)
            /\ request'[r].token = issued + 1
    /\ request'[r].pc = "granted" =>
         \/ request[r].pc = "granted" /\ request'[r].token = request[r].token
         \/ request'[r].token \in valid
    /\ request'[r].pc = "hung" =>
         \/ request[r].pc = "hung" /\ (page[Tab[r]].leaving => page'[Tab[r]].leaving)
         \/ page'[Tab[r]].leaving
         \/ refresh = NoUser /\ request[r].pc = "denied" /\ UNCHANGED page

Table == StorageStep /\ ProfileStep /\ FlowStep /\ PageStep /\ RequestStep

LEMMA QuietTable ==
  /\ UNCHANGED <<storage, tokenVars>> => StorageStep /\ ProfileStep
  /\ UNCHANGED flow => FlowStep
  /\ UNCHANGED page => PageStep
BY DEF StorageStep, ProfileStep, FlowStep, PageStep, Asked, storage, tokenVars

(* A step that changes the pc of one call only.                            *)
LEMMA SetPcTable ==
  ASSUME TypeOK, NEW r \in Requests, NEW pc \in Pc, SetPc(r, pc),
         \A t \in Tabs : page[t].leaving => page'[t].leaving,
         pc \in InFlight => request[r].pc \in InFlight,
         pc = "granted" => request[r].token \in valid,
         pc = "hung" => \/ page'[Tab[r]].leaving
                        \/ refresh = NoUser /\ request[r].pc = "denied" /\ UNCHANGED page
  PROVE  RequestStep
<1>1. /\ request'[r].pc = pc
      /\ request'[r].token = request[r].token
      /\ \A s \in Requests : s # r => request'[s] = request[s]
  BY DEF SetPc, TypeOK, Call
<1>2. \A s \in Requests : Tab[s] \in Tabs
  BY SessionAssumption
<1> QED
  BY <1>1, <1>2 DEF RequestStep

(* The page of one tab changes.                                            *)
LEMMA PageTable ==
  ASSUME TypeOK, NEW t \in Tabs, NEW p \in Page, page' = [page EXCEPT ![t] = p],
         \/ p.account \in {page[t].account, NoUser}
         \/ access # 0 /\ p.account = profile
         \/ page[t].login # 0 /\ p.account = owner[page[t].login],
         \/ p.login \in {page[t].login, 0}
         \/ p.login = issued + 1 /\ \E u \in Users : Login(t, u),
         \A v \in p.shown : v \in page[t].shown
           \/ \E r \in Requests : request[r].pc = "granted" /\ owner[request[r].token] = v,
         page[t].leaving => p.leaving \/ Load(t)
  PROVE  PageStep
<1>1. \A s \in Tabs : page'[s] = IF s = t THEN p ELSE page[s]
  BY DEF TypeOK
<1> QED
  BY <1>1 DEF PageStep

LEMMA CallTable ==
  ASSUME TypeOK, NEW r \in Requests, Send(r) \/ Serve(r) \/ Receive(r)
  PROVE  Table
<1> USE DEF TypeOK, storage, tokenVars, clientVars, callVars
<1>0. /\ Tab[r] \in Tabs /\ request[r] \in Call /\ page[Tab[r]] \in Page
      /\ \A s \in Requests : Tab[s] \in Tabs
  BY SessionAssumption
<1>1. CASE Send(r)
  <2>1. \A s \in Requests : request'[s] =
          IF s = r THEN [pc |-> "sent", token |-> access, retry |-> FALSE] ELSE request[s]
    BY <1>1 DEF Send
  <2>2. RequestStep
    BY <1>0, <1>1, <2>1 DEF Send, RequestStep
  <2> QED
    BY <1>1, <2>2, QuietTable DEF Send, Table
<1>2. CASE Serve(r)
  <2>1. PICK pc \in {"granted", "denied", "error"} :
          SetPc(r, pc) /\ (pc = "granted" => request[r].token \in valid)
    BY <1>2 DEF Serve
  <2>2. RequestStep
    BY <1>2, <2>1, SetPcTable DEF Serve, Pc, InFlight
  <2> QED
    BY <1>2, <2>2, QuietTable DEF Serve, Table
<1>3. CASE Deliver(r)
  <2>1. RequestStep
    <3>1. \A t \in Tabs : page[t].leaving => page'[t].leaving
      BY <1>0, <1>3 DEF Deliver, Page
    <3> QED
      BY <1>3, <3>1, SetPcTable DEF Deliver, Pc, InFlight
  <2>2. PageStep
    <3> DEFINE p == [page[Tab[r]] EXCEPT !.shown = @ \cup {owner[request[r].token]}]
    <3>1. p \in Page
      BY <1>0, PageType DEF Call
    <3>2. page' = [page EXCEPT ![Tab[r]] = p]
      BY <1>0, <1>3 DEF Deliver
    <3>3. /\ p.account = page[Tab[r]].account /\ p.login = page[Tab[r]].login
          /\ p.leaving = page[Tab[r]].leaving
          /\ p.shown = page[Tab[r]].shown \cup {owner[request[r].token]}
      BY <1>0 DEF Page
    <3>4. request[r].pc = "granted"
      BY <1>3 DEF Deliver
    <3> HIDE DEF p
    <3>5. \A v \in p.shown : v \in page[Tab[r]].shown
            \/ \E q \in Requests : request[q].pc = "granted" /\ owner[request[q].token] = v
      BY <3>3, <3>4
    <3>6. /\ p.account \in {page[Tab[r]].account, NoUser}
          /\ p.login \in {page[Tab[r]].login, 0}
          /\ page[Tab[r]].leaving => p.leaving
      BY <3>3
    <3> QED
      BY <1>0, <3>1, <3>2, <3>5, <3>6, PageTable
  <2> QED
    BY <1>3, <2>1, <2>2, QuietTable DEF Deliver, Table
<1>4. CASE Reject(r)
  <2>1. RequestStep
    BY <1>4, SetPcTable DEF Reject, Pc, InFlight
  <2> QED
    BY <1>4, <2>1, QuietTable DEF Reject, Table
<1>5. CASE DenyAuthCall(r)
  <2>1. \A t \in Tabs : page'[t] = IF t = Tab[r] THEN [page[t] EXCEPT !.leaving = TRUE] ELSE page[t]
    BY <1>0, <1>5 DEF DenyAuthCall
  <2>2. \A t \in Tabs : page'[t].leaving = IF t = Tab[r] THEN TRUE ELSE page[t].leaving
    BY <1>0, <2>1 DEF Page
  <2>3. RequestStep
    BY <1>0, <1>5, <2>2, SetPcTable DEF DenyAuthCall, Pc, InFlight
  <2>4. PageStep
    <3> DEFINE p == [page[Tab[r]] EXCEPT !.leaving = TRUE]
    <3>1. p \in Page
      BY <1>0, PageType
    <3>2. page' = [page EXCEPT ![Tab[r]] = p]
      BY <1>0, <1>5 DEF DenyAuthCall
    <3>3. /\ p.account = page[Tab[r]].account /\ p.login = page[Tab[r]].login
          /\ p.leaving /\ p.shown = page[Tab[r]].shown
      BY <1>0 DEF Page
    <3> HIDE DEF p
    <3> QED
      BY <1>0, <3>1, <3>2, <3>3, PageTable
  <2>5. StorageStep /\ ProfileStep
    BY <1>5 DEF DenyAuthCall, StorageStep, ProfileStep, ClearStorage
  <2> QED
    BY <1>5, <2>3, <2>4, <2>5, QuietTable DEF DenyAuthCall, Table
<1>6. CASE Enqueue(r)
  <2>1. RequestStep
    BY <1>6, SetPcTable DEF Enqueue, Refused, Pc, InFlight
  <2> QED
    BY <1>6, <2>1, QuietTable DEF Enqueue, Table
<1>7. CASE Lead(r)
  <2>1. \A s \in Requests : request'[s] = IF s = r THEN Leading(r) ELSE request[s]
    BY <1>7 DEF Lead
  <2>2. RequestStep
    BY <1>0, <1>7, <2>1 DEF Lead, Refused, Leading, RequestStep, InFlight
  <2>3. FlowStep
    BY <1>0, <1>7 DEF Lead, FlowStep, Asked, Callers
  <2> QED
    BY <1>7, <2>2, <2>3, QuietTable DEF Lead, Table
<1>8. CASE LeadInVain(r)
  <2>1. \A s \in Requests : request'[s] =
          IF s = r THEN [pc |-> "hung", token |-> request[r].token, retry |-> TRUE] ELSE request[s]
    BY <1>8 DEF LeadInVain
  <2>2. RequestStep
    BY <1>0, <1>8, <2>1 DEF LeadInVain, Refused, RequestStep, InFlight
  <2> QED
    BY <1>8, <2>2, QuietTable DEF LeadInVain, Table
<1> QED
  BY <1>1, <1>2, <1>3, <1>4, <1>5, <1>6, <1>7, <1>8 DEF Receive

(* A refresh or a validation changes one flow.                             *)
LEMMA SetFlowTable ==
  ASSUME TypeOK, NEW t \in Tabs, NEW c \in Callers, NEW f \in Flow, SetFlow(t, c, f),
         f.step = "asked" => /\ refresh # NoUser /\ f.user = refresh
                             /\ UNCHANGED <<storage, tokenVars>>
  PROVE  FlowStep
BY DEF SetFlow, FlowStep, Asked, TypeOK

LEMMA SameCalls ==
  ASSUME UNCHANGED request, \A t \in Tabs : page[t].leaving => page'[t].leaving
  PROVE  RequestStep
BY SessionAssumption DEF RequestStep

LEMMA RefreshTable ==
  ASSUME TypeOK, NEW t \in Tabs, ClientRefresh(t) \/ Validation(t)
  PROVE  Table
<1> USE DEF TypeOK, storage, tokenVars, clientVars, callVars
<1>0. page[t] \in Page /\ "client" \in Callers /\ "start" \in Callers
      /\ (\A r \in Requests : request[r] \in Call)
  BY DEF Callers
<1>1. ASSUME NEW c \in Callers, AskCognito(t, c) PROVE Table
  <2>1. FlowStep
    BY <1>1, FlowValues, SetFlowTable DEF AskCognito, MaybeUser
  <2> QED
    BY <1>1, <2>1, QuietTable, SameCalls DEF AskCognito, Table
<1>2. CASE ClientRefreshed(t)
  <2>1. FlowStep
    BY <1>0, <1>2, FlowValues, SetFlowTable DEF ClientRefreshed, NoFlow
  <2>2. StorageStep /\ ProfileStep
    BY <1>0, <1>2 DEF ClientRefreshed, StorageStep, ProfileStep, Asked
  <2>3. \A r \in Requests :
          \/ request'[r].pc = "sent" /\ request'[r].token = issued + 1
          \/ request'[r] = request[r]
    BY <1>2 DEF ClientRefreshed, Resend
  <2>4. RequestStep
    BY <1>2, <2>3 DEF ClientRefreshed, RequestStep, Asked
  <2> QED
    BY <1>2, <2>1, <2>2, <2>4, QuietTable DEF ClientRefreshed, Table
<1>3. CASE ClientNotRefreshed(t)
  <2>1. FlowStep
    BY <1>0, <1>3, FlowValues, SetFlowTable DEF ClientNotRefreshed, NoFlow
  <2>2. StorageStep /\ ProfileStep
    BY <1>3 DEF ClientNotRefreshed, StorageStep, ProfileStep, ClearStorage
  <2>3. \A s \in Tabs : page'[s].leaving = IF s = t THEN TRUE ELSE page[s].leaving
    BY <1>0, <1>3 DEF ClientNotRefreshed, Page
  <2>4. \A r \in Requests :
          \/ request'[r].pc = "failed"
          \/ request'[r].pc = "hung" /\ Tab[r] = t
          \/ request'[r] = request[r]
    BY <1>0, <1>3 DEF ClientNotRefreshed, Call, Leaders
  <2>5. RequestStep
    BY <1>0, <2>3, <2>4, SessionAssumption DEF RequestStep, InFlight
  <2>6. PageStep
    <3> DEFINE p == [page[t] EXCEPT !.leaving = TRUE]
    <3>1. p \in Page
      BY <1>0, PageType
    <3>2. page' = [page EXCEPT ![t] = p]
      BY <1>0, <1>3 DEF ClientNotRefreshed
    <3>3. /\ p.account = page[t].account /\ p.login = page[t].login
          /\ p.leaving /\ p.shown = page[t].shown
      BY <1>0 DEF Page
    <3> HIDE DEF p
    <3> QED
      BY <1>0, <3>1, <3>2, <3>3, PageTable
  <2> QED
    BY <2>1, <2>2, <2>5, <2>6 DEF Table
<1>4. CASE SessionValidated(t)
  <2>1. FlowStep
    BY <1>0, <1>4, FlowValues, SetFlowTable DEF SessionValidated, NoFlow
  <2>2. StorageStep /\ ProfileStep
    BY <1>0, <1>4 DEF SessionValidated, StorageStep, ProfileStep, Asked
  <2>3. \A s \in Tabs : page'[s].leaving = page[s].leaving
    BY <1>0, <1>4 DEF SessionValidated, Page
  <2>4. RequestStep
    BY <1>4, <2>3, SameCalls DEF SessionValidated
  <2>5. PageStep
    <3> DEFINE p == [page[t] EXCEPT !.validated = TRUE]
    <3>1. p \in Page
      BY <1>0, PageType
    <3>2. page' = [page EXCEPT ![t] = p]
      BY <1>0, <1>4 DEF SessionValidated
    <3>3. /\ p.account = page[t].account /\ p.login = page[t].login
          /\ p.leaving = page[t].leaving /\ p.shown = page[t].shown
      BY <1>0 DEF Page
    <3> HIDE DEF p
    <3> QED
      BY <1>0, <3>1, <3>2, <3>3, PageTable
  <2> QED
    BY <2>1, <2>2, <2>4, <2>5 DEF Table
<1>5. CASE SessionNotValidated(t)
  <2>1. FlowStep
    BY <1>0, <1>5, FlowValues, SetFlowTable DEF SessionNotValidated, NoFlow
  <2>2. StorageStep /\ ProfileStep
    BY <1>5 DEF SessionNotValidated, StorageStep, ProfileStep, ClearStorage
  <2> DEFINE p == [account |-> NoUser, validated |-> TRUE, leaving |-> page[t].leaving,
                   login |-> page[t].login, shown |-> page[t].shown]
  <2>3. p \in Page
    BY <1>0 DEF Page, MaybeUser
  <2>4. page' = [page EXCEPT ![t] = p]
    BY <1>5 DEF SessionNotValidated
  <2>5. /\ p.account = NoUser /\ p.login = page[t].login
        /\ p.leaving = page[t].leaving /\ p.shown = page[t].shown
    OBVIOUS
  <2> HIDE DEF p
  <2>6. PageStep
    BY <1>0, <2>3, <2>4, <2>5, PageTable
  <2>7. \A s \in Tabs : page[s].leaving => page'[s].leaving
    BY <2>4, <2>5
  <2>8. RequestStep
    BY <1>5, <2>7, SameCalls DEF SessionNotValidated
  <2> QED
    BY <2>1, <2>2, <2>6, <2>8 DEF Table
<1> QED
  BY <1>0, <1>1, <1>2, <1>3, <1>4, <1>5 DEF ClientRefresh, Validation

LEMMA LoginTable ==
  ASSUME TypeOK, NEW t \in Tabs, LoggedIn(t) \/ LoginDenied(t) \/ Logout(t) \/ \E u \in Users : Login(t, u)
  PROVE  Table
<1> USE DEF TypeOK, storage, tokenVars, clientVars, callVars
<1>0. page[t] \in Page /\ issued + 1 # 0 /\ 0 \in Tokens /\ issued \in Nat
  BY SessionAssumption DEF Tokens
<1>1. ASSUME NEW p \in Page, page' = [page EXCEPT ![t] = p], UNCHANGED <<request, flow>>,
             page[t].leaving => p.leaving
      PROVE  RequestStep /\ FlowStep
  BY <1>1, SameCalls, QuietTable
<1>2. ASSUME NEW u \in Users, Login(t, u) PROVE Table
  <2> DEFINE p == [page[t] EXCEPT !.login = issued + 1]
  <2>1. p \in Page
    <3>1. issued + 1 \in Tokens
      BY <1>2, IssueType DEF Login
    <3> QED
      BY <1>0, <3>1, PageType
  <2>2. page' = [page EXCEPT ![t] = p]
    BY <1>0, <1>2 DEF Login
  <2>3. /\ p.account = page[t].account /\ p.login = issued + 1
        /\ p.leaving = page[t].leaving /\ p.shown = page[t].shown
    BY <1>0 DEF Page
  <2> HIDE DEF p
  <2>4. PageStep
    BY <1>0, <1>2, <2>1, <2>2, <2>3, PageTable
  <2>5. StorageStep /\ ProfileStep
    BY <1>2 DEF StorageStep, ProfileStep, Login
  <2> QED
    BY <1>1, <1>2, <2>1, <2>2, <2>3, <2>4, <2>5 DEF Table, Login
<1>3. CASE LoggedIn(t)
  <2> DEFINE p == [account |-> owner[page[t].login], validated |-> TRUE,
                   leaving |-> page[t].leaving, login |-> 0, shown |-> page[t].shown]
  <2>1. p \in Page
    BY <1>0 DEF Page
  <2>2. page' = [page EXCEPT ![t] = p]
    BY <1>3 DEF LoggedIn
  <2>3. /\ p.account = owner[page[t].login] /\ p.login = 0
        /\ p.leaving = page[t].leaving /\ p.shown = page[t].shown
    OBVIOUS
  <2> HIDE DEF p
  <2>4. PageStep
    BY <1>0, <1>3, <2>1, <2>2, <2>3, PageTable DEF LoggedIn
  <2>5. StorageStep /\ ProfileStep
    BY <1>3 DEF StorageStep, ProfileStep, LoggedIn
  <2> QED
    BY <1>1, <1>3, <2>1, <2>2, <2>3, <2>4, <2>5 DEF Table, LoggedIn
<1>4. CASE LoginDenied(t)
  <2> DEFINE p == [account |-> page[t].account, validated |-> page[t].validated,
                   leaving |-> TRUE, login |-> 0, shown |-> page[t].shown]
  <2>1. p \in Page
    BY <1>0 DEF Page
  <2>2. page' = [page EXCEPT ![t] = p]
    BY <1>4 DEF LoginDenied
  <2>3. /\ p.account = page[t].account /\ p.login = 0
        /\ p.leaving /\ p.shown = page[t].shown
    OBVIOUS
  <2> HIDE DEF p
  <2>4. PageStep
    BY <1>0, <2>1, <2>2, <2>3, PageTable
  <2>5. StorageStep /\ ProfileStep
    BY <1>4 DEF StorageStep, ProfileStep, LoginDenied, ClearStorage
  <2> QED
    BY <1>1, <1>4, <2>1, <2>2, <2>3, <2>4, <2>5 DEF Table, LoginDenied
<1>5. CASE Logout(t)
  <2> DEFINE p == [account |-> NoUser, validated |-> FALSE, leaving |-> page[t].leaving,
                   login |-> page[t].login, shown |-> {}]
  <2>1. p \in Page
    BY <1>0 DEF Page, MaybeUser
  <2>2. page' = [page EXCEPT ![t] = p]
    BY <1>5 DEF Logout
  <2>3. /\ p.account = NoUser /\ p.login = page[t].login
        /\ p.leaving = page[t].leaving /\ p.shown = {}
    OBVIOUS
  <2> HIDE DEF p
  <2>4. PageStep
    BY <1>0, <2>1, <2>2, <2>3, PageTable
  <2>5. StorageStep /\ ProfileStep
    BY <1>5 DEF StorageStep, ProfileStep, Logout, ClearStorage
  <2> QED
    BY <1>1, <1>5, <2>1, <2>2, <2>3, <2>4, <2>5 DEF Table, Logout
<1> QED
  BY <1>2, <1>3, <1>4, <1>5

LEMMA LoadTable ==
  ASSUME TypeOK, NEW t \in Tabs, Load(t)
  PROVE  /\ Table
         /\ page'[t].account = (IF access # 0 THEN profile ELSE NoUser)
         /\ page'[t].login = 0
         /\ \A r \in Requests : Tab[r] = t => request'[r].pc \notin InFlight \cup {"hung"}
<1> USE DEF TypeOK
<1> DEFINE p == [NewPage EXCEPT !.account = IF access # 0 THEN profile ELSE NoUser]
<1>0. NewPage \in Page
  BY SessionAssumption DEF NewPage, Page, Tokens, MaybeUser
<1>1. p \in Page
  <2>1. (IF access # 0 THEN profile ELSE NoUser) \in MaybeUser
    BY DEF MaybeUser
  <2> QED
    BY <1>0, <2>1, PageType
<1>2. page' = [page EXCEPT ![t] = p]
  BY DEF Load
<1>3. /\ p.account = (IF access # 0 THEN profile ELSE NoUser) /\ p.login = 0 /\ p.shown = {}
  BY DEF NewPage
<1> HIDE DEF p
<1>4. PageStep
  BY <1>1, <1>2, <1>3, PageTable
<1>5. FlowStep
  BY DEF Load, FlowStep, Asked, NoFlow
<1>6. \A r \in Requests :
        IF Tab[r] = t /\ request[r].pc \in InFlight \cup {"hung"}
        THEN request'[r].pc = "dropped" ELSE request'[r] = request[r]
  BY DEF Load, Call
<1>7. \A r \in Requests : Tab[r] = t => request'[r].pc \notin InFlight \cup {"hung"}
  BY <1>6 DEF InFlight
<1>8. RequestStep
  <2>1. \A s \in Tabs : s # t => page'[s] = page[s]
    BY <1>2
  <2> QED
    BY <1>6, <1>7, <2>1, SessionAssumption DEF RequestStep, InFlight
<1>9. StorageStep /\ ProfileStep
  BY QuietTable DEF Load
<1>10. page'[t] = p
  BY <1>1, <1>2
<1> QED
  BY <1>3, <1>4, <1>5, <1>7, <1>8, <1>9, <1>10 DEF Table

LEMMA StepTable ==
  ASSUME TypeOK, [Next]_vars
  PROVE  Table
<1>1. ASSUME NEW t \in Tabs, Validate(t) PROVE Table
  <2>1. FlowStep
    BY <1>1, FlowValues, SetFlowTable DEF Validate, Callers
  <2> QED
    BY <1>1, <2>1, QuietTable, SameCalls DEF Validate, Table, storage, tokenVars, callVars
<1>2. ASSUME NEW k \in Tokens, Expire(k) PROVE Table
  <2>1. StorageStep /\ ProfileStep
    BY <1>2 DEF Expire, StorageStep, ProfileStep, storage
  <2> QED
    BY <1>2, <2>1, QuietTable, SameCalls DEF Expire, Table, clientVars, callVars
<1>3. CASE UNCHANGED vars
  BY <1>3, QuietTable, SameCalls DEF vars, Table, storage, tokenVars, clientVars, callVars
<1> QED
  BY <1>1, <1>2, <1>3, CallTable, RefreshTable, LoginTable, LoadTable DEF Next

-----------------------------------------------------------------------------
(* Where the two tokens of localStorage come from: only a login changes    *)
(* the user, and only the end of a session takes a token away.             *)

(* A refresh and a login give the new token to a user.                     *)
LEMMA OwnerTable ==
  ASSUME TypeOK, Table
  PROVE  /\ issued' \in {issued, issued + 1}
         /\ \A k \in Tokens : owner'[k] # owner[k] =>
              /\ k = issued + 1 /\ issued' = k
              /\ \/ \E t \in Tabs, c \in Callers : Asked(t, c) /\ owner'[k] = flow[t][c].user
                 \/ \E t \in Tabs, u \in Users : Login(t, u) /\ owner'[k] = u
<1>1. CASE UNCHANGED <<access, refresh, issued, owner>>
  BY <1>1
<1>2. CASE ClearStorage /\ UNCHANGED <<issued, owner>>
  BY <1>2
<1>3. ASSUME NEW t \in Tabs, NEW c \in Callers, Asked(t, c), Issue(flow[t][c].user)
      PROVE  /\ issued' = issued + 1
             /\ \A k \in Tokens : owner'[k] # owner[k] =>
                  k = issued + 1 /\ owner'[k] = flow[t][c].user
  BY <1>3 DEF Issue, TypeOK
<1>4. ASSUME NEW t \in Tabs, NEW u \in Users, Login(t, u)
      PROVE  /\ issued' = issued + 1
             /\ \A k \in Tokens : owner'[k] # owner[k] => k = issued + 1 /\ owner'[k] = u
  BY <1>4 DEF Login, Issue, TypeOK
<1> QED
  BY <1>1, <1>2, <1>3, <1>4 DEF Table, StorageStep

LEMMA IssueOwner ==
  ASSUME TypeOK, NEW u, Issue(u)
  PROVE  access' # 0 /\ owner'[access'] = u
<1>1. issued \in Nat /\ issued + 1 \in Tokens
  BY SessionAssumption DEF TypeOK, Issue, Tokens
<1> QED
  BY <1>1 DEF Issue, TypeOK

(* The two tokens of localStorage belong to one user as long as nobody     *)
(* logs in while a refresh of another user is at Cognito                   *)
(* (CognitoAuthService.refreshToken stores what it gets).                  *)
THEOREM SessionOfOneUserCorrect == Spec /\ LoginAfterRefreshes => []SessionOfOneUser
<1> DEFINE After ==
      \A t \in Tabs, u \in Users : Login(t, u) =>
        \A s \in Tabs, c \in Callers : Asked(s, c) => flow[s][c].user = u
<1>1. Init => OneUserInv
  BY DEF Init, OneUserInv
<1>2. TypeOK /\ OneUserInv /\ [Next]_vars /\ [After]_vars => OneUserInv'
  <2> SUFFICES ASSUME TypeOK, OneUserInv, [Next]_vars, [After]_vars, refresh' # NoUser
               PROVE  /\ access' # 0 => owner'[access'] = refresh'
                      /\ \A t \in Tabs, c \in Callers : Asked(t, c)' => flow'[t][c].user = refresh'
    BY DEF OneUserInv
  <2>0. Table
    BY StepTable
  <2>1. CASE UNCHANGED <<access, refresh, issued, owner>>
    BY <2>0, <2>1 DEF Table, FlowStep, OneUserInv, Asked
  <2>2. CASE ClearStorage
    BY <2>2 DEF ClearStorage
  <2>3. ASSUME NEW t \in Tabs, NEW c \in Callers, Asked(t, c), Issue(flow[t][c].user),
               UNCHANGED refresh
        PROVE  /\ access' # 0 => owner'[access'] = refresh'
               /\ \A s \in Tabs, b \in Callers : Asked(s, b)' => flow'[s][b].user = refresh'
    <3>1. flow[t][c].user = refresh
      BY <2>3 DEF OneUserInv
    <3> QED
      BY <2>0, <2>3, <3>1, IssueOwner DEF Table, FlowStep, OneUserInv, Asked
  <2>4. ASSUME NEW t \in Tabs, NEW u \in Users, Login(t, u)
        PROVE  /\ access' # 0 => owner'[access'] = refresh'
               /\ \A s \in Tabs, b \in Callers : Asked(s, b)' => flow'[s][b].user = refresh'
    <3>1. Issue(u) /\ refresh' = u /\ UNCHANGED flow
      BY <2>4 DEF Login, clientVars
    <3>2. access' # 0 /\ owner'[access'] = u
      BY <3>1, IssueOwner
    <3>3. ~UNCHANGED vars
      BY <3>1 DEF Issue, TypeOK, Tokens, vars, tokenVars
    <3> QED
      BY <2>4, <3>1, <3>2, <3>3 DEF Asked
  <2> QED
    BY <2>0, <2>1, <2>2, <2>3, <2>4 DEF Table, StorageStep
<1>3. OneUserInv => SessionOfOneUser
  BY DEF OneUserInv, SessionOfOneUser
<1>4. LoginAfterRefreshes <=> [][After]_vars
  BY DEF LoginAfterRefreshes
<1> HIDE DEF After
<1> QED
  BY <1>1, <1>2, <1>3, <1>4, TypeCorrect, PTL DEF Spec

-----------------------------------------------------------------------------
(* Nobody appears in the browser but by a login.                           *)
LEMMA PresentStep ==
  ASSUME TypeOK, PresentInv, [Next]_vars, NEW v \in Users, Present(v)'
  PROVE  Present(v) \/ \E t \in Tabs : Login(t, v)
<1>0. Table /\ NoUser \notin Users /\ issued \in Nat
  BY StepTable, SessionAssumption DEF TypeOK, Tokens
<1>1. ASSUME NEW k \in Tokens, owner'[k] = v, owner[k] # v
      PROVE  Present(v) \/ \E t \in Tabs : Login(t, v)
  BY <1>0, <1>1, OwnerTable DEF Present
<1>2. CASE v \in {refresh', profile'}
  <2>1. CASE v = refresh'
    BY <1>0, <2>1 DEF Table, StorageStep, ClearStorage, Present, Login
  <2>2. CASE v = profile'
    BY <1>0, <2>2 DEF Table, ProfileStep, Present
  <2> QED
    BY <1>2, <2>1, <2>2
<1>3. CASE access' # 0 /\ owner'[access'] = v
  <2>1. access' \in Tokens
    BY TypeStays, SessionAssumption DEF TypeOK, Tokens
  <2>2. CASE access' = access
    BY <1>1, <1>3, <2>1, <2>2 DEF Present
  <2>3. ASSUME NEW t \in Tabs, NEW c \in Callers, Issue(flow[t][c].user) PROVE Present(v)
    BY <1>3, <2>3, IssueOwner DEF Present
  <2>4. ASSUME NEW t \in Tabs, NEW u \in Users, Login(t, u) PROVE Login(t, v)
    <3>1. u = v
      BY <1>3, <2>4, IssueOwner DEF Login
    <3> QED
      BY <2>4, <3>1
  <2> QED
    BY <1>0, <1>3, <2>2, <2>3, <2>4 DEF Table, StorageStep, ClearStorage
<1>4. ASSUME NEW t \in Tabs,
             \/ page'[t].account = v
             \/ v \in page'[t].shown
             \/ page'[t].login # 0 /\ owner'[page'[t].login] = v
      PROVE  Present(v) \/ \E s \in Tabs : Login(s, v)
  <2>1. CASE page'[t].account = v
    BY <1>0, <2>1 DEF Table, PageStep, Present
  <2>2. CASE v \in page'[t].shown
    BY <1>0, <2>2 DEF Table, PageStep, Present, InFlight
  <2>3. CASE page'[t].login # 0 /\ owner'[page'[t].login] = v
    <3>1. page'[t].login \in Tokens
      BY TypeStays DEF TypeOK, Page
    <3>2. CASE page'[t].login = page[t].login
      BY <1>1, <2>3, <3>1, <3>2 DEF Present
    <3>3. ASSUME NEW u \in Users, NEW s \in Tabs, Login(s, u), page'[t].login = issued + 1
          PROVE  Login(s, v)
      <4>1. Issue(u) /\ access' = issued + 1
        BY <3>3 DEF Login, Issue
      <4>2. u = v
        BY <2>3, <3>3, <4>1, IssueOwner
      <4> QED
        BY <3>3, <4>2
    <3>4. ASSUME NEW u \in Users, Login(t, u), page'[t].login = issued + 1
          PROVE  Login(t, v)
      BY <3>3, <3>4
    <3> QED
      BY <1>0, <2>3, <3>2, <3>4 DEF Table, PageStep
  <2> QED
    BY <1>4, <2>1, <2>2, <2>3
<1>5. ASSUME NEW t \in Tabs, NEW c \in Callers, flow'[t][c].user = v
      PROVE  Present(v)
  <2>1. flow'[t][c] \in Flow
    BY TypeStays DEF TypeOK
  <2>2. Asked(t, c)'
    BY <1>0, <1>5, <2>1 DEF Flow, Asked
  <2> QED
    BY <1>0, <1>5, <2>2 DEF Table, FlowStep, Present
<1>6. ASSUME NEW r \in Requests, request'[r].pc \in InFlight, owner'[request'[r].token] = v
      PROVE  Present(v) \/ \E t \in Tabs : Login(t, v)
  <2>1. request'[r].token \in Tokens
    BY TypeStays DEF TypeOK, Call
  <2>2. CASE request[r].pc \in InFlight /\ request'[r].token = request[r].token
    BY <1>1, <1>6, <2>1, <2>2 DEF Present
  <2>3. CASE request'[r].token = access /\ UNCHANGED <<storage, tokenVars>>
    BY <1>0, <1>6, <2>3 DEF Present, PresentInv, tokenVars
  <2>4. ASSUME NEW t \in Tabs, Issue(flow[t]["client"].user), request'[r].token = issued + 1
        PROVE  Present(v)
    <3>1. access' = issued + 1
      BY <2>4 DEF Issue
    <3>2. flow[t]["client"].user = v
      BY <1>6, <2>4, <3>1, IssueOwner
    <3> QED
      BY <3>2 DEF Present, Callers
  <2> QED
    BY <1>0, <1>6, <2>2, <2>3, <2>4 DEF Table, RequestStep
<1> QED
  BY <1>2, <1>3, <1>4, <1>5, <1>6 DEF Present

(* "A page never holds data of anyone but its signed-in user" as long as   *)
(* nobody logs in before everything of the previous user is gone: the      *)
(* code empties localStorage and the store, but neither the calls under    *)
(* way nor the other tabs (store.ts, session.ts).                          *)
THEOREM OwnDataOnlyCorrect == Spec /\ LoginToEmptyBrowser => []OwnDataOnly
<1> DEFINE Empty ==
      \A t \in Tabs, u \in Users : Login(t, u) => \A v \in Users : Present(v) => v = u
<1>1. Init => PresentInv
  <2> SUFFICES ASSUME Init PROVE PresentInv
    OBVIOUS
  <2>1. \A v \in Users : ~Present(v)
    BY SessionAssumption DEF Init, Present, NewPage, NoFlow, InFlight
  <2> QED
    BY <2>1, SessionAssumption DEF Init, PresentInv, NewPage, Tokens
<1>2. TypeOK /\ PresentInv /\ [Next]_vars /\ [Empty]_vars => PresentInv'
  <2> SUFFICES ASSUME TypeOK, PresentInv, [Next]_vars, [Empty]_vars
               PROVE  PresentInv'
    OBVIOUS
  <2>0. Table /\ issued \in Nat /\ 0 \in Tokens
    BY StepTable, SessionAssumption DEF TypeOK, Tokens
  <2>1. ASSUME NEW u \in Users, NEW v \in Users, Present(u)', Present(v)' PROVE u = v
    <3>1. ASSUME NEW t \in Tabs, NEW w \in Users, Login(t, w) PROVE w = refresh' /\ ~UNCHANGED vars
      <4>1. issued' # issued
        BY <2>0, <3>1 DEF Login, Issue
      <4> QED
        BY <3>1, <4>1 DEF Login, vars, tokenVars
    <3> QED
      BY <2>1, <3>1, PresentStep DEF PresentInv
  <2>2. owner'[0] = NoUser
    BY <2>0, OwnerTable DEF PresentInv
  <2>3. \A k \in 1 .. issued' : owner'[k] \in Users
    <3>1. ASSUME NEW t \in Tabs, NEW c \in Callers, Asked(t, c) PROVE flow[t][c].user \in Users
      BY <3>1 DEF TypeOK, Flow, Asked
    <3>2. 1 .. issued' \subseteq Tokens
      BY TypeStays, SessionAssumption DEF TypeOK, Tokens
    <3>3. \A k \in Tokens : owner'[k] # owner[k] => owner'[k] \in Users
      BY <2>0, <3>1, OwnerTable
    <3>4. CASE issued' = issued
      BY <3>2, <3>3, <3>4 DEF PresentInv
    <3>5. CASE issued' # issued
      <4>1. owner'[issued + 1] \in Users /\ issued' = issued + 1
        <5>1. ASSUME NEW w \in Users, Issue(w) PROVE owner'[issued + 1] \in Users /\ issued' = issued + 1
          BY <5>1, IssueOwner DEF Issue
        <5> QED
          BY <2>0, <3>1, <3>5, <5>1 DEF Table, StorageStep, Login
      <4>2. \A k \in 1 .. issued' : k \in 1 .. issued \/ k = issued + 1
        BY <2>0, <4>1
      <4> QED
        BY <3>2, <3>3, <4>1, <4>2 DEF PresentInv
    <3> QED
      BY <3>4, <3>5
  <2>4. \A r \in Requests : request'[r].pc = "granted" => request'[r].token \in 1 .. issued'
    <3>1. 1 .. issued \subseteq 1 .. issued' /\ valid \subseteq 1 .. issued
      BY <2>0, OwnerTable DEF TypeOK
    <3> QED
      BY <2>0, <3>1 DEF Table, RequestStep, PresentInv
  <2>5. \A t \in Tabs : page'[t].shown \subseteq Users
    BY <2>0 DEF Table, PageStep, PresentInv
  <2> QED
    BY <2>1, <2>2, <2>3, <2>4, <2>5 DEF PresentInv
<1>3. TypeOK /\ PresentInv => OwnDataOnly
  <2> SUFFICES ASSUME TypeOK, PresentInv, NEW t \in Tabs, page[t].account # NoUser,
                      NEW v \in page[t].shown
               PROVE  v = page[t].account
    BY DEF OwnDataOnly
  <2>1. v \in Users /\ Present(v)
    BY DEF PresentInv, Present
  <2>2. page[t].account \in Users /\ Present(page[t].account)
    BY DEF TypeOK, Page, MaybeUser, Present
  <2> QED
    BY <2>1, <2>2 DEF PresentInv
<1>4. LoginToEmptyBrowser <=> [][Empty]_vars
  BY DEF LoginToEmptyBrowser
<1> HIDE DEF Empty
<1> QED
  BY <1>1, <1>2, <1>3, <1>4, TypeCorrect, PTL DEF Spec

-----------------------------------------------------------------------------
(* The end of a session.                                                   *)

LEMMA StoredStep ==
  ASSUME TypeOK, StoredInv, [Next]_vars,
         SessionEnds => \A t \in Tabs, c \in Callers : ~Asked(t, c)'
  PROVE  StoredInv'
<1>0. Table
  BY StepTable
<1>1. access' # 0 <=> refresh' # NoUser
  <2>1. ASSUME NEW t \in Tabs, NEW c \in Callers, Asked(t, c), Issue(flow[t][c].user), UNCHANGED refresh
        PROVE  access' # 0 /\ refresh' # NoUser
    BY <2>1, IssueOwner DEF StoredInv
  <2>2. ASSUME NEW t \in Tabs, NEW u \in Users, Login(t, u) PROVE access' # 0 /\ refresh' # NoUser
    BY <2>2, IssueOwner, SessionAssumption DEF Login
  <2> QED
    BY <1>0, <2>1, <2>2 DEF Table, StorageStep, ClearStorage, StoredInv
<1>2. ASSUME NEW t \in Tabs, NEW c \in Callers, Asked(t, c)' PROVE refresh' # NoUser
  <2>1. Asked(t, c) \/ refresh # NoUser
    BY <1>0, <1>2 DEF Table, FlowStep, Asked
  <2>2. refresh # NoUser
    BY <2>1 DEF StoredInv
  <2> QED
    BY <1>2, <2>2 DEF SessionEnds
<1> QED
  BY <1>1, <1>2 DEF StoredInv

LEMMA SessionEndsMoves == SessionEnds => ~UNCHANGED vars
BY DEF SessionEnds, vars, storage

(* After the end of a session only a login stores tokens again, as long as *)
(* no session ends while a refresh is at Cognito (session.ts).             *)
THEOREM NothingKeptCorrect == Spec /\ EndsAfterRefreshes => NothingKept
<1> DEFINE Ends == SessionEnds => \A t \in Tabs, c \in Callers : ~Asked(t, c)'
<1>1. Init => StoredInv
  BY DEF Init, StoredInv, Asked, NoFlow
<1>2. TypeOK /\ StoredInv /\ [Next]_vars /\ [Ends]_vars => StoredInv'
  BY StoredStep, SessionEndsMoves
<1>3. TypeOK /\ StoredInv /\ [Next]_vars
        => [StorageFilled => \E t \in Tabs : page[t].login # page'[t].login]_vars
  <2> SUFFICES ASSUME TypeOK, StoredInv, [Next]_vars, StorageFilled
               PROVE  \E t \in Tabs : page[t].login # page'[t].login
    OBVIOUS
  <2>1. refresh = NoUser /\ access = 0 /\ access' # 0
    BY DEF StoredInv, StorageFilled
  <2>2. PICK t \in Tabs, u \in Users : Login(t, u)
    BY <2>1, StepTable DEF Table, StorageStep, ClearStorage, StoredInv
  <2>3. page[t].login = 0 /\ page[t] \in Page /\ issued + 1 # 0
    BY <2>2, SessionAssumption DEF Login, TypeOK, Tokens
  <2>4. page'[t].login = issued + 1
    BY <2>2, <2>3 DEF Login, TypeOK, Page
  <2> QED
    BY <2>3, <2>4
<1>4. EndsAfterRefreshes <=> [][Ends]_vars
  BY DEF EndsAfterRefreshes
<1> HIDE DEF Ends
<1> QED
  BY <1>1, <1>2, <1>3, <1>4, TypeCorrect, PTL DEF Spec, NothingKept

(* A call that is never answered belongs to a page that leaves for /login, *)
(* as long as a session only ends with every page, and with no refresh at  *)
(* Cognito (client.ts).                                                    *)
THEOREM HungLeavesCorrect == Spec /\ EndsAfterRefreshes /\ EndsInEveryPage => []HungLeaves
<1> DEFINE Ends == SessionEnds => \A t \in Tabs, c \in Callers : ~Asked(t, c)'
           EndsAll == SessionEnds => \A t \in Tabs : page'[t].leaving \/ SignedOut(t)'
<1>1. Init => StoredInv /\ LeavingInv
  BY DEF Init, StoredInv, LeavingInv, HungLeaves, SignedOut, Asked, NoFlow, NewPage, InFlight
<1>2. TypeOK /\ StoredInv /\ [Next]_vars /\ [Ends]_vars => StoredInv'
  BY StoredStep, SessionEndsMoves
<1>3. TypeOK /\ StoredInv /\ LeavingInv /\ [Next]_vars /\ [EndsAll]_vars => LeavingInv'
  <2> SUFFICES ASSUME TypeOK, StoredInv, LeavingInv, [Next]_vars, [EndsAll]_vars
               PROVE  LeavingInv'
    OBVIOUS
  <2>0. Table
    BY StepTable
  <2>1. ASSUME NEW r \in Requests, request'[r].pc = "hung" PROVE page'[Tab[r]].leaving
    <3>0. Tab[r] \in Tabs
      BY SessionAssumption
    <3>1. CASE request[r].pc = "hung" /\ (page[Tab[r]].leaving => page'[Tab[r]].leaving)
      BY <3>1 DEF LeavingInv, HungLeaves
    <3>2. CASE refresh = NoUser /\ request[r].pc = "denied" /\ UNCHANGED page
      BY <3>0, <3>2 DEF LeavingInv, SignedOut, InFlight
    <3> QED
      BY <2>0, <2>1, <3>1, <3>2 DEF Table, RequestStep
  <2>2. ASSUME refresh' = NoUser, NEW t \in Tabs, ~page'[t].leaving PROVE SignedOut(t)'
    <3>1. CASE refresh # NoUser
      BY <2>2, <3>1, SessionEndsMoves DEF SessionEnds
    <3>2. CASE refresh = NoUser /\ Load(t)
      <4>1. access = 0
        BY <3>2 DEF StoredInv
      <4> QED
        BY <3>2, <4>1, LoadTable DEF SignedOut
    <3>3. CASE refresh = NoUser /\ ~Load(t)
      <4>1. ~page[t].leaving /\ SignedOut(t)
        BY <2>0, <2>2, <3>3 DEF Table, PageStep, LeavingInv
      <4>2. access = 0 /\ \A s \in Tabs, c \in Callers : ~Asked(s, c)
        BY <3>3 DEF StoredInv
      <4>3. \A s \in Tabs, u \in Users : ~Login(s, u)
        BY <2>2, SessionAssumption DEF Login
      <4>4. page'[t].account = NoUser /\ page'[t].login = 0
        BY <2>0, <4>1, <4>2, <4>3 DEF Table, PageStep, SignedOut
      <4>5. \A r \in Requests : Tab[r] = t => request'[r].pc \notin InFlight
        BY <2>0, <4>1, <4>2 DEF Table, RequestStep, SignedOut, Callers
      <4> QED
        BY <4>4, <4>5 DEF SignedOut
    <3> QED
      BY <3>1, <3>2, <3>3
  <2> QED
    BY <2>1, <2>2 DEF LeavingInv, HungLeaves
<1>4. LeavingInv => HungLeaves
  BY DEF LeavingInv
<1>5. (EndsAfterRefreshes <=> [][Ends]_vars) /\ (EndsInEveryPage <=> [][EndsAll]_vars)
  BY DEF EndsAfterRefreshes, EndsInEveryPage
<1> HIDE DEF Ends, EndsAll
<1> QED
  BY <1>1, <1>2, <1>3, <1>4, <1>5, TypeCorrect, PTL DEF Spec
=============================================================================
