------------------------------ MODULE Accounts ------------------------------
(***************************************************************************)
(* Who has an account: registration with its e-mail claim, self-service    *)
(* deletion, the daily retention run, the admins' changes of a profile and *)
(* the per-process profile cache through which a request sees its caller.  *)
(* The items (USER#<id>/METADATA and EMAIL#<e-mail>/CLAIM) live in one     *)
(* DynamoDB table; every request to it is one atomic step.                 *)
(***************************************************************************)
EXTENDS Naturals, FiniteSets

CONSTANTS Founders,     \* users that exist at the start
          Signups,      \* calls of register, each with the user id it draws
          Deletions,    \* calls of delete_my_account
          Edits,        \* calls of an admin endpoint that updates a profile
          Instances,    \* processes, each with its profile cache
          FounderRole,  \* the role of every founder
          FounderSeen,  \* the possible LastSeenAt of every founder
          Email,        \* the e-mail of every user, as it was typed
          ClaimKey,     \* the claim of an e-mail: stripped, in lower case
          Leaver,       \* the caller of every deletion
          Actor, Target, NewRole,   \* of every edit; NewRole "same" for the others
          Sweep,        \* does the retention run?
          Faults,       \* of {"scan", "crash"}: failed scans, processes that die
          Nobody        \* an e-mail that is not claimed

Users == Founders \cup Signups
Roles == {"user", "maintainer", "admin"}
Kept  == {"maintainer", "admin"}
Seen  == {"never", "stale", "recent"}
Emails == {Email[u] : u \in Users}
Keys   == {ClaimKey[e] : e \in Emails}
Key(u) == ClaimKey[Email[u]]

ASSUME AccountsAssumption ==
  /\ Founders \cap Signups = {}
  /\ Nobody \notin Users
  /\ FounderRole \in [Founders -> Roles]
  /\ FounderSeen \in [Founders -> SUBSET Seen]
  /\ DOMAIN Email = Users
  /\ Emails \subseteq DOMAIN ClaimKey
  /\ Leaver \in [Deletions -> Users]
  /\ Actor \in [Edits -> Users]
  /\ Target \in [Edits -> Users]
  /\ NewRole \in [Edits -> Roles \cup {"same"}]
  /\ Sweep \in BOOLEAN
  /\ Faults \subseteq {"scan", "crash"}
  /\ \A u, v \in Founders : Key(u) = Key(v) => u = v

VARIABLES
  full,      \* users whose METADATA item create_user wrote
  partial,   \* users whose METADATA item an update created: no e-mail, no UserId
  role,      \* Role of every item
  seen,      \* LastSeenAt of every item: none, before the cutoff, or later
  claims,    \* the user that holds each claim item
  cache,     \* the role _profile_cache of each instance holds, or "none"
  signup,    \* [pc, first] of every registration
  deletion,  \* [pc, at, left] of every deletion
  edit,      \* [pc, at] of every edit
  sweep      \* [pc, page, user, left] of the retention run

itemVars == <<full, partial, role, seen, claims>>
procVars == <<signup, deletion, edit, sweep>>
vars == <<itemVars, cache, procVars>>

-----------------------------------------------------------------------------
Snapshot == [user : Users, role : Roles, seen : Seen]
Item == {"profile", "claim"}

SignupPc   == {"idle", "counted", "scanned", "claimed", "unclaim", "done", "rejected", "dead"}
DeletionPc == {"idle", "allowed", "deleting", "done", "refused", "dead"}
EditPc     == {"idle", "allowed", "write", "written", "done", "refused"}

Signup   == [pc : SignupPc, first : BOOLEAN]
Deletion == [pc : DeletionPc, at : Instances, left : SUBSET Item]
Edit     == [pc : EditPc, at : Instances]

TypeOK ==
  /\ full \in SUBSET Users
  /\ partial \in SUBSET Users
  /\ full \cap partial = {}
  /\ role \in [Users -> Roles]
  /\ seen \in [Users -> Seen]
  /\ claims \in [Keys -> Users \cup {Nobody}]
  /\ cache \in [Instances -> [Users -> Roles \cup {"none"}]]
  /\ signup \in [Signups -> Signup]
  /\ deletion \in [Deletions -> Deletion]
  /\ edit \in [Edits -> Edit]
  /\ sweep \in [pc : {"idle", "next", "deleting", "done", "aborted"},
                page : SUBSET Snapshot, user : Users \cup {Nobody}, left : SUBSET Item]
  /\ sweep.pc = "deleting" => sweep.user \in Users

Init ==
  /\ full = Founders
  /\ partial = {}
  /\ role = [u \in Users |-> IF u \in Founders THEN FounderRole[u] ELSE "user"]
  /\ seen \in [Users -> Seen]
  /\ \A u \in Users : seen[u] \in IF u \in Founders THEN FounderSeen[u] ELSE {"never"}
  /\ claims \in [Keys -> Founders \cup {Nobody}]
  /\ \A k \in Keys : IF claims[k] = Nobody THEN \A u \in Founders : Key(u) # k
                                           ELSE Key(claims[k]) = k
  /\ cache = [i \in Instances |-> [u \in Users |-> "none"]]
  /\ signup = [s \in Signups |-> [pc |-> "idle", first |-> FALSE]]
  /\ deletion \in [Deletions -> [pc : {"idle"}, at : Instances, left : {{}}]]
  /\ edit \in [Edits -> [pc : {"idle"}, at : Instances]]
  /\ sweep = [pc |-> "idle", page |-> {}, user |-> Nobody, left |-> {}]

Exists(u) == u \in full \cup partial

-----------------------------------------------------------------------------
(* LocalAuthProvider.register and UserRepository.create_user.              *)

SignupGoes(s, from, to) ==
  /\ signup[s].pc = from
  /\ signup' = [signup EXCEPT ![s] = [@ EXCEPT !.pc = to]]

(* is_first: a scan that fails counts no users (get_user_count).           *)
CountUsers(s) ==
  /\ signup[s].pc = "idle"
  /\ \E failed \in IF "scan" \in Faults THEN BOOLEAN ELSE {FALSE} :
       signup' = [signup EXCEPT ![s] =
                    [pc |-> "counted", first |-> failed \/ full \cup partial = {}]]
  /\ UNCHANGED <<itemVars, cache, deletion, edit, sweep>>

(* get_user_by_email compares the e-mail as typed; a scan that fails finds *)
(* nobody.                                                                 *)
ScanEmail(s) ==
  /\ \/ /\ \E u \in full : Email[u] = Email[s]
        /\ SignupGoes(s, "counted", "rejected")
     \/ /\ "scan" \in Faults \/ \A u \in full : Email[u] # Email[s]
        /\ SignupGoes(s, "counted", "scanned")
  /\ UNCHANGED <<itemVars, cache, deletion, edit, sweep>>

(* Mutant: the claim is written without its ConditionExpression.           *)
ClaimUnconditionally(s) ==
  /\ SignupGoes(s, "scanned", "claimed")
  /\ claims' = [claims EXCEPT ![Key(s)] = s]
  /\ UNCHANGED <<full, partial, role, seen, cache, deletion, edit, sweep>>

(* Mutant: a refused claim is released as well.                            *)
ClaimOrRelease(s) ==
  /\ \/ /\ claims[Key(s)] = Nobody
        /\ SignupGoes(s, "scanned", "claimed")
        /\ claims' = [claims EXCEPT ![Key(s)] = s]
     \/ /\ claims[Key(s)] # Nobody
        /\ SignupGoes(s, "scanned", "unclaim")
        /\ UNCHANGED claims
  /\ UNCHANGED <<full, partial, role, seen, cache, deletion, edit, sweep>>

(* The conditional put of the claim item.                                  *)
ClaimEmail(s) ==
  /\ \/ /\ claims[Key(s)] = Nobody
        /\ SignupGoes(s, "scanned", "claimed")
        /\ claims' = [claims EXCEPT ![Key(s)] = s]
     \/ /\ claims[Key(s)] # Nobody
        /\ SignupGoes(s, "scanned", "rejected")
        /\ UNCHANGED claims
  /\ UNCHANGED <<full, partial, role, seen, cache, deletion, edit, sweep>>

(* Mutant: the default role is forgotten.                                  *)
PutWithoutRole(s) ==
  /\ SignupGoes(s, "claimed", "done")
  /\ full' = full \cup {s}
  /\ role' = [role EXCEPT ![s] = IF signup[s].first THEN "admin" ELSE "none"]
  /\ UNCHANGED <<partial, seen, claims, cache, deletion, edit, sweep>>

(* The put of the profile, or a ClientError.                               *)
PutProfile(s) ==
  /\ \/ /\ SignupGoes(s, "claimed", "done")
        /\ full' = full \cup {s}
        /\ partial' = partial \ {s}
        /\ role' = [role EXCEPT ![s] = IF signup[s].first THEN "admin" ELSE "user"]
     \/ /\ SignupGoes(s, "claimed", "unclaim")
        /\ UNCHANGED <<full, partial, role>>
  /\ UNCHANGED <<seen, claims, cache, deletion, edit, sweep>>

(* Mutant: the claim of a failed registration is left behind.              *)
UnclaimForgotten(s) ==
  /\ SignupGoes(s, "unclaim", "rejected")
  /\ UNCHANGED <<itemVars, cache, deletion, edit, sweep>>

Unclaim(s) ==
  /\ SignupGoes(s, "unclaim", "rejected")
  /\ claims' = [claims EXCEPT ![Key(s)] = Nobody]
  /\ UNCHANGED <<full, partial, role, seen, cache, deletion, edit, sweep>>

(* The process dies, or the connection to DynamoDB does, halfway.          *)
SignupDies(s) ==
  /\ "crash" \in Faults
  /\ signup[s].pc \in {"counted", "scanned", "claimed", "unclaim"}
  /\ SignupGoes(s, signup[s].pc, "dead")
  /\ UNCHANGED <<itemVars, cache, deletion, edit, sweep>>

-----------------------------------------------------------------------------
(* The profile cache.                                                      *)

RoleSeen(i, u) == IF cache[i][u] # "none" THEN cache[i][u] ELSE role[u]

Authenticates(i, u) == cache[i][u] # "none" \/ u \in full

(* _resolve_user: a fresh read is cached and counts as activity.           *)
Resolve(i, u) ==
  /\ cache' = [cache EXCEPT ![i] = [@ EXCEPT ![u] = RoleSeen(i, u)]]
  /\ seen' = IF cache[i][u] = "none" THEN [seen EXCEPT ![u] = "recent"] ELSE seen

(* Any other request of a user.                                            *)
Visit(i, u) ==
  /\ u \in full
  /\ cache[i][u] = "none"
  /\ Resolve(i, u)
  /\ UNCHANGED <<full, partial, role, claims, procVars>>

(* The TTL passes, or the process restarts.                                *)
Forget(i, u) ==
  /\ cache[i][u] # "none"
  /\ cache' = [cache EXCEPT ![i] = [@ EXCEPT ![u] = "none"]]
  /\ UNCHANGED <<itemVars, procVars>>

-----------------------------------------------------------------------------
(* delete_user_data: the keys to delete are listed once, then deleted in   *)
(* batches, each key by itself and in no particular order.                 *)

(* Mutant: the claim is not among them.                                    *)
ItemsOfProfile(u) == {x \in {"profile"} : Exists(u)}

ItemsOf(u) == {x \in Item : \/ u \in full
                            \/ u \in partial /\ x = "profile"}

RemoveItem(u, x) ==
  IF x = "profile"
    THEN /\ full' = full \ {u}
         /\ partial' = partial \ {u}
         /\ role' = [role EXCEPT ![u] = "user"]
         /\ seen' = [seen EXCEPT ![u] = "never"]
         /\ UNCHANGED claims
    ELSE /\ claims' = [claims EXCEPT ![Key(u)] = Nobody]
         /\ UNCHANGED <<full, partial, role, seen>>

(* delete_my_account: 401, 409 for a kept role, 403 for a locked account   *)
(* (whose lock is not modelled), or go on.                                 *)
AskDeletion(d) ==
  LET u == Leaver[d]
      i == deletion[d].at
  IN  /\ deletion[d].pc = "idle"
      /\ \/ /\ ~Authenticates(i, u)
            /\ deletion' = [deletion EXCEPT ![d] = [@ EXCEPT !.pc = "refused"]]
            /\ UNCHANGED <<cache, seen>>
         \/ /\ Authenticates(i, u)
            /\ Resolve(i, u)
            /\ \E to \in {"allowed", "refused"} :
                 /\ RoleSeen(i, u) \in Kept => to = "refused"
                 /\ deletion' = [deletion EXCEPT ![d] = [@ EXCEPT !.pc = to]]
      /\ UNCHANGED <<full, partial, role, claims, signup, edit, sweep>>

(* The listing, followed by the S3 objects; their failure ends the request *)
(* with nothing deleted.                                                   *)
ListDeletion(d) ==
  /\ deletion[d].pc = "allowed"
  /\ \/ deletion' = [deletion EXCEPT ![d] = [@ EXCEPT !.pc = "deleting", !.left = ItemsOf(Leaver[d])]]
     \/ deletion' = [deletion EXCEPT ![d] = [@ EXCEPT !.pc = "refused"]]
  /\ UNCHANGED <<itemVars, cache, signup, edit, sweep>>

DeleteItem(d) ==
  /\ deletion[d].pc = "deleting"
  /\ \E x \in deletion[d].left :
       /\ RemoveItem(Leaver[d], x)
       /\ deletion' = [deletion EXCEPT ![d].left = @ \ {x}]
  /\ UNCHANGED <<cache, signup, edit, sweep>>

EndDeletion(d) ==
  /\ deletion[d].pc = "deleting"
  /\ deletion[d].left = {}
  /\ deletion' = [deletion EXCEPT ![d] = [@ EXCEPT !.pc = "done"]]
  /\ cache' = [cache EXCEPT ![deletion[d].at] = [@ EXCEPT ![Leaver[d]] = "none"]]
  /\ UNCHANGED <<itemVars, signup, edit, sweep>>

DeletionDies(d) ==
  /\ "crash" \in Faults
  /\ deletion[d].pc = "deleting"
  /\ deletion' = [deletion EXCEPT ![d] = [@ EXCEPT !.pc = "dead"]]
  /\ UNCHANGED <<itemVars, cache, signup, edit, sweep>>

-----------------------------------------------------------------------------
(* The admin endpoints: check the caller, read the target, update it       *)
(* (without a condition, so that a deleted profile is created again),      *)
(* invalidate the cache of this process.                                   *)

EditGoes(e, from, to) ==
  /\ edit[e].pc = from
  /\ edit' = [edit EXCEPT ![e] = [@ EXCEPT !.pc = to]]

AskEdit(e) ==
  LET a == Actor[e]
      i == edit[e].at
      may == RoleSeen(i, a) = "admin" /\ (NewRole[e] # "same" => a # Target[e])
  IN  /\ \/ /\ ~Authenticates(i, a)
            /\ EditGoes(e, "idle", "refused")
            /\ UNCHANGED <<cache, seen>>
         \/ /\ Authenticates(i, a)
            /\ Resolve(i, a)
            /\ EditGoes(e, "idle", IF may THEN "allowed" ELSE "refused")
      /\ UNCHANGED <<full, partial, role, claims, signup, deletion, sweep>>

ReadTarget(e) ==
  /\ EditGoes(e, "allowed", IF Target[e] \in full THEN "write" ELSE "refused")
  /\ UNCHANGED <<itemVars, cache, signup, deletion, sweep>>

WriteTarget(e) ==
  LET t == Target[e]
  IN  /\ EditGoes(e, "write", "written")
      /\ partial' = IF Exists(t) THEN partial ELSE partial \cup {t}
      /\ role' = IF NewRole[e] = "same" THEN role ELSE [role EXCEPT ![t] = NewRole[e]]
      /\ UNCHANGED <<full, seen, claims, cache, signup, deletion, sweep>>

InvalidateTarget(e) ==
  /\ EditGoes(e, "written", "done")
  /\ cache' = [cache EXCEPT ![edit[e].at] = [@ EXCEPT ![Target[e]] = "none"]]
  /\ UNCHANGED <<itemVars, signup, deletion, sweep>>

-----------------------------------------------------------------------------
(* run_retention: a page of profiles is read, then handled one by one.     *)

ScanProfiles ==
  /\ Sweep
  /\ sweep.pc = "idle"
  /\ sweep' = [sweep EXCEPT !.pc = "next",
                 !.page = {[user |-> u, role |-> role[u], seen |-> seen[u]] : u \in full \cup partial}]
  /\ UNCHANGED <<itemVars, cache, signup, deletion, edit>>

(* Nothing to do for a kept role or a recent visit.                        *)
SkipProfile(p) ==
  /\ sweep.pc = "next"
  /\ p \in sweep.page
  /\ p.role \in Kept \/ p.seen = "recent"
  /\ sweep' = [sweep EXCEPT !.page = @ \ {p}]
  /\ UNCHANGED <<itemVars, cache, signup, deletion, edit>>

(* An account without LastSeenAt gets today's date; the condition          *)
(* (attribute_not_exists) holds of an item that is gone, and its failure   *)
(* ends the run.                                                           *)
StartClock(p) ==
  /\ sweep.pc = "next"
  /\ p \in sweep.page
  /\ p.role \notin Kept
  /\ p.seen = "never"
  /\ \/ /\ seen[p.user] = "never"
        /\ seen' = [seen EXCEPT ![p.user] = "recent"]
        /\ partial' = IF Exists(p.user) THEN partial ELSE partial \cup {p.user}
        /\ sweep' = [sweep EXCEPT !.page = @ \ {p}]
     \/ /\ seen[p.user] # "never"
        /\ sweep' = [sweep EXCEPT !.pc = "aborted"]
        /\ UNCHANGED <<seen, partial>>
  /\ UNCHANGED <<full, role, claims, cache, signup, deletion, edit>>

(* delete_user_data of an account that was not seen since the cutoff; a    *)
(* failure to list it or to delete its S3 objects ends the run.            *)
ListProfile(p) ==
  /\ sweep.pc = "next"
  /\ p \in sweep.page
  /\ p.role \notin Kept
  /\ p.seen = "stale"
  /\ \/ sweep' = [sweep EXCEPT !.pc = "deleting", !.page = @ \ {p}, !.user = p.user,
                               !.left = ItemsOf(p.user)]
     \/ sweep' = [sweep EXCEPT !.pc = "aborted"]
  /\ UNCHANGED <<itemVars, cache, signup, deletion, edit>>

SweepItem ==
  /\ sweep.pc = "deleting"
  /\ \E x \in sweep.left :
       /\ RemoveItem(sweep.user, x)
       /\ sweep' = [sweep EXCEPT !.left = @ \ {x}]
  /\ UNCHANGED <<cache, signup, deletion, edit>>

EndProfile ==
  /\ sweep.pc = "deleting"
  /\ sweep.left = {}
  /\ sweep' = [sweep EXCEPT !.pc = "next", !.user = Nobody]
  /\ UNCHANGED <<itemVars, cache, signup, deletion, edit>>

SweepDies ==
  /\ "crash" \in Faults
  /\ sweep.pc = "deleting"
  /\ sweep' = [sweep EXCEPT !.pc = "aborted"]
  /\ UNCHANGED <<itemVars, cache, signup, deletion, edit>>

EndSweep ==
  /\ sweep.pc = "next"
  /\ sweep.page = {}
  /\ sweep' = [sweep EXCEPT !.pc = "done"]
  /\ UNCHANGED <<itemVars, cache, signup, deletion, edit>>

-----------------------------------------------------------------------------
SignupStep(s) ==
  CountUsers(s) \/ ScanEmail(s) \/ ClaimEmail(s) \/ PutProfile(s) \/ Unclaim(s)

DeletionStep(d) == AskDeletion(d) \/ ListDeletion(d) \/ DeleteItem(d) \/ EndDeletion(d)

EditStep(e) == AskEdit(e) \/ ReadTarget(e) \/ WriteTarget(e) \/ InvalidateTarget(e)

SweepStep ==
  \/ ScanProfiles \/ SweepItem \/ EndProfile \/ EndSweep
  \/ \E p \in sweep.page : SkipProfile(p) \/ StartClock(p) \/ ListProfile(p)

Next ==
  \/ \E s \in Signups : SignupStep(s) \/ SignupDies(s)
  \/ \E d \in Deletions : DeletionStep(d) \/ DeletionDies(d)
  \/ \E e \in Edits : EditStep(e)
  \/ \E i \in Instances, u \in Users : Visit(i, u) \/ Forget(i, u)
  \/ SweepStep \/ SweepDies

Spec == Init /\ [][Next]_vars

(* A request that was begun is carried on; nothing makes a user begin one. *)
FairSpec ==
  /\ Spec
  /\ \A d \in Deletions : WF_vars(deletion[d].pc # "idle" /\ DeletionStep(d))
  /\ \A s \in Signups : WF_vars(signup[s].pc # "idle" /\ SignupStep(s))

-----------------------------------------------------------------------------
(* Accounts whose deletion has begun.                                      *)
Doomed(u) ==
  \/ \E d \in Deletions : Leaver[d] = u /\ deletion[d].pc \in {"deleting", "dead"}
  \/ sweep.user = u

Registering(s) == s \in Signups /\ signup[s].pc \in {"claimed", "unclaim"}

(* The claim of an e-mail belongs to the account that uses it, through any *)
(* interleaving of registrations, failed scans, failed puts and deletions  *)
(* (create_user, delete_user_data).                                        *)
ClaimHeld == \A u \in full : Doomed(u) \/ claims[Key(u)] = u

(* No two accounts share an e-mail, however it was typed and although the  *)
(* scan that looks for it neither locks nor always succeeds (create_user). *)
UniqueEmail ==
  \A u, v \in full : u # v /\ Key(u) = Key(v) => Doomed(u) \/ Doomed(v)

(* A registration whose process died, and a deletion of an account, under  *)
(* way or stopped for good, that still has the claim to delete.            *)
Died(u) == u \in Signups /\ signup[u].pc = "dead"

Unreleased(u) ==
  \/ \E d \in Deletions : /\ Leaver[d] = u
                          /\ deletion[d].pc \in {"deleting", "dead"}
                          /\ "claim" \in deletion[d].left
  \/ sweep.user = u /\ "claim" \in sweep.left

(* A claim is held by an account, by a registration under way or whose     *)
(* process died, or by an account whose deletion has yet to delete it: the *)
(* deletion is under way, or it stopped halfway (a process that died, a    *)
(* retention run that was broken off), which leaves the claim as the death *)
(* of a registration does.  Once the claim is deleted or the registration  *)
(* has failed, the e-mail can register again (create_user,                 *)
(* delete_user_data).                                                      *)
ClaimBacked ==
  \A k \in Keys : claims[k] # Nobody =>
    LET u == claims[k] IN u \in full \/ Unreleased(u) \/ Registering(u) \/ Died(u)

(* A deletion that has begun ends with the account gone and its e-mail     *)
(* released, unless its process dies (delete_user_data).                   *)
DeletionFrees ==
  \A d \in Deletions : LET u == Leaver[d] IN
    deletion[d].pc = "deleting" ~>
      deletion[d].pc = "dead" \/ (u \notin full /\ claims[Key(u)] # u)

(* Why an e-mail stays with its account, when no account is deleted by two *)
(* at once: the inductive invariant behind ClaimHeld.                      *)

Alone == /\ \A d, e \in Deletions : Leaver[d] = Leaver[e] => d = e
         /\ Sweep => Deletions = {}

(* Has had a profile, so that no registration will give it one again.      *)
Grown(u) == u \in Founders \/ (u \in Signups /\ signup[u].pc = "done")

GrownInv ==
  /\ \A u \in full \cup partial : Grown(u)
  /\ \A i \in Instances, u \in Users : cache[i][u] # "none" => Grown(u)
  /\ \A d \in Deletions : deletion[d].pc \in {"allowed", "deleting"} => Grown(Leaver[d])
  /\ \A e \in Edits : edit[e].pc = "write" => Grown(Target[e])
  /\ \A p \in sweep.page : Grown(p.user)
  /\ sweep.pc = "deleting" => Grown(sweep.user)

(* What a deletion has yet to do is still to be done, and what it has done *)
(* is not undone.                                                          *)
Erasing(u, left) == /\ "claim" \in left => claims[Key(u)] = u
                    /\ "profile" \notin left => u \notin full

EraseInv ==
  /\ \A d \in Deletions : deletion[d].pc = "deleting" => Erasing(Leaver[d], deletion[d].left)
  /\ sweep.pc = "deleting" => Erasing(sweep.user, sweep.left)
  /\ sweep.pc \notin {"deleting", "aborted"} => sweep.user = Nobody
  /\ ~Sweep => sweep.pc = "idle"

RegisterInv == \A s \in Signups : Registering(s) => claims[Key(s)] = s

ClaimInv == GrownInv /\ EraseInv /\ RegisterInv /\ ClaimHeld

-----------------------------------------------------------------------------
(* What the code or its tests say and a run refutes.                       *)

(* "Release the e-mail so it can register again (local auth mode)": a      *)
(* claim is of an account, or of a registration or a deletion under way;   *)
(* none stays behind without an account (account_service.py).              *)
Leaving(u) == \/ \E d \in Deletions : Leaver[d] = u /\ deletion[d].pc = "deleting"
              \/ sweep.pc = "deleting" /\ sweep.user = u

ClaimReleased ==
  \A k \in Keys : claims[k] # Nobody =>
    claims[k] \in full \/ Leaving(claims[k]) \/ Registering(claims[k])

(* "First user becomes admin", "everyone except the bootstrap admin waits  *)
(* for an admin's approval": one registration at most makes an admin       *)
(* (local_provider.py).                                                    *)
BootstrapOnce ==
  \A s, t \in Signups : {s, t} \subseteq full /\ signup[s].first /\ signup[t].first => s = t

(* "Delete all data of user_id": nothing of a profile is left when the     *)
(* deletion is through (account_service.py).                               *)
ErasedForGood == \A d \in Deletions : deletion[d].pc = "done" => ~Exists(Leaver[d])

(* "the last admin would lock everyone out": an admin remains (main.py,    *)
(* folder_routes.py: no admin can change their own role).                  *)
AdminRemains == \E u \in full : role[u] = "admin"

(* "Admins and maintainers are kept": only a user's account is deleted     *)
(* (retention.py, delete_my_account).                                      *)
KeptStay == [][\A u \in full : u \notin full' => role[u] \notin Kept]_vars

(* "Accounts with no activity for RETENTION_DAYS are deleted": the run     *)
(* deletes no account that was seen since the cutoff (retention.py).       *)
ActiveStay ==
  [][SweepItem => \A u \in full : u \notin full' => seen[u] = "stale"]_vars
-----------------------------------------------------------------------------
(* Under which circumstances those claims hold after all.                  *)

(* Nobody holds a copy of the profile of u from before it had a kept role, *)
(* nor is about to delete it because of one: no process has it cached as a *)
(* user's, no deletion has been let through, the retention run has it on   *)
(* no page as a user's.                                                    *)
KeptSeen(u) ==
  /\ \A i \in Instances : cache[i][u] \in Kept \cup {"none"}
  /\ \A d \in Deletions : Leaver[d] = u =>
       /\ deletion[d].pc # "allowed"
       /\ deletion[d].pc = "deleting" => "profile" \notin deletion[d].left
  /\ \A p \in sweep.page : p.user = u => p.role \in Kept
  /\ sweep.pc = "deleting" /\ sweep.user = u => "profile" \notin sweep.left

(* An account is given a kept role only while nobody holds such a copy.    *)
PromotesQuietly ==
  [][\A e \in Edits : LET u == Target[e] IN
       /\ WriteTarget(e)
       /\ u \in full
       /\ role[u] \notin Kept
       /\ NewRole[e] \in Kept
       => KeptSeen(u)]_vars

(* No account is visited while the retention run holds it for inactive.    *)
VisitsInTime ==
  [][\A u \in Users : seen[u] # seen'[u] /\ u \in full' =>
       /\ \A p \in sweep.page : p.user = u => p.seen # "stale"
       /\ ~(sweep.pc = "deleting" /\ sweep.user = u)]_vars

(* An update creates no profile again that a deletion has removed.         *)
Erased(d) == \/ deletion[d].pc = "done"
             \/ deletion[d].pc = "deleting" /\ "profile" \notin deletion[d].left

UpdatesInTime ==
  [][\A d \in Deletions : LET u == Leaver[d] IN
       u \in partial' /\ u \notin partial => ~Erased(d)]_vars

(* Would make an admin when its profile is written, or has made one.       *)
Bootstraps(s) ==
  /\ signup[s].first
  /\ signup[s].pc \in {"counted", "scanned", "claimed"} \/ s \in full

(* No registration begins while one that found no users is under way.      *)
FirstAlone ==
  [][\A s, t \in Signups : CountUsers(s) /\ s # t /\ full \cup partial = {} => ~Bootstraps(t)]_vars

(* No registration dies between its claim and its profile.                 *)
RegistersWhole == [][\A s \in Signups : SignupDies(s) => ~Registering(s)]_vars

(* No deletion stops with the claim still to delete.                       *)
DeletesWhole ==
  [][/\ \A d \in Deletions : DeletionDies(d) => "claim" \notin deletion[d].left
     /\ SweepDies => "claim" \notin sweep.left]_vars

(* An account with a kept role from the start that no edit takes from it,  *)
(* and an admin whose role no edit changes.                                *)
KeptFounder(f) ==
  /\ f \in Founders
  /\ FounderRole[f] \in Kept
  /\ \A e \in Edits : Target[e] = f => NewRole[e] \in Kept \cup {"same"}

AdminFounder(f) ==
  /\ f \in Founders
  /\ FounderRole[f] = "admin"
  /\ \A e \in Edits : Target[e] = f => NewRole[e] \in {"admin", "same"}

(* Such an account keeps its profile and a kept role, whatever the others  *)
(* do and the faults are (delete_my_account, run_retention).               *)
KeptFoundersStay == \A f \in Users : KeptFounder(f) => f \in full /\ role[f] \in Kept

(* "Everyone except the bootstrap admin waits for an admin's approval":    *)
(* no registration makes an admin.                                         *)
NewcomersWait == \A s \in Signups : ~signup[s].first

(* The inductive invariants behind them.                                   *)
KeptInv == \A u \in full : role[u] \in Kept => KeptSeen(u)

ActiveInv ==
  /\ \A p \in sweep.page : p.user \in full /\ p.seen = "stale" => seen[p.user] = "stale"
  /\ sweep.pc = "deleting" /\ sweep.user \in full => seen[sweep.user] = "stale"

ErasedInv == \A d \in Deletions : Erased(d) => Grown(Leaver[d]) /\ ~Exists(Leaver[d])

BootstrapInv == \A s, t \in Signups : Bootstraps(s) /\ Bootstraps(t) => s = t

(* A claim is under its owner's e-mail; a registration that owns one has   *)
(* put its profile or is about to put it, or to give the claim back.       *)
ClaimantInv ==
  \A k \in Keys : claims[k] # Nobody =>
    /\ Key(claims[k]) = k
    /\ claims[k] \in Signups => signup[claims[k]].pc \in {"claimed", "unclaim", "done"}

(* A deletion that has stopped has no claim to delete any more.            *)
StoppedInv ==
  /\ \A d \in Deletions : deletion[d].pc = "dead" => "claim" \notin deletion[d].left
  /\ sweep.pc # "deleting" => "claim" \notin sweep.left
=============================================================================
