------------------------------- MODULE Tokens -------------------------------
(***************************************************************************)
(* The simulation-token part of a user's profile item (USER#<id> /         *)
(* METADATA) in DynamoDB, as backend/common/repositories/user_repository.py*)
(* updates it, and the per-process profile cache of                        *)
(* backend/common/auth/dependencies.py through which requests read it.     *)
(* Each operator is one DynamoDB request, hence one atomic step.           *)
(***************************************************************************)
EXTENDS Naturals

CONSTANTS Users,        \* user ids
          Instances,    \* Lambda instances of one service, each with its cache
          StartTokens   \* the balances a user may start with

ASSUME StartAssumption == StartTokens \subseteq Nat

VARIABLES accounts,   \* users whose profile item exists
          tokens,     \* SimulationTokens of every user
          flatrate,   \* users with an active flatrate
          cache       \* _profile_cache of every instance

tokenVars == <<accounts, tokens, flatrate, cache>>

(* What _profile_cache holds for a user: nothing, or the balance and the   *)
(* flatrate as they were when the profile was read.                        *)
CacheEntry == [valid : BOOLEAN, tokens : Nat, flat : BOOLEAN]

NoEntry == [valid |-> FALSE, tokens |-> 0, flat |-> FALSE]

TokensTypeOK ==
  /\ accounts \in SUBSET Users
  /\ tokens \in [Users -> Nat]
  /\ flatrate \in SUBSET Users
  /\ cache \in [Instances -> [Users -> CacheEntry]]

TokensInit ==
  /\ accounts = Users
  /\ tokens \in [Users -> StartTokens]
  /\ flatrate \in SUBSET Users
  /\ cache = [i \in Instances |-> [u \in Users |-> NoEntry]]

-----------------------------------------------------------------------------
(* The profile instance i hands to a request of u: the cached copy while   *)
(* it is younger than its TTL, else a fresh read.                          *)
ProfileSeen(i, u) ==
  IF cache[i][u].valid
    THEN cache[i][u]
    ELSE [valid |-> TRUE, tokens |-> tokens[u], flat |-> u \in flatrate]

(* _resolve_user answers 401 only when nothing is cached and the profile   *)
(* is gone.                                                                *)
Authenticates(i, u) == cache[i][u].valid \/ u \in accounts

(* _resolve_user caches what it read.                                      *)
RememberProfile(i, u) ==
  cache' = [cache EXCEPT ![i] = [@ EXCEPT ![u] = ProfileSeen(i, u)]]

(* _PROFILE_CACHE_TTL passes, or the instance is recycled.                 *)
ForgetProfile(i, u) ==
  /\ cache[i][u].valid
  /\ cache' = [cache EXCEPT ![i] = [@ EXCEPT ![u] = NoEntry]]
  /\ UNCHANGED <<accounts, tokens, flatrate>>

(* _check_token_balance of a profile p against a cost.                     *)
Affordable(p, cost) == cost = 0 \/ p.flat \/ p.tokens >= cost

MustDeduct(p, cost) == cost # 0 /\ ~p.flat

-----------------------------------------------------------------------------
(* deduct_user_tokens: a conditional update, so that a balance below the   *)
(* cost, or a deleted profile, refuses the charge.                         *)
CanDeduct(u, cost) == u \in accounts /\ tokens[u] >= cost

(* Mutant: the update without its ConditionExpression.                     *)
DeductUnconditionally(u, cost) ==
  /\ tokens' = [tokens EXCEPT ![u] = @ - cost]
  /\ UNCHANGED <<accounts, flatrate, cache>>

Deduct(u, cost) ==
  /\ CanDeduct(u, cost)
  /\ tokens' = [tokens EXCEPT ![u] = @ - cost]
  /\ UNCHANGED <<accounts, flatrate, cache>>

(* refund_user_tokens: an increment that requires the profile item.        *)
CanRefund(u) == u \in accounts

Refund(u, amount) ==
  /\ CanRefund(u)
  /\ tokens' = [tokens EXCEPT ![u] = @ + amount]
  /\ UNCHANGED <<accounts, flatrate, cache>>

(* The account deletion removes the profile item.                          *)
RemoveProfile(u) ==
  /\ u \in accounts
  /\ accounts' = accounts \ {u}
  /\ tokens' = [tokens EXCEPT ![u] = 0]
  /\ flatrate' = flatrate \ {u}
  /\ UNCHANGED cache
=============================================================================
