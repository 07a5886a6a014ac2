----------------------------- MODULE MCAccounts -----------------------------
(* Small instances of Accounts for TLC. *)
EXTENDS Accounts, TLC

CONSTANTS f1, f2, f3, s1, s2, d1, d2, e1, e2, i1, i2

(* s1 types the e-mail of f1 in capitals, s2 as f1 did. *)
MCEmail == [u \in Users |-> CASE u \in {f1, s2} -> "ada" [] u = s1 -> "ADA"
                               [] u = f2 -> "bob" [] OTHER -> "eve"]
MCClaimKey == [e \in {"ada", "ADA", "bob", "eve"} |-> IF e = "ADA" THEN "ada" ELSE e]

(* Two newcomers with e-mails of their own. *)
MCEmailApart == [u \in Users |-> IF u = s1 THEN "ada" ELSE "bob"]

(* f2 and f3 are admins, or only f2 is. *)
MCTwoAdmins == [u \in Founders |-> IF u = f1 THEN "user" ELSE "admin"]
MCOneAdmin  == [u \in Founders |-> IF u = f2 THEN "admin" ELSE "user"]

MCSeen == [u \in Founders |-> IF u = f3 THEN {"never", "stale"} ELSE {"recent"}]

MCLeaver == [d \in Deletions |-> f1]

(* e1: f2 changes the tokens of f1, or the role of f3; e2: f3 that of f2. *)
MCActor   == [e \in Edits |-> IF e = e1 THEN f2 ELSE f3]
MCTokensTarget == [e \in Edits |-> f1]
MCRoleTarget   == [e \in Edits |-> IF e = e1 THEN f3 ELSE f2]
MCSame    == [e \in Edits |-> "same"]
MCDemote  == [e \in Edits |-> "user"]
MCPromote == [e \in Edits |-> "maintainer"]
=============================================================================
