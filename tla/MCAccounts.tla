------------------------------ MODULE MCAccounts ------------------------------
(* Two requests at a time about one account, in mixes that meet on the same rows. *)
EXTENDS Accounts, TLC

CONSTANTS r1, r2, k1, k2, k3, l1, l2, p1, p2

MCRequest == {r1, r2}
MCToken == {k1, k2, k3}
MCKept == {k1, k3}
MCLink == {l1, l2}
MCPayment == {p1, p2}
MCMixes ==
    {{"login", "refresh", "logout", "report", "ban", "restore"},
     {"login", "refresh", "forgot", "reset", "erase"},
     {"report", "dismiss", "suspend", "ban", "restore", "remove", "deactivate", "reactivate"},
     {"subscribe", "verify", "decline", "edit", "report", "remove"}}
=============================================================================
