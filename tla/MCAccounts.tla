---------------------------- MODULE MCAccounts ----------------------------
(* One address, two identities at the providers, two requests at a time.  *)
EXTENDS Accounts

CONSTANTS e1, google1, apple1

MCAddress == [i \in {google1, apple1} |-> e1]
\* Sessions, identities and links are exercised together with what they
\* share rows with.
MCWorkload ==
    {{"login", "refresh", "logout"},
     {"login", "refresh", "logoutAll"},
     {"login", "refresh", "forgot", "reset"},
     {"login", "refresh", "delete"},
     {"register", "oauth", "verify", "resend"},
     {"oauth", "delete"}}
DeletionWorkload == {{"login", "oauth", "delete"}}
=============================================================================
