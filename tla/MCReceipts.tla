----------------------------- MODULE MCReceipts -----------------------------
(* Two events, one itemized receipt, four requests.                        *)
EXTENDS Receipts, TLC

CONSTANTS k1, k2, k3

M(key, event, parsed) == [key |-> key, event |-> event, parsed |-> parsed]

Mail     == M(k1, 1, TRUE)
Reused   == M(k1, 2, TRUE)   \* the same key for another payload
Again    == M(k2, 1, TRUE)   \* the same event under another key
Mail2    == M(k2, 2, TRUE)
Note     == M(k3, 2, FALSE)

MCMessage  == {Mail, Reused, Again, Mail2, Note}
W(mail, ops) == [mail |-> mail, ops |-> ops]
MCWorkload == {W({Mail, Reused, Note}, {"approve", "close"}),
               W({Mail, Again}, {"approve"}),
               W({Mail}, {"approve", "reject", "pull"}),
               W({Mail, Mail2}, {"approve", "pull"}),
               W({Mail}, {"approve", "split", "itemize", "pull"})}
Requests == Permutations(Request)
=============================================================================
