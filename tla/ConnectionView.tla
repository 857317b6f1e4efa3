--------------------------- MODULE ConnectionView ---------------------------
(***************************************************************************)
(* What the aggregator promises about one connection (a user and a         *)
(* provider item), as GET /accounts and GET /accounts/{id}/transactions    *)
(* show it.  A connection is linked, re-linked, synced, parked and         *)
(* unlinked, each at one instant: no reader sees half of any of them.      *)
(* LinkSync, where each of these is a handler with awaits in the middle,   *)
(* implements this specification.                                          *)
(***************************************************************************)
CONSTANTS
    Conns,              \* connections
    ProviderAccounts,   \* accounts a provider may list for one
    TxnIds              \* identities of the transactions it may post

VARIABLE conn           \* conn[c]: what the API shows of connection c

View == [linked : BOOLEAN, parked : BOOLEAN,
         pids : SUBSET ProviderAccounts,
         stored : SUBSET (ProviderAccounts \X TxnIds)]

Unlinked == [linked |-> FALSE, parked |-> FALSE, pids |-> {}, stored |-> {}]

Init == conn = [c \in Conns |-> Unlinked]

(* A first callback commits: active, with accounts, nothing stored yet.    *)
Link(c) ==
    /\ ~conn[c].linked
    /\ \E new \in (SUBSET ProviderAccounts) \ {{}} :
         conn' = [conn EXCEPT ![c] =
                    [linked |-> TRUE, parked |-> FALSE, pids |-> new, stored |-> {}]]

(* A later callback commits: accounts are only added, and the link is      *)
(* reactivated or keeps the status it has.                                 *)
Relink(c) ==
    /\ conn[c].linked
    /\ \E more \in SUBSET ProviderAccounts, parked \in {FALSE, conn[c].parked} :
         conn' = [conn EXCEPT ![c] =
                    [linked |-> TRUE, parked |-> parked,
                     pids |-> @.pids \cup more, stored |-> @.stored]]

(* A sync commits: transactions of one account are only added, whatever    *)
(* the status has become meanwhile.                                        *)
Sync(c) ==
    /\ conn[c].linked
    /\ \E x \in conn[c].pids, ids \in SUBSET TxnIds :
         conn' = [conn EXCEPT ![c].stored = @ \cup ({x} \X ids)]

(* The provider rejected the credentials.                                  *)
Park(c) ==
    /\ conn[c].linked /\ ~conn[c].parked
    /\ conn' = [conn EXCEPT ![c].parked = TRUE]

Unlink(c) ==
    /\ conn[c].linked
    /\ conn' = [conn EXCEPT ![c] = Unlinked]

Next ==
    \E c \in Conns :
      conn'[c] # conn[c] /\ (Link(c) \/ Relink(c) \/ Sync(c) \/ Park(c) \/ Unlink(c))

Spec == Init /\ [][Next]_conn

(* A linked connection shows at least one account (without one it could be *)
(* neither synced nor unlinked, both of which go through an account), and  *)
(* transactions of accounts it shows; an unlinked one shows nothing.       *)
Consistent ==
    /\ conn \in [Conns -> View]
    /\ \A c \in Conns :
         /\ conn[c].linked => conn[c].pids # {}
         /\ ~conn[c].linked => conn[c] = Unlinked
         /\ \A t \in conn[c].stored : t[1] \in conn[c].pids
=============================================================================
