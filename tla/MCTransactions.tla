--------------------------- MODULE MCTransactions ---------------------------
(* Small instances of Transactions for TLC: two applications that give     *)
(* their flows the same cookie.                                            *)
EXTENDS Transactions

MCServices == {"a", "b"}
MCPairs == [service_name : Services, cookie : Cookies]

Replies == [requests |-> {"stats", "barrier", "echo"}, commands |-> {}, matches |-> {},
            sends |-> 4, aging |-> FALSE]
Flows == [requests |-> {"flow_mod", "stats"}, commands |-> {"ADD", "DELETE"},
          matches |-> {"m", "n"}, sends |-> 3, aging |-> FALSE]
Owners == [requests |-> {"flow_mod"}, commands |-> {"ADD", "MODIFY", "DELETE"},
           matches |-> {"m"}, sends |-> 3, aging |-> TRUE]
Modify == [Owners EXCEPT !.matches = {"m", "n"}, !.aging = FALSE]

MCRegimes == {Replies, Flows, Owners}
MCModify == {Modify}
=============================================================================
