----------------------- MODULE MCAuthorityConnection -----------------------
(* Two processes.  The daemon makes a transaction, one nested in it, and a *)
(* close.  The worker makes a transaction and a read from inside it.  What *)
(* is called from inside may come when that transaction is over.           *)
EXTENDS AuthorityConnection

MCProcess == {"daemon", "worker"}
MCOf == [t1 |-> "daemon", inner |-> "daemon", close |-> "daemon",
         w1 |-> "worker", look |-> "worker"]
MCCall == DOMAIN MCOf
MCKind == [t1 |-> "tx", inner |-> "tx", close |-> "close",
           w1 |-> "tx", look |-> "read"]
MCInside == [c \in MCCall |-> CASE c = "inner" -> "t1"
                               [] c = "look" -> "w1"
                               [] OTHER -> "none"]
=============================================================================
