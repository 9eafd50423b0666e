----------------------------- MODULE MCDelivery -----------------------------
(* Constant values for model checking Delivery. *)
EXTENDS Delivery

\* Message 1 has routing key "a", every other message routing key "b".
TwoKeys == [m \in Msgs |-> IF m = 1 THEN "a" ELSE "b"]

\* Every process runs the same release.
OneRelease == [i \in Instances |-> {"a", "b"}]

\* One process runs a release that does not know routing key "a" yet.
NewProcess == CHOOSE i \in Instances : TRUE
RollingRelease == [i \in Instances |-> IF i = NewProcess THEN {"a", "b"}
                                                         ELSE {"b"}]
=============================================================================
