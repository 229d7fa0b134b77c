----------------------------- MODULE OrderStatus -----------------------------
(***************************************************************************)
(* The status vocabularies of OrdersService and the pure functions on      *)
(* them: the transition matrix every handler consults, and the aggregation *)
(* of sub-order statuses into the status of a master order.                *)
(***************************************************************************)
\* The seventeen order statuses (the keys of TRANSITIONS).
Status == {"DRAFT", "SUBMITTED", "PENDING_CONFIRMATION", "ACCEPTED",
           "PARTIALLY_ACCEPTED", "PREPARING", "READY", "ASSIGNED", "PICKED_UP",
           "OUT_FOR_DELIVERY", "DELIVERED", "COMPLETED", "PAYMENT_PENDING",
           "PAYMENT_CONFIRMED", "CANCELLED", "REJECTED", "DISPUTED"}

\* The FSM transition matrix: the statuses that may follow each status.
TRANSITIONS ==
  [DRAFT                |-> {"SUBMITTED"},
   SUBMITTED            |-> {"PENDING_CONFIRMATION"},
   PENDING_CONFIRMATION |-> {"ACCEPTED", "PARTIALLY_ACCEPTED", "REJECTED",
                             "CANCELLED", "PAYMENT_PENDING"},
   ACCEPTED             |-> {"PREPARING", "CANCELLED"},
   PARTIALLY_ACCEPTED   |-> {"PREPARING", "CANCELLED"},
   PREPARING            |-> {"READY", "CANCELLED"},
   READY                |-> {"OUT_FOR_DELIVERY", "ASSIGNED", "DELIVERED", "CANCELLED"},
   ASSIGNED             |-> {"PICKED_UP"},
   PICKED_UP            |-> {"OUT_FOR_DELIVERY"},
   OUT_FOR_DELIVERY     |-> {"DELIVERED"},
   DELIVERED            |-> {"COMPLETED", "DISPUTED"},
   COMPLETED            |-> {"DISPUTED"},
   PAYMENT_PENDING      |-> {"PAYMENT_CONFIRMED", "CANCELLED"},
   PAYMENT_CONFIRMED    |-> {"ACCEPTED", "PARTIALLY_ACCEPTED", "REJECTED", "CANCELLED"},
   CANCELLED            |-> {},
   REJECTED             |-> {},
   DISPUTED             |-> {}]

\* The statuses cancelOrder accepts: its own list, not the matrix above (it
\* adds OUT_FOR_DELIVERY and leaves SUBMITTED out).
CancellableBug == {"PENDING_CONFIRMATION", "ACCEPTED", "PARTIALLY_ACCEPTED",
                   "PREPARING", "READY", "PAYMENT_PENDING", "PAYMENT_CONFIRMED",
                   "OUT_FOR_DELIVERY", "DELIVERED"}
Cancellable == {"PENDING_CONFIRMATION", "ACCEPTED", "PARTIALLY_ACCEPTED",
                "PREPARING", "READY", "PAYMENT_PENDING", "PAYMENT_CONFIRMED",
                "OUT_FOR_DELIVERY"}

\* Every edge a handler may take: the matrix and cancelOrder's own edges.
Edge(from, to) == \/ to \in TRANSITIONS[from]
                  \/ from \in Cancellable /\ to = "CANCELLED"

\* (As below, with some for every in the third row.)
computeMasterStatusBug(S) ==
  IF S \cap {"DELIVERED", "COMPLETED"} # {} THEN "DELIVERED" ELSE "SUBMITTED"

\* computeMasterStatus: the first matching row of the policy, on the SET of
\* sub-order statuses (every and some do not depend on order or multiplicity).
computeMasterStatus(S) ==
  LET all(P) == S \subseteq P
      any(P) == S \cap P # {}
  IN IF S = {} THEN "SUBMITTED"
     ELSE IF all({"COMPLETED"}) THEN "COMPLETED"
     ELSE IF all({"CANCELLED", "REJECTED"}) THEN "CANCELLED"
     ELSE IF all({"DELIVERED", "COMPLETED"}) THEN "DELIVERED"
     ELSE IF any({"DISPUTED"}) THEN "DISPUTED"
     ELSE IF any({"OUT_FOR_DELIVERY", "ASSIGNED", "PICKED_UP"}) THEN "OUT_FOR_DELIVERY"
     ELSE IF any({"PREPARING", "READY"}) THEN "PREPARING"
     ELSE IF any({"ACCEPTED", "PARTIALLY_ACCEPTED"}) THEN "ACCEPTED"
     ELSE "SUBMITTED"
==============================================================================
