--------------------------- MODULE MCReturnRequests ---------------------------
(* Instances of ReturnRequests for TLC. *)
EXTENDS ReturnRequests, TLC

\* Rows and requests are interchangeable, and returns whose key a buyer may use among
\* themselves.
RowSymmetry ==
  UNION {Permutations(rows) : rows \in {Handlers, Refunds, Settlements, BuyerKeys, Requests \ BuyerKeys}}
=============================================================================
