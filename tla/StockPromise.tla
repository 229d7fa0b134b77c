----------------------------- MODULE StockPromise -----------------------------
(***************************************************************************)
(* What an inventory row promises the orders that draw from it, however    *)
(* their requests race: units that are left are set aside for an order, and*)
(* of the units set aside for it, and of no others, each is given back once*)
(* or sold once.                                                           *)
(***************************************************************************)
EXTENDS Integers

CONSTANTS
  Orders,  \* the orders that draw from the row
  Stock    \* the units it starts with

VARIABLES
  left,    \* units that no order has been promised
  kept,    \* per order: units set aside for it
  sold     \* per order: units that left the shelf with it

vars == <<left, kept, sold>>

Init ==
  /\ left = Stock
  /\ kept = [o \in Orders |-> 0]
  /\ sold = [o \in Orders |-> 0]

SetAside(o, n) ==
  /\ n <= left
  /\ left' = left - n
  /\ kept' = [kept EXCEPT ![o] = @ + n]
  /\ UNCHANGED sold

GiveBack(o, n) ==
  /\ n <= kept[o]
  /\ left' = left + n
  /\ kept' = [kept EXCEPT ![o] = @ - n]
  /\ UNCHANGED sold

Hand(o, n) ==
  /\ n <= kept[o]
  /\ kept' = [kept EXCEPT ![o] = @ - n]
  /\ sold' = [sold EXCEPT ![o] = @ + n]
  /\ UNCHANGED left

Next == \E o \in Orders, n \in 1 .. Stock : SetAside(o, n) \/ GiveBack(o, n) \/ Hand(o, n)

Spec == Init /\ [][Next]_vars
=============================================================================
