----------------------------- MODULE MCPayment -----------------------------
(***************************************************************************)
(* A small instance of PaymentServer for TLC: two calls, for one order or  *)
(* none, with a method, none, or a number the enum does not name.          *)
(***************************************************************************)
EXTENDS PaymentContract

CONSTANTS c1, c2, o1, t1, t2

MCPayMethods == {"PAYMENT_METHOD_CARD", PAYMENT_METHOD_UNSPECIFIED, "7"}
=============================================================================
