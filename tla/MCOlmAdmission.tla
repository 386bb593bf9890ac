--------------------------- MODULE MCOlmAdmission ---------------------------
(***************************************************************************)
(* Instances of OlmAdmission for TLC: two windows of one device that       *)
(* resolve the attempts of a message and of its edit, a control            *)
(* (OlmAdmission.cfg), and one window that sends a two-part message and    *)
(* leaves requests behind, under fairness (OlmSettles.cfg).                *)
(***************************************************************************)
EXTENDS OlmAdmission, TLC

Windows == Permutations(Consumers)
OneEdit == [l \in Logicals |-> IF l = "edit" THEN "chat" ELSE NoReference]
=============================================================================
