--------------------------- MODULE MCProvisioning ---------------------------
(* Instances of Provisioning for TLC. *)
EXTENDS Provisioning

TheUsers     == {"ann"}
TheSsids     == {"home", "cabin"}
ThePasswords == {"right", "wrong"}
TheOpens     == {<<"home", "right">>}
=============================================================================
