------------------------------- MODULE MCLogin ------------------------------
(***************************************************************************)
(* Instances of Login for TLC: one user whose token is restricted, one     *)
(* whose list does not export as []string, one who is turned down.         *)
(***************************************************************************)
EXTENDS Login, TLC

CONSTANTS restricted, unrestricted, refused

MCUser == {restricted, unrestricted, refused}
MCHookOf ==
    (restricted :> [kind |-> "object", list |-> "strings", apps |-> {"shop"}])
    @@ (unrestricted :> [kind |-> "object", list |-> "other", apps |-> {}])
    @@ (refused :> [kind |-> "falsy", list |-> "undefined", apps |-> {}])
=============================================================================
