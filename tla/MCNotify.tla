----------------------------- MODULE MCNotify -----------------------------
(* Small instances of Notify for TLC. *)
EXTENDS Notify, TLC

CONSTANTS m1, c1

NoCallbacks == [c \in {} |-> m1]
OneRead == c1 :> [msg |-> m1, event |-> "read"]

OneSend == {m1}
SendAndCallback == {m1, c1}
===========================================================================
