------------------------------- MODULE MCInc -------------------------------
(***************************************************************************)
(* Instances of Inc: two POP3 accounts, one of which logs in before it     *)
(* sends, as does a third one that has no server.                          *)
(***************************************************************************)
EXTENDS Inc

MCAccounts == <<1, 2>>
MCPopFirst == {1, 3}
=============================================================================
