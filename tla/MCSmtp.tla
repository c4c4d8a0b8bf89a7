------------------------------- MODULE MCSmtp -------------------------------
(***************************************************************************)
(* Instances of Smtp: seven kinds of account and two recipients.           *)
(***************************************************************************)
EXTENDS Smtp

CONSTANTS r1, r2

\* A server on the Internet that wants TLS and a password.
Submission ==
    [use_smtp_auth |-> TRUE, ssl_smtp |-> "STARTTLS", forced |-> "ANY",
     passwd |-> FALSE]

MCAccounts ==
    {Submission,
     [Submission EXCEPT !.passwd = TRUE, !.ssl_smtp = "TUNNEL"],
     [Submission EXCEPT !.forced = "LOGIN"],
     [Submission EXCEPT !.forced = "OAUTH2"],
     [Submission EXCEPT !.forced = "DIGEST_MD5", !.ssl_smtp = "NONE"],
     [Submission EXCEPT !.use_smtp_auth = FALSE],
     [Submission EXCEPT !.use_smtp_auth = FALSE, !.ssl_smtp = "NONE"]}

MCRecipients == {r1, r2}
=============================================================================
