------------------------------- MODULE MCPop3 -------------------------------
(***************************************************************************)
(* Small instances of Pop3: two messages, two days, and a handful of       *)
(* account settings.                                                       *)
(***************************************************************************)
EXTENDS Pop3, TLC

CONSTANTS u1, u2

MCUids == {u1, u2}

Plain == [rmmail |-> FALSE, getall |-> FALSE, enable_size_limit |-> FALSE,
          msg_leave_time |-> 0, starttls |-> FALSE, auth |-> "user",
          auth_only |-> FALSE]
Leave == [Plain EXCEPT !.rmmail = TRUE, !.msg_leave_time = 1]
GetAll == [Plain EXCEPT !.getall = TRUE]
Limit == [Plain EXCEPT !.rmmail = TRUE, !.enable_size_limit = TRUE,
                       !.auth = "apop", !.starttls = TRUE]
OAuth == [Plain EXCEPT !.auth = "oauth2", !.auth_only = TRUE]

\* What is kept on the server and what is fetched again: sizes do not matter,
\* and the messages are interchangeable.
RecordPrefs == {Leave, GetAll}
SameSize == [u \in MCUids |-> 1]
Interchangeable == Permutations(MCUids)

\* How a session ends: one message is over the size limit.
SessionPrefs == {Limit, OAuth}

OneOverLimit == (u1 :> 1) @@ (u2 :> 2)
=============================================================================
