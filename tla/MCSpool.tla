------------------------------- MODULE MCSpool -------------------------------
(***************************************************************************)
(* Instances of Spool: a message with empty lines at its end, one with     *)
(* From_ lines before what looks like a header and before an empty line,   *)
(* one with a From_ line before text that was not escaped.                 *)
(***************************************************************************)
EXTENDS Spool, TLC

MCMsgs == {"a", "b", "c"}
Line(kind, m) == <<kind, m>>
MCText ==
    [m \in MCMsgs |->
        <<Line("header", m), Blank>> \o
        CASE m = "a" -> <<Line("text", m), Blank, Blank>>
          [] m = "b" -> <<Line("From ", m), Line("header", m), Line("From ", m), Blank>>
          [] m = "c" -> <<Line("From ", m), Line("text", m)>>]

MCFolders == {"inbox", "work"}

Rule(S, actions) == [enabled |-> TRUE, matches |-> S, actions |-> actions]
Act(type) == [type |-> type, dest |-> ""]
To(type, f) == [type |-> type, dest |-> f]

MCRuleSets ==
    {<<>>,
     <<Rule({"a"}, <<To("move", "work")>>), Rule({"a", "b"}, <<Act("delete")>>)>>,
     <<Rule({"a", "b"}, <<Act("exec"), To("copy", "work"), Act("delete")>>)>>,
     <<Rule({"a", "b"}, <<To("copy", "work"), Act("stop")>>), Rule({"a", "c"}, <<Act("delete")>>)>>}
=============================================================================
