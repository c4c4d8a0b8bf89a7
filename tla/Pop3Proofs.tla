----------------------------- MODULE Pop3Proofs -----------------------------
(***************************************************************************)
(* Theorems about Pop3, for any set of messages, any clock, any settings.  *)
(***************************************************************************)
EXTENDS Pop3, TLAPS, FiniteSetTheorems

\* The session has listed the maildrop and has not sent QUIT.
ListStates == {"GETRANGE_LAST", "GETRANGE_UIDL", "GETRANGE_UIDL_RECV",
               "GETSIZE_LIST", "GETSIZE_LIST_RECV", "RETR", "RETR_RECV",
               "DELETE"}

LoginStates == {"READY", "STLS", "GETAUTH_USER", "GETAUTH_PASS", "GETAUTH_APOP",
                "GETAUTH_AUTH", "GETAUTH_AUTH_DATA", "GETRANGE_STAT"}

\* Then cur_msg is the number of a message; before, it is 0.
CurOK ==
    /\ sess = "RECV" /\ state \in ListStates => cur_msg \in 1..count
    /\ state \in LoginStates => cur_msg = 0
    /\ sess = "READY" => state = "READY"

-----------------------------------------------------------------------------
\* Type correctness.

\* What a server lists is a sequence of its messages, as long as they are many.
LEMMA Listing ==
    ASSUME NEW S, S \subseteq Uids, NEW l \in Listings(S)
    PROVE  /\ l \in Seq(Uids)
           /\ Len(l) = Cardinality(S) /\ Cardinality(S) \in Nat
           /\ Members(l) \subseteq S
           /\ S # {} => Len(l) >= 1
<1>1. IsFiniteSet(S)
  BY UidsFinite, FS_Subset
<1>2. Cardinality(S) \in Nat
  BY <1>1, FS_CardinalityType
<1>3. l \in [1..Cardinality(S) -> S]
  BY DEF Listings
<1>4. l \in Seq(Uids) /\ Len(l) = Cardinality(S)
  BY <1>2, <1>3
<1>5. S # {} => Cardinality(S) # 0
  BY <1>1, FS_EmptySet
<1> QED
  BY <1>2, <1>3, <1>4, <1>5 DEF Members

LEMMA InitType == Init => TypeOK /\ CurOK
<1> SUFFICES ASSUME Init PROVE TypeOK /\ CurOK
  OBVIOUS
<1>1. count = 0 /\ list \in Seq(Uids)
  BY DEF Init, count
<1>2. << >> \in [1..0 -> MsgInfo]
  OBVIOUS
<1>3. NoRecords \in [Uids -> Nat]
  BY DEF NoRecords, RECV_TIME_NONE
<1>4. PersistentOK
  BY <1>3 DEF Init, PersistentOK
<1>5. StateOK
  BY DEF Init, StateOK, SessStates, Pop3States
<1>6. MsgOK
  <2>1. msg \in [1..count -> MsgInfo] /\ cur_msg \in 0..count
    BY <1>1, <1>2 DEF Init
  <2>2. prefs \in Prefs /\ uidl_table \in [Uids -> Nat]
    BY <1>3 DEF Init
  <2>3. new_msg_exist \in BOOLEAN /\ uidl_is_valid \in BOOLEAN
    BY DEF Init
  <2> QED
    BY <1>1, <2>1, <2>2, <2>3 DEF MsgOK
<1>7. ServerOK /\ ObserversOK
  BY DEF Init, ServerOK, ObserversOK
<1>8. sess = "IDLE" /\ cur_msg = 0
  BY DEF Init
<1> QED
  BY <1>4, <1>5, <1>6, <1>7, <1>8 DEF TypeOK, CurOK

\* An exchange that only moves the state machine.
LEMMA DialogueType ==
    ASSUME TypeOK, CurOK, Dialogue,
           sess' \in {sess, "ERROR"}, sess = "RECV", state' \in Pop3States,
           error_val' \in {"SUCCESS", "AUTHFAIL", "LOCKBUSY", "ERROR",
                           "PROTOCOL", "SOCKET", "IOERR"},
           sess' = "RECV" /\ state' \in ListStates =>
              sess = "RECV" /\ state \in ListStates,
           state' \in LoginStates => state \in LoginStates
    PROVE  TypeOK' /\ CurOK'
<1>1. PersistentOK'
  BY DEF Dialogue, persistent, TypeOK, PersistentOK
<1>2. StateOK'
  BY DEF Dialogue, Read, TypeOK, StateOK, SessStates
<1>3. MsgOK'
  BY DEF Dialogue, server, TypeOK, MsgOK, count
<1>4. ServerOK' /\ ObserversOK'
  BY DEF Dialogue, server, observers, TypeOK, ServerOK, ObserversOK
<1>5. CurOK'
  BY DEF Dialogue, server, CurOK, count
<1> QED
  BY <1>1, <1>2, <1>3, <1>4, <1>5 DEF TypeOK

\* The exchanges up to LIST that only move the state machine.
LEMMA LoginType ==
    ASSUME TypeOK, CurOK,
           \/ CommandFailed \/ Greeting \/ StlsOk \/ UserOk \/ AuthReply
           \/ LoggedIn \/ RangeMalformed \/ UidlOk \/ UidlNotSupported
           \/ LastNotSupported \/ ListingMalformed \/ ListOk \/ RetrOk
    PROVE  TypeOK' /\ CurOK'
<1>1. /\ state \in Pop3States
      /\ error_val \in {"SUCCESS", "AUTHFAIL", "LOCKBUSY", "ERROR", "PROTOCOL",
                        "SOCKET", "IOERR"}
  BY DEF TypeOK, StateOK
<1>2. CASE CommandFailed
  <2>1. PICK line \in Lines : /\ PopOk(line) \notin {"SUCCESS", "NOTSUPPORTED"}
                              /\ error_val' = PopOk(line)
    BY <1>2 DEF CommandFailed
  <2>2. error_val' \in {"AUTHFAIL", "LOCKBUSY", "ERROR", "PROTOCOL"}
    BY <2>1 DEF Lines, PopOk
  <2>3. Dialogue /\ sess = "RECV" /\ sess' = sess /\ state' = "LOGOUT"
    BY <1>2 DEF CommandFailed, Send
  <2> QED
    BY <1>1, <2>2, <2>3, DialogueType
       DEF Pop3States, ListStates, LoginStates
<1>3. CASE Greeting
  BY <1>1, <1>3, DialogueType
     DEF Greeting, Authenticate, Send, Pop3States, SessStates,
         ListStates, LoginStates
<1>4. CASE StlsOk
  BY <1>1, <1>4, DialogueType
     DEF StlsOk, Authenticate, Send, Fail, Pop3States, SessStates,
         ListStates, LoginStates
<1>5. CASE UserOk
  BY <1>1, <1>5, DialogueType
     DEF UserOk, Good, Send, Pop3States, ListStates, LoginStates
<1>6. CASE AuthReply
  BY <1>1, <1>6, DialogueType
     DEF AuthReply, Send, Fail, Pop3States, SessStates, ListStates,
         LoginStates
<1>7. CASE LoggedIn
  BY <1>1, <1>7, DialogueType
     DEF LoggedIn, Good, Send, Pop3States, ListStates, LoginStates
<1>8. CASE RangeMalformed
  BY <1>1, <1>8, DialogueType
     DEF RangeMalformed, Fail, SessStates
<1>9. CASE UidlOk
  BY <1>1, <1>9, DialogueType
     DEF UidlOk, Good, Send, Pop3States, ListStates, LoginStates
<1>10. CASE UidlNotSupported
  BY <1>1, <1>10, DialogueType
     DEF UidlNotSupported, Good, Send, Pop3States, ListStates,
         LoginStates
<1>11. CASE LastNotSupported
  BY <1>1, <1>11, DialogueType
     DEF LastNotSupported, Good, Send, Pop3States, ListStates,
         LoginStates
<1>12. CASE ListingMalformed
  BY <1>1, <1>12, DialogueType
     DEF ListingMalformed, Fail, SessStates
<1>13. CASE ListOk
  BY <1>1, <1>13, DialogueType
     DEF ListOk, Good, Send, Pop3States, ListStates, LoginStates
<1>14. CASE RetrOk
  BY <1>1, <1>14, DialogueType
     DEF RetrOk, Good, Pop3States, SessStates, ListStates, LoginStates
<1> QED
  BY <1>2, <1>3, <1>4, <1>5, <1>6, <1>7, <1>8, <1>9, <1>10, <1>11, <1>12,
     <1>13, <1>14

LEMMA StatType == TypeOK /\ CurOK /\ StatOk => TypeOK' /\ CurOK'
<1> SUFFICES ASSUME TypeOK, CurOK, StatOk PROVE TypeOK' /\ CurOK'
  OBVIOUS
<1> USE DEF TypeOK
<1>1. /\ list' \in Seq(Uids) /\ Len(list') \in Nat
      /\ maildrop # {} => Len(list') >= 1
  BY Listing DEF StatOk, PersistentOK
<1>2. PersistentOK' /\ ServerOK' /\ ObserversOK'
  BY DEF StatOk, persistent, observers, PersistentOK, ServerOK, ObserversOK
<1>3. /\ sess' = sess /\ sess = "RECV"
      /\ state' \in {"LOGOUT", "GETRANGE_UIDL"}
  BY DEF StatOk, Good, Send
<1>4. StateOK'
  BY <1>3 DEF StatOk, Good, Read, StateOK, Pop3States
<1>5. msg' \in [1..count' -> MsgInfo]
  BY <1>1 DEF StatOk, count, NewMsg, MsgInfo, RECV_TIME_NONE
<1>6. /\ cur_msg' \in 0..count'
      /\ state' = "GETRANGE_UIDL" => cur_msg' \in 1..count'
  <2>1. CASE maildrop = {}
    BY <1>1, <2>1 DEF StatOk, Good, Send, CurOK, LoginStates, count
  <2>2. CASE maildrop # {}
    BY <1>1, <2>2 DEF StatOk, count
  <2> QED
    BY <2>1, <2>2
<1>7. new_msg_exist' \in BOOLEAN /\ uidl_is_valid' \in BOOLEAN
  BY DEF StatOk, MsgOK
<1>8. prefs' \in Prefs /\ uidl_table' \in [Uids -> Nat]
  BY DEF StatOk, MsgOK
<1>9. MsgOK'
  BY <1>1, <1>5, <1>6, <1>7, <1>8 DEF MsgOK
<1>10. CurOK'
  BY <1>3, <1>6 DEF CurOK, ListStates, LoginStates
<1> QED
  BY <1>2, <1>4, <1>9, <1>10

\* What pop3_lookup_next leaves behind.
LEMMA LookupNextType ==
    ASSUME TypeOK, NEW m, NEW c \in 1..count, LookupNext(m, c)
    PROVE  /\ sess' = sess /\ state' \in {"LOGOUT", "DELETE", "RETR"}
           /\ cur_msg' \in 1..count
<1>1. count \in Nat
  BY DEF TypeOK, MsgOK, count
<1> QED
  BY <1>1 DEF LookupNext, Send, IsFirst

LEMMA AdvanceType ==
    ASSUME TypeOK, NEW m, cur_msg \in 1..count, Advance(m)
    PROVE  /\ sess' = sess /\ state' \in {"LOGOUT", "DELETE", "RETR"}
           /\ cur_msg' \in 1..count
<1>1. count \in Nat
  BY DEF TypeOK, MsgOK, count
<1>2. CASE cur_msg = count
  BY <1>2 DEF Advance, Send
<1>3. CASE cur_msg # count
  <2>1. LookupNext(m, cur_msg + 1) /\ cur_msg + 1 \in 1..count
    BY <1>1, <1>3 DEF Advance
  <2> QED
    BY <2>1, LookupNextType
<1> QED
  BY <1>2, <1>3

\* The steps that read the listing, or a message.
LEMMA InnerType ==
    ASSUME TypeOK, CurOK,
           LastOk \/ UidlRecv \/ ListRecv \/ DropFailed \/ RetrRecv \/ DeleOk
    PROVE  TypeOK' /\ CurOK'
<1> USE DEF TypeOK
<1>1. count \in Nat /\ list \in Seq(Uids) /\ count = Len(list)
  BY DEF MsgOK, count
<1>2. cur_msg \in 1..count /\ sess = "RECV"
  BY DEF CurOK, ListStates, LastOk, Good, UidlRecv, ListRecv, DropFailed,
     RetrRecv, DeleOk
<1>3. list' = list /\ count' = count /\ list[cur_msg] \in Uids
  <2>1. list' = list
    BY DEF LastOk, UidlRecv, ListRecv, DropFailed, RetrRecv, DeleOk, server
  <2>2. list[cur_msg] \in Uids
    BY <1>1, <1>2
  <2> QED
    BY <2>1, <2>2 DEF count
<1>4. PersistentOK'
  BY DEF LastOk, UidlRecv, ListRecv, DropFailed, RetrRecv, DeleOk, persistent,
     PersistentOK
<1>5. ServerOK'
  BY <1>3 DEF LastOk, UidlRecv, ListRecv, DropFailed, RetrRecv, DeleOk, server,
     ServerOK
<1>6. ObserversOK'
  BY <1>3 DEF LastOk, UidlRecv, ListRecv, DropFailed, RetrRecv, DeleOk,
     observers, ObserversOK
<1>7. msg' \in [1..count -> MsgInfo]
  <2>1. now \in Nat
    BY DaysAssumption DEF PersistentOK
  <2>2. CASE LastOk \/ DropFailed
    BY <2>2 DEF LastOk, DropFailed, MsgOK
  <2>3. CASE UidlRecv
    <3>1. \A r \in MsgInfo, t \in Nat, b \in BOOLEAN :
             [r EXCEPT !.uidl = TRUE, !.recv_time = t, !.received = b]
                \in MsgInfo
      BY DEF MsgInfo
    <3>2. \A n \in 1..count : msg[n] \in MsgInfo /\ uidl_table[list[n]] \in Nat
      BY <1>1 DEF MsgOK
    <3>3. PICK bad \in SUBSET (1..count) :
             msg' = [n \in 1..count |->
                       IF n \in bad THEN msg[n]
                       ELSE [msg[n] EXCEPT
                               !.uidl = TRUE,
                               !.recv_time = uidl_table[list[n]],
                               !.received = ~prefs.getall /\
                                  uidl_table[list[n]] # RECV_TIME_NONE]]
      BY <2>3 DEF UidlRecv
    <3> DEFINE b(n) == ~prefs.getall /\ uidl_table[list[n]] # RECV_TIME_NONE
    <3>4. \A n \in 1..count : b(n) \in BOOLEAN
      OBVIOUS
    <3>5. \A n \in 1..count :
             [msg[n] EXCEPT !.uidl = TRUE, !.recv_time = uidl_table[list[n]],
                            !.received = b(n)] \in MsgInfo
      BY <3>1, <3>2, <3>4
    <3> QED
      BY <3>2, <3>3, <3>5
  <2>4. CASE ListRecv
    <3>1. \A n \in 1..count : Size[list[n]] \in 0..2
      BY <1>1, SizeAssumption
    <3>2. \A r \in MsgInfo, z \in 0..2 : [r EXCEPT !.size = z] \in MsgInfo
      BY DEF MsgInfo
    <3>3. \A n \in 1..count :
             [msg[n] EXCEPT !.size = Size[list[n]]] \in MsgInfo
      BY <3>1, <3>2 DEF MsgOK
    <3> QED
      BY <2>4, <3>3 DEF ListRecv
  <2>5. CASE RetrRecv
    <3>1. PICK drop \in Drops : msg' = ReceivedMsg(drop)
      BY <2>5 DEF RetrRecv
    <3>2. \A r \in MsgInfo, t \in Nat :
             [r EXCEPT !.received = TRUE, !.recv_time = t] \in MsgInfo
      BY DEF MsgInfo
    <3> QED
      BY <1>2, <2>1, <3>1, <3>2 DEF ReceivedMsg, Drops, MsgOK, RECV_TIME_KEEP,
         RECV_TIME_DELETE
  <2>6. CASE DeleOk
    <3>1. \A r \in MsgInfo, t \in Nat :
             [r EXCEPT !.recv_time = t, !.deleted = TRUE] \in MsgInfo
      BY DEF MsgInfo
    <3> QED
      BY <1>2, <2>6, <3>1 DEF DeleOk, MsgOK, RECV_TIME_DELETE
  <2> QED
    BY <2>2, <2>3, <2>4, <2>5, <2>6
<1>8. /\ sess' \in {sess, "ERROR"} /\ cur_msg' \in 0..count
      /\ state' \in ListStates \cup {"LOGOUT"}
      /\ sess' = "RECV" /\ state' \in ListStates => cur_msg' \in 1..count
  <2>1. CASE LastOk
    <3>1. /\ sess' = sess
          /\ \/ state' = "LOGOUT" /\ cur_msg' = 0
             \/ state' = "GETSIZE_LIST" /\ cur_msg' \in 1..count
      BY <1>1, <2>1 DEF LastOk, Send
    <3> QED
      BY <1>1, <3>1 DEF ListStates
  <2>2. CASE UidlRecv
    <3>1. /\ sess' = sess
          /\ \/ state' = "LOGOUT" /\ cur_msg' = cur_msg
             \/ state' = "GETSIZE_LIST" /\ cur_msg' \in 1..count
      BY <2>2 DEF UidlRecv, IsFirst, Send
    <3> QED
      BY <1>1, <1>2, <3>1 DEF ListStates
  <2>3. CASE ListRecv
    <3>1. LookupNext(msg', cur_msg)
      BY <2>3 DEF ListRecv
    <3> QED
      BY <1>1, <1>2, <3>1, LookupNextType DEF ListStates
  <2>4. CASE DropFailed
    BY <1>1, <1>2, <2>4 DEF DropFailed, Fail, ListStates
  <2>5. CASE RetrRecv
    <3>1. \/ AfterRetr(msg'[cur_msg])
          \/ state' = "RETR_RECV" /\ sess' = "ERROR" /\ cur_msg' = cur_msg
      BY <2>5 DEF RetrRecv, Fail
    <3>2. CASE AfterRetr(msg'[cur_msg])
      <4>1. \/ sess' = sess /\ state' = "DELETE" /\ cur_msg' = cur_msg
            \/ Advance(msg')
        BY <3>2 DEF AfterRetr, Send
      <4> QED
        BY <1>1, <1>2, <4>1, AdvanceType DEF ListStates
    <3> QED
      BY <1>1, <1>2, <3>1, <3>2 DEF ListStates
  <2>6. CASE DeleOk
    <3>1. Advance(msg')
      BY <2>6 DEF DeleOk
    <3> QED
      BY <1>1, <1>2, <3>1, AdvanceType DEF ListStates
  <2> QED
    BY <2>1, <2>2, <2>3, <2>4, <2>5, <2>6
<1>9. StateOK'
  BY <1>8 DEF SessStates, Pop3States, ListStates, LastOk, UidlRecv, ListRecv, DropFailed, RetrRecv, DeleOk, Good,
     Read, StateOK
<1>10. new_msg_exist' \in BOOLEAN /\ uidl_is_valid' \in BOOLEAN
  BY DEF LastOk, UidlRecv, ListRecv, DropFailed, RetrRecv, DeleOk, MsgOK
<1>11. prefs' \in Prefs /\ uidl_table' \in [Uids -> Nat]
  BY DEF LastOk, UidlRecv, ListRecv, DropFailed, RetrRecv, DeleOk, MsgOK
<1>12. MsgOK'
  BY <1>1, <1>3, <1>7, <1>8, <1>10, <1>11 DEF MsgOK
<1>13. CurOK'
  BY <1>2, <1>3, <1>8 DEF CurOK, ListStates, LoginStates
<1> QED
  BY <1>4, <1>5, <1>6, <1>9, <1>12, <1>13

\* What the lower layers, the server and the sender of mail do.
LEMMA OuterType ==
    ASSUME TypeOK, CurOK,
           \/ Connect \/ Broken \/ Timeout \/ Cancel \/ QuitReply
           \/ ServerUpdate \/ (\E u \in Uids : Arrive(u)) \/ UNCHANGED vars
    PROVE  TypeOK' /\ CurOK'
<1> USE DEF TypeOK
<1>1. PersistentOK'
  BY DEF Connect, Broken, Timeout, Cancel, QuitReply, ServerUpdate, Arrive,
     vars, persistent, PersistentOK
<1>2. sess' \in SessStates
  BY DEF Connect, Broken, Timeout, Cancel, QuitReply, ServerUpdate, Arrive,
     vars, session, StateOK, SessStates
<1>3. /\ state' \in {state, "DONE", "ERROR"}
      /\ error_val' = error_val /\ inc_state' \in {inc_state, "CANCEL"}
  BY DEF Connect, Broken, Timeout, Cancel, QuitReply, ServerUpdate, Arrive,
     vars, session, dialogue
<1>4. timer' \in BOOLEAN
  BY DEF Connect, Broken, Timeout, Cancel, QuitReply, ServerUpdate, Arrive,
     vars, session, StateOK
<1>5. StateOK'
  BY <1>2, <1>3, <1>4 DEF StateOK, Pop3States
<1>6. UNCHANGED <<prefs, uidl_table, list, msg, cur_msg, new_msg_exist,
                  uidl_is_valid>>
  BY DEF Connect, Broken, Timeout, Cancel, QuitReply, ServerUpdate, Arrive,
     vars, session, dialogue, server
<1>7. MsgOK'
  BY <1>6 DEF MsgOK, count
<1>8. ServerOK' /\ ObserversOK'
  BY DEF Connect, Broken, Timeout, Cancel, QuitReply, ServerUpdate, Arrive,
     vars, session, server, observers, ServerOK, ObserversOK
<1>9. state' = state \/ state' \notin ListStates \cup LoginStates
  BY <1>3 DEF ListStates, LoginStates
<1>10. \/ sess' = sess /\ (sess = "READY" => state' = state)
       \/ sess' = "RECV" /\ state' = "READY"
       \/ sess' \notin {"READY", "RECV"}
  BY DEF Connect, Broken, Timeout, Cancel, QuitReply, ServerUpdate, Arrive,
     vars, session, dialogue, CurOK
<1>11. CurOK'
  BY <1>6, <1>9, <1>10 DEF CurOK, count, LoginStates, ListStates
<1> QED
  BY <1>1, <1>5, <1>7, <1>8, <1>11

\* A session begins.
LEMMA StartType == TypeOK /\ Start => TypeOK' /\ CurOK'
<1> SUFFICES ASSUME TypeOK, Start PROVE TypeOK' /\ CurOK'
  OBVIOUS
<1> USE DEF TypeOK
<1>1. count' = 0 /\ list' \in Seq(Uids) /\ cur_msg' = 0
  BY DEF Start, count
<1>2. << >> \in [1..0 -> MsgInfo]
  OBVIOUS
<1>3. PersistentOK' /\ ServerOK'
  BY DEF Start, PersistentOK, ServerOK
<1>4. StateOK' /\ ObserversOK'
  BY DEF Start, StateOK, SessStates, Pop3States, ObserversOK
<1>5. new_msg_exist' \in BOOLEAN /\ uidl_is_valid' \in BOOLEAN
  BY DEF Start
<1>6. prefs' \in Prefs /\ uidl_table' \in [Uids -> Nat]
  BY DEF Start, PersistentOK
<1>7. msg' \in [1..count' -> MsgInfo]
  BY <1>1, <1>2 DEF Start
<1>8. MsgOK'
  BY <1>1, <1>5, <1>6, <1>7 DEF MsgOK
<1>9. CurOK'
  BY <1>1 DEF Start, CurOK, ListStates
<1> QED
  BY <1>3, <1>4, <1>8, <1>9

\* The list pop3_write_uidl_list writes is one that can be read back.
LEMMA NewListType ==
    ASSUME MsgOK
    PROVE  /\ NewList \in [Uids -> Nat]
           /\ \A u \in Uids : NewList[u] # RECV_TIME_NONE =>
                 \E n \in 1..count : /\ list[n] = u
                                     /\ \/ NewList[u] = msg[n].recv_time
                                        \/ msg[n].recv_time = RECV_TIME_NONE
<1> USE DEF RECV_TIME_NONE, RECV_TIME_RECEIVED
<1>1. \A n \in Written : n \in 1..count /\ msg[n].recv_time \in Nat
  BY DEF Written, MsgOK, MsgInfo
<1>2. ASSUME NEW u \in Uids
      PROVE  /\ NewList[u] \in Nat
             /\ NewList[u] # RECV_TIME_NONE =>
                   \E n \in 1..count : /\ list[n] = u
                                       /\ \/ NewList[u] = msg[n].recv_time
                                          \/ msg[n].recv_time = RECV_TIME_NONE
  <2>1. CASE \E n \in Written : list[n] = u
    <3> DEFINE n == CHOOSE i \in Written : list[i] = u
    <3>1. n \in Written /\ list[n] = u
      BY <2>1
    <3>2. NewList[u] = IF msg[n].recv_time = RECV_TIME_NONE
                       THEN RECV_TIME_RECEIVED ELSE msg[n].recv_time
      BY <2>1 DEF NewList
    <3> HIDE DEF n
    <3>3. n \in 1..count /\ msg[n].recv_time \in Nat
      BY <1>1, <3>1
    <3>4. NewList[u] \in Nat
      BY <3>2, <3>3
    <3> QED
      BY <3>1, <3>2, <3>3, <3>4
  <2>2. CASE ~\E n \in Written : list[n] = u
    BY <2>2 DEF NewList
  <2> QED
    BY <2>1, <2>2
<1> QED
  BY <1>2 DEF NewList

\* A session ends, well or badly.
LEMMA EndingType ==
    ASSUME TypeOK, CurOK, End \/ Crash
    PROVE  TypeOK' /\ CurOK'
<1> USE DEF TypeOK
<1>1. NoRecords \in [Uids -> Nat]
  BY DEF NoRecords, RECV_TIME_NONE
<1>2. CASE Destroy /\ uidl_file' \in [Uids -> Nat] /\ lapsed' \subseteq handled
  <2>1. count' = 0 /\ list' \in Seq(Uids) /\ cur_msg' = 0
    BY <1>2 DEF Destroy, count
  <2>2. << >> \in [1..0 -> MsgInfo]
    OBVIOUS
  <2>3. msg' \in [1..count' -> MsgInfo]
    BY <1>2, <2>1, <2>2 DEF Destroy
  <2>4. uidl_table' \in [Uids -> Nat] /\ prefs' \in Prefs
    BY <1>1, <1>2 DEF Destroy, MsgOK
  <2>5. new_msg_exist' \in BOOLEAN /\ uidl_is_valid' \in BOOLEAN
    BY <1>2 DEF Destroy
  <2>6. MsgOK'
    BY <2>1, <2>3, <2>4, <2>5 DEF MsgOK
  <2>7. PersistentOK' /\ ObserversOK'
    BY <1>2 DEF Destroy, PersistentOK, ObserversOK
  <2>8. StateOK' /\ ServerOK'
    BY <1>2 DEF Destroy, StateOK, SessStates, Pop3States, ServerOK
  <2>9. CurOK'
    BY <1>2, <2>1 DEF Destroy, CurOK
  <2> QED
    BY <2>6, <2>7, <2>8, <2>9
<1>3. CASE EndUnrecorded
  BY <1>2, <1>3 DEF EndUnrecorded, PersistentOK, ObserversOK
<1>4. CASE EndRecorded
  <2>1. PersistentOK' /\ StateOK'
    BY <1>1, <1>4 DEF EndRecorded, dialogue, PersistentOK, StateOK, SessStates
  <2>2. UNCHANGED <<prefs, uidl_table, list, msg, cur_msg, new_msg_exist,
                    uidl_is_valid>>
    BY <1>4 DEF EndRecorded, dialogue, server
  <2>3. MsgOK'
    BY <2>2 DEF MsgOK, count
  <2>4. ServerOK' /\ ObserversOK'
    BY <1>4 DEF EndRecorded, server, observers, ServerOK, ObserversOK
  <2>5. sess' = "REPLACING" /\ state' = state /\ cur_msg' = cur_msg
    BY <1>4, <2>2 DEF EndRecorded, dialogue
  <2>6. CurOK'
    BY <2>5 DEF CurOK
  <2> QED
    BY <2>1, <2>3, <2>4, <2>6
<1>5. CASE Replace
  BY <1>2, <1>5, NewListType DEF Replace, PersistentOK, ObserversOK
<1>6. CASE Crash
  BY <1>2, <1>6 DEF Crash, PersistentOK, ObserversOK
<1> QED
  BY <1>3, <1>4, <1>5, <1>6 DEF End

LEMMA TypeStep == TypeOK /\ CurOK /\ [Next]_vars => TypeOK' /\ CurOK'
<1> SUFFICES ASSUME TypeOK, CurOK, [Next]_vars PROVE TypeOK' /\ CurOK'
  OBVIOUS
<1> QED
  BY StartType, LoginType, StatType, InnerType, OuterType, EndingType
     DEF Next, Reply, Environment

\* Every variable keeps its type, and cur_msg is the number of a message.
THEOREM TypeCorrect == Spec => []TypeOK
<1>1. Spec => [](TypeOK /\ CurOK)
  BY InitType, TypeStep, PTL DEF Spec
<1> QED
  BY <1>1, PTL

-----------------------------------------------------------------------------
\* Nothing is claimed, or deleted, that was not handled.

\* A message with this recv_time may be deleted from the server.
Due(time) ==
    /\ Received(time)
    /\ \/ time = RECV_TIME_DELETE
       \/ prefs.rmmail /\ now - time >= prefs.msg_leave_time

TableSound == \A u \in Uids : Received(uidl_table[u]) => u \in handled
MsgSound ==
    \A n \in 1..count : Received(msg[n].recv_time) => list[n] \in handled
\* What is received has a recv_time to be written.
MsgKnown == \A n \in 1..count : msg[n].received => msg[n].recv_time # RECV_TIME_NONE
MarkedSound == marked \subseteq handled
DeleteSound ==
    sess = "RECV" /\ state = "DELETE" => Due(msg[cur_msg].recv_time)
\* What the session lists stays on the server until QUIT.
Listed == sess = "RECV" /\ state \in ListStates => Members(list) \subseteq maildrop

Sound == /\ RecordsSound /\ TableSound /\ MsgSound /\ MsgKnown /\ MarkedSound
         /\ DeleteSound /\ Listed

LEMMA InitSound == Init => Sound
<1> SUFFICES ASSUME Init PROVE Sound
  OBVIOUS
<1>1. RecordsSound /\ TableSound
  BY DEF Init, RecordsSound, TableSound, NoRecords, Received
<1>2. MsgSound /\ MsgKnown /\ MarkedSound
  BY DEF Init, MsgSound, MsgKnown, MarkedSound, count
<1>3. DeleteSound /\ Listed
  BY DEF Init, DeleteSound, Listed
<1> QED
  BY <1>1, <1>2, <1>3 DEF Sound

\* Steps that leave the records and the numbering alone.
LEMMA QuietSound ==
    ASSUME Sound,
           UNCHANGED <<uidl_file, uidl_table, msg, list>>,
           handled \subseteq handled', marked' \subseteq marked,
           sess' = "RECV" /\ state' = "DELETE" =>
              /\ sess = "RECV" /\ state = "DELETE"
              /\ UNCHANGED <<now, prefs, cur_msg>>,
           sess' = "RECV" /\ state' \in ListStates =>
              /\ sess = "RECV" /\ state \in ListStates
              /\ maildrop \subseteq maildrop'
    PROVE  Sound'
<1>1. RecordsSound' /\ TableSound'
  BY DEF Sound, RecordsSound, TableSound
<1>2. MsgSound' /\ MsgKnown' /\ MarkedSound'
  BY DEF Sound, MsgSound, MsgKnown, MarkedSound, count
<1>3. DeleteSound'
  BY DEF Sound, DeleteSound, Due
<1>4. Listed'
  BY DEF Sound, Listed, Members
<1> QED
  BY <1>1, <1>2, <1>3, <1>4 DEF Sound

\* An exchange that only moves the state machine.
LEMMA DialogueSound ==
    ASSUME Sound,
           \/ CommandFailed \/ Greeting \/ StlsOk \/ UserOk \/ AuthReply
           \/ LoggedIn \/ RangeMalformed \/ UidlOk \/ UidlNotSupported
           \/ LastNotSupported \/ ListingMalformed \/ ListOk \/ RetrOk
    PROVE  Sound'
<1>1. Dialogue
  BY DEF CommandFailed, Greeting, StlsOk, UserOk, AuthReply, LoggedIn,
     RangeMalformed, UidlOk, UidlNotSupported, LastNotSupported,
     ListingMalformed, ListOk, RetrOk
<1>2. /\ UNCHANGED <<uidl_file, uidl_table, msg, list>>
      /\ handled' = handled /\ marked' = marked /\ maildrop' = maildrop
  BY <1>1 DEF Dialogue, persistent, server, observers
<1>3. sess' = "RECV" => state' # "DELETE"
  BY DEF CommandFailed, Greeting, StlsOk, UserOk, AuthReply, LoggedIn,
     RangeMalformed, UidlOk, UidlNotSupported, LastNotSupported,
     ListingMalformed, ListOk, RetrOk, Authenticate, Send, Fail
<1>4. sess' = "RECV" /\ state' \in ListStates =>
        sess = "RECV" /\ state \in ListStates
  BY DEF CommandFailed, Greeting, StlsOk, UserOk, AuthReply, LoggedIn,
     RangeMalformed, UidlOk, UidlNotSupported, LastNotSupported,
     ListingMalformed, ListOk, RetrOk, Authenticate, Good, Send, Fail,
     ListStates
<1> QED
  BY <1>2, <1>3, <1>4, QuietSound

\* What else leaves the records alone.
LEMMA OuterSound ==
    ASSUME TypeOK, CurOK, Sound,
           \/ Connect \/ Broken \/ Timeout \/ Cancel \/ QuitReply \/ LastOk
           \/ DropFailed \/ ServerUpdate \/ (\E u \in Uids : Arrive(u))
           \/ UNCHANGED vars
    PROVE  Sound'
<1>1. UNCHANGED <<uidl_file, uidl_table, msg, list>>
  BY DEF Connect, Broken, Timeout, Cancel, QuitReply, LastOk, DropFailed,
     ServerUpdate, Arrive, vars, persistent, session, dialogue, server
<1>2. handled \subseteq handled' /\ marked' \subseteq marked
  BY DEF Connect, Broken, Timeout, Cancel, QuitReply, LastOk, DropFailed,
     ServerUpdate, Arrive, vars, observers, server
<1>3. sess' = "RECV" /\ state' = "DELETE" =>
         /\ sess = "RECV" /\ state = "DELETE"
         /\ UNCHANGED <<now, prefs, cur_msg>>
  BY DEF Connect, Broken, Timeout, Cancel, QuitReply, LastOk, DropFailed,
     ServerUpdate, Arrive, vars, persistent, session, dialogue, Send, Fail,
     CurOK
<1>4. sess' = "RECV" /\ state' \in ListStates =>
         /\ sess = "RECV" /\ state \in ListStates
         /\ maildrop \subseteq maildrop'
  BY DEF Connect, Broken, Timeout, Cancel, QuitReply, LastOk, DropFailed,
     ServerUpdate, Arrive, vars, persistent, session, dialogue, Good, Send,
     Fail, CurOK, ListStates
<1> QED
  BY <1>1, <1>2, <1>3, <1>4, QuietSound

\* pop3_lookup_next deletes only what is due.
LEMMA LookupNextSound ==
    ASSUME TypeOK, NEW m \in [1..count -> MsgInfo], NEW c \in 1..count,
           LookupNext(m, c)
    PROVE  state' = "DELETE" =>
              cur_msg' \in 1..count /\ Due(m[cur_msg'].recv_time)
<1> SUFFICES ASSUME state' = "DELETE"
             PROVE  cur_msg' \in 1..count /\ Due(m[cur_msg'].recv_time)
  OBVIOUS
<1>1. cur_msg' \in c..count /\ Expired(m[cur_msg'])
  BY DEF LookupNext, Send, IsFirst
<1>2. count \in Nat
  BY DEF TypeOK, MsgOK, count
<1>3. cur_msg' \in 1..count
  BY <1>1, <1>2
<1> QED
  BY <1>1, <1>3 DEF Expired, Due, Received, RECV_TIME_DELETE, RECV_TIME_NONE,
     RECV_TIME_KEEP

LEMMA AdvanceSound ==
    ASSUME TypeOK, NEW m \in [1..count -> MsgInfo], cur_msg \in 1..count,
           Advance(m)
    PROVE  state' = "DELETE" =>
              cur_msg' \in 1..count /\ Due(m[cur_msg'].recv_time)
<1>1. count \in Nat
  BY DEF TypeOK, MsgOK, count
<1>2. CASE cur_msg = count
  BY <1>2 DEF Advance, Send
<1>3. CASE cur_msg # count
  <2>1. LookupNext(m, cur_msg + 1) /\ cur_msg + 1 \in 1..count
    BY <1>1, <1>3 DEF Advance
  <2> QED
    BY <2>1, LookupNextSound
<1> QED
  BY <1>2, <1>3

\* The maildrop is listed: nothing is known of the messages yet.
LEMMA StatSound == TypeOK /\ CurOK /\ Sound /\ StatOk => Sound'
<1> SUFFICES ASSUME TypeOK, CurOK, Sound, StatOk PROVE Sound'
  OBVIOUS
<1>1. UNCHANGED <<uidl_file, uidl_table, maildrop, handled, marked>>
  BY DEF StatOk, persistent, observers
<1>2. RecordsSound' /\ TableSound' /\ MarkedSound'
  BY <1>1 DEF Sound, RecordsSound, TableSound, MarkedSound
<1>3. \A n \in 1..count' : /\ msg'[n].recv_time = RECV_TIME_NONE
                             /\ ~msg'[n].received
  BY DEF StatOk, count, NewMsg
<1>4. MsgSound' /\ MsgKnown'
  BY <1>3 DEF MsgSound, MsgKnown, Received
<1>5. DeleteSound'
  BY DEF DeleteSound, StatOk, Send
<1>6. Members(list') \subseteq maildrop
  BY Listing DEF StatOk, TypeOK, PersistentOK
<1>7. Listed'
  BY <1>1, <1>6 DEF Listed, Members
<1> QED
  BY <1>2, <1>4, <1>5, <1>7 DEF Sound

\* The table of UIDLs is the record an earlier session has left.
LEMMA StartSound == Sound /\ Start => Sound'
<1> SUFFICES ASSUME Sound, Start PROVE Sound'
  OBVIOUS
<1>1. RecordsSound' /\ TableSound'
  BY DEF Start, Sound, RecordsSound, TableSound
<1>2. MsgSound' /\ MsgKnown' /\ MarkedSound'
  BY DEF Start, MsgSound, MsgKnown, MarkedSound, count
<1>3. DeleteSound' /\ Listed'
  BY DEF Start, DeleteSound, Listed
<1> QED
  BY <1>1, <1>2, <1>3 DEF Sound

\* What the UIDL listing says of a message.
LEMMA UidlRecvMsg ==
    ASSUME TypeOK, UidlRecv, NEW n \in 1..count
    PROVE  \/ msg'[n] = msg[n]
           \/ /\ msg'[n].recv_time = uidl_table[list[n]]
              /\ msg'[n].received => msg'[n].recv_time # RECV_TIME_NONE
<1>1. msg[n] \in MsgInfo
  BY DEF TypeOK, MsgOK
<1>2. PICK bad \in SUBSET (1..count) :
         msg' = [i \in 1..count |->
                   IF i \in bad THEN msg[i]
                   ELSE [msg[i] EXCEPT
                           !.uidl = TRUE,
                           !.recv_time = uidl_table[list[i]],
                           !.received = ~prefs.getall /\
                              uidl_table[list[i]] # RECV_TIME_NONE]]
  BY DEF UidlRecv
<1>3. CASE n \in bad
  BY <1>2, <1>3
<1>4. CASE n \notin bad
  <2> DEFINE t == uidl_table[list[n]]
             b == ~prefs.getall /\ t # RECV_TIME_NONE
  <2>1. msg'[n] = [msg[n] EXCEPT !.uidl = TRUE, !.recv_time = t, !.received = b]
    BY <1>2, <1>4
  <2>2. b => t # RECV_TIME_NONE
    OBVIOUS
  <2> HIDE DEF t, b
  <2>3. msg'[n].recv_time = t /\ msg'[n].received = b
    BY <1>1, <2>1 DEF MsgInfo
  <2> QED
    BY <2>2, <2>3 DEF t
<1> QED
  BY <1>3, <1>4

\* The steps that set what is known of a message.
LEMMA InnerSound ==
    ASSUME TypeOK, CurOK, TypeOK', Sound,
           UidlRecv \/ ListRecv \/ RetrRecv \/ DeleOk
    PROVE  Sound'
<1>1. /\ cur_msg \in 1..count /\ sess = "RECV" /\ state \in ListStates
      /\ state # "LOGOUT"
  BY DEF CurOK, ListStates, Good, UidlRecv, ListRecv, RetrRecv, DeleOk
<1>2. /\ UNCHANGED <<uidl_file, uidl_table, list, maildrop, now, prefs>>
      /\ handled \subseteq handled'
  BY DEF UidlRecv, ListRecv, RetrRecv, DeleOk, persistent, server, observers
<1>3. RecordsSound' /\ TableSound'
  BY <1>2 DEF Sound, RecordsSound, TableSound
<1>4. Listed'
  BY <1>1, <1>2 DEF Sound, Listed, Members
<1>5. /\ count' = count /\ msg \in [1..count -> MsgInfo]
      /\ msg' \in [1..count -> MsgInfo]
      /\ list \in Seq(Uids) /\ \A n \in 1..count : list[n] \in Uids
  BY <1>2 DEF TypeOK, MsgOK, count
<1>6. \A n \in 1..count : Received(msg'[n].recv_time) => list[n] \in handled'
  <2>1. \A n \in 1..count : Received(msg[n].recv_time) => list[n] \in handled
    BY DEF Sound, MsgSound
  <2>2. CASE UidlRecv
    <3>1. \A n \in 1..count : \/ msg'[n] = msg[n]
                              \/ msg'[n].recv_time = uidl_table[list[n]]
      BY <1>5, <2>2, UidlRecvMsg
    <3> QED
      BY <1>2, <1>5, <2>1, <3>1 DEF Sound, TableSound
  <2>3. CASE ListRecv
    <3>1. \A n \in 1..count : msg'[n].recv_time = msg[n].recv_time
      BY <1>5, <2>3 DEF ListRecv, MsgInfo
    <3> QED
      BY <1>2, <2>1, <3>1
  <2>4. CASE RetrRecv
    <3>1. PICK drop \in Drops :
             /\ msg' = ReceivedMsg(drop)
             /\ \/ drop = "DROP_DONT_RECEIVE"
                \/ handled' = handled \cup {list[cur_msg]}
      BY <2>4 DEF RetrRecv
    <3>2. \A n \in 1..count :
             n # cur_msg => msg'[n].recv_time = msg[n].recv_time
      BY <1>1, <1>5, <3>1 DEF ReceivedMsg
    <3>3. drop = "DROP_DONT_RECEIVE" =>
             msg'[cur_msg].recv_time = RECV_TIME_KEEP
      BY <1>1, <1>5, <3>1 DEF ReceivedMsg, MsgInfo
    <3> QED
      BY <1>1, <1>2, <2>1, <3>1, <3>2, <3>3 DEF Received
  <2>5. CASE DeleOk
    <3>1. \A n \in 1..count :
             n # cur_msg => msg'[n].recv_time = msg[n].recv_time
      BY <1>1, <1>5, <2>5 DEF DeleOk
    <3>2. list[cur_msg] \in handled
      BY <1>1, <2>1, <2>5 DEF Good, DeleOk, Sound, DeleteSound, Due
    <3> QED
      BY <1>2, <2>1, <3>1, <3>2
  <2> QED
    BY <2>2, <2>3, <2>4, <2>5
<1>7. MsgSound'
  BY <1>2, <1>5, <1>6 DEF MsgSound
<1>8. MsgKnown'
  <2>1. \A n \in 1..count : msg[n].received => msg[n].recv_time # RECV_TIME_NONE
    BY DEF Sound, MsgKnown
  <2>2. CASE UidlRecv
    <3>1. \A n \in 1..count :
             \/ msg'[n] = msg[n]
             \/ msg'[n].received => msg'[n].recv_time # RECV_TIME_NONE
      BY <1>5, <2>2, UidlRecvMsg
    <3> QED
      BY <1>5, <2>1, <3>1 DEF MsgKnown
  <2>3. CASE ListRecv
    <3>1. \A n \in 1..count : /\ msg'[n].recv_time = msg[n].recv_time
                              /\ msg'[n].received = msg[n].received
      BY <1>5, <2>3 DEF ListRecv, MsgInfo
    <3> QED
      BY <1>5, <2>1, <3>1 DEF MsgKnown
  <2>4. CASE RetrRecv
    <3>1. PICK drop \in Drops : msg' = ReceivedMsg(drop)
      BY <2>4 DEF RetrRecv
    <3>2. \A n \in 1..count : n # cur_msg => msg'[n] = msg[n]
      BY <1>1, <1>5, <3>1 DEF ReceivedMsg
    <3>3. msg'[cur_msg].recv_time \in {now, RECV_TIME_KEEP, RECV_TIME_DELETE}
      BY <1>1, <1>5, <3>1 DEF ReceivedMsg, Drops, MsgInfo
    <3>4. now \in Nat /\ now > RECV_TIME_DELETE
      BY DaysAssumption DEF TypeOK, PersistentOK
    <3> QED
      BY <1>1, <1>5, <2>1, <3>2, <3>3, <3>4 DEF MsgKnown, RECV_TIME_NONE,
         RECV_TIME_KEEP, RECV_TIME_DELETE
  <2>5. CASE DeleOk
    <3>1. \A n \in 1..count : n # cur_msg => msg'[n] = msg[n]
      BY <1>1, <1>5, <2>5 DEF DeleOk
    <3>2. msg'[cur_msg].recv_time = RECV_TIME_DELETE
      BY <1>1, <1>5, <2>5 DEF DeleOk, MsgInfo
    <3> QED
      BY <1>1, <1>5, <2>1, <3>1, <3>2 DEF MsgKnown, RECV_TIME_NONE,
         RECV_TIME_DELETE
  <2> QED
    BY <2>2, <2>3, <2>4, <2>5
<1>9. MarkedSound'
  <2>1. CASE DeleOk
    <3>1. list[cur_msg] \in handled
      BY <1>1, <2>1 DEF Good, DeleOk, Sound, DeleteSound, MsgSound, Due
    <3> QED
      BY <1>2, <2>1, <3>1 DEF Sound, MarkedSound, DeleOk
  <2>2. CASE UidlRecv \/ ListRecv \/ RetrRecv
    BY <1>2, <2>2 DEF Sound, MarkedSound, UidlRecv, ListRecv, RetrRecv, server
  <2> QED
    BY <2>1, <2>2
<1>10. sess' = "RECV" /\ state' = "DELETE" => Due(msg'[cur_msg'].recv_time)
  <2>1. CASE UidlRecv
    BY <2>1 DEF UidlRecv, Send
  <2>2. CASE ListRecv
    <3>1. LookupNext(msg', cur_msg)
      BY <2>2 DEF ListRecv
    <3> QED
      BY <1>1, <1>5, <3>1, LookupNextSound
  <2>3. CASE RetrRecv
    <3>1. PICK drop \in Drops : msg' = ReceivedMsg(drop)
      BY <2>3 DEF RetrRecv
    <3>2. AfterRetr(msg'[cur_msg]) \/ sess' = "ERROR"
      BY <2>3 DEF RetrRecv, Fail
    <3>3. ASSUME AfterRetr(msg'[cur_msg]), ~Advance(msg')
          PROVE  Due(msg'[cur_msg'].recv_time)
      <4>1. /\ cur_msg' = cur_msg
            /\ \/ msg'[cur_msg].recv_time = RECV_TIME_DELETE
               \/ /\ prefs.rmmail /\ prefs.msg_leave_time = 0
                  /\ msg'[cur_msg].recv_time # RECV_TIME_KEEP
        BY <3>3 DEF AfterRetr
      <4>2. msg'[cur_msg].recv_time
               \in {now, RECV_TIME_KEEP, RECV_TIME_DELETE}
        BY <1>1, <1>5, <3>1 DEF ReceivedMsg, Drops, MsgInfo
      <4>3. now \in Nat /\ now > RECV_TIME_DELETE
        BY DaysAssumption DEF TypeOK, PersistentOK
      <4> QED
        BY <4>1, <4>2, <4>3 DEF Due, Received, RECV_TIME_NONE, RECV_TIME_KEEP,
           RECV_TIME_DELETE
    <3> QED
      BY <1>1, <1>5, <3>2, <3>3, AdvanceSound
  <2>4. CASE DeleOk
    BY <1>1, <1>5, <2>4, AdvanceSound DEF DeleOk
  <2> QED
    BY <2>1, <2>2, <2>3, <2>4
<1>11. DeleteSound'
  BY <1>2, <1>10 DEF DeleteSound, Due
<1> QED
  BY <1>3, <1>4, <1>7, <1>9, <1>11, <1>8 DEF Sound

\* What is recorded at the end was received.
LEMMA EndingSound ==
    ASSUME TypeOK, Sound, End \/ Crash
    PROVE  Sound'
<1>1. CASE Destroy /\ \A u \in Uids : Received(uidl_file'[u]) => u \in handled
  <2>1. RecordsSound' /\ TableSound'
    BY <1>1 DEF Destroy, RecordsSound, TableSound, NoRecords, Received
  <2>2. MsgSound' /\ MsgKnown' /\ MarkedSound'
    BY <1>1 DEF Destroy, MsgSound, MsgKnown, MarkedSound, count, Sound
  <2>3. DeleteSound' /\ Listed'
    BY <1>1 DEF Destroy, DeleteSound, Listed
  <2> QED
    BY <2>1, <2>2, <2>3 DEF Sound
<1>2. CASE EndUnrecorded
  BY <1>1, <1>2 DEF EndUnrecorded, Sound, RecordsSound
<1>3. CASE EndRecorded
  <2>1. uidl_file' = NoRecords /\ sess' = "REPLACING"
    BY <1>3 DEF EndRecorded
  <2>2. UNCHANGED <<uidl_table, msg, list, handled, marked>>
    BY <1>3 DEF EndRecorded, dialogue, server, observers
  <2>3. RecordsSound' /\ TableSound'
    BY <2>1, <2>2 DEF Sound, RecordsSound, TableSound, NoRecords, Received
  <2>4. MsgSound' /\ MsgKnown' /\ MarkedSound'
    BY <2>2 DEF Sound, MsgSound, MsgKnown, MarkedSound, count
  <2>5. DeleteSound' /\ Listed'
    BY <2>1 DEF DeleteSound, Listed
  <2> QED
    BY <2>3, <2>4, <2>5 DEF Sound
<1>4. CASE Replace
  <2>1. Destroy /\ (uidl_file' = NewList \/ uidl_file' = uidl_file)
    BY <1>4 DEF Replace
  <2>2. \A u \in Uids : Received(NewList[u]) => u \in handled
    <3> SUFFICES ASSUME NEW u \in Uids, Received(NewList[u])
                 PROVE  u \in handled
      OBVIOUS
    <3>1. PICK n \in Written :
             /\ list[n] = u
             /\ NewList[u] = IF msg[n].recv_time = RECV_TIME_NONE
                             THEN RECV_TIME_RECEIVED ELSE msg[n].recv_time
      BY DEF NewList, Received
    <3> QED
      BY <3>1 DEF Written, Sound, MsgSound, MsgKnown
  <2> QED
    BY <1>1, <2>1, <2>2 DEF Sound, RecordsSound
<1>5. CASE Crash
  BY <1>1, <1>5 DEF Crash, Sound, RecordsSound
<1> QED
  BY <1>2, <1>3, <1>4, <1>5 DEF End

LEMMA SoundStep ==
    TypeOK /\ CurOK /\ TypeOK' /\ Sound /\ [Next]_vars => Sound'
<1> SUFFICES ASSUME TypeOK, CurOK, TypeOK', Sound, [Next]_vars PROVE Sound'
  OBVIOUS
<1> QED
  BY StartSound, DialogueSound, StatSound, InnerSound, OuterSound, EndingSound
     DEF Next, Reply, Environment

LEMMA Soundness == Spec => [](TypeOK /\ CurOK /\ Sound)
<1>1. Init => TypeOK /\ CurOK /\ Sound
  BY InitType, InitSound
<1>2. TypeOK /\ CurOK /\ Sound /\ [Next]_vars => TypeOK' /\ CurOK' /\ Sound'
  BY TypeStep, SoundStep
<1> QED
  BY <1>1, <1>2, PTL DEF Spec

\* The list on disk never claims a message that was not received.
THEOREM RecordsAreSound == Spec => []RecordsSound
<1>1. Sound => RecordsSound
  BY DEF Sound
<1> QED
  BY <1>1, Soundness, PTL

\* DELE is sent only for a message that was handled and whose time is up.
THEOREM DeletionIsSafe == Spec => []DeleteIsSafe
<1>1. TypeOK /\ CurOK /\ Sound => DeleteIsSafe
  <2> SUFFICES ASSUME TypeOK, CurOK, Sound, sess = "RECV", state = "DELETE"
               PROVE  /\ list[cur_msg] \in handled
                      /\ \/ msg[cur_msg].recv_time = RECV_TIME_DELETE
                         \/ /\ prefs.rmmail
                            /\ now - msg[cur_msg].recv_time
                                  >= prefs.msg_leave_time
    BY DEF DeleteIsSafe
  <2>1. cur_msg \in 1..count
    BY DEF CurOK, ListStates
  <2>2. Due(msg[cur_msg].recv_time)
    BY DEF Sound, DeleteSound
  <2> QED
    BY <2>1, <2>2 DEF Due, Sound, MsgSound
<1> QED
  BY <1>1, Soundness, PTL

-----------------------------------------------------------------------------
\* The session implements what MailRetrieval promises.

\* A message is handled while it is on the server.
LEMMA HandleStep ==
    ASSUME TypeOK, CurOK, Sound, DropFailed \/ RetrRecv
    PROVE  [Retrieval!Next]_<<maildrop, handled>>
<1>1. sess = "RECV" /\ state = "RETR_RECV" /\ maildrop' = maildrop
  BY DEF DropFailed, RetrRecv, persistent
<1>2. cur_msg \in 1..count /\ Members(list) \subseteq maildrop
  BY <1>1 DEF CurOK, Sound, Listed, ListStates
<1>3. list[cur_msg] \in Members(list) /\ list[cur_msg] \in Uids
  BY <1>2 DEF TypeOK, MsgOK, count, Members
<1>4. \/ handled' = handled
      \/ handled' = handled \cup {list[cur_msg]}
  BY DEF DropFailed, RetrRecv
<1>5. handled' = handled \/ Retrieval!Handle(list[cur_msg])
  BY <1>1, <1>2, <1>3, <1>4 DEF Retrieval!Handle
<1> QED
  BY <1>1, <1>3, <1>5 DEF Retrieval!Next

\* The server removes marked messages only.
LEMMA UpdateStep ==
    ASSUME TypeOK, Sound, ServerUpdate
    PROVE  [Retrieval!Next]_<<maildrop, handled>>
<1>1. PICK gone \in SUBSET marked : maildrop' = maildrop \ gone
  BY DEF ServerUpdate
<1> DEFINE S == gone \cap maildrop
<1>2. S \in SUBSET Uids
  BY DEF TypeOK, ServerOK
<1>3. Retrieval!Remove(S)
  BY <1>1 DEF ServerUpdate, observers, Sound, MarkedSound, Retrieval!Remove
<1> QED
  BY <1>2, <1>3 DEF Retrieval!Next

LEMMA ArriveStep ==
    ASSUME NEW u \in Uids, Arrive(u)
    PROVE  Retrieval!Next
<1>1. Retrieval!Arrive(u)
  BY DEF Arrive, observers, Retrieval!Arrive
<1> QED
  BY <1>1 DEF Retrieval!Next

\* Every other step keeps the mail where it is.
LEMMA OtherStep ==
    ASSUME [Next]_vars, ~DropFailed, ~RetrRecv, ~ServerUpdate,
           ~(\E u \in Uids : Arrive(u))
    PROVE  UNCHANGED <<maildrop, handled>>
<1>1. CASE Start \/ End \/ Crash
  BY <1>1 DEF Start, End, EndUnrecorded, EndRecorded, Replace, Crash, Destroy,
     observers
<1>2. CASE Dialogue
  BY <1>2 DEF Dialogue, persistent, observers
<1>3. CASE \/ Connect \/ Broken \/ Timeout \/ Cancel \/ QuitReply \/ StatOk
           \/ LastOk \/ UidlRecv \/ ListRecv \/ DeleOk \/ UNCHANGED vars
  BY <1>3 DEF Connect, Broken, Timeout, Cancel, QuitReply, StatOk, LastOk,
     UidlRecv, ListRecv, DeleOk, vars, persistent, observers
<1>4. \/ CommandFailed \/ Greeting \/ StlsOk \/ UserOk \/ AuthReply \/ LoggedIn
      \/ RangeMalformed \/ UidlOk \/ UidlNotSupported \/ LastNotSupported
      \/ ListingMalformed \/ ListOk \/ RetrOk
      => Dialogue
  BY DEF CommandFailed, Greeting, StlsOk, UserOk, AuthReply, LoggedIn,
     RangeMalformed, UidlOk, UidlNotSupported, LastNotSupported,
     ListingMalformed, ListOk, RetrOk
<1> QED
  BY <1>1, <1>2, <1>3, <1>4 DEF Next, Reply, Environment

\* Mail is never lost: it leaves the server only when it has been handled.
THEOREM MailIsNeverLost == Spec => NoMailLost
<1>1. Init => Retrieval!Init
  BY DEF Init, Retrieval!Init
<1>2. TypeOK /\ CurOK /\ Sound /\ [Next]_vars
         => [Retrieval!Next]_<<maildrop, handled>>
  <2> SUFFICES ASSUME TypeOK, CurOK, Sound, [Next]_vars
               PROVE  [Retrieval!Next]_<<maildrop, handled>>
    OBVIOUS
  <2> QED
    BY HandleStep, UpdateStep, ArriveStep, OtherStep
<1> QED
  BY <1>1, <1>2, Soundness, PTL DEF Spec, NoMailLost, Retrieval!Spec

-----------------------------------------------------------------------------
\* Nothing is fetched twice: what is known of the messages, from the list on
\* disk to the table and the messages of the session, and back to the list.

\* Messages on the server that an earlier session has handled, and whose record
\* is not known to be lost.
Recorded == (handled \cap maildrop) \ (lapsed \cup fetched)

RecordKnown ==
    sess # "REPLACING" => \A u \in Recorded : uidl_file[u] # RECV_TIME_NONE
TableKnown == Running => \A u \in Recorded : uidl_table[u] # RECV_TIME_NONE

ListKnown ==
    /\ \A i, j \in 1..count : list[i] = list[j] => i = j
    /\ count # 0 \/ uidl_is_valid => handled \cap maildrop \subseteq Members(list)
    /\ sess = "REPLACING" => uidl_is_valid

\* A message that is not taken for received was not fetched in this session, and
\* as far as its record can be told it has none.
ReceivedKnown ==
    \A n \in 1..count :
        \/ msg[n].received
        \/ /\ list[n] \notin fetched
           /\ ~msg[n].uidl \/ prefs.getall \/ uidl_table[list[n]] = RECV_TIME_NONE

FetchStates == {"RETR", "RETR_RECV", "DELETE", "LOGOUT", "DONE", "ERROR"}
FetchedKnown == fetched # {} => Running /\ state \in FetchStates

RetrNew == sess = "RECV" /\ state \in {"RETR", "RETR_RECV"} => ~msg[cur_msg].received

\* A message whose record is left out because it was deleted is gone.
QuitKnown ==
    /\ srv # "open" => state \in {"LOGOUT", "DONE", "ERROR"}
    /\ state = "DONE" => srv = "committed"
    /\ srv = "committed" => marked = {}
    /\ \A n \in 1..count :
          msg[n].deleted /\ srv # "refused" /\ list[n] \in maildrop => list[n] \in marked

Known == /\ RecordKnown /\ TableKnown /\ ListKnown /\ ReceivedKnown
         /\ FetchedKnown /\ RetrNew /\ QuitKnown

LEMMA InitKnown == Init => Known
<1> SUFFICES ASSUME Init PROVE Known
  OBVIOUS
<1>1. handled = {} /\ fetched = {} /\ count = 0 /\ 1..count = {} /\ srv = "open"
      /\ sess = "IDLE" /\ state = "READY"
  BY DEF Init, count
<1> QED
  BY <1>1 DEF Known, RecordKnown, TableKnown, Recorded, ListKnown, ReceivedKnown,
     FetchedKnown, RetrNew, QuitKnown

\* Steps that leave the records, the numbering and what was fetched alone.
LEMMA QuietKnown ==
    ASSUME Known,
           UNCHANGED <<uidl_file, uidl_table, msg, list, prefs, uidl_is_valid, fetched>>,
           Recorded' \subseteq Recorded,
           handled' \cap maildrop' \subseteq (handled \cap maildrop) \cup Members(list),
           sess' = sess \/ (Running /\ Running' /\ {sess, sess'} \cap {"REPLACING"} = {}),
           state \in FetchStates => state' \in FetchStates,
           sess' = "RECV" /\ state' \in {"RETR", "RETR_RECV"} =>
              /\ sess = "RECV" /\ state \in {"RETR", "RETR_RECV"} /\ cur_msg' = cur_msg,
           QuitKnown'
    PROVE  Known'
<1>1. count' = count /\ Members(list') = Members(list)
  BY DEF count
<1>2. RecordKnown' /\ TableKnown'
  BY DEF Known, RecordKnown, TableKnown, Running
<1>3. ListKnown'
  BY <1>1 DEF Known, ListKnown, Members
<1>4. ReceivedKnown'
  BY <1>1 DEF Known, ReceivedKnown
<1>5. FetchedKnown' /\ RetrNew'
  BY DEF Known, FetchedKnown, RetrNew, Running
<1> QED
  BY <1>2, <1>3, <1>4, <1>5 DEF Known

LEMMA DialogueKnown ==
    ASSUME Known,
           \/ CommandFailed \/ Greeting \/ StlsOk \/ UserOk \/ AuthReply
           \/ LoggedIn \/ RangeMalformed \/ UidlOk \/ UidlNotSupported
           \/ LastNotSupported \/ ListingMalformed \/ ListOk \/ RetrOk
    PROVE  Known'
<1>1. Dialogue /\ sess = "RECV" /\ sess' \in {"RECV", "ERROR"}
  BY DEF CommandFailed, Greeting, StlsOk, UserOk, AuthReply, LoggedIn,
     RangeMalformed, UidlOk, UidlNotSupported, LastNotSupported,
     ListingMalformed, ListOk, RetrOk, Authenticate, Good, Send, Fail
<1>2. UNCHANGED <<uidl_file, uidl_table, msg, list, prefs, uidl_is_valid, fetched,
                  handled, marked, maildrop, lapsed, cur_msg, srv>>
  BY <1>1 DEF Dialogue, persistent, server, observers
<1>3. /\ state \notin {"LOGOUT", "DONE", "ERROR"} /\ state' # "DONE"
      /\ state \in FetchStates => state' \in FetchStates
      /\ sess' = "RECV" /\ state' \in {"RETR", "RETR_RECV"} => state = "RETR"
  BY DEF CommandFailed, Greeting, StlsOk, UserOk, AuthReply, LoggedIn,
     RangeMalformed, UidlOk, UidlNotSupported, LastNotSupported,
     ListingMalformed, ListOk, RetrOk, Authenticate, Good, Send, Fail, LineStates,
     FetchStates
<1>4. QuitKnown'
  BY <1>2, <1>3 DEF Known, QuitKnown, count
<1>5. Recorded' \subseteq Recorded
  BY <1>2 DEF Recorded
<1> QED
  BY <1>1, <1>2, <1>3, <1>4, <1>5, QuietKnown DEF Running

LEMMA OuterKnown ==
    ASSUME TypeOK, CurOK, Known,
           \/ Connect \/ Broken \/ Timeout \/ Cancel \/ QuitReply \/ LastOk
           \/ DropFailed \/ ServerUpdate \/ (\E u \in Uids : Arrive(u))
           \/ UNCHANGED vars
    PROVE  Known'
<1>1. UNCHANGED <<uidl_file, uidl_table, msg, list, prefs, uidl_is_valid, fetched>>
  BY DEF Connect, Broken, Timeout, Cancel, QuitReply, LastOk, DropFailed,
     ServerUpdate, Arrive, vars, persistent, session, dialogue, server, observers
<1>2. CASE Connect \/ Broken \/ Timeout \/ Cancel \/ LastOk \/ QuitReply \/ UNCHANGED vars
  <2>1. UNCHANGED <<handled, marked, maildrop, lapsed, srv>>
    BY <1>2 DEF Connect, Broken, Timeout, Cancel, QuitReply, LastOk, vars, persistent,
       server, observers
  <2>2. /\ sess' = sess \/ (Running /\ Running' /\ {sess, sess'} \cap {"REPLACING"} = {})
        /\ state \in FetchStates => state' \in FetchStates
    BY <1>2 DEF Connect, Broken, Timeout, Cancel, QuitReply, LastOk, vars, persistent,
       session, dialogue, Connected, Running, Good, Send, FetchStates
  <2>3. sess' = "RECV" /\ state' \in {"RETR", "RETR_RECV"} =>
           sess = "RECV" /\ state \in {"RETR", "RETR_RECV"} /\ cur_msg' = cur_msg
    BY <1>2 DEF Connect, Broken, Timeout, Cancel, QuitReply, LastOk, vars, persistent,
       session, dialogue, Connected, CurOK, Send
  <2>4. /\ state \in {"LOGOUT", "DONE", "ERROR"} => state' \in {"LOGOUT", "DONE", "ERROR"}
        /\ state' = "DONE" => state = "DONE" \/ srv = "committed"
    BY <1>2 DEF Connect, Broken, Timeout, Cancel, QuitReply, LastOk, vars, persistent,
       session, dialogue, Connected, Good, Send
  <2>5. QuitKnown'
    BY <1>1, <2>1, <2>4 DEF Known, QuitKnown, count
  <2>6. Recorded' \subseteq Recorded
    BY <1>1, <2>1 DEF Recorded
  <2> QED
    BY <1>1, <2>1, <2>2, <2>3, <2>5, <2>6, QuietKnown
<1>3. CASE DropFailed
  <2>1. /\ UNCHANGED <<marked, maildrop, srv, state, cur_msg>>
        /\ \/ UNCHANGED <<handled, lapsed>>
           \/ handled' = handled \cup {list[cur_msg]} /\ lapsed' = lapsed \cup {list[cur_msg]}
        /\ sess = "RECV" /\ sess' = "ERROR" /\ state = "RETR_RECV"
    BY <1>3 DEF DropFailed, Fail, persistent, server
  <2>2. list[cur_msg] \in Members(list)
    <3>1. cur_msg \in 1..count /\ count \in Nat /\ list \in Seq(Uids)
      BY <2>1 DEF CurOK, ListStates, TypeOK, MsgOK, count
    <3> QED
      BY <3>1 DEF Members, count
  <2>3. Recorded' \subseteq Recorded
    BY <1>1, <2>1 DEF Recorded
  <2>4. QuitKnown'
    BY <1>1, <2>1 DEF Known, QuitKnown, count
  <2> QED
    BY <1>1, <2>1, <2>2, <2>3, <2>4, QuietKnown DEF Running
<1>4. CASE ServerUpdate
  <2>1. /\ UNCHANGED <<handled, lapsed, sess, state, cur_msg>>
        /\ state = "LOGOUT" /\ srv = "open" /\ marked' = {} /\ maildrop' \subseteq maildrop
        /\ srv' = "refused" \/ (srv' = "committed" /\ maildrop' = maildrop \ marked)
    BY <1>4 DEF ServerUpdate, session, dialogue, observers
  <2>2. Recorded' \subseteq Recorded
    BY <1>1, <2>1 DEF Recorded
  <2>3. QuitKnown'
    BY <1>1, <2>1 DEF Known, QuitKnown, count
  <2> QED
    BY <1>1, <2>1, <2>2, <2>3, QuietKnown
<1>5. CASE \E u \in Uids : Arrive(u)
  <2>1. PICK u \in Uids : Arrive(u)
    BY <1>5
  <2>2. /\ UNCHANGED <<handled, lapsed, sess, state, cur_msg, srv, marked>>
        /\ maildrop' = maildrop \cup {u} /\ u \notin handled /\ u \notin Members(list)
    BY <2>1 DEF Arrive, session, dialogue, observers, server
  <2>3. Recorded' \subseteq Recorded
    BY <1>1, <2>2 DEF Recorded
  <2>4. \A n \in 1..count : list[n] # u
    BY <2>2 DEF Members, TypeOK, MsgOK, count
  <2>5. QuitKnown'
    BY <1>1, <2>2, <2>4 DEF Known, QuitKnown, count
  <2> QED
    BY <1>1, <2>2, <2>3, <2>5, QuietKnown
<1> QED
  BY <1>2, <1>3, <1>4, <1>5


LEMMA StartKnown == Known /\ Start => Known'
<1> SUFFICES ASSUME Known, Start PROVE Known'
  OBVIOUS
<1>1. /\ sess = "IDLE" /\ fetched = {} /\ fetched' = {} /\ list' = << >>
      /\ uidl_table' = uidl_file /\ state' = "READY" /\ sess' = "READY" /\ srv' = "open"
      /\ uidl_is_valid' = FALSE /\ UNCHANGED <<uidl_file, maildrop, handled, lapsed>>
  BY DEF Start, Known, FetchedKnown, Running
<1>2. count' = 0 /\ 1..count' = {}
  BY <1>1 DEF count
<1>3. \A u \in Recorded' : uidl_file[u] # RECV_TIME_NONE
  BY <1>1 DEF Known, RecordKnown, Recorded
<1> QED
  BY <1>1, <1>2, <1>3 DEF Known, RecordKnown, TableKnown, ListKnown, ReceivedKnown,
     FetchedKnown, RetrNew, QuitKnown

\* Every message of the maildrop gets a number, and one only.
LEMMA ListingWhole ==
    ASSUME NEW S, S \subseteq Uids, NEW l \in Listings(S)
    PROVE  /\ \A i, j \in 1..Len(l) : l[i] = l[j] => i = j
           /\ S \subseteq Members(l)
<1> DEFINE c == Cardinality(S)
<1>1. IsFiniteSet(S) /\ c \in Nat /\ l \in [1..c -> S] /\ Len(l) = c
      /\ \A i, j \in 1..c : l[i] = l[j] => i = j
  BY UidsFinite, FS_Subset, Listing DEF Listings
<1> HIDE DEF c
<1>2. Cardinality(1..c) = c
  <2>1. 1 \in Int /\ c \in Int
    BY <1>1
  <2> QED
    BY <1>1, <2>1, FS_Interval
<1>3. l \in Injection(1..c, S)
  BY <1>1 DEF Injection, IsInjective
<1>4. l \in Surjection(1..c, S)
  BY <1>1, <1>2, <1>3, FS_Injection DEF c
<1> QED
  BY <1>1, <1>4 DEF Surjection, Members

LEMMA StatKnown == TypeOK /\ Known /\ StatOk => Known'
<1> SUFFICES ASSUME TypeOK, Known, StatOk PROVE Known'
  OBVIOUS
<1>1. /\ UNCHANGED <<uidl_file, uidl_table, maildrop, handled, lapsed, fetched, srv>>
      /\ sess = "RECV" /\ sess' = "RECV" /\ state = "GETRANGE_STAT"
      /\ state' \in {"LOGOUT", "GETRANGE_UIDL"} /\ list' \in Listings(maildrop)
  BY DEF StatOk, Good, Send, persistent, observers
<1>2. fetched = {} /\ srv = "open"
  BY <1>1 DEF Known, FetchedKnown, QuitKnown, FetchStates
<1>3. \A n \in 1..count' : ~msg'[n].uidl /\ ~msg'[n].deleted
  BY DEF StatOk, count, NewMsg
<1>4. RecordKnown' /\ TableKnown'
  BY <1>1 DEF Known, RecordKnown, TableKnown, Recorded, Running
<1>5. ListKnown'
  <2>1. /\ \A i, j \in 1..Len(list') : list'[i] = list'[j] => i = j
        /\ maildrop \subseteq Members(list')
    BY <1>1, ListingWhole DEF TypeOK, PersistentOK
  <2> QED
    BY <1>1, <2>1 DEF ListKnown, count, Members
<1>6. ReceivedKnown'
  BY <1>1, <1>2, <1>3 DEF ReceivedKnown
<1>7. FetchedKnown' /\ RetrNew'
  BY <1>1, <1>2 DEF FetchedKnown, RetrNew
<1>8. QuitKnown'
  BY <1>1, <1>2, <1>3 DEF QuitKnown
<1> QED
  BY <1>4, <1>5, <1>6, <1>7, <1>8 DEF Known

\* pop3_lookup_next fetches only what was not received.
LEMMA LookupNextNew ==
    ASSUME TypeOK, NEW m, NEW c \in 1..count, LookupNext(m, c) \/ Advance(m),
           Advance(m) => cur_msg = c
    PROVE  state' \in {"RETR", "RETR_RECV"} => ~m[cur_msg'].received
<1>1. count \in Nat
  BY DEF TypeOK, MsgOK, count
<1>2. ASSUME NEW d \in 1..count, LookupNext(m, d), state' \in {"RETR", "RETR_RECV"}
      PROVE  ~m[cur_msg'].received
  BY <1>2 DEF LookupNext, Send, IsFirst, Skipped
<1>3. Advance(m) => state' = "LOGOUT" \/ (cur_msg + 1 \in 1..count /\ LookupNext(m, cur_msg + 1))
  BY <1>1 DEF Advance, Send
<1> QED
  BY <1>2, <1>3

\* A step of the listing, or of a message at hand.
LEMMA InnerKnown ==
    ASSUME TypeOK, CurOK, TypeOK', Known,
           UidlRecv \/ ListRecv \/ RetrRecv \/ DeleOk
    PROVE  Known'
<1>1. /\ cur_msg \in 1..count /\ sess = "RECV" /\ state \in ListStates /\ srv = "open"
      /\ sess' \in {"RECV", "ERROR"}
      /\ state' \in FetchStates \cup {"GETSIZE_LIST"} /\ state' # "DONE"
  <2>1. cur_msg \in 1..count /\ sess = "RECV" /\ state \in ListStates
    BY DEF CurOK, ListStates, Good, UidlRecv, ListRecv, RetrRecv, DeleOk
  <2>2. srv = "open"
    BY <2>1 DEF Known, QuitKnown, ListStates
  <2>3. sess' \in {"RECV", "ERROR"} /\ state' \in FetchStates \cup {"GETSIZE_LIST"}
        /\ state' # "DONE"
    <3>1. UidlRecv => sess' = "RECV" /\ state' \in {"LOGOUT", "GETSIZE_LIST"}
      BY <2>1 DEF UidlRecv, Send
    <3>2. ListRecv => LookupNext(msg', cur_msg)
      BY DEF ListRecv
    <3>3. RetrRecv => \/ sess' = "ERROR" /\ state' = "RETR_RECV"
                      \/ sess' = "RECV" /\ state' = "DELETE"
                      \/ Advance(msg')
      BY <2>1 DEF RetrRecv, AfterRetr, Send, Fail
    <3>4. DeleOk => Advance(msg')
      BY DEF DeleOk
    <3>5. LookupNext(msg', cur_msg) \/ Advance(msg') =>
             sess' = "RECV" /\ state' \in {"LOGOUT", "DELETE", "RETR"}
      BY <2>1, LookupNextType, AdvanceType
    <3> QED
      BY <3>1, <3>2, <3>3, <3>4, <3>5 DEF FetchStates
  <2> QED
    BY <2>1, <2>2, <2>3
<1>2. /\ UNCHANGED <<uidl_file, uidl_table, list, maildrop, prefs, lapsed, srv>>
      /\ count' = count /\ Members(list') = Members(list)
  BY DEF UidlRecv, ListRecv, RetrRecv, DeleOk, persistent, server, observers, count, Members
<1>3. /\ msg \in [1..count -> MsgInfo] /\ msg' \in [1..count -> MsgInfo]
      /\ list \in Seq(Uids) /\ list[cur_msg] \in Members(list)
      /\ \A n \in 1..count : list[n] \in Uids
  BY <1>1, <1>2 DEF TypeOK, MsgOK, count, Members
<1>4. \/ UNCHANGED <<handled, fetched>>
      \/ /\ RetrRecv
         /\ handled' = handled \cup {list[cur_msg]} /\ fetched' = fetched \cup {list[cur_msg]}
  BY DEF UidlRecv, ListRecv, RetrRecv, DeleOk, observers
<1>5. Recorded' \subseteq Recorded
  BY <1>2, <1>4 DEF Recorded
<1>6. RecordKnown' /\ TableKnown'
  BY <1>1, <1>2, <1>5 DEF Known, RecordKnown, TableKnown, Running
<1>7. ListKnown'
  BY <1>1, <1>2, <1>3, <1>4 DEF Known, ListKnown, Members
<1>8. ReceivedKnown' /\ (\A n \in 1..count : msg'[n].deleted /\ list[n] \in maildrop
                                               => list[n] \in marked')
  <2>1. /\ \A n \in 1..count :
             \/ msg[n].received
             \/ /\ list[n] \notin fetched
                /\ ~msg[n].uidl \/ prefs.getall \/ uidl_table[list[n]] = RECV_TIME_NONE
        /\ \A n \in 1..count : msg[n].deleted /\ list[n] \in maildrop => list[n] \in marked
    BY <1>1 DEF Known, ReceivedKnown, QuitKnown
  <2>2. CASE UidlRecv
    <3>1. fetched = {} /\ fetched' = {} /\ marked' = marked
      BY <2>2 DEF Known, FetchedKnown, FetchStates, UidlRecv, observers, server
    <3>2. PICK bad \in SUBSET (1..count) :
             msg' = [i \in 1..count |->
                       IF i \in bad THEN msg[i]
                       ELSE [msg[i] EXCEPT
                               !.uidl = TRUE,
                               !.recv_time = uidl_table[list[i]],
                               !.received = ~prefs.getall /\
                                  uidl_table[list[i]] # RECV_TIME_NONE]]
      BY <2>2 DEF UidlRecv
    <3>3. ASSUME NEW n \in 1..count, n \notin bad
          PROVE  /\ msg'[n].received
                      <=> (~prefs.getall /\ uidl_table[list[n]] # RECV_TIME_NONE)
                 /\ msg'[n].deleted = msg[n].deleted
      <4> DEFINE b == ~prefs.getall /\ uidl_table[list[n]] # RECV_TIME_NONE
      <4>1. msg[n] \in MsgInfo
        BY <1>3
      <4>2. msg'[n] = [msg[n] EXCEPT !.uidl = TRUE, !.recv_time = uidl_table[list[n]],
                                     !.received = b]
        BY <3>2, <3>3
      <4> HIDE DEF b
      <4>3. msg'[n].received = b /\ msg'[n].deleted = msg[n].deleted
        BY <4>1, <4>2 DEF MsgInfo
      <4> QED
        BY <4>3 DEF b
    <3>4. \A n \in bad : msg'[n] = msg[n]
      BY <3>2
    <3>5. \A n \in 1..count : \/ msg'[n].received
                              \/ msg'[n] = msg[n]
                              \/ prefs.getall
                              \/ uidl_table[list[n]] = RECV_TIME_NONE
      BY <3>3, <3>4
    <3>6. ReceivedKnown'
      BY <1>2, <2>1, <3>1, <3>5 DEF ReceivedKnown
    <3> QED
      BY <2>1, <3>1, <3>3, <3>4, <3>6
  <2>3. CASE ListRecv
    <3>1. fetched' = fetched /\ marked' = marked
      BY <2>3 DEF ListRecv, observers, server
    <3>2. \A n \in 1..count : /\ msg'[n].received = msg[n].received
                              /\ msg'[n].uidl = msg[n].uidl
                              /\ msg'[n].deleted = msg[n].deleted
      BY <1>3, <2>3 DEF ListRecv, MsgInfo
    <3> QED
      BY <1>2, <2>1, <3>1, <3>2 DEF ReceivedKnown
  <2>4. CASE RetrRecv
    <3>1. PICK drop \in Drops : msg' = ReceivedMsg(drop)
      BY <2>4 DEF RetrRecv
    <3>2. \A n \in 1..count : n # cur_msg => msg'[n] = msg[n]
      BY <1>1, <1>3, <3>1 DEF ReceivedMsg
    <3>3. msg'[cur_msg].received /\ msg'[cur_msg].deleted = msg[cur_msg].deleted
      BY <1>1, <1>3, <3>1 DEF ReceivedMsg, MsgInfo
    <3>4. \A n \in 1..count : n # cur_msg => list[n] # list[cur_msg]
      BY <1>1 DEF Known, ListKnown
    <3>5. marked' = marked
      BY <2>4 DEF RetrRecv, server
    <3>6. \A n \in 1..count : n # cur_msg => (list[n] \in fetched' <=> list[n] \in fetched)
      BY <1>4, <3>4
    <3>7. ReceivedKnown'
      BY <1>2, <2>1, <3>2, <3>3, <3>6 DEF ReceivedKnown
    <3> QED
      BY <2>1, <3>2, <3>3, <3>5, <3>7
  <2>5. CASE DeleOk
    <3>1. \A n \in 1..count : n # cur_msg => msg'[n] = msg[n]
      BY <1>1, <1>3, <2>5 DEF DeleOk
    <3>2. msg'[cur_msg].received = msg[cur_msg].received
          /\ msg'[cur_msg].uidl = msg[cur_msg].uidl
      BY <1>1, <1>3, <2>5 DEF DeleOk, MsgInfo
    <3>3. fetched' = fetched /\ marked' = marked \cup {list[cur_msg]}
      BY <2>5 DEF DeleOk, observers
    <3>4. \A n \in 1..count : msg'[n].received = msg[n].received /\ msg'[n].uidl = msg[n].uidl
      BY <3>1, <3>2
    <3>5. ReceivedKnown'
      BY <1>2, <2>1, <3>3, <3>4 DEF ReceivedKnown
    <3> QED
      BY <2>1, <3>1, <3>3, <3>5
  <2> QED
    BY <2>2, <2>3, <2>4, <2>5
<1>9. FetchedKnown'
  <2>1. fetched' # {} => state \in FetchStates \/ RetrRecv
    BY <1>4 DEF Known, FetchedKnown
  <2>2. UidlRecv => state \notin FetchStates
    BY DEF UidlRecv, FetchStates
  <2>3. ~UidlRecv => state' \in FetchStates
    <3>1. ListRecv \/ RetrRecv \/ DeleOk =>
             state' \in {"RETR_RECV", "LOGOUT", "DELETE", "RETR"}
      BY <1>1, LookupNextType, AdvanceType
         DEF ListRecv, RetrRecv, DeleOk, AfterRetr, Send, Fail
    <3> QED
      BY <3>1 DEF FetchStates
  <2>4. UidlRecv /\ RetrRecv => FALSE
    BY DEF UidlRecv, RetrRecv
  <2> QED
    BY <1>1, <2>1, <2>2, <2>3, <2>4 DEF FetchedKnown, Running
<1>10. RetrNew'
  <2>1. SUFFICES ASSUME sess' = "RECV", state' \in {"RETR", "RETR_RECV"}
                 PROVE  ~msg'[cur_msg'].received
    BY DEF RetrNew
  <2>2. LookupNext(msg', cur_msg) \/ Advance(msg')
    BY <2>1 DEF UidlRecv, ListRecv, RetrRecv, DeleOk, AfterRetr, Send, Fail
  <2> QED
    BY <1>1, <2>1, <2>2, LookupNextNew
<1>11. QuitKnown'
  BY <1>1, <1>2, <1>8 DEF QuitKnown
<1> QED
  BY <1>6, <1>7, <1>8, <1>9, <1>10, <1>11 DEF Known


\* What was handled and is still there has a line in the list that is written, or
\* its record is lost in a way that is known.
LEMMA ReplaceKnown ==
    ASSUME TypeOK, Known, sess = "REPLACING",
           NEW u \in handled \cap maildrop,
           u \notin lapsed, u \notin {list[n] : n \in Unwritten}
    PROVE  NewList[u] # RECV_TIME_NONE
<1>1. count \in Nat /\ list \in Seq(Uids) /\ count = Len(list) /\ msg \in [1..count -> MsgInfo]
      /\ u \in Uids
  BY DEF TypeOK, MsgOK, ObserversOK, count
<1>2. u \in Members(list)
  BY DEF Known, ListKnown
<1>3. PICK n \in 1..count : list[n] = u
  BY <1>1, <1>2 DEF Members
<1>4. n \notin Unwritten
  BY <1>3
<1>5. msg[n].uidl /\ (prefs.getall => msg[n].received)
  BY <1>3, <1>4 DEF Unwritten
<1>6. msg[n].received
  <2>1. SUFFICES ASSUME ~msg[n].received PROVE FALSE
    OBVIOUS
  <2>2. u \notin fetched /\ uidl_table[u] = RECV_TIME_NONE
    BY <1>3, <1>5, <2>1 DEF Known, ReceivedKnown
  <2>3. u \in Recorded
    BY <2>2 DEF Recorded
  <2> QED
    BY <2>2, <2>3 DEF Known, TableKnown, Running
<1>7. ~(state = "DONE" /\ msg[n].deleted)
  BY <1>3 DEF Known, QuitKnown
<1>8. n \in Written
  BY <1>3, <1>5, <1>6, <1>7 DEF Written
<1>9. NewList[u] = LET i == CHOOSE i \in Written : list[i] = u
                   IN IF msg[i].recv_time = RECV_TIME_NONE THEN RECV_TIME_RECEIVED
                      ELSE msg[i].recv_time
  BY <1>1, <1>3, <1>8 DEF NewList
<1> QED
  BY <1>9 DEF RECV_TIME_NONE, RECV_TIME_RECEIVED

\* The session is gone, and every record that is missing is known to be.
LEMMA DestroyKnown ==
    ASSUME Known, Destroy,
           \A u \in (handled \cap maildrop) \ lapsed' : uidl_file'[u] # RECV_TIME_NONE
    PROVE  Known'
<1>1. /\ sess' = "IDLE" /\ list' = << >> /\ srv' = "open" /\ fetched' = {}
      /\ uidl_is_valid' = FALSE /\ UNCHANGED <<maildrop, handled>>
      /\ state' \in {"LOGOUT", "READY"} /\ (state' # "LOGOUT" => marked' = {})
  BY DEF Destroy
<1>2. count' = 0 /\ 1..count' = {}
  BY <1>1 DEF count
<1> QED
  BY <1>1, <1>2 DEF RecordKnown, TableKnown, Recorded, ListKnown, ReceivedKnown,
     FetchedKnown, RetrNew, QuitKnown, Known, Running

LEMMA EndingKnown ==
    ASSUME TypeOK, Known, End \/ Crash
    PROVE  Known'
<1>1. CASE EndUnrecorded \/ (Crash /\ sess # "REPLACING")
  <2>1. Destroy /\ uidl_file' = uidl_file /\ lapsed' = lapsed \cup fetched /\ sess # "REPLACING"
    BY <1>1 DEF EndUnrecorded, Crash, Over
  <2>2. \A u \in (handled \cap maildrop) \ lapsed' : uidl_file'[u] # RECV_TIME_NONE
    BY <2>1 DEF Known, RecordKnown, Recorded
  <2> QED
    BY <2>1, <2>2, DestroyKnown
<1>2. CASE Crash /\ sess = "REPLACING"
  BY <1>2, DestroyKnown DEF Crash
<1>3. CASE EndRecorded
  <2>1. /\ sess' = "REPLACING" /\ Running /\ uidl_is_valid
        /\ UNCHANGED <<uidl_table, msg, list, prefs, uidl_is_valid, fetched, handled,
                       lapsed, maildrop, state, srv, marked>>
    BY <1>3 DEF EndRecorded, Over, dialogue, server, observers
  <2>2. Recorded' = Recorded /\ count' = count /\ Members(list') = Members(list)
    BY <2>1 DEF Recorded, count
  <2>3. RecordKnown' /\ TableKnown' /\ RetrNew' /\ FetchedKnown'
    BY <2>1, <2>2 DEF Known, RecordKnown, TableKnown, RetrNew, FetchedKnown, Running
  <2>4. ListKnown' /\ ReceivedKnown' /\ QuitKnown'
    BY <2>1, <2>2 DEF Known, ListKnown, ReceivedKnown, QuitKnown
  <2> QED
    BY <2>3, <2>4 DEF Known
<1>4. CASE Replace
  <2>1. Destroy /\ sess = "REPLACING"
    BY <1>4 DEF Replace
  <2>2. CASE lapsed' = lapsed \cup handled
    BY <2>1, <2>2, DestroyKnown
  <2>3. CASE /\ uidl_file' = NewList
             /\ lapsed' = (lapsed \cup (handled \cap {list[n] : n \in Unwritten}))
                          \ {list[n] : n \in Written}
    <3>1. ASSUME NEW u \in handled \cap maildrop, u \notin lapsed'
          PROVE  NewList[u] # RECV_TIME_NONE
      <4>1. CASE u \in {list[n] : n \in Written}
        <5>1. /\ u \in Uids
              /\ NewList[u] = LET i == CHOOSE i \in Written : list[i] = u
                              IN IF msg[i].recv_time = RECV_TIME_NONE
                                 THEN RECV_TIME_RECEIVED ELSE msg[i].recv_time
          BY <4>1 DEF NewList, TypeOK, ObserversOK
        <5> QED
          BY <5>1 DEF RECV_TIME_NONE, RECV_TIME_RECEIVED
      <4>2. CASE u \notin {list[n] : n \in Written}
        <5>1. u \notin lapsed /\ u \notin {list[n] : n \in Unwritten}
          BY <2>3, <3>1, <4>2
        <5> QED
          BY <2>1, <5>1, ReplaceKnown
      <4> QED
        BY <4>1, <4>2
    <3> QED
      BY <2>1, <2>3, <3>1, DestroyKnown
  <2> QED
    BY <1>4, <2>2, <2>3 DEF Replace
<1> QED
  BY <1>1, <1>2, <1>3, <1>4 DEF End

LEMMA KnownStep ==
    TypeOK /\ CurOK /\ TypeOK' /\ Known /\ [Next]_vars => Known'
<1> SUFFICES ASSUME TypeOK, CurOK, TypeOK', Known, [Next]_vars PROVE Known'
  OBVIOUS
<1> QED
  BY StartKnown, DialogueKnown, StatKnown, InnerKnown, OuterKnown, EndingKnown
     DEF Next, Reply, Environment

\* A message that was handled is not fetched again, unless the user asks for all
\* messages, the server gives no UIDL for it, or its record is known to be lost:
\* the list, read at the start and written at the end, forgets nothing else.
THEOREM NothingIsFetchedTwice == Spec => []RetrievedOnce
<1>1. Init => TypeOK /\ CurOK /\ Sound /\ Known
  BY InitType, InitSound, InitKnown
<1>2. TypeOK /\ CurOK /\ Sound /\ Known /\ [Next]_vars
        => TypeOK' /\ CurOK' /\ Sound' /\ Known'
  BY TypeStep, SoundStep, KnownStep
<1>3. TypeOK /\ CurOK /\ Sound /\ Known => RetrievedOnce
  <2>1. SUFFICES ASSUME TypeOK, CurOK, Sound, Known, sess = "RECV",
                        state \in {"RETR", "RETR_RECV"}, list[cur_msg] \in handled,
                        ~prefs.getall, msg[cur_msg].uidl, list[cur_msg] \notin lapsed
                 PROVE  FALSE
    BY DEF RetrievedOnce
  <2>2. cur_msg \in 1..count /\ state \in ListStates
    BY <2>1 DEF CurOK, ListStates
  <2>3. ~msg[cur_msg].received
    BY <2>1 DEF Known, RetrNew
  <2>4. list[cur_msg] \notin fetched /\ uidl_table[list[cur_msg]] = RECV_TIME_NONE
    BY <2>1, <2>2, <2>3 DEF Known, ReceivedKnown
  <2>5. list[cur_msg] \in maildrop
    BY <2>1, <2>2 DEF Sound, Listed, Members, TypeOK, MsgOK, count
  <2>6. list[cur_msg] \in Recorded
    BY <2>1, <2>4, <2>5 DEF Recorded
  <2> QED
    BY <2>1, <2>4, <2>6 DEF Known, TableKnown, Running
<1> QED
  BY <1>1, <1>2, <1>3, PTL DEF Spec


-----------------------------------------------------------------------------
\* A session that succeeds is complete: what is known of the messages the walk
\* over the listing has passed.

Settled(n) == msg[n].received \/ msg[n].deleted \/ Skipped(msg[n])

\* The record of an earlier session says that message n is to be deleted.
ToDelete(n) ==
    msg[n].uidl /\ (prefs.rmmail \/ prefs.getall) /\ uidl_table[list[n]] = RECV_TIME_DELETE
MarkRead == \A n \in 1..count : ToDelete(n) => msg[n].recv_time = RECV_TIME_DELETE

RangeStates == {"GETRANGE_UIDL", "GETRANGE_UIDL_RECV", "GETRANGE_LAST"}
SizeStates == {"GETSIZE_LIST", "GETSIZE_LIST_RECV"}
WalkStates == {"RETR", "RETR_RECV", "DELETE"}

Unlisted ==
    sess = "RECV" /\ state \in RangeStates =>
        \A n \in 1..count : ~msg[n].uidl /\ msg[n].size = 0

\* What comes before the first message that is looked at.
WalkBegins ==
    sess = "RECV" /\ state \in SizeStates =>
        \A n \in 1..count : n < cur_msg /\ msg[n].uidl => msg[n].received /\ ~ToDelete(n)

Walking ==
    sess = "RECV" /\ state \in WalkStates =>
        /\ \A n \in 1..count :
              n < cur_msg /\ msg[n].uidl => Settled(n) /\ (ToDelete(n) => msg[n].deleted)
        /\ state = "DELETE" \/ ~ToDelete(cur_msg)

Walked ==
    state \in {"LOGOUT", "DONE"} /\ error_val = "SUCCESS" /\ ~prefs.auth_only =>
        \A n \in 1..count :
            /\ msg[n].uidl \/ (~uidl_is_valid /\ n >= cur_msg) => Settled(n)
            /\ ToDelete(n) => msg[n].deleted

EndsDone == sess = "DISCONNECTED" /\ inc_state = "SUCCESS" => state = "DONE"

WalkOK == MarkRead /\ Unlisted /\ WalkBegins /\ Walking /\ Walked /\ EndsDone

\* No messages, nothing to know.
LEMMA EmptyWalk == 1..count = {} /\ sess \notin {"RECV", "DISCONNECTED"} => WalkOK
BY DEF WalkOK, MarkRead, Unlisted, WalkBegins, Walking, Walked, EndsDone

\* Steps that leave the messages alone and do not go on to the next part of the
\* session, or give up.
LEMMA QuietWalk ==
    ASSUME WalkOK,
           UNCHANGED <<uidl_table, msg, list, prefs, uidl_is_valid, cur_msg>>,
           sess' = "RECV" /\ state' \in RangeStates => sess = "RECV" /\ state \in RangeStates,
           sess' = "RECV" /\ state' \in SizeStates =>
              sess = "RECV" /\ state \in RangeStates \cup SizeStates,
           sess' = "RECV" /\ state' \in WalkStates =>
              sess = "RECV" /\ state \in WalkStates /\ (state = "DELETE" => state' = "DELETE"),
           state' \in {"LOGOUT", "DONE"} /\ error_val' = "SUCCESS" /\ ~prefs.auth_only =>
              state \in {"LOGOUT", "DONE"} /\ error_val = "SUCCESS",
           EndsDone'
    PROVE  WalkOK'
<1>1. count' = count /\ (\A n \in 1..count : /\ ToDelete(n)' = ToDelete(n)
                                             /\ Settled(n)' = Settled(n))
  BY DEF count, ToDelete, Settled, Skipped
<1>2. ToDelete(cur_msg)' = ToDelete(cur_msg)
  BY DEF ToDelete
<1>3. MarkRead'
  BY <1>1 DEF WalkOK, MarkRead
<1>4. Unlisted'
  BY <1>1 DEF WalkOK, Unlisted
<1>5. WalkBegins'
  <2>1. CASE sess = "RECV" /\ state \in RangeStates
    BY <1>1, <2>1 DEF WalkOK, Unlisted, WalkBegins
  <2>2. CASE ~(sess = "RECV" /\ state \in RangeStates)
    BY <1>1, <2>2 DEF WalkOK, WalkBegins
  <2> QED
    BY <2>1, <2>2
<1>6. Walking'
  BY <1>1, <1>2 DEF WalkOK, Walking
<1>7. Walked'
  BY <1>1 DEF WalkOK, Walked
<1> QED
  BY <1>3, <1>4, <1>5, <1>6, <1>7 DEF WalkOK

LEMMA DialogueWalk ==
    ASSUME WalkOK,
           \/ CommandFailed \/ Greeting \/ StlsOk \/ UserOk \/ AuthReply
           \/ LoggedIn \/ RangeMalformed \/ UidlOk \/ UidlNotSupported
           \/ LastNotSupported \/ ListingMalformed \/ ListOk \/ RetrOk
    PROVE  WalkOK'
<1>1. /\ sess = "RECV" /\ sess' \in {"RECV", "ERROR"}
      /\ UNCHANGED <<uidl_table, msg, list, prefs, uidl_is_valid, cur_msg>>
  BY DEF CommandFailed, Greeting, StlsOk, UserOk, AuthReply, LoggedIn,
     RangeMalformed, UidlOk, UidlNotSupported, LastNotSupported,
     ListingMalformed, ListOk, RetrOk, Authenticate, Good, Send, Fail, Dialogue, server
<1>2. CASE CommandFailed
  <2>1. state' = "LOGOUT" /\ error_val' # "SUCCESS"
    BY <1>2 DEF CommandFailed, Send
  <2> QED
    BY <1>1, <2>1, QuietWalk DEF RangeStates, SizeStates, WalkStates, EndsDone
<1>3. CASE LoggedIn
  <2>1. state' = IF prefs.auth_only THEN "LOGOUT" ELSE "GETRANGE_STAT"
    BY <1>3 DEF LoggedIn, Send
  <2> QED
    BY <1>1, <2>1, QuietWalk DEF RangeStates, SizeStates, WalkStates, EndsDone
<1>4. CASE ~CommandFailed /\ ~LoggedIn
  <2>1. /\ state' \notin {"LOGOUT", "DONE"}
        /\ sess' = "RECV" /\ state' \in RangeStates => state \in RangeStates
        /\ sess' = "RECV" /\ state' \in SizeStates => state \in RangeStates \cup SizeStates
        /\ sess' = "RECV" /\ state' \in WalkStates => state = "RETR"
    BY <1>4 DEF Greeting, StlsOk, UserOk, AuthReply,
       RangeMalformed, UidlOk, UidlNotSupported, LastNotSupported,
       ListingMalformed, ListOk, RetrOk, Authenticate, Good, Send, Fail,
       RangeStates, SizeStates, WalkStates
  <2> QED
    BY <1>1, <2>1, QuietWalk DEF WalkStates, EndsDone
<1> QED
  BY <1>2, <1>3, <1>4

LEMMA OuterWalk ==
    ASSUME CurOK, WalkOK,
           \/ Connect \/ Broken \/ Timeout \/ Cancel \/ QuitReply \/ EndRecorded
           \/ DropFailed \/ ServerUpdate \/ (\E u \in Uids : Arrive(u))
           \/ UNCHANGED vars
    PROVE  WalkOK'
<1>1. UNCHANGED <<uidl_table, msg, list, prefs, uidl_is_valid, cur_msg>>
  BY DEF Connect, Broken, Timeout, Cancel, QuitReply, EndRecorded, DropFailed,
     ServerUpdate, Arrive, vars, session, dialogue, server
<1>2. /\ sess' = "RECV" => (sess = "RECV" /\ state' = state) \/ state' = "READY"
      /\ state' \in {"LOGOUT", "DONE"} /\ error_val' = "SUCCESS" =>
            state \in {"LOGOUT", "DONE"} /\ error_val = "SUCCESS"
      /\ EndsDone'
  BY DEF Connect, Broken, Timeout, Cancel, QuitReply, EndRecorded, DropFailed, Fail,
     ServerUpdate, Arrive, vars, session, dialogue, server, CurOK, WalkOK, EndsDone
<1> QED
  BY <1>1, <1>2, QuietWalk DEF RangeStates, SizeStates, WalkStates


\* pop3_lookup_next passes over nothing that is to be fetched or deleted.
LEMMA LookupNextWalk ==
    ASSUME TypeOK, NEW m, NEW c \in 1..count, LookupNext(m, c)
    PROVE  /\ \A n \in c..count : state' = "LOGOUT" \/ n < cur_msg' =>
                 ~Expired(m[n]) /\ Skipped(m[n])
           /\ state' = "LOGOUT" => cur_msg' = count
           /\ state' \in {"RETR", "DELETE"} =>
                 cur_msg' \in c..count /\ (state' = "RETR" => ~Expired(m[cur_msg']))
<1>1. count \in Nat
  BY DEF TypeOK, MsgOK, count
<1> DEFINE stops == {n \in c..count : Expired(m[n]) \/ ~Skipped(m[n])}
<1>2. CASE stops = {} /\ cur_msg' = count /\ Send("LOGOUT")
  BY <1>1, <1>2 DEF Send
<1>3. CASE /\ IsFirst(cur_msg', stops)
           /\ Send(IF Expired(m[cur_msg']) THEN "DELETE" ELSE "RETR")
  <2>1. cur_msg' \in stops /\ \A k \in stops : cur_msg' <= k
    BY <1>3 DEF IsFirst
  <2>2. \A n \in c..count : n < cur_msg' => n \notin stops
    BY <1>1, <2>1
  <2>3. state' = IF Expired(m[cur_msg']) THEN "DELETE" ELSE "RETR"
    BY <1>3 DEF Send
  <2> QED
    BY <2>1, <2>2, <2>3
<1> QED
  BY <1>2, <1>3 DEF LookupNext

\* The walk goes on from message c: what comes before it is settled.
LEMMA WalkOn ==
    ASSUME TypeOK, WalkOK, TypeOK', MarkRead',
           sess = "RECV", NEW c \in 1..count + 1,
           UNCHANGED <<list, prefs, uidl_table, uidl_is_valid, inc_state>>,
           \/ c <= count /\ LookupNext(msg', c)
           \/ c = count + 1 /\ Send("LOGOUT") /\ cur_msg' = count,
           \A n \in 1..count : n < c /\ (msg'[n].uidl \/ (c = count + 1 /\ n = count)) =>
              Settled(n)',
           \A n \in 1..count : n < c /\ ToDelete(n)' => msg'[n].deleted
    PROVE  WalkOK'
<1>1. count \in Nat /\ count' = count
  BY DEF TypeOK, MsgOK, count
<1>2. sess' = "RECV" /\ state' \in {"LOGOUT", "RETR", "DELETE"}
  BY <1>1, LookupNextType DEF Send
<1>4. \A n \in 1..count : ToDelete(n)' => Expired(msg'[n]) /\ msg'[n].uidl
  BY <1>1 DEF MarkRead, Expired, ToDelete
<1>5. \A n \in 1..count : Skipped(msg'[n]) => Settled(n)'
  BY DEF Settled, Skipped
<1>6. \A n \in 1..count : n >= c /\ (state' = "LOGOUT" \/ n < cur_msg') =>
         Settled(n)' /\ ~ToDelete(n)'
  BY <1>1, <1>4, <1>5, LookupNextWalk
<1>7. Unlisted' /\ WalkBegins' /\ EndsDone'
  BY <1>2 DEF Unlisted, WalkBegins, EndsDone, RangeStates, SizeStates
<1>8. Walking'
  <2>1. SUFFICES ASSUME state' \in {"RETR", "DELETE"}
                 PROVE  /\ \A n \in 1..count : n < cur_msg' /\ msg'[n].uidl =>
                              Settled(n)' /\ (ToDelete(n)' => msg'[n].deleted)
                        /\ state' = "DELETE" \/ ~ToDelete(cur_msg)'
    BY <1>1, <1>2 DEF Walking, WalkStates
  <2>2. c <= count /\ LookupNext(msg', c)
    BY <2>1 DEF Send
  <2>3. cur_msg' \in c..count /\ (state' = "RETR" => ~Expired(msg'[cur_msg']))
    BY <1>1, <2>1, <2>2, LookupNextWalk
  <2>4. state' = "RETR" => ~ToDelete(cur_msg)'
    BY <1>1, <2>3 DEF ToDelete, MarkRead, Expired
  <2>5. \A n \in 1..count : n < cur_msg' /\ msg'[n].uidl =>
           Settled(n)' /\ (ToDelete(n)' => msg'[n].deleted)
    BY <1>1, <1>6
  <2> QED
    BY <2>1, <2>4, <2>5
<1>9. Walked'
  <2>1. SUFFICES ASSUME state' = "LOGOUT", NEW n \in 1..count
                 PROVE  /\ msg'[n].uidl \/ n >= cur_msg' => Settled(n)'
                        /\ ToDelete(n)' => msg'[n].deleted
    BY <1>1, <1>2 DEF Walked
  <2>2. cur_msg' = count
    BY <1>1, <2>1, LookupNextWalk
  <2>3. CASE n >= c
    BY <1>6, <2>1, <2>3
  <2>4. CASE n < c
    <3>1. n >= cur_msg' => n = count /\ c = count + 1
      BY <1>1, <2>2, <2>4
    <3> QED
      BY <2>4, <3>1
  <2> QED
    BY <1>1, <2>3, <2>4
<1> QED
  BY <1>7, <1>8, <1>9 DEF WalkOK

\* The same for the step from the current message to the next.
LEMMA AdvanceWalk ==
    ASSUME TypeOK, WalkOK, TypeOK', MarkRead',
           sess = "RECV", cur_msg \in 1..count,
           UNCHANGED <<list, prefs, uidl_table, uidl_is_valid, inc_state>>,
           Advance(msg'),
           \A n \in 1..count : n <= cur_msg /\ (msg'[n].uidl \/ n = cur_msg) => Settled(n)',
           \A n \in 1..count : n <= cur_msg /\ ToDelete(n)' => msg'[n].deleted
    PROVE  WalkOK'
<1>1. count \in Nat /\ cur_msg + 1 \in 1..count + 1
  BY DEF TypeOK, MsgOK, count
<1>2. \/ cur_msg + 1 <= count /\ LookupNext(msg', cur_msg + 1)
      \/ cur_msg + 1 = count + 1 /\ Send("LOGOUT") /\ cur_msg' = count
  BY <1>1 DEF Advance
<1>3. \A n \in 1..count : /\ n < cur_msg + 1 <=> n <= cur_msg
                          /\ cur_msg + 1 = count + 1 /\ n = count => n = cur_msg
  BY <1>1
<1> QED
  BY <1>1, <1>2, <1>3, WalkOn


LEMMA InitWalk == Init => WalkOK
<1>1. Init => 1..count = {} /\ sess = "IDLE"
  BY DEF Init, count
<1> QED
  BY <1>1, EmptyWalk

\* A session begins, or is gone.
LEMMA NoWalk == Start \/ Destroy => WalkOK'
<1>1. ASSUME Start \/ Destroy
      PROVE  (1..count = {} /\ sess \notin {"RECV", "DISCONNECTED"})'
  BY <1>1 DEF Start, Destroy, count
<1>2. (1..count = {} /\ sess \notin {"RECV", "DISCONNECTED"} => WalkOK)'
  BY DEF WalkOK, MarkRead, Unlisted, WalkBegins, Walking, Walked, EndsDone
<1> QED
  BY <1>1, <1>2

LEMMA StatWalk == TypeOK /\ StatOk => WalkOK'
<1> SUFFICES ASSUME TypeOK, StatOk PROVE WalkOK'
  OBVIOUS
<1>1. /\ sess' = "RECV" /\ state' \in {"LOGOUT", "GETRANGE_UIDL"}
      /\ state' = "LOGOUT" => maildrop = {}
  BY DEF StatOk, Good, Send
<1>2. count' \in Nat /\ count' = Cardinality(maildrop)
  BY Listing DEF StatOk, TypeOK, PersistentOK, count
<1>3. \A n \in 1..count' : ~msg'[n].uidl /\ msg'[n].size = 0
  BY <1>2 DEF StatOk, NewMsg, count
<1>4. state' = "LOGOUT" => 1..count' = {}
  BY <1>1, <1>2, FS_EmptySet
<1>5. MarkRead'
  BY <1>3 DEF MarkRead, ToDelete
<1> QED
  BY <1>1, <1>3, <1>4, <1>5
     DEF WalkOK, Unlisted, WalkBegins, Walking, Walked, EndsDone, SizeStates, WalkStates

\* LAST: no message has an id, and none a size yet.
LEMMA LastWalk == WalkOK /\ LastOk => WalkOK'
<1> SUFFICES ASSUME WalkOK, LastOk PROVE WalkOK'
  OBVIOUS
<1>1. /\ sess = "RECV" /\ state = "GETRANGE_LAST" /\ sess' = "RECV"
      /\ state' \in {"LOGOUT", "GETSIZE_LIST"}
      /\ UNCHANGED <<msg, list, prefs, uidl_table>>
  BY DEF LastOk, Good, Send, server
<1>2. count' = count /\ \A n \in 1..count : ~msg'[n].uidl /\ msg'[n].size = 0
  BY <1>1 DEF WalkOK, Unlisted, RangeStates, count
<1>3. \A n \in 1..count : Settled(n)' /\ ~ToDelete(n)'
  BY <1>2 DEF Settled, Skipped, ToDelete
<1> QED
  BY <1>1, <1>2, <1>3 DEF WalkOK, MarkRead, Unlisted, WalkBegins, Walking, Walked, EndsDone,
     RangeStates, WalkStates

\* UIDL: what is not new was received, and is not to be deleted.
LEMMA UidlWalk == TypeOK /\ CurOK /\ WalkOK /\ UidlRecv => WalkOK'
<1> SUFFICES ASSUME TypeOK, CurOK, WalkOK, UidlRecv PROVE WalkOK'
  OBVIOUS
<1>1. /\ sess = "RECV" /\ state = "GETRANGE_UIDL_RECV" /\ sess' = "RECV"
      /\ state' \in {"LOGOUT", "GETSIZE_LIST"} /\ uidl_is_valid'
      /\ UNCHANGED <<list, prefs, uidl_table>> /\ count' = count /\ count \in Nat
      /\ msg \in [1..count -> MsgInfo]
  <2>1. sess = "RECV" /\ state = "GETRANGE_UIDL_RECV" /\ uidl_is_valid'
        /\ UNCHANGED <<list, prefs, uidl_table>>
    BY DEF UidlRecv, server
  <2>2. sess' = "RECV" /\ state' \in {"LOGOUT", "GETSIZE_LIST"}
    BY <2>1 DEF UidlRecv, Send
  <2>3. count' = count /\ count \in Nat /\ msg \in [1..count -> MsgInfo]
    BY <2>1 DEF TypeOK, MsgOK, count
  <2> QED
    BY <2>1, <2>2, <2>3
<1> DEFINE recorded(n) == uidl_table[list[n]]
           new(bad) == {n \in (1..count) \ bad :
                          prefs.getall \/ prefs.rmmail \/ recorded(n) = RECV_TIME_NONE}
<1>2. PICK bad \in SUBSET (1..count) :
         /\ msg' = [n \in 1..count |->
                      IF n \in bad THEN msg[n]
                      ELSE [msg[n] EXCEPT
                              !.uidl = TRUE,
                              !.recv_time = recorded(n),
                              !.received = ~prefs.getall /\ recorded(n) # RECV_TIME_NONE]]
         /\ \/ new(bad) = {} /\ Send("LOGOUT") /\ UNCHANGED cur_msg
            \/ Send("GETSIZE_LIST") /\ IsFirst(cur_msg', new(bad))
  BY DEF UidlRecv
<1>3. \A n \in 1..count : n \in bad => ~msg'[n].uidl
  BY <1>1, <1>2 DEF WalkOK, Unlisted, RangeStates
<1>4. ASSUME NEW n \in 1..count, n \notin bad
      PROVE  /\ msg'[n].recv_time = recorded(n)
             /\ ~prefs.getall /\ recorded(n) # RECV_TIME_NONE => msg'[n].received
  <2> DEFINE t == recorded(n)
             b == ~prefs.getall /\ recorded(n) # RECV_TIME_NONE
  <2>1. msg[n] \in MsgInfo
    BY <1>1
  <2>2. msg'[n] = [msg[n] EXCEPT !.uidl = TRUE, !.recv_time = t, !.received = b]
    BY <1>2, <1>4
  <2> HIDE DEF t, b
  <2>3. msg'[n].recv_time = t /\ msg'[n].received = b
    BY <2>1, <2>2 DEF MsgInfo
  <2> QED
    BY <2>3 DEF t, b
<1>5. MarkRead'
  BY <1>1, <1>3, <1>4 DEF MarkRead, ToDelete
<1>6. \A n \in 1..count : msg'[n].uidl /\ n \notin new(bad) =>
         msg'[n].received /\ ~ToDelete(n)'
  BY <1>1, <1>3, <1>4 DEF ToDelete
<1>7. WalkBegins'
  <2>1. SUFFICES ASSUME state' = "GETSIZE_LIST", NEW n \in 1..count, n < cur_msg',
                        msg'[n].uidl
                 PROVE  msg'[n].received /\ ~ToDelete(n)'
    BY <1>1 DEF WalkBegins, SizeStates
  <2>2. cur_msg' \in new(bad) /\ \A k \in new(bad) : cur_msg' <= k
    BY <1>2, <2>1 DEF IsFirst, Send
  <2>3. n \notin new(bad)
    BY <1>1, <2>1, <2>2
  <2> QED
    BY <1>6, <2>1, <2>3
<1>8. Walked'
  <2>1. SUFFICES ASSUME state' = "LOGOUT", NEW n \in 1..count
                 PROVE  /\ msg'[n].uidl => Settled(n)'
                        /\ ToDelete(n)' => msg'[n].deleted
    BY <1>1 DEF Walked
  <2>2. new(bad) = {}
    BY <1>2, <2>1 DEF Send
  <2>3. msg'[n].uidl => msg'[n].received /\ ~ToDelete(n)'
    BY <1>6, <2>2
  <2>4. ToDelete(n)' => msg'[n].uidl
    BY DEF ToDelete
  <2>5. msg'[n].received => Settled(n)'
    BY DEF Settled
  <2> QED
    BY <2>3, <2>4, <2>5
<1> QED
  BY <1>1, <1>5, <1>7, <1>8 DEF WalkOK, Unlisted, Walking, EndsDone, RangeStates, WalkStates

LEMMA ListWalk == TypeOK /\ CurOK /\ TypeOK' /\ WalkOK /\ ListRecv => WalkOK'
<1> SUFFICES ASSUME TypeOK, CurOK, TypeOK', WalkOK, ListRecv PROVE WalkOK'
  OBVIOUS
<1>1. /\ sess = "RECV" /\ state = "GETSIZE_LIST_RECV" /\ LookupNext(msg', cur_msg)
      /\ UNCHANGED <<list, prefs, uidl_table, uidl_is_valid, inc_state>>
      /\ count' = count /\ count \in Nat /\ msg \in [1..count -> MsgInfo]
      /\ cur_msg \in 1..count
  BY DEF ListRecv, server, TypeOK, MsgOK, count, CurOK, ListStates
<1>2. \A n \in 1..count : /\ msg'[n].uidl = msg[n].uidl
                          /\ msg'[n].recv_time = msg[n].recv_time
                          /\ msg'[n].received = msg[n].received
  BY <1>1 DEF ListRecv, MsgInfo
<1>3. \A n \in 1..count : ToDelete(n)' = ToDelete(n)
  BY <1>1, <1>2 DEF ToDelete
<1>4. MarkRead'
  BY <1>1, <1>2, <1>3 DEF WalkOK, MarkRead
<1>5. \A n \in 1..count : n < cur_msg /\ msg'[n].uidl => Settled(n)' /\ ~ToDelete(n)'
  BY <1>1, <1>2, <1>3 DEF WalkOK, WalkBegins, SizeStates, Settled
<1>6. \A n \in 1..count : ToDelete(n)' => msg'[n].uidl
  BY DEF ToDelete
<1>7. cur_msg \in 1..count + 1 /\ cur_msg <= count
  BY <1>1
<1> QED
  BY <1>1, <1>4, <1>5, <1>6, <1>7, WalkOn

LEMMA RetrWalk == TypeOK /\ CurOK /\ TypeOK' /\ WalkOK /\ RetrRecv => WalkOK'
<1> SUFFICES ASSUME TypeOK, CurOK, TypeOK', WalkOK, RetrRecv PROVE WalkOK'
  OBVIOUS
<1>1. /\ sess = "RECV" /\ state = "RETR_RECV" /\ cur_msg \in 1..count
      /\ UNCHANGED <<list, prefs, uidl_table, uidl_is_valid>>
      /\ count' = count /\ count \in Nat /\ msg \in [1..count -> MsgInfo]
  BY DEF RetrRecv, server, TypeOK, MsgOK, count, CurOK, ListStates
<1>2. PICK drop \in Drops : msg' = ReceivedMsg(drop)
  BY DEF RetrRecv
<1>3. \A n \in 1..count : n # cur_msg => msg'[n] = msg[n]
  BY <1>1, <1>2 DEF ReceivedMsg
<1>4. /\ msg'[cur_msg].received /\ msg'[cur_msg].uidl = msg[cur_msg].uidl
  BY <1>1, <1>2 DEF ReceivedMsg, MsgInfo
<1>5. \A n \in 1..count : ToDelete(n)' = ToDelete(n)
  BY <1>1, <1>3, <1>4 DEF ToDelete
<1>6. ~ToDelete(cur_msg)
  BY <1>1 DEF WalkOK, Walking, WalkStates
<1>7. MarkRead'
  BY <1>1, <1>3, <1>5, <1>6 DEF WalkOK, MarkRead
<1>8. \A n \in 1..count : n < cur_msg /\ msg'[n].uidl =>
         Settled(n)' /\ (ToDelete(n)' => msg'[n].deleted)
  <2>1. ASSUME NEW n \in 1..count, n < cur_msg, msg'[n].uidl
        PROVE  Settled(n)' /\ (ToDelete(n)' => msg'[n].deleted)
    <3>1. msg'[n] = msg[n]
      BY <1>1, <1>3, <2>1
    <3>2. Settled(n) /\ (ToDelete(n) => msg[n].deleted)
      BY <1>1, <2>1, <3>1 DEF WalkOK, Walking, WalkStates
    <3> QED
      BY <1>1, <1>5, <3>1, <3>2 DEF Settled, Skipped
  <2> QED
    BY <2>1
<1>9. CASE AfterRetr(msg'[cur_msg]) /\ UNCHANGED inc_state
  <2>1. CASE Send("DELETE") /\ UNCHANGED cur_msg
    <3>1. sess' = "RECV" /\ state' = "DELETE" /\ cur_msg' = cur_msg
      BY <1>1, <2>1 DEF Send
    <3> QED
      BY <1>1, <1>7, <1>8, <3>1 DEF WalkOK, Unlisted, WalkBegins, Walking, Walked, EndsDone,
         RangeStates, SizeStates
  <2>2. CASE Advance(msg')
    <3>1. \A n \in 1..count : n <= cur_msg => n < cur_msg \/ n = cur_msg
      BY <1>1
    <3>2. \A n \in 1..count : n = cur_msg => Settled(n)' /\ ~ToDelete(n)'
      BY <1>4, <1>5, <1>6 DEF Settled
    <3>3. \A n \in 1..count : ToDelete(n)' => msg'[n].uidl
      BY DEF ToDelete
    <3> QED
      BY <1>1, <1>7, <1>8, <1>9, <2>2, <3>1, <3>2, <3>3, AdvanceWalk
  <2> QED
    BY <1>9, <2>1, <2>2 DEF AfterRetr
<1>10. CASE Fail /\ inc_state' = "CANCEL"
  <2>1. sess' = "ERROR" /\ state' = "RETR_RECV"
    BY <1>1, <1>10 DEF Fail
  <2> QED
    BY <1>7, <2>1 DEF WalkOK, Unlisted, WalkBegins, Walking, Walked, EndsDone
<1> QED
  BY <1>9, <1>10 DEF RetrRecv

LEMMA DeleWalk == TypeOK /\ CurOK /\ TypeOK' /\ WalkOK /\ DeleOk => WalkOK'
<1> SUFFICES ASSUME TypeOK, CurOK, TypeOK', WalkOK, DeleOk PROVE WalkOK'
  OBVIOUS
<1>1. /\ sess = "RECV" /\ state = "DELETE" /\ cur_msg \in 1..count
      /\ UNCHANGED <<list, prefs, uidl_table, uidl_is_valid, inc_state>>
      /\ count' = count /\ count \in Nat /\ msg \in [1..count -> MsgInfo]
      /\ Advance(msg')
  BY DEF DeleOk, Good, server, TypeOK, MsgOK, count, CurOK, ListStates
<1>2. \A n \in 1..count : n # cur_msg => msg'[n] = msg[n]
  BY <1>1 DEF DeleOk
<1>3. /\ msg'[cur_msg].deleted /\ msg'[cur_msg].uidl = msg[cur_msg].uidl
      /\ msg'[cur_msg].recv_time = RECV_TIME_DELETE
  BY <1>1 DEF DeleOk, MsgInfo
<1>4. \A n \in 1..count : ToDelete(n)' = ToDelete(n)
  BY <1>1, <1>2, <1>3 DEF ToDelete
<1>5. MarkRead'
  BY <1>1, <1>2, <1>3, <1>4 DEF WalkOK, MarkRead
<1>6. \A n \in 1..count : n <= cur_msg /\ (msg'[n].uidl \/ n = cur_msg) =>
         Settled(n)' /\ (ToDelete(n)' => msg'[n].deleted)
  <2>1. ASSUME NEW n \in 1..count, n < cur_msg, msg'[n].uidl
        PROVE  Settled(n)' /\ (ToDelete(n)' => msg'[n].deleted)
    <3>1. msg'[n] = msg[n]
      BY <1>1, <1>2, <2>1
    <3>2. Settled(n) /\ (ToDelete(n) => msg[n].deleted)
      BY <1>1, <2>1, <3>1 DEF WalkOK, Walking, WalkStates
    <3> QED
      BY <1>1, <1>4, <3>1, <3>2 DEF Settled, Skipped
  <2>2. \A n \in 1..count : n = cur_msg => Settled(n)' /\ msg'[n].deleted
    BY <1>3 DEF Settled
  <2>3. \A n \in 1..count : n <= cur_msg => n < cur_msg \/ n = cur_msg
    BY <1>1
  <2> QED
    BY <2>1, <2>2, <2>3
<1>7. \A n \in 1..count : ToDelete(n)' => msg'[n].uidl
  BY DEF ToDelete
<1> QED
  BY <1>1, <1>5, <1>6, <1>7, AdvanceWalk

LEMMA WalkStep == TypeOK /\ CurOK /\ TypeOK' /\ WalkOK /\ [Next]_vars => WalkOK'
<1> SUFFICES ASSUME TypeOK, CurOK, TypeOK', WalkOK, [Next]_vars PROVE WalkOK'
  OBVIOUS
<1>1. EndUnrecorded \/ Replace \/ Crash => Destroy
  BY DEF EndUnrecorded, Replace, Crash
<1> QED
  BY <1>1, NoWalk, DialogueWalk, OuterWalk, StatWalk, LastWalk, UidlWalk, ListWalk, RetrWalk,
     DeleWalk DEF Next, Reply, Environment, End

\* What a successful end has behind it.
LEMMA SuccessDone ==
    ASSUME TypeOK, Known, WalkOK, Over, Result = "SUCCESS", ~prefs.auth_only,
           NEW n \in 1..count
    PROVE  /\ msg[n].uidl \/ (~uidl_is_valid /\ n >= cur_msg) => Settled(n)
           /\ ToDelete(n) => msg[n].deleted
           /\ msg[n].deleted => list[n] \notin maildrop
<1>1. inc_state = "SUCCESS" /\ error_val = "SUCCESS"
  BY DEF Result, TypeOK, StateOK
<1>2. sess \notin {"ERROR", "EOF", "TIMEOUT"}
  BY <1>1 DEF Result
<1>3. sess = "DISCONNECTED"
  BY <1>2 DEF Over, Running, Connected, TypeOK, StateOK, SessStates
<1>4. state = "DONE"
  BY <1>1, <1>3 DEF WalkOK, EndsDone
<1>5. msg[n].deleted => list[n] \notin maildrop
  BY <1>4 DEF Known, QuitKnown
<1> QED
  BY <1>1, <1>4, <1>5 DEF WalkOK, Walked

LEMMA SessionKnown == Spec => [](TypeOK /\ Known /\ WalkOK)
<1>1. Init => TypeOK /\ CurOK /\ Known /\ WalkOK
  BY InitType, InitKnown, InitWalk
<1>2. TypeOK /\ CurOK /\ Known /\ WalkOK /\ [Next]_vars
        => TypeOK' /\ CurOK' /\ Known' /\ WalkOK'
  BY TypeStep, KnownStep, WalkStep
<1> QED
  BY <1>1, <1>2, PTL DEF Spec

\* A session reported as successful has taken every message it listed, but for
\* those without a size or over the limit, and what it deleted is gone.
THEOREM SuccessIsComplete == Spec => SuccessMeansComplete
<1> DEFINE Complete ==
      Over /\ End /\ Result = "SUCCESS" /\ ~prefs.auth_only
        => \A n \in 1..count :
             /\ msg[n].uidl \/ (~uidl_is_valid /\ n >= cur_msg) =>
                   msg[n].received \/ msg[n].deleted \/ Skipped(msg[n])
             /\ msg[n].deleted => list[n] \notin maildrop
<1>1. TypeOK /\ Known /\ WalkOK => Complete
  BY SuccessDone DEF Settled
<1>2. TypeOK /\ Known /\ WalkOK /\ [Next]_vars => [Complete]_vars
  BY <1>1
<1> QED
  BY <1>2, SessionKnown, PTL DEF Spec, SuccessMeansComplete

\* What an earlier session was to delete is gone after one that succeeds.
THEOREM DeletionIsCompleted == Spec => DeletionCompleted
<1> DEFINE Complete ==
      Over /\ End /\ Result = "SUCCESS" /\ ~prefs.auth_only
           /\ (prefs.rmmail \/ prefs.getall)
        => \A n \in 1..count :
             msg[n].uidl /\ uidl_table[list[n]] = RECV_TIME_DELETE =>
                list[n] \notin maildrop
<1>1. TypeOK /\ Known /\ WalkOK => Complete
  BY SuccessDone DEF ToDelete
<1>2. TypeOK /\ Known /\ WalkOK /\ [Next]_vars => [Complete]_vars
  BY <1>1
<1> QED
  BY <1>2, SessionKnown, PTL DEF Spec, DeletionCompleted
=============================================================================
