----------------------------- MODULE SmtpProofs -----------------------------
(***************************************************************************)
(* Theorems about Smtp, for any recipients, accounts and length of replies.*)
(***************************************************************************)
EXTENDS Smtp, TLAPS

\* Before the first recipient is named.
Opening == {"READY", "HELO", "EHLO", "STARTTLS", "FROM"} \cup AuthStates

\* Every recipient is still to be named, is being asked about, or was accepted,
\* as far as the client reads the answers to its questions.
WalkOK ==
    /\ state \in Opening => to_do = Recipients /\ rcpt = {}
    /\ state = "RCPT" /\ ~ahead => rcpt \cup asked \cup to_do = Recipients
    /\ state \in {"DATA", "SEND_DATA", "EOM", "QUIT"} /\ ~ahead => rcpt = Recipients

\* The server takes the message whole, and not before it has read it; QUIT comes
\* after its answer.
TakenOK ==
    /\ taken \in {{}, Recipients} \/ ahead
    /\ taken # {} => state \in {"EOM", "QUIT", "ERROR"}
    /\ state = "QUIT" => taken # {} \/ ahead

\* There is a session as long as an attempt lasts; one that the client has
\* closed was cancelled, or had sent QUIT.
EndOK ==
    /\ outcome = "pending" <=> sess # "NONE"
    /\ outcome = "none" => state = "READY"
    /\ outcome = "sent" => taken = Recipients \/ ahead
    /\ ahead => outcome # "none"
    /\ sess = "DISCONNECTED" => cancelled \/ state = "QUIT"

\* HELO is only for accounts without TLS, and what may be used was offered.
SecureOK ==
    /\ state = "HELO" => ac_prefs.ssl_smtp = "NONE"
    /\ avail_auth_type \subseteq offered \/ ahead
    /\ ahead => tls_init_done
    /\ state = "STARTTLS" => ~tls_init_done
    /\ Protected

\* A typed password is refused at the end of an attempt, which forgets it.
RefusedOK ==
    refused /\ tmp_pass => error_val = "AUTHFAIL" /\ sess = "ERROR" /\ outcome = "pending"

Inv == WalkOK /\ TakenOK /\ EndOK /\ SecureOK /\ RefusedOK

-----------------------------------------------------------------------------
\* Type correctness.

\* The parts of TypeOK: settings and flags; where the session is; what is known
\* of authentication; the walk along the recipients.
FlagsOK ==
    /\ ac_prefs \in Accounts /\ tmp_pass \in BOOLEAN
    /\ watch \in BOOLEAN /\ tls_init_done \in BOOLEAN
    /\ cancelled \in BOOLEAN /\ ahead \in BOOLEAN /\ refused \in BOOLEAN

PhaseOK ==
    /\ sess \in {"NONE", "READY", "SEND", "RECV", "EOF", "ERROR", "TIMEOUT",
                 "DISCONNECTED"}
    /\ state \in States
    /\ error_val \in {"OK", "ERROR", "AUTHFAIL", "UNRECOVERABLE"}
    /\ outcome \in {"none", "pending", "sent", "failed"}

OfferOK ==
    /\ avail_auth_type \subseteq AuthTypes /\ offered \subseteq AuthTypes
    /\ auth_type \in (AuthTypes \ {"DIGEST_MD5"}) \cup {"ANY"}

NamedOK ==
    /\ to_do \subseteq Recipients /\ lines \in 0..MaxLines
    /\ rcpt \subseteq Recipients /\ asked \subseteq Recipients
    /\ taken \subseteq Recipients

LEMMA TypeParts == TypeOK <=> FlagsOK /\ PhaseOK /\ OfferOK /\ NamedOK
BY DEF TypeOK, FlagsOK, PhaseOK, OfferOK, NamedOK

LEMMA InitType == Init => TypeOK
<1> SUFFICES ASSUME Init PROVE TypeOK
  OBVIOUS
<1>1. FlagsOK
  BY DEF Init, FlagsOK
<1>2. PhaseOK
  BY DEF Init, PhaseOK, States
<1>3. OfferOK
  BY DEF Init, OfferOK
<1>4. NamedOK
  BY MaxLinesAssumption DEF Init, NamedOK
<1> QED
  BY <1>1, <1>2, <1>3, <1>4, TypeParts

\* The choice of a mechanism.
LEMMA AuthChoice ==
    ASSUME NEW avail, smtp_auth(avail)
    PROVE  \/ smtp_from
           \/ /\ auth_type' \in {"OAUTH2", "CRAM_MD5", "PLAIN", "LOGIN"}
              /\ auth_type' = ac_prefs.forced \/ auth_type' \in avail
              /\ \/ Send("AUTH") \/ Send("AUTH_PLAIN")
              /\ UNCHANGED <<to_do, rcpt, asked>>
<1>1. CASE smtp_from
  BY <1>1
<1>2. CASE ~smtp_from
  <2>1. PICK i \in DOMAIN AuthOrder :
           /\ Usable(AuthOrder[i], avail)
           /\ auth_type' = AuthOrder[i]
           /\ Send(IF AuthOrder[i] = "PLAIN" THEN "AUTH_PLAIN" ELSE "AUTH")
           /\ UNCHANGED <<to_do, rcpt, asked>>
    BY <1>2 DEF smtp_auth
  <2>2. AuthOrder[i] \in {"OAUTH2", "CRAM_MD5", "PLAIN", "LOGIN"}
    BY DEF AuthOrder
  <2>3. Send("AUTH") \/ Send("AUTH_PLAIN")
    BY <2>1
  <2> QED
    BY <2>1, <2>2, <2>3 DEF Usable
<1> QED
  BY <1>1, <1>2

\* EHLO is answered: what stays.
LEMMA EhloStill == EhloOk => Waiting("EHLO") /\ Aside /\ UNCHANGED tls_init_done
<1>1. EhloOk => Ok("EHLO") /\ UNCHANGED tls_init_done
  BY Zenon DEF EhloOk
<1> QED
  BY <1>1 DEF Ok, Answered, Aside

\* EHLO is answered: what comes next.
LEMMA EhloNext ==
    ASSUME EhloOk
    PROVE  \E types \in SUBSET AuthTypes :
              /\ Offer(types)
              /\ \/ NeedsTls /\ Send("STARTTLS") /\ UNCHANGED <<auth_type, to_do, rcpt, asked>>
                 \/ ~NeedsTls /\ smtp_from
                 \/ /\ ~NeedsTls
                    /\ auth_type' \in {"OAUTH2", "CRAM_MD5", "PLAIN", "LOGIN"}
                    /\ auth_type' = ac_prefs.forced \/ auth_type' \in avail_auth_type \cup types
                    /\ \/ Send("AUTH") \/ Send("AUTH_PLAIN")
                    /\ UNCHANGED <<to_do, rcpt, asked>>
<1>1. PICK types \in SUBSET AuthTypes :
         /\ Offer(types)
         /\ CASE NeedsTls ->
                   Send("STARTTLS") /\ UNCHANGED <<auth_type, to_do, rcpt, asked>>
              [] ~NeedsTls /\ ac_prefs.use_smtp_auth ->
                   smtp_auth(avail_auth_type \cup types)
              [] OTHER -> smtp_from
  BY DEF EhloOk
<1>2. CASE NeedsTls
  BY <1>1, <1>2
<1>3. CASE ~NeedsTls /\ ac_prefs.use_smtp_auth
  BY <1>1, <1>3, AuthChoice
<1>4. CASE ~NeedsTls /\ ~ac_prefs.use_smtp_auth
  BY <1>1, <1>4
<1> QED
  BY <1>2, <1>3, <1>4

\* The connection, and what ends it.
Outer == Start \/ Connect \/ Broken \/ Timeout \/ Cancel \/ Refused \/ Finish
\* The dialogue up to the message.
Dialogue ==
    Continued \/ Greeting \/ HeloOk \/ StarttlsOk \/ AuthStep \/ Authenticated
\* The message.
Mail == FromOk \/ RcptOk \/ DataOk \/ DataSent \/ ServerTakes \/ EomOk \/ QuitOk

LEMMA Steps == Next => Outer \/ Dialogue \/ EhloOk \/ Mail
BY DEF Next, Reply, Outer, Dialogue, Mail

LEMMA OuterType == TypeOK /\ Outer => TypeOK'
<1> SUFFICES ASSUME FlagsOK, PhaseOK, OfferOK, NamedOK, Outer PROVE TypeOK'
  BY TypeParts
<1> USE MaxLinesAssumption DEF Outer, Start, Connect, Broken, Timeout, Cancel,
                               Refused, Finish, Aside, Still, auth, server
<1>1. FlagsOK'
  BY DEF FlagsOK
<1>2. PhaseOK'
  BY DEF PhaseOK, States, AuthStates, MailStates
<1>3. OfferOK'
  BY DEF OfferOK, AuthTypes
<1>4. NamedOK'
  BY DEF NamedOK
<1> QED
  BY <1>1, <1>2, <1>3, <1>4 DEF TypeOK, FlagsOK, PhaseOK, OfferOK, NamedOK

LEMMA DialogueType == TypeOK /\ Dialogue => TypeOK'
<1> SUFFICES ASSUME FlagsOK, PhaseOK, OfferOK, NamedOK, Dialogue PROVE TypeOK'
  BY TypeParts
<1> USE MaxLinesAssumption DEF Dialogue, Continued, Greeting, HeloOk, StarttlsOk,
                               TlsStarted, AuthStep, Authenticated, Ok, Answered,
                               Waiting, Aside, Still, Send, smtp_from, smtp_ehlo,
                               Offer, auth
<1>1. FlagsOK'
  BY DEF FlagsOK
<1>2. PhaseOK'
  BY DEF PhaseOK, States, AuthStates, MailStates
<1>3. OfferOK'
  BY DEF OfferOK, AuthTypes
<1>4. NamedOK'
  BY DEF NamedOK
<1> QED
  BY <1>1, <1>2, <1>3, <1>4 DEF TypeOK, FlagsOK, PhaseOK, OfferOK, NamedOK

LEMMA MailType == TypeOK /\ Mail => TypeOK'
<1> SUFFICES ASSUME FlagsOK, PhaseOK, OfferOK, NamedOK, Mail PROVE TypeOK'
  BY TypeParts
<1> USE MaxLinesAssumption DEF Mail, FromOk, RcptOk, DataOk, DataSent, ServerTakes,
                               EomOk, QuitOk, Ok, Answered, Waiting, Aside, Still,
                               Send, smtp_rcpt, auth, server
<1>1. FlagsOK'
  BY DEF FlagsOK
<1>2. PhaseOK'
  BY DEF PhaseOK, States, AuthStates, MailStates
<1>3. OfferOK'
  BY DEF OfferOK, AuthTypes
<1>4. NamedOK'
  BY DEF NamedOK
<1> QED
  BY <1>1, <1>2, <1>3, <1>4 DEF TypeOK, FlagsOK, PhaseOK, OfferOK, NamedOK

LEMMA EhloType == TypeOK /\ EhloOk => TypeOK'
<1> SUFFICES ASSUME FlagsOK, PhaseOK, OfferOK, NamedOK, EhloOk PROVE TypeOK'
  BY TypeParts
<1>1. Ok("EHLO") /\ UNCHANGED tls_init_done
  BY DEF EhloOk
<1> USE <1>1, EhloNext, MaxLinesAssumption
    DEF Offer, Ok, Answered, Waiting, Aside, Still, Send, smtp_from
<1>2. FlagsOK'
  BY DEF FlagsOK
<1>3. PhaseOK'
  BY DEF PhaseOK, States, AuthStates, MailStates
<1>4. OfferOK'
  BY DEF OfferOK, AuthTypes
<1>5. UNCHANGED <<to_do, rcpt, asked>>
  OBVIOUS
<1>6. NamedOK'
  BY <1>5 DEF NamedOK
<1> QED
  BY <1>2, <1>3, <1>4, <1>6 DEF TypeOK, FlagsOK, PhaseOK, OfferOK, NamedOK

LEMMA TypeStep == TypeOK /\ [Next]_vars => TypeOK'
<1> SUFFICES ASSUME TypeOK, [Next]_vars PROVE TypeOK'
  OBVIOUS
<1>1. CASE Next
  BY <1>1, Steps, OuterType, DialogueType, EhloType, MailType
<1>2. CASE UNCHANGED vars
  BY <1>2 DEF vars, auth, server, TypeOK
<1> QED
  BY <1>1, <1>2

\* Every variable keeps its type.
THEOREM TypeCorrect == Spec => []TypeOK
BY InitType, TypeStep, PTL DEF Spec

-----------------------------------------------------------------------------
\* The invariant.

LEMMA InitInv == Init => Inv
<1> SUFFICES ASSUME Init PROVE Inv
  OBVIOUS
<1>1. WalkOK /\ TakenOK /\ EndOK
  BY DEF Init, WalkOK, TakenOK, EndOK
<1>2. SecureOK /\ RefusedOK
  BY DEF Init, SecureOK, RefusedOK, Protected, TlsFirst, AuthOffered, AuthStates, MailStates
<1> QED
  BY <1>1, <1>2 DEF Inv

\* The walk along the recipients.
LEMMA WalkStep == TypeOK /\ Inv /\ Next => WalkOK'
<1> SUFFICES ASSUME NamedOK, WalkOK, Next PROVE WalkOK'
  BY TypeParts DEF Inv
<1> USE DEF WalkOK, Opening, AuthStates, auth, server
<1>1. CASE Outer
  BY <1>1 DEF Outer, Start, Connect, Broken, Timeout, Cancel, Refused, Finish, Aside, Still
<1>2. CASE Dialogue
  BY <1>2 DEF Dialogue, Continued, Greeting, HeloOk, StarttlsOk, TlsStarted,
              AuthStep, Authenticated, Ok, Answered, Waiting, Aside, Still, Send,
              smtp_from, smtp_ehlo
<1>3. CASE EhloOk
  <2>1. Waiting("EHLO") /\ Aside
    BY <1>3, EhloStill
  <2> QED
    BY <1>3, <2>1, EhloNext DEF Waiting, Aside, Still, Send, smtp_from
<1>4. CASE Mail
  <2>1. CASE FromOk
    BY <2>1 DEF FromOk, Ok, Answered, Waiting, Still, Send, smtp_rcpt
  <2>2. CASE RcptOk
    BY <2>2 DEF RcptOk, Ok, Answered, Waiting, Still, Send, smtp_rcpt
  <2>3. CASE DataOk \/ DataSent \/ ServerTakes \/ EomOk \/ QuitOk
    BY <2>3
       DEF DataOk, DataSent, ServerTakes, EomOk, QuitOk, Ok, Answered, Waiting, Aside,
           Still, Send
  <2> QED
    BY <1>4, <2>1, <2>2, <2>3 DEF Mail
<1> QED
  BY <1>1, <1>2, <1>3, <1>4, Steps

\* Only ServerTakes changes what the server has taken, and only Start forgets it.
LEMMA TakenStep == TypeOK /\ Inv /\ Next => TakenOK'
<1> SUFFICES ASSUME WalkOK, TakenOK, Next PROVE TakenOK'
  BY DEF Inv
<1> USE DEF TakenOK, AuthStates, auth, server
<1>1. CASE Outer
  BY <1>1 DEF Outer, Start, Connect, Broken, Timeout, Cancel, Refused, Finish, Aside, Still
<1>2. CASE Dialogue
  BY <1>2 DEF Dialogue, Continued, Greeting, HeloOk, StarttlsOk, TlsStarted,
              AuthStep, Authenticated, Ok, Answered, Waiting, Aside, Still, Send,
              smtp_from, smtp_ehlo
<1>3. CASE EhloOk
  <2>1. Waiting("EHLO") /\ Aside
    BY <1>3, EhloStill
  <2> QED
    BY <1>3, <2>1, EhloNext DEF Waiting, Aside, Still, Send, smtp_from
<1>4. CASE Mail
  BY <1>4, RecipientsAssumption
     DEF Mail, FromOk, RcptOk, DataOk, DataSent, ServerTakes, EomOk, QuitOk,
         Ok, Answered, Waiting, Aside, Still, Send, smtp_rcpt, WalkOK
<1> QED
  BY <1>1, <1>2, <1>3, <1>4, Steps

\* What counts as sent was taken.
LEMMA SentWasTaken ==
    ASSUME TypeOK, Inv, outcome = "pending", ~Connected, Sent
    PROVE  taken = Recipients \/ ahead
<1>1. state = "QUIT"
  BY DEF Inv, EndOK, Sent, Connected, TypeOK
<1> QED
  BY <1>1 DEF Inv, TakenOK

LEMMA EndStep == TypeOK /\ Inv /\ Next => EndOK'
<1> SUFFICES ASSUME TypeOK, Inv, Next PROVE EndOK'
  OBVIOUS
<1>0. EndOK /\ TakenOK /\ PhaseOK
  BY TypeParts DEF Inv
<1> USE <1>0 DEF EndOK, auth, server
<1>1. CASE Outer
  <2>1. CASE Finish
    BY <2>1, SentWasTaken DEF Finish
  <2>2. CASE Start \/ Connect \/ Broken \/ Timeout \/ Cancel \/ Refused
    BY <2>2 DEF Start, Connect, Broken, Timeout, Cancel, Refused, Aside, Still, Connected
  <2> QED
    BY <1>1, <2>1, <2>2 DEF Outer
<1>2. CASE Dialogue
  BY <1>2 DEF Dialogue, Continued, Greeting, HeloOk, StarttlsOk, TlsStarted,
              AuthStep, Authenticated, Ok, Answered, Waiting, Aside, Still, Send,
              smtp_from, smtp_ehlo
<1>3. CASE EhloOk
  <2>1. Waiting("EHLO") /\ Aside
    BY <1>3, EhloStill
  <2> QED
    BY <1>3, <2>1, EhloNext DEF Waiting, Aside, Still, Send, smtp_from
<1>4. CASE Mail
  BY <1>4, RecipientsAssumption
     DEF Mail, FromOk, RcptOk, DataOk, DataSent, ServerTakes, EomOk, QuitOk,
         Ok, Answered, Waiting, Aside, Still, Send, smtp_rcpt, TakenOK
<1> QED
  BY <1>1, <1>2, <1>3, <1>4, Steps

LEMMA SecureStep == TypeOK /\ Inv /\ Next => SecureOK'
<1> SUFFICES ASSUME SecureOK, Next PROVE SecureOK'
  BY DEF Inv
<1> USE DEF SecureOK, Protected, TlsFirst, AuthOffered, AuthStates, MailStates, auth, server
<1>1. CASE Outer
  BY <1>1 DEF Outer, Start, Connect, Broken, Timeout, Cancel, Refused, Finish, Aside, Still
<1>2. CASE Dialogue
  BY <1>2 DEF Dialogue, Continued, Greeting, HeloOk, StarttlsOk, TlsStarted,
              AuthStep, Authenticated, Ok, Answered, Waiting, Aside, Still, Send,
              smtp_from, smtp_ehlo, Offer
<1>3. CASE EhloOk
  <2>1. Waiting("EHLO") /\ Aside /\ UNCHANGED tls_init_done
    BY <1>3, EhloStill
  <2> QED
    BY <1>3, <2>1, EhloNext DEF Waiting, Aside, Still, Send, smtp_from, Offer, NeedsTls
<1>4. CASE Mail
  BY <1>4 DEF Mail, FromOk, RcptOk, DataOk, DataSent, ServerTakes, EomOk, QuitOk,
              Ok, Answered, Waiting, Aside, Still, Send, smtp_rcpt
<1> QED
  BY <1>1, <1>2, <1>3, <1>4, Steps

\* After a refusal the session is over, and nothing but Finish is left.
LEMMA RefusedStep == TypeOK /\ Inv /\ Next => RefusedOK'
<1> SUFFICES ASSUME FlagsOK, EndOK, RefusedOK, Next PROVE RefusedOK'
  BY TypeParts DEF Inv
<1> USE DEF RefusedOK, auth, server, Aside, Still
<1>1. CASE Outer
  <2>1. CASE Refused
    BY <2>1 DEF Refused, EndOK
  <2>2. CASE Finish
    BY <2>2 DEF Finish, Forgotten
  <2>3. CASE Start
    BY <2>3 DEF Start
  <2>4. CASE Connect \/ Broken \/ Timeout \/ Cancel
    BY <2>4 DEF Connect, Broken, Timeout, Cancel, Connected
  <2> QED
    BY <1>1, <2>1, <2>2, <2>3, <2>4 DEF Outer
<1>2. CASE Dialogue \/ EhloOk
  <2>1. sess = "RECV" /\ Still
    BY <1>2, EhloStill DEF Dialogue, Continued, Greeting, HeloOk, StarttlsOk,
                           TlsStarted, AuthStep, Authenticated, Ok, Answered, Waiting
  <2> QED
    BY <2>1
<1>3. CASE Mail
  BY <1>3
     DEF Mail, FromOk, RcptOk, DataOk, DataSent, ServerTakes, EomOk, QuitOk, Ok,
         Answered, Waiting
<1> QED
  BY <1>1, <1>2, <1>3, Steps

LEMMA Invariance == Spec => [](TypeOK /\ Inv)
<1>1. TypeOK /\ Inv /\ [Next]_vars => TypeOK' /\ Inv'
  <2> SUFFICES ASSUME TypeOK, Inv, [Next]_vars PROVE TypeOK' /\ Inv'
    OBVIOUS
  <2>1. CASE Next
    BY <2>1, TypeStep, WalkStep, TakenStep, EndStep, SecureStep, RefusedStep DEF Inv
  <2>2. CASE UNCHANGED vars
    BY <2>2, TypeStep
       DEF vars, auth, server, Inv, WalkOK, TakenOK, EndOK, SecureOK, RefusedOK,
           Protected, TlsFirst, AuthOffered
  <2> QED
    BY <2>1, <2>2
<1> QED
  BY <1>1, InitType, InitInv, PTL DEF Spec

\* With STARTTLS asked for neither a password nor the sender is named before TLS
\* has been started, and only mechanisms that were offered are used.
THEOREM AttemptIsProtected == Spec => []Protected
<1>1. Inv => Protected
  BY DEF Inv, SecureOK
<1> QED
  BY <1>1, Invariance, PTL

\* A typed password that was refused is not used again.
THEOREM RefusedPasswordIsForgotten == Spec => []RefusedIsForgotten
<1>1. Inv => RefusedIsForgotten
  BY DEF Inv, RefusedOK, RefusedIsForgotten
<1> QED
  BY <1>1, Invariance, PTL

-----------------------------------------------------------------------------
\* Each step is one of Delivery, or leaves its variables alone.

LEMMA OtherStep ==
    ASSUME \/ Continued \/ Greeting \/ HeloOk \/ AuthStep \/ Authenticated \/ EhloOk
           \/ FromOk \/ RcptOk \/ DataOk \/ DataSent \/ EomOk \/ QuitOk
    PROVE  UNCHANGED <<outcome, taken, ahead>>
BY DEF Continued, Greeting, HeloOk, AuthStep, Authenticated, EhloOk,
       FromOk, RcptOk, DataOk, DataSent, EomOk, QuitOk, Ok, Answered, Aside, Still, server

LEMMA DeliveryStep ==
    TypeOK /\ Inv /\ [Next]_vars => [Deliveries!Next]_<<outcome, taken, ahead>>
<1> SUFFICES ASSUME TypeOK, Inv, Next PROVE [Deliveries!Next]_<<outcome, taken, ahead>>
  BY DEF vars, server
<1>1. CASE Start
  BY <1>1 DEF Start, Deliveries!Next, Deliveries!Attempt
<1>2. CASE Connect \/ Broken \/ Timeout \/ Cancel \/ Refused
  BY <1>2 DEF Connect, Broken, Timeout, Cancel, Refused, Aside, Still, server
<1>3. CASE Finish
  <2>1. outcome = "pending" /\ ~Connected /\ taken' = taken
    BY <1>3 DEF Finish, server
  <2>2. CASE Sent
    <3>1. taken = Recipients \/ ahead
      BY <2>1, <2>2, SentWasTaken
    <3> QED
      BY <1>3, <2>1, <2>2, <3>1 DEF Finish, Deliveries!Next, Deliveries!Succeed
  <2>3. CASE ~Sent
    BY <1>3, <2>1, <2>3 DEF Finish, Deliveries!Next, Deliveries!Fail
  <2> QED
    BY <2>2, <2>3
<1>4. CASE ServerTakes
  <2>1. /\ taken = {} /\ taken' = rcpt /\ UNCHANGED <<outcome, ahead>>
        /\ state \in {"EOM", "QUIT"}
    BY <1>4 DEF ServerTakes
  <2>2. CASE ahead
    <3>1. outcome # "none" /\ taken' \subseteq Recipients
      BY <2>1, <2>2 DEF TypeOK, Inv, EndOK
    <3> QED
      BY <2>1, <2>2, <3>1 DEF Deliveries!Next, Deliveries!Take
  <2>3. CASE ~ahead
    <3>1. taken' = Recipients
      BY <2>1, <2>3 DEF Inv, WalkOK
    <3>2. outcome \in {"pending", "failed"}
      BY <2>1, <2>3, RecipientsAssumption DEF TypeOK, Inv, EndOK
    <3> QED
      BY <2>1, <3>1, <3>2 DEF Deliveries!Next, Deliveries!Take
  <2> QED
    BY <2>2, <2>3
<1>5. CASE StarttlsOk
  <2>1. /\ state = "STARTTLS" /\ sess = "RECV" /\ UNCHANGED <<outcome, taken>>
        /\ ahead' \in BOOLEAN \/ ahead' = ahead
    BY <1>5 DEF StarttlsOk, TlsStarted, Answered, Waiting, Still
  <2>2. outcome = "pending" /\ taken = {} /\ ~ahead
    BY <2>1 DEF Inv, EndOK, TakenOK, SecureOK
  <2> QED
    BY <2>1, <2>2 DEF Deliveries!Next, Deliveries!Hurry, TypeOK
<1>6. CASE Continued \/ Greeting \/ HeloOk \/ AuthStep \/ Authenticated \/ EhloOk
           \/ FromOk \/ RcptOk \/ DataOk \/ DataSent \/ EomOk \/ QuitOk
  BY <1>6, OtherStep
<1> QED
  BY <1>1, <1>2, <1>3, <1>4, <1>5, <1>6, Steps DEF Outer, Dialogue, Mail

\* A message that is reported as sent was taken by the server, for every
\* recipient; and the server takes it once in an attempt at most.
THEOREM MessageIsDelivered == Spec => Delivers
<1>1. Init => Deliveries!Init
  BY DEF Init, Deliveries!Init
<1> QED
  BY <1>1, DeliveryStep, Invariance, PTL DEF Spec, Delivers, Deliveries!Spec
=============================================================================
