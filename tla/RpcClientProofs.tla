-------------------------- MODULE RpcClientProofs --------------------------
(***************************************************************************)
(* Proofs about RpcClient, for every set of configurations and any number  *)
(* of restarts of the node.                                                *)
(***************************************************************************)
EXTENDS RpcClient, TLAPS

\* TypeOK leaves out what a header can hold at a given place.
HeaderInv ==
    /\ cookieFile \in {NoCookie, epoch}
    /\ pc \in {"connect", "await", "handle"} =>
        IF conf.cookie THEN shown.pass = "none" /\ shown.cookie \in 1..epoch
                       ELSE shown = [pass |-> conf.pass, cookie |-> NoCookie]

\* A running process works with what build makes of its settings.
ConfInv ==
    /\ pc # "down" => /\ gave = "none"
                      /\ HasAuth(conf)
                      /\ \E found \in BOOLEAN : conf = Build(settings, found)
    /\ HasAuth(conf) => \E found \in BOOLEAN : conf = Build(settings, found)

\* A cookie that is out of date was read before a restart that the call has
\* counted, and each attempt needs one of its own.
AttemptInv ==
    /\ pc \in {"down", "backoff", "ok"} => attempt = 0
    /\ conf.cookie =>
        /\ pc = "auth" => attempt <= restarts
        /\ pc \in {"connect", "await", "handle"} =>
            (epoch - shown.cookie) + attempt <= restarts
        /\ pc = "handle" /\ reply.kind = "401" => shown.cookie < epoch

\* A network that is cut off and a node that fails have been noted.
TroubleInv ==
    /\ ~net => "net" \in trouble
    /\ state = "failing" => "failing" \in trouble
    /\ pc = "handle" /\ reply.kind \in {"error", "errorbody"} => "failing" \in trouble

\* A password the node knows is not refused.
ReplyInv ==
    /\ pc = "handle" /\ reply.kind = "401" /\ ~conf.cookie => conf.pass # "node"
    /\ pc = "handle" /\ reply.kind = "ok" => reply.height \in from..height

IInv ==
    /\ TypeOK /\ HeaderInv /\ ConfInv /\ AttemptInv /\ TroubleInv /\ ReplyInv
    /\ AnswerIsCurrent /\ RefusedOnlyByTwoRestarts /\ PasswordSurvivesRestarts

-----------------------------------------------------------------------------
\* The outcome of build is a configuration, whether a cookie file was found
\* or not (build of config.go).
LEMMA BuildType ==
    ASSUME NEW s \in Settings, NEW found \in BOOLEAN
    PROVE  Build(s, found) \in [pass : {"none", "node", "old"}, cookie : BOOLEAN]
  BY RpcClientAssumption DEF SettingsType, Build, Lookup, Key

\* A right configuration that leads to no cookie file has the node's password.
LEMMA RightfulPassword ==
    ASSUME NEW s \in Settings, NEW found \in BOOLEAN,
           Rightful(s), HasAuth(Build(s, found)), ~Build(s, found).cookie
    PROVE  Build(s, found).pass = "node"
  <1>1. /\ s.env \in [Key -> {"none", "node", "old"}] /\ s.file \in [Key -> {"none", "node", "old"}]
        /\ "old" \notin {s.env["RPC_COOKIE_FILE"], s.file["RPC_COOKIE_FILE"]}
    BY RpcClientAssumption DEF SettingsType
  <1>2. Lookup(s, "RPC_COOKIE_FILE") = "none"
    BY DEF Build
  <1>3. "node" \notin {s.env["RPC_COOKIE_FILE"], s.file["RPC_COOKIE_FILE"]}
    BY <1>1, <1>2 DEF Lookup, Key
  <1>4. Lookup(s, "RPC_PASS") # "none"
    BY DEF Build, HasAuth
  <1>5. Lookup(s, "RPC_PASS") = "node" /\ Lookup(s, "RPC_USER") # "none"
    BY <1>1, <1>3, <1>4 DEF Rightful, Lookup, Key
  <1> QED BY <1>5 DEF Build

\* If a password was chosen once, no later start fails for lack of one.
LEMMA PasswordStays ==
    ASSUME NEW s \in Settings, NEW f \in BOOLEAN, NEW g \in BOOLEAN,
           Build(s, f).pass = "node"
    PROVE  HasAuth(Build(s, g))
  BY DEF Build, HasAuth

\* An indexer that has not begun its first call satisfies the invariant.
LEMMA InitInv == Init => IInv
  <1> SUFFICES ASSUME Init PROVE IInv
    OBVIOUS
  <1>1. TypeOK
    <2>1. /\ shown \in [pass : {"none", "node", "old"}, cookie : 0..epoch]
          /\ conf \in [pass : {"none", "node", "old"}, cookie : BOOLEAN]
          /\ reply \in [kind : Replies, height : 0..height]
      BY DEF Init, NoReply, NoCreds, NoCookie, Replies
    <2>2. epoch \in 1..MaxEpoch /\ height \in 1..MaxHeight
      BY RpcClientAssumption DEF Init
    <2> QED BY <2>1, <2>2 DEF Init, TypeOK, Running, Troubles
  <1>2. HeaderInv /\ ConfInv /\ AttemptInv /\ TroubleInv /\ ReplyInv
    BY DEF Init, HeaderInv, ConfInv, AttemptInv, TroubleInv, ReplyInv, HasAuth
  <1>3. AnswerIsCurrent /\ RefusedOnlyByTwoRestarts /\ PasswordSurvivesRestarts
    BY DEF Init, AnswerIsCurrent, RefusedOnlyByTwoRestarts, PasswordSurvivesRestarts
  <1> QED BY <1>1, <1>2, <1>3 DEF IInv
\* Every step keeps the types.
LEMMA TypeNext == IInv /\ [Next]_vars => TypeOK'
  <1> SUFFICES ASSUME IInv, [Next]_vars PROVE TypeOK'
    OBVIOUS
  <1> USE RpcClientAssumption DEF IInv, TypeOK, Running, Replies, Troubles, node, client, history, NoReply, NoCreds, NoCookie
  <1>1. CASE Start
    <2> DEFINE built == Build(settings, cookieFile # 0)
    <2>1. built \in [pass : {"none", "node", "old"}, cookie : BOOLEAN]
      BY BuildType
    <2> HIDE DEF built
    <2>2. CASE /\ HasAuth(built)
               /\ conf' = built
               /\ CallBegins
      BY <1>1, <2>1, <2>2 DEF Start, CallBegins
    <2>3. CASE ~HasAuth(built) /\ gave' = "config" /\ UNCHANGED <<conf, pc, history>>
      BY <1>1, <2>3 DEF Start
    <2> QED BY <1>1, <2>2, <2>3 DEF Start, built
  <1>2. CASE NextCall
    BY <1>2 DEF NextCall, CallBegins
  <1>3. CASE AuthHeader
    BY <1>3 DEF AuthHeader, Permanent, Forget
  <1>4. CASE Dial
    BY <1>4 DEF Dial, Permanent, Transient, Forget
  <1>5. CASE TimesOut
    BY <1>5 DEF TimesOut, Transient, Forget
  <1>6. CASE ConnectionLost
    BY <1>6 DEF ConnectionLost, Transient, Forget
  <1>7. CASE KeepAliveFails
    BY <1>7 DEF KeepAliveFails, Permanent, Forget
  <1>8. CASE Answered
    BY <1>8 DEF Answered, Forget
  <1>9. CASE AnswerCut
    BY <1>9 DEF AnswerCut, Permanent, Forget
  <1>10. CASE Unauthorized
    BY <1>10 DEF Unauthorized, Permanent, Forget
  <1>11. CASE Overloaded
    BY <1>11 DEF Overloaded, Transient, Forget
  <1>12. CASE RpcError
    BY <1>12 DEF RpcError, Permanent, Forget
  <1>13. CASE Serve
    BY <1>13 DEF Serve
  <1>14. CASE NodeStop
    BY <1>14 DEF NodeStop
  <1>15. CASE NodeStart
    BY <1>15 DEF NodeStart
  <1>16. CASE NodeHealth
    BY <1>16 DEF NodeHealth
  <1>17. CASE NodeExtend
    BY <1>17 DEF NodeExtend
  <1>18. CASE Network
    BY <1>18 DEF Network
  <1>19. CASE UNCHANGED vars
    BY <1>19 DEF vars
  <1> QED BY <1>1, <1>2, <1>3, <1>4, <1>5, <1>6, <1>7, <1>8, <1>9, <1>10, <1>11, <1>12, <1>13, <1>14, <1>15, <1>16, <1>17, <1>18, <1>19 DEF Next, Call, Environment

\* The header of a request is always one that authHeader built.
LEMMA HeaderNext == IInv /\ [Next]_vars => HeaderInv'
  <1> SUFFICES ASSUME IInv, [Next]_vars PROVE HeaderInv'
    OBVIOUS
  <1> USE DEF IInv, TypeOK, HeaderInv, node, client, history, NoReply, NoCreds, NoCookie
  <1>1. CASE Start
    BY <1>1 DEF Start, CallBegins
  <1>2. CASE NextCall
    BY <1>2 DEF NextCall, CallBegins
  <1>3. CASE AuthHeader
    BY <1>3 DEF AuthHeader, Permanent, Forget
  <1>4. CASE Dial
    BY <1>4 DEF Dial, Permanent, Transient, Forget
  <1>5. CASE TimesOut
    BY <1>5 DEF TimesOut, Transient, Forget
  <1>6. CASE ConnectionLost
    BY <1>6 DEF ConnectionLost, Transient, Forget
  <1>7. CASE KeepAliveFails
    BY <1>7 DEF KeepAliveFails, Permanent, Forget
  <1>8. CASE Answered
    BY <1>8 DEF Answered, Forget
  <1>9. CASE AnswerCut
    BY <1>9 DEF AnswerCut, Permanent, Forget
  <1>10. CASE Unauthorized
    BY <1>10 DEF Unauthorized, Permanent, Forget
  <1>11. CASE Overloaded
    BY <1>11 DEF Overloaded, Transient, Forget
  <1>12. CASE RpcError
    BY <1>12 DEF RpcError, Permanent, Forget
  <1>13. CASE Serve
    BY <1>13 DEF Serve
  <1>14. CASE NodeStop
    BY <1>14 DEF NodeStop
  <1>15. CASE NodeStart
    BY <1>15 DEF NodeStart
  <1>16. CASE NodeHealth
    BY <1>16 DEF NodeHealth
  <1>17. CASE NodeExtend
    BY <1>17 DEF NodeExtend
  <1>18. CASE Network
    BY <1>18 DEF Network
  <1>19. CASE UNCHANGED vars
    BY <1>19 DEF vars
  <1> QED BY <1>1, <1>2, <1>3, <1>4, <1>5, <1>6, <1>7, <1>8, <1>9, <1>10, <1>11, <1>12, <1>13, <1>14, <1>15, <1>16, <1>17, <1>18, <1>19 DEF Next, Call, Environment

\* The configuration in use stays one that build chose.
LEMMA ConfNext == IInv /\ [Next]_vars => ConfInv'
  <1> SUFFICES ASSUME IInv, [Next]_vars PROVE ConfInv'
    OBVIOUS
  <1> USE DEF IInv, TypeOK, ConfInv, node, client, history, NoReply, NoCreds, NoCookie
  <1>1. CASE Start
    BY <1>1 DEF Start, CallBegins
  <1>2. CASE NextCall
    BY <1>2 DEF NextCall, CallBegins
  <1>3. CASE AuthHeader
    BY <1>3 DEF AuthHeader, Permanent, Forget
  <1>4. CASE Dial
    BY <1>4 DEF Dial, Permanent, Transient, Forget
  <1>5. CASE TimesOut
    BY <1>5 DEF TimesOut, Transient, Forget
  <1>6. CASE ConnectionLost
    BY <1>6 DEF ConnectionLost, Transient, Forget
  <1>7. CASE KeepAliveFails
    BY <1>7 DEF KeepAliveFails, Permanent, Forget
  <1>8. CASE Answered
    BY <1>8 DEF Answered, Forget
  <1>9. CASE AnswerCut
    BY <1>9 DEF AnswerCut, Permanent, Forget
  <1>10. CASE Unauthorized
    BY <1>10 DEF Unauthorized, Permanent, Forget
  <1>11. CASE Overloaded
    BY <1>11 DEF Overloaded, Transient, Forget
  <1>12. CASE RpcError
    BY <1>12 DEF RpcError, Permanent, Forget
  <1>13. CASE Serve
    BY <1>13 DEF Serve
  <1>14. CASE NodeStop
    BY <1>14 DEF NodeStop
  <1>15. CASE NodeStart
    BY <1>15 DEF NodeStart
  <1>16. CASE NodeHealth
    BY <1>16 DEF NodeHealth
  <1>17. CASE NodeExtend
    BY <1>17 DEF NodeExtend
  <1>18. CASE Network
    BY <1>18 DEF Network
  <1>19. CASE UNCHANGED vars
    BY <1>19 DEF vars
  <1> QED BY <1>1, <1>2, <1>3, <1>4, <1>5, <1>6, <1>7, <1>8, <1>9, <1>10, <1>11, <1>12, <1>13, <1>14, <1>15, <1>16, <1>17, <1>18, <1>19 DEF Next, Call, Environment

\* Each refusal is paid for by a restart.
LEMMA AttemptNext == IInv /\ [Next]_vars => AttemptInv'
  <1> SUFFICES ASSUME IInv, [Next]_vars PROVE AttemptInv'
    OBVIOUS
  <1> USE DEF IInv, TypeOK, HeaderInv, AttemptInv, Running, Accepts, node, client, history, NoReply, NoCreds, NoCookie
  <1>1. CASE Start
    BY <1>1 DEF Start, CallBegins
  <1>2. CASE NextCall
    BY <1>2 DEF NextCall, CallBegins
  <1>3. CASE AuthHeader
    BY <1>3 DEF AuthHeader, Permanent, Forget
  <1>4. CASE Dial
    BY <1>4 DEF Dial, Permanent, Transient, Forget
  <1>5. CASE TimesOut
    BY <1>5 DEF TimesOut, Transient, Forget
  <1>6. CASE ConnectionLost
    BY <1>6 DEF ConnectionLost, Transient, Forget
  <1>7. CASE KeepAliveFails
    BY <1>7 DEF KeepAliveFails, Permanent, Forget
  <1>8. CASE Answered
    BY <1>8 DEF Answered, Forget
  <1>9. CASE AnswerCut
    BY <1>9 DEF AnswerCut, Permanent, Forget
  <1>10. CASE Unauthorized
    BY <1>10 DEF Unauthorized, Permanent, Forget
  <1>11. CASE Overloaded
    BY <1>11 DEF Overloaded, Transient, Forget
  <1>12. CASE RpcError
    BY <1>12 DEF RpcError, Permanent, Forget
  <1>13. CASE Serve
    BY <1>13 DEF Serve
  <1>14. CASE NodeStop
    BY <1>14 DEF NodeStop
  <1>15. CASE NodeStart
    BY <1>15 DEF NodeStart
  <1>16. CASE NodeHealth
    BY <1>16 DEF NodeHealth
  <1>17. CASE NodeExtend
    BY <1>17 DEF NodeExtend
  <1>18. CASE Network
    BY <1>18 DEF Network
  <1>19. CASE UNCHANGED vars
    BY <1>19 DEF vars
  <1> QED BY <1>1, <1>2, <1>3, <1>4, <1>5, <1>6, <1>7, <1>8, <1>9, <1>10, <1>11, <1>12, <1>13, <1>14, <1>15, <1>16, <1>17, <1>18, <1>19 DEF Next, Call, Environment

\* Nothing but node and network make trouble, and it is noted.
LEMMA TroubleNext == IInv /\ [Next]_vars => TroubleInv'
  <1> SUFFICES ASSUME IInv, [Next]_vars PROVE TroubleInv'
    OBVIOUS
  <1> USE DEF IInv, TypeOK, TroubleInv, Running, Troubles, node, client, history, NoReply, NoCreds, NoCookie
  <1>1. CASE Start
    BY <1>1 DEF Start, CallBegins
  <1>2. CASE NextCall
    BY <1>2 DEF NextCall, CallBegins
  <1>3. CASE AuthHeader
    BY <1>3 DEF AuthHeader, Permanent, Forget
  <1>4. CASE Dial
    BY <1>4 DEF Dial, Permanent, Transient, Forget
  <1>5. CASE TimesOut
    BY <1>5 DEF TimesOut, Transient, Forget
  <1>6. CASE ConnectionLost
    BY <1>6 DEF ConnectionLost, Transient, Forget
  <1>7. CASE KeepAliveFails
    BY <1>7 DEF KeepAliveFails, Permanent, Forget
  <1>8. CASE Answered
    BY <1>8 DEF Answered, Forget
  <1>9. CASE AnswerCut
    BY <1>9 DEF AnswerCut, Permanent, Forget
  <1>10. CASE Unauthorized
    BY <1>10 DEF Unauthorized, Permanent, Forget
  <1>11. CASE Overloaded
    BY <1>11 DEF Overloaded, Transient, Forget
  <1>12. CASE RpcError
    BY <1>12 DEF RpcError, Permanent, Forget
  <1>13. CASE Serve
    BY <1>13 DEF Serve
  <1>14. CASE NodeStop
    BY <1>14 DEF NodeStop
  <1>15. CASE NodeStart
    BY <1>15 DEF NodeStart
  <1>16. CASE NodeHealth
    BY <1>16 DEF NodeHealth
  <1>17. CASE NodeExtend
    BY <1>17 DEF NodeExtend
  <1>18. CASE Network
    BY <1>18 DEF Network
  <1>19. CASE UNCHANGED vars
    BY <1>19 DEF vars
  <1> QED BY <1>1, <1>2, <1>3, <1>4, <1>5, <1>6, <1>7, <1>8, <1>9, <1>10, <1>11, <1>12, <1>13, <1>14, <1>15, <1>16, <1>17, <1>18, <1>19 DEF Next, Call, Environment

\* Replies tell the height of the moment, and refuse no good password.
LEMMA ReplyNext == IInv /\ [Next]_vars => ReplyInv'
  <1> SUFFICES ASSUME IInv, [Next]_vars PROVE ReplyInv'
    OBVIOUS
  <1> USE DEF IInv, TypeOK, HeaderInv, ReplyInv, Running, Accepts, node, client, history, NoReply, NoCreds, NoCookie
  <1>1. CASE Start
    BY <1>1 DEF Start, CallBegins
  <1>2. CASE NextCall
    BY <1>2 DEF NextCall, CallBegins
  <1>3. CASE AuthHeader
    BY <1>3 DEF AuthHeader, Permanent, Forget
  <1>4. CASE Dial
    BY <1>4 DEF Dial, Permanent, Transient, Forget
  <1>5. CASE TimesOut
    BY <1>5 DEF TimesOut, Transient, Forget
  <1>6. CASE ConnectionLost
    BY <1>6 DEF ConnectionLost, Transient, Forget
  <1>7. CASE KeepAliveFails
    BY <1>7 DEF KeepAliveFails, Permanent, Forget
  <1>8. CASE Answered
    BY <1>8 DEF Answered, Forget
  <1>9. CASE AnswerCut
    BY <1>9 DEF AnswerCut, Permanent, Forget
  <1>10. CASE Unauthorized
    BY <1>10 DEF Unauthorized, Permanent, Forget
  <1>11. CASE Overloaded
    BY <1>11 DEF Overloaded, Transient, Forget
  <1>12. CASE RpcError
    BY <1>12 DEF RpcError, Permanent, Forget
  <1>13. CASE Serve
    BY <1>13 DEF Serve
  <1>14. CASE NodeStop
    BY <1>14 DEF NodeStop
  <1>15. CASE NodeStart
    BY <1>15 DEF NodeStart
  <1>16. CASE NodeHealth
    BY <1>16 DEF NodeHealth
  <1>17. CASE NodeExtend
    BY <1>17 DEF NodeExtend
  <1>18. CASE Network
    BY <1>18 DEF Network
  <1>19. CASE UNCHANGED vars
    BY <1>19 DEF vars
  <1> QED BY <1>1, <1>2, <1>3, <1>4, <1>5, <1>6, <1>7, <1>8, <1>9, <1>10, <1>11, <1>12, <1>13, <1>14, <1>15, <1>16, <1>17, <1>18, <1>19 DEF Next, Call, Environment

\* A call returns what the node replied.
LEMMA AnswerNext == IInv /\ [Next]_vars => AnswerIsCurrent'
  <1> SUFFICES ASSUME IInv, [Next]_vars PROVE AnswerIsCurrent'
    OBVIOUS
  <1> USE DEF IInv, TypeOK, ReplyInv, AnswerIsCurrent, node, client, history, NoReply, NoCreds, NoCookie
  <1>1. CASE Start
    BY <1>1 DEF Start, CallBegins
  <1>2. CASE NextCall
    BY <1>2 DEF NextCall, CallBegins
  <1>3. CASE AuthHeader
    BY <1>3 DEF AuthHeader, Permanent, Forget
  <1>4. CASE Dial
    BY <1>4 DEF Dial, Permanent, Transient, Forget
  <1>5. CASE TimesOut
    BY <1>5 DEF TimesOut, Transient, Forget
  <1>6. CASE ConnectionLost
    BY <1>6 DEF ConnectionLost, Transient, Forget
  <1>7. CASE KeepAliveFails
    BY <1>7 DEF KeepAliveFails, Permanent, Forget
  <1>8. CASE Answered
    BY <1>8 DEF Answered, Forget
  <1>9. CASE AnswerCut
    BY <1>9 DEF AnswerCut, Permanent, Forget
  <1>10. CASE Unauthorized
    BY <1>10 DEF Unauthorized, Permanent, Forget
  <1>11. CASE Overloaded
    BY <1>11 DEF Overloaded, Transient, Forget
  <1>12. CASE RpcError
    BY <1>12 DEF RpcError, Permanent, Forget
  <1>13. CASE Serve
    BY <1>13 DEF Serve
  <1>14. CASE NodeStop
    BY <1>14 DEF NodeStop
  <1>15. CASE NodeStart
    BY <1>15 DEF NodeStart
  <1>16. CASE NodeHealth
    BY <1>16 DEF NodeHealth
  <1>17. CASE NodeExtend
    BY <1>17 DEF NodeExtend
  <1>18. CASE Network
    BY <1>18 DEF Network
  <1>19. CASE UNCHANGED vars
    BY <1>19 DEF vars
  <1> QED BY <1>1, <1>2, <1>3, <1>4, <1>5, <1>6, <1>7, <1>8, <1>9, <1>10, <1>11, <1>12, <1>13, <1>14, <1>15, <1>16, <1>17, <1>18, <1>19 DEF Next, Call, Environment

\* A refusal ends the process at the second attempt only.
LEMMA RefusedNext == IInv /\ [Next]_vars => RefusedOnlyByTwoRestarts'
  <1> SUFFICES ASSUME IInv, [Next]_vars PROVE RefusedOnlyByTwoRestarts'
    OBVIOUS
  <1> USE DEF IInv, TypeOK, ConfInv, AttemptInv, ReplyInv, RefusedOnlyByTwoRestarts, node, client, history, NoReply, NoCreds, NoCookie
  <1>1. CASE Start
    BY <1>1 DEF Start, CallBegins
  <1>2. CASE NextCall
    BY <1>2 DEF NextCall, CallBegins
  <1>3. CASE AuthHeader
    BY <1>3 DEF AuthHeader, Permanent, Forget
  <1>4. CASE Dial
    BY <1>4 DEF Dial, Permanent, Transient, Forget
  <1>5. CASE TimesOut
    BY <1>5 DEF TimesOut, Transient, Forget
  <1>6. CASE ConnectionLost
    BY <1>6 DEF ConnectionLost, Transient, Forget
  <1>7. CASE KeepAliveFails
    BY <1>7 DEF KeepAliveFails, Permanent, Forget
  <1>8. CASE Answered
    BY <1>8 DEF Answered, Forget
  <1>9. CASE AnswerCut
    BY <1>9 DEF AnswerCut, Permanent, Forget
  <1>10. CASE Unauthorized
    <2>1. CASE gave' = "refused" /\ Rightful(settings)
      <3>1. PICK found \in BOOLEAN : conf = Build(settings, found)
        BY <1>10 DEF Unauthorized
      <3>2. settings \in Settings /\ HasAuth(conf)
        BY <1>10 DEF Unauthorized
      <3>3. conf.cookie \/ conf.pass = "node"
        BY <2>1, <3>1, <3>2, RightfulPassword
      <3> QED BY <1>10, <2>1, <3>3 DEF Unauthorized, Permanent
    <2>2. CASE ~(gave' = "refused" /\ Rightful(settings))
      BY <1>10, <2>2 DEF Unauthorized
    <2> QED BY <2>1, <2>2
  <1>11. CASE Overloaded
    BY <1>11 DEF Overloaded, Transient, Forget
  <1>12. CASE RpcError
    BY <1>12 DEF RpcError, Permanent, Forget
  <1>13. CASE Serve
    BY <1>13 DEF Serve
  <1>14. CASE NodeStop
    BY <1>14 DEF NodeStop
  <1>15. CASE NodeStart
    BY <1>15 DEF NodeStart
  <1>16. CASE NodeHealth
    BY <1>16 DEF NodeHealth
  <1>17. CASE NodeExtend
    BY <1>17 DEF NodeExtend
  <1>18. CASE Network
    BY <1>18 DEF Network
  <1>19. CASE UNCHANGED vars
    BY <1>19 DEF vars
  <1> QED BY <1>1, <1>2, <1>3, <1>4, <1>5, <1>6, <1>7, <1>8, <1>9, <1>10, <1>11, <1>12, <1>13, <1>14, <1>15, <1>16, <1>17, <1>18, <1>19 DEF Next, Call, Environment

\* With a password, only trouble ends the process.
LEMMA PasswordNext == IInv /\ [Next]_vars => PasswordSurvivesRestarts'
  <1> SUFFICES ASSUME IInv, [Next]_vars PROVE PasswordSurvivesRestarts'
    OBVIOUS
  <1> USE DEF IInv, TypeOK, HeaderInv, ConfInv, TroubleInv, ReplyInv, PasswordSurvivesRestarts, node, client, history, NoReply, NoCreds, NoCookie
  <1>1. CASE Start
    <2>1. CASE gave' = "config" /\ conf' = conf /\ conf.pass = "node"
      <3>1. HasAuth(conf)
        BY <2>1 DEF HasAuth
      <3>2. PICK found \in BOOLEAN : conf = Build(settings, found)
        BY <3>1
      <3>3. HasAuth(Build(settings, cookieFile # 0))
        BY <2>1, <3>2, PasswordStays
      <3> QED BY <1>1, <2>1, <3>3 DEF Start, CallBegins
    <2>2. CASE ~(gave' = "config" /\ conf' = conf /\ conf.pass = "node")
      BY <1>1, <2>2 DEF Start, CallBegins
    <2> QED BY <2>1, <2>2
  <1>2. CASE NextCall
    BY <1>2 DEF NextCall, CallBegins
  <1>3. CASE AuthHeader
    BY <1>3 DEF AuthHeader, Permanent, Forget
  <1>4. CASE Dial
    BY <1>4 DEF Dial, Permanent, Transient, Forget
  <1>5. CASE TimesOut
    BY <1>5 DEF TimesOut, Transient, Forget
  <1>6. CASE ConnectionLost
    BY <1>6 DEF ConnectionLost, Transient, Forget
  <1>7. CASE KeepAliveFails
    BY <1>7 DEF KeepAliveFails, Permanent, Forget
  <1>8. CASE Answered
    BY <1>8 DEF Answered, Forget
  <1>9. CASE AnswerCut
    BY <1>9 DEF AnswerCut, Permanent, Forget
  <1>10. CASE Unauthorized
    BY <1>10 DEF Unauthorized, Permanent, Forget
  <1>11. CASE Overloaded
    BY <1>11 DEF Overloaded, Transient, Forget
  <1>12. CASE RpcError
    BY <1>12 DEF RpcError, Permanent, Forget
  <1>13. CASE Serve
    BY <1>13 DEF Serve
  <1>14. CASE NodeStop
    BY <1>14 DEF NodeStop
  <1>15. CASE NodeStart
    BY <1>15 DEF NodeStart
  <1>16. CASE NodeHealth
    BY <1>16 DEF NodeHealth
  <1>17. CASE NodeExtend
    BY <1>17 DEF NodeExtend
  <1>18. CASE Network
    BY <1>18 DEF Network
  <1>19. CASE UNCHANGED vars
    BY <1>19 DEF vars
  <1> QED BY <1>1, <1>2, <1>3, <1>4, <1>5, <1>6, <1>7, <1>8, <1>9, <1>10, <1>11, <1>12, <1>13, <1>14, <1>15, <1>16, <1>17, <1>18, <1>19 DEF Next, Call, Environment

-----------------------------------------------------------------------------
\* IInv is inductive, and holds from the first start on.
THEOREM Invariant == Spec => []IInv
  <1>1. IInv /\ [Next]_vars => IInv'
    BY TypeNext, HeaderNext, ConfNext, AttemptNext, TroubleNext, ReplyNext,
       AnswerNext, RefusedNext, PasswordNext
    DEF IInv
  <1> QED BY InitInv, <1>1, PTL DEF Spec

\* Every variable of client, node and configuration keeps its type.
THEOREM TypeCorrect == Spec => []TypeOK
  BY Invariant, PTL DEF IInv

\* call (client.go): an answer is a height the node had during the call.
THEOREM AnswersAreCurrent == Spec => []AnswerIsCurrent
  BY Invariant, PTL DEF IInv

\* The retry of call (client.go) and the choice of build (config.go) together:
\* no refusal without two restarts of the node inside one call.
THEOREM OneRestartIsNoRefusal == Spec => []RefusedOnlyByTwoRestarts
  BY Invariant, PTL DEF IInv

\* isTransientRPCErr (ingestor.go): restarts of the node, its load and its
\* hanging do not end an indexer that authenticates with a password.
THEOREM RestartsAreSurvived == Spec => []PasswordSurvivesRestarts
  BY Invariant, PTL DEF IInv
=============================================================================
