----------------------------- MODULE NetIOProofs -----------------------------
(***************************************************************************)
(* Safety of the network I/O test for every size of the messages, number   *)
(* of exchanges, threshold, number of attempts to connect and number of    *)
(* runs, in both ports: the arguments of the server are not freed under    *)
(* it, messages are whole, and published times are those of answers that   *)
(* arrived in full length.                                                 *)
(***************************************************************************)
EXTENDS NetIO, TLAPS

(* The test starts in the inductive invariant. *)
LEMMA InitIInv == Init => IInv
<1> SUFFICES ASSUME Init PROVE IInv
  OBVIOUS
<1>1. Places
  BY DEF Init, Places, ClientPC, ServerPC
<1>2. Numbers
  BY NetIOAssumption DEF NetIOAssumption, Init, Numbers, Measuring, SettingUp
<1>3. ReleaseInv /\ MeasuringInv /\ SetUpInv
  BY DEF Init, ReleaseInv, MeasuringInv, SetUpInv, Measuring, SettingUp, Serving
<1>4. AnswerInv
  BY DEF Init, AnswerInv
<1>5. MessageInv
  BY NetIOAssumption
  DEF NetIOAssumption, Init, MessageInv, Received, Measuring, SettingUp
<1> QED
  BY <1>1, <1>2, <1>3, <1>4, <1>5 DEF IInv

-----------------------------------------------------------------------------
(* Each part of the invariant is kept by every step, given the parts it    *)
(* needs.                                                                  *)

(* Both ends are where they can be. *)
LEMMA PlacesStep ==
  ASSUME Places, [Next]_vars
  PROVE  Places'
<1> USE DEF Places, ClientPC, ServerPC, netVars, serverVars, clientVars, InC
<1>1. CASE UNCHANGED vars
  BY <1>1 DEF vars
<1>2. CASE RunAgain
  BY <1>2 DEF RunAgain
<1>3. CASE ServerListens \/ ServerFails
  BY <1>3 DEF ServerListens, ServerFails, ServerGoto
<1>4. CASE ServerAccepts \/ ServerStopsAccepting
  BY <1>4 DEF ServerAccepts, ServerStopsAccepting, ServerGoto, StayAlive
<1>5. CASE ServerBeginsRound
  BY <1>5 DEF ServerBeginsRound, StayAlive
<1>6. CASE ServerReceives
  BY <1>6 DEF ServerReceives
<1>7. CASE ServerSeesEnd
  BY <1>7 DEF ServerSeesEnd, ServerLeaves, ServerGoto
<1>8. CASE ServerEnds \/ ServerRecvFails
  BY <1>8 DEF ServerEnds, ServerRecvFails, ServerLeaves, ServerGoto, StayAlive
<1>9. CASE ServerSendFails
  <2>1. CASE spc = "send" /\ broken /\ ServerLeaves(InC)
    BY <2>1 DEF ServerLeaves, ServerGoto
  <2>2. CASE spc = "send" /\ Killed
    BY <2>2 DEF Killed
  <2> QED
    BY <1>9, <2>1, <2>2 DEF ServerSendFails
<1>10. CASE ServerSends
  BY <1>10 DEF ServerSends, SendFrom
<1>11. CASE ServerReadsBeyond
  BY <1>11 DEF ServerReadsBeyond, SendFrom
<1>12. CASE ServerNext
  BY <1>12 DEF ServerNext, StayAlive
<1>13. CASE StartServer \/ ServerNotStarted
  BY <1>13 DEF StartServer, ServerNotStarted, ClientGoto, GiveUp
<1>14. CASE LocalAddress \/ NoClientSocket
  BY <1>14 DEF LocalAddress, NoClientSocket, ClientGoto, GiveUp
<1>15. CASE NoLocalAddress
  BY <1>15 DEF NoLocalAddress
<1>16. CASE Connect
  BY <1>16 DEF Connect, AfterConnect, ClientGoto, GiveUp
<1>17. CASE ConnectRefused
  BY <1>17 DEF ConnectRefused, AfterConnect, ClientGoto, GiveUp
<1>18. CASE ClientSends
  BY <1>18 DEF ClientSends
<1>19. CASE ClockFailsFirst \/ ClientSendFails \/ ClientRecvFails
  BY <1>19 DEF ClockFailsFirst, ClientSendFails, ClientRecvFails, Killed,
      GiveUp, ClientGoto, Unanswered
<1>20. CASE ClientReceives
  BY <1>20 DEF ClientReceives, AfterRecv
<1>21. CASE ClientSeesEnd
  BY <1>21 DEF ClientSeesEnd, AfterRecv
<1>22. CASE Judge
  BY <1>22 DEF Judge, NextRound, Publish
<1>23. CASE Tell
  BY <1>23 DEF Tell
<1>24. CASE Close
  BY <1>24 DEF Close, ClientGoto
<1>25. CASE Join \/ Free
  BY <1>25 DEF Join, Free, ClientGoto
<1> QED
  BY <1>1, <1>2, <1>3, <1>4, <1>5, <1>6, <1>7, <1>8, <1>9, <1>10, <1>11, <1>12,
     <1>13, <1>14, <1>15, <1>16, <1>17, <1>18, <1>19, <1>20, <1>21, <1>22,
     <1>23, <1>24, <1>25
  DEF Next, Client, Server, SetUp, Exchange, CleanUp

(* Sizes and counts stay what they should be. *)
LEMMA NumbersStep ==
  ASSUME Numbers, SetUpInv, [Next]_vars
  PROVE  Numbers'
<1> USE NetIOAssumption DEF Numbers, SetUpInv, SettingUp, Measuring,
        NetIOAssumption, netVars, serverVars, clientVars, InC
<1>1. CASE UNCHANGED vars
  BY <1>1 DEF vars
<1>2. CASE RunAgain
  BY <1>2 DEF RunAgain
<1>3. CASE ServerListens \/ ServerFails
  BY <1>3 DEF ServerListens, ServerFails, ServerGoto
<1>4. CASE ServerAccepts \/ ServerStopsAccepting
  BY <1>4 DEF ServerAccepts, ServerStopsAccepting, ServerGoto, StayAlive
<1>5. CASE ServerBeginsRound
  BY <1>5 DEF ServerBeginsRound, StayAlive
<1>6. CASE ServerReceives
  BY <1>6 DEF ServerReceives
<1>7. CASE ServerSeesEnd
  BY <1>7 DEF ServerSeesEnd, ServerLeaves, ServerGoto
<1>8. CASE ServerEnds \/ ServerRecvFails
  BY <1>8 DEF ServerEnds, ServerRecvFails, ServerLeaves, ServerGoto, StayAlive
<1>9. CASE ServerSendFails
  <2>1. CASE spc = "send" /\ broken /\ ServerLeaves(InC)
    BY <2>1 DEF ServerLeaves, ServerGoto
  <2>2. CASE spc = "send" /\ Killed
    BY <2>2 DEF Killed
  <2> QED
    BY <1>9, <2>1, <2>2 DEF ServerSendFails
<1>10. CASE ServerSends
  BY <1>10 DEF ServerSends, SendFrom
<1>11. CASE ServerReadsBeyond
  BY <1>11 DEF ServerReadsBeyond, SendFrom
<1>12. CASE ServerNext
  BY <1>12 DEF ServerNext, StayAlive
<1>13. CASE StartServer \/ ServerNotStarted
  BY <1>13 DEF StartServer, ServerNotStarted, ClientGoto, GiveUp
<1>14. CASE LocalAddress \/ NoClientSocket
  BY <1>14 DEF LocalAddress, NoClientSocket, ClientGoto, GiveUp
<1>15. CASE NoLocalAddress
  BY <1>15 DEF NoLocalAddress
<1>16. CASE Connect
  BY <1>16 DEF Connect, AfterConnect, ClientGoto, GiveUp
<1>17. CASE ConnectRefused
  BY <1>17 DEF ConnectRefused, AfterConnect, ClientGoto, GiveUp
<1>18. CASE ClientSends
  BY <1>18 DEF ClientSends
<1>19. CASE ClockFailsFirst \/ ClientSendFails \/ ClientRecvFails
  BY <1>19 DEF ClockFailsFirst, ClientSendFails, ClientRecvFails, Killed,
      GiveUp, ClientGoto, Unanswered
<1>20. CASE ClientReceives
  BY <1>20 DEF ClientReceives, AfterRecv
<1>21. CASE ClientSeesEnd
  BY <1>21 DEF ClientSeesEnd, AfterRecv
<1>22. CASE Judge
  BY <1>22 DEF Judge, NextRound, Publish
<1>23. CASE Tell
  BY <1>23 DEF Tell
<1>24. CASE Close
  BY <1>24 DEF Close, ClientGoto
<1>25. CASE Join \/ Free
  BY <1>25 DEF Join, Free, ClientGoto
<1> QED
  BY <1>1, <1>2, <1>3, <1>4, <1>5, <1>6, <1>7, <1>8, <1>9, <1>10, <1>11, <1>12,
     <1>13, <1>14, <1>15, <1>16, <1>17, <1>18, <1>19, <1>20, <1>21, <1>22,
     <1>23, <1>24, <1>25
  DEF Next, Client, Server, SetUp, Exchange, CleanUp

(* The server answers with the message, unless it is the C++ server and    *)
(* recv has returned a part.                                               *)
LEMMA AnswerStep ==
  ASSUME Numbers, AnswerInv, ReleaseInv, [Next]_vars
  PROVE  AnswerInv'
<1> USE DEF Numbers, AnswerInv, ReleaseInv, netVars, serverVars, clientVars,
        InC
<1>1. CASE UNCHANGED vars
  BY <1>1 DEF vars
<1>2. CASE RunAgain
  BY <1>2 DEF RunAgain
<1>3. CASE ServerListens \/ ServerFails
  BY <1>3 DEF ServerListens, ServerFails, ServerGoto
<1>4. CASE ServerAccepts \/ ServerStopsAccepting
  BY <1>4 DEF ServerAccepts, ServerStopsAccepting, ServerGoto, StayAlive
<1>5. CASE ServerBeginsRound
  BY <1>5 DEF ServerBeginsRound, StayAlive
<1>6. CASE ServerReceives
  BY <1>6 DEF ServerReceives
<1>7. CASE ServerSeesEnd
  BY <1>7 DEF ServerSeesEnd, ServerLeaves, ServerGoto
<1>8. CASE ServerEnds \/ ServerRecvFails
  BY <1>8 DEF ServerEnds, ServerRecvFails, ServerLeaves, ServerGoto, StayAlive
<1>9. CASE ServerSendFails
  <2>1. CASE spc = "send" /\ broken /\ ServerLeaves(InC)
    BY <2>1 DEF ServerLeaves, ServerGoto
  <2>2. CASE spc = "send" /\ Killed
    BY <2>2 DEF Killed
  <2> QED
    BY <1>9, <2>1, <2>2 DEF ServerSendFails
<1>10. CASE ServerSends
  BY <1>10 DEF ServerSends, SendFrom
<1>11. CASE ServerReadsBeyond
  BY <1>11 DEF ServerReadsBeyond, SendFrom
<1>12. CASE ServerNext
  BY <1>12 DEF ServerNext, StayAlive
<1>13. CASE StartServer \/ ServerNotStarted
  BY <1>13 DEF StartServer, ServerNotStarted, ClientGoto, GiveUp
<1>14. CASE LocalAddress \/ NoClientSocket
  BY <1>14 DEF LocalAddress, NoClientSocket, ClientGoto, GiveUp
<1>15. CASE NoLocalAddress
  BY <1>15 DEF NoLocalAddress
<1>16. CASE Connect
  BY <1>16 DEF Connect, AfterConnect, ClientGoto, GiveUp
<1>17. CASE ConnectRefused
  BY <1>17 DEF ConnectRefused, AfterConnect, ClientGoto, GiveUp
<1>18. CASE ClientSends
  BY <1>18 DEF ClientSends
<1>19. CASE ClockFailsFirst \/ ClientSendFails \/ ClientRecvFails
  BY <1>19 DEF ClockFailsFirst, ClientSendFails, ClientRecvFails, Killed,
      GiveUp, ClientGoto, Unanswered
<1>20. CASE ClientReceives
  BY <1>20 DEF ClientReceives, AfterRecv
<1>21. CASE ClientSeesEnd
  BY <1>21 DEF ClientSeesEnd, AfterRecv
<1>22. CASE Judge
  BY <1>22 DEF Judge, NextRound, Publish
<1>23. CASE Tell
  BY <1>23 DEF Tell
<1>24. CASE Close
  BY <1>24 DEF Close, ClientGoto
<1>25. CASE Join \/ Free
  BY <1>25 DEF Join, Free, ClientGoto
<1> QED
  BY <1>1, <1>2, <1>3, <1>4, <1>5, <1>6, <1>7, <1>8, <1>9, <1>10, <1>11, <1>12,
     <1>13, <1>14, <1>15, <1>16, <1>17, <1>18, <1>19, <1>20, <1>21, <1>22,
     <1>23, <1>24, <1>25
  DEF Next, Client, Server, SetUp, Exchange, CleanUp

(* The server ends before its arguments are freed. *)
LEMMA ReleaseStep ==
  ASSUME ReleaseInv, [Next]_vars
  PROVE  ReleaseInv'
<1> USE DEF ReleaseInv, netVars, serverVars, clientVars, InC
<1>1. CASE UNCHANGED vars
  BY <1>1 DEF vars
<1>2. CASE RunAgain
  BY <1>2 DEF RunAgain
<1>3. CASE ServerListens \/ ServerFails
  BY <1>3 DEF ServerListens, ServerFails, ServerGoto
<1>4. CASE ServerAccepts \/ ServerStopsAccepting
  BY <1>4 DEF ServerAccepts, ServerStopsAccepting, ServerGoto, StayAlive
<1>5. CASE ServerBeginsRound
  BY <1>5 DEF ServerBeginsRound, StayAlive
<1>6. CASE ServerReceives
  BY <1>6 DEF ServerReceives
<1>7. CASE ServerSeesEnd
  BY <1>7 DEF ServerSeesEnd, ServerLeaves, ServerGoto
<1>8. CASE ServerEnds \/ ServerRecvFails
  BY <1>8 DEF ServerEnds, ServerRecvFails, ServerLeaves, ServerGoto, StayAlive
<1>9. CASE ServerSendFails
  <2>1. CASE spc = "send" /\ broken /\ ServerLeaves(InC)
    BY <2>1 DEF ServerLeaves, ServerGoto
  <2>2. CASE spc = "send" /\ Killed
    BY <2>2 DEF Killed
  <2> QED
    BY <1>9, <2>1, <2>2 DEF ServerSendFails
<1>10. CASE ServerSends
  BY <1>10 DEF ServerSends, SendFrom
<1>11. CASE ServerReadsBeyond
  BY <1>11 DEF ServerReadsBeyond, SendFrom
<1>12. CASE ServerNext
  BY <1>12 DEF ServerNext, StayAlive
<1>13. CASE StartServer \/ ServerNotStarted
  BY <1>13 DEF StartServer, ServerNotStarted, ClientGoto, GiveUp
<1>14. CASE LocalAddress \/ NoClientSocket
  BY <1>14 DEF LocalAddress, NoClientSocket, ClientGoto, GiveUp
<1>15. CASE NoLocalAddress
  BY <1>15 DEF NoLocalAddress
<1>16. CASE Connect
  BY <1>16 DEF Connect, AfterConnect, ClientGoto, GiveUp
<1>17. CASE ConnectRefused
  BY <1>17 DEF ConnectRefused, AfterConnect, ClientGoto, GiveUp
<1>18. CASE ClientSends
  BY <1>18 DEF ClientSends
<1>19. CASE ClockFailsFirst \/ ClientSendFails \/ ClientRecvFails
  BY <1>19 DEF ClockFailsFirst, ClientSendFails, ClientRecvFails, Killed,
      GiveUp, ClientGoto, Unanswered
<1>20. CASE ClientReceives
  BY <1>20 DEF ClientReceives, AfterRecv
<1>21. CASE ClientSeesEnd
  BY <1>21 DEF ClientSeesEnd, AfterRecv
<1>22. CASE Judge
  BY <1>22 DEF Judge, NextRound, Publish
<1>23. CASE Tell
  BY <1>23 DEF Tell
<1>24. CASE Close
  BY <1>24 DEF Close, ClientGoto
<1>25. CASE Join \/ Free
  BY <1>25 DEF Join, Free, ClientGoto
<1> QED
  BY <1>1, <1>2, <1>3, <1>4, <1>5, <1>6, <1>7, <1>8, <1>9, <1>10, <1>11, <1>12,
     <1>13, <1>14, <1>15, <1>16, <1>17, <1>18, <1>19, <1>20, <1>21, <1>22,
     <1>23, <1>24, <1>25
  DEF Next, Client, Server, SetUp, Exchange, CleanUp

(* Both ends are at the first message until they are connected. *)
LEMMA SetUpStep ==
  ASSUME SetUpInv, ReleaseInv, MeasuringInv, [Next]_vars
  PROVE  SetUpInv'
<1> USE DEF SetUpInv, ReleaseInv, MeasuringInv, SettingUp, Measuring, Serving,
        netVars, serverVars, clientVars, InC
<1>1. CASE UNCHANGED vars
  BY <1>1 DEF vars
<1>2. CASE RunAgain
  BY <1>2 DEF RunAgain
<1>3. CASE ServerListens \/ ServerFails
  BY <1>3 DEF ServerListens, ServerFails, ServerGoto
<1>4. CASE ServerAccepts \/ ServerStopsAccepting
  BY <1>4 DEF ServerAccepts, ServerStopsAccepting, ServerGoto, StayAlive
<1>5. CASE ServerBeginsRound
  BY <1>5 DEF ServerBeginsRound, StayAlive
<1>6. CASE ServerReceives
  BY <1>6 DEF ServerReceives
<1>7. CASE ServerSeesEnd
  BY <1>7 DEF ServerSeesEnd, ServerLeaves, ServerGoto
<1>8. CASE ServerEnds \/ ServerRecvFails
  BY <1>8 DEF ServerEnds, ServerRecvFails, ServerLeaves, ServerGoto, StayAlive
<1>9. CASE ServerSendFails
  <2>1. CASE spc = "send" /\ broken /\ ServerLeaves(InC)
    BY <2>1 DEF ServerLeaves, ServerGoto
  <2>2. CASE spc = "send" /\ Killed
    BY <2>2 DEF Killed
  <2> QED
    BY <1>9, <2>1, <2>2 DEF ServerSendFails
<1>10. CASE ServerSends
  BY <1>10 DEF ServerSends, SendFrom
<1>11. CASE ServerReadsBeyond
  BY <1>11 DEF ServerReadsBeyond, SendFrom
<1>12. CASE ServerNext
  BY <1>12 DEF ServerNext, StayAlive
<1>13. CASE StartServer \/ ServerNotStarted
  BY <1>13 DEF StartServer, ServerNotStarted, ClientGoto, GiveUp
<1>14. CASE LocalAddress \/ NoClientSocket
  BY <1>14 DEF LocalAddress, NoClientSocket, ClientGoto, GiveUp
<1>15. CASE NoLocalAddress
  BY <1>15 DEF NoLocalAddress
<1>16. CASE Connect
  BY <1>16 DEF Connect, AfterConnect, ClientGoto, GiveUp
<1>17. CASE ConnectRefused
  BY <1>17 DEF ConnectRefused, AfterConnect, ClientGoto, GiveUp
<1>18. CASE ClientSends
  BY <1>18 DEF ClientSends
<1>19. CASE ClockFailsFirst \/ ClientSendFails \/ ClientRecvFails
  BY <1>19 DEF ClockFailsFirst, ClientSendFails, ClientRecvFails, Killed,
      GiveUp, ClientGoto, Unanswered
<1>20. CASE ClientReceives
  BY <1>20 DEF ClientReceives, AfterRecv
<1>21. CASE ClientSeesEnd
  BY <1>21 DEF ClientSeesEnd, AfterRecv
<1>22. CASE Judge
  BY <1>22 DEF Judge, NextRound, Publish
<1>23. CASE Tell
  BY <1>23 DEF Tell
<1>24. CASE Close
  BY <1>24 DEF Close, ClientGoto
<1>25. CASE Join \/ Free
  BY <1>25 DEF Join, Free, ClientGoto
<1> QED
  BY <1>1, <1>2, <1>3, <1>4, <1>5, <1>6, <1>7, <1>8, <1>9, <1>10, <1>11, <1>12,
     <1>13, <1>14, <1>15, <1>16, <1>17, <1>18, <1>19, <1>20, <1>21, <1>22,
     <1>23, <1>24, <1>25
  DEF Next, Client, Server, SetUp, Exchange, CleanUp

(* Nobody leaves while the client measures, and C++ closes first. *)
LEMMA MeasuringStep ==
  ASSUME MeasuringInv, AnswerInv, SetUpInv, ReleaseInv, [Next]_vars
  PROVE  MeasuringInv'
<1> USE DEF MeasuringInv, AnswerInv, SetUpInv, ReleaseInv, SettingUp,
        Measuring, Serving, netVars, serverVars, clientVars, InC
<1>1. CASE UNCHANGED vars
  BY <1>1 DEF vars
<1>2. CASE RunAgain
  BY <1>2 DEF RunAgain
<1>3. CASE ServerListens \/ ServerFails
  BY <1>3 DEF ServerListens, ServerFails, ServerGoto
<1>4. CASE ServerAccepts \/ ServerStopsAccepting
  BY <1>4 DEF ServerAccepts, ServerStopsAccepting, ServerGoto, StayAlive
<1>5. CASE ServerBeginsRound
  BY <1>5 DEF ServerBeginsRound, StayAlive
<1>6. CASE ServerReceives
  BY <1>6 DEF ServerReceives
<1>7. CASE ServerSeesEnd
  BY <1>7 DEF ServerSeesEnd, ServerLeaves, ServerGoto
<1>8. CASE ServerEnds \/ ServerRecvFails
  BY <1>8 DEF ServerEnds, ServerRecvFails, ServerLeaves, ServerGoto, StayAlive
<1>9. CASE ServerSendFails
  <2>1. CASE spc = "send" /\ broken /\ ServerLeaves(InC)
    BY <2>1 DEF ServerLeaves, ServerGoto
  <2>2. CASE spc = "send" /\ Killed
    BY <2>2 DEF Killed
  <2> QED
    BY <1>9, <2>1, <2>2 DEF ServerSendFails
<1>10. CASE ServerSends
  BY <1>10 DEF ServerSends, SendFrom
<1>11. CASE ServerReadsBeyond
  BY <1>11 DEF ServerReadsBeyond, SendFrom
<1>12. CASE ServerNext
  BY <1>12 DEF ServerNext, StayAlive
<1>13. CASE StartServer \/ ServerNotStarted
  BY <1>13 DEF StartServer, ServerNotStarted, ClientGoto, GiveUp
<1>14. CASE LocalAddress \/ NoClientSocket
  BY <1>14 DEF LocalAddress, NoClientSocket, ClientGoto, GiveUp
<1>15. CASE NoLocalAddress
  BY <1>15 DEF NoLocalAddress
<1>16. CASE Connect
  BY <1>16 DEF Connect, AfterConnect, ClientGoto, GiveUp
<1>17. CASE ConnectRefused
  BY <1>17 DEF ConnectRefused, AfterConnect, ClientGoto, GiveUp
<1>18. CASE ClientSends
  BY <1>18 DEF ClientSends
<1>19. CASE ClockFailsFirst \/ ClientSendFails \/ ClientRecvFails
  BY <1>19 DEF ClockFailsFirst, ClientSendFails, ClientRecvFails, Killed,
      GiveUp, ClientGoto, Unanswered
<1>20. CASE ClientReceives
  BY <1>20 DEF ClientReceives, AfterRecv
<1>21. CASE ClientSeesEnd
  BY <1>21 DEF ClientSeesEnd, AfterRecv
<1>22. CASE Judge
  BY <1>22 DEF Judge, NextRound, Publish
<1>23. CASE Tell
  BY <1>23 DEF Tell
<1>24. CASE Close
  BY <1>24 DEF Close, ClientGoto
<1>25. CASE Join \/ Free
  BY <1>25 DEF Join, Free, ClientGoto
<1> QED
  BY <1>1, <1>2, <1>3, <1>4, <1>5, <1>6, <1>7, <1>8, <1>9, <1>10, <1>11, <1>12,
     <1>13, <1>14, <1>15, <1>16, <1>17, <1>18, <1>19, <1>20, <1>21, <1>22,
     <1>23, <1>24, <1>25
  DEF Next, Client, Server, SetUp, Exchange, CleanUp

(* Both ends agree on the message that is under way. *)
LEMMA MessageStep ==
  ASSUME IInv, [Next]_vars
  PROVE  MessageInv'
<1> USE NetIOAssumption DEF IInv, MessageInv, Received, Measuring, SettingUp,
        Idle, ToServer, ToClient, ExpectsNext, Expects, Numbers, MeasuringInv,
        SetUpInv, ReleaseInv, Serving, NetIOAssumption, netVars, serverVars,
        clientVars, InC
<1>1. CASE UNCHANGED vars
  BY <1>1 DEF vars
<1>2. CASE RunAgain
  BY <1>2 DEF RunAgain
<1>3. CASE ServerListens \/ ServerFails
  BY <1>3 DEF ServerListens, ServerFails, ServerGoto
<1>4. CASE ServerAccepts \/ ServerStopsAccepting
  BY <1>4 DEF ServerAccepts, ServerStopsAccepting, ServerGoto, StayAlive
<1>5. CASE ServerBeginsRound
  BY <1>5 DEF ServerBeginsRound, StayAlive
<1>6. CASE ServerReceives
  BY <1>6 DEF ServerReceives
<1>7. CASE ServerSeesEnd
  BY <1>7 DEF ServerSeesEnd, ServerLeaves, ServerGoto
<1>8. CASE ServerEnds \/ ServerRecvFails
  BY <1>8 DEF ServerEnds, ServerRecvFails, ServerLeaves, ServerGoto, StayAlive
<1>9. CASE ServerSendFails
  <2>1. CASE spc = "send" /\ broken /\ ServerLeaves(InC)
    BY <2>1 DEF ServerLeaves, ServerGoto
  <2>2. CASE spc = "send" /\ Killed
    BY <2>2 DEF Killed
  <2> QED
    BY <1>9, <2>1, <2>2 DEF ServerSendFails
<1>10. CASE ServerSends
  BY <1>10 DEF ServerSends, SendFrom
<1>11. CASE ServerReadsBeyond
  BY <1>11 DEF ServerReadsBeyond, SendFrom
<1>12. CASE ServerNext
  BY <1>12 DEF ServerNext, StayAlive
<1>13. CASE StartServer \/ ServerNotStarted
  BY <1>13 DEF StartServer, ServerNotStarted, ClientGoto, GiveUp
<1>14. CASE LocalAddress \/ NoClientSocket
  BY <1>14 DEF LocalAddress, NoClientSocket, ClientGoto, GiveUp
<1>15. CASE NoLocalAddress
  BY <1>15 DEF NoLocalAddress
<1>16. CASE Connect
  BY <1>16 DEF Connect, AfterConnect, ClientGoto, GiveUp
<1>17. CASE ConnectRefused
  BY <1>17 DEF ConnectRefused, AfterConnect, ClientGoto, GiveUp
<1>18. CASE ClientSends
  BY <1>18 DEF ClientSends
<1>19. CASE ClockFailsFirst \/ ClientSendFails \/ ClientRecvFails
  BY <1>19 DEF ClockFailsFirst, ClientSendFails, ClientRecvFails, Killed,
      GiveUp, ClientGoto, Unanswered
<1>20. CASE ClientReceives
  BY <1>20 DEF ClientReceives, AfterRecv
<1>21. CASE ClientSeesEnd
  BY <1>21 DEF ClientSeesEnd, AfterRecv
<1>22. CASE Judge
  BY <1>22 DEF Judge, NextRound, Publish
<1>23. CASE Tell
  BY <1>23 DEF Tell
<1>24. CASE Close
  BY <1>24 DEF Close, ClientGoto
<1>25. CASE Join \/ Free
  BY <1>25 DEF Join, Free, ClientGoto
<1> QED
  BY <1>1, <1>2, <1>3, <1>4, <1>5, <1>6, <1>7, <1>8, <1>9, <1>10, <1>11, <1>12,
     <1>13, <1>14, <1>15, <1>16, <1>17, <1>18, <1>19, <1>20, <1>21, <1>22,
     <1>23, <1>24, <1>25
  DEF Next, Client, Server, SetUp, Exchange, CleanUp

-----------------------------------------------------------------------------
(* The invariant holds in every reachable state. *)
THEOREM Invariance == Spec => []IInv
<1>1. IInv /\ [Next]_vars => IInv'
  BY PlacesStep, NumbersStep, AnswerStep, ReleaseStep, SetUpStep, MeasuringStep,
     MessageStep
  DEF IInv
<1> QED
  BY <1>1, InitIInv, PTL DEF Spec

(* Type correctness: no count passes its bound. *)
THEOREM TypeCorrect == Spec => []TypeOK
<1>1. IInv => TypeOK
  BY NetIOAssumption DEF NetIOAssumption, IInv, Places, Numbers, AnswerInv, TypeOK
<1> QED
  BY <1>1, Invariance, PTL

(* serv_args is not freed while the server can read it, except where the C *)
(* port has lost the server.                                               *)
THEOREM ReleaseIsSafe == Spec => []SafeRelease
<1>1. IInv => SafeRelease
  BY DEF IInv, ReleaseInv, SafeRelease
<1> QED
  BY <1>1, Invariance, PTL

(* Client and server, each on its own counts, never disagree on the length *)
(* of the message that is under way, however recv cuts it; and the answer  *)
(* is the message, in the C port always, in the C++ port as long as its    *)
(* server receives it in one piece.                                        *)
THEOREM MessagesAreWhole == Spec => []WholeMessages
<1>1. IInv => WholeMessages
  BY NetIOAssumption
  DEF NetIOAssumption, IInv, Numbers, AnswerInv, MessageInv, SetUpInv, Received, Idle,
      ToServer, ToClient, ExpectsNext, Expects, Measuring, SettingUp,
      WholeMessages
<1> QED
  BY <1>1, Invariance, PTL

(* A published time is that of an answer of full length, unless a thread   *)
(* is held up or the C++ server fails to read beyond its buffer.           *)
THEOREM TimesAreHonest == Spec => []HonestTimes
<1>1. IInv => HonestTimes
  BY DEF IInv, MeasuringInv, HonestTimes
<1> QED
  BY <1>1, Invariance, PTL
=============================================================================
