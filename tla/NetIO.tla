-------------------------------- MODULE NetIO --------------------------------
(***************************************************************************)
(* The network I/O test of the C port (net_io_config.c) and of the C++     *)
(* port (net_io_config.cpp).  The test starts a server thread, connects to *)
(* it over the local network and measures rounds of Iterations exchanges:  *)
(* the client sends a message and the server returns it.  Both ends double *)
(* the size of the message after a round, each on its own count.           *)
(*                                                                         *)
(* The harness runs the test once, or again when -t names it twice.        *)
(* What outlives a run is the socket that listens on SERVER_PORT.          *)
(*                                                                         *)
(* A message is its length, in units of which DEF_NETIO_SZ is FirstSize; a *)
(* connection is the number of units under way in each direction.  Of the  *)
(* content of an answer the model keeps whether it is the message that was *)
(* received, or the bytes that follow it because the server has sent from  *)
(* further on in its buffer.  The sockets are external: data that has      *)
(* arrived is received in any number of pieces; a send to an end that has  *)
(* closed succeeds once and resets the connection, and the next one, like  *)
(* one on a socket that is not connected, raises SIGPIPE, which nobody     *)
(* handles.                                                                *)
(***************************************************************************)
EXTENDS Integers

CONSTANTS
  FirstSize,    \* DEF_NETIO_SZ in units
  Iterations,   \* new_iters
  Threshold,    \* bmtest->_threshold
  MaxRetry,     \* the constant 10 of the connect loop
  MaxSize,      \* a bound: no round below the clock accuracy beyond this size
  MaxRuns       \* a bound on the runs in one process

ASSUME NetIOAssumption ==
  /\ FirstSize \in Nat \ {0}
  /\ Iterations \in Nat \ {0}
  /\ Threshold \in Nat \ {0}
  /\ MaxRetry \in Nat
  /\ MaxSize \in Nat
  /\ MaxRuns \in Nat \ {0}

VARIABLES
  env,        \* the port, whether a thread may be held up for seconds, and
              \* whether the server's recv may return part of a message
  run,        \* the number of the run
  cpc, spc,   \* where client and server are
  tid,        \* server_tid is not zero
  stay,       \* stay_alive, or "freed" when serv_args is
  bound,      \* the run whose server's socket listens, 0 when there is none
  conn,       \* "none", "queued" (not accepted yet), "up"
  up, down,   \* units on their way to the server, to the client
  shut,       \* the ends that have closed their socket
  broken,     \* a send to a closed end has reset the connection
  size, ssize,  \* msg_size of the client and of the server
  iter, siter,  \* exchanges each has finished in its round
  got, sgot,    \* units each has of the message it is receiving
  offset,       \* how far the server's buffer has moved on from rcv_msg
  answer,       \* what the server's last answer was (history)
  tries,      \* retry of the connect loop
  count,      \* rounds that count
  short,      \* entries whose answer did not arrive whole (history)
  outcome     \* how the run ends

netVars == << bound, conn, up, down, shut, broken >>
serverVars == << spc, ssize, siter, sgot, offset, answer >>
clientVars == << cpc, tid, stay, size, iter, got, tries, count, short, outcome >>
vars == << env, run, netVars, serverVars, clientVars >>

Envs == [port : {"c", "cpp"}, slow : BOOLEAN, pieces : BOOLEAN]

InC == env.port = "c"

(* A run begins before the client starts its server.                       *)
Init ==
  /\ env \in Envs /\ run = 1 /\ bound = 0
  /\ cpc = "start" /\ spc = "none" /\ tid = FALSE /\ stay = "yes"
  /\ conn = "none" /\ up = 0 /\ down = 0 /\ shut = {} /\ broken = FALSE
  /\ size = FirstSize /\ ssize = FirstSize
  /\ iter = 0 /\ siter = 0 /\ got = 0 /\ sgot = 0
  /\ offset = 0 /\ answer = "message"
  /\ tries = 0 /\ count = 0 /\ short = 0 /\ outcome = "none"

(* A second run, when the first did not end the process.                   *)
RunAgain ==
  /\ run < MaxRuns /\ cpc = "ended" /\ spc \in {"none", "done"}
  /\ outcome \in {"published", "error"}
  /\ run' = run + 1
  /\ cpc' = "start" /\ spc' = "none" /\ tid' = FALSE /\ stay' = "yes"
  /\ conn' = "none" /\ up' = 0 /\ down' = 0 /\ shut' = {} /\ broken' = FALSE
  /\ size' = FirstSize /\ ssize' = FirstSize
  /\ iter' = 0 /\ siter' = 0 /\ got' = 0 /\ sgot' = 0
  /\ offset' = 0 /\ answer' = "message"
  /\ tries' = 0 /\ count' = 0 /\ short' = 0 /\ outcome' = "none"
  /\ UNCHANGED << env, bound >>

(* The signal ends the process, threads and sockets included.              *)
Killed ==
  /\ outcome' = "killed" /\ cpc' = "ended" /\ spc' = "done"
  /\ UNCHANGED << env, run, netVars, ssize, siter, sgot, offset, answer, tid, stay,
                  size, iter, got, tries, count, short >>

-----------------------------------------------------------------------------
(* The server: net_server_impl.                                            *)

ServerGoto(pc) ==
  /\ spc' = pc
  /\ UNCHANGED << env, run, ssize, siter, sgot, offset, answer, clientVars >>

(* Reading stay_alive after serv_args was freed gives any value.           *)
StayAlive(value) == stay \in {value, "freed"}

(* Only one socket can listen on the port.                                 *)
ServerListens ==
  /\ spc = "setup" /\ bound = 0
  /\ bound' = run
  /\ ServerGoto("accepting")
  /\ UNCHANGED << conn, up, down, shut, broken >>

(* The socket, its options, bind or listen fail.                           *)
ServerFails ==
  /\ spc = "setup"
  /\ ServerGoto("done")
  /\ UNCHANGED netVars

ServerAccepts ==
  /\ spc = "accepting" /\ StayAlive("yes")
  /\ bound = run /\ conn = "queued"
  /\ conn' = "up"
  /\ ServerGoto("round")
  /\ UNCHANGED << bound, up, down, shut, broken >>

(* accept times out every ten seconds and stay_alive is read again.        *)
ServerStopsAccepting ==
  /\ spc = "accepting" /\ StayAlive("no")
  /\ ServerGoto("round")
  /\ UNCHANGED netVars

(* Both ports test stay_alive before a round.                              *)
ServerBeginsRound ==
  /\ spc = "round" /\ StayAlive("yes")
  /\ spc' = "recv" /\ siter' = 0 /\ sgot' = 0 /\ offset' = 0
  /\ UNCHANGED << env, run, netVars, ssize, answer, clientVars >>

(* Leaving: the connection is closed, which resets it when data has not    *)
(* been read, and the listening socket too except where the C port         *)
(* forgets it.                                                             *)
ServerLeaves(forgets) ==
  /\ shut' = shut \cup {"server"}
  /\ broken' = (broken \/ up > 0)
  /\ bound' = IF forgets \/ bound # run THEN bound ELSE 0
  /\ ServerGoto("done")
  /\ UNCHANGED << conn, up, down >>

ServerEnds ==
  /\ spc = "round" /\ StayAlive("no")
  /\ ServerLeaves(FALSE)

(* Part of the message arrives, where recv may return a part, or what was  *)
(* missing of it.  Both ports move buffer on after a part only.            *)
ServerReceives ==
  /\ spc = "recv" /\ conn = "up"
  /\ \E k \in 1 .. up :
       /\ sgot + k = ssize \/ (env.pieces /\ sgot + k < ssize)
       /\ up' = up - k
       /\ sgot' = sgot + k
       /\ offset' = IF sgot + k < ssize THEN offset + k ELSE offset
       /\ spc' = IF sgot + k < ssize THEN "recv" ELSE "send"
  /\ UNCHANGED << env, run, bound, conn, down, shut, broken, ssize, siter, answer,
                  clientVars >>

(* The client has closed its end: the C port leaves, the C++ port sends an *)
(* answer all the same.                                                    *)
ServerSeesEnd ==
  /\ spc = "recv" /\ conn = "up" /\ up = 0 /\ "client" \in shut
  /\ IF InC THEN ServerLeaves(TRUE)
     ELSE ServerGoto("send") /\ UNCHANGED netVars

\* A mutant: ServerRecvFails on a socket that does not wait.
ServerRecvFailsAtOnce ==
  /\ spc = "recv"
  /\ broken \/ conn # "up" \/ up = 0
  /\ ServerLeaves(InC)

(* Nothing comes for ten seconds, the connection is broken, or there never *)
(* was one.                                                                *)
ServerRecvFails ==
  /\ spc = "recv"
  /\ \/ broken \/ conn # "up"
     \/ env.slow /\ up = 0
  /\ ServerLeaves(InC)

\* A mutant: SendFrom of a server that sends what buffer points to.
SendFromBuffer == offset

(* Where the answer is sent from: the C port sends rcv_msg, the C++ port   *)
(* sends msgSize bytes from buffer.                                        *)
SendFrom == IF InC THEN 0 ELSE offset

ServerSends ==
  /\ spc = "send" /\ ~broken
  /\ IF "client" \in shut
       THEN broken' = TRUE /\ UNCHANGED down
       ELSE down' = down + ssize /\ UNCHANGED broken
  /\ answer' = IF SendFrom = 0 THEN "message" ELSE "shifted"
  /\ sgot' = 0 /\ offset' = 0 /\ spc' = "next"
  /\ UNCHANGED << env, run, bound, conn, up, shut, ssize, siter, clientVars >>

(* What lies beyond the end of rcv_msg cannot all be read: send fails, or  *)
(* sends less, and the server leaves.                                      *)
ServerReadsBeyond ==
  /\ spc = "send" /\ ~broken /\ SendFrom > 0
  /\ \E k \in 0 .. ssize - 1 :
       IF "client" \in shut THEN UNCHANGED down ELSE down' = down + k
  /\ answer' = "cut"
  /\ shut' = shut \cup {"server"}
  /\ broken' = (broken \/ up > 0)
  /\ bound' = IF InC \/ bound # run THEN bound ELSE 0
  /\ spc' = "done"
  /\ UNCHANGED << env, run, conn, up, ssize, siter, sgot, offset, clientVars >>

\* A mutant: ServerNext that makes one exchange more.
ServerNextOneMore ==
  /\ spc = "next"
  /\ IF siter < Iterations
       THEN siter' = siter + 1 /\ spc' = "recv" /\ UNCHANGED ssize
       ELSE spc' = "round" /\ ssize' = 2 * ssize /\ UNCHANGED siter
  /\ UNCHANGED << env, run, netVars, sgot, offset, answer, clientVars >>

(* The loop over the exchanges of a round; the C++ port also leaves it     *)
(* when stayAlive is false.                                                *)
ServerNext ==
  /\ spc = "next"
  /\ \/ /\ siter + 1 < Iterations /\ (InC \/ StayAlive("yes"))
        /\ siter' = siter + 1 /\ spc' = "recv" /\ UNCHANGED ssize
     \/ /\ siter + 1 >= Iterations \/ (~InC /\ StayAlive("no"))
        /\ spc' = "round" /\ ssize' = 2 * ssize /\ UNCHANGED siter
  /\ UNCHANGED << env, run, netVars, sgot, offset, answer, clientVars >>

ServerSendFails ==
  /\ spc = "send" /\ broken
  /\ \/ ServerLeaves(InC)
     \/ Killed

-----------------------------------------------------------------------------
(* The client: net_io_config and net_io_test.                              *)

ClientGoto(pc) ==
  /\ cpc' = pc
  /\ UNCHANGED << env, run, serverVars, tid, stay, size, iter, got, tries, count, short >>

(* Every early return of the client passes through its cleanup.            *)
GiveUp(result) == ClientGoto("cleanup") /\ outcome' = result

(* The attribute or the thread cannot be made.  The C port returns, at     *)
(* once or through cleanup; the C++ port does not notice, as it compares   *)
(* the error number with -1, and goes on without a server.                 *)
ServerNotStarted ==
  /\ cpc = "start"
  /\ \/ InC /\ ClientGoto("ended") /\ outcome' = "error"
     \/ InC /\ GiveUp("error")
     \/ ~InC /\ ClientGoto("address") /\ UNCHANGED outcome
  /\ UNCHANGED netVars

StartServer ==
  /\ cpc = "start"
  /\ cpc' = "address" /\ tid' = TRUE /\ spc' = "setup"
  /\ UNCHANGED << env, run, netVars, ssize, siter, sgot, offset, answer, stay, size,
                  iter, got, tries, count, short, outcome >>

LocalAddress ==
  /\ cpc = "address"
  /\ ClientGoto("connect")
  /\ UNCHANGED << outcome, netVars >>

(* The C port clears server_tid here, so its cleanup neither stops nor     *)
(* joins the server.                                                       *)
NoLocalAddress ==
  /\ cpc = "address"
  /\ cpc' = "cleanup" /\ outcome' = "error"
  /\ tid' = IF InC THEN FALSE ELSE tid
  /\ UNCHANGED << env, run, netVars, serverVars, stay, size, iter, got, tries, count, short >>

NoClientSocket ==
  /\ cpc = "connect" /\ tries = 0
  /\ GiveUp("error")
  /\ UNCHANGED netVars

(* After the loop the C++ port aborts, when it had to try as often as it   *)
(* may, connected or not; the C port goes on.                              *)
AfterConnect ==
  IF InC \/ tries < MaxRetry THEN ClientGoto("send") /\ UNCHANGED outcome ELSE GiveUp("aborted")

Connect ==
  /\ cpc = "connect" /\ bound # 0
  /\ conn' = "queued"
  /\ AfterConnect
  /\ UNCHANGED << bound, up, down, shut, broken >>

(* The server has two seconds before the first attempt, which is enough    *)
(* unless it is held up.                                                   *)
ConnectRefused ==
  /\ cpc = "connect" /\ bound = 0
  /\ env.slow \/ spc # "setup"
  /\ IF tries < MaxRetry \/ (InC /\ tries = MaxRetry)
       THEN /\ tries' = tries + 1
            /\ UNCHANGED << env, run, serverVars, cpc, tid, stay, size, iter, got,
                            count, short, outcome >>
       ELSE AfterConnect
  /\ UNCHANGED netVars

(* The C port notices a clock that fails before the send.                  *)
ClockFailsFirst ==
  /\ InC /\ cpc = "send"
  /\ GiveUp("error")
  /\ UNCHANGED netVars

ClientSends ==
  /\ cpc = "send" /\ conn # "none" /\ ~broken
  /\ IF "server" \in shut
       THEN broken' = TRUE /\ UNCHANGED up
       ELSE up' = up + size /\ UNCHANGED broken
  /\ cpc' = "recv" /\ got' = 0
  /\ UNCHANGED << env, run, bound, conn, down, shut, serverVars, tid, stay, size, iter,
                  tries, count, short, outcome >>

ClientSendFails ==
  /\ cpc = "send" /\ (conn = "none" \/ broken)
  /\ \/ Killed
     \/ conn # "none" /\ GiveUp("error") /\ UNCHANGED netVars

(* After recv: another entry, where whole says whether the answer has      *)
(* arrived whole, or the clock of the C port fails.                        *)
AfterRecv(whole) ==
  \/ /\ short' = IF whole THEN short ELSE short + 1
     /\ iter' = iter + 1
     /\ cpc' = IF iter + 1 = Iterations THEN "judge" ELSE "send"
     /\ UNCHANGED outcome
  \/ /\ InC /\ cpc' = "cleanup" /\ outcome' = "error"
     /\ UNCHANGED << short, iter >>

ClientReceives ==
  /\ cpc = "recv" /\ down > 0
  /\ \E k \in 1 .. down :
       /\ got + k <= size
       /\ down' = down - k
       /\ got' = got + k
       /\ IF got' = size THEN AfterRecv(TRUE) ELSE UNCHANGED << short, iter, cpc, outcome >>
  /\ UNCHANGED << env, run, bound, conn, up, shut, broken, serverVars, tid, stay, size,
                  tries, count >>

(* recv returns 0 when the server has closed: no port takes it for an      *)
(* error, the time is recorded.                                            *)
ClientSeesEnd ==
  /\ cpc = "recv" /\ down = 0 /\ "server" \in shut
  /\ AfterRecv(FALSE)
  /\ UNCHANGED << env, run, netVars, serverVars, tid, stay, size, got, tries, count >>

(* Nobody is going to answer: the connection was never accepted, and the   *)
(* server that would accept it is gone or was never there.                 *)
Unanswered == conn = "queued" /\ (bound # run \/ spc = "done")

(* A reset, or ten seconds without data.                                   *)
ClientRecvFails ==
  /\ cpc = "recv"
  /\ broken \/ (down = 0 /\ (env.slow \/ Unanswered))
  /\ GiveUp("error")
  /\ UNCHANGED netVars

(* The round is judged: not above the clock accuracy, within the limits,   *)
(* or not.  A round that is repeated has bigger messages.                  *)
NextRound ==
  /\ cpc' = "send" /\ size' = 2 * size /\ iter' = 0 /\ short' = 0
  /\ UNCHANGED outcome

Publish == cpc' = "cleanup" /\ outcome' = "published" /\ UNCHANGED << size, iter, short >>

Judge ==
  /\ cpc = "judge"
  /\ \/ size < MaxSize /\ NextRound /\ UNCHANGED count
     \/ Publish /\ UNCHANGED count
     \/ /\ count' = count + 1
        /\ IF count' = Threshold THEN Publish ELSE NextRound
  /\ UNCHANGED << env, run, netVars, serverVars, tid, stay, got, tries >>

-----------------------------------------------------------------------------
\* A mutant: Tell that leaves stay_alive set.
TellNobody ==
  /\ cpc = IF InC THEN "cleanup" ELSE "closed"
  /\ cpc' = IF InC THEN "told" ELSE "join"
  /\ UNCHANGED << env, run, netVars, serverVars, tid, stay, size, iter, got, tries, count,
                  short, outcome >>

(* cleanup: the C port tells the server first and closes then, the C++     *)
(* port closes first.                                                      *)
Tell ==
  /\ cpc = IF InC THEN "cleanup" ELSE "closed"
  /\ IF tid THEN stay' = "no" ELSE UNCHANGED stay
  /\ cpc' = IF InC THEN "told" ELSE "join"
  /\ UNCHANGED << env, run, netVars, serverVars, tid, size, iter, got, tries, count,
                  short, outcome >>

Close ==
  /\ cpc = IF InC THEN "told" ELSE "cleanup"
  /\ shut' = IF tid \/ ~InC THEN shut \cup {"client"} ELSE shut
  /\ broken' = (broken \/ ("client" \in shut' /\ down > 0))
  /\ ClientGoto(IF InC THEN "join" ELSE "closed")
  /\ UNCHANGED << bound, conn, up, down, outcome >>

\* A mutant: Join that does not wait.
JoinNobody ==
  /\ cpc = "join"
  /\ ClientGoto("free")
  /\ UNCHANGED << outcome, netVars >>

Join ==
  /\ cpc = "join"
  /\ tid => spc = "done"
  /\ ClientGoto("free")
  /\ UNCHANGED << outcome, netVars >>

Free ==
  /\ cpc = "free"
  /\ stay' = "freed" /\ cpc' = "ended"
  /\ UNCHANGED << env, run, netVars, serverVars, tid, size, iter, got, tries, count,
                  short, outcome >>

-----------------------------------------------------------------------------
Server ==
  \/ ServerListens \/ ServerFails \/ ServerAccepts \/ ServerStopsAccepting
  \/ ServerBeginsRound \/ ServerEnds \/ ServerReceives \/ ServerSeesEnd
  \/ ServerRecvFails \/ ServerSends \/ ServerReadsBeyond \/ ServerSendFails
  \/ ServerNext

SetUp ==
  \/ StartServer \/ ServerNotStarted \/ LocalAddress \/ NoLocalAddress
  \/ NoClientSocket \/ Connect \/ ConnectRefused

Exchange ==
  \/ ClockFailsFirst \/ ClientSends \/ ClientSendFails \/ ClientReceives
  \/ ClientSeesEnd \/ ClientRecvFails \/ Judge

CleanUp == Tell \/ Close \/ Join \/ Free

Client == SetUp \/ Exchange \/ CleanUp

Next == RunAgain \/ Client \/ Server

Spec == Init /\ [][Next]_vars

(* Both threads run at HIGH_PRIO_VAL and block when they wait, with a      *)
(* limit of ten seconds.                                                   *)
FairSpec == Spec /\ WF_vars(Client) /\ WF_vars(Server)

-----------------------------------------------------------------------------
ClientPC == {"start", "address", "connect", "send", "recv", "judge", "cleanup",
             "told", "closed", "join", "free", "ended"}
ServerPC == {"none", "setup", "accepting", "round", "recv", "send", "next", "done"}

TypeOK ==
  /\ env \in Envs
  /\ run \in 1 .. MaxRuns
  /\ cpc \in ClientPC /\ spc \in ServerPC
  /\ tid \in BOOLEAN /\ stay \in {"yes", "no", "freed"}
  /\ bound \in 0 .. run /\ conn \in {"none", "queued", "up"}
  /\ up \in Nat /\ down \in Nat
  /\ shut \in SUBSET {"client", "server"} /\ broken \in BOOLEAN
  /\ size \in Nat \ {0} /\ ssize \in Nat \ {0}
  /\ iter \in 0 .. Iterations /\ siter \in 0 .. Iterations - 1
  /\ got \in 0 .. size /\ sgot \in 0 .. ssize /\ offset \in 0 .. sgot
  /\ answer \in {"message", "shifted", "cut"}
  /\ tries \in 0 .. MaxRetry + 1 /\ count \in 0 .. Threshold
  /\ short \in 0 .. Iterations
  /\ outcome \in {"none", "published", "error", "aborted", "killed"}

(* Client and server keep their own counts of the exchanges and of the     *)
(* size, and recv may return part of a message.  As long as nobody has     *)
(* closed, a message is in one direction at a time, no unit is lost or     *)
(* left over, and for each message of the client the server sends one of   *)
(* the same length.  That it is the same message is promised of the C port *)
(* however recv cuts it, and of the C++ port only where its server's recv  *)
(* returns the message in one piece: after a part, it answers with bytes   *)
(* from further on in its buffer.                                          *)
WholeMessages ==
  conn # "none" /\ shut = {} =>
    /\ cpc \in {"send", "judge"} => up = 0 /\ down = 0 /\ sgot = 0
    /\ cpc = "recv" =>
         \/ up + sgot = size /\ down + got = 0
         \/ /\ up + sgot = 0 /\ down + got = size
            /\ InC \/ ~env.pieces => answer = "message"
    /\ spc = "send" => ssize = size /\ siter = iter

(* "Keep server thread alive with this stay_alive argument variable":      *)
(* serv_args is freed when the server cannot read it any more, unless the  *)
(* C port has lost the server for want of a local address.                 *)
SafeRelease == stay = "freed" => spc \in {"none", "done"} \/ (InC /\ ~tid)

(* Every published time is that of an answer that arrived in full length,  *)
(* unless a thread was held up until the other gave up, or the C++ server  *)
(* failed to read beyond its buffer.                                       *)
HonestTimes == outcome = "published" /\ ~env.slow /\ answer # "cut" => short = 0

(* Every run ends: no wait of the client, of the server or of cleanup is   *)
(* for ever.                                                               *)
RunEnds == cpc = "start" ~> cpc = "ended"
-----------------------------------------------------------------------------
(* The inductive invariant behind the three safety properties.             *)

SettingUp == cpc \in {"start", "address", "connect"}
Measuring == SettingUp \/ cpc \in {"send", "recv", "judge"}
Serving == spc \in {"round", "recv", "send", "next"}

Places ==
  /\ env \in Envs /\ cpc \in ClientPC /\ spc \in ServerPC
  /\ tid \in BOOLEAN /\ stay \in {"yes", "no", "freed"}
  /\ conn \in {"none", "queued", "up"}
  /\ shut \subseteq {"client", "server"} /\ broken \in BOOLEAN
  /\ outcome \in {"none", "published", "error", "aborted", "killed"}

Numbers ==
  /\ run \in 1 .. MaxRuns /\ bound \in 0 .. run
  /\ up \in Nat /\ down \in Nat
  /\ size \in Nat \ {0} /\ ssize \in Nat \ {0}
  /\ iter \in 0 .. Iterations /\ siter \in 0 .. Iterations - 1
  /\ got \in 0 .. size /\ sgot \in 0 .. ssize
  /\ tries \in 0 .. MaxRetry + 1 /\ count \in 0 .. Threshold
  /\ short \in 0 .. iter
  /\ cpc \in {"send", "recv"} => iter < Iterations
  /\ Measuring => count < Threshold

(* The server that cleanup joins has ended, and only the C port forgets    *)
(* that it has a server.                                                   *)
ReleaseInv ==
  /\ stay = "freed" => cpc = "ended"
  /\ cpc = "start" => spc = "none" /\ ~tid
  /\ tid /\ cpc \in {"free", "ended"} => spc = "done"
  /\ ~tid /\ ~InC => spc \in {"none", "done"}

(* Only a part that recv returned moves the C++ server's answer on in its  *)
(* buffer, and the server that cannot read so far has ended.               *)
AnswerInv ==
  /\ offset \in 0 .. sgot /\ answer \in {"message", "shifted", "cut"}
  /\ ~env.pieces => offset = 0
  /\ InC \/ ~env.pieces => answer = "message"
  /\ answer = "cut" => spc = "done"

(* Until the client leaves its loop nobody asks the server to stop, and    *)
(* only a thread that was held up, or a server that cannot read its answer *)
(* to the end, makes one close before the other.  The C++ port closes      *)
(* before it tells the server.                                             *)
MeasuringInv ==
  /\ Measuring =>
       /\ stay = "yes" /\ outcome = "none" /\ "client" \notin shut
       /\ Serving => conn = "up"
       /\ ~env.slow /\ answer # "cut" => shut = {} /\ ~broken /\ short = 0
  /\ ~InC /\ (stay # "yes" \/ cpc \in {"closed", "join", "free"}) => "client" \in shut
  /\ outcome = "published" /\ ~env.slow /\ answer # "cut" => short = 0

(* Before the connection both ends are at the first message.               *)
SetUpInv ==
  SettingUp =>
    /\ conn = "none" /\ up = 0 /\ down = 0 /\ got = 0 /\ sgot = 0
    /\ size = FirstSize /\ ssize = FirstSize /\ iter = 0 /\ siter = 0

(* The server is, or is going to be, where it receives the message number  *)
(* it of size sz.                                                          *)
Expects(it, sz) ==
  /\ spc \in {"none", "setup", "accepting"} => it = 0 /\ ssize = sz /\ siter = 0
  /\ spc = "round" => it = 0 /\ ssize = sz
  /\ spc \in {"recv", "send"} => it = siter /\ ssize = sz
  /\ spc = "next" =>
       \/ it = siter + 1 /\ it < Iterations /\ ssize = sz
       \/ it = 0 /\ siter + 1 = Iterations /\ 2 * ssize = sz

ExpectsNext ==
  /\ iter + 1 < Iterations => Expects(iter + 1, size)
  /\ iter + 1 = Iterations => Expects(0, 2 * size)

Received ==
  /\ spc \in {"none", "setup", "accepting", "round", "next"} => sgot = 0
  /\ spc = "recv" => sgot < ssize
  /\ spc = "send" => sgot = ssize

Idle == up = 0 /\ down = 0 /\ sgot = 0
ToServer == up + sgot = size /\ down + got = 0 /\ Expects(iter, size)
ToClient == up + sgot = 0 /\ down + got = size /\ ExpectsNext

MessageInv ==
  /\ shut = {} => Received
  /\ conn # "none" /\ shut = {} =>
       /\ cpc = "send" => Idle /\ Expects(iter, size)
       /\ cpc = "recv" => ToServer \/ ToClient
       /\ cpc = "judge" => Idle /\ Expects(0, 2 * size)
       /\ ~Measuring /\ spc # "done" => ToServer \/ up + sgot = 0

IInv ==
  /\ Places /\ Numbers /\ AnswerInv
  /\ ReleaseInv /\ MeasuringInv /\ SetUpInv /\ MessageInv

=============================================================================
