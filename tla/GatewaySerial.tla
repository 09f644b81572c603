----------------------------- MODULE GatewaySerial -----------------------------
(***************************************************************************)
(* The serial line between the manager and the gateway's program: a manager *)
(* that sends one request after another and waits for a confirmation or     *)
(* for its timeout (module RequestLink is that wait in full), both          *)
(* receivers byte by byte, and a line that may lose bytes.                  *)
(***************************************************************************)
EXTENDS GatewayFirmware

CONSTANTS Requests,         \* bound: the requests, as <<code, data>>
          MaxDisturbances   \* bound: the bytes the line loses and the requests
                            \* sent to a gateway at work on an earlier one

ASSUME RequestsAssumption ==
    /\ Requests \subseteq (RadioReq \cup LocalReq \cup {RESET_REQ}) \X Seq(Byte)
    /\ MaxDisturbances \in Nat

(* A byte has room for every length and for every confirmation of a code;   *)
(* each request has data and fits the gateway's buffer.                     *)
ASSUME LengthsAssumption ==
    /\ HeaderSize + 2 <= MaxByte
    /\ \A c \in RadioReq \cup LocalReq \cup {RESET_REQ} : c \in Byte => ConfOf(c) \in Byte
    /\ \A req \in Requests :
          /\ req[1] \in Byte /\ Len(req[2]) > 0
          /\ HeaderSize + Len(req[2]) <= MaxByte
          /\ HeaderSize + Len(req[2]) <= BufSize

VARIABLES
    waiting,       \* the manager is in WaitForSingleObject
    current,       \* the frame of its last request
    mrx,           \* m_smRx and m_deqRxBuffer
    disturbances   \* how many of MaxDisturbances there were

managerVars == <<waiting, current, mrx, disturbances>>
vars == <<gatewayVars, managerVars>>

Confs == {ConfOf(c) : c \in RadioReq \cup LocalReq \cup {RESET_REQ}}

Init ==
    /\ InitGateway
    /\ waiting = FALSE /\ current = <<>>
    /\ mrx = NewReceiver
    /\ disturbances = 0

Disturb == disturbances < MaxDisturbances /\ disturbances' = disturbances + 1

(* The gateway has a message to dispatch, or holds bytes it has not looked at. *)
GatewayBusy == mainPc # "loop" \/ ~rcie \/ received \/ fifo # <<>>

(* The manager sends the next request when it has its confirmation or has   *)
(* given up, whatever the gateway does at the time.                         *)
SendRequest(req) ==
    /\ ~waiting /\ reqLine = <<>> /\ ansLine = <<>>
    /\ waiting' = TRUE
    /\ current' = Frame(req[1], req[2])
    /\ reqLine' = current'
    /\ IF GatewayBusy THEN Disturb ELSE UNCHANGED disturbances
    /\ UNCHANGED <<fifo, rx, overflow, received, rcie, ansLine, mainPc, code, stackVars, mrx>>

(* OnEvent takes the bytes there are, one after another.  A complete message *)
(* with a CONF code ends the wait, whichever request it answers; the buffer *)
(* is emptied after each message.                                           *)
OnEvent ==
    /\ ansLine # <<>>
    /\ ansLine' = Tail(ansLine)
    /\ LET taken == Take(mrx, Head(ansLine))
       IN  /\ mrx' = IF taken.state = "body" THEN Settled(taken) ELSE NewReceiver
           /\ waiting' = (waiting /\ ~(taken.complete /\ taken.buf[1] \in Confs))
    /\ UNCHANGED <<serialVars, mainPc, code, stackVars, current, disturbances>>

(* Three seconds pass in which the line is idle and the gateway's program   *)
(* has done what it can: a byte takes half a millisecond, a turn of the     *)
(* main loop or the transmission of a frame some more.  Only a node, or a   *)
(* network that is not formed, can take longer.                             *)
WaitTimesOut ==
    /\ waiting
    /\ reqLine = <<>> /\ ansLine = <<>>
    /\ rcie => fifo = <<>>
    /\ mainPc = "loop" /\ ~txBusy /\ (received => net # "up")
    /\ waiting' = FALSE
    /\ UNCHANGED <<gatewayVars, current, mrx, disturbances>>

LoseByte ==
    /\ Disturb
    /\ \/ reqLine # <<>> /\ reqLine' = Tail(reqLine) /\ UNCHANGED ansLine
       \/ ansLine # <<>> /\ ansLine' = Tail(ansLine) /\ UNCHANGED reqLine
    /\ UNCHANGED <<fifo, rx, overflow, received, rcie, mainPc, code, stackVars, waiting, current,
                   mrx>>

Next == \/ GatewayStep /\ UNCHANGED managerVars
        \/ OnEvent \/ WaitTimesOut \/ LoseByte
        \/ \E req \in Requests : SendRequest(req)

Spec == Init /\ [][Next]_vars

(* The program runs, the manager keeps asking, and the line delivers.  The  *)
(* stack releases the transmit buffer and completes its own primitives; the *)
(* main loop, which tests for a free buffer at each turn, finds one, and a  *)
(* formation succeeds in the end; the manager's wait ends and it sends      *)
(* whatever answers come in between.  Nothing is assumed of the nodes.      *)
Fairness ==
    /\ WF_vars((ByteFetched \/ ByteHeld) /\ UNCHANGED managerVars)
    /\ WF_vars(rcie /\ HeldByteFetched /\ UNCHANGED managerVars)
    /\ WF_vars(MainStep /\ UNCHANGED managerVars)
    /\ SF_vars(BeginDispatch /\ UNCHANGED managerVars)
    /\ WF_vars((StackUnblocksTx \/ StackResets) /\ UNCHANGED managerVars)
    /\ SF_vars(NetworkFormed /\ UNCHANGED managerVars)
    /\ WF_vars(OnEvent)
    /\ SF_vars(WaitTimesOut)
    /\ SF_vars(\E req \in Requests : SendRequest(req))

FairSpec == Spec /\ Fairness

--------------------------------------------------------------------------------
(* Properties. *)

TypeOK ==
    /\ reqLine \in Seq(Byte) /\ ansLine \in Seq(Byte) /\ fifo \in Seq(Byte)
    /\ Len(fifo) <= FifoSize
    /\ rx \in Receiver /\ mrx \in Receiver
    /\ overflow \in BOOLEAN /\ received \in BOOLEAN /\ rcie \in BOOLEAN /\ txBusy \in BOOLEAN
    /\ mainPc \in {"loop", "dispatch", "reset", "done"} /\ code \in Byte
    /\ net \in {"down", "forming", "up", "resetting"}
    /\ asked \subseteq RadioReq
    /\ waiting \in BOOLEAN /\ current \in Seq(Byte)
    /\ disturbances \in 0 .. MaxDisturbances

(* The gateway is never deaf: the receive interrupt is off only while a     *)
(* message waits for the main loop or the main loop dispatches one, so that *)
(* it will be turned on again.                                              *)
NeverDeaf == ~rcie => received \/ mainPc # "loop"

(* Until a byte is lost or a request overtakes the gateway, both receivers  *)
(* are in step with the sender: what they hold and what is still to come    *)
(* make whole frames, a start byte inside a message notwithstanding, and    *)
(* no message outgrows a buffer.                                            *)
AnswerFrames == {Frame(c, d) : c \in Confs, d \in {<<SUCCESS>>, <<FAILURE>>}
                                     \cup {<<SUCCESS, b>> : b \in DataByte}}

ReceiversInStep ==
    disturbances = 0 =>
        /\ ~overflow
        /\ Held(rx) \o fifo \o reqLine \in {<<>>, current}
        /\ Held(mrx) \o ansLine \in {<<>>} \cup AnswerFrames

(* Until then, too, the main loop dispatches the manager's request as it    *)
(* was sent, although the buffer is the one the interrupt handler fills and *)
(* keeps the end of longer messages.                                        *)
DispatchesWhatWasSent ==
    [][\/ mainPc = "loop" /\ mainPc' = "dispatch"
       \/ asked' \ asked # {}
       => disturbances > 0 \/ Holds(rx.buf, current)]_vars

(* The request on its way, and the confirmation, by their codes. *)
Place == IF reqLine # <<>> THEN "line"
         ELSE IF received THEN "held"
         ELSE IF mainPc = "dispatch" THEN "dispatched" ELSE "none"

RequestCode == IF Place = "none" THEN <<>> ELSE <<current[3]>>
AnswerCode == IF ansLine = <<>> THEN <<>> ELSE <<(Held(mrx) \o ansLine)[3]>>

Messages == INSTANCE MessageLink WITH
    AtOnce    <- LocalReq \cup {RESET_REQ},
    ByNode    <- RadioReq,
    request   <- RequestCode,
    place     <- Place,
    owed      <- asked,
    answer    <- AnswerCode,
    disturbed <- disturbances > 0

(* Until then both receivers, the line, the UART, the interrupt and the     *)
(* dispatch make a link of whole messages, as GatewayLink has it: what is    *)
(* dispatched is what was sent, a confirmation is of a request dispatched,   *)
(* and no wait ends but by a whole confirmation or by its timeout.           *)
MessageContract == Messages!MessageSpec

(* Whatever was lost, overtaken or reset, some requests are lost and not the *)
(* link: again and again the main loop dispatches the very request that the *)
(* manager sent last.  This holds while the requests do not always contain  *)
(* the start byte in their data, and no buffer has overflowed.              *)
ServesCurrent == mainPc = "dispatch" /\ Holds(rx.buf, current)

StartByteInData == \E i \in 2 .. Len(current) : current[i] = StartByte

Recovers ==
    \/ []<>ServesCurrent
    \/ []<>(waiting /\ StartByteInData)
    \/ <>overflow

================================================================================
