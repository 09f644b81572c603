---------------------------- MODULE GatewayFirmware ----------------------------
(***************************************************************************)
(* The coordinator's program, zib_network/ZiBGateway/ZiBGateway.c.          *)
(*                                                                         *)
(* An interrupt handler assembles the manager's bytes in one buffer of      *)
(* static memory; the main loop calls the ZigBee stack and, when the stack  *)
(* has nothing for it, dispatches the message from the same buffer.  The    *)
(* receive interrupt is off (RCIE) from the last byte of a message to the   *)
(* end of its dispatch, but the handler looks for a byte whenever any       *)
(* interrupt calls it, the radio's or the timer's too.                      *)
(*                                                                         *)
(* The stack is modelled by what the program sees of it.                    *)
(***************************************************************************)
EXTENDS SerialFrame, FiniteSets

CONSTANTS DataByte,    \* bound: the data bytes of answers from the radio
          BufSize,     \* bytes of g_byteMsgBuffer
          FifoSize     \* bytes the UART holds before it drops one

ASSUME GatewayAssumption ==
    /\ DataByte \subseteq Byte
    /\ BufSize \in Nat \ {0} /\ FifoSize \in Nat \ {0}

RESET_REQ == 0
PAN_ID_REQ == 4
NODE_LIST_REQ == 6
EP_LIST_REQ == 8
CLUSTER_LIST_REQ == 10
GET_ATTRIBUTE_VALUE_REQ == 12

(* Answered from memory, and answered by a node. *)
LocalReq == {PAN_ID_REQ, NODE_LIST_REQ}
RadioReq == {EP_LIST_REQ, CLUSTER_LIST_REQ, GET_ATTRIBUTE_VALUE_REQ}
ConfOf(req) == req + 1
SUCCESS == 0
FAILURE == 1

VARIABLES
    reqLine,     \* bytes on their way from the manager
    ansLine,     \* bytes on their way to the manager
    fifo,        \* the UART's receive register and its buffer
    rx,          \* g_smRx, g_iMsgIndex and g_byteMsgBuffer
    overflow,    \* a byte was stored behind the end of the buffer
    received,    \* bSerialMsgReceived
    rcie,        \* RCIE
    mainPc,      \* where the main loop is
    code,        \* the code it dispatches
    net,         \* the stack: the network, as the main loop sees it
    txBusy,      \* bTxFIFOInUse, ~ZigBeeReady()
    asked        \* radio requests under way, with their data

serialVars == <<reqLine, fifo, rx, overflow, received, rcie>>
stackVars == <<net, txBusy, asked>>
gatewayVars == <<serialVars, ansLine, mainPc, code, stackVars>>

InitGateway ==
    /\ reqLine = <<>> /\ ansLine = <<>> /\ fifo = <<>>
    /\ rx = NewReceiver /\ overflow = FALSE /\ received = FALSE /\ rcie = TRUE
    /\ mainPc = "loop" /\ code = RESET_REQ
    /\ net = "down" /\ txBusy = FALSE /\ asked = {}

--------------------------------------------------------------------------------
(* The UART and the interrupt handler. *)

(* Seeded fault: the interrupt is turned off for a dropped message too. *)
TakeByteOffOnDiscard(byte) ==
    /\ rx' = Take(rx, byte)
    /\ received' = (received \/ rx'.complete)
    /\ rcie' = (rcie /\ ~(rx.state = "body" /\ rx'.state = "start"))
    /\ UNCHANGED overflow

(* UserInterruptHandler's serial part. *)
TakeByte(byte) ==
    LET taken == Take(rx, byte)
    IN  /\ received' = (received \/ taken.complete)
        /\ rcie' = (rcie /\ ~taken.complete)
        /\ overflow' = (rx.state = "body" /\ rx.index >= BufSize)
        /\ rx' = IF received' \/ mainPc # "loop" THEN [taken EXCEPT !.complete = FALSE]
                 ELSE Settled(taken)

(* With the receive interrupt on, the handler fetches each byte before the  *)
(* next one is complete: a byte takes half a millisecond.                   *)
ByteFetched ==
    /\ reqLine # <<>> /\ rcie /\ fifo = <<>>
    /\ reqLine' = Tail(reqLine)
    /\ TakeByte(Head(reqLine))
    /\ UNCHANGED <<fifo, ansLine, mainPc, code, stackVars>>

(* Seeded fault: nothing limits what the UART keeps. *)
ByteHeldWithoutLimit ==
    /\ reqLine # <<>> /\ ~rcie
    /\ reqLine' = Tail(reqLine)
    /\ fifo' = Append(fifo, Head(reqLine))
    /\ UNCHANGED <<rx, overflow, received, rcie, ansLine, mainPc, code, stackVars>>

(* With it off the UART keeps FifoSize bytes and drops the others. *)
ByteHeld ==
    /\ reqLine # <<>> /\ ~rcie
    /\ reqLine' = Tail(reqLine)
    /\ fifo' = IF Len(fifo) < FifoSize THEN Append(fifo, Head(reqLine)) ELSE fifo
    /\ UNCHANGED <<rx, overflow, received, rcie, ansLine, mainPc, code, stackVars>>

(* The interrupt is turned on, or another interrupt calls the handler.      *)
HeldByteFetched ==
    /\ fifo # <<>>
    /\ fifo' = Tail(fifo)
    /\ TakeByte(Head(fifo))
    /\ UNCHANGED <<reqLine, ansLine, mainPc, code, stackVars>>

--------------------------------------------------------------------------------
(* The main loop's dispatch of a serial message. *)

Write(frame) == ansLine' = ansLine \o frame

BeginDispatch ==
    /\ mainPc = "loop" /\ net = "up" /\ ~txBusy /\ received
    /\ received' = FALSE
    /\ code' = rx.buf[1]
    /\ mainPc' = "dispatch"
    /\ UNCHANGED <<reqLine, ansLine, fifo, rx, overflow, rcie, stackVars>>

(* RESET_REQ is confirmed first and executed then. *)
ResetRequest ==
    /\ mainPc = "dispatch" /\ code = RESET_REQ
    /\ Write(Frame(ConfOf(RESET_REQ), <<SUCCESS>>))
    /\ mainPc' = "reset"
    /\ UNCHANGED <<serialVars, code, stackVars>>

(* Seeded fault: RESET_REQ leaves the dispatch at once. *)
InitInternalVariablesLeaves ==
    /\ mainPc = "reset"
    /\ received' = FALSE
    /\ rx' = Restarted(rx)
    /\ mainPc' = "loop" /\ net' = "resetting"
    /\ UNCHANGED <<reqLine, fifo, overflow, rcie, ansLine, code, txBusy, asked>>

InitInternalVariables ==
    /\ mainPc = "reset"
    /\ received' = FALSE
    /\ rx' = Restarted(rx)
    /\ mainPc' = "done" /\ net' = "resetting"
    /\ UNCHANGED <<reqLine, fifo, overflow, rcie, ansLine, code, txBusy, asked>>

LocalRequest ==
    /\ mainPc = "dispatch" /\ code \in LocalReq
    /\ Write(Frame(ConfOf(code), <<SUCCESS>>))
    /\ mainPc' = "done"
    /\ UNCHANGED <<serialVars, code, stackVars>>

(* The request's data go from the message buffer to the transmit buffer,    *)
(* which is blocked for other frames.                                       *)
RadioRequest ==
    /\ mainPc = "dispatch" /\ code \in RadioReq
    /\ asked' = asked \cup {code}
    /\ txBusy' = TRUE
    /\ mainPc' = "done"
    /\ UNCHANGED <<serialVars, ansLine, code, net>>

UnknownRequest ==
    /\ mainPc = "dispatch" /\ code \notin LocalReq \cup RadioReq \cup {RESET_REQ}
    /\ mainPc' = "done"
    /\ UNCHANGED <<serialVars, ansLine, code, stackVars>>

(* The end of the dispatch turns the receive interrupt on. *)
EndDispatch ==
    /\ mainPc = "done"
    /\ rcie' = TRUE
    /\ rx' = IF received THEN rx ELSE Settled(rx)
    /\ mainPc' = "loop" /\ code' = RESET_REQ
    /\ UNCHANGED <<reqLine, fifo, overflow, received, ansLine, stackVars>>

--------------------------------------------------------------------------------
(* The stack's primitives and the main loop's answer to each. *)

(* APSDE_DATA_indication of a node's answer: ACTIVE_EP_rsp, SIMPLE_DESC_rsp  *)
(* or a KVP GET response.  It may have been delivered before, and may be    *)
(* delivered again.  A node that cannot answer a descriptor request makes a *)
(* confirmation without data; a KVP error makes none.                       *)
NodeAnswers(req) ==
    /\ mainPc = "loop" /\ net = "up" /\ req \in asked
    /\ asked' \in {asked, asked \ {req}}
    /\ \/ \E d \in DataByte : Write(Frame(ConfOf(req), <<SUCCESS, d>>))
       \/ req # GET_ATTRIBUTE_VALUE_REQ /\ Write(Frame(ConfOf(req), <<FAILURE>>))
    /\ UNCHANGED <<serialVars, mainPc, code, net, txBusy>>

(* The request or its answer is lost, or the answer is one the main loop    *)
(* has no confirmation for; a failed APSDE_DATA_confirm is only traced.     *)
NodeDoesNotAnswer(req) ==
    /\ mainPc = "loop" /\ req \in asked
    /\ asked' = asked \ {req}
    /\ UNCHANGED <<serialVars, ansLine, mainPc, code, net, txBusy>>

(* The frame is sent, or given up.  Frames of the stack's own are not told   *)
(* apart from the request's.                                                *)
StackUnblocksTx ==
    /\ mainPc = "loop" /\ txBusy
    /\ txBusy' = FALSE
    /\ UNCHANGED <<serialVars, ansLine, mainPc, code, net, asked>>

(* NLME_RESET_request and its confirmation; the status flags are cleared.   *)
StackResets ==
    /\ mainPc = "loop" /\ net = "resetting"
    /\ net' = "down" /\ txBusy' = FALSE /\ asked' = {}
    /\ UNCHANGED <<serialVars, ansLine, mainPc, code>>

FormNetwork ==
    /\ mainPc = "loop" /\ net = "down"
    /\ net' = "forming"
    /\ UNCHANGED <<serialVars, ansLine, mainPc, code, txBusy, asked>>

(* NLME_NETWORK_FORMATION_confirm.  After a success joining is permitted;   *)
(* whether it is only shows in the trace.                                   *)
NetworkFormed ==
    /\ mainPc = "loop" /\ net = "forming"
    /\ net' = "up"
    /\ UNCHANGED <<serialVars, ansLine, mainPc, code, txBusy, asked>>

FormationFailed ==
    /\ mainPc = "loop" /\ net = "forming"
    /\ net' = "down"
    /\ UNCHANGED <<serialVars, ansLine, mainPc, code, txBusy, asked>>

--------------------------------------------------------------------------------

MainStep == \/ BeginDispatch \/ ResetRequest \/ InitInternalVariables
            \/ LocalRequest \/ RadioRequest \/ UnknownRequest \/ EndDispatch
            \/ FormNetwork

StackStep == \/ \E req \in RadioReq : NodeAnswers(req) \/ NodeDoesNotAnswer(req)
             \/ StackUnblocksTx \/ StackResets
             \/ NetworkFormed \/ FormationFailed

(* The manager's listener takes the bytes of an answer while they come, so  *)
(* that the gateway goes on when they are gone; an overflow may have        *)
(* overwritten any variable, and nothing is claimed of what follows.        *)
GatewayStep == /\ ~overflow /\ ansLine = <<>>
               /\ ByteFetched \/ ByteHeld \/ HeldByteFetched \/ MainStep \/ StackStep

================================================================================
