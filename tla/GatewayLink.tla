------------------------------ MODULE GatewayLink ------------------------------
(***************************************************************************)
(* The manager's side of the serial link to the ZigBee gateway:            *)
(* zib_manager/ZiBGatewayComm.cpp, class IZiBGatewayComm, and the listener *)
(* and the error field it inherits from serial/Serial.cpp and SerialEx.cpp.*)
(*                                                                         *)
(* Three threads of the manager share one object:                          *)
(*   - the main thread issues synchronous requests (PanIdReq ...           *)
(*     AttributeValueReq) and finally destroys the object,                 *)
(*   - the serial listener (CSerialEx::ThreadProc) waits for the port's    *)
(*     events; its OnEvent puts every complete message in m_deqInMsgStack  *)
(*     and sets m_hNewInMsgEvent,                                          *)
(*   - ThreadProcessInMsg takes the messages out, runs their handlers and  *)
(*     sets m_hConfEvent after the handler of a CONF.                      *)
(* The three events are auto-reset.  m_lLastError is one unprotected field: *)
(* the main thread keeps the outcome of its request there, the listener    *)
(* that of its own calls.                                                  *)
(*                                                                         *)
(* The gateway misses a request or answers it, at once from its memory or  *)
(* after a radio response; radio answers come late, twice, or never, and   *)
(* overtake one another.                                                   *)
(*                                                                         *)
(* The handlers' data is module Discovery's business; here a CONF is known *)
(* by the number of the request it answers.                                *)
(***************************************************************************)
EXTENDS Naturals, Sequences

CONSTANTS MaxReq,    \* bound: the requests the main thread issues
          MaxExtra,  \* bound: the gateway's indications and repeated answers
          MaxFail    \* bound: the calls of the serial port that fail

ASSUME BoundsAssumption ==
    MaxReq \in Nat /\ MaxExtra \in Nat /\ MaxFail \in Nat

VARIABLES
    mainPc,      \* where the main thread is in a request or in the destructor
    req,         \* number of the last request started
    result,      \* that request: the CONF that ended its wait, or 0, and what
                 \* it returned
    lastError,   \* m_lLastError
    overwritten, \* history: the listener changed m_lLastError since this
                 \* request's own last store to it
    confEvent,   \* m_hConfEvent
    owed,        \* requests the gateway has received and not answered
    local,       \* requests it answers from its memory, until that is handled
    wire,        \* messages on their way from the gateway to the manager
    lisPc,       \* the listener thread
    inStack,     \* m_deqInMsgStack
    newInMsg,    \* m_hNewInMsgEvent
    stopEvent,   \* m_hStopEvent
    procPc,      \* ThreadProcessInMsg
    procMsg,     \* deqMsg, the message ThreadProcessInMsg has taken
    resetEvent,  \* CZiBManager::m_hResetEvent, set by the RESET_IND handler
    budget,      \* extra messages and failures still allowed
    signal,      \* history: the CONF that set m_hConfEvent, and the request
                 \* that was current then
    stray,       \* history: some answer came, or may come, after its request
                 \* returned, or came twice
    handled      \* history: requests whose CONF handler has run

requestVars == <<req, result>>
errorVars == <<lastError, overwritten>>
gatewayVars == <<owed, local, wire>>
queueVars == <<inStack, newInMsg>>
procVars == <<procPc, procMsg, handled, resetEvent>>
signalVars == <<confEvent, signal>>
vars == <<mainPc, requestVars, errorVars, gatewayVars, budget, lisPc, queueVars, stopEvent,
          procVars, signalVars, stray>>

--------------------------------------------------------------------------------

ReqId == 1 .. MaxReq

(* A message is a CONF of some request, or an indication: RESET_IND, or    *)
(* IND for GATEWAY_DEBUG_IND and every code ThreadProcessInMsg ignores.    *)
Conf(r) == [code |-> "CONF", id |-> r]
Inds == {[code |-> "RESET_IND", id |-> 0], [code |-> "IND", id |-> 0]}
Message == {Conf(r) : r \in ReqId} \cup Inds
NoMsg == [code |-> "NONE", id |-> 0]
NoSignal == [conf |-> 0, during |-> 0]
NoResult == [code |-> "NONE", conf |-> 0]

(* The main thread between its first store to m_lLastError and the return. *)
InRequest == {"written", "waiting", "returning"}

(* The destructor's stages: the port is closed before the thread is told   *)
(* to stop.  "abandoned": the join timed out and the object is freed under *)
(* a running thread; what happens then is undefined and not modelled.      *)
Closing == {"stopping", "closed", "joining", "destroyed", "abandoned"}

(* The listener: "pending" in a WaitCommEvent, "reading" in OnEvent with   *)
(* bytes read, "pushed" between queue and event, "looping" with nothing    *)
(* read, "arming" inside WaitEvent, "failed" in it by its WaitCommEvent,   *)
(* "woken" by a change of the mask, "hung" in a wait that was never        *)
(* started, or "exited".                                                   *)
ListenerPc == {"pending", "reading", "pushed", "looping", "arming", "failed", "woken", "hung",
               "exited"}

Init ==
    /\ mainPc = "starting"
    /\ req = 0
    /\ result = NoResult
    /\ lastError = "SUCCESS" /\ overwritten = FALSE
    /\ owed = {} /\ local = {} /\ wire = <<>>
    /\ lisPc = "looping" /\ inStack = <<>> /\ newInMsg = FALSE
    /\ stopEvent = FALSE
    /\ procPc = "off" /\ procMsg = NoMsg /\ handled = {} /\ resetEvent = FALSE
    /\ budget = [extra |-> MaxExtra, fail |-> MaxFail]
    /\ confEvent = FALSE /\ signal = NoSignal
    /\ stray = FALSE

(* A store to m_lLastError by the main thread, and one by the listener.    *)
MainStores(e) == lastError' = e /\ overwritten' = FALSE
ListenerStores(e) ==
    /\ lastError' = e
    /\ overwritten' = (overwritten \/ (mainPc \in InRequest /\ e # lastError))

(* A failure of the serial port, within the bound. *)
PortFails == budget.fail > 0 /\ budget' = [budget EXCEPT !.fail = @ - 1]

--------------------------------------------------------------------------------
(* The main thread. *)

(* CZiBManager::Run starts the serial port first and this thread last, so  *)
(* messages may already be queued.                                         *)
StartThreadProcessInMsg ==
    /\ mainPc = "starting"
    /\ mainPc' = "idle" /\ procPc' = "waiting"
    /\ MainStores("SUCCESS")
    /\ UNCHANGED <<requestVars, gatewayVars, budget, lisPc, queueVars, stopEvent, procMsg,
                   handled, resetEvent, signalVars, stray>>

(* Seeded fault: m_hConfEvent is not reset. *)
StartRequestKeepsEvent ==
    /\ mainPc = "idle" /\ req < MaxReq
    /\ mainPc' = "cleared" /\ req' = req + 1 /\ result' = NoResult
    /\ confEvent' = confEvent
    /\ MainStores("SUCCESS")
    /\ UNCHANGED <<gatewayVars, budget, lisPc, queueVars, stopEvent, procVars, signal,
                   stray>>

(* A request first resets m_hConfEvent; Write begins with ERROR_SUCCESS in *)
(* m_lLastError.                                                           *)
StartRequest ==
    /\ mainPc = "idle" /\ req < MaxReq
    /\ mainPc' = "cleared" /\ req' = req + 1 /\ result' = NoResult
    /\ confEvent' = FALSE /\ signal' = NoSignal
    /\ MainStores("SUCCESS")
    /\ UNCHANGED <<gatewayVars, budget, lisPc, queueVars, stopEvent, procVars, stray>>

(* The start byte and the message are written, or some of it: the gateway  *)
(* may miss it.                                                            *)
WriteMessage ==
    /\ mainPc = "cleared"
    /\ mainPc' = "written"
    /\ \/ MainStores("SUCCESS") /\ UNCHANGED budget
       \/ MainStores("ERROR") /\ PortFails
    /\ \/ UNCHANGED <<owed, local>>
       \/ owed' = owed \cup {req} /\ local' \in {local, local \cup {req}}
    /\ UNCHANGED <<requestVars, wire, lisPc, queueVars, stopEvent, procVars, signalVars, stray>>

ConfIn(seq, r) == \E i \in DOMAIN seq : seq[i] = Conf(r)
InProgress(r) == procPc \in {"parsing", "parsed"} /\ procMsg = Conf(r)

(* Requests whose answer may still set m_hConfEvent. *)
Outstanding == {r \in ReqId : \/ r \in owed
                              \/ ConfIn(wire, r)
                              \/ ConfIn(inStack, r)
                              \/ InProgress(r)}

(* Write returns m_lLastError, SendMessage its value; the caller stores it *)
(* back and waits if it is ERROR_SUCCESS.  What the listener stores before *)
(* the field is read decides; what it stores before the value is put back  *)
(* is lost, as if Write had stored last.                                   *)
TestWritten ==
    /\ mainPc = "written"
    /\ \/ lastError = "SUCCESS" /\ mainPc' = "waiting" /\ UNCHANGED stray
       \/ /\ lastError # "SUCCESS" /\ mainPc' = "returning"
          /\ stray' = (stray \/ Outstanding # {})
    /\ UNCHANGED <<requestVars, errorVars, gatewayVars, budget, lisPc, queueVars, stopEvent,
                   procVars, signalVars>>

(* Seeded fault: m_hConfEvent is a manual-reset event. *)
WaitSucceedsKeepsEvent ==
    /\ mainPc = "waiting" /\ confEvent
    /\ mainPc' = "returning"
    /\ confEvent' = confEvent /\ result' = [result EXCEPT !.conf = signal.conf]
    /\ UNCHANGED <<req, errorVars, gatewayVars, budget, lisPc, queueVars, stopEvent,
                   procVars, signal, stray>>

(* WaitForSingleObject returns: the auto-reset event falls back. *)
WaitSucceeds ==
    /\ mainPc = "waiting" /\ confEvent
    /\ mainPc' = "returning"
    /\ confEvent' = FALSE /\ signal' = NoSignal
    /\ result' = [result EXCEPT !.conf = signal.conf]
    /\ UNCHANGED <<req, errorVars, gatewayVars, budget, lisPc, queueVars, stopEvent,
                   procVars, stray>>

(* Seeded fault: a wait that timed out is not recorded in m_lLastError. *)
WaitTimesOutUnrecorded ==
    /\ mainPc = "waiting" /\ ~confEvent
    /\ mainPc' = "returning"
    /\ stray' = (stray \/ Outstanding # {})
    /\ UNCHANGED <<requestVars, errorVars, gatewayVars, budget, lisPc, queueVars, stopEvent,
                   procVars, signalVars>>

(* WAIT_FOR_CONF_TIMEOUT_MS elapsed with the event unset. *)
WaitTimesOut ==
    /\ mainPc = "waiting" /\ ~confEvent
    /\ mainPc' = "returning"
    /\ MainStores("TIMEOUT")
    /\ stray' = (stray \/ Outstanding # {})
    /\ UNCHANGED <<requestVars, gatewayVars, budget, lisPc, queueVars, stopEvent, procVars,
                   signalVars>>

(* The request returns what m_lLastError holds by now. *)
ReturnFromRequest ==
    /\ mainPc = "returning"
    /\ mainPc' = "idle"
    /\ result' = [result EXCEPT !.code = lastError]
    /\ UNCHANGED <<req, errorVars, gatewayVars, budget, lisPc, queueVars, stopEvent,
                   procVars, signalVars, stray>>

(* The destructor, after Run returned or gave up before it started the     *)
(* thread.  StopSerialPort tells the listener to stop and sets the event   *)
(* mask again, which completes a WaitCommEvent that has begun, and only    *)
(* one that has.                                                           *)
StopSerialPort ==
    /\ mainPc \in {"starting", "idle"}
    /\ mainPc' = "stopping"
    /\ lisPc' \in CASE lisPc = "pending" -> {"woken"}
                    [] lisPc = "arming" -> {"arming", "woken"}
                    [] OTHER -> {lisPc}
    /\ MainStores("SUCCESS")
    /\ UNCHANGED <<requestVars, gatewayVars, budget, queueVars, stopEvent, procVars, signalVars,
                   stray>>

(* It waits for the listener without a timeout. *)
JoinListener ==
    /\ mainPc = "stopping" /\ lisPc = "exited"
    /\ mainPc' = "closed"
    /\ MainStores("SUCCESS")
    /\ UNCHANGED <<requestVars, gatewayVars, budget, lisPc, queueVars, stopEvent, procVars,
                   signalVars, stray>>

(* Seeded fault: m_hStopEvent is not set. *)
StopThreadProcessInMsgQuietly ==
    /\ mainPc = "closed"
    /\ mainPc' = IF procPc = "off" THEN "destroyed" ELSE "joining"
    /\ UNCHANGED <<requestVars, errorVars, gatewayVars, budget, lisPc, queueVars, stopEvent,
                   procVars, signalVars, stray>>

(* StopThreadProcessInMsg (5000) signals and waits, if the thread was ever *)
(* started.                                                                *)
StopThreadProcessInMsg ==
    /\ mainPc = "closed"
    /\ \/ procPc = "off" /\ mainPc' = "destroyed" /\ UNCHANGED stopEvent
       \/ procPc # "off" /\ mainPc' = "joining" /\ stopEvent' = TRUE
    /\ UNCHANGED <<requestVars, errorVars, gatewayVars, budget, lisPc, queueVars, procVars,
                   signalVars, stray>>

JoinThreadProcessInMsg ==
    /\ mainPc = "joining"
    /\ mainPc' = IF procPc = "exited" THEN "destroyed" ELSE "abandoned"
    /\ UNCHANGED <<requestVars, errorVars, gatewayVars, budget, lisPc, queueVars, stopEvent,
                   procVars, signalVars, stray>>

Over == mainPc \in {"destroyed", "abandoned"}

--------------------------------------------------------------------------------
(* The gateway's program and the line from it, which keeps the order.      *)

(* The gateway takes its requests in order: what it answers from memory it *)
(* has answered before it looks at a later request.                        *)
GatewayAnswers(r) ==
    /\ ~Over
    /\ r \in owed /\ \A l \in owed \cap local : r <= l
    /\ owed' = owed \ {r}
    /\ wire' = Append(wire, Conf(r))
    /\ UNCHANGED <<mainPc, requestVars, errorVars, local, budget, lisPc, queueVars, stopEvent,
                   procVars, signalVars, stray>>

(* A radio response delivered twice is confirmed twice. *)
GatewayAnswersAgain(r) ==
    /\ ~Over
    /\ r \in owed \ local /\ \A l \in owed \cap local : r <= l
    /\ budget.extra > 0 /\ budget' = [budget EXCEPT !.extra = @ - 1]
    /\ wire' = Append(wire, Conf(r))
    /\ stray' = TRUE
    /\ UNCHANGED <<mainPc, requestVars, errorVars, owed, local, lisPc, queueVars, stopEvent,
                   procVars, signalVars>>

GatewayIndicates(m) ==
    /\ ~Over
    /\ budget.extra > 0 /\ budget' = [budget EXCEPT !.extra = @ - 1]
    /\ wire' = Append(wire, m)
    /\ UNCHANGED <<mainPc, requestVars, errorVars, owed, local, lisPc, queueVars, stopEvent,
                   procVars, signalVars, stray>>

--------------------------------------------------------------------------------
(* The listener thread.  Any byte is an event, a fragment of a message or  *)
(* noise as well, and so is the end of a transmission.                     *)

ReadBytes ==
    /\ lisPc = "pending" /\ mainPc # "stopping"
    /\ lisPc' = "reading"
    /\ ListenerStores("SUCCESS")
    /\ UNCHANGED <<mainPc, requestVars, gatewayVars, budget, queueVars, stopEvent, procVars,
                   signalVars, stray>>

ReadFails ==
    /\ lisPc = "pending" /\ mainPc # "stopping"
    /\ lisPc' = "looping"
    /\ ListenerStores("ERROR") /\ PortFails
    /\ UNCHANGED <<mainPc, requestVars, gatewayVars, queueVars, stopEvent, procVars,
                   signalVars, stray>>

TransmissionEnds ==
    /\ lisPc = "pending" /\ mainPc # "stopping"
    /\ lisPc' = "looping"
    /\ UNCHANGED <<mainPc, requestVars, errorVars, gatewayVars, budget, queueVars, stopEvent,
                   procVars, signalVars, stray>>

(* The bytes read complete a message. *)
PushInMsgStack ==
    /\ lisPc = "reading" /\ wire # <<>>
    /\ wire' = Tail(wire)
    /\ inStack' = Append(inStack, Head(wire))
    /\ lisPc' = "pushed"
    /\ UNCHANGED <<mainPc, requestVars, errorVars, owed, local, budget, newInMsg, stopEvent,
                   procVars, signalVars, stray>>

SetNewInMsgEvent ==
    /\ lisPc = "pushed"
    /\ newInMsg' = TRUE
    /\ lisPc' = "reading"
    /\ UNCHANGED <<mainPc, requestVars, errorVars, gatewayVars, budget, inStack, stopEvent,
                   procVars, signalVars, stray>>

(* The thread loops unless it is to stop; WaitEvent begins with            *)
(* ERROR_SUCCESS.                                                          *)
LoopListener ==
    /\ lisPc \in {"reading", "looping"}
    /\ \/ mainPc = "stopping" /\ lisPc' = "exited" /\ UNCHANGED errorVars
       \/ mainPc # "stopping" /\ lisPc' = "arming" /\ ListenerStores("SUCCESS")
    /\ UNCHANGED <<mainPc, requestVars, gatewayVars, budget, queueVars, stopEvent, procVars,
                   signalVars, stray>>

WaitCommEventFails ==
    /\ lisPc = "arming"
    /\ lisPc' = "failed"
    /\ ListenerStores("ERROR") /\ PortFails
    /\ UNCHANGED <<mainPc, requestVars, gatewayVars, queueVars, stopEvent, procVars, signalVars,
                   stray>>

(* WaitEvent returns m_lLastError: anything but ERROR_SUCCESS, whoever     *)
(* stored it, ends the thread; ERROR_SUCCESS hides a failure.              *)
WaitEventReturns ==
    /\ lisPc \in {"arming", "failed"}
    /\ lisPc' = IF lastError # "SUCCESS" THEN "exited"
                ELSE IF lisPc = "arming" THEN "pending" ELSE "hung"
    /\ UNCHANGED <<mainPc, requestVars, errorVars, gatewayVars, budget, queueVars, stopEvent,
                   procVars, signalVars, stray>>

(* The wait of a stopping thread is over, by the new mask or by any event. *)
ListenerLeaves ==
    /\ lisPc = "woken" \/ (lisPc = "pending" /\ mainPc = "stopping")
    /\ lisPc' = "exited"
    /\ UNCHANGED <<mainPc, requestVars, errorVars, gatewayVars, budget, queueVars, stopEvent,
                   procVars, signalVars, stray>>

--------------------------------------------------------------------------------
(* ThreadProcessInMsg.  WaitForMultipleObjects reports the lowest signalled *)
(* index: m_hNewInMsgEvent is 0, m_hStopEvent is 1.                        *)

linkVars == <<mainPc, requestVars, errorVars, gatewayVars, budget, lisPc, stray>>

WakeForMessages ==
    /\ procPc = "waiting" /\ newInMsg
    /\ newInMsg' = FALSE
    /\ procPc' = "draining"
    /\ UNCHANGED <<linkVars, inStack, stopEvent, procMsg, handled, resetEvent, signalVars>>

(* Seeded fault: m_hStopEvent is the lower index of the wait. *)
WakeForStopFirst ==
    /\ procPc = "waiting" /\ stopEvent
    /\ stopEvent' = FALSE
    /\ procPc' = "exited"
    /\ UNCHANGED <<linkVars, queueVars, procMsg, handled, resetEvent, signalVars>>

WakeForStop ==
    /\ procPc = "waiting" /\ ~newInMsg /\ stopEvent
    /\ stopEvent' = FALSE
    /\ procPc' = "exited"
    /\ UNCHANGED <<linkVars, queueVars, procMsg, handled, resetEvent, signalVars>>

PopInMsgStack ==
    /\ procPc = "draining"
    /\ IF inStack # <<>>
       THEN procPc' = "parsing" /\ procMsg' = Head(inStack) /\ inStack' = Tail(inStack)
       ELSE procPc' = "waiting" /\ procMsg' = NoMsg /\ UNCHANGED inStack
    /\ UNCHANGED <<linkVars, newInMsg, stopEvent, handled, resetEvent, signalVars>>

(* Seeded fault: one message is popped per wake-up. *)
HandleMessageOnePerWake ==
    /\ procPc = "parsing"
    /\ procPc' = IF procMsg.code = "CONF" THEN "parsed" ELSE "waiting"
    /\ handled' = IF procMsg.code = "CONF" THEN handled \cup {procMsg.id} ELSE handled
    /\ local' = local \ {procMsg.id}
    /\ resetEvent' = (resetEvent \/ procMsg.code = "RESET_IND")
    /\ UNCHANGED <<mainPc, requestVars, errorVars, owed, wire, budget, lisPc, queueVars, stopEvent,
                   procMsg, signalVars, stray>>

(* Seeded fault: every message ends a wait. *)
HandleMessageAnyCode ==
    /\ procPc = "parsing"
    /\ procPc' = "parsed"
    /\ handled' = handled \cup {procMsg.id}
    /\ local' = local \ {procMsg.id}
    /\ resetEvent' = (resetEvent \/ procMsg.code = "RESET_IND")
    /\ UNCHANGED <<mainPc, requestVars, errorVars, owed, wire, budget, lisPc, queueVars, stopEvent,
                   procMsg, signalVars, stray>>

(* The parser runs the handler before the event is set. *)
HandleMessage ==
    /\ procPc = "parsing"
    /\ procPc' = IF procMsg.code = "CONF" THEN "parsed" ELSE "draining"
    /\ handled' = IF procMsg.code = "CONF" THEN handled \cup {procMsg.id} ELSE handled
    /\ local' = local \ {procMsg.id}
    /\ resetEvent' = (resetEvent \/ procMsg.code = "RESET_IND")
    /\ UNCHANGED <<mainPc, requestVars, errorVars, owed, wire, budget, lisPc, queueVars, stopEvent,
                   procMsg, signalVars, stray>>

SetConfEvent ==
    /\ procPc = "parsed"
    /\ confEvent' = TRUE
    /\ signal' = [conf |-> procMsg.id, during |-> req]
    /\ procPc' = "draining"
    /\ UNCHANGED <<linkVars, queueVars, stopEvent, procMsg, handled, resetEvent>>

--------------------------------------------------------------------------------

MainStep == \/ StartThreadProcessInMsg \/ StartRequest
            \/ WriteMessage \/ TestWritten
            \/ WaitSucceeds \/ WaitTimesOut \/ ReturnFromRequest
            \/ StopSerialPort \/ JoinListener
            \/ StopThreadProcessInMsg \/ JoinThreadProcessInMsg

GatewayStep == \/ \E r \in ReqId : GatewayAnswers(r) \/ GatewayAnswersAgain(r)
               \/ \E m \in Inds : GatewayIndicates(m)

ListenerStep == \/ ReadBytes \/ ReadFails \/ TransmissionEnds
                \/ PushInMsgStack \/ SetNewInMsgEvent
                \/ LoopListener \/ WaitCommEventFails \/ WaitEventReturns \/ ListenerLeaves

ProcessStep == /\ ~Over
               /\ \/ WakeForMessages \/ WakeForStop
                  \/ PopInMsgStack \/ HandleMessage \/ SetConfEvent

(* The object is gone, or its destructor waits for a listener that hangs.  *)
Finished == (Over \/ (mainPc = "stopping" /\ lisPc = "hung")) /\ UNCHANGED vars

Next == MainStep \/ GatewayStep \/ ListenerStep \/ ProcessStep \/ Finished

Spec == Init /\ [][Next]_vars

(* The operating system runs the two worker threads; of the listener only  *)
(* the call between queue and event is used.  Requests, the port's events, *)
(* the joins and the gateway are left unfair.                              *)
Fairness == WF_vars(SetNewInMsgEvent) /\ WF_vars(ProcessStep)

FairSpec == Spec /\ Fairness

--------------------------------------------------------------------------------
(* Properties. *)

TypeOK ==
    /\ mainPc \in {"starting", "idle", "cleared"} \cup InRequest \cup Closing
    /\ req \in 0 .. MaxReq
    /\ result \in [code : {"NONE", "SUCCESS", "TIMEOUT", "ERROR"}, conf : 0 .. MaxReq]
    /\ lastError \in {"SUCCESS", "TIMEOUT", "ERROR"}
    /\ confEvent \in BOOLEAN /\ newInMsg \in BOOLEAN /\ stopEvent \in BOOLEAN
    /\ resetEvent \in BOOLEAN /\ stray \in BOOLEAN /\ overwritten \in BOOLEAN
    /\ owed \subseteq ReqId /\ local \subseteq ReqId
    /\ wire \in Seq(Message) /\ inStack \in Seq(Message)
    /\ lisPc \in ListenerPc
    /\ procPc \in {"off", "waiting", "draining", "parsing", "parsed", "exited"}
    /\ procMsg \in Message \cup {NoMsg}
    /\ budget \in [extra : Nat, fail : Nat]
    /\ signal \in [conf : 0 .. MaxReq, during : 0 .. MaxReq]
    /\ handled \subseteq ReqId

(* No lost wake-up: while ThreadProcessInMsg sleeps (or has not started),  *)
(* a queued message has set m_hNewInMsgEvent or its listener is about to.  *)
NoLostWakeup ==
    inStack # <<>> /\ procPc \in {"off", "waiting"} => newInMsg \/ lisPc = "pushed"

(* ThreadProcessInMsg never exits over queued messages: each one received  *)
(* before the port was closed is handled and its heap block is released.   *)
DrainedOnExit == procPc = "exited" => inStack = <<>> /\ lisPc = "exited"

(* An event set before a request started does not release that request:    *)
(* the CONF that ends a wait was signalled during it.                      *)
FreshSignal ==
    mainPc \in {"cleared", "written", "waiting"} /\ confEvent => signal.during = req

(* A request returns ERROR_SUCCESS exactly when a CONF whose handler has   *)
(* run ended its wait, so that the maps the caller reads next hold that    *)
(* CONF's data; unless the listener overwrote m_lLastError in between.     *)
OutcomeIsHonest ==
    mainPc = "idle" /\ req # 0 /\ ~overwritten =>
        (result.code = "SUCCESS" <=> result.conf \in handled)

(* If every answer so far came once and before its request gave up, the    *)
(* CONF that ended a request's wait is its own, whatever it returned.      *)
OwnConfWhenPrompt == ~stray /\ mainPc = "idle" /\ result.conf # 0 => result.conf = req

(* The protocol header pairs every REQUEST with its CONFIRMATION: a        *)
(* request whose outcome is not overwritten and is ERROR_SUCCESS was       *)
(* answered by its own CONF.                                               *)
OwnConf ==
    mainPc = "idle" /\ ~overwritten /\ result.code = "SUCCESS" => result.conf = req

(* A request whose wait no CONF ended, or that did not wait, reports it:   *)
(* "Timeout while waiting for the CONFIRMATION" (ZiBGatewayComm.cpp:249).  *)
FailureIsReported == mainPc = "idle" /\ req # 0 /\ result.conf = 0 => result.code # "SUCCESS"

(* Answers whose handler has yet to run: the gateway owes them, or they    *)
(* are on the wire, queued, or with the handler.                           *)
Unhandled == {r \in ReqId : \/ r \in owed
                            \/ ConfIn(wire, r)
                            \/ ConfIn(inStack, r)
                            \/ procPc = "parsing" /\ procMsg = Conf(r)}

(* Towards the main thread all of this is the contract RequestLink states. *)
Contract == INSTANCE RequestLink WITH
    phase    <- IF mainPc \in {"cleared", "waiting", "returning"} THEN mainPc
                ELSE IF mainPc = "written" THEN "waiting" ELSE "idle",
    cur      <- req,
    event    <- confEvent,
    open     <- Unhandled,
    once     <- local,
    parsed   <- IF procPc = "parsed" THEN procMsg.id ELSE 0,
    answered <- result.conf # 0,
    outcome  <- IF result.code \in {"NONE", "SUCCESS"} THEN result.code ELSE "FAILED"

(* The three threads, their queue, events and error field implement a      *)
(* synchronous request: only a handled answer sets the event, one wait     *)
(* consumes it, and no other step of any thread shows.                     *)
RequestContract == Contract!LinkSpec

(* A message the listener has queued reaches its handler, whatever else    *)
(* happens: a CONF stores its data, a RESET_IND sets m_hResetEvent.  The    *)
(* exceptions are a manager that never starts the thread and a destructor  *)
(* that gives up on it.                                                    *)
QueuedMessageIsHandled ==
    /\ \A r \in ReqId :
          ConfIn(inStack, r) /\ procPc # "off" ~> r \in handled \/ mainPc = "abandoned"
    /\ (\E i \in DOMAIN inStack : inStack[i].code = "RESET_IND") /\ procPc # "off"
          ~> resetEvent \/ mainPc = "abandoned"

(* Stop is noticed although messages have priority over it: the thread     *)
(* exits unless the join times out first.                                  *)
StopIsNoticed == mainPc = "joining" ~> procPc = "exited" \/ mainPc = "abandoned"

================================================================================
