--------------------------- MODULE GatewayLinkProofs ---------------------------
(***************************************************************************)
(* Proofs about GatewayLink, for every number of requests, indications,    *)
(* repeated answers and failures.  LinkInv is the inductive invariant      *)
(* behind the wake-up, shutdown, freshness and outcome properties;         *)
(* PromptInv adds where the one outstanding answer can be while no answer  *)
(* has strayed.                                                            *)
(***************************************************************************)
EXTENDS GatewayLink, SequenceTheorems, TLAPS

(* What a request knows of its outcome before it returns: it waits only    *)
(* over ERROR_SUCCESS, a CONF that ends the wait has been handled, and     *)
(* until the listener interferes m_lLastError tells whether there was one. *)
Honest ==
    /\ mainPc \in {"cleared", "written", "waiting"} => result.conf = 0
    /\ result.conf = 0 \/ result.conf \in handled
    /\ mainPc = "waiting" /\ ~overwritten => lastError = "SUCCESS"
    /\ mainPc = "returning" /\ ~overwritten => (lastError = "SUCCESS" <=> result.conf # 0)

(* What NoLostWakeup, DrainedOnExit, FreshSignal and OutcomeIsHonest need  *)
(* besides themselves: the listener is joined before the thread is told to *)
(* stop, and the handler runs before the event is set.                     *)
LinkInv ==
    /\ TypeOK
    /\ NoLostWakeup
    /\ DrainedOnExit
    /\ FreshSignal
    /\ OutcomeIsHonest
    /\ Honest
    /\ mainPc = "starting" => procPc = "off" /\ req = 0
    /\ mainPc \in {"cleared"} \cup InRequest => req # 0
    /\ mainPc \in Closing \ {"stopping"} => lisPc = "exited"
    /\ procPc = "exited" \/ stopEvent => mainPc \in Closing \ {"stopping"}
    /\ confEvent => signal.conf \in handled
    /\ procPc \in {"parsing", "parsed"} => procMsg \in Message
    /\ procPc = "parsed" => procMsg.code = "CONF" /\ procMsg.id \in handled

--------------------------------------------------------------------------------

(* A message is a CONF of a request or an indication, and never NoMsg.      *)
LEMMA MessageFacts ==
    ASSUME NEW m \in Message
    PROVE  /\ m.code \in {"CONF", "RESET_IND", "IND"}
           /\ m.code = "CONF" => m.id \in ReqId /\ m = Conf(m.id)
           /\ m # NoMsg
BY DEF Message, Conf, Inds, NoMsg

(* Appending a message, and taking the first one, keep a queue of messages. *)
LEMMA QueueFacts ==
    ASSUME NEW s \in Seq(Message)
    PROVE  /\ \A m \in Message : Append(s, m) \in Seq(Message)
           /\ s # <<>> => Head(s) \in Message /\ Tail(s) \in Seq(Message)
BY HeadTailProperties

(* The initial state has no message and no signal anywhere. *)
LEMMA InitLinkInv == Init => LinkInv
<1> SUFFICES ASSUME Init PROVE LinkInv
  OBVIOUS
<1>1. TypeOK
  <2>1. result \in [code : {"NONE", "SUCCESS", "TIMEOUT", "ERROR"}, conf : 0 .. MaxReq]
    BY BoundsAssumption DEF Init, NoResult
  <2>2. /\ budget \in [extra : Nat, fail : Nat]
        /\ signal \in [conf : 0 .. MaxReq, during : 0 .. MaxReq]
    BY BoundsAssumption DEF Init, NoSignal
  <2>3. wire \in Seq(Message) /\ inStack \in Seq(Message)
    BY DEF Init
  <2>4. req \in 0 .. MaxReq
    BY BoundsAssumption DEF Init
  <2> QED BY <2>1, <2>2, <2>3, <2>4 DEF Init, TypeOK, ListenerPc
<1>2. NoLostWakeup /\ DrainedOnExit /\ FreshSignal
  BY DEF Init, NoLostWakeup, DrainedOnExit, FreshSignal
<1>3. OutcomeIsHonest /\ Honest
  BY DEF Init, OutcomeIsHonest, Honest, NoResult, InRequest
<1> QED BY <1>1, <1>2, <1>3 DEF Init, LinkInv, Closing, InRequest

(* The listener's steps but for PushInMsgStack and the event: only its own *)
(* place, m_lLastError and the budget of failures change.                  *)
ListenerAside == \/ ReadBytes \/ ReadFails \/ TransmissionEnds \/ LoopListener
                 \/ WaitCommEventFails \/ WaitEventReturns \/ ListenerLeaves

(* None of them starts from an exited listener or hides a push; each keeps *)
(* m_lLastError or stores over it as the history records.                  *)
LEMMA ListenerFacts ==
    ASSUME LinkInv, ListenerAside
    PROVE  /\ UNCHANGED <<mainPc, requestVars, gatewayVars, queueVars, stopEvent, procVars,
                          signalVars, stray>>
           /\ budget' \in [extra : Nat, fail : Nat]
           /\ lisPc' \in ListenerPc
           /\ lisPc \notin {"exited", "pushed"} /\ lisPc' # "pushed"
           /\ lastError' \in {lastError, "SUCCESS", "ERROR"} /\ overwritten' \in BOOLEAN
           /\ ~overwritten' => ~overwritten
           /\ mainPc \in InRequest /\ ~overwritten' => lastError' = lastError
<1>1. lisPc' \in {"reading", "looping", "exited", "arming", "failed", "pending", "hung"}
  BY DEF ListenerAside, ReadBytes, ReadFails, TransmissionEnds, LoopListener,
         WaitCommEventFails, WaitEventReturns, ListenerLeaves
<1>2. /\ UNCHANGED <<mainPc, requestVars, gatewayVars, queueVars, stopEvent, procVars,
                     signalVars, stray>>
      /\ lisPc \notin {"exited", "pushed"}
  BY DEF ListenerAside, ReadBytes, ReadFails, TransmissionEnds, LoopListener,
         WaitCommEventFails, WaitEventReturns, ListenerLeaves
<1>3. \/ UNCHANGED errorVars
      \/ \E e \in {"SUCCESS", "ERROR"} : ListenerStores(e)
  BY DEF ListenerAside, ReadBytes, ReadFails, TransmissionEnds, LoopListener,
         WaitCommEventFails, WaitEventReturns, ListenerLeaves
<1>4. budget' \in [extra : Nat, fail : Nat]
  <2>1. budget \in [extra : Nat, fail : Nat]
    BY DEF LinkInv, TypeOK
  <2>2. UNCHANGED budget \/ PortFails
    BY DEF ListenerAside, ReadBytes, ReadFails, TransmissionEnds, LoopListener,
           WaitCommEventFails, WaitEventReturns, ListenerLeaves
  <2> QED BY <2>1, <2>2 DEF PortFails
<1>5. overwritten \in BOOLEAN
  BY DEF LinkInv, TypeOK
<1>6. CASE UNCHANGED errorVars
  <2>1. lastError' = lastError /\ overwritten' = overwritten
    BY <1>6 DEF errorVars
  <2>2. lisPc' \in ListenerPc /\ lisPc' # "pushed"
    BY <1>1 DEF ListenerPc
  <2> QED BY <1>2, <1>4, <1>5, <2>1, <2>2
<1>7. ASSUME NEW e \in {"SUCCESS", "ERROR"}, ListenerStores(e)
      PROVE  /\ lastError' \in {lastError, "SUCCESS", "ERROR"} /\ overwritten' \in BOOLEAN
             /\ ~overwritten' => ~overwritten
             /\ mainPc \in InRequest /\ ~overwritten' => lastError' = lastError
  <2>1. lastError' = e
        /\ overwritten' = (overwritten \/ (mainPc \in InRequest /\ e # lastError))
    BY <1>7, Zenon DEF ListenerStores
  <2>2. lastError' \in {lastError, "SUCCESS", "ERROR"}
    BY <1>7, <2>1
  <2> QED BY <2>1, <2>2, Zenon
<1>8. lisPc' \in ListenerPc /\ lisPc' # "pushed"
  BY <1>1 DEF ListenerPc
<1> QED BY <1>2, <1>3, <1>4, <1>6, <1>7, <1>8, Zenon

(* Every step keeps the types. *)
LEMMA NextTypeOK == LinkInv /\ [Next]_vars => TypeOK'
<1> SUFFICES ASSUME LinkInv, [Next]_vars PROVE TypeOK'
  OBVIOUS
<1>0. TypeOK
  BY DEF LinkInv
<1> USE DEF requestVars, errorVars, gatewayVars, queueVars, procVars, signalVars, linkVars
<1>1. CASE StartThreadProcessInMsg
  BY <1>0, <1>1 DEF StartThreadProcessInMsg, TypeOK, MainStores, InRequest, Closing
<1>2. CASE StartRequest
  <2>1. /\ req' \in 0 .. MaxReq
        /\ result' \in [code : {"NONE", "SUCCESS", "TIMEOUT", "ERROR"}, conf : 0 .. MaxReq]
        /\ signal' \in [conf : 0 .. MaxReq, during : 0 .. MaxReq]
    BY <1>0, <1>2, BoundsAssumption DEF StartRequest, TypeOK, NoResult, NoSignal
  <2> QED BY <1>0, <1>2, <2>1 DEF StartRequest, TypeOK, MainStores
<1>3. CASE WriteMessage
  <2>1. req \in ReqId
    BY <1>0, <1>3, BoundsAssumption DEF WriteMessage, LinkInv, TypeOK, ReqId
  <2>2. owed' \subseteq ReqId /\ local' \subseteq ReqId
    BY <1>0, <1>3, <2>1 DEF WriteMessage, TypeOK
  <2>3. budget' \in [extra : Nat, fail : Nat]
    <3>1. budget \in [extra : Nat, fail : Nat] /\ (UNCHANGED budget \/ PortFails)
      BY <1>0, <1>3 DEF WriteMessage, TypeOK
    <3> QED BY <3>1 DEF PortFails
  <2>4. lastError' \in {"SUCCESS", "ERROR"} /\ overwritten' = FALSE
    BY <1>3 DEF WriteMessage, MainStores
  <2> QED BY <1>0, <1>3, <2>2, <2>3, <2>4 DEF WriteMessage, TypeOK, InRequest
<1>4. CASE TestWritten
  <2>1. stray' \in BOOLEAN /\ mainPc' \in InRequest
    BY <1>0, <1>4 DEF TestWritten, TypeOK, InRequest
  <2> QED BY <1>0, <1>4, <2>1 DEF TestWritten, TypeOK
<1>5. CASE WaitSucceeds
  <2>1. /\ result' \in [code : {"NONE", "SUCCESS", "TIMEOUT", "ERROR"}, conf : 0 .. MaxReq]
        /\ signal' \in [conf : 0 .. MaxReq, during : 0 .. MaxReq]
    BY <1>0, <1>5, BoundsAssumption DEF WaitSucceeds, TypeOK, NoSignal
  <2> QED BY <1>0, <1>5, <2>1 DEF WaitSucceeds, TypeOK, InRequest
<1>6. CASE WaitTimesOut
  BY <1>0, <1>6 DEF WaitTimesOut, TypeOK, MainStores, InRequest
<1>7. CASE ReturnFromRequest
  <2>1. result' \in [code : {"NONE", "SUCCESS", "TIMEOUT", "ERROR"}, conf : 0 .. MaxReq]
    BY <1>0, <1>7 DEF ReturnFromRequest, TypeOK
  <2> QED BY <1>0, <1>7, <2>1 DEF ReturnFromRequest, TypeOK
<1>8. CASE StopSerialPort
  <2>1. lisPc' \in {lisPc, "arming", "woken"} /\ mainPc' = "stopping"
        /\ lastError' = "SUCCESS" /\ overwritten' \in BOOLEAN
    BY <1>8 DEF StopSerialPort, MainStores
  <2>2. lisPc' \in ListenerPc /\ mainPc' \in Closing
    BY <1>0, <2>1 DEF TypeOK, ListenerPc, Closing
  <2> QED BY <1>0, <1>8, <2>1, <2>2 DEF StopSerialPort, TypeOK
<1>9. CASE JoinListener
  BY <1>0, <1>9 DEF JoinListener, TypeOK, MainStores, InRequest, Closing
<1>10. CASE StopThreadProcessInMsg
  <2>1. stopEvent' \in BOOLEAN /\ mainPc' \in Closing
    BY <1>0, <1>10 DEF StopThreadProcessInMsg, TypeOK, Closing
  <2> QED BY <1>0, <1>10, <2>1 DEF StopThreadProcessInMsg, TypeOK
<1>11. CASE JoinThreadProcessInMsg
  BY <1>0, <1>11 DEF JoinThreadProcessInMsg, TypeOK, MainStores, InRequest, Closing
<1>12. ASSUME NEW r \in ReqId, GatewayAnswers(r) PROVE TypeOK'
  <2>1. wire' \in Seq(Message)
    BY <1>0, <1>12, QueueFacts DEF GatewayAnswers, TypeOK, Message
  <2>2. owed' \subseteq ReqId
    BY <1>0, <1>12 DEF GatewayAnswers, TypeOK
  <2> QED BY <1>0, <1>12, <2>1, <2>2 DEF GatewayAnswers, TypeOK
<1>13. ASSUME NEW r \in ReqId, GatewayAnswersAgain(r) PROVE TypeOK'
  <2>1. wire' \in Seq(Message)
    BY <1>0, <1>13, QueueFacts DEF GatewayAnswersAgain, TypeOK, Message
  <2>2. /\ budget \in [extra : Nat, fail : Nat] /\ budget.extra > 0
        /\ budget' = [budget EXCEPT !.extra = @ - 1]
    BY <1>0, <1>13 DEF GatewayAnswersAgain, TypeOK
  <2>3. budget' \in [extra : Nat, fail : Nat]
    BY <2>2
  <2> QED BY <1>0, <1>13, <2>1, <2>3 DEF GatewayAnswersAgain, TypeOK
<1>14. ASSUME NEW m \in Inds, GatewayIndicates(m) PROVE TypeOK'
  <2>1. wire' \in Seq(Message)
    BY <1>0, <1>14, QueueFacts DEF GatewayIndicates, TypeOK, Message
  <2>2. /\ budget \in [extra : Nat, fail : Nat] /\ budget.extra > 0
        /\ budget' = [budget EXCEPT !.extra = @ - 1]
    BY <1>0, <1>14 DEF GatewayIndicates, TypeOK
  <2>3. budget' \in [extra : Nat, fail : Nat]
    BY <2>2
  <2> QED BY <1>0, <1>14, <2>1, <2>3 DEF GatewayIndicates, TypeOK
<1>15. CASE ListenerAside
  <2>1. /\ UNCHANGED <<mainPc, requestVars, gatewayVars, queueVars, stopEvent, procVars,
                       signalVars, stray>>
        /\ budget' \in [extra : Nat, fail : Nat] /\ lisPc' \in ListenerPc
        /\ lastError' \in {lastError, "SUCCESS", "ERROR"} /\ overwritten' \in BOOLEAN
    BY <1>15, ListenerFacts
  <2> QED BY <1>0, <2>1 DEF TypeOK
<1>16. CASE PushInMsgStack
  <2>1. wire' \in Seq(Message) /\ inStack' \in Seq(Message)
    BY <1>0, <1>16, QueueFacts DEF PushInMsgStack, TypeOK
  <2> QED BY <1>0, <1>16, <2>1 DEF PushInMsgStack, TypeOK, ListenerPc
<1>17. CASE SetNewInMsgEvent
  BY <1>0, <1>17 DEF SetNewInMsgEvent, TypeOK, ListenerPc
<1>18. CASE WakeForMessages
  <2>1. newInMsg' \in BOOLEAN /\ procPc' = "draining"
    BY <1>18 DEF WakeForMessages
  <2> QED BY <1>0, <1>18, <2>1 DEF WakeForMessages, TypeOK
<1>19. CASE WakeForStop
  BY <1>0, <1>19 DEF WakeForStop, TypeOK
<1>20. CASE PopInMsgStack
  <2>1. inStack' \in Seq(Message) /\ procMsg' \in Message \cup {NoMsg}
    BY <1>0, <1>20, QueueFacts DEF PopInMsgStack, TypeOK
  <2>2. procPc' \in {"parsing", "waiting"}
    BY <1>20 DEF PopInMsgStack
  <2> QED BY <1>0, <1>20, <2>1, <2>2 DEF PopInMsgStack, TypeOK
<1>21. CASE HandleMessage
  <2>1. handled' \subseteq ReqId /\ local' \subseteq ReqId
    BY <1>0, <1>21, MessageFacts DEF HandleMessage, LinkInv, TypeOK
  <2>2. resetEvent' \in BOOLEAN
    BY <1>21 DEF HandleMessage
  <2> QED BY <1>0, <1>21, <2>1, <2>2 DEF HandleMessage, TypeOK
<1>22. CASE SetConfEvent
  <2>1. procMsg.id \in 0 .. MaxReq /\ req \in 0 .. MaxReq
    BY <1>0, <1>22, MessageFacts DEF SetConfEvent, LinkInv, TypeOK, ReqId
  <2>2. signal' \in [conf : 0 .. MaxReq, during : 0 .. MaxReq]
    BY <1>22, <2>1 DEF SetConfEvent
  <2> QED BY <1>0, <1>22, <2>2 DEF SetConfEvent, TypeOK
<1>23. CASE UNCHANGED vars
  BY <1>0, <1>23 DEF vars, TypeOK
<1> QED
  BY <1>1, <1>2, <1>3, <1>4, <1>5, <1>6, <1>7, <1>8, <1>9, <1>10, <1>11, <1>12,
     <1>13, <1>14, <1>15, <1>16, <1>17, <1>18, <1>19, <1>20, <1>21, <1>22, <1>23
  DEF Next, MainStep, GatewayStep, ListenerStep, ListenerAside, ProcessStep, Finished

(* LinkInv is inductive.                                                  *)
LEMMA NextLinkInv == LinkInv /\ [Next]_vars => LinkInv'
<1> SUFFICES ASSUME LinkInv, [Next]_vars, TypeOK' PROVE LinkInv'
  BY NextTypeOK
<1>0. TypeOK
  BY DEF LinkInv
<1> USE DEF LinkInv, NoLostWakeup, DrainedOnExit, FreshSignal, OutcomeIsHonest, Honest,
            requestVars, errorVars, gatewayVars, queueVars, procVars, signalVars, linkVars
<1>1. CASE StartThreadProcessInMsg
  BY <1>1 DEF StartThreadProcessInMsg, MainStores, Closing, InRequest
<1>2. CASE StartRequest
  <2>1. req' # 0
    BY <1>0, <1>2 DEF StartRequest, TypeOK
  <2> QED BY <1>2, <2>1 DEF StartRequest, NoResult, MainStores, Closing, InRequest
<1>3. CASE WriteMessage
  BY <1>3 DEF WriteMessage, MainStores, Closing, InRequest
<1>4. CASE TestWritten
  BY <1>4 DEF TestWritten, Closing, InRequest
<1>5. CASE WaitSucceeds
  <2>1. result'.conf = signal.conf /\ signal.conf \in handled /\ signal.conf # 0
    BY <1>0, <1>5 DEF WaitSucceeds, TypeOK, ReqId
  <2> QED BY <1>5, <2>1 DEF WaitSucceeds, Closing, InRequest
<1>6. CASE WaitTimesOut
  BY <1>6 DEF WaitTimesOut, MainStores, Closing, InRequest
<1>7. CASE ReturnFromRequest
  <2>1. result'.conf = result.conf /\ result'.code = lastError /\ 0 \notin handled
    BY <1>0, <1>7 DEF ReturnFromRequest, TypeOK, ReqId
  <2> QED BY <1>7, <2>1 DEF ReturnFromRequest, Closing, InRequest
<1>8. CASE StopSerialPort
  <2>1. lisPc' = lisPc \/ lisPc \in {"pending", "arming"}
    BY <1>8 DEF StopSerialPort
  <2> QED BY <1>8, <2>1 DEF StopSerialPort, MainStores, Closing, InRequest
<1>9. CASE JoinListener
  BY <1>9 DEF JoinListener, MainStores, Closing, InRequest
<1>10. CASE StopThreadProcessInMsg
  BY <1>10 DEF StopThreadProcessInMsg, MainStores, Closing, InRequest
<1>11. CASE JoinThreadProcessInMsg
  BY <1>11 DEF JoinThreadProcessInMsg, MainStores, Closing, InRequest
<1>12. ASSUME NEW r \in ReqId, GatewayAnswers(r) PROVE LinkInv'
  BY <1>12 DEF GatewayAnswers
<1>13. ASSUME NEW r \in ReqId, GatewayAnswersAgain(r) PROVE LinkInv'
  BY <1>13 DEF GatewayAnswersAgain
<1>14. ASSUME NEW m \in Inds, GatewayIndicates(m) PROVE LinkInv'
  BY <1>14 DEF GatewayIndicates
<1>15. CASE ListenerAside
  <2>1. /\ UNCHANGED <<mainPc, requestVars, gatewayVars, queueVars, stopEvent, procVars,
                       signalVars, stray>>
        /\ lisPc \notin {"exited", "pushed"} /\ lisPc' # "pushed"
        /\ ~overwritten' => ~overwritten
        /\ mainPc \in InRequest /\ ~overwritten' => lastError' = lastError
    BY <1>15, ListenerFacts
  <2>2. OutcomeIsHonest' /\ Honest'
    BY <2>1 DEF InRequest
  <2> QED BY <2>1, <2>2 DEF Closing, InRequest
<1>16. CASE PushInMsgStack
  BY <1>0, <1>16 DEF PushInMsgStack, Closing
<1>17. CASE SetNewInMsgEvent
  BY <1>0, <1>17 DEF SetNewInMsgEvent, Closing
<1>18. CASE WakeForMessages
  BY <1>0, <1>18 DEF WakeForMessages, Closing
<1>19. CASE WakeForStop
  BY <1>0, <1>19 DEF WakeForStop, Closing
<1>20. CASE PopInMsgStack
  <2>1. inStack # <<>> => procMsg' \in Message
    BY <1>0, <1>20, QueueFacts DEF PopInMsgStack, TypeOK
  <2> QED BY <1>20, <2>1 DEF PopInMsgStack
<1>21. CASE HandleMessage
  <2>1. procMsg.id \in handled' \/ procMsg.code # "CONF"
    BY <1>21 DEF HandleMessage
  <2>2. handled \subseteq handled' /\ result' = result
    BY <1>21 DEF HandleMessage
  <2>3. OutcomeIsHonest'
    BY <1>0, <1>21, <2>2 DEF HandleMessage, TypeOK, ReqId
  <2> QED BY <1>0, <1>21, <2>1, <2>2, <2>3 DEF HandleMessage, Closing
<1>22. CASE SetConfEvent
  BY <1>0, <1>22 DEF SetConfEvent, Closing
<1>23. CASE UNCHANGED vars
  BY <1>23 DEF vars
<1> QED
  BY <1>1, <1>2, <1>3, <1>4, <1>5, <1>6, <1>7, <1>8, <1>9, <1>10, <1>11, <1>12,
     <1>13, <1>14, <1>15, <1>16, <1>17, <1>18, <1>19, <1>20, <1>21, <1>22, <1>23
  DEF Next, MainStep, GatewayStep, ListenerStep, ListenerAside, ProcessStep, Finished
(* Hence it holds in every state the link reaches.                        *)
THEOREM LinkInvariant == Spec => []LinkInv
BY InitLinkInv, NextLinkInv, PTL DEF Spec

(* Every variable keeps its type. *)
THEOREM TypeOKHolds == Spec => []TypeOK
<1>1. LinkInv => TypeOK
  BY DEF LinkInv
<1> QED BY <1>1, LinkInvariant, PTL

(* ThreadProcessInMsg is never asleep over a message whose event is lost.   *)
THEOREM NoLostWakeupHolds == Spec => []NoLostWakeup
<1>1. LinkInv => NoLostWakeup
  BY DEF LinkInv
<1> QED BY <1>1, LinkInvariant, PTL

(* Everything received before the port closed is handled before the exit.  *)
THEOREM DrainedOnExitHolds == Spec => []DrainedOnExit
<1>1. LinkInv => DrainedOnExit
  BY DEF LinkInv
<1> QED BY <1>1, LinkInvariant, PTL

(* No event set before a request started releases that request.            *)
THEOREM FreshSignalHolds == Spec => []FreshSignal
<1>1. LinkInv => FreshSignal
  BY DEF LinkInv
<1> QED BY <1>1, LinkInvariant, PTL

(* A request whose outcome the listener leaves alone returns success       *)
(* exactly when a handled CONF ended its wait.                             *)
THEOREM OutcomeIsHonestHolds == Spec => []OutcomeIsHonest
<1>1. LinkInv => OutcomeIsHonest
  BY DEF LinkInv
<1> QED BY <1>1, LinkInvariant, PTL

--------------------------------------------------------------------------------
(* Requests and their own answers. *)

Distinct(s) == \A i, j \in DOMAIN s : s[i].code = "CONF" /\ s[i] = s[j] => i = j

(* An unanswered request, or its one answer, is in one place only. *)
Apart ==
    /\ Distinct(wire) /\ Distinct(inStack)
    /\ \A r \in ReqId :
          /\ r \in owed => ~ConfIn(wire, r) /\ ~ConfIn(inStack, r) /\ ~InProgress(r)
          /\ ConfIn(wire, r) => ~ConfIn(inStack, r) /\ ~InProgress(r)
          /\ ConfIn(inStack, r) => ~InProgress(r)

(* As long as nothing has strayed, the only answer to come is the current  *)
(* request's, and once it has set the event nothing else can.              *)
Prompt ==
    /\ Apart
    /\ \A r \in Outstanding : r = req /\ mainPc \in {"written", "waiting"}
    /\ mainPc = "cleared" => ~confEvent
    /\ mainPc \in {"written", "waiting"} /\ confEvent => signal.conf = req /\ Outstanding = {}
    /\ result.conf # 0 => result.conf = req

PromptInv == ~stray => Prompt

(* What a queue answers for when a message is appended to it ...           *)
LEMMA AppendFacts ==
    ASSUME NEW s \in Seq(Message), NEW m \in Message
    PROVE  /\ \A r \in ReqId : ConfIn(Append(s, m), r) <=> ConfIn(s, r) \/ m = Conf(r)
           /\ Distinct(s) /\ (\A r \in ReqId : m = Conf(r) => ~ConfIn(s, r))
                => Distinct(Append(s, m))
<1>1. /\ DOMAIN Append(s, m) = 1 .. Len(s) + 1 /\ DOMAIN s = 1 .. Len(s)
      /\ Append(s, m)[Len(s) + 1] = m
      /\ \A i \in 1 .. Len(s) : Append(s, m)[i] = s[i] /\ s[i] \in Message
      /\ Len(s) \in Nat
  OBVIOUS
<1>2. \A r \in ReqId : ConfIn(Append(s, m), r) <=> ConfIn(s, r) \/ m = Conf(r)
  <2> TAKE r \in ReqId
  <2>1. ConfIn(s, r) \/ m = Conf(r) => ConfIn(Append(s, m), r)
    BY <1>1 DEF ConfIn
  <2>2. ConfIn(Append(s, m), r) => ConfIn(s, r) \/ m = Conf(r)
    BY <1>1 DEF ConfIn
  <2> QED BY <2>1, <2>2
<1>3. ASSUME Distinct(s), \A r \in ReqId : m = Conf(r) => ~ConfIn(s, r)
      PROVE  Distinct(Append(s, m))
  <2> SUFFICES ASSUME NEW i \in 1 .. Len(s) + 1, NEW j \in 1 .. Len(s) + 1,
                      Append(s, m)[i].code = "CONF", Append(s, m)[i] = Append(s, m)[j]
               PROVE  i = j
    BY <1>1 DEF Distinct
  <2>1. CASE i \in 1 .. Len(s) /\ j \in 1 .. Len(s)
    BY <1>1, <1>3, <2>1 DEF Distinct
  <2>2. CASE i = Len(s) + 1 /\ j = Len(s) + 1
    BY <2>2
  <2>3. ASSUME NEW l \in 1 .. Len(s), s[l] = m, m.code = "CONF" PROVE FALSE
    <3>1. m.id \in ReqId /\ m = Conf(m.id)
      BY <2>3, MessageFacts
    <3>2. ConfIn(s, m.id)
      BY <1>1, <2>3, <3>1 DEF ConfIn
    <3> QED BY <1>3, <3>1, <3>2
  <2>4. CASE i \in 1 .. Len(s) /\ j = Len(s) + 1
    BY <1>1, <2>3, <2>4
  <2>5. CASE i = Len(s) + 1 /\ j \in 1 .. Len(s)
    BY <1>1, <2>3, <2>5
  <2> QED BY <1>1, <2>1, <2>2, <2>4, <2>5
<1> QED BY <1>2, <1>3

(* ... and when its first message is taken.                                *)
LEMMA TailFacts ==
    ASSUME NEW s \in Seq(Message), s # <<>>
    PROVE  /\ \A r \in ReqId : ConfIn(s, r) <=> Head(s) = Conf(r) \/ ConfIn(Tail(s), r)
           /\ Distinct(s) => /\ Distinct(Tail(s))
                             /\ \A r \in ReqId : Head(s) = Conf(r) => ~ConfIn(Tail(s), r)
<1>1. /\ Len(s) \in Nat \ {0} /\ DOMAIN s = 1 .. Len(s) /\ DOMAIN Tail(s) = 1 .. Len(s) - 1
      /\ Head(s) = s[1]
      /\ \A i \in 1 .. Len(s) - 1 : Tail(s)[i] = s[i + 1]
  BY HeadTailProperties
<1>2. \A r \in ReqId : ConfIn(s, r) <=> Head(s) = Conf(r) \/ ConfIn(Tail(s), r)
  <2> TAKE r \in ReqId
  <2>1. ASSUME NEW i \in DOMAIN s, s[i] = Conf(r), i # 1 PROVE ConfIn(Tail(s), r)
    <3>1. i - 1 \in DOMAIN Tail(s) /\ Tail(s)[i - 1] = s[i]
      BY <1>1, <2>1
    <3> QED BY <2>1, <3>1 DEF ConfIn
  <2>2. ConfIn(s, r) => Head(s) = Conf(r) \/ ConfIn(Tail(s), r)
    BY <1>1, <2>1 DEF ConfIn
  <2>3. ConfIn(Tail(s), r) => ConfIn(s, r)
    <3> SUFFICES ASSUME NEW i \in DOMAIN Tail(s), Tail(s)[i] = Conf(r) PROVE ConfIn(s, r)
      BY DEF ConfIn
    <3>1. i + 1 \in DOMAIN s /\ s[i + 1] = Conf(r)
      BY <1>1
    <3> QED BY <3>1 DEF ConfIn
  <2>4. Head(s) = Conf(r) => ConfIn(s, r)
    BY <1>1 DEF ConfIn
  <2> QED BY <2>2, <2>3, <2>4
<1>3. ASSUME Distinct(s) PROVE Distinct(Tail(s))
  <2> SUFFICES ASSUME NEW i \in 1 .. Len(s) - 1, NEW j \in 1 .. Len(s) - 1,
                      Tail(s)[i].code = "CONF", Tail(s)[i] = Tail(s)[j]
               PROVE  i = j
    BY <1>1 DEF Distinct
  <2>1. i + 1 \in DOMAIN s /\ j + 1 \in DOMAIN s /\ s[i + 1].code = "CONF" /\ s[i + 1] = s[j + 1]
    BY <1>1
  <2>2. i + 1 = j + 1
    BY <1>3, <2>1 DEF Distinct
  <2> QED BY <1>1, <2>2
<1>4. ASSUME Distinct(s), NEW r \in ReqId, Head(s) = Conf(r), ConfIn(Tail(s), r) PROVE FALSE
  <2>1. PICK i \in 1 .. Len(s) - 1 : Tail(s)[i] = Conf(r)
    BY <1>1, <1>4 DEF ConfIn
  <2>2. i + 1 \in DOMAIN s /\ s[i + 1] = Conf(r) /\ 1 \in DOMAIN s /\ s[1] = Conf(r)
    BY <1>1, <1>4, <2>1
  <2>3. Conf(r).code = "CONF"
    BY DEF Conf
  <2>4. i + 1 = 1
    BY <1>4, <2>2, <2>3 DEF Distinct
  <2> QED BY <1>1, <2>4
<1> QED BY <1>2, <1>3, <1>4

(* A step that moves no answer keeps Outstanding and Apart. *)
LEMMA SamePlaces ==
    ASSUME UNCHANGED <<owed, wire, inStack>>,
           \A r \in ReqId : InProgress(r)' <=> InProgress(r)
    PROVE  Outstanding' = Outstanding /\ (Apart => Apart')
<1>1. \A r \in ReqId : /\ ConfIn(wire, r)' <=> ConfIn(wire, r)
                       /\ ConfIn(inStack, r)' <=> ConfIn(inStack, r)
  BY DEF ConfIn
<1>2. Distinct(wire)' = Distinct(wire) /\ Distinct(inStack)' = Distinct(inStack)
  BY DEF Distinct
<1> QED BY <1>1, <1>2 DEF Outstanding, Apart

(* Where an answer that may still set m_hConfEvent can be.                 *)
LEMMA OutstandingFacts ==
    \A r \in ReqId : r \in Outstanding <=>
        r \in owed \/ ConfIn(wire, r) \/ ConfIn(inStack, r) \/ InProgress(r)
BY DEF Outstanding

(* PromptInv is inductive under LinkInv: stray never falls, and while it is *)
(* unset the one answer to come moves from place to place.                 *)
LEMMA NextPromptInv == LinkInv /\ PromptInv /\ [Next]_vars => PromptInv'
<1> USE DEF requestVars, errorVars, gatewayVars, queueVars, procVars, signalVars, linkVars
<1> SUFFICES ASSUME LinkInv, Prompt, [Next]_vars, ~stray' PROVE Prompt'
  <2>1. ~stray' /\ [Next]_vars => ~stray
    <3>1. CASE WaitTimesOut \/ TestWritten
      BY <3>1 DEF WaitTimesOut, TestWritten
    <3>2. CASE \E r \in ReqId : GatewayAnswersAgain(r)
      BY <3>2 DEF GatewayAnswersAgain
    <3>3. CASE UNCHANGED stray
      BY <3>3
    <3> QED
      BY <3>1, <3>2, <3>3
      DEF Next, MainStep, GatewayStep, ListenerStep, ProcessStep, Finished, vars,
          StartThreadProcessInMsg, StartRequest, WriteMessage, WaitSucceeds,
          ReturnFromRequest, StopSerialPort, JoinListener, StopThreadProcessInMsg,
          JoinThreadProcessInMsg, GatewayAnswers, GatewayIndicates, ReadBytes, ReadFails,
          TransmissionEnds, PushInMsgStack, SetNewInMsgEvent, LoopListener,
          WaitCommEventFails, WaitEventReturns, ListenerLeaves, WakeForMessages,
          WakeForStop, PopInMsgStack, HandleMessage, SetConfEvent
  <2> QED BY <2>1 DEF PromptInv
<1>0. /\ wire \in Seq(Message) /\ inStack \in Seq(Message) /\ owed \subseteq ReqId
      /\ req \in 0 .. MaxReq
      /\ procPc = "parsing" => procMsg \in Message
  BY DEF LinkInv, TypeOK
<1>1. CASE StartThreadProcessInMsg
  <2>1. UNCHANGED <<owed, wire, inStack>> /\ \A r \in ReqId : InProgress(r)' <=> InProgress(r)
    BY <1>1 DEF StartThreadProcessInMsg, InProgress, LinkInv
  <2>2. Outstanding' = Outstanding /\ Apart'
    BY <2>1, SamePlaces DEF Prompt
  <2> QED BY <1>1, <2>2 DEF StartThreadProcessInMsg, Prompt
<1>2. CASE StartRequest
  <2>1. UNCHANGED <<owed, wire, inStack>> /\ \A r \in ReqId : InProgress(r)' <=> InProgress(r)
    BY <1>2 DEF StartRequest, InProgress
  <2>2. Outstanding' = Outstanding /\ Apart'
    BY <2>1, SamePlaces DEF Prompt
  <2> QED BY <1>2, <2>2 DEF StartRequest, Prompt, NoResult
<1>3. CASE WriteMessage
  <2>1. \A r \in ReqId : r \notin Outstanding
    BY <1>3 DEF WriteMessage, Prompt
  <2>2. UNCHANGED <<wire, inStack, procPc, procMsg>> /\ owed' \subseteq {req}
    BY <1>0, <1>3, <2>1, OutstandingFacts DEF WriteMessage
  <2>3. \A r \in ReqId : ~ConfIn(wire, r)' /\ ~ConfIn(inStack, r)' /\ ~InProgress(r)'
    BY <2>1, <2>2, OutstandingFacts DEF ConfIn, InProgress
  <2>4. Distinct(wire)' /\ Distinct(inStack)'
    BY <2>2 DEF Prompt, Apart, Distinct
  <2>5. Apart'
    BY <2>3, <2>4 DEF Apart
  <2>6. \A r \in Outstanding' : r = req
    BY <2>2, <2>3 DEF Outstanding
  <2>7. ~confEvent' /\ req' = req /\ mainPc' = "written" /\ result' = result
    BY <1>3 DEF WriteMessage, Prompt
  <2> QED BY <2>5, <2>6, <2>7 DEF Prompt
<1>4. CASE TestWritten
  <2>1. UNCHANGED <<owed, wire, inStack>> /\ \A r \in ReqId : InProgress(r)' <=> InProgress(r)
    BY <1>4 DEF TestWritten, InProgress
  <2>2. Outstanding' = Outstanding /\ Apart'
    BY <2>1, SamePlaces DEF Prompt
  <2>3. mainPc' = "waiting" \/ (mainPc' = "returning" /\ Outstanding = {})
    BY <1>4 DEF TestWritten
  <2>4. mainPc = "written" /\ UNCHANGED <<req, result, confEvent, signal>>
    BY <1>4 DEF TestWritten
  <2> QED BY <2>2, <2>3, <2>4 DEF Prompt
<1>5. CASE WaitSucceeds
  <2>1. UNCHANGED <<owed, wire, inStack>> /\ \A r \in ReqId : InProgress(r)' <=> InProgress(r)
    BY <1>5 DEF WaitSucceeds, InProgress
  <2>2. Outstanding' = Outstanding /\ Apart'
    BY <2>1, SamePlaces DEF Prompt
  <2> QED BY <1>5, <2>2 DEF WaitSucceeds, Prompt
<1>6. CASE WaitTimesOut
  <2>1. UNCHANGED <<owed, wire, inStack>> /\ \A r \in ReqId : InProgress(r)' <=> InProgress(r)
    BY <1>6 DEF WaitTimesOut, InProgress
  <2>2. Outstanding' = Outstanding /\ Apart'
    BY <2>1, SamePlaces DEF Prompt
  <2>3. mainPc' = "returning" /\ Outstanding = {} /\ UNCHANGED <<req, result, confEvent, signal>>
    BY <1>6 DEF WaitTimesOut
  <2> QED BY <2>2, <2>3 DEF Prompt
<1>7. CASE ReturnFromRequest
  <2>1. UNCHANGED <<owed, wire, inStack>> /\ \A r \in ReqId : InProgress(r)' <=> InProgress(r)
    BY <1>7 DEF ReturnFromRequest, InProgress
  <2>2. Outstanding' = Outstanding /\ Apart'
    BY <2>1, SamePlaces DEF Prompt
  <2> QED BY <1>7, <2>2 DEF ReturnFromRequest, Prompt
<1>8. CASE StopSerialPort
  <2>1. UNCHANGED <<owed, wire, inStack>> /\ \A r \in ReqId : InProgress(r)' <=> InProgress(r)
    BY <1>8 DEF StopSerialPort, InProgress
  <2>2. Outstanding' = Outstanding /\ Apart'
    BY <2>1, SamePlaces DEF Prompt
  <2> QED BY <1>8, <2>2 DEF StopSerialPort, Prompt
<1>9. CASE JoinListener
  <2>1. UNCHANGED <<owed, wire, inStack>> /\ \A r \in ReqId : InProgress(r)' <=> InProgress(r)
    BY <1>9 DEF JoinListener, InProgress
  <2>2. Outstanding' = Outstanding /\ Apart'
    BY <2>1, SamePlaces DEF Prompt
  <2> QED BY <1>9, <2>2 DEF JoinListener, Prompt
<1>10. CASE StopThreadProcessInMsg
  <2>1. UNCHANGED <<owed, wire, inStack>> /\ \A r \in ReqId : InProgress(r)' <=> InProgress(r)
    BY <1>10 DEF StopThreadProcessInMsg, InProgress
  <2>2. Outstanding' = Outstanding /\ Apart'
    BY <2>1, SamePlaces DEF Prompt
  <2> QED BY <1>10, <2>2 DEF StopThreadProcessInMsg, Prompt
<1>11. CASE JoinThreadProcessInMsg
  <2>1. UNCHANGED <<owed, wire, inStack>> /\ \A r \in ReqId : InProgress(r)' <=> InProgress(r)
    BY <1>11 DEF JoinThreadProcessInMsg, InProgress
  <2>2. Outstanding' = Outstanding /\ Apart'
    BY <2>1, SamePlaces DEF Prompt
  <2> QED BY <1>11, <2>2 DEF JoinThreadProcessInMsg, Prompt
<1>12. ASSUME NEW q \in ReqId, GatewayAnswers(q) PROVE Prompt'
  <2>1. /\ q \in owed /\ owed' = owed \ {q} /\ wire' = Append(wire, Conf(q))
        /\ UNCHANGED <<mainPc, req, result, confEvent, inStack, procPc, procMsg, signal>>
    BY <1>12 DEF GatewayAnswers
  <2>2. \A r \in ReqId : /\ ConfIn(wire, r)' <=> ConfIn(wire, r) \/ r = q
                         /\ ConfIn(inStack, r)' <=> ConfIn(inStack, r)
                         /\ InProgress(r)' <=> InProgress(r)
    <3>1. Conf(q) \in Message /\ \A r \in ReqId : Conf(q) = Conf(r) => q = r
      BY DEF Message, Conf
    <3>2. \A r \in ReqId : ConfIn(wire', r) <=> ConfIn(wire, r) \/ r = q
      BY <1>0, <2>1, <3>1, AppendFacts
    <3> QED BY <2>1, <3>2 DEF ConfIn, InProgress
  <2>3. Distinct(wire)' /\ Distinct(inStack)'
    <3>1. Conf(q) \in Message /\ \A r \in ReqId : Conf(q) = Conf(r) => q = r
      BY DEF Message, Conf
    <3>2. ~ConfIn(wire, q)
      BY <2>1 DEF Prompt, Apart
    <3>3. Distinct(wire')
      BY <1>0, <2>1, <3>1, <3>2, AppendFacts DEF Prompt, Apart
    <3> QED BY <2>1, <3>3 DEF Prompt, Apart, Distinct
  <2>4. Apart'
    BY <1>0, <2>1, <2>2, <2>3 DEF Prompt, Apart
  <2>5. Outstanding' = Outstanding
    BY <1>0, <2>1, <2>2 DEF Outstanding
  <2> QED BY <2>1, <2>4, <2>5 DEF Prompt
<1>13. ASSUME NEW q \in ReqId, GatewayAnswersAgain(q) PROVE Prompt'
  BY <1>13 DEF GatewayAnswersAgain
<1>14. ASSUME NEW m \in Inds, GatewayIndicates(m) PROVE Prompt'
  <2>1. /\ wire' = Append(wire, m)
        /\ UNCHANGED <<mainPc, req, result, confEvent, owed, inStack, procPc, procMsg, signal>>
    BY <1>14 DEF GatewayIndicates
  <2>2. m \in Message /\ \A r \in ReqId : m # Conf(r)
    BY DEF Message, Inds, Conf
  <2>3. \A r \in ReqId : /\ ConfIn(wire, r)' <=> ConfIn(wire, r)
                         /\ ConfIn(inStack, r)' <=> ConfIn(inStack, r)
                         /\ InProgress(r)' <=> InProgress(r)
    <3>1. \A r \in ReqId : ConfIn(wire', r) <=> ConfIn(wire, r)
      BY <1>0, <2>1, <2>2, AppendFacts
    <3> QED BY <2>1, <3>1 DEF ConfIn, InProgress
  <2>4. Distinct(wire)' /\ Distinct(inStack)'
    <3>1. Distinct(wire')
      BY <1>0, <2>1, <2>2, AppendFacts DEF Prompt, Apart
    <3> QED BY <2>1, <3>1 DEF Prompt, Apart, Distinct
  <2>5. Apart' /\ Outstanding' = Outstanding
    BY <2>1, <2>3, <2>4 DEF Prompt, Apart, Outstanding
  <2> QED BY <2>1, <2>5 DEF Prompt
<1>15. CASE ListenerAside
  <2>1. UNCHANGED <<mainPc, req, result, owed, wire, inStack, procPc, procMsg, confEvent, signal>>
    BY <1>15, ListenerFacts
  <2>2. \A r \in ReqId : InProgress(r)' <=> InProgress(r)
    BY <2>1 DEF InProgress
  <2>3. Outstanding' = Outstanding /\ Apart'
    BY <2>1, <2>2, SamePlaces DEF Prompt
  <2> QED BY <2>1, <2>3 DEF Prompt
<1>16. CASE PushInMsgStack
  <2>1. /\ wire # <<>> /\ wire' = Tail(wire) /\ inStack' = Append(inStack, Head(wire))
        /\ UNCHANGED <<mainPc, req, result, confEvent, owed, procPc, procMsg, signal>>
    BY <1>16 DEF PushInMsgStack
  <2>2. Head(wire) \in Message
    BY <1>0, <2>1, QueueFacts
  <2>3. \A r \in ReqId : /\ ConfIn(wire, r) <=> Head(wire) = Conf(r) \/ ConfIn(wire', r)
                         /\ Head(wire) = Conf(r) => ~ConfIn(wire', r)
    BY <1>0, <2>1, TailFacts DEF Prompt, Apart
  <2>4. \A r \in ReqId : ConfIn(inStack', r) <=> ConfIn(inStack, r) \/ Head(wire) = Conf(r)
    BY <1>0, <2>1, <2>2, AppendFacts
  <2>5. Distinct(wire') /\ Distinct(inStack')
    BY <1>0, <2>1, <2>2, <2>3, AppendFacts, TailFacts DEF Prompt, Apart
  <2>6. \A r \in ReqId : /\ ConfIn(wire, r)' = ConfIn(wire', r)
                         /\ ConfIn(inStack, r)' = ConfIn(inStack', r)
                         /\ InProgress(r)' <=> InProgress(r)
    BY <2>1 DEF ConfIn, InProgress
  <2>7. Distinct(wire)' /\ Distinct(inStack)'
    BY <2>5 DEF Distinct
  <2>8. Apart' /\ Outstanding' = Outstanding
    BY <2>1, <2>3, <2>4, <2>6, <2>7 DEF Prompt, Apart, Outstanding
  <2> QED BY <2>1, <2>8 DEF Prompt
<1>17. CASE SetNewInMsgEvent
  <2>1. UNCHANGED <<owed, wire, inStack>> /\ \A r \in ReqId : InProgress(r)' <=> InProgress(r)
    BY <1>17 DEF SetNewInMsgEvent, InProgress
  <2>2. Outstanding' = Outstanding /\ Apart'
    BY <2>1, SamePlaces DEF Prompt
  <2> QED BY <1>17, <2>2 DEF SetNewInMsgEvent, Prompt
<1>18. CASE WakeForMessages
  <2>1. UNCHANGED <<owed, wire, inStack>> /\ \A r \in ReqId : InProgress(r)' <=> InProgress(r)
    BY <1>18 DEF WakeForMessages, InProgress
  <2>2. Outstanding' = Outstanding /\ Apart'
    BY <2>1, SamePlaces DEF Prompt
  <2> QED BY <1>18, <2>2 DEF WakeForMessages, Prompt
<1>19. CASE WakeForStop
  <2>1. UNCHANGED <<owed, wire, inStack>> /\ \A r \in ReqId : InProgress(r)' <=> InProgress(r)
    BY <1>19 DEF WakeForStop, InProgress
  <2>2. Outstanding' = Outstanding /\ Apart'
    BY <2>1, SamePlaces DEF Prompt
  <2> QED BY <1>19, <2>2 DEF WakeForStop, Prompt
<1>20. CASE PopInMsgStack
  <2>1. UNCHANGED <<mainPc, req, result, confEvent, owed, wire, signal>>
    BY <1>20 DEF PopInMsgStack
  <2>2. \A r \in ReqId : ~InProgress(r)
    BY <1>20 DEF PopInMsgStack, InProgress
  <2>3. CASE inStack # <<>>
    <3>1. inStack' = Tail(inStack) /\ procMsg' = Head(inStack) /\ procPc' = "parsing"
      BY <1>20, <2>3 DEF PopInMsgStack
    <3>2. \A r \in ReqId : /\ ConfIn(inStack, r) <=> Head(inStack) = Conf(r) \/ ConfIn(inStack', r)
                           /\ Head(inStack) = Conf(r) => ~ConfIn(inStack', r)
      BY <1>0, <2>3, <3>1, TailFacts DEF Prompt, Apart
    <3>3. Distinct(inStack')
      BY <1>0, <2>3, <3>1, TailFacts DEF Prompt, Apart
    <3>4. \A r \in ReqId : /\ ConfIn(wire, r)' = ConfIn(wire, r)
                           /\ ConfIn(inStack, r)' = ConfIn(inStack', r)
                           /\ InProgress(r)' <=> Head(inStack) = Conf(r)
      BY <2>1, <3>1 DEF ConfIn, InProgress
    <3>5. Distinct(wire)' /\ Distinct(inStack)'
      BY <2>1, <3>3 DEF Prompt, Apart, Distinct
    <3>6. Apart' /\ Outstanding' = Outstanding
      BY <2>1, <2>2, <3>2, <3>4, <3>5 DEF Prompt, Apart, Outstanding
    <3> QED BY <2>1, <3>6 DEF Prompt
  <2>4. CASE inStack = <<>>
    <3>1. UNCHANGED <<owed, wire, inStack>> /\ procPc' = "waiting"
      BY <1>20, <2>1, <2>4 DEF PopInMsgStack
    <3>2. \A r \in ReqId : InProgress(r)' <=> InProgress(r)
      BY <2>2, <3>1 DEF InProgress
    <3>3. Outstanding' = Outstanding /\ Apart'
      BY <3>1, <3>2, SamePlaces DEF Prompt
    <3> QED BY <2>1, <3>3 DEF Prompt
  <2> QED BY <2>3, <2>4
<1>21. CASE HandleMessage
  <2>1. UNCHANGED <<owed, wire, inStack>> /\ \A r \in ReqId : InProgress(r)' <=> InProgress(r)
    BY <1>0, <1>21, MessageFacts DEF HandleMessage, InProgress, Conf
  <2>2. Outstanding' = Outstanding /\ Apart'
    BY <2>1, SamePlaces DEF Prompt
  <2> QED BY <1>21, <2>2 DEF HandleMessage, Prompt
<1>22. CASE SetConfEvent
  <2>1. /\ procPc = "parsed" /\ procPc' = "draining"
        /\ confEvent' = TRUE /\ signal'.conf = procMsg.id
        /\ UNCHANGED <<mainPc, req, result, owed, wire, inStack, procMsg>>
    BY <1>22 DEF SetConfEvent
  <2>2. procMsg.id \in ReqId /\ procMsg = Conf(procMsg.id)
    BY <2>1, MessageFacts DEF LinkInv
  <2>3. InProgress(procMsg.id)
    BY <2>1, <2>2 DEF InProgress
  <2>4. procMsg.id = req /\ mainPc \in {"written", "waiting"}
    BY <2>2, <2>3, OutstandingFacts DEF Prompt
  <2>5. \A r \in ReqId : /\ ConfIn(wire, r)' = ConfIn(wire, r)
                         /\ ConfIn(inStack, r)' = ConfIn(inStack, r)
                         /\ ~InProgress(r)'
    BY <2>1 DEF ConfIn, InProgress
  <2>6. Distinct(wire)' /\ Distinct(inStack)'
    BY <2>1 DEF Prompt, Apart, Distinct
  <2>7. Apart'
    BY <2>1, <2>5, <2>6 DEF Prompt, Apart
  <2>8. Outstanding' = {}
    <3> SUFFICES ASSUME NEW r \in ReqId, r \in owed \/ ConfIn(wire, r) \/ ConfIn(inStack, r)
                 PROVE  FALSE
      BY <2>1, <2>5 DEF Outstanding
    <3>1. r = req
      BY OutstandingFacts DEF Prompt
    <3> QED BY <2>3, <2>4, <3>1 DEF Prompt, Apart
  <2> QED BY <2>1, <2>4, <2>7, <2>8 DEF Prompt
<1>23. CASE UNCHANGED vars
  <2>1. UNCHANGED <<owed, wire, inStack>> /\ \A r \in ReqId : InProgress(r)' <=> InProgress(r)
    BY <1>23 DEF vars, InProgress
  <2>2. Outstanding' = Outstanding /\ Apart'
    BY <2>1, SamePlaces DEF Prompt
  <2> QED BY <1>23, <2>2 DEF vars, Prompt
<1> QED
  BY <1>1, <1>2, <1>3, <1>4, <1>5, <1>6, <1>7, <1>8, <1>9, <1>10, <1>11, <1>12,
     <1>13, <1>14, <1>15, <1>16, <1>17, <1>18, <1>19, <1>20, <1>21, <1>22, <1>23
  DEF Next, MainStep, GatewayStep, ListenerStep, ListenerAside, ProcessStep, Finished

(* While every answer has come once and in time, the CONF that ends a      *)
(* request's wait is that request's own.                                   *)
THEOREM OwnConfWhenPromptHolds == Spec => []OwnConfWhenPrompt
<1>1. Init => PromptInv
  <2> SUFFICES ASSUME Init PROVE Prompt
    BY DEF PromptInv
  <2>1. \A r \in ReqId : ~ConfIn(wire, r) /\ ~ConfIn(inStack, r) /\ ~InProgress(r) /\ r \notin owed
    BY DEF Init, ConfIn, InProgress
  <2>2. Distinct(wire) /\ Distinct(inStack)
    BY DEF Init, Distinct
  <2> QED BY <2>1, <2>2 DEF Init, NoResult, Prompt, Apart, Outstanding
<1>2. PromptInv => OwnConfWhenPrompt
  BY DEF PromptInv, Prompt, OwnConfWhenPrompt
<1> QED BY <1>1, <1>2, NextPromptInv, LinkInvariant, PTL DEF Spec

================================================================================
