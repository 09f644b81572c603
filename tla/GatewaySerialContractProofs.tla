---------------------- MODULE GatewaySerialContractProofs ----------------------
(***************************************************************************)
(* GatewaySerial implements MessageLink: until a byte is lost or a request  *)
(* overtakes the gateway, the receivers, the interrupt, the UART and the    *)
(* shared buffer are a link of whole messages.                              *)
(***************************************************************************)
EXTENDS GatewaySerialProofs

AllReq == RadioReq \cup LocalReq \cup {RESET_REQ}

(* The manager sends the requests of the protocol only. *)
CurrentKnown == current = <<>> \/ current[3] \in AllReq

(* What is dispatched is whole, and its code is the request's; the main     *)
(* loop has no second message before it is done with one.                   *)
DispatchInStep ==
    /\ received \/ mainPc = "dispatch" => IsFrame(current)
    /\ mainPc = "dispatch" => code = current[3]
    /\ mainPc # "loop" => ~received

Linked == CurrentKnown /\ (disturbances = 0 => DispatchInStep)

(* Nothing is dispatched before the first step.                             *)
LEMMA LinkedInit == Init => Linked
BY DEF Init, InitGateway, Linked, CurrentKnown, DispatchInStep

(* The code of a request is where its frame has it.                         *)
LEMMA RequestCodeInFrame ==
    ASSUME NEW req \in Requests
    PROVE Frame(req[1], req[2])[3] = req[1] /\ req[1] \in AllReq
<1>1. req[1] \in Byte /\ req[2] \in Seq(Byte) /\ req[1] \in AllReq
  BY RequestsAssumption, LengthsAssumption DEF AllReq
<1>2. Len(req[2]) > 0 /\ HeaderSize + Len(req[2]) <= MaxByte
  BY LengthsAssumption
<1> QED
  BY <1>1, <1>2, FrameIsFrame

(* Only a request of the protocol replaces the last one.                    *)
LEMMA CurrentKnownNext == CurrentKnown /\ [Next]_vars => CurrentKnown'
<1> SUFFICES ASSUME CurrentKnown, [Next]_vars PROVE CurrentKnown'
  OBVIOUS
<1>1. CASE UNCHANGED current
  BY <1>1 DEF CurrentKnown
<1>2. CASE \E req \in Requests : SendRequest(req)
  BY <1>2, RequestCodeInFrame DEF SendRequest, CurrentKnown
<1> QED
  BY <1>1, <1>2 DEF Next, vars, managerVars, OnEvent, WaitTimesOut, LoseByte

(* The byte that leaves the line empty completes the message, and no other  *)
(* does.                                                                    *)
LEMMA LastByte ==
    ASSUME Typed, CurrentFits, GatewayInStep, ByteFetched
    PROVE /\ IsFrame(current)
          /\ received' <=> reqLine' = <<>>
<1> DEFINE taken == Take(rx, Head(reqLine))
<1>1. /\ reqLine # <<>> /\ reqLine' = Tail(reqLine) /\ ~received
      /\ received' = (received \/ taken.complete)
  BY Zenon DEF ByteFetched, TakeByte, GatewayInStep
<1>2. rx \in Receiver /\ reqLine \in Seq(Byte)
  BY DEF Typed, Receivers, Lines
<1>3. IsFrame(current)
  BY <1>1 DEF GatewayInStep, RequestInStep
<1>4. /\ taken \in Receiver
      /\ \/ taken.complete = FALSE /\ Taking(taken, current, Tail(reqLine))
         \/ taken.complete = TRUE /\ Tail(reqLine) = <<>>
  <2>1. CASE Idle(rx) /\ reqLine = current
    <3>1. Head(reqLine) \in Byte
      BY <1>1, <1>2, HeadTailProperties
    <3> QED
      BY <1>2, <1>3, <2>1, <3>1, TakeFirst, TakeType
  <2>2. CASE Taking(rx, current, reqLine)
    BY <1>2, <1>3, <2>2, TakeNext
  <2> QED
    BY <1>1, <2>1, <2>2 DEF GatewayInStep, RequestInStep
<1> HIDE DEF taken
<1>5. CASE taken.complete = FALSE /\ Taking(taken, current, Tail(reqLine))
  <2>1. Tail(reqLine) # <<>>
    BY <1>3, <1>4, <1>5, TakingIsNotOver
  <2> QED
    BY <1>1, <1>3, <1>5, <2>1, Zenon
<1>6. CASE taken.complete = TRUE /\ Tail(reqLine) = <<>>
  BY <1>1, <1>3, <1>6, Zenon
<1> QED
  BY <1>4, <1>5, <1>6, Zenon

(* The code the main loop reads in the buffer is the request's. *)
LEMMA CodeInBuffer ==
    ASSUME IsFrame(current), Taken(rx.buf, current)
    PROVE rx.buf[1] = current[3]
<1>1. 1 \in Index /\ 1 + 2 <= Len(current) /\ 1 + 2 = 3
  BY FrameAssumption DEF Index, IsFrame, HeaderSize
<1> QED
  BY <1>1 DEF Taken

(* Each step keeps what is dispatched in step.                              *)
LEMMA DispatchInStepNext ==
    ASSUME Typed, CurrentFits, GatewayInStep, DispatchInStep, disturbances' = 0, [Next]_vars
    PROVE DispatchInStep'
<1>1. CASE ByteFetched /\ UNCHANGED managerVars
  <2>1. IsFrame(current) /\ mainPc' = "loop" /\ current' = current
    BY <1>1, LastByte DEF ByteFetched, GatewayInStep, managerVars
  <2> QED
    BY <2>1 DEF DispatchInStep
<1>2. CASE (ByteHeld \/ HeldByteFetched) /\ UNCHANGED managerVars
  <2>1. FALSE
    BY <1>2 DEF ByteHeld, HeldByteFetched, GatewayInStep
  <2> QED
    BY <2>1
<1>3. CASE BeginDispatch /\ UNCHANGED managerVars
  <2>1. rx.buf[1] = current[3]
    BY <1>3, CodeInBuffer DEF BeginDispatch, GatewayInStep, DispatchInStep
  <2> QED
    BY <1>3, <2>1 DEF BeginDispatch, managerVars, DispatchInStep
<1>4. CASE /\ \/ ResetRequest \/ LocalRequest \/ RadioRequest \/ UnknownRequest
              \/ InitInternalVariables \/ EndDispatch
           /\ UNCHANGED managerVars
  BY <1>4 DEF ResetRequest, LocalRequest, RadioRequest, UnknownRequest, InitInternalVariables,
     EndDispatch, serialVars, managerVars, DispatchInStep
<1>5. CASE (FormNetwork \/ StackStep) /\ UNCHANGED managerVars
  <2>1. UNCHANGED <<received, mainPc, code, current>>
    BY <1>5 DEF FormNetwork, StackStep, NodeAnswers, NodeDoesNotAnswer, StackUnblocksTx,
       StackResets, NetworkFormed, FormationFailed, serialVars, managerVars
  <2> QED
    BY <2>1 DEF DispatchInStep
<1>6. CASE OnEvent \/ WaitTimesOut \/ UNCHANGED vars
  BY <1>6 DEF OnEvent, WaitTimesOut, vars, gatewayVars, managerVars, serialVars, DispatchInStep
<1>7. CASE LoseByte
  BY <1>7, RequestsAssumption DEF LoseByte, Disturb, Typed, Program
<1>8. CASE \E req \in Requests : SendRequest(req)
  <2>1. PICK req \in Requests : SendRequest(req)
    BY <1>8
  <2>2. ~GatewayBusy
    BY <2>1, RequestsAssumption DEF SendRequest, Disturb, Typed, Program
  <2> QED
    BY <2>1, <2>2 DEF SendRequest, GatewayBusy, DispatchInStep
<1> QED
  BY <1>1, <1>2, <1>3, <1>4, <1>5, <1>6, <1>7, <1>8, Zenon DEF Next, GatewayStep, MainStep

(* The invariant under the refinement. *)
MessageInv == Typed /\ InStep /\ Linked

(* It holds in every state.                                                 *)
LEMMA MessageInvariant == Spec => []MessageInv
<1>1. Typed /\ InStep /\ Linked /\ [Next]_vars => Linked'
  BY CurrentKnownNext, DispatchInStepNext, DisturbancesStay DEF Linked, InStep
<1> QED
  BY <1>1, LinkedInit, InStepInvariant, PTL DEF Spec, MessageInv

--------------------------------------------------------------------------------
(* The refinement. *)

(* What MessageLink sees of a state. *)
Shown == <<waiting, RequestCode, Place, asked, AnswerCode, disturbances > 0>>

(* The mapping of the module's variables, in their order. *)
LEMMA ShownIsVars == Messages!messageVars = Shown
BY DEF Messages!messageVars, Shown

(* What the manager's receiver holds and the line make no confirmation or a *)
(* whole one, whose code AnswerCode is.                                     *)
LEMMA IdleReceiver ==
    ASSUME Typed, disturbances = 0, InStep
    PROVE /\ ansLine = <<>> => Idle(mrx) /\ AnswerCode = <<>>
          /\ ansLine # <<>> =>
                \E f \in AnswerFrames : /\ IsFrame(f) /\ AnswerCode = <<f[3]>>
                                        /\ Held(mrx) \o ansLine = f
                                        /\ (Idle(mrx) /\ ansLine = f) \/ Taking(mrx, f, ansLine)
<1>1. mrx \in Receiver /\ ansLine \in Seq(Byte)
  BY DEF Typed, Receivers, Lines
<1>2. CASE ansLine = <<>>
  <2>1. Idle(mrx)
    BY <1>1, <1>2, TakingIsNotOver DEF InStep, AnswerInStep, IsFrame, HeaderSize
  <2> QED
    BY <1>2, <2>1 DEF AnswerCode
<1>3. CASE ansLine # <<>>
  <2>1. PICK f \in AnswerFrames :
           IsFrame(f) /\ ((Idle(mrx) /\ ansLine = f) \/ Taking(mrx, f, ansLine))
    BY <1>3 DEF InStep, AnswerInStep
  <2>2. Held(mrx) \o ansLine = f
    <3>1. CASE Idle(mrx) /\ ansLine = f
      <4>1. Held(mrx) = <<>>
        BY <3>1 DEF Held, Idle
      <4> QED
        BY <1>1, <3>1, <4>1, ConcatEmptySeq
    <3>2. CASE Taking(mrx, f, ansLine)
      BY <1>1, <2>1, <3>2, HeldAndLine
    <3> QED
      BY <2>1, <3>1, <3>2
  <2>3. AnswerCode = <<f[3]>>
    BY <1>3, <2>2 DEF AnswerCode
  <2> QED
    BY <1>3, <2>1, <2>2, <2>3
<1> QED
  BY <1>2, <1>3

(* A frame of an answer has the code of a confirmation.                     *)
LEMMA AnswerFrameCode == ASSUME NEW f \in AnswerFrames, IsFrame(f) PROVE f[3] \in Confs
<1>1. PICK c \in Confs, d \in {<<SUCCESS>>, <<FAILURE>>} \cup {<<SUCCESS, b>> : b \in DataByte} :
         f = Frame(c, d)
  BY DEF AnswerFrames
<1>2. d \in Seq(Nat)
  <2>1. SUCCESS \in Nat /\ FAILURE \in Nat /\ DataByte \subseteq Nat
    BY GatewayAssumption, FrameAssumption DEF SUCCESS, FAILURE, Byte
  <2>2. \A a \in Nat : <<a>> \in Seq(Nat) /\ \A b \in Nat : <<a, b>> \in Seq(Nat)
    OBVIOUS
  <2> QED
    BY <2>1, <2>2, Zenon
<1>3. c \in Nat
  BY DEF Confs, ConfOf, RadioReq, LocalReq, RESET_REQ, PAN_ID_REQ, NODE_LIST_REQ, EP_LIST_REQ,
     CLUSTER_LIST_REQ, GET_ATTRIBUTE_VALUE_REQ
<1>4. StartByte \in Nat /\ HeaderSize + Len(d) \in Nat
  BY <1>2, FrameAssumption DEF HeaderSize
<1>5. ASSUME NEW h \in Seq(Nat), NEW t \in Seq(Nat), Len(h) = 3 PROVE (h \o t)[3] = h[3]
  <2>1. 3 \in 1 .. Len(h) + Len(t) /\ 3 <= Len(h)
    BY <1>5
  <2> QED
    BY <2>1, ConcatProperties
<1>6. <<StartByte, HeaderSize + Len(d), c>> \in Seq(Nat)
      /\ Len(<<StartByte, HeaderSize + Len(d), c>>) = 3
      /\ <<StartByte, HeaderSize + Len(d), c>>[3] = c
  BY <1>3, <1>4
<1>7. f[3] = c
  BY <1>1, <1>2, <1>5, <1>6, Zenon DEF Frame
<1> QED
  BY <1>7

(* An answer written to the empty line.                                     *)
LEMMA AnswerWritten ==
    ASSUME Typed, disturbances = 0, InStep, ansLine = <<>>, mrx' = mrx,
           NEW c \in AllReq, c \in Byte,
           NEW d \in {<<SUCCESS>>, <<FAILURE>>} \cup {<<SUCCESS, b>> : b \in DataByte},
           Write(Frame(ConfOf(c), d))
    PROVE AnswerCode = <<>> /\ AnswerCode' = <<c + 1>>
<1> DEFINE f == Frame(ConfOf(c), d)
<1>1. IsFrame(f) /\ f[3] = c + 1
  <2>1. ConfOf(c) \in Byte
    BY LengthsAssumption DEF AllReq
  <2>2. IsFrame(f) /\ f \in AnswerFrames
    BY AnswerIsFrame DEF AllReq
  <2>3. d \in Seq(Byte) /\ Len(d) > 0 /\ HeaderSize + Len(d) <= MaxByte
    BY AnswerDataFit
  <2>4. f[3] = ConfOf(c)
    BY <2>1, <2>3, FrameIsFrame
  <2> QED
    BY <2>2, <2>4 DEF ConfOf
<1> HIDE DEF f
<1>2. Idle(mrx) /\ AnswerCode = <<>>
  BY IdleReceiver
<1>3. f \in Seq(Byte) /\ f # <<>>
  BY <1>1 DEF IsFrame, HeaderSize
<1>4. ansLine' = f
  BY <1>3, ConcatEmptySeq DEF Write, f
<1>5. Held(mrx)' = <<>>
  BY <1>2 DEF Held, Idle
<1>6. (Held(mrx) \o ansLine)' = f
  BY <1>3, <1>4, <1>5, ConcatEmptySeq
<1> QED
  BY <1>1, <1>2, <1>3, <1>4, <1>6 DEF AnswerCode

(* Every step of the line is a step of MessageLink under the mapping, or    *)
(* does not show.                                                           *)
LEMMA NextImplements ==
    MessageInv /\ MessageInv' /\ [Next]_vars => [Messages!MessageNext]_Messages!messageVars
<1> SUFFICES ASSUME MessageInv, MessageInv', [Next]_vars
             PROVE Messages!MessageNext \/ UNCHANGED Shown
  BY ShownIsVars DEF Shown, Messages!messageVars
<1>0. CASE disturbances' # 0
  <2>1. disturbances' > 0
    BY <1>0, RequestsAssumption DEF MessageInv, Typed, Program
  <2> QED
    BY <2>1 DEF Messages!MessageNext
<1> SUFFICES ASSUME disturbances' = 0 PROVE Messages!MessageNext \/ UNCHANGED Shown
  BY <1>0
<1>a. /\ Typed /\ InStep /\ CurrentFits /\ GatewayInStep /\ AnswerInStep
      /\ CurrentKnown /\ DispatchInStep /\ disturbances = 0
      /\ UNCHANGED (disturbances > 0)
  BY DisturbancesStay DEF MessageInv, InStep, Linked
<1>b. ASSUME mainPc # "loop" PROVE reqLine = <<>> /\ ~received
  BY <1>a, <1>b DEF GatewayInStep, DispatchInStep
<1>c. ASSUME mainPc = "dispatch"
      PROVE /\ Place = "dispatched" /\ RequestCode = <<code>>
            /\ code \in AllReq /\ code \in Byte
  <2>1. Place = "dispatched"
    BY <1>b, <1>c DEF Place
  <2>2. code = current[3] /\ current # <<>>
    BY <1>a, <1>c DEF DispatchInStep, IsFrame, HeaderSize
  <2> QED
    BY <1>a, <2>1, <2>2 DEF RequestCode, CurrentKnown, Typed, Program
<1>1. CASE ByteFetched /\ UNCHANGED managerVars
  <2>1. /\ reqLine # <<>> /\ mainPc' = "loop" /\ ~received
        /\ UNCHANGED <<waiting, current, asked, ansLine, mrx>>
        /\ received' <=> reqLine' = <<>>
    BY <1>1, <1>a, LastByte DEF ByteFetched, managerVars, stackVars, GatewayInStep
  <2>2. Place = "line" /\ Place' \in {"line", "held"}
    BY <2>1 DEF Place
  <2>3. RequestCode' = RequestCode /\ AnswerCode' = AnswerCode
    BY <2>1, <2>2 DEF RequestCode, AnswerCode, Held
  <2>4. CASE Place' = "line"
    BY <1>a, <2>1, <2>2, <2>3, <2>4 DEF Shown
  <2>5. CASE Place' = "held"
    BY <1>a, <2>1, <2>2, <2>3, <2>5 DEF Messages!MessageNext, Messages!Receive
  <2> QED
    BY <2>2, <2>4, <2>5
<1>2. CASE (ByteHeld \/ HeldByteFetched) /\ UNCHANGED managerVars
  <2>1. FALSE
    BY <1>2, <1>a DEF ByteHeld, HeldByteFetched, GatewayInStep
  <2> QED
    BY <2>1
<1>3. CASE BeginDispatch /\ UNCHANGED managerVars
  <2>1. /\ mainPc = "loop" /\ received /\ ~received' /\ mainPc' = "dispatch"
        /\ reqLine = <<>>
        /\ UNCHANGED <<waiting, current, asked, ansLine, mrx, reqLine>>
    BY <1>3, <1>a DEF BeginDispatch, managerVars, stackVars, GatewayInStep
  <2>2. Place = "held" /\ Place' = "dispatched"
    BY <2>1 DEF Place
  <2>3. RequestCode' = RequestCode /\ AnswerCode' = AnswerCode
    BY <2>1, <2>2 DEF RequestCode, AnswerCode, Held
  <2> QED
    BY <1>a, <2>1, <2>2, <2>3 DEF Messages!MessageNext, Messages!Dispatch
<1>4. CASE (ResetRequest \/ LocalRequest) /\ GatewayStep /\ UNCHANGED managerVars
  <2>1. /\ mainPc = "dispatch" /\ code \in LocalReq \cup {RESET_REQ}
        /\ Write(Frame(ConfOf(code), <<SUCCESS>>))
        /\ mainPc' \in {"reset", "done"}
        /\ UNCHANGED <<waiting, current, asked, mrx, reqLine, received>>
        /\ ansLine = <<>>
    BY <1>4 DEF ResetRequest, LocalRequest, managerVars, stackVars, serialVars, GatewayStep
  <2>2. AnswerCode = <<>> /\ AnswerCode' = <<code + 1>>
    BY <1>a, <1>c, <2>1, AnswerWritten
  <2>3. Place' = "none" /\ RequestCode' = <<>>
    BY <1>b, <2>1 DEF Place, RequestCode
  <2>4. Messages!AnswerAtOnce(code)
    BY <1>c, <2>1, <2>2, <2>3 DEF Messages!AnswerAtOnce
  <2> QED
    BY <1>a, <2>1, <2>4 DEF Messages!MessageNext
<1>5. CASE RadioRequest /\ UNCHANGED managerVars
  <2>1. /\ mainPc = "dispatch" /\ code \in RadioReq /\ asked' = asked \cup {code}
        /\ mainPc' = "done"
        /\ UNCHANGED <<waiting, current, mrx, ansLine, reqLine, received>>
    BY <1>5 DEF RadioRequest, managerVars, serialVars
  <2>2. Place' = "none" /\ RequestCode' = <<>> /\ AnswerCode' = AnswerCode
    BY <1>b, <2>1 DEF Place, RequestCode, AnswerCode, Held
  <2>3. Messages!AskNode(code)
    BY <1>c, <2>1, <2>2 DEF Messages!AskNode
  <2> QED
    BY <1>a, <2>1, <2>3 DEF Messages!MessageNext
<1>6. CASE UnknownRequest /\ UNCHANGED managerVars
  <2>1. FALSE
    BY <1>6, <1>c DEF UnknownRequest, AllReq
  <2> QED
    BY <2>1
<1>7. CASE (InitInternalVariables \/ EndDispatch) /\ UNCHANGED managerVars
  <2>1. /\ mainPc \in {"reset", "done"} /\ mainPc' \in {"done", "loop"}
        /\ reqLine = <<>> /\ ~received /\ ~received'
        /\ UNCHANGED <<waiting, current, asked, mrx, ansLine, reqLine>>
    BY <1>7, <1>b DEF InitInternalVariables, EndDispatch, managerVars, stackVars
  <2>2. Place = "none" /\ Place' = "none"
    BY <2>1 DEF Place
  <2> QED
    BY <1>a, <2>1, <2>2 DEF Shown, RequestCode, AnswerCode, Held
<1>8. CASE /\ \/ FormNetwork \/ StackUnblocksTx \/ StackResets \/ NetworkFormed
              \/ FormationFailed \/ \E req \in RadioReq : NodeDoesNotAnswer(req)
           /\ UNCHANGED managerVars
  <2>1. /\ asked' \subseteq asked
        /\ UNCHANGED <<waiting, current, mrx, ansLine, mainPc, reqLine, received>>
    BY <1>8 DEF FormNetwork, StackUnblocksTx, StackResets, NetworkFormed, FormationFailed,
       NodeDoesNotAnswer, serialVars, managerVars
  <2>2. Messages!Forget
    BY <2>1 DEF Messages!Forget, RequestCode, AnswerCode, Held, Place
  <2> QED
    BY <1>a, <2>2 DEF Messages!MessageNext
<1>9. ASSUME NEW req \in RadioReq, NodeAnswers(req), GatewayStep, UNCHANGED managerVars
      PROVE Messages!MessageNext
  <2>1. /\ req \in asked /\ asked' \in {asked, asked \ {req}} /\ ansLine = <<>>
        /\ UNCHANGED <<waiting, current, mrx, mainPc, reqLine, received>>
    BY <1>9 DEF NodeAnswers, GatewayStep, serialVars, managerVars
  <2>2. PICK d \in {<<SUCCESS>>, <<FAILURE>>} \cup {<<SUCCESS, b>> : b \in DataByte} :
           Write(Frame(ConfOf(req), d))
    BY <1>9, Zenon DEF NodeAnswers
  <2>3. req \in AllReq /\ req \in Byte
    BY <1>a, <2>1 DEF AllReq, Typed, Program
  <2>4. AnswerCode = <<>> /\ AnswerCode' = <<req + 1>>
    BY <1>a, <2>1, <2>2, <2>3, AnswerWritten
  <2>5. Place' = Place /\ RequestCode' = RequestCode
    BY <2>1 DEF Place, RequestCode
  <2>6. Messages!AnswerOfNode(req)
    BY <2>1, <2>4, <2>5 DEF Messages!AnswerOfNode
  <2> QED
    BY <1>a, <2>6 DEF Messages!MessageNext
<1>10. CASE OnEvent
  <2> DEFINE taken == Take(mrx, Head(ansLine))
  <2>1. /\ ansLine # <<>> /\ ansLine' = Tail(ansLine)
        /\ mrx' = IF taken.state = "body" THEN Settled(taken) ELSE NewReceiver
        /\ UNCHANGED <<current, asked, mainPc, reqLine, received>>
    BY <1>10 DEF OnEvent, stackVars, serialVars
  <2>2. waiting' = (waiting /\ ~(taken.complete /\ taken.buf[1] \in Confs))
    BY <1>10, Zenon DEF OnEvent
  <2>3. PICK f \in AnswerFrames :
           /\ IsFrame(f) /\ AnswerCode = <<f[3]>> /\ Held(mrx) \o ansLine = f
           /\ (Idle(mrx) /\ ansLine = f) \/ Taking(mrx, f, ansLine)
    BY <1>a, <2>1, IdleReceiver
  <2>4. Place' = Place /\ RequestCode' = RequestCode
    BY <2>1 DEF Place, RequestCode
  <2>5. mrx \in Receiver /\ ansLine \in Seq(Byte)
    BY <1>a DEF Typed, Receivers, Lines
  <2>6. /\ taken \in Receiver
        /\ \/ taken.complete = FALSE /\ Taking(taken, f, Tail(ansLine))
           \/ /\ taken.complete = TRUE /\ Tail(ansLine) = <<>> /\ Taken(taken.buf, f)
    <3>1. CASE Idle(mrx) /\ ansLine = f
      <4>1. Head(ansLine) \in Byte
        BY <2>1, <2>5, HeadTailProperties
      <4> QED
        BY <2>3, <2>5, <3>1, <4>1, TakeFirst, TakeType
    <3>2. CASE Taking(mrx, f, ansLine)
      BY <2>3, <2>5, <3>2, TakeNext
    <3> QED
      BY <2>3, <3>1, <3>2
  <2> HIDE DEF taken
  <2>7. CASE taken.complete = FALSE /\ Taking(taken, f, Tail(ansLine))
    <3>1. mrx' = Settled(taken) /\ Tail(ansLine) # <<>>
      BY <2>1, <2>3, <2>6, <2>7, TakingIsNotOver DEF Taking
    <3>2. Taking(mrx', f, ansLine') /\ mrx' \in Receiver
      BY <2>1, <2>6, <2>7, <3>1, SettledKeeps, SettledType
    <3>3. Held(mrx') \o ansLine' = f
      BY <2>3, <3>2, HeldAndLine
    <3>4. AnswerCode' = AnswerCode
      BY <2>1, <2>3, <3>1, <3>3 DEF AnswerCode, Held
    <3>5. waiting' = waiting
      BY <1>a, <2>2, <2>7, Zenon DEF Typed, Flags
    <3> QED
      BY <1>a, <2>1, <2>4, <3>4, <3>5 DEF Shown
  <2>8. CASE taken.complete = TRUE /\ Tail(ansLine) = <<>> /\ Taken(taken.buf, f)
    <3>1. taken.buf[1] \in Confs
      <4>1. 1 \in Index /\ 1 + 2 <= Len(f) /\ 1 + 2 = 3
        BY <2>3, FrameAssumption DEF Index, IsFrame, HeaderSize
      <4>2. taken.buf[1] = f[3]
        BY <2>8, <4>1 DEF Taken
      <4> QED
        BY <2>3, <4>2, AnswerFrameCode
    <3>2. waiting' = FALSE
      BY <2>2, <2>8, <3>1, Zenon
    <3>3. AnswerCode # <<>> /\ AnswerCode' = <<>>
      BY <2>1, <2>3, <2>8 DEF AnswerCode
    <3>4. Messages!Deliver
      BY <2>1, <2>4, <3>2, <3>3 DEF Messages!Deliver
    <3> QED
      BY <1>a, <3>4 DEF Messages!MessageNext
  <2> QED
    BY <2>6, <2>7, <2>8, Zenon
<1>11. CASE WaitTimesOut
  <2>1. /\ waiting /\ waiting' = FALSE /\ reqLine = <<>> /\ ansLine = <<>> /\ mainPc = "loop"
        /\ UNCHANGED <<current, asked, mainPc, reqLine, received, ansLine, mrx>>
    BY <1>11 DEF WaitTimesOut, gatewayVars, stackVars, serialVars
  <2>2. Place \in {"none", "held"} /\ AnswerCode = <<>>
    BY <2>1 DEF Place, AnswerCode
  <2>3. Place' = Place /\ RequestCode' = RequestCode /\ AnswerCode' = AnswerCode
    BY <2>1 DEF Place, RequestCode, AnswerCode, Held
  <2> QED
    BY <1>a, <2>1, <2>2, <2>3 DEF Messages!MessageNext, Messages!GiveUp
<1>12. CASE LoseByte
  BY <1>12, <1>a, RequestsAssumption DEF LoseByte, Disturb, Typed, Program
<1>13. ASSUME NEW req \in Requests, SendRequest(req) PROVE Messages!MessageNext
  <2>1. ~GatewayBusy
    BY <1>13, <1>a, RequestsAssumption DEF SendRequest, Disturb, Typed, Program
  <2>2. /\ ~waiting /\ waiting' = TRUE /\ reqLine = <<>> /\ ansLine = <<>>
        /\ mainPc = "loop" /\ ~received
        /\ current' = Frame(req[1], req[2]) /\ reqLine' = current'
        /\ UNCHANGED <<asked, ansLine, mrx>>
    BY <1>13, <2>1 DEF SendRequest, GatewayBusy, stackVars
  <2>3. current'[3] = req[1] /\ current' # <<>> /\ req[1] \in AllReq
    BY <2>2, RequestCodeInFrame, RequestIsFrame DEF IsFrame, HeaderSize
  <2>4. Place = "none" /\ Place' = "line" /\ RequestCode' = <<req[1]>>
        /\ AnswerCode = <<>> /\ AnswerCode' = AnswerCode
    BY <2>2, <2>3 DEF Place, RequestCode, AnswerCode
  <2>5. Messages!Send(req[1])
    BY <2>2, <2>4 DEF Messages!Send
  <2> QED
    BY <1>a, <2>3, <2>5 DEF Messages!MessageNext, AllReq
<1>14. CASE UNCHANGED vars
  BY <1>14 DEF vars, gatewayVars, managerVars, serialVars, stackVars, Shown, Place, RequestCode,
     AnswerCode, Held
<1> QED
  BY <1>1, <1>2, <1>3, <1>4, <1>5, <1>6, <1>7, <1>8, <1>9, <1>10, <1>11, <1>12, <1>13, <1>14,
     Zenon
  DEF Next, GatewayStep, MainStep, StackStep

(* ZiBGateway.c, 983-1212 and 1454-1503, and ZiBGatewayComm.cpp, 287-333:   *)
(* for requests of every length and contents that the gateway's buffer      *)
(* holds, the bytes, receivers, interrupt and shared buffer implement a     *)
(* link of whole messages, until a byte is lost or a request overtakes the  *)
(* gateway.                                                                 *)
THEOREM SerialImplementsMessages == Spec => MessageContract
<1>1. Init => Messages!MessageInit
  BY DEF Init, InitGateway, Messages!MessageInit, RequestCode, Place, AnswerCode
<1> QED
  BY <1>1, MessageInvariant, NextImplements, PTL
  DEF Spec, MessageContract, Messages!MessageSpec

================================================================================
