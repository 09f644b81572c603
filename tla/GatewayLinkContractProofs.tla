----------------------- MODULE GatewayLinkContractProofs -----------------------
(***************************************************************************)
(* GatewayLink implements RequestLink: Spec => RequestContract.  That an   *)
(* answer from the gateway's memory is handled once and in turn needs an   *)
(* invariant of its own, FifoInv, about the order on the line.             *)
(***************************************************************************)
EXTENDS GatewayLinkProofs

Parsing(r) == procPc = "parsing" /\ procMsg = Conf(r)

(* In a queue, everything before the answer to l answers an earlier        *)
(* request.                                                                *)
Ordered(s, l) == \A i, j \in DOMAIN s : \A r \in ReqId :
                    i < j /\ s[j] = Conf(l) /\ s[i] = Conf(r) => r < l

(* The answer to l is somewhere between gateway and handler, and all that  *)
(* is before it answers an earlier request.                                *)
InTurn(l) ==
    /\ l \in Unhandled
    /\ Ordered(inStack, l) /\ Ordered(wire, l)
    /\ \A r \in ReqId :
          /\ ConfIn(wire, l) /\ ConfIn(inStack, r) => r < l
          /\ l \in owed /\ (ConfIn(inStack, r) \/ ConfIn(wire, r)) => r < l
          /\ Parsing(r) /\ (l \in owed \/ ConfIn(inStack, l) \/ ConfIn(wire, l)) => r < l

(* No answer is to a later request than the current one, and the gateway's *)
(* answers from its memory are in turn.                                    *)
FifoInv ==
    /\ \A r \in Unhandled : r <= req /\ (mainPc = "cleared" => r < req)
    /\ \A l \in local : InTurn(l)

--------------------------------------------------------------------------------

(* Where an answer whose handler has yet to run can be.                    *)
LEMMA UnhandledFacts ==
    \A r \in ReqId : r \in Unhandled <=>
        r \in owed \/ ConfIn(wire, r) \/ ConfIn(inStack, r) \/ Parsing(r)
BY DEF Unhandled, Parsing

(* The order in a queue when a message is appended to it ...               *)
LEMMA OrderedAppend ==
    ASSUME NEW s \in Seq(Message), NEW m \in Message, NEW l \in ReqId, Ordered(s, l),
           m = Conf(l) => \A r \in ReqId : ConfIn(s, r) => r < l
    PROVE  Ordered(Append(s, m), l)
<1>1. /\ DOMAIN Append(s, m) = 1 .. Len(s) + 1 /\ DOMAIN s = 1 .. Len(s)
      /\ Append(s, m)[Len(s) + 1] = m
      /\ \A i \in 1 .. Len(s) : Append(s, m)[i] = s[i]
      /\ Len(s) \in Nat
  OBVIOUS
<1>2. SUFFICES ASSUME NEW i \in 1 .. Len(s) + 1, NEW j \in 1 .. Len(s) + 1, NEW r \in ReqId,
                      i < j, Append(s, m)[j] = Conf(l), Append(s, m)[i] = Conf(r)
               PROVE  r < l
  BY <1>1 DEF Ordered
<1>3. i \in 1 .. Len(s) /\ s[i] = Conf(r)
  BY <1>1, <1>2
<1>4. CASE j \in 1 .. Len(s)
  BY <1>1, <1>2, <1>3, <1>4 DEF Ordered
<1>5. CASE j = Len(s) + 1
  <2>1. ConfIn(s, r)
    BY <1>1, <1>3 DEF ConfIn
  <2> QED BY <1>1, <1>2, <1>5, <2>1
<1> QED BY <1>1, <1>4, <1>5

(* ... and when its first message is taken.                                *)
LEMMA OrderedTail ==
    ASSUME NEW s \in Seq(Message), s # <<>>, NEW l \in ReqId, Ordered(s, l)
    PROVE  /\ Ordered(Tail(s), l)
           /\ \A r \in ReqId : Head(s) = Conf(r) /\ ConfIn(Tail(s), l) => r < l
<1>1. /\ Len(s) \in Nat \ {0} /\ DOMAIN s = 1 .. Len(s) /\ DOMAIN Tail(s) = 1 .. Len(s) - 1
      /\ Head(s) = s[1]
      /\ \A i \in 1 .. Len(s) - 1 : Tail(s)[i] = s[i + 1]
  BY HeadTailProperties
<1>2. Ordered(Tail(s), l)
  <2> SUFFICES ASSUME NEW i \in 1 .. Len(s) - 1, NEW j \in 1 .. Len(s) - 1, NEW r \in ReqId,
                      i < j, Tail(s)[j] = Conf(l), Tail(s)[i] = Conf(r)
               PROVE  r < l
    BY <1>1 DEF Ordered
  <2>1. /\ i + 1 \in DOMAIN s /\ j + 1 \in DOMAIN s /\ i + 1 < j + 1
        /\ s[j + 1] = Conf(l) /\ s[i + 1] = Conf(r)
    BY <1>1
  <2> QED BY <2>1 DEF Ordered
<1>3. ASSUME NEW r \in ReqId, Head(s) = Conf(r), ConfIn(Tail(s), l) PROVE r < l
  <2>1. PICK j \in 1 .. Len(s) - 1 : Tail(s)[j] = Conf(l)
    BY <1>1, <1>3 DEF ConfIn
  <2>2. j + 1 \in DOMAIN s /\ s[j + 1] = Conf(l) /\ 1 \in DOMAIN s /\ s[1] = Conf(r) /\ 1 < j + 1
    BY <1>1, <1>3, <2>1
  <2> QED BY <2>2 DEF Ordered
<1> QED BY <1>2, <1>3

(* A step that moves no answer keeps Unhandled, and FifoInv too unless it  *)
(* clears a new request without counting on.                               *)
LEMMA SameTurn ==
    ASSUME UNCHANGED <<owed, local, wire, inStack>>,
           \A r \in ReqId : Parsing(r)' <=> Parsing(r)
    PROVE  /\ Unhandled' = Unhandled
           /\ \A l \in local : InTurn(l) => InTurn(l)'
<1>1. \A r \in ReqId : /\ ConfIn(wire, r)' <=> ConfIn(wire, r)
                       /\ ConfIn(inStack, r)' <=> ConfIn(inStack, r)
  BY DEF ConfIn
<1>2. Unhandled' = Unhandled
  BY <1>1 DEF Unhandled, Parsing
<1>3. \A l \in local : /\ Ordered(wire, l)' <=> Ordered(wire, l)
                       /\ Ordered(inStack, l)' <=> Ordered(inStack, l)
  BY DEF Ordered
<1>4. \A l \in local : ConfIn(wire, l)' = ConfIn(wire, l) /\ ConfIn(inStack, l)' = ConfIn(inStack, l)
  BY DEF ConfIn
<1> QED BY <1>1, <1>2, <1>3, <1>4 DEF InTurn

(* The steps that move no answer. *)
Aside == \/ StartThreadProcessInMsg \/ StartRequest \/ TestWritten \/ WaitSucceeds
         \/ WaitTimesOut \/ ReturnFromRequest \/ StopSerialPort \/ JoinListener
         \/ StopThreadProcessInMsg \/ JoinThreadProcessInMsg \/ ListenerAside
         \/ SetNewInMsgEvent \/ WakeForMessages \/ WakeForStop \/ SetConfEvent
         \/ UNCHANGED vars

LEMMA AsideFacts ==
    ASSUME LinkInv, Aside
    PROVE  /\ UNCHANGED <<owed, local, wire, inStack, procMsg>>
           /\ \A r \in ReqId : Parsing(r)' <=> Parsing(r)
           /\ \/ req' = req /\ (mainPc' = "cleared" => mainPc = "cleared")
              \/ req' = req + 1
<1> USE DEF requestVars, errorVars, gatewayVars, queueVars, procVars, signalVars, linkVars
<1>1. CASE ListenerAside
  BY <1>1, ListenerFacts DEF Parsing
<1>2. CASE ~ListenerAside
  <2>1. UNCHANGED <<owed, local, wire, inStack, procMsg>>
    BY <1>2 DEF Aside, StartThreadProcessInMsg, StartRequest, TestWritten, WaitSucceeds,
       WaitTimesOut, ReturnFromRequest, StopSerialPort, JoinListener, StopThreadProcessInMsg,
       JoinThreadProcessInMsg, SetNewInMsgEvent, WakeForMessages, WakeForStop, SetConfEvent, vars
  <2>2. procPc' = "parsing" <=> procPc = "parsing"
    BY <1>2 DEF Aside, LinkInv, StartThreadProcessInMsg, StartRequest, TestWritten, WaitSucceeds,
       WaitTimesOut, ReturnFromRequest, StopSerialPort, JoinListener, StopThreadProcessInMsg,
       JoinThreadProcessInMsg, SetNewInMsgEvent, WakeForMessages, WakeForStop, SetConfEvent, vars
  <2>3. \/ req' = req /\ (mainPc' = "cleared" => mainPc = "cleared")
        \/ req' = req + 1
    BY <1>2 DEF Aside, StartThreadProcessInMsg, StartRequest, TestWritten, WaitSucceeds,
       WaitTimesOut, ReturnFromRequest, StopSerialPort, JoinListener, StopThreadProcessInMsg,
       JoinThreadProcessInMsg, SetNewInMsgEvent, WakeForMessages, WakeForStop, SetConfEvent, vars
  <2> QED BY <2>1, <2>2, <2>3 DEF Parsing
<1> QED BY <1>1, <1>2

(* FifoInv is inductive under LinkInv.                                     *)
LEMMA NextFifoInv == LinkInv /\ FifoInv /\ [Next]_vars => FifoInv'
<1> SUFFICES ASSUME LinkInv, FifoInv, [Next]_vars PROVE FifoInv'
  OBVIOUS
<1> USE DEF requestVars, errorVars, gatewayVars, queueVars, procVars, signalVars, linkVars
<1>0. /\ wire \in Seq(Message) /\ inStack \in Seq(Message) /\ owed \subseteq ReqId
      /\ local \subseteq ReqId /\ req \in 0 .. MaxReq /\ Unhandled \subseteq ReqId
  BY DEF LinkInv, TypeOK, Unhandled
<1>1. CASE Aside
  <2>1. Unhandled' = Unhandled /\ \A l \in local : InTurn(l) => InTurn(l)'
    BY <1>1, AsideFacts, SameTurn
  <2>2. \A r \in Unhandled : r <= req' /\ (mainPc' = "cleared" => r < req')
    BY <1>0, <1>1, AsideFacts DEF FifoInv, ReqId
  <2>3. local' = local
    BY <1>1, AsideFacts
  <2> QED BY <2>1, <2>2, <2>3 DEF FifoInv
<1>2. CASE WriteMessage
  <2>1. /\ mainPc = "cleared" /\ mainPc' = "written"
        /\ UNCHANGED <<req, wire, inStack, procPc, procMsg>>
        /\ owed' \in {owed, owed \cup {req}} /\ local' \in {local, local \cup {req}}
        /\ (local' # local => owed' = owed \cup {req})
    BY <1>2 DEF WriteMessage
  <2>2. req \in ReqId
    BY <1>0, <2>1 DEF LinkInv, ReqId
  <2>3. \A r \in ReqId : /\ ConfIn(wire, r)' <=> ConfIn(wire, r)
                         /\ ConfIn(inStack, r)' <=> ConfIn(inStack, r)
                         /\ Parsing(r)' <=> Parsing(r)
    BY <2>1 DEF ConfIn, Parsing
  <2>4. \A r \in ReqId : ConfIn(wire, r) \/ ConfIn(inStack, r) \/ Parsing(r) => r < req
    BY <2>1, UnhandledFacts DEF FifoInv
  <2>5. Unhandled' \in {Unhandled, Unhandled \cup {req}}
        /\ (req \in owed' => req \in Unhandled') /\ Unhandled \subseteq Unhandled'
    BY <2>1, <2>2, <2>3 DEF Unhandled, Parsing
  <2>6. \A r \in Unhandled' : r <= req'
    BY <1>0, <2>1, <2>5 DEF FifoInv
  <2>7. \A l \in ReqId : /\ Ordered(wire, l)' <=> Ordered(wire, l)
                         /\ Ordered(inStack, l)' <=> Ordered(inStack, l)
    BY <2>1 DEF Ordered
  <2>8. ASSUME NEW l \in local' PROVE InTurn(l)'
    <3>0. l \in ReqId
      BY <1>0, <2>1, <2>2
    <3>1. CASE l \in local /\ l # req
      <4>1. InTurn(l) /\ (l \in owed' <=> l \in owed) /\ l \in Unhandled'
        BY <2>1, <2>5, <3>1 DEF FifoInv, InTurn
      <4> QED BY <2>3, <2>7, <3>0, <4>1 DEF InTurn
    <3>2. CASE l = req
      <4>1. l \in Unhandled'
        BY <2>1, <2>2, <2>5, <3>2 DEF FifoInv, InTurn
      <4>2. ~ConfIn(wire, l) /\ ~ConfIn(inStack, l)
        BY <1>0, <2>2, <2>4, <3>2 DEF ReqId
      <4>3. Ordered(wire, l) /\ Ordered(inStack, l)
        BY <4>2 DEF Ordered, ConfIn
      <4>4. \A r \in ReqId : ConfIn(wire, r) \/ ConfIn(inStack, r) \/ Parsing(r) => r < l
        BY <2>4, <3>2
      <4> QED BY <2>3, <2>7, <3>0, <4>1, <4>2, <4>3, <4>4 DEF InTurn
    <3>3. l \in local \/ l = req
      BY <2>1
    <3> QED BY <3>1, <3>2, <3>3
  <2> QED BY <2>1, <2>6, <2>8 DEF FifoInv
<1>3. ASSUME NEW q \in ReqId, GatewayAnswers(q) \/ GatewayAnswersAgain(q) PROVE FifoInv'
  <2>1. /\ q \in owed /\ wire' = Append(wire, Conf(q))
        /\ UNCHANGED <<mainPc, req, local, inStack, procPc, procMsg>>
        /\ \A l \in owed \cap local : q <= l
        /\ owed' = owed \ {q} \/ (owed' = owed /\ q \notin local)
    BY <1>3 DEF GatewayAnswers, GatewayAnswersAgain
  <2>2. Conf(q) \in Message /\ \A r \in ReqId : Conf(q) = Conf(r) <=> q = r
    BY DEF Message, Conf
  <2>3. \A r \in ReqId : ConfIn(wire', r) <=> ConfIn(wire, r) \/ q = r
    BY <1>0, <2>1, <2>2, AppendFacts
  <2>4. \A r \in ReqId : /\ ConfIn(wire, r)' = ConfIn(wire', r)
                         /\ ConfIn(inStack, r)' = ConfIn(inStack, r)
                         /\ Parsing(r)' = Parsing(r)
    BY <2>1 DEF ConfIn, Parsing
  <2>5. Unhandled' = Unhandled
    BY <2>1, <2>3, <2>4 DEF Unhandled, Parsing
  <2>6. ASSUME NEW l \in local PROVE InTurn(l)'
    <3>1. InTurn(l) /\ l \in ReqId
      BY <1>0 DEF FifoInv
    <3>2. q = l => \A r \in ReqId : ConfIn(wire, r) \/ ConfIn(inStack, r) \/ Parsing(r) => r < l
      BY <2>1, <3>1 DEF InTurn
    <3>3. Ordered(wire', l)
      BY <1>0, <2>1, <2>2, <3>1, <3>2, OrderedAppend DEF InTurn
    <3>4. Ordered(wire, l)' /\ Ordered(inStack, l)'
      BY <2>1, <3>1, <3>3 DEF InTurn, Ordered
    <3>5. l \in owed' => l \in owed /\ q < l
      BY <2>1, <3>1 DEF ReqId
    <3> QED BY <2>3, <2>4, <2>5, <3>1, <3>2, <3>4, <3>5 DEF InTurn
  <2> QED BY <2>1, <2>5, <2>6 DEF FifoInv
<1>4. ASSUME NEW m \in Inds, GatewayIndicates(m) PROVE FifoInv'
  <2>1. /\ wire' = Append(wire, m)
        /\ UNCHANGED <<mainPc, req, owed, local, inStack, procPc, procMsg>>
    BY <1>4 DEF GatewayIndicates
  <2>2. m \in Message /\ \A r \in ReqId : m # Conf(r)
    BY DEF Message, Inds, Conf
  <2>3. \A r \in ReqId : ConfIn(wire', r) <=> ConfIn(wire, r)
    BY <1>0, <2>1, <2>2, AppendFacts
  <2>4. \A r \in ReqId : /\ ConfIn(wire, r)' = ConfIn(wire', r)
                         /\ ConfIn(inStack, r)' = ConfIn(inStack, r)
                         /\ Parsing(r)' = Parsing(r)
    BY <2>1 DEF ConfIn, Parsing
  <2>5. Unhandled' = Unhandled
    BY <2>1, <2>3, <2>4 DEF Unhandled, Parsing
  <2>6. ASSUME NEW l \in local PROVE InTurn(l)'
    <3>1. InTurn(l) /\ l \in ReqId
      BY <1>0 DEF FifoInv
    <3>2. Ordered(wire', l)
      BY <1>0, <2>1, <2>2, <3>1, OrderedAppend DEF InTurn
    <3>3. Ordered(wire, l)' /\ Ordered(inStack, l)'
      BY <2>1, <3>1, <3>2 DEF InTurn, Ordered
    <3> QED BY <2>1, <2>3, <2>4, <2>5, <3>1, <3>3 DEF InTurn
  <2> QED BY <2>1, <2>5, <2>6 DEF FifoInv
<1>5. CASE PushInMsgStack
  <2>1. /\ wire # <<>> /\ wire' = Tail(wire) /\ inStack' = Append(inStack, Head(wire))
        /\ UNCHANGED <<mainPc, req, owed, local, procPc, procMsg>>
    BY <1>5 DEF PushInMsgStack
  <2>2. Head(wire) \in Message
    BY <1>0, <2>1, QueueFacts
  <2>3. \A r \in ReqId : ConfIn(wire, r) <=> Head(wire) = Conf(r) \/ ConfIn(wire', r)
    BY <1>0, <2>1, TailFacts
  <2>4. \A r \in ReqId : ConfIn(inStack', r) <=> ConfIn(inStack, r) \/ Head(wire) = Conf(r)
    BY <1>0, <2>1, <2>2, AppendFacts
  <2>5. \A r \in ReqId : /\ ConfIn(wire, r)' = ConfIn(wire', r)
                         /\ ConfIn(inStack, r)' = ConfIn(inStack', r)
                         /\ Parsing(r)' = Parsing(r)
    BY <2>1 DEF ConfIn, Parsing
  <2>6. Unhandled' = Unhandled
    BY <2>1, <2>3, <2>4, <2>5 DEF Unhandled, Parsing
  <2>7. ASSUME NEW l \in local PROVE InTurn(l)'
    <3>1. InTurn(l) /\ l \in ReqId
      BY <1>0 DEF FifoInv
    <3>2. Head(wire) = Conf(l) => \A r \in ReqId : ConfIn(inStack, r) => r < l
      BY <2>3, <3>1 DEF InTurn
    <3>3. Ordered(inStack', l)
      BY <1>0, <2>1, <2>2, <3>1, <3>2, OrderedAppend DEF InTurn
    <3>4. Ordered(wire', l) /\ \A r \in ReqId : Head(wire) = Conf(r) /\ ConfIn(wire', l) => r < l
      BY <1>0, <2>1, <3>1, OrderedTail DEF InTurn
    <3>5. Ordered(wire, l)' /\ Ordered(inStack, l)'
      BY <3>3, <3>4 DEF Ordered
    <3> QED BY <2>1, <2>3, <2>4, <2>5, <2>6, <3>1, <3>4, <3>5 DEF InTurn
  <2> QED BY <2>1, <2>6, <2>7 DEF FifoInv
<1>6. CASE PopInMsgStack
  <2>1. procPc = "draining" /\ UNCHANGED <<mainPc, req, owed, local, wire>>
        /\ \A r \in ReqId : ~Parsing(r)
    BY <1>6 DEF PopInMsgStack, Parsing
  <2>2. CASE inStack # <<>>
    <3>1. inStack' = Tail(inStack) /\ procMsg' = Head(inStack) /\ procPc' = "parsing"
      BY <1>6, <2>2 DEF PopInMsgStack
    <3>2. \A r \in ReqId : ConfIn(inStack, r) <=> Head(inStack) = Conf(r) \/ ConfIn(inStack', r)
      BY <1>0, <2>2, <3>1, TailFacts
    <3>3. \A r \in ReqId : /\ ConfIn(wire, r)' = ConfIn(wire, r)
                           /\ ConfIn(inStack, r)' = ConfIn(inStack', r)
                           /\ Parsing(r)' <=> Head(inStack) = Conf(r)
      BY <2>1, <3>1 DEF ConfIn, Parsing
    <3>4. Unhandled' = Unhandled
      BY <2>1, <3>1, <3>2, <3>3 DEF Unhandled, Parsing
    <3>5. ASSUME NEW l \in local PROVE InTurn(l)'
      <4>1. InTurn(l) /\ l \in ReqId
        BY <1>0 DEF FifoInv
      <4>2. /\ Ordered(inStack', l)
            /\ \A r \in ReqId : Head(inStack) = Conf(r) /\ ConfIn(inStack', l) => r < l
        BY <1>0, <2>2, <3>1, <4>1, OrderedTail DEF InTurn
      <4>3. Ordered(wire, l)' /\ Ordered(inStack, l)'
        BY <2>1, <4>1, <4>2 DEF Ordered, InTurn
      <4> QED BY <2>1, <3>2, <3>3, <3>4, <4>1, <4>2, <4>3 DEF InTurn
    <3> QED BY <2>1, <3>4, <3>5 DEF FifoInv
  <2>3. CASE inStack = <<>>
    <3>1. procPc' = "waiting" /\ UNCHANGED inStack
      BY <1>6, <2>3 DEF PopInMsgStack
    <3>2. \A r \in ReqId : Parsing(r)' <=> Parsing(r)
      BY <2>1, <3>1 DEF Parsing
    <3>3. Unhandled' = Unhandled /\ \A l \in local : InTurn(l) => InTurn(l)'
      BY <2>1, <3>1, <3>2, SameTurn
    <3> QED BY <2>1, <3>3 DEF FifoInv
  <2> QED BY <2>2, <2>3
<1>7. CASE HandleMessage
  <2>1. /\ procPc = "parsing" /\ procMsg \in Message /\ procPc' # "parsing"
        /\ local' = local \ {procMsg.id}
        /\ UNCHANGED <<mainPc, req, owed, wire, inStack>>
    BY <1>7 DEF HandleMessage, LinkInv
  <2>2. \A r \in ReqId : /\ ConfIn(wire, r)' = ConfIn(wire, r)
                         /\ ConfIn(inStack, r)' = ConfIn(inStack, r)
                         /\ ~Parsing(r)'
                         /\ Parsing(r) => r = procMsg.id
    BY <2>1 DEF ConfIn, Parsing, Conf
  <2>3. Unhandled' \subseteq Unhandled /\ \A r \in Unhandled : ~Parsing(r) => r \in Unhandled'
    BY <2>1, <2>2 DEF Unhandled, Parsing
  <2>4. ASSUME NEW l \in local' PROVE InTurn(l)'
    <3>1. InTurn(l) /\ l \in ReqId /\ ~Parsing(l)
      BY <1>0, <2>1, <2>2 DEF FifoInv
    <3>2. Ordered(wire, l)' /\ Ordered(inStack, l)'
      BY <2>1, <3>1 DEF InTurn, Ordered
    <3> QED BY <2>1, <2>2, <2>3, <3>1, <3>2 DEF InTurn
  <2> QED BY <2>1, <2>3, <2>4 DEF FifoInv
<1> QED
  BY <1>1, <1>2, <1>3, <1>4, <1>5, <1>6, <1>7
  DEF Next, MainStep, GatewayStep, ListenerStep, ListenerAside, ProcessStep, Finished, Aside

--------------------------------------------------------------------------------
(* The refinement. *)

Phase == IF mainPc \in {"cleared", "waiting", "returning"} THEN mainPc
         ELSE IF mainPc = "written" THEN "waiting" ELSE "idle"
Parsed == IF procPc = "parsed" THEN procMsg.id ELSE 0
Outcome == IF result.code \in {"NONE", "SUCCESS"} THEN result.code ELSE "FAILED"

Shown == <<Phase, req, confEvent, Unhandled, local, Parsed, result.conf # 0, Outcome>>

(* The variables of RequestLink, under the refinement mapping.             *)
LEMMA ShownIsVars == Contract!requestVars = Shown
BY DEF Contract!requestVars, Shown, Phase, Parsed, Outcome

(* Every step of the link is a step of RequestLink under the mapping, or   *)
(* does not show.                                                          *)
LEMMA NextImplements ==
    LinkInv /\ FifoInv /\ [Next]_vars => [Contract!LinkNext]_Contract!requestVars
<1> SUFFICES ASSUME LinkInv, FifoInv, [Next]_vars PROVE Contract!LinkNext \/ UNCHANGED Shown
  BY ShownIsVars DEF Shown, Contract!requestVars, Phase, Parsed, Outcome
<1> USE DEF requestVars, errorVars, gatewayVars, queueVars, procVars, signalVars, linkVars
<1>0. /\ wire \in Seq(Message) /\ inStack \in Seq(Message) /\ owed \subseteq ReqId
      /\ local \subseteq ReqId /\ req \in 0 .. MaxReq /\ handled \subseteq ReqId
  BY DEF LinkInv, TypeOK
<1>a. Aside => UNCHANGED <<owed, local, wire, inStack, procMsg>> /\ Unhandled' = Unhandled
  BY AsideFacts, SameTurn
<1>1. CASE StartThreadProcessInMsg
  <2>1. procPc = "off" /\ procPc' = "waiting" /\ mainPc = "starting" /\ mainPc' = "idle"
        /\ UNCHANGED <<req, result, confEvent>>
    BY <1>1 DEF StartThreadProcessInMsg, LinkInv
  <2> QED BY <1>1, <1>a, <2>1 DEF Aside, Shown, Phase, Parsed, Outcome
<1>2. CASE StartRequest
  <2>1. mainPc = "idle" /\ req < MaxReq /\ mainPc' = "cleared" /\ req' = req + 1
        /\ confEvent' = FALSE /\ result'.code = "NONE" /\ result'.conf = 0
        /\ UNCHANGED <<procPc, procMsg>>
    BY <1>2 DEF StartRequest, NoResult
  <2> QED BY <1>2, <1>a, <2>1 DEF Aside, Contract!LinkNext, Contract!Start
<1>3. CASE WriteMessage
  <2>1. mainPc = "cleared" /\ mainPc' = "written"
        /\ \/ UNCHANGED <<owed, local>>
           \/ owed' = owed \cup {req} /\ local' \in {local, local \cup {req}}
        /\ UNCHANGED <<req, result, confEvent, wire, inStack, procPc, procMsg>>
    BY <1>3 DEF WriteMessage
  <2>2. req \in ReqId
    BY <1>0, <2>1 DEF LinkInv, ReqId
  <2>3. CASE UNCHANGED <<owed, local>>
    <3>1. Unhandled' = Unhandled
      BY <2>1, <2>3 DEF Unhandled, ConfIn
    <3> QED BY <2>1, <2>3, <3>1 DEF Contract!LinkNext, Contract!Send
  <2>4. CASE owed' = owed \cup {req} /\ local' \in {local, local \cup {req}}
    <3>1. Unhandled' = Unhandled \cup {req}
      BY <2>1, <2>2, <2>4 DEF Unhandled, ConfIn
    <3> QED BY <2>1, <2>4, <3>1 DEF Contract!LinkNext, Contract!Send
  <2> QED BY <2>1, <2>3, <2>4
<1>4. CASE TestWritten
  <2>1. mainPc = "written" /\ mainPc' \in {"waiting", "returning"}
        /\ UNCHANGED <<req, result, confEvent, procPc, procMsg>>
    BY <1>4 DEF TestWritten
  <2>2. CASE mainPc' = "waiting"
    BY <1>4, <1>a, <2>1, <2>2 DEF Aside, Shown, Phase, Parsed, Outcome
  <2>3. CASE mainPc' = "returning"
    BY <1>4, <1>a, <2>1, <2>3 DEF Aside, Contract!LinkNext, Contract!GiveUp
  <2> QED BY <2>1, <2>2, <2>3
<1>5. CASE WaitSucceeds
  <2>1. mainPc = "waiting" /\ confEvent /\ mainPc' = "returning" /\ confEvent' = FALSE
        /\ result' = [result EXCEPT !.conf = signal.conf]
        /\ UNCHANGED <<req, procPc, procMsg>>
    BY <1>5 DEF WaitSucceeds
  <2>2. result'.code = result.code /\ result'.conf = signal.conf /\ signal.conf # 0
    BY <1>0, <2>1 DEF LinkInv, TypeOK, ReqId
  <2> QED BY <1>5, <1>a, <2>1, <2>2 DEF Aside, Contract!LinkNext, Contract!Succeed
<1>6. CASE WaitTimesOut
  <2>1. mainPc = "waiting" /\ mainPc' = "returning"
        /\ UNCHANGED <<req, result, confEvent, procPc, procMsg>>
    BY <1>6 DEF WaitTimesOut
  <2> QED BY <1>6, <1>a, <2>1 DEF Aside, Contract!LinkNext, Contract!GiveUp
<1>7. CASE ReturnFromRequest
  <2>1. mainPc = "returning" /\ mainPc' = "idle"
        /\ result'.code = lastError /\ result'.conf = result.conf
        /\ UNCHANGED <<req, confEvent, procPc, procMsg>>
    BY <1>7 DEF ReturnFromRequest, LinkInv, TypeOK
  <2>2. Outcome' = IF lastError = "SUCCESS" THEN "SUCCESS" ELSE "FAILED"
    BY <2>1 DEF Outcome, LinkInv, TypeOK
  <2>3. Contract!ReturnTrue \/ Contract!ReturnOverwritten
    BY <1>7, <1>a, <2>1, <2>2
    DEF Aside, Outcome, Contract!ReturnTrue, Contract!ReturnOverwritten
  <2> QED BY <2>3 DEF Contract!LinkNext
<1>8. CASE StopSerialPort \/ JoinListener \/ StopThreadProcessInMsg \/ JoinThreadProcessInMsg
  <2>1. Phase' = Phase /\ UNCHANGED <<req, result, confEvent, procPc, procMsg>>
    BY <1>8 DEF StopSerialPort, JoinListener, StopThreadProcessInMsg, JoinThreadProcessInMsg,
                Phase
  <2> QED BY <1>8, <1>a, <2>1 DEF Aside, Shown, Parsed, Outcome
<1>9. ASSUME NEW q \in ReqId, GatewayAnswers(q) \/ GatewayAnswersAgain(q)
      PROVE  UNCHANGED Shown
  <2>1. /\ q \in owed /\ owed' \in {owed, owed \ {q}} /\ wire' = Append(wire, Conf(q))
        /\ UNCHANGED <<mainPc, req, result, confEvent, local, inStack, procPc, procMsg>>
    BY <1>9 DEF GatewayAnswers, GatewayAnswersAgain
  <2>2. Conf(q) \in Message /\ \A r \in ReqId : Conf(q) = Conf(r) <=> q = r
    BY DEF Message, Conf
  <2>3. \A r \in ReqId : ConfIn(wire', r) <=> ConfIn(wire, r) \/ q = r
    BY <1>0, <2>1, <2>2, AppendFacts
  <2>4. \A r \in ReqId : ConfIn(wire, r)' = ConfIn(wire', r)
                         /\ ConfIn(inStack, r)' = ConfIn(inStack, r)
    BY <2>1 DEF ConfIn
  <2>5. Unhandled' = Unhandled
    BY <2>1, <2>3, <2>4 DEF Unhandled
  <2> QED BY <2>1, <2>5 DEF Shown, Phase, Parsed, Outcome
<1>10. ASSUME NEW m \in Inds, GatewayIndicates(m) PROVE UNCHANGED Shown
  <2>1. /\ wire' = Append(wire, m)
        /\ UNCHANGED <<mainPc, req, result, confEvent, owed, local, inStack, procPc, procMsg>>
    BY <1>10 DEF GatewayIndicates
  <2>2. m \in Message /\ \A r \in ReqId : m # Conf(r)
    BY DEF Message, Inds, Conf
  <2>3. \A r \in ReqId : ConfIn(wire', r) <=> ConfIn(wire, r)
    BY <1>0, <2>1, <2>2, AppendFacts
  <2>4. \A r \in ReqId : ConfIn(wire, r)' = ConfIn(wire', r)
                         /\ ConfIn(inStack, r)' = ConfIn(inStack, r)
    BY <2>1 DEF ConfIn
  <2>5. Unhandled' = Unhandled
    BY <2>1, <2>3, <2>4 DEF Unhandled
  <2> QED BY <2>1, <2>5 DEF Shown, Phase, Parsed, Outcome
<1>11. CASE PushInMsgStack
  <2>1. /\ wire # <<>> /\ wire' = Tail(wire) /\ inStack' = Append(inStack, Head(wire))
        /\ UNCHANGED <<mainPc, req, result, confEvent, owed, local, procPc, procMsg>>
    BY <1>11 DEF PushInMsgStack
  <2>2. Head(wire) \in Message
    BY <1>0, <2>1, QueueFacts
  <2>3. \A r \in ReqId : ConfIn(wire, r) <=> Head(wire) = Conf(r) \/ ConfIn(wire', r)
    BY <1>0, <2>1, TailFacts
  <2>4. \A r \in ReqId : ConfIn(inStack', r) <=> ConfIn(inStack, r) \/ Head(wire) = Conf(r)
    BY <1>0, <2>1, <2>2, AppendFacts
  <2>5. \A r \in ReqId : ConfIn(wire, r)' = ConfIn(wire', r)
                         /\ ConfIn(inStack, r)' = ConfIn(inStack', r)
    BY DEF ConfIn
  <2>6. Unhandled' = Unhandled
    BY <2>1, <2>3, <2>4, <2>5 DEF Unhandled
  <2> QED BY <2>1, <2>6 DEF Shown, Phase, Parsed, Outcome
<1>12. CASE ListenerAside
  BY <1>12, <1>a, ListenerFacts DEF Aside, Shown, Phase, Parsed, Outcome
<1>13. CASE SetNewInMsgEvent \/ WakeForMessages \/ WakeForStop
  <2>1. /\ UNCHANGED <<mainPc, req, result, confEvent>>
        /\ procPc' = procPc \/ (procPc = "waiting" /\ procPc' \in {"draining", "exited"})
    BY <1>13 DEF SetNewInMsgEvent, WakeForMessages, WakeForStop
  <2> QED BY <1>13, <1>a, <2>1 DEF Aside, Shown, Phase, Parsed, Outcome
<1>14. CASE PopInMsgStack
  <2>1. procPc = "draining" /\ procPc' # "parsed"
        /\ UNCHANGED <<mainPc, req, result, confEvent, owed, local, wire>>
    BY <1>14 DEF PopInMsgStack
  <2>2. CASE inStack # <<>>
    <3>1. inStack' = Tail(inStack) /\ procMsg' = Head(inStack) /\ procPc' = "parsing"
      BY <1>14, <2>2 DEF PopInMsgStack
    <3>2. \A r \in ReqId : ConfIn(inStack, r) <=> Head(inStack) = Conf(r) \/ ConfIn(inStack', r)
      BY <1>0, <2>2, <3>1, TailFacts
    <3>3. \A r \in ReqId : ConfIn(wire, r)' = ConfIn(wire, r)
                           /\ ConfIn(inStack, r)' = ConfIn(inStack', r)
      BY <2>1 DEF ConfIn
    <3>4. Unhandled' = Unhandled
      BY <2>1, <3>1, <3>2, <3>3 DEF Unhandled
    <3> QED BY <2>1, <3>4 DEF Shown, Phase, Parsed, Outcome
  <2>3. CASE inStack = <<>>
    <3>1. procPc' = "waiting" /\ UNCHANGED inStack
      BY <1>14, <2>3 DEF PopInMsgStack
    <3>2. \A r \in ReqId : Parsing(r)' <=> Parsing(r)
      BY <2>1, <3>1 DEF Parsing
    <3>3. Unhandled' = Unhandled
      BY <2>1, <3>1, <3>2, SameTurn
    <3> QED BY <2>1, <3>3 DEF Shown, Phase, Parsed, Outcome
  <2> QED BY <2>2, <2>3
<1>15. CASE HandleMessage
  <2>1. procPc = "parsing" /\ procMsg \in Message
        /\ procPc' = (IF procMsg.code = "CONF" THEN "parsed" ELSE "draining")
        /\ local' = local \ {procMsg.id}
        /\ UNCHANGED <<mainPc, req, result, confEvent, owed, wire, inStack, procMsg>>
    BY <1>15 DEF HandleMessage, LinkInv
  <2>2. \A r \in ReqId : ConfIn(wire, r)' = ConfIn(wire, r)
                         /\ ConfIn(inStack, r)' = ConfIn(inStack, r)
    BY <2>1 DEF ConfIn
  <2>3. CASE procMsg.code = "CONF"
    <3>1. procMsg.id \in ReqId /\ procMsg = Conf(procMsg.id)
      BY <2>1, <2>3, MessageFacts
    <3>2. \A r \in ReqId : procMsg = Conf(r) <=> r = procMsg.id
      BY <3>1 DEF Conf
    <3>3. procMsg.id \in Unhandled /\ Unhandled' \in {Unhandled, Unhandled \ {procMsg.id}}
      BY <2>1, <2>2, <2>3, <3>1, <3>2 DEF Unhandled
    <3>4. \A l \in local : procMsg.id <= l
      <4>1. SUFFICES ASSUME NEW l \in local PROVE procMsg.id <= l
        OBVIOUS
      <4>2. l \in ReqId /\ InTurn(l) /\ Parsing(procMsg.id)
        BY <1>0, <2>1, <3>1 DEF FifoInv, Parsing
      <4>3. procMsg.id < l \/ Parsing(l)
        BY <3>1, <4>2, UnhandledFacts DEF InTurn
      <4> QED BY <3>1, <3>2, <4>2, <4>3 DEF Parsing, ReqId
    <3>5. procMsg.id \in local => procMsg.id \notin Unhandled'
      <4>1. SUFFICES ASSUME procMsg.id \in local, procMsg.id \in Unhandled' PROVE FALSE
        OBVIOUS
      <4>2. InTurn(procMsg.id) /\ Parsing(procMsg.id)
        BY <2>1, <3>1, <4>1 DEF FifoInv, Parsing
      <4>3. procMsg.id \in owed \/ ConfIn(wire, procMsg.id) \/ ConfIn(inStack, procMsg.id)
        BY <2>1, <2>2, <2>3, <3>1, <4>1 DEF Unhandled
      <4> QED BY <3>1, <4>2, <4>3 DEF InTurn, ReqId
    <3>6. Contract!Handle(procMsg.id)
      BY <2>1, <2>3, <3>3, <3>4, <3>5 DEF Contract!Handle
    <3> QED BY <3>1, <3>6 DEF Contract!LinkNext, Contract!Requests, ReqId
  <2>4. CASE procMsg.code # "CONF"
    <3>1. \A r \in ReqId : procMsg # Conf(r)
      BY <2>4 DEF Conf
    <3>2. Unhandled' = Unhandled
      BY <2>1, <2>2, <2>4, <3>1 DEF Unhandled
    <3>3. procMsg.id \notin local
      BY <1>0, <2>1, <2>4 DEF Message, Conf, Inds, ReqId
    <3> QED BY <2>1, <2>4, <3>2, <3>3 DEF Shown, Phase, Parsed, Outcome
  <2> QED BY <2>3, <2>4
<1>16. CASE SetConfEvent
  <2>1. procPc = "parsed" /\ procPc' = "draining" /\ confEvent' = TRUE
        /\ UNCHANGED <<mainPc, req, result, procMsg>>
    BY <1>16 DEF SetConfEvent
  <2>2. procMsg.id # 0
    BY <2>1, MessageFacts DEF LinkInv, ReqId
  <2> QED BY <1>16, <1>a, <2>1, <2>2 DEF Aside, Contract!LinkNext, Contract!Signal
<1>17. CASE UNCHANGED vars
  <2>1. UNCHANGED <<mainPc, req, result, confEvent, procPc, procMsg>>
    BY <1>17 DEF vars
  <2> QED BY <1>17, <1>a, <2>1 DEF Aside, Shown, Phase, Parsed, Outcome
<1> QED
  BY <1>1, <1>2, <1>3, <1>4, <1>5, <1>6, <1>7, <1>8, <1>9, <1>10, <1>11, <1>12,
     <1>13, <1>14, <1>15, <1>16, <1>17
  DEF Next, MainStep, GatewayStep, ListenerStep, ListenerAside, ProcessStep, Finished

(* The threads of the link implement the synchronous request of the        *)
(* contract: IZiBGatewayComm's requests, listener and ThreadProcessInMsg,   *)
(* over an error field the listener may overwrite.                         *)
THEOREM LinkImplementsContract == Spec => RequestContract
<1>1. Init => Contract!LinkInit
  BY DEF Init, NoResult, Contract!LinkInit, Unhandled, ConfIn
<1>2. Init => FifoInv
  BY DEF Init, FifoInv, Unhandled, ConfIn
<1> QED BY <1>1, <1>2, NextFifoInv, NextImplements, LinkInvariant, PTL
        DEF Spec, RequestContract, Contract!LinkSpec

================================================================================
