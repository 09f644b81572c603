-------------------------- MODULE GatewaySerialProofs --------------------------
(***************************************************************************)
(* Proofs about GatewaySerial: which part of the coordinator's program will *)
(* turn the receive interrupt on again, the types, that without a           *)
(* disturbance both receivers are in step with the line and the main loop   *)
(* dispatches what the manager sent, and what a lost byte can cost.         *)
(***************************************************************************)
EXTENDS GatewaySerial, SequenceTheorems, TLAPS

(* What NeverDeaf speaks of besides mainPc. *)
Ear == <<rcie, received, mainPc>>

(* The steps that touch neither the interrupt nor the main loop. *)
LEMMA EarKept ==
    ASSUME \/ ByteHeld \/ FormNetwork \/ StackStep
           \/ OnEvent \/ WaitTimesOut \/ LoseByte
           \/ \E req \in Requests : SendRequest(req)
    PROVE UNCHANGED Ear
BY DEF Ear, ByteHeld, FormNetwork, StackStep, NodeAnswers, NodeDoesNotAnswer, StackUnblocksTx,
   StackResets, NetworkFormed, FormationFailed, OnEvent, WaitTimesOut, LoseByte, SendRequest,
   serialVars, stackVars, gatewayVars, Write, Disturb

(* NeverDeaf is inductive: the interrupt is turned off together with        *)
(* bSerialMsgReceived, and that flag goes only where the end of the dispatch *)
(* is still to come.                                                        *)
LEMMA NeverDeafNext == NeverDeaf /\ [Next]_vars => NeverDeaf'
<1> SUFFICES ASSUME NeverDeaf, [Next]_vars PROVE NeverDeaf'
  OBVIOUS
<1>1. CASE UNCHANGED vars
  BY <1>1 DEF NeverDeaf, vars, gatewayVars, serialVars
<1>2. CASE \E byte : TakeByte(byte) /\ UNCHANGED mainPc
  BY <1>2 DEF NeverDeaf, TakeByte
<1>3. CASE BeginDispatch
  BY <1>3 DEF NeverDeaf, BeginDispatch
<1>4. CASE ResetRequest \/ LocalRequest \/ RadioRequest \/ UnknownRequest
  BY <1>4 DEF NeverDeaf, ResetRequest, LocalRequest, RadioRequest, UnknownRequest, serialVars
<1>5. CASE InitInternalVariables
  BY <1>5 DEF NeverDeaf, InitInternalVariables
<1>6. CASE EndDispatch
  BY <1>6 DEF NeverDeaf, EndDispatch
<1>7. CASE \/ ByteHeld \/ FormNetwork \/ StackStep
           \/ OnEvent \/ WaitTimesOut \/ LoseByte
           \/ \E req \in Requests : SendRequest(req)
  BY <1>7, EarKept DEF NeverDeaf, Ear
<1>8. ByteFetched \/ HeldByteFetched => \E byte : TakeByte(byte) /\ UNCHANGED mainPc
  BY DEF ByteFetched, HeldByteFetched
<1> QED
  BY <1>1, <1>2, <1>3, <1>4, <1>5, <1>6, <1>7, <1>8 DEF Next, GatewayStep, MainStep

(* ZiBGateway.c, 1211-1212 and 1454-1503: whatever the lengths              *)
(* of the buffers, the bytes and the order of interrupts, the receive       *)
(* interrupt is off only where it will be turned on again.                  *)
THEOREM NeverDeafHolds == Spec => []NeverDeaf
<1>1. Init => NeverDeaf
  BY DEF Init, InitGateway, NeverDeaf
<1> QED
  BY <1>1, NeverDeafNext, PTL DEF Spec

--------------------------------------------------------------------------------
(* One receiver and the frame it takes. *)

(* A message with data, as it is on the line. *)
IsFrame(f) ==
    /\ f \in Seq(Byte) /\ Len(f) > HeaderSize + 1
    /\ f[1] = StartByte /\ f[2] = Len(f) - 1

(* The receiver holds what the line no longer does. *)
Taking(r, f, line) ==
    /\ r.state = "body" /\ r.index + 2 <= Len(f)
    /\ \A i \in Index : i < r.index => r.buf[i] = f[i + 2]
    /\ line = SubSeq(f, r.index + 2, Len(f))

(* All of it is in the buffer. *)
Taken(buf, f) == \A i \in Index : i + 2 <= Len(f) => buf[i] = f[i + 2]

Idle(r) == r.state = "start" /\ r.index = 0

(* What Frame makes of a code and of data that fit is such a message.       *)
LEMMA FrameIsFrame ==
    ASSUME NEW c \in Byte, NEW d \in Seq(Byte), Len(d) > 0, HeaderSize + Len(d) <= MaxByte
    PROVE /\ IsFrame(Frame(c, d)) /\ Len(Frame(c, d)) = HeaderSize + 1 + Len(d)
          /\ Frame(c, d)[3] = c
<1> DEFINE h == <<StartByte, HeaderSize + Len(d), c>>
<1>1. StartByte \in Byte /\ HeaderSize + Len(d) \in Byte /\ Len(d) \in Nat
  BY FrameAssumption DEF Byte, HeaderSize
<1>2. h \in Seq(Byte) /\ Len(h) = 3 /\ h[1] = StartByte /\ h[2] = HeaderSize + Len(d) /\ h[3] = c
  BY <1>1
<1>3. /\ h \o d \in Seq(Byte) /\ Len(h \o d) = 3 + Len(d)
      /\ \A i \in 1 .. 3 : (h \o d)[i] = h[i]
  BY <1>1, <1>2, ConcatProperties
<1> QED
  BY <1>1, <1>2, <1>3 DEF IsFrame, Frame, HeaderSize

(* Storing a byte, one field after another; the index may reach the end.    *)
LEMMA StoreOneByOne ==
    ASSUME NEW r \in Receiver, NEW byte
    PROVE [r EXCEPT !.buf[r.index] = byte, !.index = r.index + 1, !.complete = FALSE]
          = [r EXCEPT !.buf = [r.buf EXCEPT ![r.index] = byte], !.index = r.index + 1,
                      !.complete = FALSE]
BY DEF Receiver, Buffer

(* A receiver before its index is looked at. *)
Storing == [state : {"start", "body"}, index : Nat, buf : Buffer, complete : BOOLEAN]

(* A byte stored.                                                           *)
LEMMA StoreType ==
    ASSUME NEW r \in Receiver, NEW byte \in Byte
    PROVE [r EXCEPT !.buf[r.index] = byte, !.index = r.index + 1, !.complete = FALSE] \in Storing
<1>1. [r.buf EXCEPT ![r.index] = byte] \in Buffer /\ r.index + 1 \in Nat
  BY FrameAssumption DEF Receiver, Buffer, Index
<1>2. ASSUME NEW n \in Nat, NEW b \in Buffer
      PROVE [r EXCEPT !.buf = b, !.index = n, !.complete = FALSE] \in Storing
  <2>1. Index \subseteq Nat
    BY FrameAssumption DEF Index
  <2> QED
    BY <2>1 DEF Receiver, Storing
<1> HIDE DEF Storing
<1> QED
  BY <1>1, <1>2, StoreOneByOne, Zenon

(* The receiver that goes back to the start byte.                           *)
LEMMA RestartedType == ASSUME NEW r \in Storing PROVE Restarted(r) \in Receiver
<1>1. 0 \in Index
  BY FrameAssumption DEF Index
<1> QED
  BY <1>1 DEF Restarted, Receiver, Storing

(* Take keeps a receiver one, with an index that a length byte can say:     *)
(* where the index could pass it, the message ends.                         *)
LEMMA TakeType == ASSUME NEW r \in Receiver, NEW byte \in Byte PROVE Take(r, byte) \in Receiver
<1> DEFINE n == r.index + 1
           stored == [r EXCEPT !.buf[r.index] = byte, !.index = n, !.complete = FALSE]
           last == n = stored.buf[0] /\ n > HeaderSize
<1>1. stored \in Storing
  BY StoreType
<1>2. last \in BOOLEAN
  OBVIOUS
<1>3. ASSUME NEW q \in Receiver, NEW v \in BOOLEAN PROVE [q EXCEPT !.complete = v] \in Receiver
  BY DEF Receiver
<1>4. CASE r.state = "start"
  <2>1. \A st \in {"start", "body"} : [r EXCEPT !.complete = FALSE, !.state = st] \in Receiver
    BY DEF Receiver
  <2> QED
    BY <1>4, <2>1 DEF Take
<1>5. CASE r.state # "start" /\ n < stored.buf[0]
  <2>1. stored.index = n /\ stored.buf[0] \in Byte /\ n \in Nat
    BY <1>1, FrameAssumption DEF Storing, Buffer, Index, Receiver
  <2>2. n \in Index
    BY <1>5, <2>1, FrameAssumption DEF Index, Byte
  <2>3. ASSUME NEW q \in Storing, q.index \in Index PROVE q \in Receiver
    BY <2>3 DEF Storing, Receiver
  <2>4. stored \in Receiver
    BY <1>1, <2>1, <2>2, <2>3, Zenon
  <2>5. Take(r, byte) = stored
    BY <1>5, Zenon DEF Take
  <2> QED
    BY <2>4, <2>5, Zenon
<1>6. CASE r.state # "start" /\ ~(n < stored.buf[0])
  <2>1. Take(r, byte) = [Restarted(stored) EXCEPT !.complete = last]
    BY <1>6, Zenon DEF Take
  <2> HIDE DEF stored, last
  <2>2. Restarted(stored) \in Receiver
    BY <1>1, RestartedType
  <2> QED
    BY <1>2, <1>3, <2>1, <2>2, Zenon
<1> QED
  BY <1>4, <1>5, <1>6, Zenon

(* The start byte, sought by an idle receiver.                              *)
LEMMA TakeFirst ==
    ASSUME NEW r \in Receiver, Idle(r), NEW f, IsFrame(f)
    PROVE /\ Take(r, Head(f)).state = "body" /\ Take(r, Head(f)).complete = FALSE
          /\ Taking(Take(r, Head(f)), f, Tail(f))
<1>1. f # <<>> /\ Head(f) = StartByte /\ Tail(f) = SubSeq(f, 2, Len(f)) /\ 2 <= Len(f)
  BY HeadTailProperties, TailIsSubSeq DEF IsFrame, HeaderSize
<1>2. Take(r, Head(f)) = [r EXCEPT !.complete = FALSE, !.state = "body"]
  BY <1>1 DEF Take, Idle
<1>3. /\ Take(r, Head(f)).state = "body" /\ Take(r, Head(f)).complete = FALSE
      /\ Take(r, Head(f)).index = 0
  BY <1>2 DEF Receiver, Idle
<1> QED
  BY <1>1, <1>3 DEF Taking, Index

(* Any other byte of a frame, a start byte among them: the frame goes on,   *)
(* or its last byte completes it and all of it is in the buffer.            *)
LEMMA TakeNext ==
    ASSUME NEW r \in Receiver, NEW f, IsFrame(f), NEW line, Taking(r, f, line)
    PROVE LET t == Take(r, Head(line))
          IN  /\ t \in Receiver
              /\ \/ t.complete = FALSE /\ Taking(t, f, Tail(line))
                 \/ t.complete = TRUE /\ Idle(t) /\ Tail(line) = <<>> /\ Taken(t.buf, f)
<1> DEFINE k == r.index
           n == k + 1
           byte == Head(line)
           stored == [r EXCEPT !.buf[k] = byte, !.index = n, !.complete = FALSE]
<1>0. MaxByte \in Nat /\ HeaderSize = 2
  BY FrameAssumption DEF HeaderSize
<1>1. /\ f \in Seq(Byte) /\ Len(f) \in Nat /\ Len(f) > 3 /\ f[2] = Len(f) - 1
      /\ k \in Index /\ k \in Nat /\ k + 2 <= Len(f)
      /\ f[2] \in Byte
  BY <1>0 DEF IsFrame, Taking, Receiver, Index
<1>2. byte = f[k + 2] /\ Tail(line) = SubSeq(f, k + 3, Len(f)) /\ byte \in Byte
  <2>1. k + 2 \in 1 .. Len(f) /\ Len(f) \in k + 2 .. Len(f) /\ (k + 2) + 1 = k + 3
    BY <1>1
  <2>2. \A m \in 1 .. Len(f) : \A j \in m .. Len(f) :
           /\ Head(SubSeq(f, m, j)) = f[m]
           /\ Tail(SubSeq(f, m, j)) = SubSeq(f, m + 1, j)
    BY <1>1, HeadTailOfSubSeq
  <2>3. Head(line) = f[k + 2] /\ Tail(line) = SubSeq(f, (k + 2) + 1, Len(f))
    BY <2>1, <2>2 DEF Taking
  <2>4. f[k + 2] \in Byte
    BY <1>1, <2>1, ElementOfSeq
  <2> QED
    BY <2>1, <2>3, <2>4
<1>3. Take(r, byte) \in Receiver
  BY <1>2, TakeType
<1>4. /\ stored.index = n /\ stored.complete = FALSE /\ stored.state = "body"
      /\ stored.buf = [r.buf EXCEPT ![k] = byte]
  BY DEF Receiver, Taking
<1>5. ASSUME NEW i \in Index, i < n PROVE stored.buf[i] = f[i + 2]
  <2>1. r.buf \in Buffer /\ i \in Nat
    BY <1>0 DEF Receiver, Index
  <2>2. stored.buf[i] = IF i = k THEN byte ELSE r.buf[i]
    BY <1>1, <1>4, <2>1 DEF Buffer
  <2>3. i # k => i < k
    BY <1>1, <1>5, <2>1
  <2> QED
    BY <1>2, <2>2, <2>3 DEF Taking
<1>6. stored.buf[0] = Len(f) - 1
  BY <1>0, <1>1, <1>5 DEF Index
<1>7. CASE n < Len(f) - 1
  <2>1. Take(r, byte) = stored
    BY <1>6, <1>7 DEF Take, Taking
  <2>2. Taking(stored, f, Tail(line))
    <3>1. n + 2 <= Len(f) /\ n + 2 = k + 3
      BY <1>1, <1>7
    <3> QED
      BY <1>2, <1>4, <1>5, <3>1 DEF Taking
  <2> QED
    BY <1>3, <1>4, <2>1, <2>2
<1>8. CASE ~(n < Len(f) - 1)
  <2>1. n = Len(f) - 1
    BY <1>1, <1>8
  <2>2. Take(r, byte) = [Restarted(stored) EXCEPT
                            !.complete = (n = stored.buf[0] /\ n > HeaderSize)]
    BY <1>6, <1>8 DEF Take, Taking
  <2>3. n = stored.buf[0] /\ n > HeaderSize
    BY <1>0, <1>1, <1>6, <2>1
  <2>4. /\ Idle(Take(r, byte)) /\ Take(r, byte).complete = TRUE
        /\ Take(r, byte).buf = stored.buf
    BY <2>2, <2>3 DEF Restarted, Idle, Receiver
  <2>5. Taken(stored.buf, f)
    BY <1>1, <1>5, <2>1 DEF Taken, Index
  <2>6. Tail(line) = <<>>
    BY <1>1, <1>2, <2>1, SubSeqEmpty
  <2> QED
    BY <1>3, <2>4, <2>5, <2>6
<1> QED
  BY <1>7, <1>8

(* What is cleared above the index.                                         *)
LEMMA SettledType == ASSUME NEW r \in Receiver PROVE Settled(r) \in Receiver
<1> DEFINE b == [i \in Index |-> IF i < r.index THEN r.buf[i] ELSE 0]
<1>1. b \in Buffer
  <2>1. 0 \in Byte
    BY FrameAssumption DEF Byte
  <2> QED
    BY <2>1 DEF Receiver, Buffer
<1>2. \A c \in Buffer : [r EXCEPT !.buf = c, !.complete = FALSE] \in Receiver
  BY DEF Receiver
<1> QED
  BY <1>1, <1>2, Zenon DEF Settled

(* A receiver before its first byte.                                        *)
LEMMA NewReceiverType == NewReceiver \in Receiver /\ Idle(NewReceiver)
<1>1. 0 \in Index /\ 0 \in Byte
  BY FrameAssumption DEF Index, Byte
<1> QED
  BY <1>1 DEF NewReceiver, Receiver, Buffer, Idle

(* What Settled and the flag's reset leave as it was. *)
LEMMA SettledKeeps ==
    ASSUME NEW r \in Receiver
    PROVE /\ Idle(r) => Idle(Settled(r))
          /\ \A f, line : Taking(r, f, line) => Taking(Settled(r), f, line)
<1>1. Settled(r).state = r.state /\ Settled(r).index = r.index
  BY DEF Settled, Receiver
<1>2. \A i \in Index : i < r.index => Settled(r).buf[i] = r.buf[i]
  BY DEF Settled, Receiver
<1> QED
  BY <1>1, <1>2 DEF Idle, Taking

(* The flag of the last byte does not matter to the rest.                   *)
LEMMA FlagReset ==
    ASSUME NEW r \in Receiver
    PROVE LET q == [r EXCEPT !.complete = FALSE]
          IN  q \in Receiver /\ q.state = r.state /\ q.index = r.index /\ q.buf = r.buf
BY DEF Receiver

(* A receiver in a frame still has bytes of it to take. *)
LEMMA TakingIsNotOver ==
    ASSUME NEW r \in Receiver, NEW f, IsFrame(f), NEW line, Taking(r, f, line)
    PROVE line # <<>> /\ line \in Seq(Byte) /\ Head(line) \in Byte
<1>1. /\ f \in Seq(Byte) /\ Len(f) \in Nat /\ r.index \in Nat
      /\ r.index + 2 \in 1 .. Len(f) /\ Len(f) \in (r.index + 2) .. Len(f)
  BY FrameAssumption DEF IsFrame, Taking, Receiver, Index
<1>2. \A m \in 1 .. Len(f) : \A j \in m .. Len(f) :
         /\ SubSeq(f, m, j) \in Seq(Byte)
         /\ Len(SubSeq(f, m, j)) = j - m + 1
         /\ Head(SubSeq(f, m, j)) = f[m]
  BY <1>1, HeadTailOfSubSeq, SubSeqProperties
<1>3. line \in Seq(Byte) /\ Len(line) = Len(f) - (r.index + 2) + 1 /\ Head(line) = f[r.index + 2]
  BY <1>1, <1>2 DEF Taking
<1>4. f[r.index + 2] \in Byte
  BY <1>1, ElementOfSeq
<1>5. Len(line) # 0
  BY <1>1, <1>3
<1> QED
  BY <1>3, <1>4, <1>5, EmptySeq

(* What the receiver holds and what is still to come make the frame. *)
LEMMA HeldAndLine ==
    ASSUME NEW r \in Receiver, NEW f, IsFrame(f), NEW line, Taking(r, f, line)
    PROVE Held(r) \in Seq(Byte) /\ Held(r) \o line = f
<1> DEFINE k == r.index
           taken == [i \in 1 .. k |-> r.buf[i - 1]]
<1>1. /\ f \in Seq(Byte) /\ Len(f) \in Nat /\ k \in Nat /\ k \in Index /\ k + 2 <= Len(f)
      /\ StartByte \in Byte
      /\ line \in Seq(Byte)
  <2>1. line \in Seq(Byte)
    BY TakingIsNotOver
  <2>2. f \in Seq(Byte) /\ Len(f) \in Nat /\ StartByte \in Byte
    BY FrameAssumption DEF IsFrame, Byte
  <2>3. k \in Index /\ k \in Nat /\ k + 2 <= Len(f)
    BY FrameAssumption DEF Taking, Receiver, Index
  <2> QED
    BY <2>1, <2>2, <2>3
<1>2. \A i \in 1 .. k : i - 1 \in Index /\ taken[i] = f[i + 1] /\ taken[i] \in Byte
  <2> SUFFICES ASSUME NEW i \in 1 .. k
               PROVE i - 1 \in Index /\ r.buf[i - 1] = f[i + 1] /\ f[i + 1] \in Byte
    OBVIOUS
  <2>1. i - 1 \in Index /\ i - 1 < k /\ (i - 1) + 2 = i + 1 /\ i + 1 \in 1 .. Len(f)
    BY <1>1, FrameAssumption DEF Index
  <2>2. r.buf[i - 1] = f[(i - 1) + 2]
    BY <2>1 DEF Taking
  <2>3. f[i + 1] \in Byte
    BY <1>1, <2>1, ElementOfSeq
  <2> QED
    BY <2>1, <2>2, <2>3
<1>3. taken \in Seq(Byte) /\ Len(taken) = k
  <2>1. taken \in [1 .. k -> Byte]
    BY <1>2
  <2>2. taken \in Seq(Byte) /\ DOMAIN taken = 1 .. k
    BY <1>1, <2>1, SeqDef
  <2>3. Len(taken) \in Nat /\ 1 .. Len(taken) = 1 .. k
    BY <2>2, LenProperties
  <2> QED
    BY <1>1, <2>2, <2>3
<1>4. Held(r) = <<StartByte>> \o taken
  BY DEF Held, Taking
<1> HIDE DEF taken
<1>5. /\ Held(r) \in Seq(Byte) /\ Len(Held(r)) = k + 1
      /\ \A i \in 1 .. k + 1 : Held(r)[i] = f[i]
  <2>1. <<StartByte>> \in Seq(Byte) /\ Len(<<StartByte>>) = 1 /\ <<StartByte>>[1] = StartByte
    BY <1>1
  <2>2. /\ Held(r) \in Seq(Byte) /\ Len(Held(r)) = 1 + k
        /\ \A i \in 1 .. 1 + k :
              Held(r)[i] = IF i <= 1 THEN <<StartByte>>[i] ELSE taken[i - 1]
    BY <1>3, <1>4, <2>1, ConcatProperties
  <2>3. \A i \in 1 .. k + 1 : Held(r)[i] = f[i]
    <3> SUFFICES ASSUME NEW i \in 1 .. k + 1 PROVE Held(r)[i] = f[i]
      OBVIOUS
    <3>1. CASE i = 1
      BY <1>1, <2>1, <2>2, <3>1 DEF IsFrame
    <3>2. CASE i # 1
      <4>1. i - 1 \in 1 .. k /\ (i - 1) + 1 = i /\ ~(i <= 1)
        BY <1>1, <3>2
      <4> QED
        BY <1>1, <1>2, <2>2, <4>1
    <3> QED
      BY <3>1, <3>2
  <2>4. k + 1 = 1 + k
    BY <1>1
  <2> QED
    BY <2>2, <2>3, <2>4, Zenon
<1>6. /\ Len(line) = Len(f) - (k + 1)
      /\ \A i \in 1 .. Len(f) - (k + 1) : line[i] = f[k + 1 + i]
  <2>1. \A i \in k + 2 .. Len(f) : f[i] \in Byte
    BY <1>1, ElementOfSeq
  <2>2. /\ Len(line) = Len(f) - (k + 2) + 1
        /\ \A i \in 1 .. Len(f) - (k + 2) + 1 : line[i] = f[(k + 2) + i - 1]
    BY <1>1, <2>1, SubSeqProperties DEF Taking
  <2>3. \A a, b \in Nat : \A i \in 1 .. a - (b + 1) :
           i \in 1 .. a - (b + 2) + 1 /\ (b + 2) + i - 1 = b + 1 + i
    OBVIOUS
  <2>4. Len(f) - (k + 2) + 1 = Len(f) - (k + 1)
    BY <1>1
  <2> QED
    BY <1>1, <2>2, <2>3, <2>4
<1>7. /\ Held(r) \o line \in Seq(Byte) /\ Len(Held(r) \o line) = Len(f)
      /\ \A i \in 1 .. Len(f) :
            (Held(r) \o line)[i] = IF i <= k + 1 THEN Held(r)[i] ELSE line[i - (k + 1)]
  BY <1>1, <1>5, <1>6, ConcatProperties
<1>8. \A i \in 1 .. Len(f) : (Held(r) \o line)[i] = f[i]
  <2> SUFFICES ASSUME NEW i \in 1 .. Len(f) PROVE (Held(r) \o line)[i] = f[i]
    OBVIOUS
  <2>1. CASE i <= k + 1
    BY <1>1, <1>5, <1>7, <2>1
  <2>2. CASE ~(i <= k + 1)
    <3>1. i - (k + 1) \in 1 .. Len(f) - (k + 1) /\ (k + 1) + (i - (k + 1)) = i
      BY <1>1, <2>2
    <3> QED
      BY <1>6, <1>7, <2>2, <3>1
  <2> QED
    BY <2>1, <2>2
<1> QED
  BY <1>1, <1>5, <1>7, <1>8, SeqEqual

--------------------------------------------------------------------------------
(* Types. *)

(* The data of an answer fit a message.                                     *)
LEMMA AnswerDataFit ==
    ASSUME NEW d \in {<<SUCCESS>>, <<FAILURE>>} \cup {<<SUCCESS, b>> : b \in DataByte}
    PROVE d \in Seq(Byte) /\ Len(d) > 0 /\ HeaderSize + Len(d) <= MaxByte
<1>1. SUCCESS \in Byte /\ FAILURE \in Byte /\ DataByte \subseteq Byte
  BY FrameAssumption, GatewayAssumption DEF SUCCESS, FAILURE, Byte, HeaderSize
<1>2. CASE d \in {<<SUCCESS>>, <<FAILURE>>}
  <2>1. d \in Seq(Byte) /\ Len(d) = 1
    <3>1. \A b \in Byte : <<b>> \in Seq(Byte) /\ Len(<<b>>) = 1
      OBVIOUS
    <3>2. d = <<SUCCESS>> \/ d = <<FAILURE>>
      BY <1>2, Zenon
    <3> QED
      BY <1>1, <3>1, <3>2, Zenon
  <2> QED
    BY <2>1, FrameAssumption, LengthsAssumption DEF HeaderSize
<1>3. CASE d \in {<<SUCCESS, b>> : b \in DataByte}
  <2>1. PICK b \in Byte : d = <<SUCCESS, b>>
    BY <1>1, <1>3
  <2>2. d \in Seq(Byte) /\ Len(d) = 2
    BY <1>1, <2>1
  <2> QED
    BY <2>2, LengthsAssumption DEF HeaderSize
<1> QED
  BY <1>2, <1>3

(* The answers of the program, ZiBGateway.c, 435-846, are such messages.    *)
LEMMA AnswerIsFrame ==
    ASSUME NEW c \in RadioReq \cup LocalReq \cup {RESET_REQ}, c \in Byte,
           NEW d \in {<<SUCCESS>>, <<FAILURE>>} \cup {<<SUCCESS, b>> : b \in DataByte}
    PROVE IsFrame(Frame(ConfOf(c), d)) /\ Frame(ConfOf(c), d) \in AnswerFrames
<1>1. d \in Seq(Byte) /\ Len(d) > 0 /\ HeaderSize + Len(d) <= MaxByte
  BY AnswerDataFit
<1>2. ConfOf(c) \in Byte
  BY LengthsAssumption
<1>3. ConfOf(c) \in Confs
  BY DEF Confs
<1>4. Frame(ConfOf(c), d) \in AnswerFrames
  BY <1>3 DEF AnswerFrames
<1> QED
  BY <1>1, <1>2, <1>4, FrameIsFrame

(* The requests are such messages and fit the buffer.                       *)
LEMMA RequestIsFrame ==
    ASSUME NEW req \in Requests
    PROVE /\ IsFrame(Frame(req[1], req[2]))
          /\ Len(Frame(req[1], req[2])) - 1 <= BufSize
<1>1. req[1] \in Byte /\ req[2] \in Seq(Byte)
  BY RequestsAssumption, LengthsAssumption
<1>2. /\ Len(req[2]) > 0 /\ HeaderSize + Len(req[2]) <= MaxByte
      /\ HeaderSize + Len(req[2]) <= BufSize
  BY LengthsAssumption
<1>3. /\ IsFrame(Frame(req[1], req[2]))
      /\ Len(Frame(req[1], req[2])) = HeaderSize + 1 + Len(req[2])
  BY <1>1, <1>2, FrameIsFrame
<1>4. Len(req[2]) \in Nat
  BY <1>1
<1> QED
  BY <1>2, <1>3, <1>4, GatewayAssumption DEF HeaderSize

(* TypeOK in parts; the answers under way are to requests of the line's. *)
Flags == /\ overflow \in BOOLEAN /\ received \in BOOLEAN /\ rcie \in BOOLEAN
         /\ txBusy \in BOOLEAN /\ waiting \in BOOLEAN

Lines == /\ reqLine \in Seq(Byte) /\ ansLine \in Seq(Byte) /\ fifo \in Seq(Byte)
         /\ Len(fifo) <= FifoSize
         /\ current \in Seq(Byte)

Receivers == rx \in Receiver /\ mrx \in Receiver

Program == /\ mainPc \in {"loop", "dispatch", "reset", "done"} /\ code \in Byte
           /\ net \in {"down", "forming", "up", "resetting"}
           /\ asked \subseteq RadioReq /\ asked \subseteq Byte
           /\ disturbances \in 0 .. MaxDisturbances

Typed == Flags /\ Lines /\ Receivers /\ Program

(* The types hold before the first step.                                    *)
LEMMA TypedInit == Init => Typed
<1> SUFFICES ASSUME Init PROVE Typed
  OBVIOUS
<1>1. Flags
  BY Zenon DEF Init, InitGateway, Flags
<1>2. Lines
  BY GatewayAssumption DEF Init, InitGateway, Lines
<1>3. Receivers
  BY NewReceiverType DEF Init, InitGateway, Receivers
<1>4. Program
  <2>1. RESET_REQ \in Byte /\ 0 \in 0 .. MaxDisturbances
    BY FrameAssumption, RequestsAssumption DEF RESET_REQ, Byte
  <2> QED
    BY <2>1 DEF Init, InitGateway, Program
<1> QED
  BY <1>1, <1>2, <1>3, <1>4 DEF Typed

(* A byte taken by the interrupt handler. *)
LEMMA TakeByteTyped ==
    ASSUME Flags, Receivers, NEW byte \in Byte, TakeByte(byte)
    PROVE /\ rx' \in Receiver
          /\ overflow' \in BOOLEAN /\ received' \in BOOLEAN /\ rcie' \in BOOLEAN
<1> DEFINE taken == Take(rx, byte)
<1>1. taken \in Receiver
  BY TakeType DEF Receivers
<1> HIDE DEF taken
<1>2. [taken EXCEPT !.complete = FALSE] \in Receiver /\ Settled(taken) \in Receiver
  BY <1>1, SettledType, FlagReset
<1>3. rx' = [taken EXCEPT !.complete = FALSE] \/ rx' = Settled(taken)
  BY Zenon DEF TakeByte, taken
<1>4. /\ received' = (received \/ taken.complete)
      /\ rcie' = (rcie /\ ~taken.complete)
      /\ overflow' = (rx.state = "body" /\ rx.index >= BufSize)
  BY Zenon DEF TakeByte, taken
<1> QED
  BY <1>2, <1>3, <1>4, Zenon

(* Each step keeps the flags flags.                                         *)
LEMMA FlagsNext ==
    ASSUME Typed, [Next]_vars
    PROVE Flags'
<1>1. CASE UNCHANGED vars
  BY <1>1, Zenon DEF Typed, Flags, vars, gatewayVars, managerVars, serialVars, stackVars
<1>2. CASE ByteFetched /\ UNCHANGED managerVars
  <2>1. Head(reqLine) \in Byte
    BY <1>2, HeadTailProperties DEF ByteFetched, Typed, Lines
  <2> QED
    BY <1>2, <2>1, TakeByteTyped, Zenon
       DEF ByteFetched, Typed, Flags, managerVars, stackVars
<1>3. CASE HeldByteFetched /\ UNCHANGED managerVars
  <2>1. Head(fifo) \in Byte
    BY <1>3, HeadTailProperties DEF HeldByteFetched, Typed, Lines
  <2> QED
    BY <1>3, <2>1, TakeByteTyped, Zenon
       DEF HeldByteFetched, Typed, Flags, managerVars, stackVars
<1>4. CASE (ByteHeld \/ MainStep) /\ UNCHANGED managerVars
  BY <1>4, Zenon
     DEF ByteHeld, MainStep, BeginDispatch, ResetRequest, InitInternalVariables, LocalRequest,
     RadioRequest, UnknownRequest, EndDispatch, FormNetwork, Typed, Flags, managerVars, stackVars,
     serialVars
<1>5. CASE StackStep /\ UNCHANGED managerVars
  BY <1>5, Zenon
     DEF StackStep, NodeAnswers, NodeDoesNotAnswer, StackUnblocksTx, StackResets, NetworkFormed,
     FormationFailed, Typed, Flags, managerVars, stackVars, serialVars
<1>6. CASE OnEvent \/ WaitTimesOut \/ LoseByte
  BY <1>6, Zenon
     DEF OnEvent, WaitTimesOut, LoseByte, Typed, Flags, gatewayVars, stackVars, serialVars
<1>7. CASE \E req \in Requests : SendRequest(req)
  BY <1>7, Zenon DEF SendRequest, Typed, Flags, stackVars
<1> QED
  BY <1>1, <1>2, <1>3, <1>4, <1>5, <1>6, <1>7, Zenon DEF Next, GatewayStep

(* Each step keeps the receivers receivers.                                 *)
LEMMA ReceiversNext ==
    ASSUME Typed, [Next]_vars
    PROVE Receivers'
<1>1. CASE ByteFetched /\ UNCHANGED managerVars
  <2>1. Head(reqLine) \in Byte
    BY <1>1, HeadTailProperties DEF ByteFetched, Typed, Lines
  <2> QED
    BY <1>1, <2>1, TakeByteTyped, Zenon DEF ByteFetched, Typed, Receivers, managerVars
<1>2. CASE HeldByteFetched /\ UNCHANGED managerVars
  <2>1. Head(fifo) \in Byte
    BY <1>2, HeadTailProperties DEF HeldByteFetched, Typed, Lines
  <2> QED
    BY <1>2, <2>1, TakeByteTyped, Zenon DEF HeldByteFetched, Typed, Receivers, managerVars
<1>3. CASE InitInternalVariables /\ UNCHANGED managerVars
  <2>1. ASSUME NEW r \in Receiver PROVE r \in Storing
    BY <2>1, FrameAssumption DEF Receiver, Storing, Index
  <2> QED
    BY <1>3, <2>1, RestartedType, Zenon
       DEF InitInternalVariables, Typed, Receivers, managerVars
<1>4. CASE EndDispatch /\ UNCHANGED managerVars
  BY <1>4, SettledType, Zenon DEF EndDispatch, Typed, Receivers, managerVars
<1>5. CASE OnEvent
  <2> DEFINE taken == Take(mrx, Head(ansLine))
  <2>1. Head(ansLine) \in Byte
    BY <1>5, HeadTailProperties DEF OnEvent, Typed, Lines
  <2>2. Settled(taken) \in Receiver
    BY <2>1, TakeType, SettledType DEF Typed, Receivers
  <2>3. rx' = rx /\ (mrx' = Settled(taken) \/ mrx' = NewReceiver)
    BY <1>5, Zenon DEF OnEvent, serialVars
  <2> QED
    BY <2>2, <2>3, NewReceiverType, Zenon DEF Typed, Receivers
<1>6. CASE \/ UNCHANGED vars
           \/ /\ \/ ByteHeld \/ BeginDispatch \/ ResetRequest \/ LocalRequest \/ RadioRequest
                 \/ UnknownRequest \/ FormNetwork \/ StackStep
              /\ UNCHANGED managerVars
           \/ WaitTimesOut \/ LoseByte
           \/ \E req \in Requests : SendRequest(req)
  <2>1. UNCHANGED <<rx, mrx>>
    BY <1>6 DEF vars, gatewayVars, managerVars, serialVars, stackVars, ByteHeld, BeginDispatch,
       ResetRequest, LocalRequest, RadioRequest, UnknownRequest, FormNetwork, StackStep,
       NodeAnswers, NodeDoesNotAnswer, StackUnblocksTx, StackResets, NetworkFormed,
       FormationFailed, WaitTimesOut, LoseByte, SendRequest
  <2> QED
    BY <2>1 DEF Typed, Receivers
<1> QED
  BY <1>1, <1>2, <1>3, <1>4, <1>5, <1>6, Zenon DEF Next, GatewayStep, MainStep

(* Each step keeps the program, the network and the requests under way.     *)
LEMMA ProgramNext ==
    ASSUME Typed, [Next]_vars
    PROVE Program'
<1> USE DEF Typed, Program
<1>1. CASE UNCHANGED vars
  BY <1>1 DEF vars, gatewayVars, managerVars, stackVars
<1>2. CASE (ByteFetched \/ ByteHeld \/ HeldByteFetched) /\ UNCHANGED managerVars
  BY <1>2 DEF ByteFetched, ByteHeld, HeldByteFetched, managerVars, stackVars
<1>3. CASE BeginDispatch /\ UNCHANGED managerVars
  <2>1. 1 \in Index
    BY FrameAssumption DEF Index, HeaderSize
  <2>2. rx.buf[1] \in Byte
    BY <2>1 DEF Receivers, Receiver, Buffer
  <2> QED
    BY <1>3, <2>2 DEF BeginDispatch, managerVars, stackVars
<1>4. CASE (ResetRequest \/ LocalRequest \/ UnknownRequest \/ FormNetwork) /\ UNCHANGED managerVars
  BY <1>4 DEF ResetRequest, LocalRequest, UnknownRequest, FormNetwork, managerVars, stackVars
<1>5. CASE RadioRequest /\ UNCHANGED managerVars
  BY <1>5 DEF RadioRequest, managerVars
<1>6. CASE (InitInternalVariables \/ EndDispatch) /\ UNCHANGED managerVars
  <2>1. RESET_REQ \in Byte
    BY FrameAssumption DEF RESET_REQ, Byte
  <2> QED
    BY <1>6, <2>1 DEF InitInternalVariables, EndDispatch, managerVars, stackVars
<1>7. CASE StackStep /\ UNCHANGED managerVars
  <2>1. asked' \subseteq asked
    BY <1>7 DEF StackStep, NodeAnswers, NodeDoesNotAnswer, StackUnblocksTx, StackResets,
       NetworkFormed, FormationFailed
  <2>2. /\ UNCHANGED <<mainPc, code, disturbances>>
        /\ net' \in {"down", "forming", "up", "resetting"}
    BY <1>7 DEF StackStep, NodeAnswers, NodeDoesNotAnswer, StackUnblocksTx, StackResets,
       NetworkFormed, FormationFailed, managerVars
  <2> QED
    BY <2>1, <2>2
<1>8. CASE OnEvent \/ WaitTimesOut \/ LoseByte \/ \E req \in Requests : SendRequest(req)
  <2>1. UNCHANGED <<mainPc, code, stackVars>>
    BY <1>8 DEF OnEvent, WaitTimesOut, LoseByte, SendRequest, gatewayVars
  <2>2. disturbances' = disturbances \/ Disturb
    BY <1>8 DEF OnEvent, WaitTimesOut, LoseByte, SendRequest
  <2>3. disturbances' \in 0 .. MaxDisturbances
    BY <2>2, RequestsAssumption DEF Disturb
  <2> QED
    BY <2>1, <2>3 DEF stackVars
<1> QED
  BY <1>1, <1>2, <1>3, <1>4, <1>5, <1>6, <1>7, <1>8, Zenon DEF Next, GatewayStep, MainStep

(* Each step keeps bytes on the lines, and in the UART no more than it      *)
(* holds.                                                                   *)
LEMMA LinesNext ==
    ASSUME Typed, [Next]_vars
    PROVE Lines'
<1>0. ASSUME NEW s \in Seq(Byte), s # <<>> PROVE Tail(s) \in Seq(Byte) /\ Len(Tail(s)) < Len(s)
  BY <1>0, HeadTailProperties, LenProperties
<1>1. CASE UNCHANGED vars
  BY <1>1 DEF vars, gatewayVars, managerVars, serialVars, Typed, Lines
<1>2. CASE ByteFetched /\ UNCHANGED managerVars
  BY <1>0, <1>2 DEF ByteFetched, managerVars, Typed, Lines
<1>3. CASE ByteHeld /\ UNCHANGED managerVars
  <2>1. Head(reqLine) \in Byte /\ Tail(reqLine) \in Seq(Byte)
    BY <1>3, HeadTailProperties DEF ByteHeld, Typed, Lines
  <2>2. fifo' \in Seq(Byte) /\ Len(fifo') <= FifoSize
    <3>1. CASE Len(fifo) < FifoSize
      <4>1. /\ Append(fifo, Head(reqLine)) \in Seq(Byte)
            /\ Len(Append(fifo, Head(reqLine))) = Len(fifo) + 1
            /\ Len(fifo) \in Nat
        BY <2>1, AppendProperties DEF Typed, Lines
      <4> QED
        BY <1>3, <3>1, <4>1, GatewayAssumption DEF ByteHeld
    <3>2. CASE ~(Len(fifo) < FifoSize)
      BY <1>3, <3>2 DEF ByteHeld, Typed, Lines
    <3> QED
      BY <3>1, <3>2
  <2> QED
    BY <1>3, <2>1, <2>2 DEF ByteHeld, managerVars, Typed, Lines
<1>4. CASE HeldByteFetched /\ UNCHANGED managerVars
  <2>1. Tail(fifo) \in Seq(Byte) /\ Len(Tail(fifo)) < Len(fifo) /\ Len(fifo) \in Nat
        /\ Len(Tail(fifo)) \in Nat
    BY <1>0, <1>4 DEF HeldByteFetched, Typed, Lines
  <2> QED
    BY <1>4, <2>1, GatewayAssumption DEF HeldByteFetched, managerVars, Typed, Lines
<1>5. ASSUME NEW c \in RadioReq \cup LocalReq \cup {RESET_REQ}, c \in Byte,
             NEW d \in {<<SUCCESS>>, <<FAILURE>>} \cup {<<SUCCESS, b>> : b \in DataByte},
             Write(Frame(ConfOf(c), d)), UNCHANGED <<serialVars, managerVars>>
      PROVE Lines'
  <2>1. ansLine' \in Seq(Byte)
    <3>1. Frame(ConfOf(c), d) \in Seq(Byte) /\ ansLine \in Seq(Byte)
      BY <1>5, AnswerIsFrame DEF IsFrame, Typed, Lines
    <3> QED
      BY <1>5, <3>1, ConcatProperties DEF Write
  <2> QED
    BY <1>5, <2>1 DEF serialVars, managerVars, Typed, Lines
<1>6. CASE (ResetRequest \/ LocalRequest) /\ UNCHANGED managerVars
  <2>1. ASSUME ResetRequest PROVE code = RESET_REQ /\ Write(Frame(ConfOf(code), <<SUCCESS>>))
    BY <2>1 DEF ResetRequest
  <2>2. ASSUME LocalRequest PROVE code \in LocalReq /\ Write(Frame(ConfOf(code), <<SUCCESS>>))
    BY <2>2 DEF LocalRequest
  <2>3. UNCHANGED serialVars
    BY <1>6 DEF ResetRequest, LocalRequest
  <2>4. code \in Byte
    BY DEF Typed, Program
  <2> QED
    BY <1>5, <1>6, <2>1, <2>2, <2>3, <2>4, Zenon
<1>7. CASE StackStep /\ UNCHANGED managerVars
  <2>1. ASSUME NEW req \in RadioReq, NodeAnswers(req) PROVE Lines'
    <3>1. req \in Byte /\ UNCHANGED serialVars
      BY <2>1 DEF NodeAnswers, Typed, Program
    <3>2. PICK d \in {<<SUCCESS>>, <<FAILURE>>} \cup {<<SUCCESS, b>> : b \in DataByte} :
             Write(Frame(ConfOf(req), d))
      BY <2>1, Zenon DEF NodeAnswers
    <3> QED
      BY <1>5, <1>7, <3>1, <3>2, Zenon
  <2>2. ASSUME NEW req \in RadioReq, NodeDoesNotAnswer(req) PROVE Lines'
    BY <1>7, <2>2 DEF NodeDoesNotAnswer, serialVars, managerVars, Typed, Lines
  <2>3. CASE StackUnblocksTx \/ StackResets \/ NetworkFormed \/ FormationFailed
    BY <1>7, <2>3 DEF StackUnblocksTx, StackResets, NetworkFormed, FormationFailed, serialVars,
       managerVars, Typed, Lines
  <2> QED
    BY <1>7, <2>1, <2>2, <2>3, Zenon DEF StackStep
<1>8. CASE /\ \/ BeginDispatch \/ InitInternalVariables \/ RadioRequest \/ UnknownRequest
              \/ EndDispatch \/ FormNetwork
           /\ UNCHANGED managerVars
  BY <1>8 DEF BeginDispatch, InitInternalVariables, RadioRequest, UnknownRequest, EndDispatch,
     FormNetwork, serialVars, managerVars, Typed, Lines
<1>9. CASE OnEvent \/ WaitTimesOut \/ LoseByte
  BY <1>0, <1>9 DEF OnEvent, WaitTimesOut, LoseByte, gatewayVars, serialVars, Typed, Lines
<1>10. CASE \E req \in Requests : SendRequest(req)
  BY <1>10, RequestIsFrame DEF SendRequest, IsFrame, Typed, Lines
<1> QED
  BY <1>1, <1>2, <1>3, <1>4, <1>6, <1>7, <1>8, <1>9, <1>10, Zenon
     DEF Next, GatewayStep, MainStep

(* ZiBGateway.c, 228-237 and 1454-1503, ZiBGatewayComm.cpp, 287-333: the    *)
(* types; in particular no index of a receiver passes what a length byte    *)
(* can say, and the UART holds no more than its bytes.                      *)
LEMMA TypedInvariant == Spec => []Typed
<1>1. Typed /\ [Next]_vars => Typed'
  BY FlagsNext, ReceiversNext, ProgramNext, LinesNext, Zenon DEF Typed
<1> QED
  BY <1>1, TypedInit, PTL DEF Spec

(* The same in the words of GatewaySerial: TypeOK in every state.           *)
THEOREM TypeOKHolds == Spec => []TypeOK
<1>1. Typed => TypeOK
  BY Zenon DEF Typed, Flags, Lines, Receivers, Program, TypeOK
<1> QED
  BY <1>1, TypedInvariant, PTL

--------------------------------------------------------------------------------
(* The receivers in step. *)

(* The last request is none yet, or a frame that fits the gateway's buffer. *)
CurrentFits == current = <<>> \/ (IsFrame(current) /\ Len(current) - 1 <= BufSize)

(* All of the request is still on the line, or none, or the rest that the   *)
(* interrupt handler does not hold.                                         *)
RequestInStep ==
    \/ Idle(rx) /\ (reqLine = <<>> \/ (reqLine = current /\ IsFrame(current)))
    \/ IsFrame(current) /\ Taking(rx, current, reqLine)

(* The same of an answer and the manager's receiver. *)
AnswerInStep ==
    \/ Idle(mrx) /\ ansLine = <<>>
    \/ \E f \in AnswerFrames :
          IsFrame(f) /\ ((Idle(mrx) /\ ansLine = f) \/ Taking(mrx, f, ansLine))

(* While a request is on the line the handler is heard and the main loop    *)
(* has nothing to dispatch, so that the UART keeps no byte; what the loop   *)
(* dispatches next, or looks at now, is the manager's last request.         *)
GatewayInStep ==
    /\ fifo = <<>> /\ ~overflow
    /\ RequestInStep
    /\ reqLine # <<>> => rcie /\ ~received /\ mainPc = "loop"
    /\ received \/ mainPc = "dispatch" => Taken(rx.buf, current)

InStep == CurrentFits /\ (disturbances = 0 => GatewayInStep /\ AnswerInStep)

(* Before the first step both receivers are idle and the lines empty.       *)
LEMMA InStepInit == Init => InStep
BY NewReceiverType DEF Init, InitGateway, InStep, CurrentFits, GatewayInStep, RequestInStep,
   AnswerInStep

(* Only a request of the set replaces the last one.                         *)
LEMMA CurrentFitsNext == CurrentFits /\ [Next]_vars => CurrentFits'
<1> SUFFICES ASSUME CurrentFits, [Next]_vars PROVE CurrentFits'
  OBVIOUS
<1>1. CASE UNCHANGED current
  BY <1>1 DEF CurrentFits
<1>2. CASE \E req \in Requests : SendRequest(req)
  BY <1>2, RequestIsFrame DEF SendRequest, CurrentFits
<1> QED
  BY <1>1, <1>2 DEF Next, vars, managerVars, OnEvent, WaitTimesOut, LoseByte

(* The interrupt handler takes a byte of the request. *)
LEMMA ByteInStep ==
    ASSUME Typed, CurrentFits, GatewayInStep, ByteFetched, UNCHANGED managerVars
    PROVE GatewayInStep'
<1> DEFINE taken == Take(rx, Head(reqLine))
<1>1. /\ reqLine # <<>> /\ reqLine' = Tail(reqLine) /\ fifo' = <<>>
      /\ mainPc' = "loop" /\ mainPc = "loop" /\ rcie /\ ~received /\ current' = current
  BY DEF ByteFetched, GatewayInStep, managerVars
<1>2. /\ received' <=> taken.complete
      /\ rcie' <=> ~taken.complete
      /\ overflow' <=> (rx.state = "body" /\ rx.index >= BufSize)
      /\ rx' = IF received' \/ mainPc # "loop" THEN [taken EXCEPT !.complete = FALSE]
               ELSE Settled(taken)
  BY <1>1, Zenon DEF ByteFetched, TakeByte
<1>3. rx \in Receiver /\ reqLine \in Seq(Byte)
  BY DEF Typed, Receivers, Lines
<1>4. IsFrame(current) /\ Len(current) - 1 <= BufSize
  <2>1. IsFrame(current)
    BY <1>1 DEF GatewayInStep, RequestInStep
  <2>2. current # <<>>
    BY <2>1 DEF IsFrame, HeaderSize
  <2> QED
    BY <2>1, <2>2 DEF CurrentFits
<1>5. ~overflow'
  <2>1. CASE Idle(rx)
    BY <1>2, <2>1 DEF Idle
  <2>2. CASE Taking(rx, current, reqLine)
    <3>1. rx.index \in Nat /\ Len(current) \in Nat
      BY <1>3, <1>4, FrameAssumption DEF Receiver, Index, IsFrame
    <3> QED
      BY <1>2, <1>4, <2>2, <3>1, GatewayAssumption DEF Taking
  <2> QED
    BY <1>1, <2>1, <2>2 DEF GatewayInStep, RequestInStep
<1>6. /\ taken \in Receiver
      /\ \/ taken.complete = FALSE /\ Taking(taken, current, Tail(reqLine))
         \/ /\ taken.complete = TRUE /\ Idle(taken) /\ Tail(reqLine) = <<>>
            /\ Taken(taken.buf, current)
  <2>1. CASE Idle(rx) /\ reqLine = current
    <3>1. Head(reqLine) \in Byte
      BY <1>1, <1>3, HeadTailProperties
    <3> QED
      BY <1>3, <1>4, <2>1, <3>1, TakeFirst, TakeType
  <2>2. CASE Taking(rx, current, reqLine)
    BY <1>3, <1>4, <2>2, TakeNext
  <2> QED
    BY <1>1, <2>1, <2>2 DEF GatewayInStep, RequestInStep
<1> HIDE DEF taken
<1>7. CASE taken.complete = FALSE /\ Taking(taken, current, Tail(reqLine))
  <2>1. rx' = Settled(taken) /\ ~received' /\ rcie'
    BY <1>1, <1>2, <1>7, Zenon
  <2>2. Taking(rx', current', reqLine')
    BY <1>1, <1>6, <1>7, <2>1, SettledKeeps
  <2> QED
    BY <1>1, <1>4, <1>5, <2>1, <2>2 DEF GatewayInStep, RequestInStep
<1>8. CASE /\ taken.complete = TRUE /\ Idle(taken) /\ Tail(reqLine) = <<>>
           /\ Taken(taken.buf, current)
  <2>1. rx' = [taken EXCEPT !.complete = FALSE]
    BY <1>2, <1>8, Zenon
  <2>2. Idle(rx') /\ rx'.buf = taken.buf
    BY <1>6, <1>8, <2>1, FlagReset DEF Idle
  <2> QED
    BY <1>1, <1>5, <1>8, <2>2 DEF GatewayInStep, RequestInStep
<1> QED
  BY <1>6, <1>7, <1>8, Zenon

(* While nothing is lost, no step puts the gateway out of step: a request   *)
(* is sent when the gateway is idle, and what it holds is looked at by      *)
(* nobody else.                                                             *)
LEMMA GatewayInStepNext ==
    ASSUME Typed, CurrentFits, disturbances' = 0, GatewayInStep, [Next]_vars
    PROVE GatewayInStep'
<1>1. CASE ByteFetched /\ UNCHANGED managerVars
  BY <1>1, ByteInStep
<1>2. CASE (ByteHeld \/ HeldByteFetched) /\ UNCHANGED managerVars
  <2>1. FALSE
    BY <1>2 DEF ByteHeld, HeldByteFetched, GatewayInStep
  <2> QED
    BY <2>1
<1>3. CASE BeginDispatch /\ UNCHANGED managerVars
  BY <1>3 DEF BeginDispatch, managerVars, GatewayInStep, RequestInStep
<1>4. CASE /\ \/ ResetRequest \/ LocalRequest \/ RadioRequest \/ UnknownRequest
              \/ FormNetwork \/ StackStep
           /\ UNCHANGED managerVars
  <2>1. UNCHANGED <<serialVars, current>>
    BY <1>4 DEF ResetRequest, LocalRequest, RadioRequest, UnknownRequest, FormNetwork, StackStep,
       NodeAnswers, NodeDoesNotAnswer, StackUnblocksTx, StackResets, NetworkFormed,
       FormationFailed, managerVars
  <2>2. mainPc' = mainPc \/ (mainPc = "dispatch" /\ mainPc' \in {"reset", "done"})
    BY <1>4 DEF ResetRequest, LocalRequest, RadioRequest, UnknownRequest, FormNetwork, StackStep,
       NodeAnswers, NodeDoesNotAnswer, StackUnblocksTx, StackResets, NetworkFormed, FormationFailed
  <2> QED
    BY <2>1, <2>2 DEF serialVars, GatewayInStep, RequestInStep
<1>5. CASE InitInternalVariables /\ UNCHANGED managerVars
  <2>1. Idle(rx) /\ reqLine = <<>>
    <3>1. reqLine = <<>>
      BY <1>5 DEF InitInternalVariables, GatewayInStep
    <3> QED
      BY <3>1, TakingIsNotOver DEF GatewayInStep, RequestInStep, Typed, Receivers
  <2>2. Idle(rx')
    BY <1>5, <2>1 DEF InitInternalVariables, Restarted, Idle, Typed, Receivers, Receiver
  <2> QED
    BY <1>5, <2>1, <2>2 DEF InitInternalVariables, managerVars, GatewayInStep, RequestInStep
<1>6. CASE EndDispatch /\ UNCHANGED managerVars
  <2>1. Idle(rx) /\ reqLine = <<>>
    <3>1. reqLine = <<>>
      BY <1>6 DEF EndDispatch, GatewayInStep
    <3> QED
      BY <3>1, TakingIsNotOver DEF GatewayInStep, RequestInStep, Typed, Receivers
  <2>2. Idle(rx') /\ (received => rx' = rx)
    BY <1>6, <2>1, SettledKeeps DEF EndDispatch, Typed, Receivers
  <2> QED
    BY <1>6, <2>1, <2>2 DEF EndDispatch, managerVars, GatewayInStep, RequestInStep
<1>7. CASE OnEvent \/ WaitTimesOut \/ UNCHANGED vars
  BY <1>7 DEF OnEvent, WaitTimesOut, vars, gatewayVars, managerVars, serialVars, GatewayInStep,
     RequestInStep
<1>8. CASE LoseByte
  BY <1>8, RequestsAssumption DEF LoseByte, Disturb, Typed, Program
<1>9. CASE \E req \in Requests : SendRequest(req)
  <2>1. PICK req \in Requests : SendRequest(req)
    BY <1>9
  <2>2. ~GatewayBusy
    BY <2>1, RequestsAssumption DEF SendRequest, Disturb, Typed, Program
  <2>3. reqLine = <<>> /\ Idle(rx)
    BY <2>1, TakingIsNotOver DEF SendRequest, GatewayInStep, RequestInStep, Typed, Receivers
  <2>4. reqLine' = current' /\ IsFrame(current')
    BY <2>1, RequestIsFrame DEF SendRequest
  <2> QED
    BY <2>1, <2>2, <2>3, <2>4 DEF SendRequest, GatewayBusy, GatewayInStep, RequestInStep
<1> QED
  BY <1>1, <1>2, <1>3, <1>4, <1>5, <1>6, <1>7, <1>8, <1>9, Zenon DEF Next, GatewayStep, MainStep

(* The same of the manager: a frame is written to an empty line, and each   *)
(* of its bytes is taken before the next frame.                             *)
LEMMA AnswerInStepNext ==
    ASSUME Typed, AnswerInStep, [Next]_vars, disturbances' = 0
    PROVE AnswerInStep'
<1>0. mrx \in Receiver /\ ansLine \in Seq(Byte)
  BY DEF Typed, Receivers, Lines
<1>1. ASSUME ansLine = <<>> PROVE Idle(mrx)
  BY <1>0, <1>1, TakingIsNotOver DEF AnswerInStep, IsFrame, HeaderSize
<1>2. CASE UNCHANGED <<ansLine, mrx>>
  BY <1>2 DEF AnswerInStep
<1>3. CASE OnEvent
  <2> DEFINE taken == Take(mrx, Head(ansLine))
  <2>1. /\ ansLine' = Tail(ansLine) /\ ansLine # <<>>
        /\ mrx' = IF taken.state = "body" THEN Settled(taken) ELSE NewReceiver
    BY <1>3 DEF OnEvent
  <2>2. PICK f \in AnswerFrames :
           IsFrame(f) /\ ((Idle(mrx) /\ ansLine = f) \/ Taking(mrx, f, ansLine))
    BY <2>1 DEF AnswerInStep
  <2>3. /\ taken \in Receiver
        /\ \/ Taking(taken, f, Tail(ansLine))
           \/ Idle(taken) /\ Tail(ansLine) = <<>>
    <3>1. CASE Idle(mrx) /\ ansLine = f
      <4>1. Head(ansLine) \in Byte
        BY <1>0, <2>1, HeadTailProperties
      <4> QED
        BY <1>0, <2>2, <3>1, <4>1, TakeFirst, TakeType
    <3>2. CASE Taking(mrx, f, ansLine)
      BY <1>0, <2>2, <3>2, TakeNext
    <3> QED
      BY <2>2, <3>1, <3>2
  <2> HIDE DEF taken
  <2>4. CASE Taking(taken, f, Tail(ansLine))
    <3>1. mrx' = Settled(taken)
      BY <2>1, <2>4 DEF Taking
    <3>2. Taking(mrx', f, ansLine')
      BY <2>1, <2>3, <2>4, <3>1, SettledKeeps
    <3> QED
      BY <2>2, <3>2 DEF AnswerInStep
  <2>5. CASE Idle(taken) /\ Tail(ansLine) = <<>>
    <3>1. mrx' = NewReceiver
      BY <2>1, <2>5 DEF Idle
    <3> QED
      BY <2>1, <2>5, <3>1, NewReceiverType DEF AnswerInStep
  <2> QED
    BY <2>3, <2>4, <2>5, Zenon
<1>4. ASSUME ansLine = <<>>, mrx' = mrx,
             NEW c \in RadioReq \cup LocalReq \cup {RESET_REQ}, c \in Byte,
             NEW d \in {<<SUCCESS>>, <<FAILURE>>} \cup {<<SUCCESS, b>> : b \in DataByte},
             Write(Frame(ConfOf(c), d))
      PROVE AnswerInStep'
  <2>1. IsFrame(Frame(ConfOf(c), d)) /\ Frame(ConfOf(c), d) \in AnswerFrames
    BY <1>4, AnswerIsFrame
  <2>2. ansLine' = Frame(ConfOf(c), d)
    BY <1>4, <2>1, ConcatEmptySeq DEF Write, IsFrame
  <2> QED
    BY <1>1, <1>4, <2>1, <2>2 DEF AnswerInStep
<1>5. CASE GatewayStep /\ UNCHANGED managerVars
  <2>1. ansLine = <<>> /\ mrx' = mrx /\ code \in Byte /\ asked \subseteq Byte
    BY <1>5 DEF GatewayStep, managerVars, Typed, Program
  <2>2. CASE ResetRequest
    <3>1. code = RESET_REQ /\ Write(Frame(ConfOf(code), <<SUCCESS>>))
      BY <2>2 DEF ResetRequest
    <3> QED
      BY <1>4, <2>1, <3>1, Zenon
  <2>3. CASE LocalRequest
    <3>1. code \in LocalReq /\ Write(Frame(ConfOf(code), <<SUCCESS>>))
      BY <2>3 DEF LocalRequest
    <3> QED
      BY <1>4, <2>1, <3>1, Zenon
  <2>4. ASSUME NEW req \in RadioReq, NodeAnswers(req) PROVE AnswerInStep'
    <3>1. req \in Byte
      BY <2>1, <2>4 DEF NodeAnswers
    <3>2. PICK d \in {<<SUCCESS>>, <<FAILURE>>} \cup {<<SUCCESS, b>> : b \in DataByte} :
             Write(Frame(ConfOf(req), d))
      BY <2>4, Zenon DEF NodeAnswers
    <3> QED
      BY <1>4, <2>1, <3>1, <3>2, Zenon
  <2>5. CASE \/ ByteFetched \/ ByteHeld \/ HeldByteFetched
             \/ BeginDispatch \/ InitInternalVariables \/ RadioRequest \/ UnknownRequest
             \/ EndDispatch \/ FormNetwork
             \/ \E req \in RadioReq : NodeDoesNotAnswer(req)
             \/ StackUnblocksTx \/ StackResets \/ NetworkFormed \/ FormationFailed
    <3>1. ansLine' = ansLine
      BY <2>5 DEF ByteFetched, ByteHeld, HeldByteFetched, BeginDispatch, InitInternalVariables,
         RadioRequest, UnknownRequest, EndDispatch, FormNetwork, NodeDoesNotAnswer,
         StackUnblocksTx, StackResets, NetworkFormed, FormationFailed
    <3> QED
      BY <1>2, <2>1, <3>1
  <2> QED
    BY <1>5, <2>2, <2>3, <2>4, <2>5, Zenon DEF GatewayStep, MainStep, StackStep
<1>6. CASE WaitTimesOut \/ UNCHANGED vars \/ \E req \in Requests : SendRequest(req)
  BY <1>2, <1>6 DEF WaitTimesOut, vars, gatewayVars, managerVars, SendRequest
<1>7. CASE LoseByte
  BY <1>7, RequestsAssumption DEF LoseByte, Disturb, Typed, Program
<1> QED
  BY <1>3, <1>5, <1>6, <1>7, Zenon DEF Next

(* Disturbances are only counted up.                                        *)
LEMMA DisturbancesStay == Typed /\ [Next]_vars /\ disturbances' = 0 => disturbances = 0
BY RequestsAssumption DEF Typed, Program, Next, vars, managerVars, OnEvent, WaitTimesOut,
   LoseByte, Disturb, SendRequest

(* The inductive invariant under the two theorems that follow.              *)
LEMMA InStepInvariant == Spec => [](Typed /\ InStep)
<1>1. Typed /\ InStep /\ [Next]_vars => InStep'
  BY CurrentFitsNext, GatewayInStepNext, AnswerInStepNext, DisturbancesStay DEF InStep
<1> QED
  BY <1>1, InStepInit, TypedInvariant, PTL DEF Spec

(* ZiBGateway.c, 1454-1503, and ZiBGatewayComm.cpp, 287-333: for requests   *)
(* of every length that the gateway's buffer holds, and every start byte,   *)
(* both receivers are in step with the bytes while none is lost and no      *)
(* request overtakes the gateway.                                           *)
THEOREM ReceiversInStepHolds == Spec => []ReceiversInStep
<1> SUFFICES ASSUME Typed, InStep PROVE ReceiversInStep
  BY InStepInvariant, PTL
<1> SUFFICES ASSUME disturbances = 0
             PROVE /\ ~overflow
                   /\ Held(rx) \o fifo \o reqLine \in {<<>>, current}
                   /\ Held(mrx) \o ansLine \in {<<>>} \cup AnswerFrames
  BY DEF ReceiversInStep
<1>1. ASSUME NEW r, Idle(r) PROVE Held(r) = <<>>
  BY <1>1 DEF Held, Idle
<1>2. /\ rx \in Receiver /\ mrx \in Receiver
      /\ reqLine \in Seq(Byte) /\ ansLine \in Seq(Byte)
      /\ fifo = <<>> /\ ~overflow
  BY DEF Typed, Receivers, Lines, InStep, GatewayInStep
<1>3. <<>> \o fifo \o reqLine = reqLine /\ <<>> \o ansLine = ansLine
  BY <1>2, ConcatEmptySeq, EmptySeq
<1>4. Held(rx) \o fifo \o reqLine \in {<<>>, current}
  <2>1. CASE Idle(rx) /\ reqLine \in {<<>>, current}
    BY <1>1, <1>3, <2>1
  <2>2. CASE IsFrame(current) /\ Taking(rx, current, reqLine)
    <3>1. Held(rx) \in Seq(Byte) /\ Held(rx) \o reqLine = current
      BY <1>2, <2>2, HeldAndLine
    <3>2. Held(rx) \o fifo = Held(rx)
      BY <1>2, <3>1, ConcatEmptySeq
    <3> QED
      BY <3>1, <3>2
  <2> QED
    BY <2>1, <2>2 DEF InStep, GatewayInStep, RequestInStep
<1>5. Held(mrx) \o ansLine \in {<<>>} \cup AnswerFrames
  <2>1. CASE Idle(mrx) /\ (ansLine = <<>> \/ ansLine \in AnswerFrames)
    BY <1>1, <1>3, <2>1
  <2>2. CASE \E f \in AnswerFrames : IsFrame(f) /\ Taking(mrx, f, ansLine)
    BY <1>2, <2>2, HeldAndLine
  <2> QED
    BY <2>1, <2>2 DEF InStep, AnswerInStep
<1> QED
  BY <1>2, <1>4, <1>5

(* ZiBGateway.c, 983-986 and 1076-1204: whatever is in the buffer from      *)
(* earlier messages, what the main loop dispatches is the request that the  *)
(* manager sent last, and it is still there when it goes to the radio.      *)
THEOREM DispatchesWhatWasSentHolds == Spec => DispatchesWhatWasSent
<1>1. ASSUME Typed, InStep, disturbances = 0, received \/ mainPc = "dispatch"
      PROVE Holds(rx.buf, current)
  <2>1. Taken(rx.buf, current)
    BY <1>1 DEF InStep, GatewayInStep
  <2>2. CASE current = <<>>
    BY <2>2, EmptySeq DEF Holds
  <2>3. CASE IsFrame(current)
    <3>1. Len(current) \in Nat /\ Len(current) - 1 \in Byte /\ MaxByte \in Nat
      <4>1. /\ current \in Seq(Byte) /\ Len(current) \in Nat /\ 2 \in 1 .. Len(current)
            /\ current[2] = Len(current) - 1
        BY <2>3, FrameAssumption DEF IsFrame, HeaderSize
      <4> QED
        BY <4>1, ElementOfSeq, FrameAssumption
    <3>2. ASSUME NEW i \in 2 .. Len(current)
          PROVE i - 2 \in Index /\ (i - 2) + 2 = i /\ i <= Len(current)
      BY <3>1, <3>2 DEF Index, Byte
    <3> QED
      BY <2>1, <3>2 DEF Taken, Holds
  <2> QED
    BY <1>1, <2>2, <2>3 DEF InStep, CurrentFits
<1>2. ASSUME Typed, InStep, [Next]_vars,
             \/ mainPc = "loop" /\ mainPc' = "dispatch"
             \/ asked' \ asked # {}
      PROVE received \/ mainPc = "dispatch"
  <2>1. CASE BeginDispatch \/ RadioRequest
    BY <2>1 DEF BeginDispatch, RadioRequest
  <2>2. CASE \/ UNCHANGED vars
             \/ ByteFetched \/ ByteHeld \/ HeldByteFetched
             \/ ResetRequest \/ InitInternalVariables \/ LocalRequest \/ UnknownRequest
             \/ EndDispatch \/ FormNetwork \/ StackStep
             \/ OnEvent \/ WaitTimesOut \/ LoseByte
             \/ \E req \in Requests : SendRequest(req)
    <3>1. asked' \subseteq asked /\ ~(mainPc = "loop" /\ mainPc' = "dispatch")
      BY <2>2 DEF vars, gatewayVars, stackVars, ByteFetched, ByteHeld, HeldByteFetched,
         ResetRequest, InitInternalVariables, LocalRequest, UnknownRequest, EndDispatch,
         FormNetwork, StackStep, NodeAnswers, NodeDoesNotAnswer, StackUnblocksTx, StackResets,
         NetworkFormed, FormationFailed, OnEvent, WaitTimesOut, LoseByte, SendRequest
    <3> QED
      BY <1>2, <3>1
  <2> QED
    BY <1>2, <2>1, <2>2, Zenon DEF Next, GatewayStep, MainStep
<1>3. ASSUME Typed, InStep, [Next]_vars
      PROVE [\/ mainPc = "loop" /\ mainPc' = "dispatch"
             \/ asked' \ asked # {}
             => disturbances > 0 \/ Holds(rx.buf, current)]_vars
  <2>1. disturbances = 0 \/ disturbances > 0
    <3>1. disturbances \in 0 .. MaxDisturbances /\ MaxDisturbances \in Nat
      BY <1>3, RequestsAssumption DEF Typed, Program
    <3> QED
      BY <3>1
  <2> QED
    BY <1>1, <1>2, <1>3, <2>1
<1> QED
  BY <1>3, InStepInvariant, PTL DEF Spec, DispatchesWhatWasSent
--------------------------------------------------------------------------------
(* What a lost byte can cost. *)

(* A receiver that seeks a start byte has none of a message; one inside a   *)
(* message has less of it than the length byte says, once that has come.    *)
Sound(r) ==
    /\ r.state = "start" => r.index = 0
    /\ r.state = "body" /\ r.index > 0 => r.index < r.buf[0]

(* The bytes a receiver may still take before it seeks a start byte again.  *)
Remaining(r) ==
    IF r.state = "start" THEN 0
    ELSE IF r.index = 0 THEN MaxByte ELSE r.buf[0] - r.index

(* One byte: whatever it is, a receiver in a message comes nearer to its    *)
(* end.                                                                     *)
LEMMA TakeSound ==
    ASSUME NEW r \in Receiver, Sound(r), NEW byte \in Byte
    PROVE /\ Sound(Take(r, byte))
          /\ Remaining(Take(r, byte)) \in Nat
          /\ r.state = "body" => Remaining(Take(r, byte)) < Remaining(r)
<1> DEFINE k == r.index
           n == k + 1
           stored == [r EXCEPT !.buf[k] = byte, !.index = n, !.complete = FALSE]
           first == stored.buf[0]
<1>1. /\ MaxByte \in Nat /\ k \in Index /\ k \in Nat /\ n \in Nat /\ 0 \in Index
      /\ r.buf \in Buffer /\ byte \in Nat /\ byte <= MaxByte
  BY FrameAssumption DEF Receiver, Index, Byte
<1>2. CASE r.state = "start"
  <2>1. /\ Take(r, byte).index = 0 /\ Take(r, byte).state \in {"start", "body"}
    BY <1>2 DEF Take, Sound, Receiver
  <2> QED
    BY <1>1, <1>2, <2>1 DEF Sound, Remaining
<1>3. CASE r.state = "body"
  <2>1. /\ first \in Nat /\ first <= MaxByte
        /\ k = 0 => first = byte
        /\ k # 0 => first = r.buf[0]
    BY <1>1 DEF Receiver, Buffer, Byte
  <2>2. stored.state = "body" /\ stored.index = n /\ n > 0
    BY <1>1, <1>3 DEF Receiver
  <2>3. Remaining(r) \in Nat /\ Remaining(r) = IF k = 0 THEN MaxByte ELSE first - k
    BY <1>1, <1>3, <2>1 DEF Remaining, Sound
  <2>4. CASE n < first
    <3>1. Take(r, byte) = stored
      BY <1>3, <2>4 DEF Take
    <3>2. Remaining(stored) = first - n
      BY <1>1, <2>2 DEF Remaining
    <3>3. Sound(stored)
      BY <2>2, <2>4 DEF Sound
    <3> QED
      BY <1>1, <2>1, <2>3, <2>4, <3>1, <3>2, <3>3
  <2>5. CASE ~(n < first)
    <3>1. Take(r, byte) = [Restarted(stored) EXCEPT !.complete = (n = first /\ n > HeaderSize)]
      BY <1>3, <2>5 DEF Take
    <3>2. Take(r, byte).state = "start" /\ Take(r, byte).index = 0
      BY <3>1 DEF Restarted, Receiver
    <3>3. Remaining(r) > 0
      <4>1. CASE k = 0
        BY <2>3, <4>1, FrameAssumption DEF HeaderSize
      <4>2. CASE k # 0
        BY <1>1, <1>3, <2>1, <2>3, <4>2 DEF Sound
      <4> QED
        BY <4>1, <4>2
    <3> QED
      BY <3>2, <3>3 DEF Sound, Remaining
  <2> QED
    BY <2>4, <2>5
<1> QED
  BY <1>2, <1>3 DEF Receiver

(* What is forgotten above the index is not of the message.                 *)
LEMMA SettledSound ==
    ASSUME NEW r \in Receiver
    PROVE LET q == [r EXCEPT !.complete = FALSE]
          IN  /\ Sound(r) => Sound(Settled(r)) /\ Sound(q)
              /\ Remaining(Settled(r)) = Remaining(r) /\ Remaining(q) = Remaining(r)
<1>1. /\ Settled(r).state = r.state /\ Settled(r).index = r.index
      /\ r.index > 0 => Settled(r).buf[0] = r.buf[0]
  <2>1. 0 \in Index
    BY FrameAssumption DEF Index
  <2> QED
    BY <2>1 DEF Settled, Receiver
<1>2. r.index \in Nat
  BY FrameAssumption DEF Receiver, Index
<1> QED
  BY <1>1, <1>2, FlagReset DEF Sound, Remaining

(* The interrupt handler's byte. *)
LEMMA TakeByteSound ==
    ASSUME Typed, Sound(rx), NEW byte \in Byte, TakeByte(byte)
    PROVE /\ Sound(rx')
          /\ rx.state = "body" => Remaining(rx') < Remaining(rx)
          /\ overflow' => rx.state = "body" /\ rx.index > 0 /\ rx.buf[0] > BufSize
<1> DEFINE taken == Take(rx, byte)
<1>1. rx \in Receiver /\ taken \in Receiver
  BY TakeType DEF Typed, Receivers
<1>2. Sound(taken) /\ (rx.state = "body" => Remaining(taken) < Remaining(rx))
  BY <1>1, TakeSound
<1>3. rx' = [taken EXCEPT !.complete = FALSE] \/ rx' = Settled(taken)
  BY Zenon DEF TakeByte, taken
<1> HIDE DEF taken
<1>4. Sound(rx') /\ Remaining(rx') = Remaining(taken)
  BY <1>1, <1>2, <1>3, SettledSound
<1>5. ASSUME overflow' PROVE rx.state = "body" /\ rx.index > 0 /\ rx.buf[0] > BufSize
  <2>1. rx.state = "body" /\ rx.index >= BufSize
    BY <1>5, Zenon DEF TakeByte
  <2>2. rx.index \in Nat /\ rx.buf[0] \in Nat
    BY <1>1, FrameAssumption DEF Receiver, Buffer, Index, Byte
  <2> QED
    BY <2>1, <2>2, GatewayAssumption DEF Sound
<1> QED
  BY <1>2, <1>4, <1>5

(* Both receivers. *)
BothSound == Sound(rx) /\ Sound(mrx)

(* The steps of the bytes, and the others, as the receivers see them.       *)
LEMMA ReceiverSteps ==
    ASSUME Typed, [Next]_vars
    PROVE \/ (ByteFetched \/ HeldByteFetched) /\ mrx' = mrx
             /\ \E byte \in Byte : TakeByte(byte)
          \/ OnEvent /\ UNCHANGED <<rx, overflow>>
          \/ /\ mrx' = mrx /\ overflow' = overflow
             /\ rx' \in {rx, Settled(rx), Restarted(rx)}
             /\ ~(ByteFetched \/ HeldByteFetched \/ OnEvent)
<1>1. CASE (ByteFetched \/ HeldByteFetched) /\ ~OnEvent
  <2>1. ByteFetched => Head(reqLine) \in Byte
    BY HeadTailProperties DEF ByteFetched, Typed, Lines
  <2>2. HeldByteFetched => Head(fifo) \in Byte
    BY HeadTailProperties DEF HeldByteFetched, Typed, Lines
  <2>3. mrx' = mrx
    BY <1>1, Zenon DEF Next, vars, managerVars, WaitTimesOut, LoseByte, SendRequest
  <2> QED
    BY <1>1, <2>1, <2>2, <2>3, Zenon DEF ByteFetched, HeldByteFetched
<1>2. CASE OnEvent
  BY <1>2 DEF OnEvent, serialVars
<1>3. CASE /\ ~(ByteFetched \/ HeldByteFetched \/ OnEvent)
           /\ \/ UNCHANGED vars
              \/ (ByteHeld \/ MainStep \/ StackStep) /\ UNCHANGED managerVars
              \/ WaitTimesOut \/ LoseByte
              \/ \E req \in Requests : SendRequest(req)
  <2>1. /\ mrx' = mrx /\ overflow' = overflow
        /\ rx' \in {rx, Settled(rx), Restarted(rx)}
    BY <1>3, Zenon
    DEF vars, gatewayVars, managerVars, serialVars, stackVars, ByteHeld, MainStep, BeginDispatch,
       ResetRequest, InitInternalVariables, LocalRequest, RadioRequest, UnknownRequest,
       EndDispatch, FormNetwork, StackStep, NodeAnswers, NodeDoesNotAnswer, StackUnblocksTx,
       StackResets, NetworkFormed, FormationFailed, WaitTimesOut, LoseByte, SendRequest
  <2> QED
    BY <1>3, <2>1
<1> QED
  BY <1>1, <1>2, <1>3, Zenon DEF Next, GatewayStep

(* What each step does to both receivers.                                   *)
LEMMA SoundStep ==
    ASSUME Typed, BothSound, [Next]_vars
    PROVE /\ BothSound'
          /\ ByteFetched \/ HeldByteFetched =>
                (rx.state = "body" => Remaining(rx') < Remaining(rx))
          /\ OnEvent => (mrx.state = "body" => Remaining(mrx') < Remaining(mrx))
          /\ overflow' => \/ overflow
                          \/ rx.state = "body" /\ rx.index > 0 /\ rx.buf[0] > BufSize
<1>0. rx \in Receiver /\ mrx \in Receiver
  BY DEF Typed, Receivers
<1>1. CASE /\ ByteFetched \/ HeldByteFetched
           /\ mrx' = mrx
           /\ \E byte \in Byte : TakeByte(byte)
  <2>1. ~OnEvent
    BY <1>1 DEF ByteFetched, HeldByteFetched, OnEvent, serialVars, Typed, Lines
  <2> QED
    BY <1>1, <2>1, TakeByteSound DEF BothSound
<1>2. CASE OnEvent /\ UNCHANGED <<rx, overflow>>
  <2> DEFINE taken == Take(mrx, Head(ansLine))
  <2>1. Head(ansLine) \in Byte
    BY <1>2, HeadTailProperties DEF OnEvent, Typed, Lines
  <2>2. /\ taken \in Receiver /\ Sound(taken)
        /\ mrx.state = "body" => Remaining(taken) < Remaining(mrx)
    BY <1>0, <2>1, TakeType, TakeSound DEF BothSound
  <2>3. mrx' = IF taken.state = "body" THEN Settled(taken) ELSE NewReceiver
    BY <1>2 DEF OnEvent
  <2> HIDE DEF taken
  <2>4. Sound(mrx') /\ Remaining(mrx') = Remaining(taken)
    <3>1. CASE taken.state = "body"
      BY <2>2, <2>3, <3>1, SettledSound
    <3>2. CASE taken.state = "start"
      BY <2>3, <3>2, NewReceiverType DEF Idle, Sound, Remaining
    <3> QED
      BY <2>2, <3>1, <3>2 DEF Receiver
  <2>5. ~(ByteFetched \/ HeldByteFetched)
    BY <1>2 DEF ByteFetched, HeldByteFetched, OnEvent, serialVars, Typed, Lines
  <2> QED
    BY <1>2, <2>2, <2>4, <2>5 DEF BothSound
<1>3. CASE /\ mrx' = mrx /\ overflow' = overflow
           /\ rx' \in {rx, Settled(rx), Restarted(rx)}
           /\ ~(ByteFetched \/ HeldByteFetched \/ OnEvent)
  <2>1. Sound(Restarted(rx))
    BY <1>0 DEF Restarted, Sound, Receiver
  <2>2. Sound(rx')
    BY <1>0, <1>3, <2>1, SettledSound DEF BothSound
  <2> QED
    BY <1>3, <2>2 DEF BothSound
<1> QED
  BY <1>1, <1>2, <1>3, ReceiverSteps, Zenon

(* The inductive invariant of both receivers, whatever is lost. *)
LEMMA SoundInvariant == Spec => [](Typed /\ BothSound)
<1>1. Init => BothSound
  BY NewReceiverType DEF Init, InitGateway, BothSound, Sound, Idle
<1>2. Typed /\ BothSound /\ [Next]_vars => BothSound'
  BY SoundStep
<1> QED
  BY <1>1, <1>2, TypedInvariant, PTL DEF Spec

(* Each byte that a receiver takes inside a message, wherever it is from,   *)
(* brings it nearer to the end of that message; Remaining is no more than   *)
(* MaxByte.                                                                 *)
Resynchronises ==
    [][/\ (ByteFetched \/ HeldByteFetched) /\ rx.state = "body"
             => Remaining(rx') < Remaining(rx)
       /\ OnEvent /\ mrx.state = "body" => Remaining(mrx') < Remaining(mrx)]_vars

RemainingBounded == Remaining(rx) \in Byte /\ Remaining(mrx) \in Byte

(* ZiBGateway.c, 1454-1503, and ZiBGatewayComm.cpp, 287-333: whatever the   *)
(* line loses and whatever byte is taken for a length, neither receiver is  *)
(* inside a message for more than MaxByte bytes before it seeks a start     *)
(* byte again.  This is what a lost byte can cost.                          *)
THEOREM ResynchronisesHolds == Spec => []RemainingBounded /\ Resynchronises
<1>1. ASSUME NEW r \in Receiver, Sound(r) PROVE Remaining(r) \in Byte
  <2>1. /\ MaxByte \in Nat /\ r.index \in Nat
        /\ r.buf[0] \in Nat /\ r.buf[0] <= MaxByte
    BY FrameAssumption DEF Receiver, Buffer, Index, Byte
  <2> QED
    BY <1>1, <2>1 DEF Remaining, Sound, Byte, Receiver
<1>2. Typed /\ BothSound => RemainingBounded
  BY <1>1 DEF Typed, Receivers, BothSound, RemainingBounded
<1>3. Typed /\ BothSound /\ [Next]_vars =>
         [/\ (ByteFetched \/ HeldByteFetched) /\ rx.state = "body"
                => Remaining(rx') < Remaining(rx)
          /\ OnEvent /\ mrx.state = "body" => Remaining(mrx') < Remaining(mrx)]_vars
  BY SoundStep
<1> QED
  BY <1>2, <1>3, SoundInvariant, PTL DEF Spec, Resynchronises

(* ZiBGateway.c, 236 and 1454-1503: nothing is stored behind the end of the *)
(* message buffer but in a message whose length byte exceeds the buffer.    *)
OverflowOnlyByLength == [][overflow' /\ ~overflow => rx.buf[0] > BufSize]_vars

(* The interrupt handler, which compares no length with its buffer's size,  *)
(* writes behind it only when it took a byte above BufSize for a length.    *)
THEOREM OverflowOnlyByLengthHolds == Spec => OverflowOnlyByLength
<1>1. Typed /\ BothSound /\ [Next]_vars => [overflow' /\ ~overflow => rx.buf[0] > BufSize]_vars
  BY SoundStep
<1> QED
  BY <1>1, SoundInvariant, PTL DEF Spec, OverflowOnlyByLength

================================================================================
