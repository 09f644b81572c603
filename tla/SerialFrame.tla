------------------------------ MODULE SerialFrame ------------------------------
(***************************************************************************)
(* The framing both ends of the serial line agree on                        *)
(* (common/ZiBManagerGatewayProtocol.h) and the receiver both implement:    *)
(* IZiBGatewayComm::OnEvent in the manager, the interrupt handler in the    *)
(* gateway.  A start byte precedes each message; the message's first byte   *)
(* is its length, itself included, and the second its code.  Neither        *)
(* receiver has the timeout the header asks for, so that a byte that is     *)
(* lost costs bytes of the messages that follow.                            *)
(***************************************************************************)
EXTENDS Naturals, Sequences

CONSTANTS StartByte,   \* ZIB_COMM_START_BYTE
          MaxByte      \* bound: the bytes on the line are 0 .. MaxByte

HeaderSize == 2        \* ZIB_MSG_HEADER_SIZE

ASSUME FrameAssumption ==
    MaxByte \in Nat /\ MaxByte > HeaderSize /\ StartByte \in 0 .. MaxByte

Byte == 0 .. MaxByte

(* No message is longer than its length byte can say. *)
Index == 0 .. MaxByte
Buffer == [Index -> Byte]

(* A receiver: the state of its machine, the bytes of the message taken so  *)
(* far, the buffer they are in, and whether the last byte completed one.    *)
Receiver == [state : {"start", "body"}, index : Index, buf : Buffer, complete : BOOLEAN]

NewReceiver == [state |-> "start", index |-> 0, buf |-> [i \in Index |-> 0],
                complete |-> FALSE]

Restarted(rx) == [rx EXCEPT !.state = "start", !.index = 0]

(* Seeded fault: the start byte is recognised inside a message too. *)
TakeRestartingOnStart(rx, byte) ==
    IF byte = StartByte
    THEN [rx EXCEPT !.complete = FALSE, !.state = "body", !.index = 0]
    ELSE LET n == rx.index + 1
             stored == [rx EXCEPT !.buf[rx.index] = byte, !.index = n, !.complete = FALSE]
         IN  IF rx.state = "start" THEN [rx EXCEPT !.complete = FALSE]
             ELSE IF n < stored.buf[0] THEN stored
             ELSE [Restarted(stored) EXCEPT
                      !.complete = (n = stored.buf[0] /\ n > HeaderSize)]

(* Seeded fault: the index is not put back when a message is complete. *)
TakeKeepingIndex(rx, byte) ==
    IF rx.state = "start"
    THEN [rx EXCEPT !.complete = FALSE,
                    !.state = IF byte = StartByte THEN "body" ELSE "start"]
    ELSE LET n == rx.index + 1
             stored == [rx EXCEPT !.buf[rx.index] = byte, !.index = n, !.complete = FALSE]
         IN  IF n < stored.buf[0] THEN stored
             ELSE [stored EXCEPT !.state = "start",
                                 !.index = IF n > HeaderSize THEN HeaderSize ELSE 0,
                                 !.complete = (n = stored.buf[0] /\ n > HeaderSize)]

(* One byte: sought as a start byte, or stored.  The message ends when it   *)
(* has as many bytes as its first byte says; one without data, or with a    *)
(* length of zero, is dropped.                                              *)
Take(rx, byte) ==
    IF rx.state = "start"
    THEN [rx EXCEPT !.complete = FALSE,
                    !.state = IF byte = StartByte THEN "body" ELSE "start"]
    ELSE LET n == rx.index + 1
             stored == [rx EXCEPT !.buf[rx.index] = byte, !.index = n, !.complete = FALSE]
         IN  IF n < stored.buf[0] THEN stored
             ELSE [Restarted(stored) EXCEPT
                      !.complete = (n = stored.buf[0] /\ n > HeaderSize)]

(* A message of some code and data, as it is written to the line. *)
Frame(code, data) == <<StartByte, HeaderSize + Len(data), code>> \o data

(* The bytes above the index are of no more use. *)
Settled(rx) == [rx EXCEPT !.buf = [i \in Index |-> IF i < rx.index THEN rx.buf[i] ELSE 0],
                          !.complete = FALSE]

(* What a receiver holds of the frame it is in. *)
Held(rx) ==
    IF rx.state = "start" THEN <<>>
    ELSE <<StartByte>> \o [i \in 1 .. rx.index |-> rx.buf[i - 1]]

(* The buffer starts with this message. *)
Holds(buf, frame) == \A i \in 2 .. Len(frame) : i - 2 \in Index /\ buf[i - 2] = frame[i]

================================================================================
