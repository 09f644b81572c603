------------------------------ MODULE MessageLink ------------------------------
(***************************************************************************)
(* What the serial line and the gateway promise a manager that speaks in    *)
(* messages, as GatewayLink does: requests and confirmations come whole and *)
(* in order.  Bytes, receivers, the interrupt, the UART and the shared      *)
(* buffer do not show.                                                      *)
(*                                                                         *)
(* A message is known by its code.  The gateway keeps one request at a time *)
(* and answers it at once or owes its answer to a node; a confirmation is   *)
(* only ever of a request that was dispatched.  It ends the manager's wait. *)
(* GatewaySerial implements this module until a byte is lost or a request   *)
(* overtakes the gateway; of what follows nothing is promised.              *)
(***************************************************************************)
EXTENDS Naturals

CONSTANTS AtOnce,   \* codes of the requests the gateway answers by itself
          ByNode    \* codes of the requests a node answers

VARIABLES waiting,     \* the manager waits for a confirmation
          request,     \* the code of the request under way, or <<>>
          place,       \* where it is: "none", "line", "held" or "dispatched"
          owed,        \* codes whose answer a node may give, also again
          answer,      \* the code of the confirmation under way, or <<>>
          disturbed    \* nothing is promised any more

messageVars == <<waiting, request, place, owed, answer, disturbed>>

MessageInit ==
    /\ ~waiting /\ ~disturbed
    /\ request = <<>> /\ place = "none"
    /\ owed = {} /\ answer = <<>>

(* The manager writes a request when nothing is under way. *)
Send(c) ==
    /\ ~waiting /\ place = "none" /\ answer = <<>>
    /\ waiting' = TRUE /\ request' = <<c>> /\ place' = "line"
    /\ UNCHANGED <<owed, answer>>

(* Its last byte is received. *)
Receive ==
    /\ place = "line" /\ place' = "held"
    /\ UNCHANGED <<waiting, request, owed, answer>>

Dispatch ==
    /\ place = "held" /\ place' = "dispatched"
    /\ UNCHANGED <<waiting, request, owed, answer>>

(* The confirmation's code is the request's and one. *)
AnswerAtOnce(c) ==
    /\ place = "dispatched" /\ request = <<c>> /\ answer = <<>>
    /\ answer' = <<c + 1>> /\ request' = <<>> /\ place' = "none"
    /\ UNCHANGED <<waiting, owed>>

AskNode(c) ==
    /\ place = "dispatched" /\ request = <<c>>
    /\ owed' = owed \cup {c} /\ request' = <<>> /\ place' = "none"
    /\ UNCHANGED <<waiting, answer>>

AnswerOfNode(c) ==
    /\ c \in owed /\ answer = <<>>
    /\ answer' = <<c + 1>> /\ owed' \in {owed, owed \ {c}}
    /\ UNCHANGED <<waiting, request, place>>

(* A node does not answer, or the stack is reset. *)
Forget ==
    /\ owed' \subseteq owed
    /\ UNCHANGED <<waiting, request, place, answer>>

(* The last byte of a confirmation: it ends any wait. *)
Deliver ==
    /\ answer # <<>> /\ answer' = <<>>
    /\ waiting' = FALSE
    /\ UNCHANGED <<request, place, owed>>

(* The wait times out, with the request lost nowhere on the way. *)
GiveUp ==
    /\ waiting /\ place \in {"none", "held"} /\ answer = <<>>
    /\ waiting' = FALSE
    /\ UNCHANGED <<request, place, owed, answer>>

MessageNext ==
    \/ disturbed' = TRUE
    \/ /\ \/ \E c \in AtOnce \cup ByNode : Send(c)
          \/ Receive \/ Dispatch
          \/ \E c \in AtOnce : AnswerAtOnce(c)
          \/ \E c \in ByNode : AskNode(c) \/ AnswerOfNode(c)
          \/ Forget \/ Deliver \/ GiveUp
       /\ UNCHANGED disturbed

MessageSpec == MessageInit /\ [][MessageNext]_messageVars

================================================================================
