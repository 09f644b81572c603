------------------------------ MODULE RequestLink ------------------------------
(***************************************************************************)
(* What the manager's main thread may rely on when it issues a synchronous *)
(* request of IZiBGatewayComm: the contract of GatewayLink, without its    *)
(* threads, queue, wire, wake-up events and error field.                   *)
(*                                                                         *)
(* A request opens an answer.  An open answer's handler may run at any     *)
(* time, also long after the request returned, and sets m_hConfEvent a     *)
(* little later; an answer the gateway gives from its memory comes once    *)
(* and in turn.  A wait that finds the event set is over, whichever answer *)
(* set it.  The request then returns m_lLastError, where its outcome may   *)
(* have been overwritten.  GatewayLink implements this module, and         *)
(* Discovery runs the manager's jobs on top of it.                         *)
(***************************************************************************)
EXTENDS Naturals

CONSTANT MaxReq   \* bound: the requests issued

ASSUME MaxReqAssumption == MaxReq \in Nat

VARIABLES phase,    \* the main thread: "idle", "cleared", "waiting" or "returning"
          cur,      \* the number of the last request
          event,    \* m_hConfEvent
          open,     \* requests whose answer may still be handled
          once,     \* those the gateway answers from its memory
          parsed,   \* the answer whose handler ran and whose SetEvent is due, or 0
          answered, \* the event ended the last request's wait
          outcome   \* what that request returned: "SUCCESS", "FAILED" or "NONE" yet

requestVars == <<phase, cur, event, open, once, parsed, answered, outcome>>

Requests == 1 .. MaxReq

LinkInit ==
    /\ phase = "idle" /\ cur = 0
    /\ event = FALSE /\ open = {} /\ once = {} /\ parsed = 0
    /\ answered = FALSE /\ outcome = "NONE"

(* ResetEvent. *)
Start ==
    /\ phase = "idle" /\ cur < MaxReq
    /\ phase' = "cleared" /\ cur' = cur + 1 /\ event' = FALSE
    /\ answered' = FALSE /\ outcome' = "NONE"
    /\ UNCHANGED <<open, once, parsed>>

(* The write, received by the gateway or not. *)
Send ==
    /\ phase = "cleared"
    /\ phase' = "waiting"
    /\ \/ UNCHANGED <<open, once>>
       \/ open' = open \cup {cur} /\ once' \in {once, once \cup {cur}}
    /\ UNCHANGED <<cur, event, parsed, answered, outcome>>

Succeed ==
    /\ phase = "waiting" /\ event
    /\ phase' = "returning" /\ event' = FALSE /\ answered' = TRUE
    /\ UNCHANGED <<cur, open, once, parsed, outcome>>

(* The wait timed out, or the write failed, or seemed to, and there was    *)
(* none.                                                                   *)
GiveUp ==
    /\ phase = "waiting"
    /\ phase' = "returning"
    /\ UNCHANGED <<cur, event, open, once, parsed, answered, outcome>>

(* The outcome is what became of the wait ... *)
ReturnTrue ==
    /\ phase = "returning"
    /\ phase' = "idle" /\ outcome' = IF answered THEN "SUCCESS" ELSE "FAILED"
    /\ UNCHANGED <<cur, event, open, once, parsed, answered>>

(* ... or the opposite, if another thread wrote to m_lLastError.           *)
ReturnOverwritten ==
    /\ phase = "returning"
    /\ phase' = "idle" /\ outcome' = IF answered THEN "FAILED" ELSE "SUCCESS"
    /\ UNCHANGED <<cur, event, open, once, parsed, answered>>

(* The handler of r's answer has run.  A radio answer may come again; one  *)
(* from memory comes once, and before the answers to later requests.       *)
Handle(r) ==
    /\ parsed = 0 /\ r \in open /\ \A l \in once : r <= l
    /\ parsed' = r
    /\ open' \in {open, open \ {r}} /\ (r \in once => r \notin open')
    /\ once' = once \ {r}
    /\ UNCHANGED <<phase, cur, event, answered, outcome>>

Signal ==
    /\ parsed # 0
    /\ parsed' = 0 /\ event' = TRUE
    /\ UNCHANGED <<phase, cur, open, once, answered, outcome>>

LinkNext == \/ Start \/ Send \/ Succeed \/ GiveUp \/ ReturnTrue \/ ReturnOverwritten
            \/ Signal \/ \E r \in Requests : Handle(r)

LinkSpec == LinkInit /\ [][LinkNext]_requestVars

================================================================================
