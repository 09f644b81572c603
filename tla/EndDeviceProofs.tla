---------------------------- MODULE EndDeviceProofs ----------------------------
(***************************************************************************)
(* Proofs about EndDevice, for any number of parents, networks, console     *)
(* keys and power cuts.                                                     *)
(*                                                                         *)
(* The flags, the parent's index and the list of networks are kept right by *)
(* the order of the stack's primitives alone.  The invariant says what each *)
(* operation of the MAC, and a join request between two turns, implies for  *)
(* them; most of it needs networks with one parent each, without which a    *)
(* failed association leaves a second one under way that nobody knows of.   *)
(* With it, membership changes only as MembershipStep says.                 *)
(***************************************************************************)
EXTENDS EndDevice, TLAPS

Types ==
    /\ key \in {"none", "reset", "channel", "other"} /\ leaving \in {"no", "asked", "reset"}
    /\ parent \in Parents \cup {NoParent, BehindTable}
    /\ nvmParent \in Parents \cup {NoParent, BehindTable}
    /\ candidates \subseteq Parents
    /\ mac \subseteq {"scan", "orphan", "assoc", "poll", "expect"}
    /\ primitive \in {"none", "join", "channel", "pause"} /\ wanted \in Pans
    /\ networks \subseteq Pans /\ untried \subseteq networks
    /\ tries \in 0 .. TriesWidth - 1
    /\ lost \in Nat /\ keys \in 0 .. MaxKeys /\ cuts \in 0 .. MaxCuts

(* One attempt to join at a time, by a device in no network; a device polls *)
(* and leaves only in one.                                                  *)
AttemptInv ==
    /\ "scan" \in mac => /\ ~joined /\ trying /\ ~tryOrphan /\ primitive # "join"
                         /\ "assoc" \notin mac /\ "orphan" \notin mac
    /\ "orphan" \in mac => /\ ~joined /\ trying /\ tryOrphan /\ primitive # "join"
                           /\ "assoc" \notin mac
    /\ "assoc" \in mac => /\ ~joined /\ trying /\ ~tryOrphan /\ primitive # "join"
                          /\ parent \in Parents /\ PanOf[parent] = wanted
    /\ primitive = "join" => ~joined /\ ~tryOrphan
    /\ leaving # "no" \/ "poll" \in mac \/ "expect" \in mac => joined
    /\ primitive = "pause" => joined

(* Where the device may look for its parent, there is one. *)
ParentInv ==
    /\ nvmParent # BehindTable
    /\ joined /\ leaving # "reset" => parent \in Parents /\ nvmParent = parent
    /\ tryOrphan /\ leaving # "reset" => parent \in Parents

(* Each list lost or abandoned has cost a key. *)
InUse == primitive = "join" \/ "assoc" \in mac
Abandoned == IF networks # {} /\ ~InUse THEN 1 ELSE 0
ResetDue == IF key \in {"reset", "channel"} THEN 1 ELSE 0
ChannelDue == IF primitive = "channel" THEN 1 ELSE 0
ListInv == lost + Abandoned + ResetDue + ChannelDue <= keys

JoinInv == AttemptInv /\ ParentInv /\ ListInv
Inv == Types /\ OrphanTriesLast /\ (OneParentEach => JoinInv)

--------------------------------------------------------------------------------

(* A device that was never in a network has no list and no attempt. *)
LEMMA InitInv == Init => Inv
<1> SUFFICES ASSUME Init PROVE Inv
  OBVIOUS
<1>1. Types
  BY EndDeviceAssumption DEF Init, Types, TriesWidth, OrphanTries
<1>2. OrphanTriesLast /\ AttemptInv /\ ParentInv
  BY DEF Init, OrphanTriesLast, AttemptInv, ParentInv, NoParent, BehindTable
<1>3. ListInv
  BY DEF Init, ListInv, Abandoned, ResetDue, ChannelDue, InUse
<1> QED
  BY <1>1, <1>2, <1>3 DEF Inv, JoinInv

(* A failed attempt as an orphan leaves the list alone; any other goes on    *)
(* with the list or frees it.                                               *)
LEMMA JoinFailedDoes ==
    ASSUME Types, NEW asOrphan, JoinFailed(asOrphan)
    PROVE  /\ wanted' \in Pans /\ networks' \subseteq Pans /\ untried' \subseteq networks'
           /\ tries' \in 0 .. TriesWidth - 1 /\ primitive' \in {"none", "join"}
           /\ tryOrphan' => asOrphan /\ tries' > 0
           /\ asOrphan => primitive' = "none" /\ networks' = networks
           /\ ~asOrphan => networks' = {} \/ primitive' = "join"
<1> USE DEF Types, JoinFailed, TriesWidth
<1>1. CASE asOrphan
  <2>1. tries' \in 0 .. TriesWidth - 1
    BY <1>1
  <2>2. tryOrphan' => tries' # 0
    BY <1>1
  <2> QED
    BY <1>1, <2>1, <2>2
<1>2. CASE ~asOrphan
  BY <1>2
<1> QED
  BY <1>1, <1>2

(* At power-up the only thing kept is the neighbour table.                  *)
LEMMA PoweredUpInv == ASSUME Inv, PoweredUp, UNCHANGED keys, cuts' \in 0 .. MaxCuts PROVE Inv'
<1> USE DEF PoweredUp, OrphanTries, TriesWidth
<1>1. Types'
  BY EndDeviceAssumption DEF Inv, Types
<1>2. OrphanTriesLast'
  BY DEF OrphanTriesLast
<1>3. ASSUME OneParentEach PROVE JoinInv'
  <2> USE <1>3 DEF Inv, Types, JoinInv
  <2>1. AttemptInv'
    BY DEF AttemptInv
  <2>2. ParentInv'
    BY ParentsAssumption DEF AttemptInv, ParentInv, NoParent, BehindTable
  <2>3. ListInv'
    BY DEF AttemptInv, ListInv, Abandoned, ResetDue, ChannelDue, InUse
  <2> QED
    BY <2>1, <2>2, <2>3
<1> QED
  BY <1>1, <1>2, <1>3 DEF Inv

(* A power cut is a power-up with the state of the radio lost. *)
LEMMA PowerCutInv == ASSUME Inv, PowerCut PROVE Inv'
BY PoweredUpInv, EndDeviceAssumption DEF PowerCut, Inv, Types

(* A switch touches no state of the join. *)
LEMMA SwitchInv ==
    ASSUME Inv, SwitchToggled PROVE Inv'
<1> USE DEF SwitchToggled, flagVars, pollVars, tableVars, listVars, descriptorVars, switchVars,
   boundVars
<1>1. Types'
  BY EndDeviceAssumption DEF Inv, Types
<1>2. OrphanTriesLast'
  BY <1>1 DEF Inv, Types, OrphanTriesLast
<1>3. ASSUME OneParentEach PROVE JoinInv'
  <2> USE <1>3 DEF Inv, Types, JoinInv
  <2>1. AttemptInv'
    BY DEF AttemptInv
  <2>2. ParentInv'
    BY ParentsAssumption DEF AttemptInv, ParentInv, NoParent, BehindTable
  <2>3. ListInv'
    BY DEF AttemptInv, ListInv, Abandoned, ResetDue, ChannelDue, InUse
  <2> QED
    BY <2>1, <2>2, <2>3
<1> QED
  BY <1>1, <1>2, <1>3 DEF Inv

(* A key may come to be a reset. *)
LEMMA KeyInv ==
    ASSUME Inv, KeyPressed PROVE Inv'
<1> USE DEF KeyPressed, flagVars, pollVars, tableVars, listVars, descriptorVars, switchVars,
   boundVars
<1>1. Types'
  BY EndDeviceAssumption DEF Inv, Types
<1>2. OrphanTriesLast'
  BY <1>1 DEF Inv, Types, OrphanTriesLast
<1>3. ASSUME OneParentEach PROVE JoinInv'
  <2> USE <1>3 DEF Inv, Types, JoinInv
  <2>1. AttemptInv'
    BY DEF AttemptInv
  <2>2. ParentInv'
    BY ParentsAssumption DEF AttemptInv, ParentInv, NoParent, BehindTable
  <2>3. ListInv'
    BY DEF AttemptInv, ListInv, Abandoned, ResetDue, ChannelDue, InUse
  <2> QED
    BY <2>1, <2>2, <2>3
<1> QED
  BY <1>1, <1>2, <1>3 DEF Inv

(* Polling and what comes of it happens in a network. *)
LEMMA PollInv ==
    ASSUME Inv, NEW ok \in BOOLEAN,
           PollAcknowledged(ok) \/ NoMessage \/ MessageReceived \/ FrameSent \/ OtherFrameReceived
    PROVE  Inv'
<1> USE DEF Inv, Types
<1>1. UNCHANGED <<flagVars, tableVars, listVars, switchVars, boundVars>>
  BY DEF PollAcknowledged, NoMessage, MessageReceived, FrameSent, OtherFrameReceived
<1>2. /\ mac' \subseteq {"scan", "orphan", "assoc", "poll", "expect"}
      /\ leaving' \in {"no", "asked", "reset"}
      /\ "scan" \in mac' => "scan" \in mac
      /\ "orphan" \in mac' => "orphan" \in mac
      /\ "assoc" \in mac' => "assoc" \in mac
      /\ "assoc" \in mac => "assoc" \in mac'
  <2>1. mac' \in {mac, mac \ {"poll"}, mac \ {"expect"}, (mac \ {"poll"}) \cup {"expect"}}
    BY DEF PollAcknowledged, NoMessage, MessageReceived, FrameSent, OtherFrameReceived
  <2>2. leaving' \in {leaving, "asked"}
    BY DEF PollAcknowledged, NoMessage, MessageReceived, FrameSent, OtherFrameReceived
  <2> QED
    BY <2>1, <2>2
<1>3. ("poll" \in mac \/ "expect" \in mac) \/ (mac' = mac /\ leaving' = leaving)
  BY DEF PollAcknowledged, NoMessage, MessageReceived, FrameSent, OtherFrameReceived
<1>4. leaving' = leaving \/ (leaving = "no" /\ leaving' = "asked")
  BY DEF PollAcknowledged, NoMessage, MessageReceived, FrameSent, OtherFrameReceived
<1>5. Types' /\ OrphanTriesLast'
  BY <1>1, <1>2 DEF OrphanTriesLast, flagVars, tableVars, listVars, descriptorVars, switchVars,
     boundVars
<1>6. ASSUME OneParentEach PROVE JoinInv'
  <2> USE <1>6 DEF JoinInv
  <2>1. AttemptInv'
    BY <1>1, <1>2, <1>3 DEF AttemptInv, flagVars, tableVars, listVars, descriptorVars
  <2>2. ParentInv'
    BY <1>1, <1>4 DEF ParentInv, flagVars, tableVars
  <2>3. ListInv'
    BY <1>1, <1>2 DEF ListInv, Abandoned, ResetDue, ChannelDue, InUse, listVars, descriptorVars,
       switchVars, boundVars
  <2> QED
    BY <2>1, <2>2, <2>3
<1> QED
  BY <1>5, <1>6

(* Leaving takes the parent out of the table, then the device out of the   *)
(* network.                                                                 *)
LEMMA LeaveInv ==
    ASSUME Inv, Disassociated \/ LeaveReset PROVE Inv'
<1> USE DEF Disassociated, LeaveReset, StackReset, Ready, LoopRuns, flagVars, pollVars, tableVars,
   listVars, descriptorVars, switchVars, boundVars
<1>1. Types'
  BY EndDeviceAssumption DEF Inv, Types
<1>2. OrphanTriesLast'
  BY <1>1 DEF Inv, Types, OrphanTriesLast
<1>3. ASSUME OneParentEach PROVE JoinInv'
  <2> USE <1>3 DEF Inv, Types, JoinInv
  <2>1. AttemptInv'
    BY DEF AttemptInv
  <2>2. ParentInv'
    BY ParentsAssumption DEF AttemptInv, ParentInv, NoParent, BehindTable
  <2>3. ListInv'
    BY DEF AttemptInv, ListInv, Abandoned, ResetDue, ChannelDue, InUse
  <2> QED
    BY <2>1, <2>2, <2>3
<1> QED
  BY <1>1, <1>2, <1>3 DEF Inv

(* The main loop begins an attempt only outside a network and without one;   *)
(* a reset pays for the list it abandons with its key.                      *)
Cost(reset) == IF reset THEN 1 ELSE 0

LEMMA RestOfTurnInv ==
    ASSUME Inv, NEW reset \in BOOLEAN, primitive \in {"none", "channel"},
           RestOfTurn(reset), UNCHANGED <<descriptorVars, boundVars>>,
           key' \in {key, "none"}, ResetDue' + Cost(reset) <= ResetDue + ChannelDue
    PROVE  Inv'
<1> USE DEF Inv, Types
<1>1. UNCHANGED <<wanted, networks, untried, tries, lost, keys, cuts>>
  BY DEF descriptorVars, boundVars
<1>2. CASE JoinTurn /\ primitive' = "none" /\ UNCHANGED <<pollVars, leaving>>
  <2>1. ~joined /\ ~trying /\ trying' /\ UNCHANGED <<joined, leaving>>
    BY <1>2 DEF JoinTurn, OrphanRequest, DiscoveryRequest, pollVars
  <2>2. CASE tryOrphan /\ OrphanRequest
    <3>1. UNCHANGED <<tryOrphan, tableVars>> /\ mac' = mac \cup {"orphan"}
      BY <2>2 DEF OrphanRequest
    <3>2. Types' /\ OrphanTriesLast'
      BY <1>1, <1>2, <2>1, <3>1 DEF OrphanTriesLast, tableVars
    <3>3. ASSUME OneParentEach PROVE JoinInv'
      <4> USE <3>3 DEF JoinInv
      <4>1. AttemptInv'
        BY <1>1, <1>2, <2>1, <2>2, <3>1 DEF AttemptInv, tableVars
      <4>2. ParentInv'
        BY <1>1, <2>1, <3>1 DEF ParentInv, tableVars
      <4>3. ListInv'
        BY <1>1, <1>2, <3>1 DEF ListInv, Abandoned, ResetDue, ChannelDue, Cost, InUse
      <4> QED
        BY <4>1, <4>2, <4>3
    <3> QED
      BY <3>2, <3>3
  <2>3. CASE ~tryOrphan /\ DiscoveryRequest
    <3>1. /\ ~tryOrphan' /\ mac' = mac \cup {"scan"} /\ parent' = NoParent /\ candidates' = {}
          /\ nvmParent' \in {nvmParent, NoParent}
      BY <2>3 DEF DiscoveryRequest
    <3>2. Types' /\ OrphanTriesLast'
      BY <1>1, <1>2, <2>1, <3>1 DEF OrphanTriesLast
    <3>3. ASSUME OneParentEach PROVE JoinInv'
      <4>1. AttemptInv'
        BY <1>1, <1>2, <2>1, <2>3, <3>1, <3>3 DEF JoinInv, AttemptInv
      <4>2. ParentInv' /\ ListInv'
        BY <1>1, <1>2, <2>1, <2>3, <3>1, <3>3 DEF JoinInv, ParentInv, ListInv, Abandoned,
           ResetDue, ChannelDue, Cost, InUse, NoParent, BehindTable
      <4> QED
        BY <4>1, <4>2 DEF JoinInv
    <3> QED
      BY <3>2, <3>3
  <2> QED
    BY <1>2, <2>2, <2>3 DEF JoinTurn
<1>3. CASE StackReset /\ reset /\ primitive' = "none"
  <2>1. Types' /\ OrphanTriesLast'
    BY <1>1, <1>3 DEF StackReset, OrphanTriesLast, tableVars
  <2>2. ASSUME OneParentEach PROVE JoinInv'
    BY <1>1, <1>3, <2>2 DEF StackReset, JoinInv, AttemptInv, ParentInv, ListInv, Abandoned,
       ResetDue, ChannelDue, Cost, InUse, tableVars
  <2> QED
    BY <2>1, <2>2
<1>4. CASE joined /\ NetworkTurn
  <2>1. /\ UNCHANGED <<flagVars, tableVars, leaving>>
        /\ primitive' \in {"none", "pause"}
        /\ mac' \subseteq {"scan", "orphan", "assoc", "poll", "expect"}
        /\ "scan" \in mac' => "scan" \in mac
        /\ "orphan" \in mac' => "orphan" \in mac
        /\ "assoc" \in mac' => "assoc" \in mac
        /\ "assoc" \in mac => "assoc" \in mac'
    <3>1. mac' \in {mac, (mac \ {"expect"}) \cup {"poll"}}
      BY <1>4 DEF NetworkTurn, SyncRequest
    <3>2. primitive' \in {"none", "pause"}
      BY <1>4 DEF NetworkTurn, OwnTasks
    <3> QED
      BY <1>4, <3>1, <3>2 DEF NetworkTurn
  <2>2. Types' /\ OrphanTriesLast'
    BY <1>1, <2>1 DEF OrphanTriesLast, flagVars, tableVars
  <2>3. ASSUME OneParentEach PROVE JoinInv'
    BY <1>1, <1>4, <2>1, <2>3 DEF JoinInv, AttemptInv, ParentInv, ListInv, Abandoned,
       ResetDue, ChannelDue, Cost, InUse, flagVars, tableVars
  <2> QED
    BY <2>2, <2>3
<1>5. CASE primitive' = "none" /\ UNCHANGED <<flagVars, leaving, tableVars, mac>>
  <2>1. Types' /\ OrphanTriesLast'
    BY <1>1, <1>5 DEF OrphanTriesLast, flagVars, tableVars
  <2>2. ASSUME OneParentEach PROVE JoinInv'
    BY <1>1, <1>5, <2>2 DEF JoinInv, AttemptInv, ParentInv, ListInv, Abandoned,
       ResetDue, ChannelDue, Cost, InUse, flagVars, tableVars
  <2> QED
    BY <2>1, <2>2
<1> QED
  BY <1>2, <1>3, <1>4, <1>5 DEF RestOfTurn

(* The key for a channel is one the list may later be paid with. *)
LEMMA TurnInv == ASSUME Inv, Turn PROVE Inv'
<1>1. primitive = "none" /\ UNCHANGED <<descriptorVars, boundVars>>
  BY DEF Turn
<1>2. CASE /\ key = "channel" /\ key' = "none" /\ primitive' = "channel"
           /\ UNCHANGED <<flagVars, leaving, tableVars, mac>>
  <2> USE DEF Inv, Types, descriptorVars, boundVars, flagVars, tableVars
  <2>1. Types' /\ OrphanTriesLast'
    BY <1>1, <1>2 DEF OrphanTriesLast
  <2>2. ASSUME OneParentEach PROVE JoinInv'
    BY <1>1, <1>2, <2>2 DEF JoinInv, AttemptInv, ParentInv, ListInv, Abandoned, ResetDue,
       ChannelDue, InUse
  <2> QED
    BY <2>1, <2>2
<1>3. ASSUME NEW reset \in BOOLEAN, RestOfTurn(reset), key' \in {key, "none"},
             reset => key = "reset" /\ key' = "none"
      PROVE  Inv'
  <2>1. ResetDue' + Cost(reset) <= ResetDue + ChannelDue
    BY <1>3 DEF ResetDue, ChannelDue, Cost
  <2> QED
    BY <1>1, <1>3, <2>1, RestOfTurnInv
<1> QED
  BY <1>2, <1>3 DEF Turn

(* A channel that exists is a reset paid with the key that asked for it. *)
LEMMA ChannelInv == ASSUME Inv, ChannelTyped PROVE Inv'
<1>1. PICK exists \in BOOLEAN : key' = (IF exists THEN "none" ELSE key) /\ RestOfTurn(exists)
  BY DEF ChannelTyped
<1>2. primitive = "channel" /\ UNCHANGED <<descriptorVars, boundVars>>
  BY DEF ChannelTyped
<1>3. ResetDue' + Cost(exists) <= ResetDue + ChannelDue
  BY <1>1, <1>2 DEF ResetDue, ChannelDue, Cost
<1> QED
  BY <1>1, <1>2, <1>3, RestOfTurnInv

(* The pause ends with a key, or with a power-up. *)
LEMMA PauseInv == ASSUME Inv, PauseEnds PROVE Inv'
<1> USE DEF Inv, Types
<1>1. primitive = "pause" /\ UNCHANGED <<keys, cuts>>
  BY DEF PauseEnds
<1>2. CASE /\ primitive' = "none"
           /\ UNCHANGED <<flagVars, leaving, tableVars, mac, descriptorVars, key, lost>>
  <2> USE DEF descriptorVars, flagVars, tableVars
  <2>1. Types' /\ OrphanTriesLast'
    BY <1>1, <1>2 DEF OrphanTriesLast
  <2>2. ASSUME OneParentEach PROVE JoinInv'
    BY <1>1, <1>2, <2>2 DEF JoinInv, AttemptInv, ParentInv, ListInv, Abandoned, ResetDue,
       ChannelDue, InUse
  <2> QED
    BY <2>1, <2>2
<1>3. CASE PoweredUp
  BY <1>1, <1>3, PoweredUpInv
<1> QED
  BY <1>2, <1>3 DEF PauseEnds, switchVars

(* A join request finds a parent of the wanted network, or the next network. *)
LEMMA JoinRequestInv == ASSUME Inv, JoinRequest PROVE Inv'
<1> USE DEF Inv, Types
<1>1. /\ primitive = "join" /\ candidates' = candidates
      /\ UNCHANGED <<joined, leaving, nvmParent, key, lost, keys, cuts>>
  BY DEF JoinRequest, switchVars, boundVars
<1>2. CASE Eligible(wanted, candidates) # {}
  <2>1. /\ parent' \in Parents /\ PanOf[parent'] = wanted
        /\ mac' = mac \cup {"assoc"} /\ trying' /\ primitive' = "none"
        /\ UNCHANGED <<tryOrphan, networks, untried, wanted, tries>>
    BY <1>2 DEF JoinRequest, Eligible
  <2>2. Types' /\ OrphanTriesLast'
    BY <1>1, <2>1 DEF OrphanTriesLast
  <2>3. ASSUME OneParentEach PROVE JoinInv'
    BY <1>1, <2>1, <2>3 DEF JoinInv, AttemptInv, ParentInv, ListInv, Abandoned, ResetDue,
       ChannelDue, InUse
  <2> QED
    BY <2>2, <2>3
<1>3. CASE Eligible(wanted, candidates) = {}
  <2>1. parent' = BehindTable /\ ~trying' /\ mac' = mac /\ JoinFailed(tryOrphan)
    BY <1>3 DEF JoinRequest
  <2>2. /\ wanted' \in Pans /\ networks' \subseteq Pans /\ untried' \subseteq networks'
        /\ tries' \in 0 .. TriesWidth - 1 /\ primitive' \in {"none", "join"}
        /\ tryOrphan' => tryOrphan /\ tries' > 0
        /\ ~tryOrphan => networks' = {} \/ primitive' = "join"
    BY <2>1, JoinFailedDoes
  <2>3. Types' /\ OrphanTriesLast'
    BY <1>1, <2>1, <2>2 DEF OrphanTriesLast
  <2>4. ASSUME OneParentEach PROVE JoinInv'
    BY <1>1, <2>1, <2>2, <2>4 DEF JoinInv, AttemptInv, ParentInv, ListInv, Abandoned, ResetDue,
       ChannelDue, InUse
  <2> QED
    BY <2>3, <2>4
<1> QED
  BY <1>2, <1>3

(* A discovery leaves a list to work through, or none.                      *)
LEMMA ScanInv ==
    ASSUME Inv, NEW heard \in SUBSET Parents, NEW nets \in SUBSET Pans, ScanDone(heard, nets)
    PROVE  Inv'
<1> USE DEF Inv, Types
<1>0. "scan" \in mac /\ UNCHANGED <<keys, cuts>>
  BY DEF ScanDone
<1>1. CASE PoweredUp
  BY <1>0, <1>1, PoweredUpInv
<1>2. CASE ~(Cardinality(nets) > 2)
  <2>1. /\ mac' = mac \ {"scan"} /\ candidates' \subseteq Parents
        /\ UNCHANGED <<joined, tryOrphan, leaving, parent, nvmParent, tries, key>>
    BY <1>2 DEF ScanDone, switchVars
  <2>2. CASE nets = {}
    <3>1. UNCHANGED <<primitive, networks, untried, wanted, lost>>
      BY <1>2, <2>2 DEF ScanDone
    <3>2. Types' /\ OrphanTriesLast'
      BY <1>0, <2>1, <3>1 DEF OrphanTriesLast
    <3>3. ASSUME OneParentEach PROVE JoinInv'
      BY <1>0, <2>1, <3>1, <3>3 DEF JoinInv, AttemptInv, ParentInv, ListInv, Abandoned, ResetDue,
         ChannelDue, InUse
    <3> QED
      BY <3>2, <3>3
  <2>3. CASE nets # {}
    <3>1. PICK pan \in nets :
             /\ networks' = nets /\ untried' = nets \ {pan} /\ wanted' = pan /\ primitive' = "join"
             /\ lost' = IF networks = {} THEN lost ELSE lost + 1
      BY <1>2, <2>3 DEF ScanDone
    <3>2. Types' /\ OrphanTriesLast'
      BY <1>0, <2>1, <3>1 DEF OrphanTriesLast
    <3>3. ASSUME OneParentEach PROVE JoinInv'
      <4> USE <3>3 DEF JoinInv
      <4>1. AttemptInv' /\ ParentInv'
        BY <1>0, <2>1, <3>1 DEF AttemptInv, ParentInv
      <4>2. ~InUse
        BY <1>0 DEF AttemptInv, InUse
      <4>3. /\ lost' = lost + Abandoned /\ Abandoned' = 0
            /\ ResetDue' = ResetDue /\ ChannelDue' <= ChannelDue
        BY <2>1, <3>1, <4>2 DEF Abandoned, ResetDue, ChannelDue, InUse
      <4>4. ListInv'
        BY <1>0, <4>3 DEF ListInv, Abandoned, ResetDue, ChannelDue
      <4> QED
        BY <4>1, <4>4
    <3> QED
      BY <3>2, <3>3
  <2> QED
    BY <2>2, <2>3
<1> QED
  BY <1>1, <1>2 DEF ScanDone

(* The parent of an orphan answers, or an attempt is used up.               *)
LEMMA OrphanInv == ASSUME Inv, NEW ok \in BOOLEAN, OrphanDone(ok) PROVE Inv'
<1> USE DEF Inv, Types
<1>1. /\ "orphan" \in mac /\ mac' = mac \ {"orphan"}
      /\ UNCHANGED <<leaving, parent, candidates, key, lost, keys, cuts>>
  BY DEF OrphanDone, switchVars, boundVars
<1>2. CASE Joined
  <2>1. /\ joined' /\ tryOrphan' /\ nvmParent' = parent
        /\ networks' = {} /\ untried' = {} /\ primitive' = "none" /\ UNCHANGED <<tries, wanted>>
    BY <1>2 DEF Joined, JoinSucceeded
  <2>2. Types' /\ OrphanTriesLast'
    BY <1>1, <2>1 DEF OrphanTriesLast
  <2>3. ASSUME OneParentEach PROVE JoinInv'
    BY <1>1, <2>1, <2>3, ParentsAssumption DEF JoinInv, AttemptInv, ParentInv, ListInv, Abandoned,
       ResetDue, ChannelDue, InUse
  <2> QED
    BY <2>2, <2>3
<1>3. CASE JoinFailed(tryOrphan) /\ UNCHANGED <<joined, nvmParent>>
  <2>1. /\ wanted' \in Pans /\ networks' \subseteq Pans /\ untried' \subseteq networks'
        /\ tries' \in 0 .. TriesWidth - 1 /\ primitive' \in {"none", "join"}
        /\ tryOrphan' => tryOrphan /\ tries' > 0
        /\ tryOrphan => primitive' = "none" /\ networks' = networks
    BY <1>3, JoinFailedDoes
  <2>2. Types' /\ OrphanTriesLast'
    BY <1>1, <1>3, <2>1 DEF OrphanTriesLast
  <2>3. ASSUME OneParentEach PROVE JoinInv'
    BY <1>1, <1>3, <2>1, <2>3 DEF JoinInv, AttemptInv, ParentInv, ListInv, Abandoned, ResetDue,
       ChannelDue, InUse
  <2> QED
    BY <2>2, <2>3
<1> QED
  BY <1>2, <1>3 DEF OrphanDone

(* An association succeeds, or the network had no other parent.             *)
LEMMA AssociateInv == ASSUME Inv, NEW ok \in BOOLEAN, AssociateDone(ok) PROVE Inv'
<1> USE DEF Inv, Types
<1>1. /\ "assoc" \in mac /\ ~trying' /\ UNCHANGED <<leaving, key, lost, keys, cuts>>
  BY DEF AssociateDone, switchVars, boundVars
<1>2. CASE Joined /\ mac' = mac \ {"assoc"} /\ UNCHANGED <<parent, candidates>>
  <2>1. /\ joined' /\ tryOrphan' /\ nvmParent' = parent
        /\ networks' = {} /\ untried' = {} /\ primitive' = "none" /\ UNCHANGED <<tries, wanted>>
    BY <1>2 DEF Joined, JoinSucceeded
  <2>2. Types' /\ OrphanTriesLast'
    BY <1>1, <1>2, <2>1 DEF OrphanTriesLast
  <2>3. ASSUME OneParentEach PROVE JoinInv'
    BY <1>1, <1>2, <2>1, <2>3, ParentsAssumption DEF JoinInv, AttemptInv, ParentInv, ListInv,
       Abandoned, ResetDue, ChannelDue, InUse, BehindTable
  <2> QED
    BY <2>2, <2>3
<1>3. ASSUME ~joined', candidates' = candidates \ {parent}, UNCHANGED nvmParent,
             Eligible(wanted, candidates') # {}, parent' \in Eligible(wanted, candidates'),
             ~tryOrphan', UNCHANGED <<mac, primitive, networks, untried, wanted, tries>>
      PROVE  Inv'
  <2>1. parent' \in Parents /\ parent' # parent /\ PanOf[parent'] = wanted
    BY <1>3 DEF Eligible
  <2>2. Types' /\ OrphanTriesLast'
    BY <1>1, <1>3, <2>1 DEF OrphanTriesLast
  <2>3. ASSUME OneParentEach PROVE FALSE
    BY <1>1, <2>1, <2>3 DEF JoinInv, AttemptInv, OneParentEach
  <2> QED
    BY <2>2, <2>3
<1>4. ASSUME ~joined', candidates' = candidates \ {parent}, UNCHANGED nvmParent,
             parent' = BehindTable, mac' = mac \ {"assoc"}, JoinFailed(FALSE)
      PROVE  Inv'
  <2>1. /\ wanted' \in Pans /\ networks' \subseteq Pans /\ untried' \subseteq networks'
        /\ tries' \in 0 .. TriesWidth - 1 /\ primitive' \in {"none", "join"}
        /\ ~tryOrphan' /\ (networks' = {} \/ primitive' = "join")
    BY <1>4, JoinFailedDoes
  <2>2. Types' /\ OrphanTriesLast'
    BY <1>1, <1>4, <2>1 DEF OrphanTriesLast
  <2>3. ASSUME OneParentEach PROVE JoinInv'
    BY <1>1, <1>4, <2>1, <2>3 DEF JoinInv, AttemptInv, ParentInv, ListInv, Abandoned, ResetDue,
       ChannelDue, InUse
  <2> QED
    BY <2>2, <2>3
<1> QED
  BY <1>2, <1>3, <1>4 DEF AssociateDone

(* Inv is inductive. *)
LEMMA NextInv == Inv /\ [Next]_vars => Inv'
<1>1. Inv /\ UNCHANGED vars => Inv'
  BY DEF Inv, Types, OrphanTriesLast, JoinInv, AttemptInv, ParentInv, ListInv, Abandoned,
     ResetDue, ChannelDue, InUse,
     vars, flagVars, pollVars, tableVars, listVars, descriptorVars, switchVars, boundVars
<1> QED
  BY <1>1, PowerCutInv, SwitchInv, KeyInv, PollInv, LeaveInv, TurnInv, ChannelInv, PauseInv,
     JoinRequestInv, ScanInv, OrphanInv, AssociateInv DEF Next, MacStep, ScanFinished

(* What the flags of the stack say of the join that is under way. *)
THEOREM EndDeviceInvariant == Spec => []Inv
BY InitInv, NextInv, PTL DEF Spec

(* The flags apart, which the provers treat best on their own.              *)
Flags == /\ joined \in BOOLEAN /\ trying \in BOOLEAN /\ tryOrphan \in BOOLEAN
         /\ requesting \in BOOLEAN /\ complete \in BOOLEAN /\ sending \in BOOLEAN
         /\ wake \in BOOLEAN /\ light \in BOOLEAN

(* The flags are Boolean after every step. *)
LEMMA FlagsNext == Flags /\ [Next]_vars => Flags'
<1> SUFFICES ASSUME Flags, [Next]_vars PROVE Flags'
  OBVIOUS
<1> USE DEF Flags, flagVars, pollVars, tableVars, listVars, descriptorVars, switchVars, boundVars
<1>1. CASE UNCHANGED vars
  BY <1>1 DEF vars
<1>2. CASE PowerCut
  BY <1>2, ZenonT(30) DEF PowerCut, PoweredUp
<1>3. CASE SwitchToggled \/ KeyPressed
  BY <1>3, ZenonT(30) DEF SwitchToggled, KeyPressed
<1>4. CASE JoinRequest
  BY <1>4, ZenonT(60) DEF JoinRequest, JoinFailed
<1>5. CASE Turn \/ ChannelTyped
  <2>1. light' \in BOOLEAN
    BY <1>5, ZenonT(30) DEF Turn, ChannelTyped
  <2>2. CASE JoinTurn /\ UNCHANGED <<pollVars, leaving>> /\ wake' \in BOOLEAN
    BY <2>1, <2>2, ZenonT(60) DEF JoinTurn, OrphanRequest, DiscoveryRequest
  <2>3. CASE StackReset /\ wake' = FALSE
    BY <2>1, <2>3, ZenonT(30) DEF StackReset
  <2>4. CASE NetworkTurn
    BY <2>1, <2>4, ZenonT(60) DEF NetworkTurn, OwnTasks, SyncRequest
  <2>5. CASE UNCHANGED <<flagVars, pollVars, leaving, tableVars, mac, wake>>
    BY <2>1, <2>5, ZenonT(30)
  <2>6. ASSUME NEW reset, RestOfTurn(reset) PROVE Flags'
    BY <2>2, <2>3, <2>4, <2>5, <2>6, ZenonT(60) DEF RestOfTurn
  <2> QED
    BY <1>5, <2>5, <2>6, ZenonT(60) DEF Turn, ChannelTyped
<1>6. ASSUME NEW heard \in SUBSET Parents, NEW nets \in SUBSET Pans, ScanDone(heard, nets)
      PROVE  Flags'
  BY <1>6, ZenonT(60) DEF ScanDone, PoweredUp
<1>7. ASSUME NEW ok \in BOOLEAN, OrphanDone(ok) PROVE Flags'
  BY <1>7, ZenonT(60) DEF OrphanDone, Joined, JoinSucceeded, JoinFailed
<1>8. ASSUME NEW ok \in BOOLEAN, AssociateDone(ok) PROVE Flags'
  BY <1>8, ZenonT(60) DEF AssociateDone, Joined, JoinSucceeded, JoinFailed
<1>9. ASSUME NEW ok \in BOOLEAN,
             PollAcknowledged(ok) \/ NoMessage \/ MessageReceived \/ FrameSent \/ OtherFrameReceived
      PROVE  Flags'
  BY <1>9, ZenonT(60) DEF PollAcknowledged, NoMoreData, NoMessage, MessageReceived, FrameSent,
     OtherFrameReceived
<1>10. CASE Disassociated \/ LeaveReset
  BY <1>10, ZenonT(30) DEF Disassociated, LeaveReset, StackReset
<1>11. CASE PauseEnds
  BY <1>11, ZenonT(30) DEF PauseEnds, PoweredUp
<1> QED
  BY <1>1, <1>2, <1>3, <1>4, <1>5, <1>6, <1>7, <1>8, <1>9, <1>10, <1>11
     DEF Next, MacStep, ScanFinished

(* The types of the device's variables; in particular the part of the list  *)
(* still to be tried is part of the list (ZiBDTP.c, 303-404).               *)
THEOREM TypeOKHolds == Spec => []TypeOK
<1>1. Init => Flags
  BY ZenonT(30) DEF Init, Flags
<1>2. Inv /\ Flags => TypeOK
  BY ZenonT(30) DEF Inv, Types, Flags, TypeOK
<1> QED
  BY <1>1, <1>2, FlagsNext, EndDeviceInvariant, PTL DEF Spec

(* ZiBDTP.c, lines 359-404: the tries of an orphan never run below zero. *)
THEOREM OrphanTriesLastHolds == Spec => []OrphanTriesLast
BY EndDeviceInvariant, PTL DEF Inv

(* zNWK.c, 2101-2143 and ZiBDTP.c, 804-828: a joined device has its parent   *)
(* in both tables, and attempts to join do not overlap.                     *)
THEOREM ParentInTableHolds == Spec => []ParentInTable
<1>1. Inv => ParentInTable
  BY DEF Inv, JoinInv, AttemptInv, ParentInv, ParentInTable
<1> QED
  BY <1>1, EndDeviceInvariant, PTL

(* ZiBDTP.c, 303-404: a descriptor list is lost only to a key.             *)
THEOREM ListsOwnedHolds == Spec => []ListsOwned
<1>1. Inv => ListsOwned
  BY DEF Inv, Types, JoinInv, AttemptInv, ListInv, ListsOwned, Abandoned, ResetDue, ChannelDue,
     InUse
<1> QED
  BY <1>1, EndDeviceInvariant, PTL

--------------------------------------------------------------------------------
(* Whose child the device is. *)

(* An orphan looks for the parent of the table it keeps over a power cut.   *)
FormerParent == tryOrphan /\ leaving # "reset" => parent = nvmParent

(* The three ways in which membership changes: a device in a network keeps   *)
(* the parent it polls until it has disassociated; a device enters a        *)
(* network as the child of its former parent, which it found again as an    *)
(* orphan, or of the one it associates with, in the network it chose; and   *)
(* it is out of its network only after leaving, a console reset, a channel  *)
(* typed at the console, a power cut, or the watchdog that ends the pause   *)
(* of the wake-up switch, never because of an attempt to join that was      *)
(* still under way.                                                         *)
MembershipStep ==
    /\ joined /\ joined' => parent' = parent \/ leaving' = "reset"
    /\ ~joined /\ joined' =>
          /\ parent' \in Parents /\ parent' = parent /\ nvmParent' = parent
          /\ \/ "orphan" \in mac /\ parent = nvmParent
             \/ "assoc" \in mac /\ PanOf[parent] = wanted
    /\ joined /\ ~joined' =>
          \/ leaving = "reset" \/ key = "reset" \/ primitive = "channel"
          \/ cuts' > cuts \/ primitive = "pause"

Membership == [][MembershipStep]_vars

(* The operations of the MAC that end an attempt.                           *)
LEMMA AttemptMembership ==
    ASSUME OneParentEach, Inv, FormerParent, NEW ok \in BOOLEAN,
           OrphanDone(ok) \/ AssociateDone(ok)
    PROVE  MembershipStep /\ FormerParent'
<1> USE DEF Inv, Types, JoinInv, AttemptInv
<1>1. CASE OrphanDone(ok)
  <2>1. /\ ~joined /\ tryOrphan /\ "orphan" \in mac /\ leaving = "no"
        /\ UNCHANGED <<parent, leaving>>
    BY <1>1 DEF OrphanDone
  <2>2. CASE Joined
    <3>1. parent \in Parents /\ parent = nvmParent /\ nvmParent' = parent
      BY <2>1, <2>2 DEF Joined, ParentInv, FormerParent
    <3> QED
      BY <2>1, <3>1 DEF MembershipStep, FormerParent
  <2>3. CASE UNCHANGED <<joined, nvmParent>>
    BY <2>1, <2>3 DEF MembershipStep, FormerParent
  <2> QED
    BY <1>1, <2>2, <2>3 DEF OrphanDone
<1>2. CASE AssociateDone(ok)
  <2>1. /\ ~joined /\ "assoc" \in mac /\ parent \in Parents /\ PanOf[parent] = wanted
    BY <1>2 DEF AssociateDone
  <2>2. CASE Joined /\ parent' = parent
    BY <2>1, <2>2 DEF Joined, MembershipStep, FormerParent
  <2>3. CASE ~joined' /\ Eligible(wanted, candidates') # {} /\ ~tryOrphan'
    BY <2>1, <2>3 DEF MembershipStep, FormerParent
  <2>4. CASE ~joined' /\ JoinFailed(FALSE)
    BY <2>1, <2>4 DEF JoinFailed, MembershipStep, FormerParent
  <2> QED
    BY <1>2, <2>2, <2>3, <2>4 DEF AssociateDone
<1> QED
  BY <1>1, <1>2

(* A turn begins an attempt only outside a network and resets only for a    *)
(* key, or for a channel.                                                   *)
LEMMA TurnMembership ==
    ASSUME OneParentEach, Inv, FormerParent, Turn \/ ChannelTyped
    PROVE  MembershipStep /\ FormerParent'
<1> USE DEF Inv, Types, MembershipStep, FormerParent
<1>1. CASE JoinTurn /\ UNCHANGED leaving
  BY <1>1 DEF JoinTurn, OrphanRequest, DiscoveryRequest, tableVars
<1>2. CASE StackReset /\ (key = "reset" \/ primitive = "channel")
  BY <1>2 DEF StackReset
<1>3. CASE UNCHANGED <<flagVars, tableVars, leaving>>
  BY <1>3 DEF flagVars, tableVars
<1>4. ASSUME NEW reset, RestOfTurn(reset), reset => key = "reset" \/ primitive = "channel"
      PROVE  MembershipStep /\ FormerParent'
  BY <1>1, <1>2, <1>3, <1>4 DEF RestOfTurn, NetworkTurn
<1> QED
  BY <1>3, <1>4 DEF Turn, ChannelTyped

(* With the other steps, all of which leave the parent or are outside a     *)
(* network.                                                                 *)
LEMMA MembershipNext ==
    ASSUME OneParentEach, Inv, FormerParent, [Next]_vars
    PROVE  MembershipStep /\ FormerParent'
<1> USE DEF Inv, Types, MembershipStep, FormerParent
<1>1. CASE UNCHANGED <<flagVars, tableVars, leaving>>
  BY <1>1 DEF flagVars, tableVars
<1>2. ASSUME PoweredUp, cuts' > cuts \/ ~joined \/ primitive = "pause" PROVE MembershipStep /\ FormerParent'
  BY <1>2 DEF PoweredUp
<1>3. CASE JoinRequest
  <2>1. ~joined /\ ~tryOrphan /\ joined' = joined
    BY <1>3 DEF JoinRequest, JoinInv, AttemptInv
  <2>2. tryOrphan' => tryOrphan
    BY <1>3, <2>1 DEF JoinRequest, JoinFailed
  <2> QED
    BY <2>1, <2>2
<1>4. CASE ScanFinished
  <2>1. ~joined
    BY <1>4 DEF ScanFinished, ScanDone, JoinInv, AttemptInv
  <2>2. CASE UNCHANGED <<joined, tryOrphan, parent, nvmParent, leaving>>
    BY <2>2
  <2> QED
    BY <1>2, <1>4, <2>1, <2>2 DEF ScanFinished, ScanDone
<1>5. CASE Disassociated
  BY <1>5 DEF Disassociated, flagVars
<1>6. CASE LeaveReset
  BY <1>6 DEF LeaveReset, StackReset
<1>7. ASSUME NEW ok \in BOOLEAN, PollAcknowledged(ok) PROVE MembershipStep /\ FormerParent'
  BY <1>1, <1>7 DEF PollAcknowledged
<1>8. CASE MessageReceived
  BY <1>8 DEF MessageReceived, flagVars, tableVars
<1>9. CASE PowerCut
  BY <1>2, <1>9, EndDeviceAssumption DEF PowerCut
<1>10. CASE SwitchToggled \/ KeyPressed \/ NoMessage \/ FrameSent \/ OtherFrameReceived
  BY <1>1, <1>10 DEF SwitchToggled, KeyPressed, NoMessage, FrameSent, OtherFrameReceived
<1>11. CASE UNCHANGED vars
  BY <1>1, <1>11 DEF vars
<1>12. CASE PauseEnds
  BY <1>1, <1>2, <1>12 DEF PauseEnds
<1> QED
  BY <1>12, <1>3, <1>4, <1>5, <1>6, <1>7, <1>8, <1>9, <1>10, <1>11,
     TurnMembership, AttemptMembership DEF Next, MacStep

(* zNWK.c, 2019-2143 and 2567, ZiBDTP.c, 303-404 and 804-828: with one       *)
(* parent in each network, resets, power cuts and leaving at any moment     *)
(* never leave the device the child of a parent it did not choose.          *)
THEOREM MembershipHolds == ASSUME OneParentEach PROVE Spec => []FormerParent /\ Membership
<1>1. Init => FormerParent
  BY DEF Init, FormerParent
<1>2. Inv /\ FormerParent /\ [Next]_vars => FormerParent' /\ [MembershipStep]_vars
  BY MembershipNext
<1> QED
  BY <1>1, <1>2, EndDeviceInvariant, PTL DEF Spec, Membership

================================================================================
