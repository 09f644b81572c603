------------------------------- MODULE EndDevice -------------------------------
(***************************************************************************)
(* The end device: the main loop of zib_network/ZiBDTP/ZiBDTP.c and the     *)
(* end-device half of the ZigBee network layer under it (ZigBeeStack/       *)
(* zNWK.c), which joins a network, polls the parent for messages, sleeps    *)
(* and leaves.                                                              *)
(*                                                                         *)
(* A primitive the stack returns is handled by the main loop before         *)
(* anything else happens, so that a confirmation and its handler are one    *)
(* step here.  Between two steps come interrupts, power cuts and the MAC.   *)
(***************************************************************************)
EXTENDS Naturals, FiniteSets

CONSTANTS Parents,   \* the devices that can be parents
          PanOf,     \* the network of each
          MaxKeys,   \* bound: the console keys pressed
          MaxCuts    \* bound: the power cuts

ASSUME EndDeviceAssumption ==
    /\ DOMAIN PanOf = Parents /\ IsFiniteSet(Parents)
    /\ MaxKeys \in Nat /\ MaxCuts \in Nat

NoParent == "INVALID_NEIGHBOR_KEY"
BehindTable == "MAX_NEIGHBORS"

ASSUME ParentsAssumption == NoParent \notin Parents /\ BehindTable \notin Parents

Pans == {PanOf[p] : p \in Parents}
OrphanTries == 3
TriesWidth == 256       \* orphanTries is a BYTE

VARIABLES
    joined, trying, tryOrphan,   \* ZigBeeStatus: bNetworkJoined,
                                 \* bTryingToJoinNetwork, bTryOrphanJoin
    requesting, complete,        \* bRequestingData, bDataRequestComplete
    sending,                     \* bTxFIFOInUse for a message of the device's own
    leaving,                     \* nwkStatus: bLeavingTheNetwork, bLeaveReset
    parent, nvmParent,           \* parentNeighborTableIndex, in RAM and in NVM
    candidates,                  \* neighbours in the table that may be joined
    mac,                         \* what the MAC has under way
    primitive,                   \* currentPrimitive between two turns, or what
                                 \* the main loop is held up by within one
    wanted,                      \* PANId of the NLME_JOIN_request
    networks, untried,           \* NetworkDescriptor's list, and its part behind
                                 \* currentNetworkDescriptor
    tries,                       \* orphanTries
    wake, light, key,            \* bWakeupSwitchToggled, bLightSwitchToggled, the
                                 \* console key
    lost, keys, cuts             \* history: lists lost, keys pressed, power cuts

flagVars == <<joined, trying, tryOrphan>>
pollVars == <<requesting, complete, sending>>
tableVars == <<parent, nvmParent, candidates>>
descriptorVars == <<wanted, networks, untried, tries>>
listVars == <<primitive, descriptorVars>>
switchVars == <<wake, light, key>>
boundVars == <<lost, keys, cuts>>
vars == <<flagVars, pollVars, leaving, tableVars, mac, listVars, switchVars, boundVars>>

(* main, ZigBeeInit and NWKInit.  The neighbour table is not volatile: with  *)
(* a parent in it the device looks for that parent first.                   *)
PoweredUp ==
    /\ joined' = FALSE /\ trying' = FALSE /\ tryOrphan' = (nvmParent # NoParent)
    /\ requesting' = FALSE /\ complete' = FALSE /\ sending' = FALSE
    /\ leaving' = "no"
    /\ parent' = nvmParent /\ UNCHANGED <<nvmParent, candidates>>
    /\ mac' = {}
    /\ primitive' = "none" /\ networks' = {} /\ untried' = {} /\ UNCHANGED wanted
    /\ tries' = OrphanTries
    /\ wake' = FALSE /\ light' = FALSE /\ key' = "none"
    /\ lost' = 0

Init ==
    /\ joined = FALSE /\ trying = FALSE /\ tryOrphan = FALSE
    /\ requesting = FALSE /\ complete = FALSE /\ sending = FALSE
    /\ leaving = "no"
    /\ parent = NoParent /\ nvmParent = NoParent /\ candidates = {}
    /\ mac = {}
    /\ primitive = "none" /\ networks = {} /\ untried = {} /\ tries = OrphanTries
    /\ wanted \in Pans
    /\ wake = FALSE /\ light = FALSE /\ key = "none"
    /\ lost = 0 /\ keys = 0 /\ cuts = 0

PowerCut ==
    /\ cuts < MaxCuts /\ cuts' = cuts + 1
    /\ PoweredUp
    /\ UNCHANGED keys

(* ZigBeeReady: the poll holds the transmit buffer until it is acknowledged. *)
Ready == ~sending /\ "poll" \notin mac

(* The main loop calls the stack, unless it waits for the digits of a        *)
(* channel or pauses for the wake-up switch.                                *)
LoopRuns == primitive \notin {"channel", "pause"}

--------------------------------------------------------------------------------
(* Interrupts.  Each handler turns its own interrupt off (RBIE, RCIE) until   *)
(* the main loop has seen to it, but is called by every other interrupt as   *)
(* well: neither holds back a second switch or key.                         *)

SwitchToggled ==
    /\ \/ wake' = TRUE /\ UNCHANGED light
       \/ light' = TRUE /\ UNCHANGED wake
    /\ UNCHANGED <<flagVars, pollVars, leaving, tableVars, mac, listVars, key, boundVars>>

KeyPressed ==
    /\ keys < MaxKeys /\ keys' = keys + 1
    /\ key' \in {"reset", "channel", "other"}
    /\ UNCHANGED <<flagVars, pollVars, leaving, tableVars, mac, listVars, wake, light,
                   lost, cuts>>

--------------------------------------------------------------------------------
(* Joining: the network layer's side. *)

(* The parent of an NLME_JOIN_request: any of the least depth.  Without one  *)
(* the index is left behind the table, and the request fails.               *)
Eligible(pan, among) == {p \in among : PanOf[p] = pan}

(* NLME_NETWORK_DISCOVERY_request.  The former parent's record is written    *)
(* through the index, the one behind the table as well.                     *)
DiscoveryRequest ==
    /\ parent' = NoParent
    /\ nvmParent' = IF parent # NoParent THEN NoParent ELSE nvmParent
    /\ tryOrphan' = (tryOrphan /\ parent = NoParent)
    /\ candidates' = {}
    /\ trying' = TRUE
    /\ mac' = mac \cup {"scan"}
    /\ UNCHANGED joined

OrphanRequest ==
    /\ trying' = TRUE
    /\ mac' = mac \cup {"orphan"}
    /\ UNCHANGED <<joined, tryOrphan, tableVars>>

(* Seeded fault: another attempt is begun while one is under way. *)
JoinTurnWhileTrying ==
    /\ ~joined
    /\ IF tryOrphan THEN OrphanRequest ELSE DiscoveryRequest

(* The main loop of a device outside a network. *)
JoinTurn ==
    /\ ~joined /\ ~trying
    /\ IF tryOrphan THEN OrphanRequest ELSE DiscoveryRequest

--------------------------------------------------------------------------------
(* Joining: the main loop's side.  NLME_JOIN_confirm. *)

(* Seeded fault: the list is not freed. *)
JoinSucceededKeepsList ==
    /\ untried' = {} /\ primitive' = "none"
    /\ UNCHANGED <<networks, tries, wanted>>

(* Seeded fault: the pointer into the list is kept. *)
JoinSucceededKeepsPointer ==
    /\ networks' = {} /\ primitive' = "none"
    /\ UNCHANGED <<untried, tries, wanted>>

JoinSucceeded ==
    /\ networks' = {} /\ untried' = {} /\ primitive' = "none"
    /\ UNCHANGED <<tries, wanted>>

(* An attempt as an orphan is repeated or given up; otherwise the next      *)
(* network of the list is tried, or the list is freed.                      *)
JoinFailed(asOrphan) ==
    IF asOrphan
    THEN /\ tries' = (tries + TriesWidth - 1) % TriesWidth
         /\ tryOrphan' = (tries' # 0)
         /\ primitive' = "none"
         /\ UNCHANGED <<networks, untried, wanted>>
    ELSE /\ tryOrphan' = FALSE
         /\ UNCHANGED tries
         /\ IF untried = {}
            THEN networks' = {} /\ primitive' = "none" /\ UNCHANGED <<untried, wanted>>
            ELSE \E pan \in untried :
                    /\ untried' = untried \ {pan} /\ wanted' = pan
                    /\ primitive' = "join" /\ UNCHANGED networks

(* NLME_NETWORK_DISCOVERY_confirm.  The list has one descriptor for each     *)
(* network heard that the heap has room for; a third one makes the search   *)
(* of the list endless (its step starts from the head again), which the     *)
(* watchdog ends.  A list still held is lost.                               *)
ScanDone(heard, nets) ==
    /\ LoopRuns /\ "scan" \in mac /\ nets \subseteq {PanOf[p] : p \in heard}
    /\ IF Cardinality(nets) > 2 THEN PoweredUp
       ELSE /\ mac' = mac \ {"scan"}
            /\ \E some \in SUBSET heard : candidates' = some
            /\ IF nets = {}
               THEN /\ trying' = FALSE
                    /\ UNCHANGED <<primitive, networks, untried, wanted, lost>>
               ELSE \E pan \in nets :
                    /\ networks' = nets /\ untried' = nets \ {pan}
                    /\ wanted' = pan /\ primitive' = "join"
                    /\ lost' = IF networks = {} THEN lost ELSE lost + 1
                    /\ UNCHANGED trying
            /\ UNCHANGED <<joined, tryOrphan, pollVars, leaving, parent, nvmParent, tries,
                           switchVars>>
    /\ UNCHANGED <<keys, cuts>>

(* NLME_JOIN_request for the wanted network. *)
JoinRequest ==
    /\ primitive = "join"
    /\ IF Eligible(wanted, candidates) # {}
       THEN /\ parent' \in Eligible(wanted, candidates)
            /\ mac' = mac \cup {"assoc"} /\ trying' = TRUE
            /\ primitive' = "none"
            /\ UNCHANGED <<tryOrphan, networks, untried, wanted, tries>>
       ELSE /\ parent' = BehindTable
            /\ trying' = FALSE
            /\ JoinFailed(tryOrphan)
            /\ UNCHANGED mac
    /\ UNCHANGED <<joined, pollVars, leaving, nvmParent, candidates, switchVars, boundVars>>

(* SetMyAddressInformation: the table is stored with the parent in it. *)
Joined ==
    /\ joined' = TRUE /\ tryOrphan' = TRUE /\ requesting' = FALSE
    /\ nvmParent' = parent
    /\ JoinSucceeded

OrphanDone(answered) ==
    /\ LoopRuns /\ "orphan" \in mac /\ mac' = mac \ {"orphan"}
    /\ trying' = FALSE
    /\ IF answered THEN Joined
       ELSE JoinFailed(tryOrphan) /\ UNCHANGED <<joined, requesting, nvmParent>>
    /\ UNCHANGED <<complete, sending, leaving, parent, candidates, switchVars, boundVars>>

(* MLME_ASSOCIATE_confirm.  After a failure another parent of the network    *)
(* is tried, with bTryingToJoinNetwork already cleared.                     *)
AssociateDone(accepted) ==
    /\ LoopRuns /\ "assoc" \in mac
    /\ trying' = FALSE
    /\ IF accepted
       THEN Joined /\ mac' = mac \ {"assoc"} /\ UNCHANGED <<parent, candidates>>
       ELSE /\ joined' = FALSE
            /\ candidates' = candidates \ {parent}
            /\ IF Eligible(wanted, candidates') # {}
               THEN /\ parent' \in Eligible(wanted, candidates')
                    /\ tryOrphan' = FALSE
                    /\ UNCHANGED <<mac, primitive, networks, untried, wanted, tries>>
               ELSE /\ parent' = BehindTable
                    /\ mac' = mac \ {"assoc"}
                    /\ JoinFailed(FALSE)
            /\ UNCHANGED <<requesting, nvmParent>>
    /\ UNCHANGED <<complete, sending, leaving, switchVars, boundVars>>

--------------------------------------------------------------------------------
(* Polling, sleeping. *)

(* NLME_SYNC_request, MLME_POLL_request: refused while the transmit buffer   *)
(* is in use, and then confirmed as a failure.                              *)
SyncRequest ==
    IF Ready
    THEN requesting' = TRUE /\ complete' = FALSE /\ mac' = (mac \ {"expect"}) \cup {"poll"}
    ELSE requesting' = FALSE /\ complete' = TRUE /\ UNCHANGED mac

HasBackgroundTasks == mac # {} \/ sending \/ leaving # "no"

(* Seeded fault: the wake-up switch has no process either. *)
OwnTasksLeaveWake == primitive' = "none" /\ UNCHANGED wake

(* The processes that may send.  The wake-up switch pauses the loop for a    *)
(* key.  The light switch has no process: its flag stays.                   *)
OwnTasks ==
    LET pauses == wake /\ complete /\ Ready
    IN  /\ wake' = (wake /\ ~pauses)
        /\ primitive' = IF pauses THEN "pause" ELSE "none"

(* The main loop of a device in a network: it polls until the parent has no  *)
(* more, then sleeps, and polls when it wakes up.                           *)
NetworkTurn ==
    /\ OwnTasks
    /\ IF \/ ~complete /\ ~requesting /\ Ready
          \/ /\ complete /\ ~HasBackgroundTasks /\ primitive' = "none"
             /\ ~wake' /\ ~light' /\ key' = "none"
       THEN SyncRequest
       ELSE UNCHANGED <<requesting, complete, mac>>
    /\ UNCHANGED <<flagVars, tableVars, sending, leaving>>

(* The pause is up to half a minute long and does not feed the watchdog,     *)
(* which powers the device up anew unless a key comes within its period.    *)
(* With the key pending the turn has nothing left to do.                    *)
PauseEnds ==
    /\ primitive = "pause"
    /\ \/ /\ key # "none" /\ primitive' = "none"
          /\ UNCHANGED <<flagVars, pollVars, leaving, tableVars, mac, descriptorVars,
                         switchVars, lost>>
       \/ PoweredUp
    /\ UNCHANGED <<keys, cuts>>

(* Seeded fault: the attempts as an orphan outlive the reset. *)
StackResetKeepsOrphan ==
    /\ joined' = FALSE /\ trying' = FALSE /\ UNCHANGED tryOrphan
    /\ requesting' = FALSE /\ complete' = FALSE /\ sending' = FALSE
    /\ leaving' = "no"
    /\ mac' = {}
    /\ UNCHANGED tableVars

(* NLME_RESET_request and its confirmation: all the flags are cleared, the  *)
(* table is kept.                                                           *)
StackReset ==
    /\ joined' = FALSE /\ trying' = FALSE /\ tryOrphan' = FALSE
    /\ requesting' = FALSE /\ complete' = FALSE /\ sending' = FALSE
    /\ leaving' = "no"
    /\ mac' = {}
    /\ UNCHANGED tableVars

(* What a turn does behind the console's key.  The request for a reset is    *)
(* overwritten at once when the device is to join a network.                *)
RestOfTurn(reset) ==
    \/ JoinTurn
       /\ wake' = (wake /\ ~reset) /\ primitive' = "none"
       /\ UNCHANGED <<pollVars, leaving>>
    \/ reset /\ (joined \/ trying)
       /\ wake' = FALSE /\ primitive' = "none"
       /\ StackReset
    \/ joined /\ ~reset /\ NetworkTurn
    \/ ~joined /\ trying /\ ~reset
       /\ primitive' = "none"
       /\ UNCHANGED <<flagVars, pollVars, leaving, tableVars, mac, wake>>

(* A turn of the main loop in which the stack returns nothing.  A key is     *)
(* looked at first: a reset clears the program's own flags, and the key for *)
(* another channel holds the loop, its watchdog fed, until two digits came. *)
Turn ==
    /\ primitive = "none"
    /\ LET keySeen == key # "none" /\ Ready
           reset == keySeen /\ key = "reset"
       IN  /\ key' = IF keySeen THEN "none" ELSE key
           /\ light' = (light /\ ~reset)
           /\ IF keySeen /\ key = "channel"
              THEN /\ primitive' = "channel"
                   /\ UNCHANGED <<flagVars, pollVars, leaving, tableVars, mac, wake>>
              ELSE RestOfTurn(reset)
    /\ UNCHANGED <<descriptorVars, boundVars>>

(* The digits of a channel.  One that exists resets the device for it; any   *)
(* other is ignored.                                                        *)
ChannelTyped ==
    /\ primitive = "channel"
    /\ \E exists \in BOOLEAN :
          /\ key' = IF exists THEN "none" ELSE key
          /\ light' = (light /\ ~exists)
          /\ RestOfTurn(exists)
    /\ UNCHANGED <<descriptorVars, boundVars>>

(* The acknowledgement of the poll says whether the parent has a message;    *)
(* without one the poll fails.                                              *)
NoMoreData == requesting' = FALSE /\ complete' = TRUE

PollAcknowledged(pending) ==
    /\ LoopRuns /\ "poll" \in mac
    /\ IF pending
       THEN mac' = (mac \ {"poll"}) \cup {"expect"} /\ UNCHANGED <<requesting, complete>>
       ELSE mac' = mac \ {"poll"} /\ NoMoreData
    /\ UNCHANGED <<flagVars, sending, leaving, tableVars, listVars, switchVars, boundVars>>

(* The message comes too late, or is empty. *)
NoMessage ==
    /\ LoopRuns /\ "expect" \in mac /\ mac' = mac \ {"expect"}
    /\ NoMoreData
    /\ UNCHANGED <<flagVars, sending, leaving, tableVars, listVars, switchVars, boundVars>>

(* A message for the program, which it may answer, or a command to leave.    *)
(* bRequestingData is cleared for each frame received, and the next poll    *)
(* asks for more.                                                           *)
MessageReceived ==
    /\ LoopRuns /\ "expect" \in mac /\ mac' = mac \ {"expect"}
    /\ requesting' = FALSE
    /\ \/ sending' \in {sending, TRUE} /\ UNCHANGED leaving
       \/ leaving' = (IF leaving = "no" THEN "asked" ELSE leaving) /\ UNCHANGED sending
    /\ UNCHANGED <<flagVars, complete, tableVars, listVars, switchVars, boundVars>>

(* A frame that is not the answer to the poll. *)
OtherFrameReceived ==
    /\ LoopRuns /\ mac \cap {"poll", "expect"} # {} /\ requesting
    /\ requesting' = FALSE
    /\ UNCHANGED <<flagVars, complete, sending, leaving, tableVars, mac, listVars,
                   switchVars, boundVars>>

(* The answer was acknowledged, or its retries are used up. *)
FrameSent ==
    /\ LoopRuns /\ sending /\ sending' = FALSE
    /\ UNCHANGED <<flagVars, requesting, complete, leaving, tableVars, mac, listVars,
                   switchVars, boundVars>>

--------------------------------------------------------------------------------
(* Leaving: MLME_DISASSOCIATE_confirm, acknowledged or not, takes the parent *)
(* from the table, then the stack is reset.                                 *)

Disassociated ==
    /\ LoopRuns /\ leaving = "asked" /\ Ready
    /\ leaving' = "reset"
    /\ parent' = NoParent /\ nvmParent' = NoParent
    /\ candidates' = candidates \ {parent}
    /\ UNCHANGED <<flagVars, pollVars, mac, listVars, switchVars, boundVars>>

LeaveReset ==
    /\ LoopRuns /\ leaving = "reset" /\ Ready
    /\ StackReset
    /\ UNCHANGED <<listVars, switchVars, boundVars>>

--------------------------------------------------------------------------------

ScanFinished == \E heard \in SUBSET Parents : \E nets \in SUBSET Pans : ScanDone(heard, nets)

MacStep == \/ ScanFinished
           \/ \E ok \in BOOLEAN : OrphanDone(ok) \/ AssociateDone(ok) \/ PollAcknowledged(ok)
           \/ NoMessage \/ MessageReceived \/ FrameSent

Next == \/ PowerCut \/ SwitchToggled \/ KeyPressed
        \/ JoinRequest \/ Turn \/ ChannelTyped \/ PauseEnds
        \/ MacStep \/ OtherFrameReceived
        \/ Disassociated \/ LeaveReset

Spec == Init /\ [][Next]_vars

(* The main loop turns, the watchdog counts and the MAC confirms what it   *)
(* has begun; nobody has to type a channel.  For the device to join at all, *)
(* a scan that hears no more than two networks, one of them with a parent  *)
(* that may be joined, and an association that is accepted, come about     *)
(* again and again where they may.                                         *)
HearsParent == \E heard \in SUBSET Parents : \E nets \in SUBSET Pans :
                   /\ Cardinality(nets) \in 1 .. 2
                   /\ ScanDone(heard, nets)
                   /\ candidates' = heard

Fairness ==
    /\ WF_vars(Turn) /\ WF_vars(JoinRequest) /\ WF_vars(PauseEnds)
    /\ WF_vars(MacStep)
    /\ WF_vars(Disassociated \/ LeaveReset)
    /\ SF_vars(HearsParent)
    /\ SF_vars(AssociateDone(TRUE))

FairSpec == Spec /\ Fairness

--------------------------------------------------------------------------------
(* Properties. *)

TypeOK ==
    /\ {joined, trying, tryOrphan, requesting, complete, sending} \subseteq BOOLEAN
    /\ {wake, light} \subseteq BOOLEAN /\ key \in {"none", "reset", "channel", "other"}
    /\ leaving \in {"no", "asked", "reset"}
    /\ parent \in Parents \cup {NoParent, BehindTable}
    /\ nvmParent \in Parents \cup {NoParent, BehindTable}
    /\ candidates \subseteq Parents
    /\ mac \subseteq {"scan", "orphan", "assoc", "poll", "expect"}
    /\ primitive \in {"none", "join", "channel", "pause"} /\ wanted \in Pans
    /\ networks \subseteq Pans /\ untried \subseteq networks
    /\ tries \in 0 .. TriesWidth - 1
    /\ lost \in Nat /\ keys \in 0 .. MaxKeys /\ cuts \in 0 .. MaxCuts

(* A device in a network has its parent in the table, and would look for    *)
(* that very parent after a power cut; an attempt to join under way is      *)
(* marked so that no second one is begun on the same variables.  This is    *)
(* so while no two parents offer the same network.                          *)
OneParentEach == \A p, q \in Parents : PanOf[p] = PanOf[q] => p = q

ParentInTable ==
    OneParentEach =>
        /\ joined /\ leaving # "reset" => parent \in Parents /\ nvmParent = parent
        /\ mac \cap {"scan", "orphan", "assoc"} # {} => trying

(* orphanTries is set once, at power-up, and counts down in a byte: while    *)
(* the device tries as an orphan an attempt is left, so that the byte never  *)
(* wraps and delays the search for a new network by 255 scans.              *)
OrphanTriesLast == ~joined /\ tryOrphan => tries > 0

(* The descriptor lists come from a heap of a few hundred bytes: one is held *)
(* only while its networks are tried, and at most one is lost for each key   *)
(* that resets the stack meanwhile.                                         *)
ListsOwned ==
    OneParentEach =>
        /\ lost <= keys
        /\ networks # {} => trying \/ primitive = "join" \/ keys > 0

(* The device keeps asking for its messages, through lost parents, leaving,  *)
(* resets and power cuts, unless the light switch was touched, whose flag   *)
(* nothing clears, so that the device neither sleeps nor polls again; or    *)
(* the key for another channel was pressed and its digits never typed.      *)
KeepsAsking == []<>("poll" \in mac) \/ <>[]light \/ <>[](primitive = "channel")

================================================================================
