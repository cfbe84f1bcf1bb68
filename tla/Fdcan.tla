-------------------------------- MODULE Fdcan --------------------------------
(***************************************************************************)
(* One FDCAN controller (fil::stm32g4::FdcanPeripheral) between firmware   *)
(* and a virtual CAN bus: controller mode, acceptance filter, RX FIFO 0,   *)
(* TX buffers and interrupt lines.                                         *)
(*                                                                         *)
(* "fd" is the controller and its part of the message RAM, as sets of      *)
(* register bits.  RXF0S and TXFQS are recomputed by every load and        *)
(* therefore not stored.  "wire" is the bus as the controller sees it:     *)
(* the sends it has not completed, in order.  CanBus shows that it         *)
(* completes one sender's frames in order and at most once.                *)
(***************************************************************************)
EXTENDS Integers, Sequences, FiniteSets

CONSTANTS
    Frames,        \* CAN frames: [id, extended, valid]
    IdBits,        \* bits of an identifier
    Setups,        \* filter configurations firmware may write
    TxSlots,       \* FdcanMessageRam::txFifoElementCount
    RxSlots,       \* FdcanMessageRam::rxFifoElementCount
    SendAnswers,   \* how send may end: subset of Answer
    CccrValues,    \* values firmware writes to CCCR
    IeValues, IlsValues, IleValues,  \* ... to IE, ILS and ILE
    TxbtieValues,  \* ... to TXBTIE
    MaxRequests,   \* bound on accepted transmit requests
    MaxArrivals,   \* bound on stored frames
    MaxRestarts    \* bound on resets and detachments

Buffer == 0..(TxSlots - 1)
RxSlot == 0..(RxSlots - 1)
Line == {0, 1}
Flag == {"rx_new", "rx_full", "rx_lost", "tx_complete", "protocol_error"}
Group == {"rx_fifo0", "tx_status", "errors"}
CccrBit == {"init", "cce", "csa", "csr"}
Answer == {"queued", "refused", "delivered", "looped"}
FilterElement == [type : 0..3, action : 0..7, id1 : Nat, id2 : Nat]

(* What zeroed message RAM and the reset value of RXGFC stand for. *)
ZeroFrame == [id |-> 0, extended |-> FALSE, valid |-> TRUE]
ResetSetup == [standard |-> <<>>, long |-> <<>>, anfs |-> 0, anfe |-> 0,
               overwrite |-> FALSE]

ASSUME FrameAssumption ==
    /\ IdBits \in Nat
    /\ Frames \subseteq [id : 0..(2^IdBits - 1), extended : BOOLEAN,
                         valid : BOOLEAN]
    /\ \A s \in Setups :
          /\ s.standard \in Seq(FilterElement)
          /\ s.long \in Seq(FilterElement)
          /\ {s.anfs, s.anfe} \subseteq 0..3
          /\ s.overwrite \in BOOLEAN
    /\ ZeroFrame \in Frames
ASSUME SlotAssumption == TxSlots \in Nat \ {0} /\ RxSlots \in Nat \ {0}
ASSUME ValueAssumption ==
    /\ SendAnswers \subseteq Answer
    /\ CccrValues \subseteq SUBSET CccrBit
    /\ IeValues \subseteq SUBSET Flag
    /\ IlsValues \subseteq SUBSET Group
    /\ IleValues \subseteq SUBSET Line
    /\ TxbtieValues \subseteq SUBSET Buffer
    /\ {MaxRequests, MaxArrivals, MaxRestarts} \subseteq Nat

VARIABLES
    fd,       \* the controller
    wire,     \* the bus, and histories of requests and arrivals
    driver,   \* the firmware's receive routine
    restarts  \* bound: resets and detachments so far

vars == <<fd, wire, driver, restarts>>

Element == [frame : Frames, non_matching : BOOLEAN, index : Nat,
            stamp : Nat]
NoElement == [frame |-> ZeroFrame, non_matching |-> FALSE, index |-> 0,
              stamp |-> 0]

(* A send the bus has not completed.  "doomed": cancelled while the bus    *)
(* was delivering it or while it was staged; it may still complete.        *)
Send == [buffer : Buffer, generation : Nat, request : Nat, doomed : BOOLEAN]

Controller ==
    [mode : {"initialization", "normal", "sleep"}, cccr : SUBSET CccrBit,
     ir : SUBSET Flag, ie : SUBSET Flag, ils : SUBSET Group,
     ile : SUBSET Line, asserted : SUBSET Line, level : SUBSET Line,
     setup : Setups \cup {ResetSetup}, rx : [RxSlot -> Element], rx_fill : 0..RxSlots,
     rx_get : RxSlot, rx_put : RxSlot, rx_lost : BOOLEAN,
     tx : [Buffer -> Frames], txbrp : SUBSET Buffer, txbto : SUBSET Buffer,
     txbtie : SUBSET Buffer, state : [Buffer -> {"idle", "pending", "complete"}],
     generation : [Buffer -> Nat], tx_get : Buffer, tx_put : Buffer,
     attached : BOOLEAN]

TypeOK ==
    /\ fd \in Controller
    /\ wire \in [sends : Seq(Send), request : [Buffer -> Nat],
                 sent : SUBSET Nat, next : Nat, stored : Nat,
                 overwritten : BOOLEAN]
    /\ driver \in [phase : {"idle", "status", "element"}, slot : RxSlot,
                   element : Element, taken : Seq(Nat)]
    /\ restarts \in 0..MaxRestarts

-----------------------------------------------------------------------------
(* Interrupt lines. *)

GroupOf(flag) ==
    CASE flag \in {"rx_new", "rx_full", "rx_lost"} -> "rx_fifo0"
      [] flag = "tx_complete" -> "tx_status"
      [] flag = "protocol_error" -> "errors"

LineOf(c, flag) == IF GroupOf(flag) \in c.ils THEN 1 ELSE 0

InterruptLinePending(c, line) ==
    /\ line \in c.ile
    /\ \E flag \in c.ir \cap c.ie : LineOf(c, flag) = line

UpdateInterruptLines(c) ==
    LET pending == {line \in Line : InterruptLinePending(c, line)}
    IN  [c EXCEPT !.level = pending, !.asserted = pending]

(* A raised flag drops the line's mark, so that its callback runs again. *)
SetInterruptFlags(c, flags) ==
    UpdateInterruptLines(
        [c EXCEPT !.ir = @ \cup flags,
                  !.asserted = @ \ {LineOf(c, f) : f \in flags \cap c.ie}])

-----------------------------------------------------------------------------
(* Controller mode. *)

Operational(c) == c.mode = "normal"

ApplyControllerControl(c, value) ==
    LET asked == IF "csr" \in value THEN value \cup {"init", "csa"}
                                    ELSE value \ {"csa"}
        control == IF "init" \in asked THEN asked ELSE asked \ {"cce"}
        settled == IF "csr" \in control THEN "sleep"
                   ELSE IF "init" \in control THEN "initialization"
                   ELSE "normal"
    IN  [c EXCEPT !.cccr = control, !.mode = settled]

-----------------------------------------------------------------------------
(* Reception. *)

IdBit(n, i) == (n \div 2^i) % 2

MaskedEqual(id, id1, mask) ==
    \A i \in 0..(IdBits - 1) : IdBit(mask, i) = 1 => IdBit(id, i) = IdBit(id1, i)

(* Type 3 is a range for extended frames and disabled for standard ones. *)
FilterMatches(e, frame) ==
    \/ /\ e.type = 0 \/ (e.type = 3 /\ frame.extended)
       /\ e.id1 <= frame.id /\ frame.id <= e.id2
    \/ e.type = 1 /\ frame.id \in {e.id1, e.id2}
    \/ e.type = 2 /\ MaskedEqual(frame.id, e.id1, e.id2)

ActionStoresInFifo0(action) == action \in {1, 5}

(* The first enabled element that matches decides. *)
Filter(c, frame) ==
    LET list == IF frame.extended THEN c.setup.long ELSE c.setup.standard
        rest == IF frame.extended THEN c.setup.anfe ELSE c.setup.anfs
        hits == {i \in DOMAIN list : /\ list[i].action # 0
                                     /\ FilterMatches(list[i], frame)}
        first == CHOOSE i \in hits : \A j \in hits : i <= j
    IN  IF hits = {}
          THEN [accepted |-> rest = 0, non_matching |-> TRUE, index |-> 127]
          ELSE [accepted |-> ActionStoresInFifo0(list[first].action),
                non_matching |-> FALSE, index |-> first - 1]

AcceptsFrame(c, frame) ==
    Operational(c) /\ frame.valid /\ Filter(c, frame).accepted

Full(c) == c.rx_fill = RxSlots

Stores(c, frame) ==
    AcceptsFrame(c, frame) /\ (Full(c) => c.setup.overwrite)

MakeRoom(c) ==
    IF Full(c)
      THEN [c EXCEPT !.rx_lost = TRUE, !.rx_get = (@ + 1) % RxSlots,
                     !.rx_fill = @ - 1]
      ELSE c

(* receiveFrame for an accepted frame that is stored. *)
StoreFrame(c, frame, stamp) ==
    LET d == Filter(c, frame)
        room == MakeRoom(c)
        stored == [room EXCEPT
            !.rx[room.rx_put] = [frame |-> frame, index |-> d.index,
                                 non_matching |-> d.non_matching,
                                 stamp |-> stamp],
            !.rx_put = (@ + 1) % RxSlots,
            !.rx_fill = @ + 1]
    IN  SetInterruptFlags(stored,
            {"rx_new"} \cup (IF Full(stored) THEN {"rx_full"} ELSE {})
                       \cup (IF Full(c) THEN {"rx_lost"} ELSE {}))

(* ... and for one that finds a blocking FIFO full. *)
DropFrame(c) ==
    SetInterruptFlags([c EXCEPT !.rx_lost = TRUE], {"rx_full", "rx_lost"})

(* receiveFrame on the pair of controller and wire. *)
ReceiveFrame(p, frame) ==
    IF Stores(p.fd, frame)
      THEN [fd |-> StoreFrame(p.fd, frame, p.wire.stored + 1),
            wire |-> [p.wire EXCEPT !.stored = @ + 1,
                                    !.overwritten =
                                        @ \/ (Full(p.fd) /\ p.fd.setup.overwrite)]]
    ELSE IF AcceptsFrame(p.fd, frame) THEN [p EXCEPT !.fd = DropFrame(@)]
    ELSE p

(* Seeded fault: the distance is not compared with the fill level. *)
AcknowledgeRxFifo0_Unchecked(c, slot) ==
    IF c.rx_fill = 0 \/ slot \notin RxSlot
      THEN c
      ELSE [c EXCEPT !.rx_fill = IF @ = 0 THEN 0 ELSE @ - 1,
                     !.rx_get = (slot + 1) % RxSlots]

(* Seeded fault: only the oldest frame can be acknowledged. *)
AcknowledgeRxFifo0_Oldest(c, slot) ==
    IF c.rx_fill = 0 \/ slot # c.rx_get
      THEN c
      ELSE [c EXCEPT !.rx_fill = @ - 1, !.rx_get = (slot + 1) % RxSlots]

AcknowledgeRxFifo0(c, slot) ==
    LET distance == ((slot + RxSlots - c.rx_get) % RxSlots) + 1
    IN  IF c.rx_fill = 0 \/ slot \notin RxSlot \/ distance > c.rx_fill
          THEN c
          ELSE [c EXCEPT !.rx_fill = @ - distance,
                         !.rx_get = (slot + 1) % RxSlots]

-----------------------------------------------------------------------------
(* Transmission. *)

(* The first index of S from i on, round robin. *)
RoundRobin(i, S) ==
    LET Ahead(j) == (j + TxSlots - i) % TxSlots
    IN  CHOOSE j \in S : \A k \in S : Ahead(j) <= Ahead(k)

(* Seeded fault: the search for the get index starts at buffer 0. *)
UpdateTxFifoStatus_FromZero(c) ==
    LET free == Buffer \ c.txbrp
        put == IF free = {} THEN c.tx_put ELSE RoundRobin(c.tx_put, free)
        get == IF c.txbrp = {} THEN put ELSE RoundRobin(0, c.txbrp)
    IN  [c EXCEPT !.tx_put = put, !.tx_get = get]

UpdateTxFifoStatus(c) ==
    LET free == Buffer \ c.txbrp
        put == IF free = {} THEN c.tx_put ELSE RoundRobin(c.tx_put, free)
        get == IF c.txbrp = {} THEN put ELSE RoundRobin(c.tx_get, c.txbrp)
    IN  [c EXCEPT !.tx_put = put, !.tx_get = get]

(* The request is given up: invalid frame, refused or failed send. *)
Release(c, b) ==
    SetInterruptFlags(
        UpdateTxFifoStatus([c EXCEPT !.txbrp = @ \ {b}, !.state[b] = "idle"]),
        {"protocol_error"})

Current(c, b, generation) == c.generation[b] = generation

CompleteTransmission(c, b, generation) ==
    IF Current(c, b, generation) /\ c.state[b] = "pending"
      THEN LET done == UpdateTxFifoStatus(
                           [c EXCEPT !.txbrp = @ \ {b}, !.txbto = @ \cup {b},
                                     !.state[b] = "complete"])
           IN  IF b \in c.txbtie THEN SetInterruptFlags(done, {"tx_complete"})
                                 ELSE done
      ELSE c

(* Seeded fault: a failed send is only traced. *)
Completion_FailureIgnored(c, b, generation, success) ==
    IF Current(c, b, generation) /\ success
      THEN CompleteTransmission(c, b, generation) ELSE c

(* Seeded fault: a success is not compared with the generation. *)
Completion_LateSuccess(c, b, generation, success) ==
    IF success THEN CompleteTransmission(c, b, c.generation[b])
    ELSE IF Current(c, b, generation) THEN Release(c, b) ELSE c

(* The callback the controller gives to the bus. *)
Completion(c, b, generation, success) ==
    IF ~ Current(c, b, generation) THEN c
    ELSE IF success THEN CompleteTransmission(c, b, generation)
    ELSE Release(c, b)

(* transmitBuffer; "answer" is how the bus takes the frame. *)
TransmitBuffer(p, b, answer) ==
    LET frame == p.fd.tx[b]
        begun == [p EXCEPT !.fd.generation[b] = @ + 1]
        generation == begun.fd.generation[b]
        Finish(q) == [fd |-> Completion(q.fd, b, generation, TRUE),
                      wire |-> [q.wire EXCEPT !.sent = @ \cup {q.wire.request[b]}]]
    IN  CASE ~ frame.valid -> [p EXCEPT !.fd = Release(@, b)]
          [] frame.valid /\ (~ p.fd.attached \/ answer = "delivered") ->
               Finish(begun)
          [] frame.valid /\ p.fd.attached /\ answer = "looped" ->
               Finish(ReceiveFrame(begun, frame))
          [] frame.valid /\ p.fd.attached /\ answer = "refused" ->
               [begun EXCEPT !.fd = Release(@, b)]
          [] frame.valid /\ p.fd.attached /\ answer = "queued" ->
               [begun EXCEPT !.wire.sends =
                   Append(@, [buffer |-> b, generation |-> generation,
                              request |-> p.wire.request[b],
                              doomed |-> FALSE])]

Reserve(c, b) ==
    [UpdateTxFifoStatus(
        [c EXCEPT !.txbrp = @ \cup {b}, !.state[b] = "pending",
                  !.tx_get = IF c.txbrp = {} THEN b ELSE @,
                  !.tx_put = (b + 1) % TxSlots])
     EXCEPT !.txbto = @ \ {b}]

(* One turn of the TXBAR loop. *)
RequestBuffer(p, b, answer) ==
    IF p.fd.state[b] = "pending"
      THEN p
      ELSE TransmitBuffer(
               [fd |-> Reserve(p.fd, b),
                wire |-> [p.wire EXCEPT !.request[b] = p.wire.next,
                                        !.next = @ + 1]], b, answer)

Machine == [fd |-> fd, wire |-> wire]

(* The TXBAR loop over the buffers, lowest first. *)
RequestAll(requests, answer) ==
    LET turn[n \in 0..TxSlots] ==
            IF n = 0 THEN Machine
            ELSE IF n - 1 \in requests
                   THEN RequestBuffer(turn[n - 1], n - 1, answer[n - 1])
                   ELSE turn[n - 1]
    IN  turn[TxSlots]

-----------------------------------------------------------------------------
(* Bus attachment and reset. *)

(* cancelSender: of the sends, the first "kept" were being delivered or    *)
(* staged and may still complete.                                          *)
CancelSender(w, kept) ==
    [w EXCEPT !.sends = [i \in 1..kept |-> [@[i] EXCEPT !.doomed = TRUE]]]

DetachBus(c) ==
    [UpdateTxFifoStatus(
        [c EXCEPT !.txbrp = {},
                  !.state = [b \in Buffer |-> IF @[b] = "pending" THEN "idle"
                                                               ELSE @[b]]])
     EXCEPT !.attached = FALSE]

(* RegisterPeripheral::reset and onReset. *)
OnReset(c) ==
    [c EXCEPT !.mode = "initialization", !.cccr = {"init"},
              !.ir = {}, !.ie = {}, !.ils = {}, !.ile = {}, !.level = {},
              !.asserted = {}, !.setup = ResetSetup,
              !.rx_fill = 0, !.rx_get = 0, !.rx_put = 0, !.rx_lost = FALSE,
              !.txbrp = {}, !.txbto = {}, !.txbtie = {},
              !.state = [b \in Buffer |-> "idle"],
              !.generation = [b \in Buffer |-> @[b] + 1],
              !.tx_get = 0, !.tx_put = 0]

-----------------------------------------------------------------------------
(* Firmware: register writes.  Writes to read-only registers restore the   *)
(* previous value and are left out.                                        *)

WriteCccr ==
    /\ \E value \in CccrValues : fd' = ApplyControllerControl(fd, value)
    /\ UNCHANGED <<wire, driver, restarts>>

ClearIr(c, cleared) ==
    UpdateInterruptLines(
        [c EXCEPT !.ir = @ \ cleared,
                  !.rx_lost = @ /\ "rx_lost" \notin cleared])

WriteIr ==
    /\ \E cleared \in (SUBSET fd.ir) \ {{}} : fd' = ClearIr(fd, cleared)
    /\ UNCHANGED <<wire, driver, restarts>>

(* Seeded fault: a change of the line selection is not propagated. *)
Select_Late(c, ie, ils, ile) == [c EXCEPT !.ie = ie, !.ils = ils, !.ile = ile]

Select(c, ie, ils, ile) ==
    UpdateInterruptLines([c EXCEPT !.ie = ie, !.ils = ils, !.ile = ile])

WriteIe ==
    /\ \E value \in IeValues : fd' = Select(fd, value, fd.ils, fd.ile)
    /\ UNCHANGED <<wire, driver, restarts>>

WriteIls ==
    /\ \E value \in IlsValues : fd' = Select(fd, fd.ie, value, fd.ile)
    /\ UNCHANGED <<wire, driver, restarts>>

WriteIle ==
    /\ \E value \in IleValues : fd' = Select(fd, fd.ie, fd.ils, value)
    /\ UNCHANGED <<wire, driver, restarts>>

WriteTxbtie ==
    /\ \E value \in TxbtieValues : fd' = [fd EXCEPT !.txbtie = value]
    /\ UNCHANGED <<wire, driver, restarts>>

(* RXGFC and the filter elements in message RAM. *)
WriteSetup ==
    /\ \E setup \in Setups : fd' = [fd EXCEPT !.setup = setup]
    /\ UNCHANGED <<wire, driver, restarts>>

WriteTxElement ==
    /\ \E b \in Buffer, frame \in Frames : fd' = [fd EXCEPT !.tx[b] = frame]
    /\ UNCHANGED <<wire, driver, restarts>>

(* The written value is masked with 7; the slots past the FIFO are ignored. *)
WriteRxf0a ==
    /\ \E slot \in RxSlot \cup {RxSlots} : fd' = AcknowledgeRxFifo0(fd, slot)
    /\ UNCHANGED <<wire, driver, restarts>>

Request(requests, answer) ==
    LET after == RequestAll(requests, answer)
    IN  /\ Operational(fd)
        /\ wire.next + Cardinality(requests) <= MaxRequests + 1
        /\ after.wire.stored <= MaxArrivals
        /\ fd' = after.fd /\ wire' = after.wire
        /\ UNCHANGED <<driver, restarts>>

WriteTxbar ==
    \E requests \in (SUBSET Buffer) \ {{}} :
        \E answer \in [requests -> SendAnswers] : Request(requests, answer)

(* A driver that follows TXFQS: the frame goes to the put index. *)
WriteTxbarAtPut ==
    /\ fd.txbrp # Buffer
    /\ \E answer \in SendAnswers : Request({fd.tx_put}, [b \in {fd.tx_put} |-> answer])

(* The receive routine: read RXF0S, read the element at the get index,     *)
(* acknowledge it.  Bus events interleave with the three.                  *)
ReadStatus ==
    /\ driver.phase = "idle" /\ fd.rx_fill > 0
    /\ driver' = [driver EXCEPT !.phase = "status", !.slot = fd.rx_get]
    /\ UNCHANGED <<fd, wire, restarts>>

ReadElement ==
    /\ driver.phase = "status"
    /\ driver' = [driver EXCEPT !.phase = "element",
                                !.element = fd.rx[driver.slot]]
    /\ UNCHANGED <<fd, wire, restarts>>

AcknowledgeElement ==
    /\ driver.phase = "element"
    /\ fd' = AcknowledgeRxFifo0(fd, driver.slot)
    /\ driver' = [driver EXCEPT !.phase = "idle", !.element = NoElement,
                                !.taken = Append(@, driver.element.stamp)]
    /\ UNCHANGED <<wire, restarts>>

-----------------------------------------------------------------------------
(* The bus. *)

Deliver ==
    /\ fd.attached
    /\ \E frame \in Frames :
          LET after == ReceiveFrame(Machine, frame)
          IN  /\ after.wire.stored <= MaxArrivals
              /\ fd' = after.fd /\ wire' = after.wire
    /\ UNCHANGED <<driver, restarts>>

(* The bus completes the oldest send, or fails it. *)
Complete ==
    /\ wire.sends # <<>>
    /\ LET s == Head(wire.sends)
       IN  \E success \in BOOLEAN :
              /\ fd' = Completion(fd, s.buffer, s.generation, success)
              /\ wire' = [wire EXCEPT !.sends = Tail(@),
                                      !.sent = IF success THEN @ \cup {s.request}
                                                          ELSE @]
    /\ UNCHANGED <<driver, restarts>>

(* A staged send meets the cancellation staged behind it. *)
Forget ==
    /\ wire.sends # <<>> /\ Head(wire.sends).doomed
    /\ wire' = [wire EXCEPT !.sends = Tail(@)]
    /\ UNCHANGED <<fd, driver, restarts>>

-----------------------------------------------------------------------------
(* Board. *)

(* attachBus; it detaches first and may fail. *)
AttachBus ==
    /\ fd.attached => restarts < MaxRestarts
    /\ \E kept \in 0..Len(wire.sends), ok \in BOOLEAN :
          /\ fd' = [(IF fd.attached THEN DetachBus(fd) ELSE fd)
                        EXCEPT !.attached = ok]
          /\ wire' = IF fd.attached THEN CancelSender(wire, kept) ELSE wire
    /\ restarts' = IF fd.attached THEN restarts + 1 ELSE restarts
    /\ UNCHANGED driver

Detach ==
    /\ fd.attached /\ restarts < MaxRestarts
    /\ \E kept \in 0..Len(wire.sends) : wire' = CancelSender(wire, kept)
    /\ fd' = DetachBus(fd)
    /\ restarts' = restarts + 1
    /\ UNCHANGED driver

(* The board's reset also restarts the firmware. *)
Reset ==
    /\ restarts < MaxRestarts
    /\ fd' = OnReset(fd)
    /\ \E kept \in 0..Len(wire.sends) :
          wire' = [(IF fd.attached THEN CancelSender(wire, kept) ELSE wire)
                      EXCEPT !.stored = 0, !.overwritten = FALSE]
    /\ driver' = [phase |-> "idle", slot |-> 0, element |-> NoElement,
                  taken |-> <<>>]
    /\ restarts' = restarts + 1

-----------------------------------------------------------------------------
Init ==
    /\ fd = [mode |-> "initialization", cccr |-> {"init"}, ir |-> {},
             ie |-> {}, ils |-> {}, ile |-> {}, asserted |-> {}, level |-> {},
             setup |-> ResetSetup, rx |-> [s \in RxSlot |-> NoElement],
             rx_fill |-> 0, rx_get |-> 0, rx_put |-> 0, rx_lost |-> FALSE,
             tx |-> [b \in Buffer |-> ZeroFrame], txbrp |-> {}, txbto |-> {},
             txbtie |-> {}, state |-> [b \in Buffer |-> "idle"],
             generation |-> [b \in Buffer |-> 1], tx_get |-> 0, tx_put |-> 0,
             attached |-> FALSE]
    /\ wire = [sends |-> <<>>, request |-> [b \in Buffer |-> 0], sent |-> {},
               next |-> 1, stored |-> 0, overwritten |-> FALSE]
    /\ driver = [phase |-> "idle", slot |-> 0, element |-> NoElement,
                 taken |-> <<>>]
    /\ restarts = 0

Configure == WriteCccr \/ WriteIr \/ WriteIe \/ WriteIls \/ WriteIle
                \/ WriteTxbtie \/ WriteSetup \/ WriteTxElement

Environment == Deliver \/ Complete \/ Forget \/ AttachBus \/ Detach \/ Reset

Next == Configure \/ WriteTxbar \/ WriteRxf0a \/ Environment

Spec == Init /\ [][Next]_vars

(* Firmware that uses the put index and the receive routine. *)
DriverNext == Configure \/ WriteTxbarAtPut \/ ReadStatus \/ ReadElement
                 \/ AcknowledgeElement \/ Environment

DriverSpec == Init /\ [][DriverNext]_vars

-----------------------------------------------------------------------------
(* A buffer is pending, in TXBRP and in its lifecycle state, exactly while  *)
(* the bus holds its latest request: none waits for a completion that      *)
(* cannot come, and no live send belongs to a buffer that firmware may     *)
(* fill again.                                                             *)
PendingOwned ==
    \A b \in Buffer :
        /\ b \in fd.txbrp <=> fd.state[b] = "pending"
        /\ b \in fd.txbrp <=>
            \E i \in DOMAIN wire.sends :
                LET s == wire.sends[i]
                IN  /\ s.buffer = b /\ ~ s.doomed
                    /\ s.generation = fd.generation[b]
                    /\ s.request = wire.request[b]

(* TXBTO reports a buffer, and its lifecycle state agrees, only when its   *)
(* latest request was transmitted: a completion of an earlier request,     *)
(* late after a reset or a re-attachment, never counts for it.             *)
CompletedOwn ==
    \A b \in Buffer :
        /\ b \in fd.txbto <=> fd.state[b] = "complete"
        /\ b \in fd.txbto => wire.request[b] \in wire.sent

(* A load of TXFQS never moves the put and get indices: the put index      *)
(* names a free buffer unless all are pending, the get index a pending one *)
(* unless none is.                                                         *)
IndicesSettled ==
    /\ UpdateTxFifoStatus(fd) = fd
    /\ fd.txbrp # Buffer => fd.tx_put \notin fd.txbrp
    /\ fd.txbrp # {} => fd.tx_get \in fd.txbrp

(* For firmware that requests at the put index with valid frames, on a bus *)
(* that refuses none, the get index is the buffer the bus transmits next.  *)
GetIsOldest ==
    \A i \in DOMAIN wire.sends :
        (~ wire.sends[i].doomed /\ \A j \in 1..(i - 1) : wire.sends[j].doomed)
            => fd.tx_get = wire.sends[i].buffer

(* Each interrupt line's level is what IR, IE, ILS and ILE select, at all  *)
(* times, and the FIFO's message-lost mark and its flag in IR go together. *)
LevelsExact ==
    /\ fd.level = {line \in Line : InterruptLinePending(fd, line)}
    /\ fd.asserted = fd.level
    /\ fd.rx_lost <=> "rx_lost" \in fd.ir

(* The receive routine never takes a frame twice or out of order, even     *)
(* when the controller overwrites the element it is reading.               *)
TakenInOrder ==
    \A i, j \in DOMAIN driver.taken :
        i < j => driver.taken[i] < driver.taken[j]

RingStamps == [k \in 1..fd.rx_fill |->
                  fd.rx[(fd.rx_get + k - 1) % RxSlots].stamp]

(* Unless the FIFO was told to overwrite, the routine takes every stored   *)
(* frame: those taken and those in the FIFO are all that were stored.      *)
NothingSkipped ==
    ~ wire.overwritten =>
        driver.taken \o RingStamps = [k \in 1..wire.stored |-> k]

Fifo == INSTANCE RxFifo
    WITH Frame <- Element, Slots <- RxSlots, next <- fd.rx_put,
         queue <- [k \in 1..fd.rx_fill |->
                      LET slot == (fd.rx_get + k - 1) % RxSlots
                      IN  [frame |-> fd.rx[slot], slot |-> slot]]

(* The ring in message RAM with its indices implements the bounded queue.  *)
RingIsFifo == Fifo!Spec
=============================================================================
