------------------------------ MODULE MCDevice ------------------------------
(***************************************************************************)
(* The parts of the microcontroller, checked in one run.  They do not      *)
(* share state in these models, so a behaviour exercises one part, chosen  *)
(* at the start, and leaves the others in their initial states.  Parts     *)
(* with long histories are given a budget of register accesses.            *)
(***************************************************************************)
EXTENDS SysTickTimer, GpioExti, RegisterBlock, SerialDma, Timers, Clocks, FlashCrc, Adc,
        Fdcan

-----------------------------------------------------------------------------
(* The FDCAN controller: one behaviour explores one part of it, with the   *)
(* inputs and bounds that part needs.                                      *)

Standard(id) == [id |-> id, extended |-> FALSE, valid |-> TRUE]
Broken == [id |-> 0, extended |-> FALSE, valid |-> FALSE]
Long == [id |-> 2, extended |-> TRUE, valid |-> TRUE]
FourFrames == {ZeroFrame, Standard(3), Long, Broken}

(* Element 0 rejects identifier 3, element 1 stores 0 and 1 by mask, and   *)
(* an extended range stores 1 to 2; the rest is rejected.                  *)
Selective(overwrite) ==
    [standard |-> <<[type |-> 1, action |-> 3, id1 |-> 3, id2 |-> 3],
                    [type |-> 2, action |-> 1, id1 |-> 0, id2 |-> 2]>>,
     long |-> <<[type |-> 3, action |-> 5, id1 |-> 1, id2 |-> 2]>>,
     anfs |-> 2, anfe |-> 2, overwrite |-> overwrite]
BothSetups == {Selective(FALSE), Selective(TRUE)}

RunOrSleep == {{}, {"cce", "csr"}}
SomeIe == {{"rx_new", "tx_complete"}, Flag}
SomeIls == {{}, {"tx_status", "errors"}}
SomeIle == {{0}, {0, 1}}
SomeTxbtie == {{0}}

CONSTANT MaxTransmitted  \* bound on the requests of part "transmit"

(* Any requests against any answers, with a reset or re-attachment. *)
Transmitting ==
    /\ \/ WriteCccr
       \/ WriteTxElement /\ wire.next = 1 /\ fd'.tx[0] \in {ZeroFrame, Broken}
          /\ \A b \in Buffer \ {0} : fd'.tx[b] = ZeroFrame
       \/ \E requests \in (SUBSET Buffer) \ {{}} :
             /\ wire.next + Cardinality(requests) <= MaxTransmitted + 1
             /\ \E answer \in [requests -> SendAnswers \ {"looped"}] :
                   Request(requests, answer)
       \/ Complete \/ Forget \/ AttachBus \/ Detach \/ Reset
    /\ fd'.setup = ResetSetup

(* Requests at the put index on a timed bus that refuses none. *)
Ordering ==
    /\ \/ WriteCccr \/ WriteTxbarAtPut
       \/ Complete \/ Forget \/ AttachBus \/ Detach \/ Reset
    /\ wire'.stored = 0
    /\ fd.attached /\ wire'.next # wire.next => wire'.sends # wire.sends

(* Reception against arbitrary acknowledgements, with filters set up       *)
(* before the first frame.                                                 *)
Receiving ==
    /\ WriteCccr \/ WriteSetup \/ WriteRxf0a \/ Deliver \/ AttachBus
    /\ wire'.stored <= 4 /\ (wire.stored > 0 => fd'.setup = fd.setup)

(* The receive routine; frames are all alike. *)
Taking ==
    /\ \/ WriteCccr \/ WriteSetup \/ Deliver \/ AttachBus \/ Reset
       \/ ReadStatus \/ ReadElement \/ AcknowledgeElement
    /\ \A s \in RxSlot : fd'.rx[s].frame = ZeroFrame

(* Interrupt lines: reception, one transmission and its own reception. *)
Signalling ==
    /\ \/ WriteCccr \/ WriteIr \/ WriteIe \/ WriteIls \/ WriteIle \/ WriteTxbtie
       \/ \E answer \in SendAnswers : Request({0}, [b \in {0} |-> answer])
       \/ Deliver \/ Complete \/ AttachBus \/ Reset
    /\ wire'.stored <= 1 /\ wire'.next <= 2

FdcanParts == {"transmit", "order", "receive", "take", "signal"}

-----------------------------------------------------------------------------
(* All parts. *)

CONSTANTS
    SerialBudget, ClockBudget, AdcBudget, BlockBudget, DmaBudget

VARIABLES
    part,     \* the part this behaviour exercises
    budget    \* register accesses left

Parts == {"tick", "pins", "block", "wiring", "dma", "usart", "spi", "timer",
          "watchdog", "clocks", "flash", "crc", "adc"} \cup FdcanParts

MCPads == {<<0, 5>>, <<1, 5>>}
MCPatterns == {[i \in 0..7 |-> i + 1], [i \in 0..7 |-> 16 + i]}
MCIrqOfLine == [d \in {"tim1", "tim16"} |-> IF d = "tim1" THEN <<25, 27>> ELSE <<25>>]
MCControls ==
    LET on == [ResetCcr EXCEPT !.en = TRUE, !.ie = {"tc", "te"}, !.minc = TRUE]
    IN  {ResetCcr, on, [on EXCEPT !.circ = TRUE], [on EXCEPT !.m2p = TRUE],
         [on EXCEPT !.psize = 2, !.msize = 2, !.circ = TRUE],
         [on EXCEPT !.ie = {"te"}, !.psize = 2, !.msize = 2],
         [on EXCEPT !.m2m = TRUE, !.m2p = TRUE, !.pinc = TRUE]}
MCPllConfigs ==
    {[source |-> 2, m |-> 1, n |-> 4, r |-> 2, p |-> 2, pen |-> TRUE],
     [source |-> 3, m |-> 2, n |-> 5, r |-> 2, p |-> 7, pen |-> TRUE]}
MCCommonControls == {[mode |-> 0, presc |-> 2], [mode |-> 1, presc |-> 1], [mode |-> 3, presc |-> 1]}
MCBudgetOf == [r \in 0..1 |-> IF r = 0 THEN 2 ELSE 3]

Held(p) ==
    /\ p # "tick" => UNCHANGED tick
    /\ p # "pins" => UNCHANGED GpioExtiVars
    /\ p \notin {"block", "wiring"} => UNCHANGED RegisterBlockVars
    /\ p # "dma" => UNCHANGED DmaVars
    /\ p \notin {"usart", "spi"} => UNCHANGED serial
    /\ p \notin {"timer", "watchdog"} => UNCHANGED TimersVars
    /\ p # "clocks" => UNCHANGED clk
    /\ p \notin {"flash", "crc"} => UNCHANGED FlashCrcVars
    /\ p # "adc" => UNCHANGED adc
    /\ p \notin FdcanParts => UNCHANGED vars

(* One receive and one transmit channel, each routed to its own request;   *)
(* byte items, two at most for the receiver and one for the transmitter.   *)
RequestOf(p, c) == IF p = "usart" THEN IF c = 1 THEN "usart_rx" ELSE "usart_tx"
                   ELSE IF c = 1 THEN "spi_rx" ELSE "spi_tx"

(* A channel whose CMAR and CNDTR firmware has written.                    *)
Prepared(n) == [ResetChannel EXCEPT !.cmar = 8, !.cndtr = n]

DeviceInit ==
    /\ TickInit /\ GpioExtiInit /\ RegisterBlockInit
    /\ TimersInit /\ ClocksInit /\ FlashInit /\ CrcInit /\ AdcInit
    /\ Init
    /\ part \in Parts
    /\ \E n \in Counts \ {0} : dma = [c \in Channels |-> IF part # "dma" THEN ResetChannel
                                    ELSE Prepared(IF c = 1 THEN n ELSE 0)]
    /\ dmaMoves = [c \in Channels |-> NoMoves]
    /\ serial = [SerialReset EXCEPT !.mux = [c \in Channels |-> RequestOf(part, c)],
                                   !.generation = 3]   \* firmware wrote both routes
    /\ part # "adc" => adc.dec = 1 /\ adc.hz = 1
    /\ part # "timer" => tim.hz = 2
    /\ part # "block" => ~sparse.strict
    /\ budget = CASE part \in {"usart", "spi"} -> SerialBudget
                  [] part = "clocks" -> ClockBudget
                  [] part = "adc" -> AdcBudget
                  [] part = "block" -> BlockBudget
                  [] part = "dma" -> DmaBudget
                  [] OTHER -> 0

Spend == budget > 0 /\ budget' = budget - 1

TickPart == part = "tick" /\ TickNext /\ UNCHANGED budget
(* Line 6 takes software triggers only, and the second port is an input.   *)
PinsPart == part = "pins" /\ GpioExtiNext /\ UNCHANGED budget
            /\ gpio'[<<1, 5>>].mode = Analog /\ ~gpio'[<<1, 5>>].odr
            /\ exti'.route[6] = 0 /\ 6 \notin exti'.rtsr \cup exti'.ftsr
BlockPart == part = "block" /\ Spend /\ AccessNext
WiringPart == part = "wiring" /\ WiringNext /\ UNCHANGED budget
(* Channel 2 is there to be disturbed: it moves a fixed block of bytes, or *)
(* fails when a reset has taken its address away.  An access that changes  *)
(* nothing leads to states with a smaller budget only, and is left out.    *)
DmaPart == part = "dma" /\ Spend /\ DmaNext
           /\ dma'[2].cmar <= dma[2].cmar /\ dma'[2].cpar = 0 /\ dma'[2].cndtr <= 1
           /\ DmaVars' # DmaVars /\ dma'[2].ccr.psize = 1 /\ ~dma'[2].ccr.circ /\ ~dma'[2].ccr.m2p
SerialPart ==
    /\ part \in {"usart", "spi"} /\ Spend
    /\ \/ part = "usart" /\ UsartNext /\ serial'.usart.ie \in {{}, {"rxne"}}
       \/ part = "spi" /\ SpiNext
       \/ RoutingNext
          /\ \A c \in Channels :
                /\ serial'.mux[c] \in {"none", RequestOf(part, c)}
                /\ serial'.d[c].ccr.psize = 1 /\ serial'.d[c].ccr.ie # {"te"}
                /\ serial'.d[c].cndtr <= 3 - c /\ serial'.d[c].reload <= 3 - c
    /\ serial' # serial
TimerPart == part = "timer" /\ TimNext /\ UNCHANGED budget
WatchdogPart == part = "watchdog" /\ WdgNext /\ UNCHANGED budget
ClocksPart == part = "clocks" /\ Spend /\ ClocksNext
FlashPart == part = "flash" /\ FlashNext /\ UNCHANGED budget
CrcPart == part = "crc" /\ CrcNext /\ UNCHANGED budget
AdcPart ==
    \/ part = "adc" /\ (ConversionEvent \/ AdcPasses) /\ UNCHANGED budget
    \/ part = "adc" /\ Spend /\ AdcNext /\ ~(ConversionEvent \/ AdcPasses)

FdcanPart ==
    /\ \/ part = "transmit" /\ Transmitting
       \/ part = "order" /\ Ordering
       \/ part = "receive" /\ Receiving
       \/ part = "take" /\ Taking
       \/ part = "signal" /\ Signalling
    /\ UNCHANGED budget

DeviceNext ==
    /\ \/ TickPart \/ PinsPart \/ BlockPart \/ WiringPart \/ DmaPart \/ SerialPart
       \/ TimerPart \/ WatchdogPart \/ ClocksPart \/ FlashPart \/ CrcPart \/ AdcPart
       \/ FdcanPart
    /\ Held(part) /\ UNCHANGED part

DeviceVars == <<tick, GpioExtiVars, RegisterBlockVars, DmaVars, serial, TimersVars, clk,
                FlashCrcVars, adc, vars, part, budget>>
DeviceSpec == DeviceInit /\ [][DeviceNext]_DeviceVars

-----------------------------------------------------------------------------
(* SysTick and DWT do not see how cycles are cut into slices.              *)
TickSliced == part = "tick" => SliceInvariance

(* The register block and the interrupt wiring under every peripheral: no  *)
(* access width tears a register, no shared NVIC line loses a source, an   *)
(* EXTI line's explicit state mirrors PR and IMR through edges, software   *)
(* triggers and masks, and a shared EXTI interrupt is asserted exactly     *)
(* while one of its lines is latched and unmasked.                         *)
RegistersExact ==
    /\ part = "block" => LanesExact
    /\ part = "wiring" => SharedLinesExact
    /\ part = "pins" => ExtiMirrored

(* DMA channels: lifecycle, flags and levels agree, blocks are moved item  *)
(* by item, the direct clear equals the write of IFCR it replaces, and the *)
(* owner-local certificate never vouches for a transfer that would fault.  *)
(* With serial ports attached, requests are served promptly and in order,  *)
(* and a converter misses no conversion that the DMA or firmware is to     *)
(* have.                                                                   *)
DmaCorrect ==
    /\ part = "dma" => DmaSound /\ DmaExact
    /\ part \in {"usart", "spi"} => SerialSound
    /\ part = "adc" => NoneMissed

(* Timers, watchdogs and SysTick: events and computed counters agree to    *)
(* the tick, however the cycles are cut.                                   *)
TimersExact ==
    /\ part = "timer" => UpdateOnTime
    /\ part = "watchdog" => WatchdogExact
    /\ TickSliced

(* Every cached clock is what the registers say, flash opens only to its   *)
(* two keys in succession (their first half may precede a LOCK, see        *)
(* FlashGuarded), loop proofs die with the ACR they were made under, and   *)
(* the CRC unit computes polynomial remainders.                            *)
RccFlashCrcExact ==
    /\ part = "clocks" => ClocksExact
    /\ part = "flash" => FlashGuarded
    /\ part = "crc" => CrcExact

(* The put and get indices are settled, and the get index is the oldest    *)
(* request for firmware that follows the put index.                        *)
IndicesExact == TypeOK /\ IndicesSettled /\ (part = "order" => GetIsOldest)

(* The receive routine takes frames once, in order, and all of them unless *)
(* the FIFO overwrites.                                                    *)
TakenExactly == TakenInOrder /\ (part = "take" => NothingSkipped)

(* A buffer's request, its lifecycle state and the bus's sends agree, and  *)
(* only its own latest request ever completes it.                          *)
RequestsExact == part \in FdcanParts => CompletedOwn /\ PendingOwned

(* Both FIFOs and the lines they raise: settled indices, frames taken once *)
(* and in order, levels that are what the registers select.                *)
FifosExact == part \in FdcanParts => IndicesExact /\ TakenExactly /\ LevelsExact
=============================================================================
