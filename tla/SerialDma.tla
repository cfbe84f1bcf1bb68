----------------------------- MODULE SerialDma -----------------------------
(***************************************************************************)
(* UsartPeripheral and SpiPeripheral with the DMA requests of Stm32G4: a   *)
(* register access may start a burst, a burst reads and writes the very    *)
(* registers that start bursts (dma_suppress_ keeps that from recursing),  *)
(* and enabling a channel starts what was already due.  Every operator     *)
(* takes and returns the whole serial state, as the calls do.              *)
(***************************************************************************)
EXTENDS Dma

CONSTANTS
    Rdr, Tdr, SpiDr,   \* bus addresses of the data registers
    Memory,            \* bus addresses of RAM; reading a cell gives its address
    BurstLimit,        \* 65536: requests of one burst
    MaxSerial,         \* bound on the bytes received, and held by the SPI
    MaxRoutes          \* bound on the changes of DMAMUX

ASSUME SerialAssumption ==
    /\ {Rdr, Tdr, SpiDr} \cap Memory = {} /\ BurstLimit > CountSpan

VARIABLE serial

Requests == {"usart_rx", "usart_tx", "spi_rx", "spi_tx", "none"}

(* USART: the enables of CR1, DMAT and DMAR, the flags kept in ISR, the    *)
(* receive queue, whether the idle event is armed.  TXE is always set.     *)
Usart == [ie : SUBSET {"idle", "rxne", "tc"}, dma : SUBSET {"rx", "tx"},
          flags : SUBSET {"idle", "rxne", "tc"}, rx : Seq(Nat),
          idleArmed : BOOLEAN, level : BOOLEAN]
ResetUsart == [ie |-> {}, dma |-> {}, flags |-> {"tc"}, rx |-> <<>>,
               idleArmed |-> FALSE, level |-> FALSE]

(* SPI: RXNEIE, the DMA enables of CR2, the received bytes.                *)
Spi == [ie : BOOLEAN, dma : SUBSET {"rx", "tx"}, rx : Seq(Nat), level : BOOLEAN]
ResetSpi == [ie |-> FALSE, dma |-> {}, rx |-> <<>>, level |-> FALSE]

(* The rest: the channels, DMAMUX routes with their generation, the route  *)
(* cache of serviceDmaRequestOnce, and two histories: the bytes received   *)
(* so far, and those of them that DMA put in memory, in order.             *)
SerialReset ==
    [usart |-> ResetUsart, spi |-> ResetSpi, d |-> [c \in Channels |-> ResetChannel],
     mux |-> [c \in Channels |-> "none"], generation |-> 1,
     routes |-> [r \in Requests |-> {}], routeGeneration |-> 0,
     received |-> 0, stored |-> <<>>]
SerialInit == serial = SerialReset

-----------------------------------------------------------------------------
(* updateStatus then signalInterruptIfEnabled: RXNE follows the queue.     *)
UsartSettle(u) ==
    LET flags == IF u.rx = <<>> THEN u.flags \ {"rxne"} ELSE u.flags \cup {"rxne"}
    IN  [u EXCEPT !.flags = flags, !.level = u.ie \cap flags # {}]

(* scheduleIdle: re-armed only while bytes wait.                           *)
ScheduleIdle(u) == [u EXCEPT !.idleArmed = u.rx # <<>>]

SpiSettle(p) == [p EXCEPT !.level = p.ie /\ p.rx # <<>>]

(* A bus read or write by a DMA item.  Reading RDR or the SPI data         *)
(* register pops a byte, or gives 0 when there is none.                    *)
BusRead(s, a) ==
    CASE a = Rdr -> [s |-> [s EXCEPT
                        !.usart = UsartSettle([@ EXCEPT
                            !.rx = IF @ = <<>> THEN @ ELSE Tail(@)])],
                     value |-> IF s.usart.rx = <<>> THEN 0 ELSE Head(s.usart.rx)]
      [] a = SpiDr -> [s |-> [s EXCEPT
                        !.spi = SpiSettle([@ EXCEPT
                            !.rx = IF @ = <<>> THEN @ ELSE Tail(@)])],
                       value |-> IF s.spi.rx = <<>> THEN 0 ELSE Head(s.spi.rx)]
      [] OTHER -> [s |-> s, value |-> a]

(* SpiPeripheral::transferWord with the echo device: the byte comes back.  *)
Transfer(s, value) ==
    [s EXCEPT !.spi = SpiSettle([@ EXCEPT !.rx = Append(@, value)])]

BusWrite(s, a, value) ==
    CASE a = Tdr -> [s EXCEPT !.usart = UsartSettle([@ EXCEPT !.flags = @ \cup {"tc"}])]
      [] a = SpiDr -> Transfer(s, value)
      [] a \notin {Tdr, SpiDr} /\ value \in 1..MaxSerial -> [s EXCEPT !.stored = Append(@, value)]
      [] OTHER -> s

(* DmaPeripheral::request for one channel, with side effects on the bus.   *)
ServeChannel(s, c) ==
    LET ch == s.d[c]
        read == BusRead(s, SourceOf(ch))
        write == BusWrite(read.s, DestinationOf(ch), read.value)
        readOk == SourceOf(ch) \in Readable
        done == IF ~readOk THEN s
                ELSE IF DestinationOf(ch) \in Writable THEN write ELSE read.s
    IN  IF ~Moves(ch) THEN s
        ELSE [done EXCEPT !.d[c] = AfterItem(ch, readOk /\ DestinationOf(ch) \in Writable)]

(* serviceDmaRequestOnce: routes are rebuilt when the DMAMUX generation    *)
(* moved on, then every routed channel serves one item, lowest first.      *)
RefreshRoutes(s) ==
    IF s.routeGeneration = s.generation THEN s
    ELSE [s EXCEPT !.routes = [r \in Requests |-> {c \in Channels : s.mux[c] = r}],
                   !.routeGeneration = s.generation]

ServiceOnce(s, request) ==
    LET fresh == RefreshRoutes(s)
        routed == fresh.routes[request]
        serve[c \in {0} \cup Channels] ==
          IF c = 0 THEN [s |-> fresh, progressed |-> FALSE]
          ELSE LET before == serve[c - 1]
               IN  IF c \notin routed \/ ~Accepts(before.s.d[c]) THEN before
                   ELSE [s |-> ServeChannel(before.s, c), progressed |-> TRUE]
    IN  serve[Cardinality(Channels)]

(* A burst: requests until one makes no progress, or, for reception, until *)
(* the receiver is empty.                                                  *)
Waiting(s, request) ==
    CASE request = "usart_rx" -> s.usart.rx # <<>>
      [] request = "spi_rx" -> s.spi.rx # <<>>
      [] OTHER -> TRUE

Burst(s, request) ==
    LET run[n \in 0..BurstLimit] ==
          IF n = 0 THEN [s |-> s, more |-> TRUE]
          ELSE IF ~run[n - 1].more \/ ~Waiting(run[n - 1].s, request)
               THEN [run[n - 1] EXCEPT !.more = FALSE]
          ELSE LET once == ServiceOnce(run[n - 1].s, request)
               IN  [s |-> once.s, more |-> once.progressed]
    IN  run[BurstLimit].s

ServiceSpi(s, transmit) ==
    IF transmit THEN Burst(Burst(s, "spi_tx"), "spi_rx") ELSE Burst(s, "spi_rx")

(* signalDmaRequests of the USART: TX first; the RX condition was read     *)
(* before it.                                                              *)
SignalUsart(s) ==
    LET rx == "rx" \in s.usart.dma /\ "rxne" \in s.usart.flags
        tx == IF "tx" \in s.usart.dma THEN Burst(s, "usart_tx") ELSE s
    IN  IF rx THEN Burst(tx, "usart_rx") ELSE tx

(* signalRequests of the SPI: RX first.                                    *)
SignalSpi(s) ==
    LET rx == IF "rx" \in s.spi.dma /\ s.spi.rx # <<>> THEN ServiceSpi(s, FALSE) ELSE s
    IN  IF "tx" \in s.spi.dma THEN ServiceSpi(rx, TRUE) ELSE rx

(* Seeded fault: enabling a channel starts nothing.                        *)
NothingServed(s) == s

(* serviceAllSerialDma, the enable callback of the channels.  The SPI      *)
(* burst does not look at the enables of CR2.                              *)
ServiceAll(s) ==
    LET tx == IF "tx" \in s.usart.dma THEN Burst(s, "usart_tx") ELSE s
        rx == IF "rx" \in tx.usart.dma /\ tx.usart.rx # <<>> THEN Burst(tx, "usart_rx") ELSE tx
        spi == ServiceSpi(rx, TRUE)
    IN  IF spi.spi.rx # <<>> THEN ServiceSpi(spi, FALSE) ELSE spi

-----------------------------------------------------------------------------
(* injectRx: bytes are numbered in the order they arrive.                  *)
InjectRx ==
    /\ serial.received < MaxSerial
    /\ LET n == serial.received + 1
       IN  serial' = SignalUsart([serial EXCEPT !.received = n,
                        !.usart = UsartSettle(ScheduleIdle([@ EXCEPT !.rx = Append(@, n)]))])

CpuReadRdr ==
    /\ serial.usart.rx # <<>>
    /\ serial' = SignalUsart(BusRead(serial, Rdr).s)
ReadUsartIsr == serial' = SignalUsart([serial EXCEPT !.usart = UsartSettle(@)])

WriteTdr == serial' = BusWrite(serial, Tdr, 0)
WriteIcr == \E clear \in SUBSET {"idle", "rxne", "tc"} :
    serial' = [serial EXCEPT !.usart = UsartSettle([@ EXCEPT !.flags = @ \ clear])]
FlushRx == serial' = [serial EXCEPT !.usart = UsartSettle([@ EXCEPT !.rx = <<>>])]
WriteUsartCr1 == \E ie \in SUBSET {"idle", "rxne"} :
    serial' = [serial EXCEPT !.usart = UsartSettle(ScheduleIdle([@ EXCEPT !.ie = ie]))]
WriteUsartCr3 == \E enables \in SUBSET {"rx", "tx"} :
    serial' = SignalUsart([serial EXCEPT !.usart.dma = enables])
IdleFires ==
    /\ serial.usart.idleArmed
    /\ serial' = [serial EXCEPT !.usart =
          LET u == [@ EXCEPT !.idleArmed = FALSE, !.flags = @ \cup {"idle"}]
          IN  [u EXCEPT !.level = u.ie \cap u.flags # {}]]

WriteSpiDr == Len(serial.spi.rx) < MaxSerial /\ serial' = SignalSpi(Transfer(serial, 0))
CpuReadSpiDr == serial.spi.rx # <<>> /\ serial' = SignalSpi(BusRead(serial, SpiDr).s)
WriteSpiCr2 == \E ie \in BOOLEAN, enables \in SUBSET {"rx", "tx"} :
    serial' = SignalSpi([serial EXCEPT !.spi = SpiSettle([@ EXCEPT !.ie = ie, !.dma = enables])])

(* DMAMUX: the generation moves when a route changes.  Firmware sets       *)
(* routes, counts and addresses while the channel is off, and points the   *)
(* channel at the data register of the request it routed to it.            *)
PadOf == [usart_rx |-> Rdr, usart_tx |-> Tdr, spi_rx |-> SpiDr, spi_tx |-> SpiDr, none |-> 0]
WriteMux == \E c \in Channels, r \in Requests :
    /\ ~serial.d[c].ccr.en /\ serial.generation < MaxRoutes
    /\ serial' = [serial EXCEPT !.mux[c] = r,
                     !.generation = IF r = serial.mux[c] THEN @ ELSE @ + 1]

SetupChannel == \E c \in Channels, n \in Counts, base \in Memory :
    /\ ~serial.d[c].ccr.en
    /\ serial' = [serial EXCEPT !.d[c].cndtr = n, !.d[c].cpar = PadOf[serial.mux[c]],
                                !.d[c].cmar = base]

(* A write of CCR, with the enable callback before the last level update.  *)
WriteSerialCcr == \E c \in Channels, value \in Controls :
    LET was == serial.d[c].ccr.en
        written == [serial EXCEPT !.d[c].ccr = value]
        armed == [written EXCEPT !.d[c].reload = serial.d[c].cndtr, !.d[c].state = "armed"]
    IN  /\ ~value.m2m /\ value.m2p = (serial.mux[c] \in {"usart_tx", "spi_tx"})
        /\ serial' = [(IF ~was /\ value.en THEN ServiceAll(armed)
                       ELSE IF was /\ ~value.en
                       THEN [written EXCEPT !.d[c].state = "disabled"]
                       ELSE written) EXCEPT !.d = UpdateDmaLevels(@)]

(* Stm32G4::reset: DMAMUX loses its routes without moving its generation,  *)
(* so the route cache is invalidated by hand.                              *)
ResetSerial ==
    serial' = [serial EXCEPT !.usart = ResetUsart, !.spi = ResetSpi,
                  !.d = [c \in Channels |-> [ResetChannel EXCEPT !.reload = serial.d[c].reload]],
                  !.mux = [c \in Channels |-> "none"], !.routeGeneration = 0]

UsartNext ==
    \/ InjectRx \/ CpuReadRdr \/ ReadUsartIsr \/ WriteTdr \/ WriteIcr \/ FlushRx
    \/ WriteUsartCr1 \/ WriteUsartCr3 \/ IdleFires
SpiNext == WriteSpiDr \/ CpuReadSpiDr \/ WriteSpiCr2
RoutingNext == WriteMux \/ SetupChannel \/ WriteSerialCcr \/ ResetSerial

SerialNext == UsartNext \/ SpiNext \/ RoutingNext

-----------------------------------------------------------------------------
(* The channels that a request reaches, and that still have items to move. *)
Routed(r) == {c \in Channels : serial.mux[c] = r}
Due(r) == {c \in Routed(r) : Moves(serial.d[c]) /\ serial.d[c].cpar = PadOf[r]}

(* Whatever comes last (the enable of the peripheral, of the channel, or   *)
(* the data), due transfers are served before the step ends: a USART with  *)
(* DMAT leaves no linear transmit channel half way, and a receiver with    *)
(* DMA enabled holds no byte that a channel waits for.                     *)
ServedPromptly ==
    /\ "tx" \in serial.usart.dma => \A c \in Due("usart_tx") : serial.d[c].ccr.circ
    /\ "rx" \in serial.usart.dma /\ serial.usart.rx # <<>> => Due("usart_rx") = {}
    /\ "rx" \in serial.spi.dma /\ serial.spi.rx # <<>> => Due("spi_rx") = {}

(* What DMA stores is what arrived, in the order it arrived, nothing       *)
(* twice, whichever access started each burst.                             *)
BytesInOrder ==
    \A i, j \in DOMAIN serial.stored : i < j => serial.stored[i] < serial.stored[j]

(* Interrupt levels follow the flags through bursts as well, RXNE follows  *)
(* the queue, and a route cache of the current generation is the routing.  *)
SerialMirrored ==
    /\ serial.usart.level <=> serial.usart.ie \cap serial.usart.flags # {}
    /\ "rxne" \in serial.usart.flags <=> serial.usart.rx # <<>>
    /\ serial.spi.level <=> serial.spi.ie /\ serial.spi.rx # <<>>
    /\ \A c \in Channels : serial.d[c].level <=> LevelOf(serial.d[c])
    /\ serial.routeGeneration = serial.generation =>
          \A r \in Requests : serial.routes[r] = Routed(r)

SerialSound == ServedPromptly /\ BytesInOrder /\ SerialMirrored
=============================================================================
