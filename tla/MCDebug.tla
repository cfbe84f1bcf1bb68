------------------------------ MODULE MCDebug -------------------------------
(***************************************************************************)
(* Everything that talks to a person or a tool outside the simulation: the *)
(* GDB server and its packets, the telnet monitor, stimulus scripts with   *)
(* their expectations and trace, and the network service.  They share no   *)
(* state; a behaviour exercises one of them, chosen at the start.          *)
(***************************************************************************)
EXTENDS RspSession, TelnetMonitor, GdbRegisters, RspCodec, StimulusPlayer, NetworkService

CONSTANT RegisterBudget   \* bound: register packets

VARIABLES
    part,     \* the interface this behaviour exercises
    budget    \* register packets left

DebugParts == {"session", "telnet", "registers", "codec", "stimulus", "service"}

(* What one debugger may send; each plan is a set of requests.             *)
Plain(op) == [op |-> op]
Memory(op, a, len) == [op |-> op, a |-> a, len |-> len, v |-> 1]
Point(op, type, a) == [op |-> op, type |-> type, a |-> a]
Resume(op, to) == [op |-> op, to |-> to]
MCPlans ==
    {{Plain("QStartNoAckMode"), Plain("semihosting"), Resume("c", -1), Resume("s", 2)},
     {Point("Z", "sw", 1), Point("z", "sw", 1), Point("Z", "hw", 1), Point("z", "hw", 1), Resume("c", -1)},
     {Memory("m", 1, 2), Memory("M", 1, 2), Memory("m", 3, 1), Memory("vFlashErase", 3, 1),
      Memory("m", 0, 3), Plain("R"), Resume("c", -1)},
     {Plain("?"), Plain("vRun"), Point("Z", "watch", 0), Point("z", "watch", 0), Resume("c", -1),
      Resume("s", -1), Plain("QStartNoAckMode")},
     {Plain("D"), Plain("k"), Plain("unknown"), Plain("?"), Plain("R")}}

MCPayloads == UNION {[1..k -> {0, 3, 4, 7, 13}] : k \in 0..3}
MCNoise == {<<>>, <<0>>, <<3, 1>>}
MCStatusWords == [ipsr : {0, 1}, t : BOOLEAN, it : {0, 1}]

(* Stimulus scripts: repeats around the end of time, CAN formats around    *)
(* their limits, scripts with one thing wrong, and three that are played.  *)
Stimulus(type, at, every, count) ==
    [type |-> type, at |-> at, repeat |-> count > 1 \/ every > 0, every |-> every, count |-> count,
     target |-> IF type = "can" THEN "bus" ELSE "board", value |-> 1, legal |-> TRUE, id |-> 1,
     extended |-> "absent", fd |-> "absent", brs |-> FALSE, length |-> 1]
Expect(type, at, window, value) ==
    [type |-> type, target |-> IF type = "can_tx" THEN "bus" ELSE "board", at |-> at,
     window |-> window, value |-> value, legal |-> TRUE]
Script(events, expect) == [events |-> events, expect |-> expect]
Injection == Stimulus("can", 1, 0, 1)
MCPlayedScripts ==
    {Script(<<Stimulus("can", 1, 1, 2)>>, <<Expect("gpio_output", 0, 1, 1), Expect("can_tx", 1, 0, 1)>>),
     Script(<<Stimulus("gpio", 0, 0, 1)>>, <<Expect("gpio_output", 1, 0, 0), Expect("gpio_output", 1, 1, 0)>>),
     Script(<<Stimulus("usart", 0, 2, 2)>>, <<Expect("can_tx", 0, 0, 1), Expect("can_tx", 0, 3, 1)>>)}
MCScripts ==
    UNION {
        {Script(<<Stimulus("gpio", 1, 0, 1), Stimulus("can", at, every, count)>>, <<>>) :
            at \in 0..5, every \in 0..5, count \in 0..4},
        {Script(<<[Injection EXCEPT !.id = id, !.extended = x, !.fd = fd, !.brs = brs, !.length = len]>>, <<>>) :
            id \in {1, 2, 4}, x \in {"absent", "yes", "no"}, fd \in {"absent", "yes", "no"},
            brs \in BOOLEAN, len \in 1..5},
        {Script(<<>>, <<>>), Script(<<Injection, [Injection EXCEPT !.target = "nobody"]>>, <<>>),
         Script(<<Injection, [Stimulus("adc", 1, 0, 1) EXCEPT !.legal = FALSE]>>, <<>>),
         Script(<<[Injection EXCEPT !.type = "spi"]>>, <<>>)},
        {Script(<<Injection>>, <<x>>) :
            x \in {[Expect("can_tx", 1, 1, 1) EXCEPT !.target = "nobody"], Expect("can_tx", 2, 2, 1),
                   Expect("can_tx", 2, 1, 1), Expect("gpio_output", 4, 0, 1),
                   [Expect("can_tx", 1, 1, 1) EXCEPT !.legal = FALSE]}},
        MCPlayedScripts}

(* Clients of the network service.                                         *)
Request(id, kind, size) ==
    [id |-> id, kind |-> kind, size |-> size, magic |-> TRUE, legal |-> TRUE, named |-> TRUE, full |-> FALSE]
Client(mode, stream, duration, window) ==
    [mode |-> mode, stream |-> stream, duration |-> duration, window |-> window]
Orderly == <<Request(1, "adc_set", 1), Request(2, "stop", 0)>>
Queued == <<Request(1, "gpio_set", 3), [Request(2, "can_inject", 1) EXCEPT !.full = TRUE], Request(3, "adc_set", 0)>>
Confused == <<Request(0, "stop", 0), Request(5, "unknown", 1), [Request(6, "adc_set", 1) EXCEPT !.named = FALSE]>>
Broken == <<Request(1, "can_inject", 0), [Request(2, "adc_set", 2) EXCEPT !.magic = FALSE], Request(3, "stop", 0)>>
Oversized == <<[Request(1, "stop", 1) EXCEPT !.legal = FALSE], Request(2, "adc_set", 4), Request(3, "stop", 0)>>
MCClients ==
    <<Client("serve", Orderly, 0, 0), Client("serve", Queued, 5, 0), Client("serve", Queued, 0, 1),
      Client("serve", Confused, 5, 1), Client("serve", Broken, 0, 0), Client("serve", Oversized, 0, 0),
      Client("watch", Orderly, 0, 0), Client("watch", Queued, 5, 0), Client("serve", Orderly, 5, 4)>>

-----------------------------------------------------------------------------
Held(p) ==
    /\ p # "session" => UNCHANGED RspSessionVars
    /\ p # "telnet" => UNCHANGED TelnetVars
    /\ p # "registers" => UNCHANGED core
    /\ p # "codec" => UNCHANGED text
    /\ p # "stimulus" => UNCHANGED StimulusVars
    /\ p # "service" => UNCHANGED ServiceVars

(* Only the part under test starts in every one of its initial states.     *)
DebugInit ==
    /\ part \in DebugParts
    /\ budget = IF part = "registers" THEN RegisterBudget ELSE 0
    /\ TelnetInit /\ RegistersInit
    /\ IF part = "session" THEN RspSessionInit ELSE ses = 0 /\ tgt = 0 /\ gdb = 0 /\ wire = 0
    /\ IF part = "codec" THEN CodecInit ELSE text = 0
    /\ IF part = "stimulus" THEN StimulusInit ELSE play = 0 /\ judge = 0 /\ trace = 0 /\ made = 0
    /\ IF part = "service" THEN ServiceInit ELSE srv = 0 /\ pipe = 0 /\ said = 0

DebugNext ==
    /\ \/ part = "session" /\ RspSessionNext /\ UNCHANGED budget
       \/ part = "telnet" /\ TelnetNext /\ UNCHANGED budget
       \/ part = "registers" /\ budget > 0 /\ budget' = budget - 1 /\ GdbRegistersNext
       \/ part = "stimulus" /\ StimulusNext /\ UNCHANGED budget
       \/ part = "service" /\ ServiceNext /\ UNCHANGED budget
    /\ Held(part) /\ UNCHANGED part

DebugVars == <<RspSessionVars, TelnetVars, core, text, StimulusVars, ServiceVars, part, budget>>

(* The server's and the service's own steps are taken as long as there are *)
(* any; the debugger reads what it is sent and interrupts what runs on.    *)
OfSession(A) == part = "session" /\ A /\ Held(part) /\ UNCHANGED <<part, budget>>

DebugSpec ==
    /\ DebugInit /\ [][DebugNext]_DebugVars
    /\ WF_RspSessionVars(OfSession(Server))
    /\ WF_RspSessionVars(OfSession(GdbReads))
    /\ WF_RspSessionVars(OfSession(GdbBreaks))
    /\ WF_ServiceVars(part = "service" /\ ServiceStep /\ Held(part) /\ UNCHANGED <<part, budget>>)

-----------------------------------------------------------------------------
(* The debugger sees the stop, memory, breakpoints and registers there     *)
(* are, no packet is acted on twice, what one side encodes the other       *)
(* reads, and a monitor client's lines are executed as it typed them       *)
(* (gdb_server.cpp, rsp.cpp, registers.cpp, monitor.cpp).                  *)
DebuggerCorrect ==
    /\ part = "session" => SessionExact
    /\ part = "codec" => CodecExact
    /\ part = "registers" => RegistersCoherent
    /\ part = "telnet" => LinesExact


(* A request, and that it was served.                                      *)
Asked ==
    \/ part = "session" /\ Unanswered
    \/ part = "service" /\ AskedToStop
Served ==
    CASE part = "session" -> Answered
      [] part = "service" -> srv.phase = "ended"
      [] OTHER -> TRUE

(* Every packet is answered: a debugger that keeps interrupting regains    *)
(* the target, whatever was rejected, dropped or printed meanwhile; and a  *)
(* service whose client asked it to stop, or hung up, ends.                *)
RequestsAnswered == Asked ~> Served
=============================================================================
