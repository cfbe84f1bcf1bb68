---------------------------- MODULE RspSession -----------------------------
(***************************************************************************)
(* A GDB remote serial session (src/debug/gdb_server.cpp, rsp.cpp) with    *)
(* the endpoints it services between execution slices (live_gdb.cpp and    *)
(* the command layer of monitor.cpp).  The session owns no thread: it      *)
(* reads packets, waits for acknowledgements and runs the board in slices, *)
(* while the debugger may interrupt, hang up, or find a frame corrupted.   *)
(*                                                                         *)
(* A packet is one token of the byte stream: what the framing can lose is  *)
(* a whole packet (bad checksum), a stray byte or the rest of the stream.  *)
(***************************************************************************)
EXTENDS Integers, Sequences, FiniteSets

CONSTANTS
    Plans,           \* sets of packets a debugger may use
    Impatient,       \* whether it may interrupt again before it is answered
    CodeSize,        \* instructions of the firmware loop
    SliceLimit,      \* slice_instructions
    Outcomes,        \* how the board may stop of its own accord
    RamBytes,        \* addresses of RAM, ROM and flash
    MmioBytes,       \* addresses of registers whose loads have side effects
    TopAddress,      \* the last address of the target
    MaxRequest,      \* maximum_memory_request
    MaxPackets,      \* bound: packets of the debugger
    MaxCorrupted,    \* bound: frames that arrive corrupted
    MaxPrints,       \* bound: semihosting calls with console output
    MaxVisits,       \* bound: requests to the endpoints
    MaxSessions      \* bound: connections accepted one after another

VARIABLES
    ses,     \* GdbSession and its RspConnection
    tgt,     \* the board: pc, memory, loads of MMIO, halted
    gdb,     \* the debugger
    wire     \* the two byte streams and the faults left

RspSessionVars == <<ses, tgt, gdb, wire>>

Ack == [t |-> "ack"]
Nak == [t |-> "nak"]
Break == [t |-> "break"]
Eof == [t |-> "eof"]
Nothing == [kind |-> "none", n |-> 0, at |-> 0, data |-> <<>>]
Unknown == -1

(* A new GdbSession: no breakpoints, ack mode, semihosting off.            *)
NewSession ==
    [phase |-> "idle", after |-> "idle", no_ack |-> FALSE, last_frame |-> Nothing,
     last_stop |-> "trap", sw |-> {}, hw |-> {}, combined |-> {}, watch |-> {},
     semihosting |-> FALSE, step |-> FALSE, n |-> 0, dispatched |-> 0]

NewDebugger ==
    [phase |-> "ready", no_ack |-> FALSE, n |-> 0, last |-> [op |-> "none"],
     got |-> Nothing, accepted |-> 0, stop |-> "trap", set |-> {}, broke |-> FALSE,
     mem |-> [a \in RamBytes |-> Unknown], doubt |-> {}]

(* The image: RAM as the loader leaves it.                                 *)
Image == [a \in RamBytes |-> 0]

RspSessionInit ==
    /\ ses = NewSession
    /\ gdb = NewDebugger
    /\ tgt = [pc |-> 0, ram |-> Image, loads |-> 0, halted |-> FALSE,
              perturbed |-> FALSE]
    /\ \E plan \in Plans :
          wire = [in |-> <<>>, out |-> <<>>, corrupt |-> MaxCorrupted, prints |-> MaxPrints,
               packets |-> MaxPackets, plan |-> plan, visits |-> MaxVisits, sessions |-> MaxSessions]

-----------------------------------------------------------------------------
(* sendPacket: the frame is kept for a later '-', written, and in ack mode *)
(* the session waits before it does what comes then.  A frame is written   *)
(* whole; while checksums are in use it may arrive corrupted.              *)
Corruptible(w, no_ack) == IF w.corrupt > 0 /\ ~no_ack THEN BOOLEAN ELSE {TRUE}

Write(w, frame, good) ==
    [w EXCEPT !.out = Append(@, [t |-> "frame", of |-> frame, good |-> good]),
              !.corrupt = IF good THEN @ ELSE @ - 1]

(* Seeded fault: the frame to be sent again is not replaced. *)
SendPacket_Stale(s, w, frame, then) ==
    /\ ses' = [s EXCEPT !.after = then, !.phase = IF s.no_ack THEN then ELSE "ack"]
    /\ \E good \in Corruptible(w, s.no_ack) : wire' = Write(w, frame, good)

SendPacket(s, w, frame, then) ==
    /\ ses' = [s EXCEPT !.last_frame = frame, !.after = then,
                        !.phase = IF s.no_ack THEN then ELSE "ack"]
    /\ \E good \in Corruptible(w, s.no_ack) : wire' = Write(w, frame, good)

Frame(s, kind, pc) == [kind |-> kind, n |-> s.n, at |-> pc, data |-> <<>>]

(* sendStopReply remembers the stop for '?'.                               *)
SendStopReply(s, w, kind, pc) ==
    SendPacket([s EXCEPT !.last_stop = kind], w, Frame(s, kind, pc), "idle")

-----------------------------------------------------------------------------
(* Memory packets.  The range is checked against the longest request and   *)
(* the end of the address space, then moved byte by byte: the bytes before *)
(* one that fails have been loaded or stored.                              *)
Bytes(r) == r.a .. r.a + r.len - 1

Answering(r) == {x \in Bytes(r) : r.a .. x \subseteq RamBytes \cup MmioBytes}

MemoryRefused(r) == r.len > MaxRequest \/ r.len > TopAddress - r.a

FlashRefused(r) ==
    \/ IF r.op = "vFlashErase" THEN r.len = 0 ELSE r.len > MaxRequest
    \/ r.len > TopAddress - r.a + 1

Loaded(b, r) == [b EXCEPT !.loads = @ + Cardinality(Answering(r) \cap MmioBytes)]

Stored(b, r) == [b EXCEPT !.ram = [x \in RamBytes |-> IF x \in Answering(r) THEN r.v ELSE @[x]]]

Moved(r) == IF Answering(r) = Bytes(r) THEN "done" ELSE "error"

(* Z and z: instruction breakpoints by kind, watchpoints by their triple;  *)
(* inserting what is there and removing what is not are both accepted.     *)
(* Seeded fault: a removal takes the address of the other kind with it. *)
HandleBreakpoint_Joint(s, r) ==
    LET change(set) == IF r.op = "Z" THEN set \cup {r.a} ELSE set \ {r.a}
        kept == CASE r.type = "sw" -> [s EXCEPT !.sw = change(@)]
                  [] r.type = "hw" -> [s EXCEPT !.hw = change(@)]
                  [] r.type = "watch" -> [s EXCEPT !.watch = change(@)]
    IN  IF r.type = "watch" THEN kept ELSE [kept EXCEPT !.combined = change(s.combined)]

HandleBreakpoint(s, r) ==
    LET change(set) == IF r.op = "Z" THEN set \cup {r.a} ELSE set \ {r.a}
        kept == CASE r.type = "sw" -> [s EXCEPT !.sw = change(@)]
                  [] r.type = "hw" -> [s EXCEPT !.hw = change(@)]
                  [] r.type = "watch" -> [s EXCEPT !.watch = change(@)]
    IN  [kept EXCEPT !.combined = kept.sw \cup kept.hw]

(* The bytes of an answer to m; registers of peripherals have values of    *)
(* their own.                                                              *)
Contents(b, r) == [x \in Bytes(r) \cap RamBytes |-> b.ram[x]]

(* Seeded fault: a reset leaves what the firmware and the debugger stored. *)
ResetBoard_KeepsRam(b) == [b EXCEPT !.pc = 0, !.halted = FALSE, !.loads = 0]

(* Board::reset, for R, vRun and the monitor's reset: the memory is built  *)
(* again from the image.                                                   *)
ResetBoard(b) == [b EXCEPT !.pc = 0, !.halted = FALSE, !.loads = 0, !.ram = Image]

(* resume and vCont: the modelled halt is cleared and the loop of          *)
(* resumeTarget begins; an address in the packet moves the pc.             *)
BeginResume(s, r) == [s EXCEPT !.phase = "running", !.step = r.op = "s"]

Entered(b, r) == [b EXCEPT !.halted = FALSE, !.pc = IF r.to >= 0 THEN r.to ELSE @]

(* dispatch: one packet, its effect on the session and on the board, and   *)
(* its answer.                                                             *)
Dispatch(s, w, r) ==
    LET reply(kind) == SendPacket(s, w, Frame(s, kind, tgt.pc), "idle")
    IN  \/ /\ r.op = "m"
           /\ IF MemoryRefused(r) THEN tgt' = tgt /\ reply("error")
              ELSE IF Moved(r) = "error" THEN tgt' = Loaded(tgt, r) /\ reply("error")
              ELSE /\ tgt' = Loaded(tgt, r)
                   /\ SendPacket(s, w, [Frame(s, "done", tgt.pc) EXCEPT !.data = Contents(tgt, r)], "idle")
        \/ /\ r.op \in {"M", "X", "vFlashErase", "vFlashWrite"}
           /\ IF (IF r.op \in {"M", "X"} THEN MemoryRefused(r) ELSE FlashRefused(r))
              THEN tgt' = tgt /\ reply("error")
              ELSE tgt' = Stored(tgt, r) /\ reply(Moved(r))
        \/ /\ r.op \in {"Z", "z"} /\ tgt' = tgt
           /\ LET t == HandleBreakpoint(s, r) IN SendPacket(t, w, Frame(t, "done", tgt.pc), "idle")
        \/ /\ r.op \in {"c", "s"}
           /\ tgt' = Entered(tgt, r) /\ ses' = BeginResume(s, r) /\ wire' = w
        \/ r.op = "?" /\ tgt' = tgt /\ reply(s.last_stop)
        \/ r.op = "R" /\ tgt' = ResetBoard(tgt) /\ reply("done")
        \/ r.op = "vRun" /\ tgt' = ResetBoard(tgt) /\ SendStopReply(s, w, "trap", 0)
        \/ /\ r.op = "QStartNoAckMode" /\ tgt' = tgt
           /\ SendPacket(s, w, Frame(s, "done", tgt.pc), "noack")
        \/ /\ r.op = "semihosting" /\ tgt' = tgt
           /\ LET t == [s EXCEPT !.semihosting = TRUE]
              IN  SendPacket(t, w, Frame(t, "done", tgt.pc), "idle")
        \/ r.op = "D" /\ tgt' = tgt /\ SendPacket(s, w, Frame(s, "done", tgt.pc), "detached")
        \/ /\ r.op = "k" /\ tgt' = tgt /\ wire' = w
           /\ ses' = [s EXCEPT !.phase = "killed"]
        \/ r.op = "unknown" /\ tgt' = tgt /\ reply("unsupported")

-----------------------------------------------------------------------------
(* run(): input ends the wait, and readPacket then blocks until a packet   *)
(* is complete or the stream ends.                                         *)
WaitForInput ==
    /\ ses.phase = "idle" /\ wire.in # <<>>
    /\ ses' = [ses EXCEPT !.phase = "read"]
    /\ UNCHANGED <<tgt, gdb, wire>>

(* readPacket: acknowledgements and stray bytes are skipped, a rejected    *)
(* frame is sent again, a packet with a bad checksum is rejected, and a    *)
(* good one is acknowledged and dispatched.                                *)
Skipped(w) == [w EXCEPT !.in = Tail(@)]

ReadPacket ==
    /\ ses.phase = "read" /\ wire.in # <<>>
    /\ LET token == Head(wire.in)
           w == Skipped(wire)
       IN  \/ token.t \in {"ack", "break"} /\ wire' = w /\ UNCHANGED <<ses, tgt>>
           \/ /\ token.t = "nak"
              /\ \E good \in Corruptible(w, ses.no_ack) : wire' = Write(w, ses.last_frame, good)
              /\ UNCHANGED <<ses, tgt>>
           \/ /\ token.t = "eof" /\ wire' = w /\ ses' = [ses EXCEPT !.phase = "disconnected"]
              /\ UNCHANGED tgt
           \/ /\ token.t = "packet" /\ ~token.good
              /\ wire' = IF ses.no_ack THEN w ELSE [w EXCEPT !.out = Append(@, Nak)]
              /\ UNCHANGED <<ses, tgt>>
           \/ /\ token.t = "packet" /\ token.good
              /\ Dispatch([ses EXCEPT !.n = token.n, !.dispatched = @ + 1],
                          IF ses.no_ack THEN w ELSE [w EXCEPT !.out = Append(@, Ack)],
                          token.request)
    /\ UNCHANGED gdb

(* What follows an acknowledged packet: QStartNoAckMode switches, D ends   *)
(* the session, a semihosting call goes on running or reports its stop.    *)
(* Seeded fault: the switch is made only in the reply. *)
Continue_Acks(s, then) == [s EXCEPT !.phase = IF then = "noack" THEN "idle" ELSE then]

Continue(s, then) ==
    IF then = "noack" THEN [s EXCEPT !.phase = "idle", !.no_ack = TRUE]
    ELSE [s EXCEPT !.phase = then]

(* sendPacket's wait drops everything but '+' and '-'.                     *)
AwaitAck ==
    /\ ses.phase = "ack" /\ wire.in # <<>>
    /\ LET token == Head(wire.in)
           w == Skipped(wire)
       IN  \/ token.t = "ack" /\ wire' = w /\ ses' = Continue(ses, ses.after)
           \/ /\ token.t = "nak" /\ UNCHANGED ses
              /\ \E good \in Corruptible(w, ses.no_ack) : wire' = Write(w, ses.last_frame, good)
           \/ token.t = "eof" /\ wire' = w /\ ses' = [ses EXCEPT !.phase = "disconnected"]
           \/ token.t \in {"break", "packet"} /\ wire' = w /\ UNCHANGED ses
    /\ UNCHANGED <<tgt, gdb>>

(* The OK to QStartNoAckMode was its own acknowledgement in no-ack mode.   *)
SwitchNoAck ==
    /\ ses.phase = "noack"
    /\ ses' = Continue(ses, "noack")
    /\ UNCHANGED <<tgt, gdb, wire>>

-----------------------------------------------------------------------------
(* resumeTarget's loop.  Any pending input interrupts a continue before    *)
(* the next slice; a step is not interrupted.                              *)
Interrupted ==
    /\ ses.phase = "running" /\ ~ses.step /\ wire.in # <<>>
    /\ SendStopReply(ses, wire, "interrupt", tgt.pc)
    /\ UNCHANGED <<tgt, gdb>>

(* One slice of Board::run: it stops before an instruction at a combined   *)
(* breakpoint (a step has none), after the budget, or as the firmware and  *)
(* the board decide.                                                       *)
Stops == IF ses.step THEN {} ELSE ses.combined

RunTo(k) == (tgt.pc + k) % CodeSize

Unstopped(k) == \A j \in 0 .. k - 1 : RunTo(j) \notin Stops

SliceMay == ses.phase = "running" /\ (ses.step \/ wire.in = <<>>)

SliceHitsBreakpoint ==
    /\ SliceMay
    /\ \E k \in 0 .. SliceLimit :
          /\ Unstopped(k) /\ RunTo(k) \in Stops
          /\ tgt' = [tgt EXCEPT !.pc = RunTo(k)]
          /\ SendStopReply(ses, wire, IF RunTo(k) \in ses.hw THEN "hwbreak" ELSE "swbreak", RunTo(k))
    /\ UNCHANGED gdb

SliceEnds ==
    LET k == IF ses.step THEN 1 ELSE SliceLimit IN
    /\ SliceMay /\ Unstopped(k)
    /\ tgt' = [tgt EXCEPT !.pc = RunTo(k)]
    /\ IF ses.step THEN SendStopReply(ses, wire, "trap", RunTo(k)) ELSE UNCHANGED <<ses, wire>>
    /\ UNCHANGED gdb

(* A BKPT, a halt, a watchpoint, an unimplemented instruction, a fault or  *)
(* a failure ends the resume; which signal says so is the outcome's.       *)
SliceStops ==
    /\ SliceMay
    /\ \E k \in 1 .. (IF ses.step THEN 1 ELSE SliceLimit), o \in Outcomes :
          /\ Unstopped(k) /\ (o = "watch" => ses.watch # {})
          /\ tgt' = [tgt EXCEPT !.pc = RunTo(k), !.halted = o \in {"trap", "segmentation"}]
          /\ SendStopReply(ses, wire, o, RunTo(k))
    /\ UNCHANGED gdb

(* BKPT 0xAB with semihosting on: the call is serviced, its output goes to *)
(* the console, and a continue keeps running unless the call was SYS_EXIT. *)
SliceCalls ==
    /\ SliceMay /\ ses.semihosting /\ wire.prints > 0
    /\ \E k \in 1 .. (IF ses.step THEN 1 ELSE SliceLimit), exit \in BOOLEAN :
          /\ Unstopped(k)
          /\ tgt' = [tgt EXCEPT !.pc = RunTo(k), !.halted = FALSE]
          /\ SendPacket(ses, [wire EXCEPT !.prints = @ - 1], Frame(ses, "console", RunTo(k)),
                        IF ses.step \/ exit THEN "report" ELSE "running")
    /\ UNCHANGED gdb

ReportCall ==
    /\ ses.phase = "report"
    /\ SendStopReply(ses, wire, "trap", tgt.pc)
    /\ UNCHANGED <<tgt, gdb>>

-----------------------------------------------------------------------------
(* serviceEndpoints(running), between packets and between slices.  A live  *)
(* session only reads; the monitor also stores and resets, while stopped.  *)
(* While the target runs only RAM, ROM and flash may be read.              *)
(* Seeded fault: any address may be read while the target runs. *)
LiveRequest_AnyTime(running, r, b) == IF r.op = "m" /\ ~MemoryRefused(r) THEN Loaded(b, r) ELSE b

LiveRequest(running, r, b) ==
    IF r.op = "m" /\ ~MemoryRefused(r) /\ (~running \/ Bytes(r) \subseteq RamBytes)
    THEN Loaded(b, r) ELSE b

MonitorRequest(running, r, b) ==
    IF r.op = "m" THEN IF ~running \/ Bytes(r) \subseteq RamBytes THEN Loaded(b, r) ELSE b
    ELSE IF running THEN b
    ELSE IF r.op = "M" THEN Stored(b, r)
    ELSE IF r.op = "R" THEN ResetBoard(b)
    ELSE b

ServiceEndpoints ==
    /\ ses.phase \in {"idle", "running"} /\ wire.visits > 0
    /\ wire' = [wire EXCEPT !.visits = @ - 1]
    /\ \E r \in wire.plan, live \in BOOLEAN :
          /\ r.op \in {"m", "M", "R", "unknown"}
          /\ LET running == ses.phase = "running"
                 after == IF live THEN LiveRequest(running, r, tgt) ELSE MonitorRequest(running, r, tgt)
                 moved == {x \in RamBytes : after.ram[x] # tgt.ram[x]}
             IN  /\ tgt' = [after EXCEPT !.perturbed = @ \/ (running /\ after # tgt)]
                 /\ gdb' = [gdb EXCEPT !.doubt = @ \cup moved,
                               !.mem = [x \in RamBytes |-> IF x \in moved THEN Unknown ELSE @[x]]]
    /\ UNCHANGED ses

(* serveGdb: the next connection gets a new session on the same board.     *)
Ended == {"detached", "killed", "disconnected"}

Accept ==
    /\ ses.phase \in Ended /\ wire.sessions > 0
    /\ ses' = NewSession /\ gdb' = NewDebugger
    /\ wire' = [wire EXCEPT !.in = <<>>, !.out = <<>>, !.sessions = @ - 1]
    /\ UNCHANGED tgt

-----------------------------------------------------------------------------
(* The debugger, as the protocol has it: one packet at a time, resent when *)
(* it is rejected; frames acknowledged or rejected while in ack mode.      *)
Packet(r, n, good) == [t |-> "packet", request |-> r, n |-> n, good |-> good]

Connected == gdb.phase # "gone" /\ ses.phase \notin Ended

GdbSends ==
    /\ Connected /\ gdb.phase = "ready" /\ wire.packets > 0
    /\ \E r \in wire.plan, good \in Corruptible(wire, gdb.no_ack) :
          /\ gdb' = [gdb EXCEPT !.phase = IF gdb.no_ack THEN "reply" ELSE "ack", !.n = @ + 1,
                                !.last = r, !.broke = FALSE, !.doubt = {}]
          /\ wire' = [wire EXCEPT !.in = Append(@, Packet(r, gdb.n + 1, good)),
                                  !.packets = @ - 1, !.corrupt = IF good THEN @ ELSE @ - 1]
    /\ UNCHANGED <<ses, tgt>>

Believed(set, r) ==
    IF r.op = "Z" THEN set \cup {<<r.type, r.a>>}
    ELSE IF r.op = "z" THEN set \ {<<r.type, r.a>>} ELSE set

(* What the debugger may take memory to hold: what it read, what it stored *)
(* if that was answered OK, the image after a reset; nothing of the bytes  *)
(* a monitor client changed while it was asking.                           *)
Remembered(frame, x) ==
    LET r == gdb.last
    IN  IF x \in gdb.doubt THEN Unknown
        ELSE IF r.op = "m" /\ x \in DOMAIN frame.data THEN frame.data[x]
        ELSE IF r.op \in {"M", "X", "vFlashErase", "vFlashWrite"} /\ x \in Bytes(r)
        THEN IF frame.kind = "done" THEN r.v ELSE Unknown
        ELSE IF r.op \in {"R", "vRun"} THEN Image[x]
        ELSE gdb.mem[x]

GdbAccepts(frame) ==
    IF frame.kind = "console" THEN gdb
    ELSE [gdb EXCEPT !.phase = "ready", !.got = frame, !.accepted = @ + 1,
              !.no_ack = @ \/ gdb.last.op = "QStartNoAckMode",
              !.set = Believed(@, gdb.last),
              !.mem = [x \in RamBytes |-> Remembered(frame, x)],
              !.stop = IF gdb.last.op \in {"c", "s", "vRun"} THEN frame.kind ELSE @]

GdbReads ==
    /\ gdb.phase # "gone" /\ wire.out # <<>>
    /\ LET token == Head(wire.out)
           w == [wire EXCEPT !.out = Tail(@)]
       IN  \/ /\ token.t = "ack" /\ wire' = w
              /\ gdb' = [gdb EXCEPT !.phase = IF @ = "ack" THEN "reply" ELSE @]
           \/ /\ token.t = "nak" /\ gdb' = gdb
              /\ wire' = [w EXCEPT !.in = Append(@, Packet(gdb.last, gdb.n, TRUE))]
           \/ /\ token.t = "frame" /\ ~token.good /\ gdb' = gdb
              /\ wire' = [w EXCEPT !.in = Append(@, Nak)]
           \/ /\ token.t = "frame" /\ token.good
              /\ gdb' = GdbAccepts(token.of)
              /\ wire' = IF gdb.no_ack THEN w ELSE [w EXCEPT !.in = Append(@, Ack)]
    /\ UNCHANGED <<ses, tgt>>

(* Ctrl-C while a resume is unanswered, again only once the last was read. *)
GdbBreaks ==
    /\ Connected /\ gdb.phase = "reply" /\ gdb.last.op = "c" /\ (Impatient \/ ~gdb.broke)
    /\ \A i \in DOMAIN wire.in : wire.in[i].t # "break"
    /\ wire' = [wire EXCEPT !.in = Append(@, Break)]
    /\ gdb' = [gdb EXCEPT !.broke = TRUE]
    /\ UNCHANGED <<ses, tgt>>

GdbCloses ==
    /\ Connected
    /\ wire' = [wire EXCEPT !.in = Append(@, Eof)]
    /\ gdb' = [gdb EXCEPT !.phase = "gone"]
    /\ UNCHANGED <<ses, tgt>>

Server ==
    \/ WaitForInput \/ ReadPacket \/ AwaitAck \/ SwitchNoAck \/ Interrupted
    \/ SliceHitsBreakpoint \/ SliceEnds \/ SliceStops \/ SliceCalls \/ ReportCall

RspSessionNext ==
    Server \/ ServiceEndpoints \/ Accept \/ GdbSends \/ GdbReads \/ GdbBreaks \/ GdbCloses

-----------------------------------------------------------------------------
(* Every packet is executed exactly once, rejected and resent or not; its  *)
(* answer, and no other, is what the debugger takes for it; the session's  *)
(* breakpoints and watchpoints are those the debugger believes in, kinds   *)
(* apart; a reported breakpoint is one of them and '?' repeats the last    *)
(* stop; memory holds what the debugger read, stored or reset it to; and   *)
(* no request to an endpoint changes the board between two slices of a     *)
(* resume.                                                                 *)
SessionExact ==
    /\ ses.dispatched = ses.n
    /\ ses.n <= gdb.n
    /\ gdb.phase = "ready" =>
          /\ gdb.got.n = gdb.n /\ gdb.accepted = gdb.n
          /\ ses.sw = {a \in 0 .. CodeSize - 1 : <<"sw", a>> \in gdb.set}
          /\ ses.hw = {a \in 0 .. CodeSize - 1 : <<"hw", a>> \in gdb.set}
          /\ ses.watch = {a \in RamBytes : <<"watch", a>> \in gdb.set}
          /\ ses.combined = {a \in 0 .. CodeSize - 1 : <<"sw", a>> \in gdb.set \/ <<"hw", a>> \in gdb.set}
          /\ gdb.got.kind = "hwbreak" /\ gdb.last.op = "c" => <<"hw", gdb.got.at>> \in gdb.set
          /\ gdb.got.kind = "swbreak" /\ gdb.last.op = "c" =>
                /\ <<"sw", gdb.got.at>> \in gdb.set /\ <<"hw", gdb.got.at>> \notin gdb.set
          /\ gdb.last.op = "?" => gdb.got.kind = gdb.stop
          /\ \A x \in RamBytes : gdb.mem[x] \in {Unknown, tgt.ram[x]}
    /\ ~tgt.perturbed

(* A packet the debugger waits for the answer of, and the end of the wait. *)
Unanswered == gdb.phase \in {"ack", "reply"}
Answered == gdb.phase \in {"ready", "gone"} \/ ses.phase \in Ended
=============================================================================
