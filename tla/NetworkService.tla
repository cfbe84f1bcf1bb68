--------------------------- MODULE NetworkService ---------------------------
(***************************************************************************)
(* fil serve and fil watch (networkMonitorCommand of src/cli/cli.cpp) with *)
(* the stdio frame decoder of network_protocol.cpp: the network runs in    *)
(* slices, and between slices, or inside one run at window boundaries, the *)
(* client's requests are decoded, applied and answered.                    *)
(*                                                                         *)
(* The client's bytes are numbered; a frame is its header, its payload     *)
(* size and what the handlers find in it.  The decoder's buffer is the     *)
(* interval of the bytes it holds.                                         *)
(***************************************************************************)
EXTENDS Integers, Sequences, FiniteSets

CONSTANTS
    Clients,       \* a sequence of [mode, stream, duration, window]: what is served to whom
    HeaderSize,    \* header_size
    MaxPayload,    \* maximum_payload_size
    ReadLimit,     \* the 4096 bytes one read() takes
    BufferLimit,   \* maximum_buffered_size
    SliceNs,       \* refresh_ns
    InvocationNs,  \* the 10 ms of a run with window controls
    MaxElapsed     \* bound: simulated time beyond this is not told apart

ASSUME ServiceAssumption ==
    /\ HeaderSize \in Nat \ {0} /\ ReadLimit \in Nat \ {0} /\ SliceNs \in Nat \ {0}

VARIABLES
    srv,      \* the command
    pipe,     \* stdin and stdout: bytes written, ends closed
    said      \* frames written to stdout

ServiceVars == <<srv, pipe, said>>

-----------------------------------------------------------------------------
(* The client's stream.                                                    *)
FrameSize(f) == HeaderSize + f.size

(* The number of the last byte of every frame of every client.             *)
Ends ==
    [c \in DOMAIN Clients |->
        LET stream == Clients[c].stream
            upto[k \in 0..Len(stream)] == IF k = 0 THEN 0 ELSE upto[k - 1] + FrameSize(stream[k])
        IN  [k \in 0..Len(stream) |-> upto[k]]]

Stream(s) == Clients[s.client].stream

EndOf(s, i) == Ends[s.client][i]

(* The frame whose header begins after a byte, 0 where none does.          *)
FrameAfter(s, byte) ==
    LET at == {i \in DOMAIN Stream(s) : EndOf(s, i - 1) = byte}
    IN  IF at = {} THEN 0 ELSE CHOOSE i \in at : TRUE

ServiceInit ==
    \E c \in DOMAIN Clients :
        /\ srv = [client |-> c, mode |-> Clients[c].mode, duration |-> Clients[c].duration,
                  window |-> Clients[c].window,
                  phase |-> "start", head |-> 0, tail |-> 0, dphase |-> "header", need |-> 0,
                  now |-> 0, until |-> 0, next_control |-> SliceNs, stdin_eof |-> FALSE,
                  stop |-> FALSE, reason |-> "stop_request", broken |-> FALSE, error |-> "none",
                  result |-> "running", exit |-> "none", applied |-> <<>>]
        /\ pipe = [written |-> 0, closed |-> FALSE, deaf |-> FALSE,
                   total |-> Ends[c][Len(Clients[c].stream)]]
        /\ said = <<>>

-----------------------------------------------------------------------------
(* FrameDecoder::append refuses what would not fit.                        *)
(* Seeded fault: a full frame is all that is provided for. *)
Fits_OneFrame(s, count) == count <= HeaderSize + MaxPayload - (s.tail - s.head)

Fits(s, count) == count <= BufferLimit - (s.tail - s.head)

(* FrameDecoder::next: what the buffer's first bytes are good for.         *)
HeaderKnown(s) ==
    s.dphase = "payload" \/ s.tail - s.head >= HeaderSize

HeaderValid(s) ==
    LET i == FrameAfter(s, s.head)
    IN  i # 0 /\ Stream(s)[i].magic /\ Stream(s)[i].size <= MaxPayload

WithHeader(s) ==
    IF s.dphase = "payload" THEN s
    ELSE [s EXCEPT !.dphase = "payload", !.need = Stream(s)[FrameAfter(s, s.head)].size]

(* Seeded fault: the payload size of the last frame is kept. *)
Erased_KeepsPhase(s) == [s EXCEPT !.head = @ + HeaderSize + s.need]

Erased(s) == [s EXCEPT !.head = @ + HeaderSize + s.need, !.need = 0, !.dphase = "header"]

(* handleProtocolRequest: what the reply says; only a request that is well *)
(* formed, names something and is admitted takes effect.                   *)
Status(f) ==
    IF f.id = 0 THEN "invalid_request"
    ELSE IF f.kind \notin {"can_inject", "adc_set", "gpio_set", "stop"} THEN "unsupported_message"
    ELSE IF ~f.legal THEN "invalid_request"
    ELSE IF ~f.named THEN "unknown_target"
    ELSE IF f.kind = "can_inject" /\ f.full THEN "queue_full"
    ELSE "ok"

Reply(f, time) == [k |-> "reply", id |-> f.id, status |-> Status(f), time |-> time]

(* A request takes effect before its reply is written, STOP only after.    *)
Applied(s, i) ==
    LET f == Stream(s)[i]
    IN  IF Status(f) = "ok" /\ f.kind # "stop" THEN [s EXCEPT !.applied = Append(@, <<i, s.now>>)] ELSE s

Handled(s, i) ==
    LET f == Stream(s)[i]
    IN  IF Status(f) = "ok" /\ f.kind = "stop" THEN [s EXCEPT !.stop = TRUE, !.reason = "stop_request"]
        ELSE Applied(s, i)

DecodeMore(s) == s.error = "none" /\ ~s.stop

(* readProtocolInput's loop: requests are decoded and handled until one is *)
(* incomplete, the stream is in error, a reply cannot be written, or STOP. *)
DecodeOne(d, deaf) ==
    LET s == d.s
        h == WithHeader(s)
        i == FrameAfter(h, h.head)
    IN  IF ~DecodeMore(s) \/ ~HeaderKnown(s) THEN [d EXCEPT !.more = FALSE]
        ELSE IF s.dphase = "header" /\ ~HeaderValid(s)
        THEN [d EXCEPT !.s.error = "protocol", !.more = FALSE]
        ELSE IF h.tail - h.head < HeaderSize + h.need THEN [d EXCEPT !.s = h, !.more = FALSE]
        ELSE IF deaf \/ h.broken
        THEN [d EXCEPT !.s = [Applied(Erased(h), i) EXCEPT !.error = "output"], !.more = FALSE]
        ELSE [d EXCEPT !.s = Handled(Erased(h), i), !.out = Append(@, Reply(Stream(h)[i], h.now))]

RECURSIVE Decode(_, _)
Decode(d, deaf) ==
    IF ~d.more THEN d
    ELSE CHOOSE r \in {Decode(e, deaf) : e \in {DecodeOne(d, deaf)}} : TRUE

(* closeProtocolInput: the end of the input, clean between frames only.    *)
(* Seeded fault: bytes of an incomplete header are not missed. *)
CleanEnd_AnyHeader(s) == s.dphase = "header"

CleanEnd(s) == s.dphase = "header" /\ s.head = s.tail

CloseProtocolInput(s) ==
    IF ~CleanEnd(s) THEN [s EXCEPT !.error = "truncated"]
    ELSE IF s.duration > 0 THEN [s EXCEPT !.stdin_eof = TRUE]
    ELSE [s EXCEPT !.stdin_eof = TRUE, !.reason = "input_eof", !.stop = TRUE]

Readable == pipe.written > srv.tail \/ pipe.closed

(* readProtocolInput: one read() of what there is, up to its limit.        *)
ReadProtocolInput(s) ==
    LET ready == pipe.written - s.tail
        count == IF ready < ReadLimit THEN ready ELSE ReadLimit
        more == {[s |-> [s EXCEPT !.tail = @ + count], out |-> said, more |-> TRUE]}
    IN  IF count = 0 THEN [s |-> CloseProtocolInput(s), out |-> said, more |-> FALSE]
        ELSE IF ~Fits(s, count) THEN [s |-> [s EXCEPT !.error = "limit"], out |-> said, more |-> FALSE]
        ELSE CHOOSE r \in {Decode(d, pipe.deaf) : d \in more} : TRUE

-----------------------------------------------------------------------------
(* HELLO, then one look at the input before anything runs.                 *)
Exit(s, code) == [s EXCEPT !.phase = "ended", !.exit = code]

Start ==
    /\ srv.phase = "start"
    /\ IF srv.mode = "watch" THEN srv' = [srv EXCEPT !.phase = "loop"] /\ UNCHANGED said
       ELSE IF pipe.deaf THEN srv' = Exit(srv, "runtime_error") /\ UNCHANGED said
       ELSE srv' = [srv EXCEPT !.phase = "first"] /\ said' = Append(said, [k |-> "hello"])
    /\ UNCHANGED pipe

FirstPoll ==
    /\ srv.phase = "first"
    /\ IF ~Readable THEN srv' = [srv EXCEPT !.phase = "loop"] /\ UNCHANGED said
       ELSE \E read \in {ReadProtocolInput(srv)} :
                /\ said' = read.out
                /\ srv' = IF read.s.error # "none" THEN Exit(read.s, "runtime_error")
                          ELSE [read.s EXCEPT !.phase = "loop"]
    /\ UNCHANGED pipe

Later(t, by) == IF t + by < MaxElapsed THEN t + by ELSE MaxElapsed

(* The loop: stop, end of the duration, or another run.                    *)
BeginRunSlice ==
    /\ srv.phase = "loop"
    /\ LET left == srv.duration - srv.now
           whole == IF srv.window > 0 /\ InvocationNs > SliceNs THEN InvocationNs ELSE SliceNs
           length == IF srv.duration > 0 /\ left < whole THEN left ELSE whole
       IN  srv' = IF srv.stop THEN [srv EXCEPT !.phase = "finish"]
                  ELSE IF srv.duration > 0 /\ left <= 0
                  THEN [srv EXCEPT !.phase = "finish", !.reason = "duration_reached"]
                  ELSE [srv EXCEPT !.phase = "run", !.until = srv.now + length]
    /\ UNCHANGED <<pipe, said>>

(* The network runs for a window, or for the slice when controls are not   *)
(* looked at inside; a record the client selected is written as it is      *)
(* made, a board may fail and the boards may all stop.                     *)
Traced(s, out) ==
    IF s.mode = "watch" THEN {[s |-> s, out |-> out]}
    ELSE IF pipe.deaf THEN {[s |-> s, out |-> out], [s |-> [s EXCEPT !.broken = TRUE], out |-> out]}
    ELSE {[s |-> s, out |-> out]}

Window(s) == IF s.window = 0 THEN s.until - s.now
             ELSE IF s.window < SliceNs THEN s.window ELSE SliceNs

RunWindow ==
    /\ srv.phase = "run"
    /\ \E t \in Traced(srv, said), result \in {"running", "failed", "stopped"} :
          /\ said' = t.out
          /\ LET end == IF srv.now + Window(srv) < srv.until THEN srv.now + Window(srv) ELSE srv.until
             IN  srv' = [t.s EXCEPT !.now = Later(srv.now, end - srv.now), !.result = result,
                                    !.until = IF end > MaxElapsed THEN MaxElapsed ELSE @,
                                    !.phase = IF result = "failed" THEN "after"
                                              ELSE IF srv.window > 0 THEN "control" ELSE "after"]
    /\ UNCHANGED pipe

(* pollWindowControls, from inside the run: lanes are parked, the input is *)
(* looked at once a slice, and a false answer ends the run.                *)
RunContinues(s) == s.result = "running" /\ s.now < s.until

Controlled(s) ==
    [s EXCEPT !.phase = IF s.error # "none" \/ s.stop \/ s.broken \/ ~RunContinues(s) THEN "after" ELSE "run"]


Postponed(s) == [s EXCEPT !.next_control = Later(s.now, SliceNs)]

WindowControl ==
    /\ srv.phase = "control"
    /\ IF srv.broken \/ (srv.now < srv.next_control /\ srv.now < MaxElapsed) \/ srv.stdin_eof \/ ~Readable
       THEN /\ srv' = Controlled(IF srv.broken \/ srv.now < srv.next_control THEN srv ELSE Postponed(srv))
            /\ UNCHANGED said
       ELSE \E read \in {ReadProtocolInput(Postponed(srv))} :
                srv' = Controlled(read.s) /\ said' = read.out
    /\ UNCHANGED pipe

(* finishProtocol: END is the last frame.                                  *)
EndFrame(reason, code) == [k |-> "end", reason |-> reason, code |-> code]

FinishProtocol(s, reason, code) ==
    IF s.mode = "watch" THEN srv' = Exit([s EXCEPT !.reason = reason], code) /\ UNCHANGED said
    ELSE IF pipe.deaf THEN srv' = Exit([s EXCEPT !.reason = reason], "runtime_error") /\ UNCHANGED said
    ELSE /\ srv' = Exit([s EXCEPT !.reason = reason], code)
         /\ said' = Append(said, EndFrame(reason, code))

(* After the run: errors of the controls and of the output, then of the    *)
(* network, then boards that have all stopped.                             *)
AfterRun ==
    /\ srv.phase = "after"
    /\ IF srv.error # "none" \/ srv.broken
       THEN srv' = Exit(srv, "runtime_error") /\ UNCHANGED said
       ELSE IF srv.result = "failed" THEN FinishProtocol(srv, "runtime_error", "runtime_error")
       ELSE /\ srv' = IF srv.result = "stopped"
                      THEN [srv EXCEPT !.phase = "finish", !.reason = "all_boards_stopped"]
                      ELSE [srv EXCEPT !.phase = IF srv.stdin_eof THEN "loop" ELSE "poll"]
            /\ UNCHANGED said
    /\ UNCHANGED pipe

PollInput ==
    /\ srv.phase = "poll" /\ srv.mode = "serve"
    /\ IF ~Readable THEN srv' = [srv EXCEPT !.phase = "loop"] /\ UNCHANGED said
       ELSE \E read \in {ReadProtocolInput(srv)} :
                /\ said' = read.out
                /\ srv' = IF read.s.error # "none" THEN Exit(read.s, "runtime_error")
                          ELSE [read.s EXCEPT !.phase = "loop"]
    /\ UNCHANGED pipe

(* watch reads one line per slice; a frame stands for a line, and what is  *)
(* not understood is ignored.  getline waits for the end of a line it has  *)
(* the beginning of; at the end of the input what there is of the line is  *)
(* a command if only its end is missing.                                   *)
WatchLine ==
    /\ srv.phase = "poll" /\ srv.mode = "watch"
    /\ LET i == FrameAfter(srv, srv.head)
           whole == i # 0 /\ pipe.written >= EndOf(srv, i)
       IN  \/ /\ whole
              /\ srv' = [Handled(srv, i) EXCEPT !.phase = "loop", !.head = EndOf(srv, i),
                                                !.tail = EndOf(srv, i)]
           \/ /\ ~whole /\ pipe.closed /\ pipe.written > srv.head
              /\ \E s \in {srv, Handled(srv, i)} :
                    srv' = [s EXCEPT !.phase = "loop", !.head = pipe.written, !.tail = pipe.written]
           \/ /\ ~whole /\ pipe.closed /\ pipe.written = srv.head
              /\ srv' = [srv EXCEPT !.stdin_eof = TRUE,
                                    !.phase = IF srv.duration > 0 THEN "loop" ELSE "finish"]
           \/ ~whole /\ ~pipe.closed /\ pipe.written = srv.head /\ srv' = [srv EXCEPT !.phase = "loop"]
    /\ UNCHANGED <<pipe, said>>

(* The end of the command: END says why, unless the output is gone.        *)
EndCommand ==
    /\ srv.phase = "finish"
    /\ LET reason == IF srv.reason # "duration_reached" /\ srv.stdin_eof /\ ~srv.stop
                     THEN "input_eof" ELSE srv.reason
       IN  IF srv.broken THEN srv' = Exit(srv, "runtime_error") /\ UNCHANGED said
           ELSE FinishProtocol(srv, reason, "success")
    /\ UNCHANGED pipe

-----------------------------------------------------------------------------
(* The client writes when it likes, in any pieces, and may close its ends. *)
ClientWrites ==
    /\ ~pipe.closed /\ pipe.written < pipe.total /\ srv.phase # "ended"
    /\ \E n \in pipe.written + 1 .. pipe.total : pipe' = [pipe EXCEPT !.written = n]
    /\ UNCHANGED <<srv, said>>

ClientCloses ==
    /\ ~pipe.closed /\ srv.phase # "ended"
    /\ pipe' = [pipe EXCEPT !.closed = TRUE]
    /\ UNCHANGED <<srv, said>>

ClientGoes ==
    /\ ~pipe.deaf /\ srv.mode = "serve" /\ srv.phase # "ended"
    /\ pipe' = [pipe EXCEPT !.deaf = TRUE]
    /\ UNCHANGED <<srv, said>>

ServiceStep ==
    \/ Start \/ FirstPoll \/ BeginRunSlice \/ RunWindow \/ WindowControl \/ AfterRun \/ PollInput
    \/ WatchLine \/ EndCommand

ServiceNext == ServiceStep \/ ClientWrites \/ ClientCloses \/ ClientGoes

-----------------------------------------------------------------------------
Replies == SelectSeq(said, LAMBDA f : f.k = "reply")

CompleteFrames == {i \in DOMAIN Stream(srv) : EndOf(srv, i) <= srv.tail}

LegalUpTo(i) == \A j \in 1..i : Stream(srv)[j].magic /\ Stream(srv)[j].size <= MaxPayload

AsksStop(i) == Stream(srv)[i].kind = "stop" /\ Status(Stream(srv)[i]) = "ok"

(* The requests of the bytes read so far: complete, in order, up to the    *)
(* first header that is in error and to a STOP.                            *)
Due == {i \in CompleteFrames : LegalUpTo(i) /\ \A j \in 1 .. i - 1 : ~AsksStop(j)}

(* However the stream was cut into reads, every complete request of it is  *)
(* answered once, in order and with its own number, before the network     *)
(* runs on; what was answered "ok" took effect, once and at the time the   *)
(* reply says, and nothing else did; and no legal stream is too long for   *)
(* the buffer.                                                             *)
RequestsAnsweredOnce ==
    srv.mode = "serve" =>
        /\ srv.error \notin {"output"} /\ srv.phase # "start" =>
              /\ Len(Replies) = Cardinality(Due)
              /\ \A n \in 1..Len(Replies) :
                    Replies[n].id = Stream(srv)[n].id /\ Replies[n].status = Status(Stream(srv)[n])
        /\ \A n \in 1..Len(srv.applied) :
              /\ IF srv.applied[n][1] <= Len(Replies)
                 THEN Replies[srv.applied[n][1]].time = srv.applied[n][2]
                 ELSE srv.error = "output"
              /\ n > 1 => srv.applied[n - 1][1] < srv.applied[n][1]
        /\ \A n \in 1..Len(Replies) :
              Replies[n].status = "ok" /\ ~AsksStop(n) => \E k \in 1..Len(srv.applied) : srv.applied[k][1] = n
        /\ srv.error # "limit"

(* Requests take effect between slices.                                    *)
AtSliceBoundaries ==
    \A n \in 1..Len(srv.applied) :
        LET t == srv.applied[n][2]
        IN  \/ t % SliceNs = 0 \/ t = srv.duration \/ t = MaxElapsed
            \/ srv.window > 0 /\ t % InvocationNs = 0

(* A successful service ends with one END, which nothing follows, and a    *)
(* failed one never claims success.  The reason is the one the command     *)
(* reports: STOP was asked for, the duration is over, the boards stopped   *)
(* before the input ended, or the input ended.  The last also stands for   *)
(* boards that stopped after the input of a limited run had ended          *)
(* (cli.cpp:2493-2494): the code and docs/serve_network.md:106-107 and     *)
(* 119-121, which give reason 3 for boards that stop, disagree there, and  *)
(* this states what the code does.                                         *)
EndTrue ==
    /\ \A n \in 1..Len(said) : said[n].k = "end" => n = Len(said) /\ srv.phase = "ended"
    /\ srv.phase = "ended" /\ srv.mode = "serve" /\ srv.exit = "success" =>
          /\ said[Len(said)] = EndFrame(srv.reason, "success")
          /\ srv.error = "none"
          /\ srv.reason = "stop_request" => \E n \in 1..Len(Replies) : AsksStop(n)
          /\ srv.reason = "input_eof" =>
                /\ pipe.closed /\ srv.stdin_eof
                /\ srv.duration = 0 \/ srv.result = "stopped"
                /\ srv.tail = pipe.written /\ srv.tail = EndOf(srv, Len(Replies))
          /\ srv.reason = "duration_reached" => srv.duration > 0 /\ srv.now >= srv.duration
          /\ srv.reason = "all_boards_stopped" => srv.result = "stopped" /\ (srv.stop \/ ~srv.stdin_eof)

ServiceExact == RequestsAnsweredOnce /\ AtSliceBoundaries /\ EndTrue

(* The client asked the service to stop, or hung up.                       *)
AskedToStop ==
    pipe.written = pipe.total /\ (pipe.closed \/ \E i \in DOMAIN Stream(srv) : AsksStop(i))
=============================================================================
