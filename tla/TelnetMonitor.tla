--------------------------- MODULE TelnetMonitor ---------------------------
(***************************************************************************)
(* One client of the telnet monitor (src/debug/monitor.cpp): the bytes of  *)
(* a service() call are run through the telnet filter and the line editor, *)
(* complete lines are executed, and the outbox is flushed afterwards.      *)
(*                                                                         *)
(* Bytes are named for what the code tells apart; "i" and "q" are printed  *)
(* characters, and the line <<"q">> is the quit command.                   *)
(***************************************************************************)
EXTENDS Naturals, Sequences

CONSTANTS
    Bytes8,        \* bytes a client may send
    LineLimit,     \* the 512 characters after which a line starts over
    MaxInput,      \* bound: bytes sent
    MaxChunk       \* bound: bytes one service() finds

VARIABLES
    tel,           \* Client
    heard          \* what was received, executed, and written to the socket

TelnetVars == <<tel, heard>>

Printed == {"i", "q"}
Verbs == {"DO", "DONT", "WILL", "WONT"}

(* acceptClients queues the banner and the first prompt.                   *)
TelnetInit ==
    /\ tel = [line |-> <<>>, outbox |-> <<"banner", "prompt">>, iac |-> "data", verb |-> "DO",
              echo |-> FALSE, skip |-> FALSE, closed |-> FALSE]
    /\ heard = [bytes |-> <<>>, lines |-> <<>>, sent |-> <<>>]

Queue(c, text) == [c EXCEPT !.outbox = @ \o text]

(* negotiate: only echoing is offered, everything else is declined.        *)
Negotiate(c, verb, option) ==
    CASE option = "ECHO" /\ verb = "DO" -> Queue([c EXCEPT !.echo = TRUE], <<"will_echo">>)
      [] option = "ECHO" /\ verb = "DONT" -> Queue([c EXCEPT !.echo = FALSE], <<"wont_echo">>)
      [] option # "ECHO" /\ verb = "DO" -> Queue(c, <<"wont">>)
      [] verb \in {"WILL", "WONT"} -> Queue(c, <<"dont">>)
      [] OTHER -> c

Echoed(c, text) == IF c.echo THEN Queue(c, text) ELSE c

(* executeLine: an empty line only prompts, quit closes, anything else is  *)
(* answered and prompts.                                                   *)
ExecuteLine(c) ==
    LET begun == Echoed([c EXCEPT !.line = <<>>], <<"newline">>)
        answered == IF c.line \in {<<>>, <<"q">>} THEN begun ELSE Queue(begun, <<"answer">>)
    IN  IF c.line = <<"q">> THEN [answered EXCEPT !.closed = TRUE]
        ELSE Queue(answered, <<"prompt">>)

(* handleDataByte: CR, LF and CR LF end a line once; rubout, Ctrl-C and    *)
(* the limit shorten it; control bytes are dropped.                        *)
HandleDataByte(c, byte) ==
    CASE byte = "CR" -> [ExecuteLine(c) EXCEPT !.skip = TRUE]
      [] byte = "LF" -> IF c.skip THEN [c EXCEPT !.skip = FALSE] ELSE ExecuteLine(c)
      [] byte = "BS" ->
            LET d == [c EXCEPT !.skip = FALSE]
            IN  IF c.line = <<>> THEN d
                ELSE Echoed([d EXCEPT !.line = SubSeq(@, 1, Len(@) - 1)], <<"rubout">>)
      [] byte = "^C" -> Echoed([c EXCEPT !.skip = FALSE, !.line = <<>>], <<"^C">>)
      [] byte \in Printed ->
            Echoed([c EXCEPT !.skip = FALSE,
                             !.line = IF Len(@) >= LineLimit THEN <<byte>> ELSE Append(@, byte)],
                   <<byte>>)
      [] OTHER -> [c EXCEPT !.skip = FALSE]

(* processBytes, one byte: the telnet filter in front of the line editor.  *)
(* Seeded fault: a command byte of telnet ends as data. *)
ProcessByte_KeepsVerb(c, byte) ==
    CASE c.iac = "data" /\ byte = "IAC" -> [c EXCEPT !.iac = "command"]
      [] c.iac = "data" /\ byte # "IAC" -> HandleDataByte(c, byte)
      [] c.iac = "command" /\ byte \in Verbs -> [c EXCEPT !.iac = "data", !.verb = byte]
      [] c.iac = "command" /\ byte \notin Verbs -> [c EXCEPT !.iac = "data"]
      [] c.iac = "option" -> Negotiate([c EXCEPT !.iac = "data"], c.verb, byte)

ProcessByte(c, byte) ==
    CASE c.iac = "data" /\ byte = "IAC" -> [c EXCEPT !.iac = "command"]
      [] c.iac = "data" /\ byte # "IAC" -> HandleDataByte(c, byte)
      [] c.iac = "command" /\ byte \in Verbs -> [c EXCEPT !.iac = "option", !.verb = byte]
      [] c.iac = "command" /\ byte \notin Verbs -> [c EXCEPT !.iac = "data"]
      [] c.iac = "option" -> Negotiate([c EXCEPT !.iac = "data"], c.verb, byte)

(* The lines that a byte completes, for the history.                       *)
Completes(c, byte) == c.iac = "data" /\ (byte = "CR" \/ (byte = "LF" /\ ~c.skip))

RECURSIVE Process(_, _, _)
Process(c, lines, bytes) ==
    IF bytes = <<>> \/ c.closed THEN [c |-> c, lines |-> lines]
    ELSE Process(ProcessByte(c, Head(bytes)),
                 IF Completes(c, Head(bytes)) THEN Append(lines, c.line) ELSE lines, Tail(bytes))

(* service(): the bytes that arrived are processed, and the end of the     *)
(* stream after them closes the client; an open client's outbox is written *)
(* as far as the socket takes it, and a send that fails closes it; a       *)
(* closed client is erased.                                                *)
Chunks == UNION {[1..k -> Bytes8] : k \in 0..MaxChunk}

Written(c) == {0, Len(c.outbox) \div 2, Len(c.outbox)}

Flushed(c, n) == [c EXCEPT !.outbox = SubSeq(@, n + 1, Len(@))]

Service ==
    /\ ~tel.closed
    /\ \E chunk \in Chunks, eof \in BOOLEAN :
          /\ Len(heard.bytes) + Len(chunk) <= MaxInput
          /\ LET read == Process(tel, heard.lines, chunk)
                 c == IF eof THEN [read.c EXCEPT !.closed = TRUE] ELSE read.c
             IN  \E n \in IF c.closed THEN {0} ELSE Written(c), fails \in BOOLEAN :
                    /\ fails => ~c.closed /\ n < Len(c.outbox)
                    /\ tel' = [Flushed(c, n) EXCEPT !.closed = c.closed \/ fails]
                    /\ heard' = [bytes |-> heard.bytes \o chunk, lines |-> read.lines,
                                 sent |-> heard.sent \o SubSeq(c.outbox, 1, n)]

TelnetNext == Service

-----------------------------------------------------------------------------
(* The reference: telnet commands are cut out of the whole input first,    *)
(* CR LF is one line end, and each line is edited on its own.              *)
RECURSIVE Stripped(_)
Stripped(s) ==
    IF s = <<>> THEN <<>>
    ELSE IF Head(s) # "IAC" THEN <<Head(s)>> \o Stripped(Tail(s))
    ELSE IF Len(s) >= 2 /\ s[2] \in Verbs THEN Stripped(SubSeq(s, 4, Len(s)))
    ELSE Stripped(SubSeq(s, 3, Len(s)))

LineEnds(s) == {i \in 1..Len(s) : s[i] = "CR" \/ (s[i] = "LF" /\ (i = 1 \/ s[i - 1] # "CR"))}

RECURSIVE Edited(_)
Edited(s) ==
    IF s = <<>> THEN <<>>
    ELSE LET before == Edited(SubSeq(s, 1, Len(s) - 1))
             byte == s[Len(s)]
         IN  IF byte = "^C" THEN <<>>
             ELSE IF byte = "BS" THEN SubSeq(before, 1, IF before = <<>> THEN 0 ELSE Len(before) - 1)
             ELSE IF byte \in Printed
             THEN IF Len(before) = LineLimit THEN <<byte>> ELSE Append(before, byte)
             ELSE before

RECURSIVE CommandsIn(_)
CommandsIn(s) ==
    IF LineEnds(s) = {} THEN <<>>
    ELSE LET e == CHOOSE i \in LineEnds(s) : \A j \in LineEnds(s) : i <= j
             next == IF e < Len(s) /\ s[e] = "CR" /\ s[e + 1] = "LF" THEN e + 2 ELSE e + 1
             line == Edited(SubSeq(s, 1, e - 1))
         IN  IF line = <<"q">> THEN <<line>> ELSE <<line>> \o CommandsIn(SubSeq(s, next, Len(s)))

Occurrences(s, x) == Len(SelectSeq(s, LAMBDA y : y = x))

(* The lines executed are those of the whole input, however the bytes were *)
(* cut into services and telnet commands put between them; and an open     *)
(* client has been, or will be, sent one prompt per line and one answer    *)
(* per command, none lost to partial writes.                               *)
LinesExact ==
    /\ heard.lines = CommandsIn(Stripped(heard.bytes))
    /\ ~tel.closed =>
          LET all == heard.sent \o tel.outbox
          IN  /\ Occurrences(all, "prompt") = Len(heard.lines) + 1
              /\ Occurrences(all, "answer") = Len(SelectSeq(heard.lines, LAMBDA l : l # <<>>))
=============================================================================
