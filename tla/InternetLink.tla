---------------------------- MODULE InternetLink ----------------------------
(***************************************************************************)
(* InternetAPRSInterface: a session with an APRS-IS server, from the       *)
(* connection over the version line and the login to the packets, and what *)
(* ReceiveBroadcastPacket does with them.  LOGFATAL ends the process on    *)
(* every error before the packets and on every error of the socket.        *)
(*                                                                         *)
(* The server is external: it greets, answers the login, and sends lines.  *)
(* A character is a one-letter string, a line a sequence of them.          *)
(***************************************************************************)
EXTENDS BroadcastReceive, FiniteSetsExt, SequencesExt

CONSTANTS
  Chars,              \* the characters a server may send
  Greetings,          \* the first lines a server may send
  Answer,             \* its answer to the login
  Lines,              \* the lines it may send then
  MaxLineLength,      \* kMaxLineLength
  MaxLines            \* bound: lines the server sends

\* A packet, or a text of another kind in its payload.
LineRecord ==
  [kind : {"packet", "other"}, source : Seq(Chars), destination : Seq(Chars),
   path : Seq(Chars), payload : Seq(Chars)]

\* All that the server may say.
ServerLines == Greetings \cup {Answer} \cup Lines

ASSUME InternetAssumption ==
  /\ MaxLineLength \in Nat
  /\ MaxLines \in Nat
  /\ {">", ",", ":", "\r", "\n"} \subseteq Chars
  /\ ServerLines \subseteq LineRecord

VARIABLES
  stage,              \* how far the constructor is; "listening" when it is done
  line,               \* the string ReadLine fills
  stream,             \* what the server sent and nobody read
  given               \* history: the server's lines, as ReadLine will get them

sessionVars == <<stage, line>>
vars == <<dispatchVars, sessionVars, stream, given>>

Newline == <<"\r", "\n">>

-----------------------------------------------------------------------------
(* Lines and their parts.                                                  *)

StartsWith(text, prefix) == IsPrefix(prefix, text)

\* find(c, from), 0 for npos.
Find(text, c, from) ==
  LET places == {i \in from..Len(text) : text[i] = c}
  IN  IF places = {} THEN 0 ELSE Min(places)

\* FromString: the SSID is cut off and not parsed.
Callsign(text) ==
  LET dash == Find(text, "-", 1)
  IN  [callsign |-> IF dash = 0 THEN text ELSE SubSeq(text, 1, dash - 1), ssid |-> 0]

\* Receive returns true.
IsReceived(text) ==
  LET separator == Find(text, ">", 1)
  IN  /\ separator # 0
      /\ Find(text, ",", separator) # 0
      /\ Find(text, ":", 1) # 0

\* Mutant: the payload with the colon.
PayloadWithColon(text) == SubSeq(text, Find(text, ":", 1), Len(text))
Payload(text) == SubSeq(text, Find(text, ":", 1) + 1, Len(text))

\* What it stores for the caller.
ReceivedFrame(text) ==
  LET separator == Find(text, ">", 1)
      comma == Find(text, ",", separator)
  IN  [source |-> Callsign(SubSeq(text, 1, separator - 1)),
       destination |-> Callsign(SubSeq(text, separator + 1, comma - 1)),
       payload |-> Payload(text)]

IsPacket(l) == l.kind = "packet"

TextOf(l) ==
  IF IsPacket(l)
  THEN l.source \o <<">">> \o l.destination \o <<",">> \o l.path \o <<":">> \o l.payload
  ELSE l.payload

-----------------------------------------------------------------------------
(* Lines and the limit.                                                    *)

\* ReadLine starts again when it has read one character more than the limit:
\* what it holds of the line text at its end, the end included, and returns.
Unit == MaxLineLength + 1
HeldAtEnd(text) == (Len(text) + 2) % Unit
Rest(text) == SubSeq(text, Len(text) + 2 - HeldAtEnd(text) + 1, Len(text))

\* When it starts again between the two characters of the end, the second is
\* taken for the first character of the next line.
LeftBehind(text) == IF HeldAtEnd(text) = 1 THEN <<"\n">> ELSE <<>>
Behind(l, left) ==
  IF IsPacket(l) THEN [l EXCEPT !.source = left \o @] ELSE [l EXCEPT !.payload = left \o @]

-----------------------------------------------------------------------------
(* The server.                                                             *)

Init ==
  /\ DispatchInit
  /\ stage = "connecting"
  /\ line = <<>>
  /\ stream = <<>>
  /\ given = <<>>

\* The first line when the connection is open, the second when the login was
\* read, packets and other lines from then on.
MayGive ==
  CASE given = <<>> -> IF stage = "connecting" THEN {} ELSE Greetings
    [] Len(given) = 1 -> IF stage = "authenticating" THEN {Answer} ELSE {}
    [] OTHER -> Lines

\* What is left of the line given last.
Left == IF given = <<>> THEN <<>> ELSE LeftBehind(TextOf(Last(given)))

ServerGives ==
  /\ Len(given) < MaxLines
  /\ \E l \in MayGive :
       /\ stream' = stream \o TextOf(l) \o Newline
       /\ given' = Append(given, Behind(l, Left))
  /\ UNCHANGED <<dispatchVars, sessionVars>>

-----------------------------------------------------------------------------
(* The constructor and the calls of Receive.                               *)

\* LOGFATAL.
Exit ==
  /\ running' = FALSE
  /\ UNCHANGED <<pushed, sessionVars, stream, given>>

\* A failure to resolve the host or to open the socket is fatal.
Connect ==
  /\ running
  /\ stage = "connecting"
  /\ \/ /\ stage' = "reading version"
        /\ UNCHANGED <<dispatchVars, line, stream, given>>
     \/ Exit

\* Mutants: no limit; a limit one character lower.
TooLongNever(n) == FALSE
TooLongEarly(n) == n >= MaxLineLength
TooLong(n) == n > MaxLineLength

\* ReadLine takes one character of the socket.
ReadChar ==
  /\ running
  /\ stage # "connecting"
  /\ stream # <<>>
  /\ stream' = Tail(stream)
  /\ UNCHANGED given

\* The line with the next character, which may be its last.
Extended == Append(line, Head(stream))
EndsLine == Len(line) > 0 /\ <<Last(line), Head(stream)>> = Newline

ReadOn ==
  /\ ReadChar
  /\ ~TooLong(Len(line) + 1)
  /\ ~EndsLine
  /\ line' = Extended
  /\ UNCHANGED <<dispatchVars, stage>>

\* Mutant: what was read is kept.
ReadTooLongKeeping ==
  /\ ReadChar
  /\ TooLong(Len(line) + 1)
  /\ running' = (stage = "listening")
  /\ UNCHANGED <<pushed, stage, line>>

\* Fatal during the login; later Receive returns false, and the next call
\* starts with the rest of the line.
ReadTooLong ==
  /\ ReadChar
  /\ TooLong(Len(line) + 1)
  /\ line' = <<>>
  /\ running' = (stage = "listening")
  /\ UNCHANGED <<pushed, stage>>

\* ReadLine returns true, the line without its end in text.
ReadLine ==
  /\ ReadChar
  /\ ~TooLong(Len(line) + 1)
  /\ EndsLine
  /\ line' = <<>>

Text == Front(line)

\* The version line, and then Authenticate writes the login.
ReadServerVersion ==
  /\ stage = "reading version"
  /\ ReadLine
  /\ UNCHANGED pushed
  /\ \/ /\ StartsWith(Text, <<"#", " ">>)
        /\ stage' = "authenticating"
        /\ UNCHANGED running
     \/ /\ ~StartsWith(Text, <<"#", " ">>)
        /\ running' = FALSE
        /\ UNCHANGED stage

\* Any line will do for an answer.
ReadAnswer ==
  /\ stage = "authenticating"
  /\ ReadLine
  /\ stage' = "listening"
  /\ UNCHANGED dispatchVars

\* An empty line and a server's message are passed over; a line that is no
\* packet makes Receive return false, and it is called again.
Receive ==
  /\ stage = "listening"
  /\ ReadLine
  /\ UNCHANGED stage
  /\ \/ /\ ~StartsWith(Text, <<"#">>)
        /\ IsReceived(Text)
        /\ Dispatch(ReceivedFrame(Text))
     \/ /\ StartsWith(Text, <<"#">>) \/ ~IsReceived(Text)
        /\ UNCHANGED dispatchVars

\* The version and the answer must come within 100 ms each.
LoginTimeout ==
  /\ running
  /\ stage \in {"reading version", "authenticating"}
  /\ Exit

\* The server closes the connection, or writing the login fails.
ConnectionLost ==
  /\ running
  /\ stage # "connecting"
  /\ Exit

Read == ReadOn \/ ReadTooLong \/ ReadServerVersion \/ ReadAnswer \/ Receive

Next == ServerGives \/ Connect \/ Read \/ LoginTimeout \/ ConnectionLost

Spec == Init /\ [][Next]_vars

\* ReadLine polls the socket for as long as it is called.
FairSpec == Spec /\ WF_vars(Read)

-----------------------------------------------------------------------------
\* A line in the making never outgrows the limit nor holds the end of a line.
TypeOK ==
  /\ line \in Seq(Chars) /\ stream \in Seq(Chars) /\ given \in Seq(LineRecord)
  /\ stage \in {"connecting", "reading version", "authenticating", "listening"}
  /\ Len(line) <= MaxLineLength
  /\ \A i \in 1..(Len(line) - 1) : SubSeq(line, i, i + 1) # Newline
  /\ Len(given) <= MaxLines
  /\ running \in BOOLEAN

Fits(l) == Len(TextOf(l)) + 2 <= MaxLineLength

\* What PushPacketChunk should get: the packets to the broadcast callsign that
\* are no longer than the limit, with their end.
HasText(l) ==
  IsPacket(l) /\ Fits(l) /\ l.destination = Broadcast.callsign /\ l.payload # <<>>
LineText(l) == [source |-> Callsign(l.source), text |-> Tail(l.payload)]

TextsOf(lines) ==
  LET first[n \in 0..Len(lines)] ==
        IF n = 0 THEN <<>>
        ELSE IF HasText(lines[n]) THEN Append(first[n - 1], LineText(lines[n]))
        ELSE first[n - 1]
  IN  first[Len(lines)]

Expected == TextsOf(given)

Interface == INSTANCE FrameLink WITH MayDrop <- FALSE, sent <- Expected, passed <- pushed

\* "Reads a line from the APRS-IS server" (internet_aprs_interface.h:60): a
\* session is what FrameLink says.  The server's packets to the broadcast
\* callsign that are within the limit are passed on, each once and in order,
\* and nothing is cut out of another line, as long as what is left of a longer
\* one is no packet of its own (ServerIsSound).  They are passed on as they
\* were sent, except behind a line that the limit cuts between "\r" and "\n":
\* that packet gets the "\n" before its source, and counts only if it is still
\* within the limit then.
ImplementsFrameLink == Interface!Spec

\* When all was read, all of them were; one behind a line cut between "\r" and
\* "\n" included, unless the "\n" before it makes it too long.
NoPacketSkipped ==
  running /\ stage = "listening" /\ stream = <<>> => Len(pushed) >= Len(Expected)

\* As long as the session lives they are passed on at some time, whatever lines
\* come before and behind them.  Only the packet that the "\n" of a line cut at
\* the limit makes too long is lost with it, and it takes nothing else along.
PacketsArrive ==
  \A n \in 1..MaxLines : Len(Expected) >= n ~> Len(pushed) >= n \/ ~running

-----------------------------------------------------------------------------
(* What the proofs ask of a server; its lines are fixed.                   *)

\* ReceiveBroadcastPacket passes the line text on.
Goes(text) ==
  /\ ~StartsWith(text, <<"#">>)
  /\ IsReceived(text)
  /\ IsBroadcast(ReceivedFrame(text))
  /\ ReceivedFrame(text).payload # <<>>

\* The end of a line does not stand within text.
OneLine(text) == \A i \in 1..(Len(text) - 1) : <<text[i], text[i + 1]>> # Newline

Lacks(text, c) == \A i \in 1..Len(text) : text[i] # c

\* Every part of a packet can be told from the next.
WellFormed(l) ==
  /\ ~StartsWith(TextOf(l), <<"#">>)
  /\ Lacks(l.source, ">") /\ Lacks(l.source, ":")
  /\ Lacks(l.destination, ",") /\ Lacks(l.destination, ":")
  /\ Lacks(l.path, ":")
  /\ Callsign(l.destination) = Broadcast <=> l.destination = Broadcast.callsign

\* What a line of another kind, or too long, holds at its end is not passed on.
NoPacket(l) == HeldAtEnd(TextOf(l)) > 1 => ~Goes(Rest(TextOf(l)))

ReadSoundly(l) == IF IsPacket(l) /\ Fits(l) THEN WellFormed(l) ELSE NoPacket(l)

\* What the server says are lines of a server, behind a "\n" as well.
ServerIsSound ==
  /\ \A l \in ServerLines : OneLine(TextOf(l))
  /\ \A l \in Greetings \cup {Answer} : ~IsPacket(l)
  /\ \A l \in Lines : ReadSoundly(l) /\ ReadSoundly(Behind(l, <<"\n">>))
=============================================================================
